------------------------------ MODULE MCBootRun -----------------------------
(***************************************************************************)
(* Small instances of BootRun: sets of inputs for the .cfg files to choose  *)
(* from.  The URLs are strings; "inferred" is a candidate of the inference, *)
(* "printed" one that only the output of the application advertises, on     *)
(* another port.                                                            *)
(***************************************************************************)
EXTENDS BootRun

Repo ==
  [appCommand |-> TRUE, backend |-> "none", workspaces |-> 0, builds |-> 0,
   repoCompose |-> FALSE, composeHealth |-> FALSE, services |-> FALSE,
   flaskSetup |-> FALSE, multi |-> FALSE, incomplete |-> FALSE, prep |-> 0,
   versionMismatch |-> FALSE]

Local ==
  [provider |-> "local", unsafeLocal |-> TRUE, dryRun |-> FALSE,
   remote |-> FALSE, workspace |-> FALSE, install |-> FALSE,
   command |-> FALSE]

Docker == [Local EXCEPT !.provider = "docker", !.unsafeLocal = FALSE]

(* An application command on the host.                                      *)
LocalApp == {[facts |-> Repo, opts |-> Local]}

(* The same after one preparation command.                                  *)
PreparedApp ==
  {[facts |-> [Repo EXCEPT !.prep = 1],
    opts  |-> [Local EXCEPT !.install = TRUE]]}

(* A source-built Compose application.                                      *)
ComposeRepo ==
  [Repo EXCEPT !.appCommand = FALSE, !.builds = 1, !.repoCompose = TRUE,
               !.composeHealth = TRUE]
ComposeApp == {[facts |-> ComposeRepo, opts |-> Docker]}

(* A Go service that --command gives the command inference did not find:    *)
(* nothing is polled before the process prints a URL.                       *)
CommandOnly ==
  {[facts |-> [Repo EXCEPT !.appCommand = FALSE, !.backend = "go"],
    opts  |-> [Local EXCEPT !.command = TRUE]]}

QuietApps == PreparedApp \cup ComposeApp \cup CommandOnly

(* The inputs of the gate: every combination of the options with the facts  *)
(* that `inferRepo` can return, at most one of the four doubts about the    *)
(* command at a time, one preparation command, any number of workspaces; a  *)
(* Python backend where it needs set-up or nothing else tells how to start, *)
(* and services only without workspaces, --workspace and a remote source.   *)
GateFacts ==
  [appCommand : BOOLEAN, backend : {"none", "go", "python"}, workspaces : 0..2,
   builds : 0..2, repoCompose : BOOLEAN, composeHealth : BOOLEAN,
   services : BOOLEAN, flaskSetup : BOOLEAN, multi : BOOLEAN,
   incomplete : BOOLEAN, prep : 0..1, versionMismatch : BOOLEAN]

Doubts(f) ==
  {d \in {"flaskSetup", "multi", "incomplete", "versionMismatch"} : f[d]}

GateInputs ==
  {i \in [facts : {f \in GateFacts : Cardinality(Doubts(f)) <= 1},
          opts : Options] :
     /\ Inferable(i)
     /\ ~(i.opts.workspace /\ i.opts.remote)
     /\ i.facts.backend = "python" => i.facts.flaskSetup \/ ~i.facts.appCommand
     /\ i.facts.services =>
          i.facts.workspaces = 0 /\ ~i.opts.workspace /\ ~i.opts.remote}
=============================================================================
