------------------------------- MODULE UpGate -------------------------------
(***************************************************************************)
(* What `up` decides before it runs anything: the plan it builds from the  *)
(* inference (plan.ts) and the ordered refusals of run.ts.  An input is a   *)
(* record of the facts `inferRepo` found and of the options of the command  *)
(* line; the definitions here are functions of that record, and BootRun     *)
(* executes what they let through.                                          *)
(***************************************************************************)
EXTENDS Naturals, Sequences, FiniteSets

Providers == {"local", "docker"}
Backends  == {"none", "go", "ruby", "python"}

(* Facts of `inferRepo` and options of `up`.  A fact is kept only as far    *)
(* as a refusal or a plan step tells it apart: `builds` counts the          *)
(* source-built Compose services, `workspaces` the workspace candidates and *)
(* `prep` the preparation commands; "ruby" stands for the make-driven stack *)
(* too and "python" for the PHP one, which no refusal tells apart.          *)
Facts ==
  [appCommand : BOOLEAN, backend : Backends, workspaces : 0..2,
   builds : 0..2, repoCompose : BOOLEAN, composeHealth : BOOLEAN,
   services : BOOLEAN, flaskSetup : BOOLEAN, multi : BOOLEAN,
   incomplete : BOOLEAN, prep : 0..2, versionMismatch : BOOLEAN]

Options ==
  [provider : Providers, unsafeLocal : BOOLEAN, dryRun : BOOLEAN,
   remote : BOOLEAN, workspace : BOOLEAN, install : BOOLEAN,
   command : BOOLEAN]

Inputs == [facts : Facts, opts : Options]

(* The combinations `inferRepo` can return: a published HTTP candidate      *)
(* comes from exactly one source-built service of a repository Compose      *)
(* file, the Flask set-up belongs to a Python backend, and the facts about  *)
(* the application command presuppose one.                                  *)
Inferable(i) ==
  LET f == i.facts IN
  /\ f.composeHealth => f.builds = 1
  /\ f.builds > 0 => f.repoCompose
  /\ f.flaskSetup => f.backend = "python"
  /\ f.multi \/ f.prep > 0 => f.appCommand
  /\ f.incomplete => f.appCommand /\ f.backend = "go"
  /\ i.opts.workspace => f.workspaces = 0

-----------------------------------------------------------------------------
(* `looksLikeLibrary` runs on the inferred command, before --command.       *)
IsApplication(i) ==
  \/ i.facts.appCommand
  \/ i.facts.workspaces > 0
  \/ i.facts.backend # "none"
  \/ i.facts.builds > 0

(* --command supplies a command and withdraws the doubts about the          *)
(* inferred one, not the verdict of `looksLikeLibrary`.                     *)
HasCommand(i) == i.facts.appCommand \/ i.opts.command
IsMulti(i)      == i.facts.multi /\ ~i.opts.command
IsIncomplete(i) == i.facts.incomplete /\ ~i.opts.command

(* `runsSourceComposeApplication`: the repository's own Compose file is the *)
(* application.                                                             *)
RunsSourceCompose(i) == i.opts.provider = "docker" /\ i.facts.composeHealth

(* Whether inference left any URL to poll before the process prints one.    *)
HasCandidates(i) == i.facts.appCommand \/ i.facts.composeHealth

-----------------------------------------------------------------------------
(* buildPlan: the kinds of the steps, in order.                             *)
ServiceSteps(i) ==
  IF i.opts.provider = "docker" /\ (i.facts.repoCompose \/ i.facts.services)
    THEN <<"service">> ELSE <<>>

(* Faulty variant: the Compose application does not replace the host steps. *)
HostStepsAlways(i) ==
  [k \in 1..i.facts.prep |-> "install"]
    \o (IF HasCommand(i) THEN <<"start-app">> ELSE <<>>)

HostSteps(i) ==
  IF RunsSourceCompose(i)
    THEN <<>>
    ELSE [k \in 1..i.facts.prep |-> "install"]
           \o (IF HasCommand(i) THEN <<"start-app">> ELSE <<>>)

HealthSteps(i) ==
  IF IsApplication(i) /\ HasCandidates(i) THEN <<"health">> ELSE <<>>

PlanSteps(i) == ServiceSteps(i) \o HostSteps(i) \o HealthSteps(i)

(* plan.generatedFiles is not empty (only the Compose file is modelled: the *)
(* env example is written under no other condition than its own content).   *)
GeneratesFiles(i) == i.facts.services /\ ~i.facts.repoCompose

-----------------------------------------------------------------------------
(* A refusal: when it applies and the failure class it records.  The tables *)
(* list the refusals of `up` in source order; the first that applies wins.  *)
Refusal(w, c) == [when |-> w, class |-> c]

(* unsupportedOrchestrationExplanation: a Python or PHP backend without a   *)
(* command has none.                                                        *)
UnsupportedOrchestration(i) ==
  /\ ~HasCommand(i)
  /\ \/ i.facts.builds > 1
     \/ i.facts.builds = 1 /\ ~i.facts.composeHealth
     \/ i.facts.backend \in {"go", "ruby"}

Acknowledged(i) == i.opts.provider = "local" /\ i.opts.unsafeLocal

EarlyRefusals(i) == <<
  Refusal(~IsApplication(i), "not_an_application"),
  Refusal(i.facts.flaskSetup, "python_flask_setup_required"),
  Refusal(UnsupportedOrchestration(i) /\ ~RunsSourceCompose(i)
            /\ i.facts.backend = "go",
          "go_service_orchestration_not_supported"),
  Refusal(UnsupportedOrchestration(i) /\ ~RunsSourceCompose(i),
          "orchestration_not_supported"),
  Refusal(~HasCommand(i) /\ i.facts.composeHealth
            /\ i.opts.provider # "docker",
          "orchestration_not_supported"),
  Refusal(~i.opts.workspace /\ i.facts.workspaces > 1 /\ ~HasCommand(i),
          "workspace_ambiguous"),
  Refusal(i.opts.remote /\ ~i.opts.dryRun /\ ~Acknowledged(i),
          "host_execution_not_acknowledged"),
  Refusal(i.opts.provider = "local" /\ ~i.opts.unsafeLocal,
          "host_execution_not_acknowledged") >>

(* After the return of a dry run.                                           *)
LateRefusals(i) == <<
  Refusal(IsMulti(i), "workspace_ambiguous"),
  Refusal(~RunsSourceCompose(i) /\ i.facts.prep > 0 /\ ~i.opts.install,
          "dependency_install_skipped"),
  Refusal(i.opts.provider = "docker" /\ ~RunsSourceCompose(i)
            /\ HostSteps(i) # <<>>,
          "orchestration_not_supported"),
  Refusal(i.opts.install /\ i.facts.versionMismatch,
          "package_manager_version_mismatch"),
  Refusal(IsIncomplete(i), "orchestration_not_supported") >>

Applying(table) == {k \in DOMAIN table : table[k].when}

Refuses(table) == Applying(table) # {}

(* The class of the first refusal that applies.                             *)
RefusalClass(table) ==
  table[CHOOSE k \in Applying(table) : \A j \in Applying(table) : k <= j].class

RefusalClasses ==
  {"not_an_application", "python_flask_setup_required",
   "go_service_orchestration_not_supported", "orchestration_not_supported",
   "workspace_ambiguous", "host_execution_not_acknowledged",
   "dependency_install_skipped", "package_manager_version_mismatch",
   "health_preoccupied"}
=============================================================================
