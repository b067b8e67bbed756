------------------------------- MODULE CiAction -------------------------------
(***************************************************************************)
(* The GitHub Action (scripts/github-action.mjs, github-action-enforce.mjs  *)
(* and the steps of action.yml).  A job uses the action several times, one  *)
(* after another, in one workspace and with one artifact directory.  Other  *)
(* jobs run side by side with it and share the comments of the pull request *)
(* and nothing else: all that is seen of them is what they do there.        *)
(***************************************************************************)
EXTENDS Naturals, Sequences, FiniteSets

CONSTANTS
  Absent, Torn,    (* no such file; half written                            *)
  MaxUses,         (* bound: how often the job uses the action              *)
  InputSet,        (* the inputs a use may be given                         *)
  Page,            (* per_page: the comments a look-up returns (100)        *)
  MaxRivals,       (* bound: how often another job looks up the comments    *)
  MaxOthers        (* bound: the comments that people write                 *)

ASSUME BoundAssumption == {MaxUses, Page, MaxRivals, MaxOthers} \subseteq Nat
ASSUME FileAssumption ==
  /\ Absent # Torn
  /\ \A n \in 0..MaxUses, v \in BOOLEAN :
       [of |-> n, verified |-> v] \notin {Absent, Torn}
  /\ \A n, m \in 0..MaxUses : [by |-> n, of |-> m] # Absent
ASSUME InputAssumption ==
  InputSet \subseteq [valid : BOOLEAN, strict : BOOLEAN, diff : BOOLEAN,
                      drift : BOOLEAN, entry : BOOLEAN, receipt : BOOLEAN,
                      plan : BOOLEAN, comment : BOOLEAN]

VARIABLES
  at,        (* where the job is                                            *)
  use,       (* how many uses it has begun: the number of the present one   *)
  now,       (* what the present use knows, see Started                     *)
  disk,      (* the files of the job, see Checkout                          *)
  comments,  (* of the pull request, oldest first                           *)
  rival,     (* another job: away, or what its look-up found                *)
  rivals,    (* how often it looked them up                                 *)
  raced,     (* history: both were between look-up and post                 *)
  crowded    (* history: a look-up did not return every comment             *)

thread == <<comments, rival, rivals, raced, crowded>>
vars == <<at, use, now, disk, thread>>

Whole(x) == x \notin {Absent, Torn}
Silent == [json |-> FALSE, verified |-> FALSE, attested |-> FALSE, code |-> 1]

(* The variables of executeAction, the outputs and the outcome.             *)
Started(inputs) ==
  [inputs |-> inputs, up |-> Silent, read |-> Absent, wrong |-> FALSE,
   drifted |-> FALSE, fresh |-> Absent, found |-> FALSE, published |-> FALSE,
   outcome |-> "none"]

(* attestation.json, registry-entry.json and registry/ of .bootproof, and   *)
(* what is staged.  A repository may have committed the former; 0 stands    *)
(* for the run they are of.                                                 *)
NoArtifacts == [attestation |-> Absent, entry |-> Absent, receipt |-> Absent,
                verdict |-> Absent]
Checkout(committed) ==
  [proof |-> IF committed THEN [of |-> 0, verified |-> TRUE] ELSE Absent,
   entry |-> IF committed THEN [by |-> 0, of |-> 0] ELSE Absent,
   receipts |-> {}, artifacts |-> NoArtifacts]

Init ==
  /\ at = "idle" /\ use = 0
  /\ \E i \in InputSet : now = Started(i)
  /\ disk \in {Checkout(c) : c \in BOOLEAN}
  /\ comments = <<>> /\ rival = "away" /\ rivals = 0
  /\ raced = FALSE /\ crowded = FALSE
-----------------------------------------------------------------------------
Goes(place) == at' = place
Notes(error) == now' = [now EXCEPT !.wrong = @ \/ error]
Own(verified) == [of |-> use, verified |-> verified]
Copy == [by |-> use, of |-> disk.proof.of]

(* The handler of main(): a failing verdict beside whatever is there.       *)
Halts ==
  /\ disk' = [disk EXCEPT !.artifacts.verdict = [by |-> use', fail |-> TRUE],
                          !.entry = IF at = "entry" THEN Absent ELSE @]
  /\ Goes("publish")

(* Faulty variant: a use finds the artifacts of the use before it.          *)
BeginUncleared(i) ==
  /\ at = "idle" /\ use < MaxUses
  /\ use' = use + 1 /\ now' = Started(i)
  /\ IF i.valid THEN Goes("up") /\ UNCHANGED disk ELSE Halts
  /\ UNCHANGED thread

(* Inputs are judged before the artifact directory is emptied.              *)
Begin(i) ==
  /\ at = "idle" /\ use < MaxUses
  /\ use' = use + 1 /\ now' = Started(i)
  /\ IF i.valid
       THEN disk' = [disk EXCEPT !.artifacts = NoArtifacts] /\ Goes("up")
       ELSE Halts
  /\ UNCHANGED thread

(* What `up . --ci --json` may print: a boot or a failure, a boot by a      *)
(* process that was killed after it printed it, an exception, or nothing by *)
(* one that was killed before; and the attestation that each may leave.     *)
Printed(verified, code) ==
  [json |-> TRUE, verified |-> verified, attested |-> TRUE, code |-> code]
UpResults ==
  {Printed(TRUE, 0), Printed(FALSE, 1), Printed(TRUE, 1),
   [Silent EXCEPT !.json = TRUE], Silent}
Leaves(up) ==
  IF up.attested THEN {Own(up.verified)}
  ELSE {disk.proof, Torn} \cup (IF up.json THEN {} ELSE {Own(TRUE), Own(FALSE)})

(* The command, its result and the attestation the result names.            *)
RunUp ==
  /\ at = "up"
  /\ \E up \in UpResults : \E left \in Leaves(up) :
       /\ now' = [now EXCEPT !.up = up, !.wrong = ~up.json,
                             !.read = IF up.attested THEN left ELSE Absent]
       /\ disk' = [disk EXCEPT !.proof = left]
  /\ Goes("diff")
  /\ UNCHANGED <<use, thread>>

RunDiff ==
  /\ at = "diff"
  /\ \E fails, d \in BOOLEAN :
       now' = [now EXCEPT !.wrong = @ \/ (now.inputs.diff /\ fails),
                          !.drifted = now.inputs.diff /\ d]
  /\ Goes("entry")
  /\ UNCHANGED <<use, disk, thread>>

(* Faulty variant: an entry of an earlier use is left where it is.          *)
ExportEntryOver ==
  /\ at = "entry"
  /\ \/ ~now.inputs.entry /\ UNCHANGED <<now, disk>>
     \/ now.inputs.entry /\ Notes(TRUE) /\ UNCHANGED disk
     \/ /\ now.inputs.entry /\ Whole(disk.proof)
        /\ \E fails \in BOOLEAN : Notes(fails)
        /\ disk' = [disk EXCEPT !.entry = Copy]
  /\ Goes("receipt")
  /\ UNCHANGED <<use, thread>>

(* `registry export` is made of the attestation in the workspace, whose run *)
(* it may be.                                                               *)
ExportEntry ==
  /\ at = "entry"
  /\ \/ ~now.inputs.entry /\ UNCHANGED <<now, disk>>
     \/ /\ now.inputs.entry /\ Notes(TRUE)
        /\ disk' = [disk EXCEPT !.entry = Absent]
     \/ /\ now.inputs.entry /\ Whole(disk.proof)
        /\ \E fails \in BOOLEAN : Notes(fails)
        /\ disk' = [disk EXCEPT !.entry = Copy]
  /\ Goes("receipt")
  /\ UNCHANGED <<use, thread>>

(* `registry export --federated` adds a file; only a new one is taken.      *)
ExportReceipt ==
  /\ at = "receipt"
  /\ \/ ~now.inputs.receipt /\ UNCHANGED <<now, disk>>
     \/ now.inputs.receipt /\ Notes(TRUE) /\ UNCHANGED disk
     \/ /\ now.inputs.receipt /\ Whole(disk.proof)
        /\ \E fails \in BOOLEAN :
             now' = [now EXCEPT !.wrong = @ \/ fails, !.fresh = Copy]
        /\ disk' = [disk EXCEPT !.receipts = @ \cup {Copy}]
  /\ Goes("plan")
  /\ UNCHANGED <<use, thread>>

(* The agent plan that may lie in the workspace, if it is to be summarised. *)
ReadPlan ==
  /\ at = "plan"
  /\ \E fails \in BOOLEAN : Notes(now.inputs.plan /\ fails)
  /\ Goes("comment")
  /\ UNCHANGED <<use, disk, thread>>

(* A command that cannot be started ends the use.                           *)
CannotStart ==
  /\ \/ at = "up"
     \/ at \in {"diff", "entry", "receipt"} /\ now.inputs[at]
  /\ UNCHANGED <<use, now, thread>> /\ Halts
-----------------------------------------------------------------------------
(* postStickyComment.  Neither request needs to succeed.                    *)
SkipComment ==
  /\ at \in {"comment", "post"}
  /\ Goes("conclude")
  /\ UNCHANGED <<use, now, disk, thread>>

Sticky == {n \in 1..Len(comments) : comments[n] = "sticky"}
Found == \E n \in Sticky : n <= Page
Posted(found) == IF found THEN comments ELSE Append(comments, "sticky")

LookUp ==
  /\ at = "comment" /\ now.inputs.comment
  /\ now' = [now EXCEPT !.found = Found]
  /\ raced' = (raced \/ rival # "away")
  /\ crowded' = (crowded \/ Len(comments) > Page)
  /\ Goes("post")
  /\ UNCHANGED <<use, disk, comments, rival, rivals>>

(* Faulty variant: each use posts a comment.                                *)
PostAnew ==
  /\ at = "post"
  /\ comments' = Posted(FALSE)
  /\ Goes("conclude")
  /\ UNCHANGED <<use, now, disk, rival, rivals, raced, crowded>>

Post ==
  /\ at = "post"
  /\ comments' = Posted(now.found)
  /\ Goes("conclude")
  /\ UNCHANGED <<use, now, disk, rival, rivals, raced, crowded>>

(* The same in another job, which may give up at any point.                 *)
RivalLooksUp ==
  /\ rival = "away" /\ rivals < MaxRivals
  /\ rivals' = rivals + 1
  /\ rival' = IF Found THEN "found" ELSE "missed"
  /\ raced' = (raced \/ at = "post")
  /\ crowded' = (crowded \/ Len(comments) > Page)
  /\ UNCHANGED <<at, use, now, disk, comments>>

RivalPosts ==
  /\ rival # "away" /\ rival' = "away"
  /\ comments' \in {comments, Posted(rival = "found")}
  /\ UNCHANGED <<at, use, now, disk, rivals, raced, crowded>>

SomebodyComments ==
  /\ Len(comments) - Cardinality(Sticky) < MaxOthers
  /\ comments' = Append(comments, "person")
  /\ UNCHANGED <<at, use, now, disk, rival, rivals, raced, crowded>>
-----------------------------------------------------------------------------
Verified == now.up.verified /\ Whole(now.read) /\ now.read.verified

(* Faulty variant: the attestation decides, whatever the command's exit.    *)
FailsUnlessAttested ==
  \/ now.wrong
  \/ now.up.code = 0 /\ ~Verified
  \/ now.inputs.drift /\ now.drifted
  \/ now.inputs.strict /\ ~Verified

ShouldFail ==
  \/ now.wrong
  \/ now.up.attested /\ ~Whole(now.read)
  \/ (now.up.code = 0) # Verified
  \/ now.inputs.drift /\ now.drifted
  \/ now.inputs.strict /\ ~Verified

(* The evidence is staged and the verdict written.                          *)
Conclude ==
  /\ at = "conclude"
  /\ disk' = [disk EXCEPT
       !.artifacts.attestation = IF now.up.attested THEN disk.proof ELSE @,
       !.artifacts.entry =
          IF now.inputs.entry /\ disk.entry # Absent THEN disk.entry ELSE @,
       !.artifacts.receipt = IF now.fresh # Absent THEN now.fresh ELSE @,
       !.artifacts.verdict = [by |-> use, fail |-> ShouldFail]]
  /\ Goes("publish")
  /\ UNCHANGED <<use, now, thread>>

(* writeGithubOutput.                                                       *)
Publish ==
  /\ at = "publish"
  /\ now' = [now EXCEPT !.published = TRUE]
  /\ Goes("enforce")
  /\ UNCHANGED <<use, disk, thread>>

(* The step is killed, or fails outside its handler.                        *)
Crash ==
  /\ at \notin {"idle", "enforce"}
  /\ Goes("enforce")
  /\ UNCHANGED <<use, now, disk, thread>>

Judged(pass) ==
  now' = [now EXCEPT !.outcome = IF pass THEN "passed" ELSE "failed"]

(* Faulty variant: nothing is enforced after a step that failed.            *)
EnforceOnSuccess ==
  /\ at = "enforce" /\ now.published
  /\ Judged(~disk.artifacts.verdict.fail)
  /\ Goes("idle")
  /\ UNCHANGED <<use, disk, thread>>

(* The last step of the action runs always, and fails without the output    *)
(* that names the verdict.                                                  *)
Enforce ==
  /\ at = "enforce"
  /\ Judged(now.published /\ ~disk.artifacts.verdict.fail)
  /\ Goes("idle")
  /\ UNCHANGED <<use, disk, thread>>

Step ==
  \/ RunUp \/ RunDiff \/ ExportEntry \/ ExportReceipt \/ ReadPlan
  \/ CannotStart
  \/ SkipComment \/ LookUp \/ Post
  \/ Conclude \/ Publish \/ Enforce

Next ==
  \/ \E i \in InputSet : Begin(i)
  \/ Step \/ Crash
  \/ RivalLooksUp \/ RivalPosts \/ SomebodyComments

Spec == Init /\ [][Next]_vars
FairSpec == Spec /\ WF_vars(Step)
-----------------------------------------------------------------------------
Places == {"idle", "up", "diff", "entry", "receipt", "plan", "comment", "post",
           "conclude", "publish", "enforce"}
Results == [json : BOOLEAN, verified : BOOLEAN, attested : BOOLEAN, code : {0, 1}]
Evidence == [of : 0..MaxUses, verified : BOOLEAN] \cup {Absent, Torn}
Copies == [by : 0..MaxUses, of : 0..MaxUses]
Verdicts == [by : 0..MaxUses, fail : BOOLEAN]
Memory ==
  [inputs : InputSet, up : Results, read : Evidence, wrong : BOOLEAN,
   drifted : BOOLEAN, fresh : Copies \cup {Absent}, found : BOOLEAN,
   published : BOOLEAN, outcome : {"none", "passed", "failed"}]
Files ==
  [proof : Evidence, entry : Copies \cup {Absent}, receipts : SUBSET Copies,
   artifacts : [attestation : Evidence, entry : Copies \cup {Absent},
                receipt : Copies \cup {Absent}, verdict : Verdicts \cup {Absent}]]

(* What the action keeps, on disk and in memory, is of its kind.            *)
TypeOK ==
  /\ at \in Places /\ use \in 0..MaxUses
  /\ now \in Memory /\ disk \in Files
  /\ comments \in Seq({"sticky", "person"})
  /\ rival \in {"away", "found", "missed"} /\ rivals \in 0..MaxRivals
  /\ raced \in BOOLEAN /\ crowded \in BOOLEAN

(* github-action.mjs:661-668, github-action-enforce.mjs:3-13: a use that    *)
(* passes, and was to fail unless verified, ran an `up` that exited 0 with  *)
(* the attestation of this use, and what else it was asked for is of the    *)
(* same run: wherever a command or a step dies, and whatever an earlier     *)
(* use, or a commit, left in the workspace.                                 *)
GreenIsEarned ==
  now.outcome = "passed" /\ now.inputs.strict =>
    LET staged == disk.artifacts
        own    == [by |-> use, of |-> use]
    IN /\ now.up.code = 0 /\ staged.attestation = Own(TRUE)
       /\ now.inputs.entry => staged.entry = own
       /\ now.inputs.receipt => staged.receipt = own

(* github-action.mjs:508, 569, 580-582: what a use stages is its own, also  *)
(* when it fails.  A use whose inputs were refused stages nothing and       *)
(* leaves the directory as it was.                                          *)
StagedIsOwn ==
  at = "enforce" /\ now.inputs.valid =>
    LET staged == disk.artifacts
    IN /\ Whole(staged.attestation) => staged.attestation.of = use
       /\ \A x \in {staged.entry, staged.receipt, staged.verdict} :
            x # Absent => x.by = use

(* github-action.mjs:404-444: there is one comment of the action, as long   *)
(* as no two jobs were between look-up and post at once and every comment   *)
(* fitted the page.                                                         *)
StickyCommentIsOne == ~raced /\ ~crowded => Cardinality(Sticky) <= 1

(* action.yml:125-130: whatever happens to the step, the use is judged.     *)
EveryUseIsJudged == at # "idle" ~> at = "idle" /\ now.outcome # "none"
=============================================================================
