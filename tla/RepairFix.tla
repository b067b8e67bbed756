------------------------------ MODULE RepairFix ------------------------------
(***************************************************************************)
(* `bootproof fix`: cli.ts reads the recorded failure and asks for          *)
(* approval, repair.ts reads it again and runs a playbook, a registered     *)
(* remediation or the suggestion of an AI provider, verifies the effect     *)
(* with a second `up` in a copy of the repository, and writes a receipt.    *)
(* Meanwhile the repair command is a process of its own, and another        *)
(* `bootproof up` or an editor may change what the next read sees.          *)
(***************************************************************************)
EXTENDS RepairPlaybooks

CONSTANTS
  Worlds,       (* what a read of the attestation and the host may return   *)
  Later,        (* the worlds somebody else may bring about                 *)
  MaxChanges,   (* bound: how often that happens during the command         *)
  Options,      (* the command lines                                        *)
  Suggestions   (* what the AI provider may answer                          *)

Providers == {"docker", "local"}

(* A world: is there a signed, classified failure; under which provider was *)
(* it recorded; was it an observation of an external URL; does it describe  *)
(* exactly the current clean commit; and the situation of the playbooks.    *)
World(failed, provider, external, fresh, situation) ==
  [failed |-> failed, provider |-> provider, external |-> external,
   fresh |-> fresh, situation |-> situation]

Situations == {w.situation : w \in Worlds}
WorldType ==
  [failed : BOOLEAN, provider : Providers, external : BOOLEAN, fresh : BOOLEAN,
   situation : Situations]

ASSUME WorldAssumption ==
  Worlds \subseteq WorldType /\ Later \subseteq Worlds /\ MaxChanges \in Nat
ASSUME OptionAssumption ==
  \A o \in Options :
    /\ o.provider \in Providers \cup {"any"}
    /\ {o.runs, o.batch, o.unsafe, o.ai, o.key} \subseteq BOOLEAN

VARIABLES
  world,      (* what a read would return now                               *)
  changes,    (* how often somebody else changed it                         *)
  opts,       (* the command line                                           *)
  pc,         (* the await or synchronous stretch `fix` is in               *)
  path,       (* whose repair it is: a playbook's, an AI's, the registry's  *)
  shown,      (* the action printed for approval                            *)
  approved,   (* actionApproved                                             *)
  before,     (* the failure that is being repaired                         *)
  cand,       (* the candidate that is being executed                       *)
  child,      (* the repair command                                         *)
  exit,       (* what the command or the patch came to, for the receipt     *)
  effect,     (* what the command has done to the repository and the host   *)
  copied,     (* `effect` when the sandbox was copied                       *)
  sandbox,    (* the copy, or what there is of it, exists                   *)
  containers, (* containers of the sandbox run                              *)
  outcome,    (* the last `up` that returned, for the clean-up              *)
  after,      (* the attestation of the second run                          *)
  receipt,    (* .bootproof/repair-receipt.json                             *)
  afterFile,  (* .bootproof/repair-after-attestation.json                   *)
  patchFile,  (* .bootproof/repair-*.patch                                  *)
  result,     (* what the command reports                                   *)
  ran         (* history: the repair command that was started               *)

asked == <<opts, shown, approved>>
files == <<receipt, afterFile, patchFile>>
proc  == <<child, effect, ran>>
box   == <<copied, sandbox, containers>>
vars  == <<world, changes, asked, pc, path, before, cand, proc, exit, box,
           outcome, after, files, result>>

NoReceipt == [own |-> FALSE, path |-> "none", action |-> NoAction,
              status |-> "absent", appliedAt |-> FALSE, approvedAt |-> FALSE,
              progressed |-> FALSE, verified |-> FALSE]
(* A verified receipt that an earlier command left.                         *)
OldReceipt == [NoReceipt EXCEPT !.status = "applied", !.appliedAt = TRUE,
                                !.progressed = TRUE, !.verified = TRUE]
NoOutcome == "none"

Init ==
  /\ world \in Worlds /\ changes = 0 /\ opts \in Options
  /\ pc = "start" /\ path = "none"
  /\ shown = NoAction /\ approved = FALSE
  /\ before = world /\ cand = NoCandidate
  /\ child = "none" /\ effect = "none" /\ ran = NoAction /\ exit = "none"
  /\ copied = "none" /\ sandbox = FALSE /\ containers = FALSE
  /\ outcome = NoOutcome /\ after = NoAfter
  /\ receipt = OldReceipt /\ afterFile = After("up", TRUE, "none")
  /\ patchFile = FALSE
  /\ result = "none"
-----------------------------------------------------------------------------
(* Tables of the candidates and of the actions the policy accepts, so that  *)
(* TLC works each of them out once.                                         *)
Candidates == [s \in Situations |-> CandidateFor(s)]

AiAction(s) ==
  AiSuggested(Declared(s.kind, s.cmd, s.files, s.risk,
                       IF s.kind = "patch" THEN "repo_only" ELSE "none", TRUE))

Accepted ==
  LET proposed == UNION {{Candidates[s].action} \cup Candidates[s].follow :
                           s \in Situations}
      remedies == {ActionOfRemedy(s) :
                     s \in {t \in Situations : t.class \in RegisteredClasses}}
      suggested == {AiAction(s) : s \in Suggestions}
  IN {a \in proposed \cup remedies \cup suggested : ActionValid(a)}

(* signedFailedAttestation: a failure recorded under the requested provider.*)
Recorded(w) == w.failed /\ opts.provider \in {"any", w.provider}
Registered(w) == w.situation.class \in RegisteredClasses
CandidateIn(w) == IF Recorded(w) THEN Candidates[w.situation] ELSE NoCandidate
Found(c) == c.id # "none"

CandidateValid(c) == {c.action} \cup c.follow \subseteq Accepted

EffectiveProvider(w) == IF opts.provider = "any" THEN w.provider ELSE opts.provider
RefusedLocally(w) == EffectiveProvider(w) = "local" /\ ~opts.unsafe

Finish(r) == pc' = "done" /\ result' = r
Go(place) == pc' = place /\ UNCHANGED result

(* cli.ts: the options, the first reads, and which of the prompts follows.  *)
Start ==
  LET c == CandidateIn(world)
      viaAi == ~Found(c) /\ ~(Recorded(world) /\ Registered(world)) /\ opts.ai
      prompts == Found(c) /\ c.action.kind # "instruction" /\ ~opts.batch
                 /\ ~RefusedLocally(world)
  IN /\ pc = "start"
     /\ CASE ~opts.runs -> Finish("refused") /\ UNCHANGED <<shown, before, path>>
          [] opts.runs /\ Found(c) /\ ~CandidateValid(c) ->
               Finish("threw") /\ UNCHANGED <<shown, before, path>>
          [] opts.runs /\ viaAi ->
               IF opts.key /\ Recorded(world) /\ ~opts.batch
                 THEN Go("consent") /\ path' = "ai" /\ before' = world
                      /\ UNCHANGED shown
                 ELSE Finish("threw") /\ UNCHANGED <<shown, before, path>>
          [] OTHER ->
               /\ shown' = IF opts.batch THEN NoAction ELSE c.action
               /\ Go(IF prompts THEN "ask" ELSE "repair")
               /\ UNCHANGED <<before, path>>
     /\ UNCHANGED <<world, changes, opts, approved, cand, proc, exit, box,
                    outcome, after, files>>

(* The person types Y, or anything else.                                    *)
Answer ==
  /\ pc \in {"ask", "askAi"}
  /\ approved' \in BOOLEAN
  /\ Go(IF pc = "ask" THEN "repair" ELSE "exec")
  /\ UNCHANGED <<world, changes, opts, shown, path, before, cand, proc, exit,
                 box, outcome, after, files>>

Consent ==
  /\ pc = "consent"
  /\ Go("request") \/ Finish("unrepaired")
  /\ UNCHANGED <<world, changes, asked, path, before, cand, proc, exit, box,
                 outcome, after, files>>

(* requestAiRepairSuggestion: no answer in time, an answer that is not the  *)
(* strict JSON, one that the policy blocks, or an action to be shown.       *)
Suggest(s) ==
  /\ pc = "request"
  /\ IF s.wellFormed /\ AiAction(s) \in Accepted
       THEN /\ shown' = AiAction(s)
            /\ cand' = Candidate("ai-suggested", AiAction(s), {})
            /\ Go("askAi")
       ELSE Finish("threw") /\ UNCHANGED <<shown, cand>>
  /\ UNCHANGED <<world, changes, opts, approved, path, before, proc, exit, box,
                 outcome, after, files>>
-----------------------------------------------------------------------------
(* copyToSandbox stands before the `try` of its callers: when the copy      *)
(* fails, the exception ends the command at once, and a directory that      *)
(* mkdtemp had made stays.                                                  *)
CopyFails ==
  /\ sandbox' \in BOOLEAN /\ UNCHANGED copied
  /\ Finish("copy_threw")

(* repairRepo reads everything again.                                       *)
CleanPreviousOutputs ==
  receipt' = NoReceipt /\ afterFile' = NoAfter /\ patchFile' = FALSE

ReadAgain ==
  LET c == CandidateIn(world) IN
  /\ pc = "repair"
  /\ before' = world
  /\ CASE Found(c) ->
            /\ cand' = c /\ path' = "playbook"
            /\ Go("exec")
            /\ UNCHANGED <<files, box>>
       [] ~Found(c) /\ Recorded(world) /\ ~Registered(world) ->
            Finish("unknown") /\ UNCHANGED <<cand, path, files, box>>
       [] OTHER ->
            LET provider == IF Recorded(world) THEN EffectiveProvider(world)
                            ELSE IF opts.provider = "any" THEN "docker"
                            ELSE opts.provider
            IN IF provider = "local" /\ ~opts.unsafe
                 THEN Finish("refused") /\ UNCHANGED <<cand, path, files, box>>
                 ELSE /\ CleanPreviousOutputs
                      /\ path' = "registry"
                      /\ \/ /\ copied' = effect /\ sandbox' = TRUE
                            /\ Go(IF Recorded(world) /\ world.fresh
                                    THEN "remedy" ELSE "baseline")
                         \/ CopyFails
                      /\ UNCHANGED <<cand, containers>>
  /\ UNCHANGED <<world, changes, asked, proc, exit, outcome, after>>

(* buildLifecycleRepairReceipt; it throws when the receipt contradicts      *)
(* itself, and then nothing replaces the outputs that were removed.         *)
LifecycleReceipt(status, approvedAt, a) ==
  [own |-> TRUE, path |-> path, action |-> cand.action, status |-> status,
   appliedAt |-> status = "applied", approvedAt |-> approvedAt,
   progressed |-> Progressed(before.situation.class, a), verified |-> Verified(a)]

Record(r) ==
  IF r.action \in Accepted /\ ReceiptConsistent(r)
    THEN receipt' = r /\ Finish(IF r.verified THEN "repaired" ELSE "unrepaired")
    ELSE receipt' = NoReceipt /\ Finish("threw")

(* What executeDeterministicRepairCandidate and executeAiSuggestedRepair    *)
(* decide before they start anything.                                       *)
MustAcknowledge ==
  RefusedLocally(before) /\ (path = "ai" => ~before.external)

(* Faulty variant: an acknowledged local run needs no approval.             *)
WithheldUnlessUnsafe ==
  \/ cand.action.kind = "instruction"
  \/ ~CandidateValid(cand)
  \/ MustAcknowledge
  \/ ~approved /\ ~opts.unsafe

Withheld ==
  \/ cand.action.kind = "instruction"
  \/ ~CandidateValid(cand)
  \/ MustAcknowledge
  \/ ~approved

Withhold ==
  /\ pc = "exec" /\ Withheld
  /\ Record(LifecycleReceipt(IF CandidateValid(cand) THEN "not_applied" ELSE "failed",
                             path = "ai" /\ cand.action.kind = "instruction"
                               /\ approved,
                             NoAfter))
  /\ afterFile' = NoAfter
  /\ patchFile' = (path = "playbook" /\ cand.action.kind = "patch"
                     /\ CandidateValid(cand))
  /\ UNCHANGED <<world, changes, asked, path, before, cand, proc, exit, box,
                 outcome, after>>

(* Faulty variant: the previous outputs are removed with the clean-up.      *)
RunCommandOverOld ==
  /\ pc = "exec" /\ ~Withheld /\ cand.action.kind = "command"
  /\ child' = "running" /\ ran' = cand.action
  /\ Go("command")
  /\ UNCHANGED <<world, changes, asked, path, before, cand, effect, exit, box,
                 outcome, after, files>>

RunCommand ==
  /\ pc = "exec" /\ ~Withheld /\ cand.action.kind = "command"
  /\ receipt' = NoReceipt /\ afterFile' = NoAfter /\ patchFile' = FALSE
  /\ child' = "running" /\ ran' = cand.action
  /\ Go("command")
  /\ UNCHANGED <<world, changes, asked, path, before, cand, effect, exit, box,
                 outcome, after>>

CopyForPatch ==
  /\ pc = "exec" /\ ~Withheld /\ cand.action.kind = "patch"
  /\ receipt' = NoReceipt /\ afterFile' = NoAfter /\ patchFile' = TRUE
  /\ \/ copied' = effect /\ sandbox' = TRUE /\ Go("patch")
     \/ CopyFails
  /\ UNCHANGED <<world, changes, asked, path, before, cand, proc, exit,
                 containers, outcome, after>>
-----------------------------------------------------------------------------
(* runStructuredRepairCommand.  The child may leave at any time; the timer  *)
(* sends SIGTERM and settles at once.                                       *)
Settle(e) == exit' = e /\ Go("copy")

CommandCloses ==
  /\ pc = "command"
  /\ \/ child = "running" /\ effect' = "full" /\ child' = "gone" /\ Settle("ok")
     \/ child = "running" /\ UNCHANGED effect /\ child' = "gone" /\ Settle("failed")
  /\ UNCHANGED <<world, changes, asked, path, before, cand, ran, box, outcome,
                 after, files>>

(* Faulty variant: as in runToCompletion, the timer waits for `close`.      *)
CommandTimesOutAndWaits ==
  /\ pc = "command" /\ child = "running"
  /\ child' = "terminated"
  /\ UNCHANGED <<world, changes, asked, pc, path, before, cand, effect, ran,
                 exit, box, outcome, after, files, result>>

(* Faulty variant: whatever the command has done by then is accepted.       *)
CommandTimesOutAsSuccess ==
  /\ pc = "command" /\ child = "running"
  /\ child' = "terminated"
  /\ Settle("ok")
  /\ UNCHANGED <<world, changes, asked, path, before, cand, effect, ran, box,
                 outcome, after, files>>

(* Faulty variant: the timer settles and sends no signal.                   *)
CommandTimesOutUnsignalled ==
  /\ pc = "command" /\ child = "running"
  /\ Settle("timed_out")
  /\ UNCHANGED <<world, changes, asked, path, before, cand, child, effect, ran,
                 box, outcome, after, files>>

CommandTimesOut ==
  /\ pc = "command" /\ child = "running"
  /\ child' = "terminated"
  /\ Settle("timed_out")
  /\ UNCHANGED <<world, changes, asked, path, before, cand, effect, ran, box,
                 outcome, after, files>>

(* A command at work, or one that was sent SIGTERM and is not gone yet.     *)
ChildWorks ==
  /\ \/ child = "running" /\ effect = "none" /\ effect' = "partial"
        /\ UNCHANGED child
     \/ child = "terminated" /\ effect' \in {effect, "partial", "full"}
        /\ child' \in {"terminated", "gone"}
  /\ UNCHANGED <<world, changes, asked, pc, path, before, cand, ran, exit, box,
                 outcome, after, files, result>>

CopySandbox ==
  /\ pc = "copy"
  /\ \/ copied' = effect /\ sandbox' = TRUE /\ Go("rerun")
     \/ CopyFails
  /\ UNCHANGED <<world, changes, asked, path, before, cand, proc, exit,
                 containers, outcome, after, files>>

(* The preimages and the scope of a playbook's patch; `git apply --check`   *)
(* and `git apply` of an AI's.                                              *)
MayFit == path = "playbook" => InRepairScope(cand.action.files)
MayNotFit == path = "playbook" => ~MayFit \/ world.situation # before.situation

ApplyPatch ==
  /\ pc = "patch"
  /\ \/ MayFit /\ exit' = "ok" /\ Go("rerun")
     \/ MayNotFit /\ exit' = "failed" /\ Go("cleanup")
  /\ UNCHANGED <<world, changes, asked, path, before, cand, proc, box, outcome,
                 after, files>>
-----------------------------------------------------------------------------
(* What a run of `up` in the sandbox may come to: containers or not, and an *)
(* attestation of health, one of the same or another class of failure, or   *)
(* none (a refusal that records nothing).                                   *)
AfterClasses == {before.situation.class, "another_failure"}
UpAttests ==
  {After("up", TRUE, "none"), NoAfter} \cup {After("up", FALSE, c) : c \in AfterClasses}
ExternalAttests ==
  {After("external", TRUE, "none")} \cup {After("external", FALSE, c) : c \in AfterClasses}

External == path = "ai" /\ before.external

(* The second run, for the playbooks and the AI: an exception is caught,    *)
(* and leaves no outcome behind.                                            *)
Rerun ==
  /\ pc = "rerun" /\ path \in {"playbook", "ai"}
  /\ \/ ~External /\ containers' \in BOOLEAN /\ outcome' = "up"
        /\ after' \in UpAttests
     \/ ~External /\ containers' \in BOOLEAN /\ UNCHANGED <<outcome, after>>
     \/ External /\ after' \in ExternalAttests /\ UNCHANGED <<containers, outcome>>
  /\ Go("cleanup")
  /\ UNCHANGED <<world, changes, asked, path, before, cand, proc, exit, copied,
                 sandbox, files>>

(* cleanupServices, and the removal of the sandbox: without an outcome it   *)
(* does nothing, and nobody looks at how `docker compose down` ended.       *)
DownServices ==
  containers' \in {containers} \cup (IF outcome = NoOutcome THEN {} ELSE {FALSE})

Cleanup ==
  /\ pc = "cleanup"
  /\ DownServices
  /\ sandbox' = FALSE
  /\ pc' = IF path = "registry" THEN "done" ELSE "record"
  /\ UNCHANGED <<world, changes, asked, path, before, cand, proc, exit, copied,
                 outcome, after, files, result>>

(* The attestation of the second run, then the receipt.                     *)
RecordRepair ==
  /\ pc = "record"
  /\ afterFile' = after
  /\ Record(LifecycleReceipt(IF exit = "ok" THEN "applied" ELSE "failed", TRUE, after))
  /\ UNCHANGED <<world, changes, asked, path, before, cand, proc, exit, box,
                 outcome, after, patchFile>>
-----------------------------------------------------------------------------
(* The registered remediations.  Their results are known before the         *)
(* clean-up of `finally`, so `result` is set and `pc` goes on.              *)
Leave(r) == result' = r /\ pc' = "cleanup"

(* `up` in the untouched copy, when the recorded failure is not of this     *)
(* commit.  persistFailureAttestation makes its failure the recorded one.   *)
Baseline ==
  /\ pc = "baseline"
  /\ containers' \in BOOLEAN
  /\ \/ Leave("threw") /\ outcome' \in {NoOutcome, "up"}
        /\ UNCHANGED <<world, before>>
     \/ Leave("boots") /\ outcome' = "up" /\ UNCHANGED <<world, before>>
     \/ \E w \in Worlds :
          /\ w.failed /\ ~w.external
          /\ outcome' = "up"
          /\ world' = w /\ before' = w
          /\ IF Registered(w) THEN Go("remedy") ELSE Leave("unknown")
  /\ UNCHANGED <<changes, asked, path, cand, proc, exit, copied, sandbox, after,
                 files>>

PersistFailure(w) == world' = [w EXCEPT !.failed = TRUE]

(* `corepack prepare` is run, whether it succeeds or not, by the remedy     *)
(* itself; nobody was asked.                                                *)
Remediate ==
  LET r == RemedyFor(before.situation) IN
  /\ pc = "remedy"
  /\ CASE r.how = "applied" -> Go("rerun") /\ UNCHANGED world
       [] r.how = "escapes" -> Leave("threw") /\ UNCHANGED world
       [] OTHER -> Leave("unresolved") /\ PersistFailure(before)
  /\ ran' = IF r.id = "activate-declared-package-manager"
               /\ r.how \in {"applied", "fails"}
               THEN ActionOfRemedy(before.situation) ELSE ran
  /\ UNCHANGED <<changes, asked, path, before, cand, child, effect, exit, box,
                 outcome, after, files>>

(* The receipt of a registered remediation exists only with health observed *)
(* in the copy; the receipt, the attestation and the patch are written in   *)
(* this order.                                                              *)
RegistryReceipt ==
  [own |-> TRUE, path |-> "registry", action |-> ActionOfRemedy(before.situation),
   status |-> "applied", appliedAt |-> TRUE, approvedAt |-> FALSE,
   progressed |-> TRUE, verified |-> TRUE]

(* The command of a migration remedy is a preparation step of the second    *)
(* `up`: it is run when that gets so far, and always before a boot.         *)
Migrates == before.situation.class = "migrations_missing"

RerunRegistry ==
  /\ pc = "rerun" /\ path = "registry"
  /\ containers' \in BOOLEAN
  /\ ran' \in {ran} \cup (IF Migrates THEN {ActionOfRemedy(before.situation)}
                                     ELSE {})
  /\ \/ Leave("threw") /\ UNCHANGED <<world, outcome, after, files>>
     \/ /\ outcome' = "up" /\ after' \in UpAttests
        /\ IF Booted(after')
             THEN /\ Leave("repaired")
                  /\ Migrates => ran' = ActionOfRemedy(before.situation)
                  /\ receipt' = RegistryReceipt /\ afterFile' = after'
                  /\ patchFile' = (RemedyFor(before.situation).files # {})
                  /\ UNCHANGED world
             ELSE Leave("unresolved") /\ PersistFailure(before)
                  /\ UNCHANGED files
  /\ UNCHANGED <<changes, asked, path, before, cand, child, effect, exit, copied,
                 sandbox>>
-----------------------------------------------------------------------------
(* Another `up` rewrites the attestation, or a file or a tool appears.      *)
WorldChanges ==
  /\ pc \notin {"done", "crashed"} /\ changes < MaxChanges
  /\ world' \in Later \ {world}
  /\ changes' = changes + 1
  /\ UNCHANGED <<asked, pc, path, before, cand, proc, exit, box, outcome, after,
                 files, result>>

(* The process dies at an await.                                            *)
Crash ==
  /\ pc \in {"command", "rerun", "baseline", "remedy", "patch", "cleanup",
             "record"}
  /\ pc' = "crashed"
  /\ UNCHANGED <<world, changes, asked, path, before, cand, proc, exit, box,
                 outcome, after, files, result>>

Over == pc \in {"done", "crashed"} /\ UNCHANGED vars

Repair ==
  \/ Start \/ ReadAgain \/ Withhold \/ RunCommand \/ CopyForPatch
  \/ CommandTimesOut \/ CopySandbox \/ ApplyPatch \/ Rerun \/ Cleanup
  \/ RecordRepair \/ Baseline \/ Remediate \/ RerunRegistry

Next ==
  \/ Repair
  \/ Answer \/ Consent \/ \E s \in Suggestions : Suggest(s)
  \/ CommandCloses \/ ChildWorks
  \/ WorldChanges \/ Crash \/ Over

Spec == Init /\ [][Next]_vars

(* JavaScript runs on between two awaits, and the timer of the command      *)
(* fires.  Nothing is assumed of the command, the person, an `up` or a      *)
(* `docker compose down`.                                                   *)
FairSpec == Spec /\ WF_vars(Withhold \/ RunCommand \/ CopyForPatch
                              \/ CommandTimesOut \/ CopySandbox)
-----------------------------------------------------------------------------
PCs == {"start", "ask", "consent", "request", "askAi", "repair", "exec",
        "command", "copy", "patch", "baseline", "remedy", "rerun", "cleanup",
        "record", "done", "crashed"}
Results == {"none", "refused", "unknown", "boots", "unresolved", "unrepaired",
            "repaired", "threw", "copy_threw"}
Effects == {"none", "partial", "full"}

(* What the command keeps is of its kind, and a command is at work only     *)
(* where the code awaits it.                                                *)
TypeOK ==
  /\ world \in WorldType
  /\ changes \in 0..MaxChanges /\ opts \in Options
  /\ pc \in PCs /\ path \in {"none", "playbook", "ai", "registry"}
  /\ approved \in BOOLEAN /\ sandbox \in BOOLEAN /\ containers \in BOOLEAN
  /\ child \in {"none", "running", "terminated", "gone"}
  /\ exit \in {"none", "ok", "failed", "timed_out"}
  /\ effect \in Effects /\ copied \in Effects
  /\ outcome \in {NoOutcome, "up"} /\ patchFile \in BOOLEAN
  /\ result \in Results
  /\ child = "running" => pc \in {"command", "crashed"}

(* Whatever the evidence, the repository and the host show, the playbooks   *)
(* propose actions, and later ones, that the safety policy accepts; all but *)
(* instructions need approval; and a patch keeps to the files a repair may  *)
(* write, but for the one that creates the SQLite file                      *)
(* (repair-playbooks.ts:261-701).                                           *)
PlaybooksAreSafe ==
  LET c == CandidateIn(world) IN
  Found(c) =>
    /\ CandidateValid(c)
    /\ \A a \in {c.action} \cup c.follow : a.kind # "instruction" => a.approval
    /\ c.id # "create-laravel-sqlite-database" => InRepairScope(c.action.files)

(* docs/HONESTY_CONTRACT.md:22, of playbooks and AI suggestions: their      *)
(* command runs only after a Y, never in a batch, never with an             *)
(* unacknowledged local run; and it is the command that was shown, unless   *)
(* somebody rewrote the attestation or changed the host between the prompt  *)
(* and the second read (cli.ts:809, repair.ts:1721).                        *)
ConsentedCommand ==
  ran # NoAction /\ path # "registry" =>
    /\ approved /\ ~opts.batch /\ ran \in Accepted /\ ran.kind = "command"
    /\ RefusedLocally(before) => External
    /\ changes = 0 => ran = shown

(* docs/REPAIR_RECEIPT.md:151, of every repair: "JSON and CI modes never    *)
(* prompt and never execute a repair command."                              *)
BatchRunsNoRepair == opts.batch => ran = NoAction

(* Once a repair was started nothing of an earlier one can be taken for its *)
(* result, wherever the process dies (repair.ts:1071, 1381, 1755).          *)
NoStaleReceipt ==
  ran # NoAction \/ sandbox \/ path = "registry" => receipt # OldReceipt

(* A receipt says what happened: verified means that the second run saw     *)
(* health and that its attestation lies beside it, progress is health or    *)
(* another class of failure; an applied command had ended before the copy   *)
(* that the second run used was made, so that a timeout is never an applied *)
(* repair (repair.ts:958, 965-1055, 1244, 1837-1866).                       *)
ReceiptTellsTheTruth ==
  receipt.own =>
    /\ receipt.status = "applied" /\ path # "registry"
         /\ receipt.action.kind = "command" => copied = "full" /\ child = "gone"
    /\ receipt.verified => Verified(after) /\ afterFile = after
    /\ receipt.progressed => Progressed(before.situation.class, after)
    /\ receipt.approvedAt => approved
    /\ receipt.status = "not_applied" => ran = NoAction /\ ~receipt.verified

(* docs/HONESTY_CONTRACT.md:90: an attempt of a playbook or of an AI that   *)
(* reached its checks, and whose copy could be made, leaves its own receipt.*)
Attempted == path = "playbook" \/ (path = "ai" /\ Found(cand))
EveryAttemptRecorded ==
  pc = "done" /\ Attempted /\ result # "copy_threw" => receipt.own

(* It leaves its receipt and no copy, but for two cases: an external URL    *)
(* was found healthy after the repair, or the copy failed, which leaves     *)
(* neither a receipt nor anything of an earlier one, and perhaps a part of  *)
(* the copy (repair.ts:1150, 1244, 1457, 1536).                             *)
BootAttemptRecorded ==
  pc = "done" /\ Attempted =>
    \/ receipt.own /\ ~sandbox
    \/ External /\ after.healthy /\ ~sandbox
    \/ result = "copy_threw" /\ receipt = NoReceipt /\ afterFile = NoAfter

(* The command of a repair never keeps `fix` waiting, whatever it does with *)
(* its SIGTERM: the verification begins or the attempt is over.  How long   *)
(* the second run takes is another matter (repair.ts:930-963, 1243).        *)
CommandNeverHolds ==
  pc = "exec" ~> pc \in {"patch", "rerun", "done", "crashed"}
=============================================================================
