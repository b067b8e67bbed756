---------------------------- MODULE RepairFixProofs --------------------------
(***************************************************************************)
(* Theorems about RepairFix: whatever the failures, the playbooks' answers, *)
(* the suggestions and the command lines, what is run was consented to, no  *)
(* result of an earlier repair survives the start of one, a receipt says    *)
(* what happened, the playbooks propose only what the safety policy         *)
(* accepts, and an attempt leaves its receipt.                              *)
(***************************************************************************)
EXTENDS RepairFix, RepairSafetyProofs

USE DEF Go, Finish, Leave, Settle, asked, files, proc, box

(* Where a command has been started, or may have been.                      *)
Started == {"command", "copy", "rerun", "cleanup", "record", "done", "crashed"}

(* What was shown is what a read would find now, until somebody interferes; *)
(* an approval is a person's; and what ran was approved.                    *)
ConsentInv ==
  /\ changes \in Nat
  /\ pc = "start" => ~approved
  /\ pc \in {"ask", "consent", "request", "askAi"} => ~opts.batch
  /\ approved => ~opts.batch
  /\ changes = 0 /\ (pc = "ask" \/ (pc = "repair" /\ approved)) =>
       shown = CandidateIn(world).action
  /\ pc = "askAi" => cand.action = shown
  /\ pc \in {"consent", "request", "askAi"} => path = "ai"
  /\ pc = "exec" => path \in {"playbook", "ai"}
  /\ pc = "exec" /\ approved /\ changes = 0 => cand.action = shown
  /\ pc \in {"baseline", "remedy"} => path = "registry"
  /\ ran # NoAction => pc \in Started /\ ConsentedCommand

LEMMA ConsentInit == Init => ConsentInv
  BY DEF Init, ConsentInv

(* The one step that starts a command.                                      *)
LEMMA ConsentedStart ==
  ASSUME ConsentInv, RunCommand
  PROVE  ConsentInv'
<1>1. /\ pc = "exec" /\ pc' = "command" /\ ran' = cand.action
      /\ UNCHANGED <<world, changes, opts, shown, approved, path, before, cand>>
  BY DEF RunCommand
<1>2. approved /\ CandidateValid(cand) /\ ~MustAcknowledge
  BY DEF RunCommand, Withheld
<1>3. ran' \in Accepted /\ ran'.kind = "command"
  BY <1>1, <1>2 DEF RunCommand, CandidateValid
<1>4. RefusedLocally(before) => External
  BY <1>1, <1>2 DEF MustAcknowledge, External
<1>5. ConsentedCommand'
  BY <1>1, <1>2, <1>3, <1>4
  DEF ConsentInv, ConsentedCommand, RefusedLocally, EffectiveProvider, External
<1> QED
  BY <1>1, <1>2, <1>5 DEF ConsentInv, Started

(* A step that neither starts a command nor touches what was consented to.  *)
LEMMA ConsentKept ==
  ASSUME ConsentInv, pc' \in Started, pc \in Started \/ ran = NoAction,
         UNCHANGED <<changes, opts, shown, approved, path, ran>>,
         before' = before \/ ran = NoAction
  PROVE  ConsentInv'
<1>1. ran # NoAction => ConsentedCommand'
  BY DEF ConsentInv, ConsentedCommand, RefusedLocally, EffectiveProvider, External
<1> QED
  BY <1>1 DEF ConsentInv, Started

(* The four ways of the second read: a playbook's candidate, no remedy at   *)
(* all, an unacknowledged local run, and a registered remediation, whose    *)
(* copy may fail.                                                           *)
LEMMA ReadAgainCases ==
  ASSUME ReadAgain
  PROVE  /\ pc = "repair" /\ before' = world
         /\ UNCHANGED <<world, changes, opts, approved, shown, ran, child, effect,
                        exit, outcome, after, containers>>
         /\ \/ /\ pc' = "exec" /\ path' = "playbook"
               /\ cand' = CandidateIn(world) /\ Found(CandidateIn(world))
               /\ UNCHANGED <<result, receipt, afterFile, patchFile, copied, sandbox>>
            \/ /\ pc' = "done" /\ result' \in {"unknown", "refused"}
               /\ UNCHANGED <<cand, path, receipt, afterFile, patchFile, copied,
                              sandbox>>
            \/ /\ receipt' = NoReceipt /\ afterFile' = NoAfter /\ patchFile' = FALSE
               /\ path' = "registry" /\ UNCHANGED cand
               /\ \/ /\ pc' \in {"remedy", "baseline"} /\ UNCHANGED result
                     /\ copied' = effect /\ sandbox' = TRUE
                  \/ /\ pc' = "done" /\ result' = "copy_threw"
                     /\ UNCHANGED copied /\ sandbox' \in BOOLEAN
<1>1. /\ pc = "repair" /\ before' = world
      /\ UNCHANGED <<world, changes, opts, approved, shown, ran, child, effect, exit,
                     outcome, after>>
  BY DEF ReadAgain
<1>2. CASE Found(CandidateIn(world))
  BY <1>1, <1>2 DEF ReadAgain
<1>3. CASE ~Found(CandidateIn(world)) /\ Recorded(world) /\ ~Registered(world)
  BY <1>1, <1>3 DEF ReadAgain
<1>4. CASE ~Found(CandidateIn(world)) /\ ~(Recorded(world) /\ ~Registered(world))
  BY <1>1, <1>4 DEF ReadAgain, CleanPreviousOutputs, CopyFails
<1> QED
  BY <1>2, <1>3, <1>4

(* The steps before a repair starts.                                        *)
LEMMA ConsentBefore ==
  ASSUME ConsentInv,
         Start \/ Answer \/ Consent \/ (\E s \in Suggestions : Suggest(s)) \/ ReadAgain
  PROVE  ConsentInv'
<1>1. ran = NoAction /\ ran' = NoAction
  BY ReadAgainCases DEF ConsentInv, Started, Start, Answer, Consent, Suggest
<1>2. CASE Start
  <2>1. /\ pc = "start" /\ UNCHANGED <<world, changes, opts, approved, cand>>
        /\ \/ pc' \in {"done", "repair"} /\ UNCHANGED path
           \/ pc' = "consent" /\ path' = "ai" /\ ~opts.batch
           \/ pc' = "ask" /\ ~opts.batch /\ shown' = CandidateIn(world).action
    BY <1>2 DEF Start
  <2> QED
    BY <1>1, <2>1 DEF ConsentInv, CandidateIn, Recorded
<1>3. CASE Answer
  BY <1>1, <1>3 DEF ConsentInv, Answer, CandidateIn, Recorded
<1>4. CASE Consent
  BY <1>1, <1>4 DEF ConsentInv, Consent
<1>5. CASE \E s \in Suggestions : Suggest(s)
  <2>1. PICK s \in Suggestions : Suggest(s)
    BY <1>5
  <2>2. /\ pc = "request" /\ UNCHANGED <<changes, opts, approved, path>>
        /\ \/ pc' = "askAi" /\ cand'.action = shown'
           \/ pc' = "done"
    BY <2>1 DEF Suggest, Candidate
  <2> QED
    BY <1>1, <2>2 DEF ConsentInv
<1>6. CASE ReadAgain
  <2>1. /\ pc = "repair" /\ UNCHANGED <<world, changes, opts, approved, shown>>
        /\ \/ pc' = "exec" /\ path' = "playbook" /\ cand' = CandidateIn(world)
           \/ pc' = "done"
           \/ pc' \in {"remedy", "baseline"} /\ path' = "registry"
    BY <1>6, ReadAgainCases
  <2> QED
    BY <1>1, <2>1 DEF ConsentInv
<1> QED
  BY <1>2, <1>3, <1>4, <1>5, <1>6

LEMMA ConsentStep ==
  ASSUME ConsentInv, [Next]_vars
  PROVE  ConsentInv'
<1>1. CASE Start \/ Answer \/ Consent \/ (\E s \in Suggestions : Suggest(s)) \/ ReadAgain
  BY <1>1, ConsentBefore
<1>2. CASE RunCommand
  BY <1>2, ConsentedStart
<1>3. ASSUME \/ Withhold \/ CommandCloses \/ CommandTimesOut \/ CopySandbox
             \/ Rerun \/ Cleanup \/ RecordRepair \/ Crash
      PROVE  ConsentInv'
  <2>1. UNCHANGED <<changes, opts, shown, approved, path, ran, before>>
    BY <1>3 DEF Withhold, CommandCloses, CommandTimesOut, CopySandbox, Rerun, Cleanup,
                RecordRepair, Crash, Record
  <2>2. pc' \in Started
    BY <1>3 DEF Withhold, CommandCloses, CommandTimesOut, CopySandbox, Rerun, Cleanup,
                RecordRepair, Crash, Record, Started, CopyFails
  <2>3. pc \in Started \/ ran = NoAction
    BY DEF ConsentInv
  <2> QED
    BY <2>1, <2>2, <2>3, ConsentKept
<1>4. ASSUME CopyForPatch \/ ApplyPatch \/ Baseline
      PROVE  ConsentInv'
  <2>1. ran = NoAction /\ ran' = NoAction
    BY <1>4 DEF ConsentInv, Started, CopyForPatch, ApplyPatch, Baseline
  <2>2. /\ pc' \in {"patch", "rerun", "cleanup", "remedy", "done"}
        /\ UNCHANGED <<changes, opts, approved, path>>
        /\ pc' = "remedy" => pc = "baseline"
    BY <1>4 DEF CopyForPatch, ApplyPatch, Baseline, CopyFails
  <2> QED
    BY <2>1, <2>2 DEF ConsentInv
<1>7. CASE Remediate \/ RerunRegistry
  <2>1. /\ path = "registry" /\ pc' \in {"rerun", "cleanup"}
        /\ UNCHANGED <<changes, opts, approved, path>>
    BY <1>7 DEF Remediate, RerunRegistry, ConsentInv
  <2> QED
    BY <2>1 DEF ConsentInv, ConsentedCommand, Started
<1>5. CASE WorldChanges
  <2>1. /\ changes' = changes + 1
        /\ UNCHANGED <<pc, path, opts, shown, approved, before, cand, ran>>
    BY <1>5 DEF WorldChanges
  <2>2. changes' \in Nat /\ changes' # 0
    BY <2>1 DEF ConsentInv
  <2>3. ran # NoAction => ConsentedCommand'
    BY <2>1, <2>2 DEF ConsentInv, ConsentedCommand, RefusedLocally, EffectiveProvider,
                      External
  <2> QED
    BY <2>1, <2>2, <2>3 DEF ConsentInv
<1>6. CASE ChildWorks \/ UNCHANGED vars
  <2>1. UNCHANGED <<world, changes, pc, path, opts, shown, approved, before, cand, ran>>
    BY <1>6 DEF ChildWorks, vars
  <2> QED
    BY <2>1 DEF ConsentInv, ConsentedCommand, RefusedLocally, EffectiveProvider, External,
                CandidateIn, Recorded
<1> QED
  BY <1>1, <1>2, <1>3, <1>4, <1>5, <1>6, <1>7 DEF Next, Repair, Over

(* docs/HONESTY_CONTRACT.md:22, of playbooks and AI suggestions: their      *)
(* command runs only after a Y, and it is the one that was shown, unless    *)
(* somebody interferes between the prompt and the second read (cli.ts:809,  *)
(* repair.ts:1721).  A registered remediation asks nobody.                  *)
THEOREM ConsentedCommandCorrect == Spec => []ConsentedCommand
<1>1. ConsentInv => ConsentedCommand
  BY DEF ConsentInv, ConsentedCommand
<1> QED
  BY <1>1, ConsentInit, ConsentStep, PTL DEF Spec
-----------------------------------------------------------------------------
(* What the receipt of this command is, and that of an earlier one.         *)
LEMMA ReceiptsDiffer ==
  /\ NoReceipt # OldReceipt /\ ~NoReceipt.own
  /\ RegistryReceipt # OldReceipt
  /\ \A status, approvedAt, a : LifecycleReceipt(status, approvedAt, a) # OldReceipt
<1>1. /\ NoReceipt.status = "absent" /\ OldReceipt.status = "applied"
      /\ ~NoReceipt.own /\ ~OldReceipt.own
  BY DEF NoReceipt, OldReceipt
<1>2. RegistryReceipt.own
  BY DEF RegistryReceipt
<1>3. \A status, approvedAt, a : LifecycleReceipt(status, approvedAt, a).own
  BY DEF LifecycleReceipt
<1> QED
  BY <1>1, <1>2, <1>3

(* Where a repair is under way, the earlier receipt is gone.                *)
Underway == {"command", "copy", "patch", "baseline", "remedy", "rerun", "cleanup",
             "record"}
StaleInv ==
  /\ NoStaleReceipt
  /\ pc \in Underway => receipt # OldReceipt

LEMMA StaleStep ==
  ASSUME StaleInv, [Next]_vars
  PROVE  StaleInv'
<1>1. ASSUME Withhold \/ RunCommand \/ CopyForPatch \/ RecordRepair
      PROVE  StaleInv'
  <2>1. receipt' # OldReceipt
    BY <1>1, ReceiptsDiffer DEF Withhold, RunCommand, CopyForPatch, RecordRepair, Record
  <2> QED
    BY <2>1 DEF StaleInv, NoStaleReceipt
<1>2. CASE ReadAgain
  <2>1. \/ receipt' = NoReceipt
        \/ /\ UNCHANGED <<receipt, sandbox, ran>> /\ pc' \in {"exec", "done"}
           /\ path' \in {path, "playbook"}
    BY <1>2, ReadAgainCases
  <2> QED
    BY <2>1, ReceiptsDiffer DEF StaleInv, NoStaleReceipt, Underway
<1>3. CASE RerunRegistry
  <2>1. pc = "rerun" /\ receipt' \in {receipt, RegistryReceipt}
    BY <1>3 DEF RerunRegistry
  <2>2. receipt' # OldReceipt
    BY <2>1, ReceiptsDiffer DEF StaleInv, Underway
  <2> QED
    BY <2>2 DEF StaleInv, NoStaleReceipt
<1>4. ASSUME \/ CommandCloses \/ CommandTimesOut \/ CopySandbox \/ ApplyPatch
             \/ Rerun \/ Cleanup \/ Baseline \/ Remediate
      PROVE  StaleInv'
  <2>1. pc \in Underway /\ receipt' = receipt
    BY <1>4 DEF CommandCloses, CommandTimesOut, CopySandbox, ApplyPatch, Rerun, Cleanup,
                Baseline, Remediate, Underway
  <2> QED
    BY <2>1 DEF StaleInv, NoStaleReceipt
<1>5. ASSUME \/ Start \/ Answer \/ Consent \/ \E s \in Suggestions : Suggest(s)
             \/ Crash
      PROVE  StaleInv'
  <2>1. CASE Start
    BY <2>1 DEF Start, StaleInv, NoStaleReceipt, Underway
  <2>2. CASE Answer \/ Consent \/ Crash
    BY <2>2 DEF Answer, Consent, Crash, StaleInv, NoStaleReceipt, Underway
  <2>3. ASSUME NEW s \in Suggestions, Suggest(s)
        PROVE  StaleInv'
    BY <2>3 DEF Suggest, StaleInv, NoStaleReceipt, Underway
  <2> QED
    BY <1>5, <2>1, <2>2, <2>3
<1>6. ASSUME ChildWorks \/ WorldChanges \/ UNCHANGED vars
      PROVE  StaleInv'
  <2>1. UNCHANGED <<receipt, sandbox, ran, path, pc>>
    BY <1>6 DEF ChildWorks, WorldChanges, vars
  <2> QED
    BY <2>1 DEF StaleInv, NoStaleReceipt
<1> QED
  BY <1>1, <1>2, <1>3, <1>4, <1>5, <1>6 DEF Next, Repair, Over

(* Nothing of an earlier repair can be taken for the result of a started    *)
(* one, wherever the process dies (repair.ts:1071, 1381, 1755).             *)
THEOREM NoStaleReceiptCorrect == Spec => []NoStaleReceipt
<1>1. Init => StaleInv
  BY DEF Init, StaleInv, NoStaleReceipt, Underway
<1>2. StaleInv => NoStaleReceipt
  BY DEF StaleInv
<1> QED
  BY <1>1, <1>2, StaleStep, PTL DEF Spec
-----------------------------------------------------------------------------
(* What is known where: nothing has run before the repair is executed; what *)
(* is executed then was approved; an applied command had ended; and there   *)
(* is a receipt of its own only at the end, or in the clean-up after a      *)
(* registered remediation.                                                  *)
Before == {"start", "ask", "consent", "request", "askAi", "repair", "exec"}
TruthInv ==
  /\ pc \in Before => ran = NoAction /\ after = NoAfter
  /\ pc \in {"start", "ask", "consent", "request", "askAi", "repair"} =>
       path \in {"none", "ai"}
  /\ pc \in {"consent", "request", "askAi"} => path = "ai"
  /\ pc = "exec" => path \in {"playbook", "ai"}
  /\ pc \in Underway /\ path # "registry" => approved
  /\ pc \in {"command", "copy", "patch", "record"} => path # "registry"
  /\ pc \in {"baseline", "remedy"} => path = "registry"
  /\ pc = "patch" => cand.action.kind # "command"
  /\ pc = "copy" /\ exit = "ok" => effect = "full" /\ child = "gone"
  /\ /\ pc \in {"rerun", "cleanup", "record"} /\ path # "registry"
     /\ exit = "ok" /\ cand.action.kind = "command"
     => copied = "full" /\ child = "gone"
  /\ receipt.own =>
       pc = "done" \/ (path = "registry" /\ pc \in {"cleanup", "crashed"})
  /\ ReceiptTellsTheTruth

LEMMA NotRecordedYet ==
  ASSUME TruthInv, pc \notin {"done", "crashed"}, ~(path = "registry" /\ pc = "cleanup")
  PROVE  ~receipt.own
  BY DEF TruthInv

(* Steps that leave no receipt of their own, or none yet.                   *)
LEMMA TruthBefore ==
  ASSUME TruthInv,
         Start \/ Answer \/ Consent \/ (\E s \in Suggestions : Suggest(s)) \/ ReadAgain
  PROVE  TruthInv'
<1>1. /\ pc \in {"start", "ask", "consent", "request", "askAi", "repair"}
      /\ UNCHANGED <<ran, after>> /\ receipt' \in {receipt, NoReceipt}
  BY ReadAgainCases DEF Start, Answer, Consent, Suggest
<1>2. /\ ~receipt'.own /\ ran' = NoAction /\ after' = NoAfter
      /\ path \in {"none", "ai"}
  BY <1>1, NotRecordedYet, ReceiptsDiffer DEF TruthInv, Before
<1>3. ReceiptTellsTheTruth'
  BY <1>2 DEF ReceiptTellsTheTruth
<1>4. CASE Start
  <2>1. \/ pc' \in {"done", "ask", "repair"} /\ path' = path
        \/ pc' = "consent" /\ path' = "ai"
    BY <1>4 DEF Start
  <2> QED
    BY <1>2, <1>3, <2>1 DEF TruthInv, Before, Underway
<1>5. CASE Answer
  <2>1. \/ pc = "ask" /\ pc' = "repair"
        \/ pc = "askAi" /\ pc' = "exec"
    BY <1>5 DEF Answer
  <2>2. path' = path /\ (pc = "askAi" => path = "ai")
    BY <1>5 DEF Answer, TruthInv
  <2> QED
    BY <1>2, <1>3, <2>1, <2>2 DEF TruthInv, Before, Underway
<1>6. CASE Consent
  BY <1>2, <1>3, <1>6 DEF TruthInv, Before, Underway, Consent
<1>7. CASE \E s \in Suggestions : Suggest(s)
  <2>1. pc = "request" /\ pc' \in {"askAi", "done"} /\ path' = path
    BY <1>7 DEF Suggest
  <2> QED
    BY <1>2, <1>3, <2>1 DEF TruthInv, Before, Underway
<1>8. CASE ReadAgain
  <2>1. \/ pc' = "exec" /\ path' = "playbook"
        \/ pc' = "done"
        \/ pc' \in {"remedy", "baseline"} /\ path' = "registry"
    BY <1>8, ReadAgainCases
  <2> QED
    BY <1>2, <1>3, <2>1 DEF TruthInv, Before, Underway
<1> QED
  BY <1>4, <1>5, <1>6, <1>7, <1>8

(* Refusals, which are recorded without anything having been run.           *)
LEMMA TruthWithheld ==
  ASSUME TruthInv, Withhold
  PROVE  TruthInv'
<1>1. /\ pc = "exec" /\ pc' = "done" /\ afterFile' = NoAfter
      /\ UNCHANGED <<path, approved, before, cand, child, effect, ran, exit, copied, after>>
  BY DEF Withhold, Record
<1>2. ran = NoAction /\ after = NoAfter /\ path # "registry"
  BY <1>1 DEF TruthInv, Before
<1>3. PICK status, approvedAt :
        /\ status # "applied" /\ (approvedAt => approved)
        /\ receipt' \in {NoReceipt, LifecycleReceipt(status, approvedAt, NoAfter)}
  BY DEF Withhold, Record
<1>4. ~Verified(NoAfter)
  BY DEF Verified, NoAfter, After
<1>5. ReceiptTellsTheTruth'
  BY <1>1, <1>2, <1>3, <1>4, ReceiptsDiffer DEF ReceiptTellsTheTruth, LifecycleReceipt
<1> QED
  BY <1>1, <1>2, <1>5 DEF TruthInv, Before, Underway

(* The course of an approved repair up to its record.                       *)
LEMMA TruthUnderway ==
  ASSUME TruthInv,
         \/ RunCommand \/ CopyForPatch \/ CommandCloses \/ CommandTimesOut
         \/ CopySandbox \/ ApplyPatch \/ Rerun
  PROVE  TruthInv'
<1>1. /\ pc \in {"exec", "command", "copy", "patch", "rerun"}
      /\ pc' \in {"command", "copy", "patch", "rerun", "cleanup", "done"}
      /\ UNCHANGED <<path, approved, cand>> /\ receipt' \in {receipt, NoReceipt}
  BY DEF RunCommand, CopyForPatch, CommandCloses, CommandTimesOut, CopySandbox,
         ApplyPatch, Rerun, CopyFails
<1>2. ~receipt'.own
  BY <1>1, NotRecordedYet, ReceiptsDiffer
<1>3. ReceiptTellsTheTruth'
  BY <1>2 DEF ReceiptTellsTheTruth
<1>4. path \in {"playbook", "ai"} \/ (path # "registry" /\ pc # "exec")
  BY <1>1 DEF TruthInv, Rerun, RunCommand, CopyForPatch, CommandCloses, CommandTimesOut,
              CopySandbox, ApplyPatch
<1>5. approved'
  <2>1. pc = "exec" => approved
    BY DEF RunCommand, CopyForPatch, CommandCloses, CommandTimesOut, CopySandbox,
           ApplyPatch, Rerun, Withheld
  <2> QED
    BY <1>1, <1>4, <2>1 DEF TruthInv, Underway
<1>6. CASE RunCommand \/ CopyForPatch
  BY <1>1, <1>2, <1>3, <1>4, <1>5, <1>6
  DEF TruthInv, Before, Underway, RunCommand, CopyForPatch, CopyFails
<1>7. CASE CommandCloses \/ CommandTimesOut
  BY <1>1, <1>2, <1>3, <1>4, <1>5, <1>7
  DEF TruthInv, Before, Underway, CommandCloses, CommandTimesOut
<1>8. CASE CopySandbox \/ ApplyPatch
  BY <1>1, <1>2, <1>3, <1>4, <1>5, <1>8
  DEF TruthInv, Before, Underway, CopySandbox, ApplyPatch, CopyFails
<1>9. CASE Rerun
  BY <1>1, <1>2, <1>3, <1>4, <1>5, <1>9 DEF TruthInv, Before, Underway, Rerun
<1> QED
  BY <1>6, <1>7, <1>8, <1>9

(* The receipt of an executed repair.                                       *)
LEMMA TruthRecorded ==
  ASSUME TruthInv, RecordRepair
  PROVE  TruthInv'
<1>1. /\ pc = "record" /\ pc' = "done" /\ afterFile' = after
      /\ UNCHANGED <<path, approved, before, cand, child, effect, ran, exit, copied, after>>
  BY DEF RecordRepair, Record
<1>2. path # "registry" /\ approved
  BY <1>1 DEF TruthInv, Underway
<1>3. PICK status :
        /\ status \in {"applied", "failed"} /\ (status = "applied" => exit = "ok")
        /\ receipt' \in {NoReceipt, LifecycleReceipt(status, TRUE, after)}
  BY DEF RecordRepair, Record
<1>4. exit = "ok" /\ cand.action.kind = "command" => copied = "full" /\ child = "gone"
  BY <1>1, <1>2 DEF TruthInv
<1>5. ReceiptTellsTheTruth'
  BY <1>1, <1>2, <1>3, <1>4, ReceiptsDiffer DEF ReceiptTellsTheTruth, LifecycleReceipt
<1> QED
  BY <1>1, <1>2, <1>5 DEF TruthInv, Before, Underway

(* The registered remediations, and the end of any repair.                  *)
LEMMA TruthRegistry ==
  ASSUME TruthInv, Baseline \/ Remediate \/ RerunRegistry
  PROVE  TruthInv'
<1>1. /\ pc \in {"baseline", "remedy", "rerun"} /\ path = "registry"
      /\ pc' \in {"remedy", "rerun", "cleanup"} /\ path' = path
  BY DEF TruthInv, Baseline, Remediate, RerunRegistry
<1>2. ~receipt.own
  BY <1>1, NotRecordedYet
<1>3. ASSUME receipt' = receipt
      PROVE  TruthInv'
  BY <1>1, <1>2, <1>3 DEF TruthInv, ReceiptTellsTheTruth, Before, Underway
<1>4. ASSUME receipt' # receipt
      PROVE  TruthInv'
  <2>1. /\ pc' = "cleanup" /\ Booted(after') /\ receipt' = RegistryReceipt
        /\ afterFile' = after' /\ before' = before
    BY <1>4 DEF Baseline, Remediate, RerunRegistry
  <2>2. Verified(after') /\ Progressed(before.situation.class, after')
    BY <2>1 DEF Booted, Verified, Progressed
  <2>3. ReceiptTellsTheTruth'
    BY <1>1, <2>1, <2>2 DEF ReceiptTellsTheTruth, RegistryReceipt
  <2> QED
    BY <1>1, <2>1, <2>3 DEF TruthInv, Before, Underway
<1> QED
  BY <1>3, <1>4

LEMMA TruthStep ==
  ASSUME TruthInv, [Next]_vars
  PROVE  TruthInv'
<1>1. CASE Cleanup \/ Crash
  <2>1. /\ UNCHANGED <<path, approved, before, cand, child, effect, ran, exit, copied,
                       after, receipt, afterFile>>
        /\ \/ pc = "cleanup" /\ pc' = (IF path = "registry" THEN "done" ELSE "record")
           \/ pc' = "crashed" /\ pc \in Underway
    BY <1>1 DEF Cleanup, Crash, Underway
  <2>2. ReceiptTellsTheTruth'
    BY <2>1 DEF TruthInv, ReceiptTellsTheTruth
  <2> QED
    BY <2>1, <2>2 DEF TruthInv, Before, Underway
<1>2. CASE ChildWorks
  <2>1. /\ UNCHANGED <<pc, path, approved, before, cand, ran, exit, copied, after, receipt,
                       afterFile>>
        /\ child # "gone"
    BY <1>2 DEF ChildWorks
  <2>2. ReceiptTellsTheTruth'
    BY <2>1 DEF TruthInv, ReceiptTellsTheTruth
  <2> QED
    BY <2>1, <2>2 DEF TruthInv, Before, Underway
<1>3. CASE WorldChanges \/ UNCHANGED vars
  <2>1. UNCHANGED <<pc, path, approved, before, cand, child, effect, ran, exit, copied,
                    after, receipt, afterFile>>
    BY <1>3 DEF WorldChanges, vars
  <2> QED
    BY <2>1 DEF TruthInv, ReceiptTellsTheTruth, Before, Underway
<1> QED
  BY <1>1, <1>2, <1>3, TruthBefore, TruthWithheld, TruthUnderway, TruthRecorded,
     TruthRegistry DEF Next, Repair, Over

(* A receipt says what happened: verified is what the second run observed   *)
(* and what lies beside it, applied is a command that had ended before the  *)
(* copy was made, and approved is what a person approved                    *)
(* (repair.ts:958, 965-1055, 1244, 1837-1866).                              *)
THEOREM ReceiptTellsTheTruthCorrect == Spec => []ReceiptTellsTheTruth
<1>1. Init => TruthInv
  BY DEF Init, TruthInv, ReceiptTellsTheTruth, Before, Underway, OldReceipt, NoReceipt
<1>2. TruthInv => ReceiptTellsTheTruth
  BY DEF TruthInv
<1> QED
  BY <1>1, <1>2, TruthStep, PTL DEF Spec
-----------------------------------------------------------------------------
(* What the safety policy says of the actions the playbooks propose.        *)
(* The one-trait commands of the playbooks.                                 *)
PlaybookTraits == {"tool_install", "migration", "brew_services", "bundle_config", "createuser"}

LEMMA PlaybookCommand ==
  ASSUME NEW c, NEW t \in PlaybookTraits, c.traits = {t}
  PROVE  /\ CommandValid(c)
         /\ Inferred(c).risk \in {"medium", "high"}
         /\ Inferred(c).scope \notin {"none", "unknown"}
<1>1. CommandValid(c)
  <2>1. t \notin ForbiddenTraits /\ t # "secret_path" /\ t # "secret_upload"
    BY DEF PlaybookTraits, ForbiddenTraits
  <2> QED
    BY <2>1 DEF CommandValid
<1>2. CASE t = "tool_install"
  <2>1. Inferred(c) = RiskRules[4]
    BY <1>2, FirstRule, RulesTable DEF Rule
  <2> QED
    BY <1>1, <2>1, RulesTable DEF Rule
<1>3. CASE t = "migration"
  <2>1. Inferred(c) = RiskRules[7]
    BY <1>3, FirstRule, RulesTable DEF Rule
  <2> QED
    BY <1>1, <2>1, RulesTable DEF Rule
<1>4. CASE t = "brew_services"
  <2>1. Inferred(c) = RiskRules[11]
    BY <1>4, FirstRule, RulesTable DEF Rule
  <2> QED
    BY <1>1, <2>1, RulesTable DEF Rule
<1>5. CASE t = "bundle_config"
  <2>1. Inferred(c) = RiskRules[12]
    BY <1>5, FirstRule, RulesTable DEF Rule
  <2> QED
    BY <1>1, <2>1, RulesTable DEF Rule
<1>6. CASE t = "createuser"
  <2>1. Inferred(c) = RiskRules[14]
    BY <1>6, FirstRule, RulesTable DEF Rule
  <2> QED
    BY <1>1, <2>1, RulesTable DEF Rule
<1> QED
  BY <1>2, <1>3, <1>4, <1>5, <1>6 DEF PlaybookTraits

Safe(a) == ActionValid(a) /\ (a.kind # "instruction" => a.approval)

(* The assessment of a command of theirs is its own.                        *)
LEMMA RunSafe ==
  ASSUME NEW c, NEW t \in PlaybookTraits, c.traits = {t},
         NEW risk \in {"medium", "high"}, NEW scope
  PROVE  /\ Safe(Deterministic(Run(c, risk, scope)))
         /\ Deterministic(Run(c, risk, scope)).files = {}
<1> DEFINE a == Deterministic(Run(c, risk, scope))
           inf == Inferred(c)
<1>1. CommandValid(c) /\ inf.risk \in {"medium", "high"} /\ inf.scope \notin {"none", "unknown"}
  BY PlaybookCommand
<1>2. /\ a.kind = "command" /\ a.cmd = c /\ a.files = {}
      /\ a.risk = Higher(risk, inf.risk) /\ a.scope = inf.scope
      /\ a.approval = (Higher(risk, inf.risk) # "blocked")
  BY <1>1 DEF Deterministic, Run, Declared, Assessed, Assess, Action
<1>3. /\ Higher(risk, inf.risk) \in {"medium", "high"}
      /\ Weight(Higher(risk, inf.risk)) >= Weight(inf.risk)
  BY <1>1, Weights DEF Higher
<1>4. Higher("none", inf.risk) = inf.risk
  BY <1>1, Weights DEF Higher
<1>5. /\ Assess("command", c, "none", inf.scope, FALSE).risk = inf.risk
      /\ Assess("command", c, "none", inf.scope, FALSE).scope = inf.scope
  BY <1>1, <1>4 DEF Assess
<1> HIDE DEF a, inf
<1>6. ActionValid(a)
  BY <1>1, <1>2, <1>3, <1>5 DEF ActionValid
<1> QED
  BY <1>2, <1>3, <1>6 DEF Safe, a

LEMMA PatchSafe ==
  ASSUME NEW file \in Paths \ BlockedPaths
  PROVE  /\ Safe(Deterministic(Patch(file)))
         /\ Deterministic(Patch(file)).files = {file}
<1> DEFINE a == Deterministic(Patch(file))
<1>1. Higher("medium", "low") = "medium"
  BY Weights DEF Higher
<1>2. /\ a.kind = "patch" /\ a.files = {file} /\ a.risk = "medium"
      /\ a.scope = "repo_only" /\ a.approval = TRUE
  BY <1>1 DEF Deterministic, Patch, Declared, Assessed, Assess, Action
<1> HIDE DEF a
<1> QED
  BY <1>2 DEF Safe, ActionValid, PatchValid, a

LEMMA InstructionSafe ==
  \A i \in {Instruct, InstructSetup} :
    Safe(Deterministic(i)) /\ Deterministic(i).files = {}
<1>1. /\ Deterministic(Instruct).kind = "instruction" /\ Deterministic(Instruct).files = {}
      /\ Deterministic(Instruct).risk = "low"
  BY DEF Deterministic, Instruct, Declared, Assessed, Assess, Action
<1>2. /\ Deterministic(InstructSetup).kind = "instruction"
      /\ Deterministic(InstructSetup).files = {}
      /\ Deterministic(InstructSetup).risk = "medium"
      /\ Deterministic(InstructSetup).approval = TRUE
  BY DEF Deterministic, InstructSetup, Declared, Assessed, Assess, Action
<1> QED
  BY <1>1, <1>2 DEF Safe, ActionValid

(* What the playbooks run.                                                  *)
LEMMA TheirCommands ==
  /\ \A what : BrewInstall(what).traits = {"tool_install"}
  /\ \A what : BrewServices(what).traits = {"brew_services"}
  /\ RbenvInstall.traits = {"tool_install"} /\ BundleConfig.traits = {"bundle_config"}
  /\ CreateUser.traits = {"createuser"} /\ ArtisanMigrate.traits = {"migration"}
  /\ RailsMigrate.traits = {"migration"}
BY DEF BrewInstall, BrewServices, RbenvInstall, BundleConfig, CreateUser, ArtisanMigrate,
       RailsMigrate, Cmd

(* A declared action that is safe once assessed, and in the repair scope.   *)
Good(d) == Safe(Deterministic(d)) /\ InRepairScope(Deterministic(d).files)

LEMMA GoodActions ==
  \A risk \in {"medium", "high"} : \A scope, what :
    /\ Good(Run(BrewInstall(what), risk, scope))
    /\ Good(Run(BrewServices(what), risk, scope))
    /\ Good(Run(RbenvInstall, risk, scope)) /\ Good(Run(BundleConfig, risk, scope))
    /\ Good(Run(CreateUser, risk, scope)) /\ Good(Run(ArtisanMigrate, risk, scope))
    /\ Good(Run(RailsMigrate, risk, scope))
<1>1. \A c, scope : \A t \in PlaybookTraits : \A risk \in {"medium", "high"} :
        c.traits = {t} => Good(Run(c, risk, scope))
  BY RunSafe DEF Good, InRepairScope
<1>2. {"tool_install", "migration", "brew_services", "bundle_config", "createuser"}
        \subseteq PlaybookTraits
  BY DEF PlaybookTraits
<1> QED
  BY <1>1, <1>2, TheirCommands, Zenon

LEMMA GoodPatches ==
  /\ Good(Patch("database_yml")) /\ Good(Patch("gitlab_yml"))
  /\ Safe(Deterministic(Patch("sqlite_file")))
  /\ Good(Instruct) /\ Good(InstructSetup)
<1>1. /\ {"database_yml", "gitlab_yml", "sqlite_file"} \subseteq Paths \ BlockedPaths
      /\ {"database_yml", "gitlab_yml"} \subseteq RepairPaths
  BY DEF Paths, BlockedPaths, RepairPaths, OtherPaths
<1> QED
  BY <1>1, PatchSafe, InstructionSafe DEF Good, InRepairScope

(* A playbook's answer.                                                     *)
SqlitePlaybook == "create-laravel-sqlite-database"
Sound(c) ==
  c = NoCandidate \/
  \E id, d, f :
    /\ c = Candidate(id, d, f)
    /\ Safe(Deterministic(d)) /\ \A a \in f : Safe(Deterministic(a))
    /\ Good(d) \/ id = SqlitePlaybook

LEMMA SoundNone == Sound(NoCandidate)
  BY DEF Sound
LEMMA SoundCandidate ==
  ASSUME NEW id, NEW d, NEW f, Good(d), \A a \in f : Good(a)
  PROVE  Sound(Candidate(id, d, f))
  BY DEF Sound, Good

LEMMA SoundTools ==
  \A s : Sound(Ruby(s)) /\ Sound(BuildTool(s)) /\ Sound(PostgresRole(s))
<1> TAKE s
<1>1. /\ Good(Run(RbenvInstall, "medium", "host_tool_install"))
      /\ Good(Run(BrewInstall("cmake"), "medium", "host_tool_install"))
      /\ Good(Run(CreateUser, "medium", "database"))
  BY GoodActions
<1>2. Sound(Ruby(s))
  BY <1>1, SoundNone, SoundCandidate DEF Ruby
<1>3. Sound(BuildTool(s))
  BY <1>1, SoundNone, SoundCandidate DEF BuildTool
<1>4. Sound(PostgresRole(s))
  BY <1>1, SoundNone, SoundCandidate DEF PostgresRole
<1> QED
  BY <1>2, <1>3, <1>4

LEMMA SoundNative == \A s : Sound(NativeExtension(s))
<1> TAKE s
<1> DEFINE configure == Run(BundleConfig, "medium", "project_cache")
           install == Run(BrewInstall("libidn"), "medium", "host_tool_install")
<1>1. Good(configure) /\ Good(install) /\ Good(Instruct)
  BY GoodActions, GoodPatches
<1>2. /\ Sound(Candidate("install-idn-ruby-native-dependencies-instruction", Instruct, {}))
      /\ Sound(Candidate("configure-idn-ruby-for-homebrew-libidn", configure, {}))
      /\ Sound(Candidate("configure-idn-ruby-instruction", Instruct, {}))
      /\ Sound(Candidate("install-idn-ruby-native-dependencies", install, {configure}))
      /\ Sound(Candidate("install-idn-ruby-native-dependencies", install, {}))
  <2> HIDE DEF configure, install
  <2> QED
    BY <1>1, SoundCandidate
<1> QED
  BY <1>2, SoundNone DEF NativeExtension, Shows

LEMMA SoundConfig ==
  \A s : /\ Sound(CopyConfig(s, "copy-database-config-example", "database_yml"))
         /\ Sound(GitlabConfig(s)) /\ Sound(DatabaseSections(s))
<1> TAKE s
<1>1. Good(Patch("database_yml")) /\ Good(Patch("gitlab_yml"))
  BY GoodPatches
<1>2. \A id : \A file \in {"database_yml", "gitlab_yml"} : Sound(CopyConfig(s, id, file))
  BY <1>1, SoundNone, SoundCandidate DEF CopyConfig
<1>3. Sound(GitlabConfig(s))
  BY <1>2, SoundNone DEF GitlabConfig
<1>4. Sound(DatabaseSections(s))
  BY <1>1, SoundNone, SoundCandidate DEF DatabaseSections
<1> QED
  BY <1>2, <1>3, <1>4

LEMMA SoundSqlite == \A s : Sound(SqliteFile(s))
<1> TAKE s
<1> DEFINE d == Patch("sqlite_file")
           f == {Run(ArtisanMigrate, "high", "database")}
<1>1. Safe(Deterministic(d)) /\ \A a \in f : Safe(Deterministic(a))
  <2>1. Good(Run(ArtisanMigrate, "high", "database"))
    BY GoodActions
  <2> QED
    BY <2>1, GoodPatches DEF Good
<1>2. SqliteFile(s) \in {NoCandidate, Candidate(SqlitePlaybook, d, f)}
  BY DEF SqliteFile, SqlitePlaybook
<1> HIDE DEF d, f
<1> QED
  BY <1>1, <1>2 DEF Sound

LEMMA SoundServices ==
  \A s : Sound(Postgres(s)) /\ Sound(PostgresVersion(s)) /\ Sound(Redis(s))
         /\ Sound(MissingEnv(s))
<1> TAKE s
<1> DEFINE postgres == Run(BrewServices("postgres"), "medium", "service")
           start == Run(BrewServices("postgres"), "high", "service")
           install == Run(BrewInstall("postgres"), "high", "host_tool_install")
           redis == Run(BrewServices("redis"), "medium", "service")
<1>1. Good(postgres) /\ Good(start) /\ Good(install) /\ Good(redis) /\ Good(Instruct)
  BY GoodActions, GoodPatches
<1>2. /\ Sound(Candidate("start-postgres-with-homebrew", postgres, {Instruct}))
      /\ Sound(Candidate("start-postgres-instruction", Instruct, {}))
      /\ Sound(Candidate("install-supported-postgres-instruction", Instruct, {}))
      /\ Sound(Candidate("start-required-postgres-version", start, {Instruct}))
      /\ Sound(Candidate("install-required-postgres-version", install, {start}))
      /\ Sound(Candidate("start-redis-with-homebrew", redis, {}))
      /\ Sound(Candidate("start-redis-instruction", Instruct, {}))
      /\ Sound(Candidate("rerun-with-rails-development", Instruct, {}))
  <2> HIDE DEF postgres, start, install, redis
  <2> QED
    BY <1>1, SoundCandidate
<1>3. Sound(Postgres(s))
  BY <1>2, SoundNone DEF Postgres, Shows
<1>4. Sound(PostgresVersion(s))
  BY <1>2 DEF PostgresVersion, Shows
<1>5. Sound(Redis(s)) /\ Sound(MissingEnv(s))
  BY <1>2, SoundNone DEF Redis, MissingEnv
<1> QED
  BY <1>3, <1>4, <1>5

LEMMA SoundPlaybooks == \A s : Sound(PlaybookFor(s))
<1> TAKE s
<1>1. /\ Sound(Candidate("prepare-sentry-devenv-instruction", InstructSetup, {}))
      /\ Sound(Candidate("run-laravel-database-migrations",
                         Run(ArtisanMigrate, "high", "database"), {}))
      /\ Sound(Candidate("run-rails-database-migrations",
                         Run(RailsMigrate, "high", "database"), {}))
  BY GoodActions, GoodPatches, SoundCandidate
<1>2. /\ Sound(Ruby(s)) /\ Sound(BuildTool(s)) /\ Sound(PostgresRole(s))
      /\ Sound(NativeExtension(s)) /\ Sound(SqliteFile(s))
      /\ Sound(CopyConfig(s, "copy-database-config-example", "database_yml"))
      /\ Sound(GitlabConfig(s)) /\ Sound(DatabaseSections(s))
      /\ Sound(Postgres(s)) /\ Sound(PostgresVersion(s)) /\ Sound(Redis(s))
      /\ Sound(MissingEnv(s))
  BY SoundTools, SoundNative, SoundConfig, SoundSqlite, SoundServices
<1> QED
  BY <1>1, <1>2, SoundNone DEF PlaybookFor, SentryClasses

(* Whatever a read shows, the candidate is one the policy accepts.          *)
SafeCandidate(c) ==
  Found(c) =>
    /\ \A a \in {c.action} \cup c.follow : Safe(a)
    /\ c.id # SqlitePlaybook => InRepairScope(c.action.files)

LEMMA SafeCandidates == \A s : SafeCandidate(CandidateFor(s))
<1> TAKE s
<1> DEFINE c == PlaybookFor(s)
<1>1. CASE c = NoCandidate
  BY <1>1 DEF CandidateFor, BuiltCandidate, SafeCandidate, Found, NoCandidate
<1>2. ASSUME c # NoCandidate
      PROVE  SafeCandidate(CandidateFor(s))
  <2>1. Sound(c)
    BY SoundPlaybooks
  <2>2. PICK id, d, f :
          /\ c = Candidate(id, d, f)
          /\ Safe(Deterministic(d)) /\ \A a \in f : Safe(Deterministic(a))
          /\ Good(d) \/ id = SqlitePlaybook
    BY <1>2, <2>1 DEF Sound
  <2> DEFINE b == BuiltCandidate(c)
  <2>3. b = [c EXCEPT !.action = Deterministic(@), !.follow = {Deterministic(a) : a \in @}]
    BY <1>2 DEF BuiltCandidate
  <2> HIDE DEF c
  <2>4. /\ b.id = id /\ b.action = Deterministic(d)
        /\ b.follow = {Deterministic(a) : a \in f}
    BY <2>2, <2>3 DEF Candidate
  <2> HIDE DEF b
  <2>5. SafeCandidate(b)
    BY <2>2, <2>4 DEF SafeCandidate, Good
  <2> QED
    BY <2>5 DEF CandidateFor, b, c
<1> QED
  BY <1>1, <1>2
-----------------------------------------------------------------------------
(* What is kept is of its kind; the failure under repair was a read one, or *)
(* the one that a baseline run recorded.                                    *)
TypeInv == TypeOK /\ before \in WorldType

LEMMA TypeStep ==
  ASSUME TypeInv, [Next]_vars
  PROVE  TypeInv'
<1> USE DEF TypeInv, TypeOK, PCs, Results, Effects, NoOutcome
<1>1. CASE Start
  <2>1. /\ pc = "start" /\ before' \in {before, world} /\ path' \in {path, "ai"}
        /\ pc' \in {"done", "consent", "ask", "repair"}
        /\ result' \in {result, "refused", "threw"}
        /\ UNCHANGED <<world, changes, opts, approved, cand, proc, exit, box,
                       outcome, after, files>>
    BY <1>1 DEF Start
  <2> QED
    BY <2>1
<1>2. CASE Answer \/ Consent
  BY <1>2 DEF Answer, Consent
<1>3. ASSUME NEW s \in Suggestions, Suggest(s)
      PROVE  TypeInv'
  <2>1. /\ pc = "request" /\ pc' \in {"done", "askAi"} /\ result' \in {result, "threw"}
        /\ UNCHANGED <<world, changes, opts, approved, path, before, proc, exit,
                       box, outcome, after, files>>
    BY <1>3 DEF Suggest
  <2> QED
    BY <2>1
<1>4. CASE ReadAgain
  <2>1. /\ pc = "repair" /\ before' = world
        /\ pc' \in {"exec", "done", "remedy", "baseline"}
        /\ path' \in {path, "playbook", "registry"}
        /\ result' \in Results /\ patchFile' \in BOOLEAN
        /\ copied' \in Effects /\ sandbox' \in BOOLEAN
        /\ UNCHANGED <<world, changes, opts, approved, child, effect, containers,
                       exit, outcome, after>>
    BY <1>4, ReadAgainCases
  <2> QED
    BY <2>1
<1>5. CASE Withhold \/ RecordRepair
  <2>1. /\ pc \in {"exec", "record"} /\ pc' = "done"
        /\ result' \in {"repaired", "unrepaired", "threw"} /\ patchFile' \in BOOLEAN
        /\ UNCHANGED <<world, changes, asked, path, before, cand, proc, exit, box,
                       outcome, after>>
    BY <1>5 DEF Withhold, RecordRepair, Record
  <2> QED
    BY <2>1
<1>6. CASE RunCommand \/ CommandCloses \/ CommandTimesOut
  BY <1>6 DEF RunCommand, CommandCloses, CommandTimesOut
<1>14. CASE CopyForPatch \/ CopySandbox
  <2>1. /\ pc \in {"exec", "copy"} /\ pc' \in {"patch", "rerun", "done"}
        /\ result' \in Results /\ patchFile' \in BOOLEAN
        /\ copied' \in Effects /\ sandbox' \in BOOLEAN /\ child' = child
        /\ UNCHANGED <<world, changes, opts, approved, path, before, effect,
                       containers, exit, outcome, after>>
    BY <1>14 DEF CopyForPatch, CopySandbox, CopyFails
  <2> QED
    BY <2>1
<1>7. CASE ChildWorks \/ ApplyPatch \/ Rerun \/ Crash
  BY <1>7 DEF ChildWorks, ApplyPatch, Rerun, Crash
<1>8. CASE Cleanup
  <2>1. /\ pc = "cleanup" /\ pc' \in {"done", "record"}
        /\ containers' \in BOOLEAN /\ sandbox' \in BOOLEAN
        /\ UNCHANGED <<world, changes, asked, path, before, cand, proc, exit, copied,
                       outcome, after, files, result>>
    BY <1>8 DEF Cleanup, DownServices
  <2> QED
    BY <2>1
<1>9. CASE Baseline
  <2>1. /\ pc = "baseline" /\ containers' \in BOOLEAN /\ outcome' \in {NoOutcome, "up"}
        /\ world' \in WorldType /\ before' \in WorldType
        /\ pc' \in {"cleanup", "remedy"}
        /\ result' \in {result, "threw", "boots", "unknown"}
        /\ UNCHANGED <<changes, asked, path, cand, proc, exit, copied, sandbox, after,
                       files>>
    BY <1>9, WorldAssumption DEF Baseline
  <2> QED
    BY <2>1
<1>10. CASE Remediate
  <2>1. world' \in WorldType
    <3>1. world' = world \/ world' = [before EXCEPT !.failed = TRUE]
      BY <1>10 DEF Remediate, PersistFailure
    <3> QED
      BY <3>1 DEF WorldType
  <2>2. /\ pc = "remedy" /\ pc' \in {"rerun", "cleanup"}
        /\ result' \in {result, "threw", "unresolved"}
        /\ UNCHANGED <<changes, asked, path, before, cand, child, effect, exit, box,
                       outcome, after, files>>
    BY <1>10 DEF Remediate
  <2> QED
    BY <2>1, <2>2
<1>11. CASE RerunRegistry
  <2>1. world' \in WorldType
    <3>1. world' = world \/ world' = [before EXCEPT !.failed = TRUE]
      BY <1>11 DEF RerunRegistry, PersistFailure
    <3> QED
      BY <3>1 DEF WorldType
  <2>2. /\ pc = "rerun" /\ pc' = "cleanup" /\ containers' \in BOOLEAN
        /\ result' \in {"threw", "repaired", "unresolved"}
        /\ outcome' \in {outcome, "up"} /\ patchFile' \in BOOLEAN
        /\ UNCHANGED <<changes, asked, path, before, cand, child, effect, exit, copied,
                       sandbox>>
    BY <1>11 DEF RerunRegistry
  <2> QED
    BY <2>1, <2>2
<1>12. CASE WorldChanges
  <2>1. /\ world' \in WorldType /\ changes < MaxChanges /\ changes' = changes + 1
        /\ UNCHANGED <<asked, pc, path, before, cand, proc, exit, box, outcome, after,
                       files, result>>
    BY <1>12, WorldAssumption DEF WorldChanges
  <2>2. changes' \in 0..MaxChanges
    BY <2>1, WorldAssumption
  <2> QED
    BY <2>1, <2>2
<1>13. CASE UNCHANGED vars
  BY <1>13 DEF vars
<1> QED
  BY <1>1, <1>2, <1>3, <1>4, <1>5, <1>6, <1>7, <1>8, <1>9, <1>10, <1>11, <1>12, <1>13, <1>14
  DEF Next, Repair, Over

LEMMA TypeInit == Init => TypeInv
<1> SUFFICES ASSUME Init PROVE TypeInv
  OBVIOUS
<1>1. world \in WorldType /\ before \in WorldType /\ changes \in 0..MaxChanges
  BY WorldAssumption DEF Init
<1>2. {approved, sandbox, containers, patchFile} \subseteq BOOLEAN
  BY DEF Init
<1> QED
  BY <1>1, <1>2 DEF Init, TypeInv, TypeOK, PCs, Results, Effects, NoOutcome

(* Every variable of `fix` keeps to its kind, and a command is at work only *)
(* where the code awaits it (repair.ts:1244-1300).                          *)
THEOREM TypeCorrect == Spec => []TypeOK
<1>1. TypeInv => TypeOK
  BY DEF TypeInv
<1> QED
  BY <1>1, TypeInit, TypeStep, PTL DEF Spec
-----------------------------------------------------------------------------
(* A world of its kind shows a situation of the tables, so its candidate is *)
(* one of them.                                                             *)
LEMMA CandidatesInTable ==
  ASSUME NEW w \in WorldType
  PROVE  /\ CandidateIn(w) \in {NoCandidate, CandidateFor(w.situation)}
         /\ Found(CandidateIn(w)) => CandidateValid(CandidateIn(w))
<1> DEFINE s == w.situation
<1>1. s \in Situations
  BY DEF WorldType
<1>2. Candidates[s] = CandidateFor(s)
  BY <1>1 DEF Candidates
<1>3. CandidateIn(w) = CandidateFor(s) \/ CandidateIn(w) = NoCandidate
  BY <1>2 DEF CandidateIn
<1>4. ASSUME Found(CandidateIn(w))
      PROVE  CandidateValid(CandidateIn(w))
  <2>1. CandidateIn(w) = Candidates[s]
    BY <1>4, <1>2, <1>3 DEF Found, NoCandidate
  <2>2. \A a \in {Candidates[s].action} \cup Candidates[s].follow : ActionValid(a)
    BY <1>2, <1>4, <2>1, SafeCandidates DEF SafeCandidate, Safe
  <2>3. {Candidates[s].action} \cup Candidates[s].follow \subseteq Accepted
    BY <1>1, <2>2 DEF Accepted
  <2> QED
    BY <2>1, <2>3 DEF CandidateValid
<1> QED
  BY <1>3, <1>4

(* Whatever the evidence, the repository and the host show: the safety      *)
(* policy accepts every proposed action, nothing but an instruction goes    *)
(* without approval, and a patch keeps to the files of a repair             *)
(* (repair-playbooks.ts:261-701, repair-safety.ts).                         *)
THEOREM PlaybooksAreSafeCorrect == Spec => []PlaybooksAreSafe
<1>1. ASSUME TypeInv
      PROVE  PlaybooksAreSafe
  <2> DEFINE c == CandidateIn(world)
  <2>1. world \in WorldType
    BY <1>1 DEF TypeInv, TypeOK
  <2>2. c = NoCandidate \/ c = CandidateFor(world.situation)
    BY <2>1, CandidatesInTable
  <2>3. Found(c) => CandidateValid(c)
    BY <2>1, CandidatesInTable
  <2>4. SafeCandidate(c)
    BY <2>2, SafeCandidates DEF SafeCandidate, Found, NoCandidate
  <2> HIDE DEF c
  <2>5. Found(c) =>
          /\ CandidateValid(c)
          /\ \A a \in {c.action} \cup c.follow : a.kind # "instruction" => a.approval
          /\ c.id # "create-laravel-sqlite-database" => InRepairScope(c.action.files)
    BY <2>3, <2>4 DEF SafeCandidate, Safe, SqlitePlaybook
  <2> QED
    BY <2>5 DEF PlaybooksAreSafe, c
<1> QED
  BY <1>1, TypeInit, TypeStep, PTL DEF Spec
-----------------------------------------------------------------------------
(* There is no copy before one is made, or after the clean-up, and nothing  *)
(* of an earlier repair between the start of a command and the copy.        *)
Unboxed == {"start", "ask", "consent", "request", "askAi", "repair", "exec",
            "command", "copy", "record"}
BoxInv ==
  /\ pc \in Unboxed => ~sandbox
  /\ pc \in {"command", "copy"} => receipt = NoReceipt /\ afterFile = NoAfter

LEMMA BoxStep ==
  ASSUME BoxInv, [Next]_vars
  PROVE  BoxInv'
<1> USE DEF BoxInv, Unboxed
<1>1. CASE Start \/ Answer \/ Consent \/ Crash
  <2>1. /\ pc' \in {"ask", "consent", "repair", "exec", "request", "done", "crashed"}
        /\ UNCHANGED sandbox /\ (pc' # "crashed" => pc \in Unboxed)
    BY <1>1 DEF Start, Answer, Consent, Crash
  <2> QED
    BY <2>1
<1>2. ASSUME NEW s \in Suggestions, Suggest(s)
      PROVE  BoxInv'
  <2>1. pc = "request" /\ pc' \in {"askAi", "done"} /\ UNCHANGED sandbox
    BY <1>2 DEF Suggest
  <2> QED
    BY <2>1
<1>3. CASE ReadAgain
  <2>1. /\ pc = "repair"
        /\ \/ pc' = "exec" /\ UNCHANGED sandbox
           \/ pc' \in {"done", "remedy", "baseline"}
    BY <1>3, ReadAgainCases
  <2> QED
    BY <2>1
<1>4. CASE Withhold \/ RecordRepair
  BY <1>4 DEF Withhold, RecordRepair, Record
<1>5. CASE RunCommand \/ CommandCloses \/ CommandTimesOut
  BY <1>5 DEF RunCommand, CommandCloses, CommandTimesOut
<1>6. CASE CopyForPatch \/ CopySandbox \/ ApplyPatch \/ Rerun \/ Cleanup
  BY <1>6 DEF CopyForPatch, CopySandbox, CopyFails, ApplyPatch, Rerun, Cleanup
<1>7. CASE Baseline \/ Remediate \/ RerunRegistry
  <2>1. pc' \in {"remedy", "rerun", "cleanup"}
    BY <1>7 DEF Baseline, Remediate, RerunRegistry
  <2> QED
    BY <2>1
<1>8. CASE ChildWorks \/ WorldChanges \/ UNCHANGED vars
  BY <1>8 DEF ChildWorks, WorldChanges, vars
<1> QED
  BY <1>1, <1>2, <1>3, <1>4, <1>5, <1>6, <1>7, <1>8 DEF Next, Repair, Over

(* An attempt holds a candidate that the policy accepts from the moment it  *)
(* is one, and the second run it records is of the kind its failure was.    *)
Attempting == {"askAi", "exec", "command", "copy", "patch", "rerun", "cleanup", "record"}
AttemptInv ==
  /\ TypeInv /\ TruthInv /\ BoxInv
  /\ pc \in {"start", "ask", "repair"} => path = "none"
  /\ pc \in {"start", "ask", "repair", "consent", "request"} => cand = NoCandidate
  /\ pc \in Attempting /\ path # "registry" => CandidateValid(cand)
  /\ after.mode \in {"none", "up", "external"}
  /\ after.mode = "external" => External
  /\ BootAttemptRecorded

(* The receipt of an attempt contradicts itself only when an external URL   *)
(* was found healthy.                                                       *)
LEMMA RecordOwn ==
  ASSUME NEW status \in ReceiptStatuses, NEW approvedAt, NEW a, CandidateValid(cand),
         a.mode \in {"none", "up"} \/ ~a.healthy,
         Record(LifecycleReceipt(status, approvedAt, a))
  PROVE  receipt'.own
<1> DEFINE r == LifecycleReceipt(status, approvedAt, a)
<1>1. Verified(a) => Progressed(before.situation.class, a)
  BY DEF Verified, Progressed, Booted
<1>2. ReceiptConsistent(r) /\ r.action \in Accepted /\ r.own
  BY <1>1 DEF ReceiptConsistent, LifecycleReceipt, CandidateValid
<1> HIDE DEF r
<1>3. Record(r)
  BY DEF r
<1> QED
  BY <1>2, <1>3 DEF Record

LEMMA AttemptStep ==
  ASSUME AttemptInv, [Next]_vars
  PROVE  AttemptInv'
<1>1. TypeInv' /\ TruthInv' /\ BoxInv'
  BY TypeStep, TruthStep, BoxStep DEF AttemptInv
<1>2. CASE Start \/ Answer \/ Consent
  <2>1. /\ pc \in {"start", "ask", "askAi", "consent"} /\ UNCHANGED <<cand, after>>
        /\ \/ pc = "start" /\ pc' \in {"ask", "repair", "done"} /\ path' = path
           \/ pc = "start" /\ pc' = "consent" /\ path' = "ai"
           \/ pc = "ask" /\ pc' = "repair" /\ path' = path
           \/ pc = "askAi" /\ pc' = "exec" /\ path' = path
           \/ pc = "consent" /\ pc' \in {"request", "done"} /\ path' = path
    BY <1>2 DEF Start, Answer, Consent
  <2>2. after' = NoAfter
    BY <2>1 DEF AttemptInv, TruthInv, Before
  <2>3. cand' = NoCandidate => ~Found(cand')
    BY DEF Found, NoCandidate
  <2>4. CandidateValid(cand) => CandidateValid(cand)'
    BY <2>1 DEF CandidateValid, Accepted
  <2>5. path # "registry"
    BY <2>1 DEF AttemptInv, TruthInv
  <2>6. after'.mode = "none"
    BY <2>2 DEF NoAfter, After
  <2>7. /\ pc' \in {"start", "ask", "repair"} => path' = "none"
        /\ pc' \in {"start", "ask", "repair", "consent", "request"} => cand' = NoCandidate
    BY <2>1 DEF AttemptInv
  <2>8. pc' \in Attempting /\ path' # "registry" => CandidateValid(cand)'
    BY <2>1, <2>4, <2>5 DEF AttemptInv, Attempting
  <2>9. BootAttemptRecorded'
    BY <2>1, <2>3, <2>7 DEF AttemptInv, TruthInv, BootAttemptRecorded, Attempted
  <2> QED
    BY <1>1, <2>6, <2>7, <2>8, <2>9 DEF AttemptInv
<1>3. ASSUME NEW s \in Suggestions, Suggest(s)
      PROVE  AttemptInv'
  <2>1. /\ pc = "request" /\ path = "ai" /\ path' = path /\ after' = after
        /\ cand = NoCandidate /\ after = NoAfter
    BY <1>3 DEF Suggest, AttemptInv, TruthInv, Before
  <2>2. \/ pc' = "askAi" /\ AiAction(s) \in Accepted
           /\ cand' = Candidate("ai-suggested", AiAction(s), {})
        \/ pc' = "done" /\ cand' = cand
    BY <1>3 DEF Suggest
  <2>3. CASE pc' = "askAi"
    <3>1. cand'.action \in Accepted /\ cand'.follow = {}
      BY <2>2, <2>3 DEF Candidate
    <3>2. CandidateValid(cand')
      BY <3>1 DEF CandidateValid
    <3>3. CandidateValid(cand)'
      BY <3>1 DEF CandidateValid
    <3> QED
      BY <1>1, <2>1, <2>3, <3>3
      DEF AttemptInv, BootAttemptRecorded, Attempting, NoAfter, After
  <2>4. CASE pc' = "done"
    <3>1. ~Found(cand')
      BY <2>1, <2>2, <2>4 DEF Found, NoCandidate
    <3> QED
      BY <1>1, <2>1, <2>4, <3>1
      DEF AttemptInv, BootAttemptRecorded, Attempted, Attempting, NoAfter, After
  <2> QED
    BY <2>2, <2>3, <2>4
<1>4. CASE ReadAgain
  <2> DEFINE c == CandidateIn(world)
  <2>1. /\ pc = "repair" /\ path = "none" /\ cand = NoCandidate /\ after = NoAfter
        /\ after' = after /\ UNCHANGED <<world, opts>> /\ world \in WorldType
    BY <1>4, ReadAgainCases DEF AttemptInv, TruthInv, Before, TypeInv, TypeOK
  <2>2. \/ pc' = "exec" /\ path' = "playbook" /\ cand' = c /\ Found(c)
        \/ pc' = "done" /\ path' = path /\ cand' = cand
        \/ pc' \in {"remedy", "baseline", "done"} /\ path' = "registry" /\ cand' = cand
    BY <1>4, ReadAgainCases
  <2>3. Found(c) => CandidateValid(c)
    BY <2>1, CandidatesInTable
  <2> HIDE DEF c
  <2>4. pc' = "exec" => CandidateValid(cand)'
    BY <2>2, <2>3 DEF CandidateValid, Accepted
  <2> QED
    BY <1>1, <2>1, <2>2, <2>4
    DEF AttemptInv, BootAttemptRecorded, Attempted, Attempting, NoAfter, After
<1>5. CASE Withhold
  <2>1. /\ pc = "exec" /\ pc' = "done" /\ after' = after /\ after = NoAfter
        /\ path' = path /\ cand' = cand /\ ~sandbox'
    BY <1>5 DEF Withhold, Record, AttemptInv, TruthInv, Before, BoxInv, Unboxed
  <2>2. CandidateValid(cand)
    BY <2>1 DEF AttemptInv, TruthInv, Attempting
  <2>3. receipt'.own
    <3>1. PICK approvedAt :
            Record(LifecycleReceipt("not_applied", approvedAt, NoAfter))
      BY <1>5, <2>2 DEF Withhold
    <3> QED
      BY <2>2, <3>1, RecordOwn DEF ReceiptStatuses, NoAfter, After
  <2> QED
    BY <1>1, <2>1, <2>3
    DEF AttemptInv, BootAttemptRecorded, Attempting, NoAfter, After
<1>6. CASE RecordRepair
  <2>1. /\ pc = "record" /\ pc' = "done" /\ path # "registry"
        /\ UNCHANGED <<after, path, before, cand>> /\ ~sandbox'
    BY <1>6 DEF RecordRepair, Record, AttemptInv, TruthInv, BoxInv, Unboxed
  <2>2. CandidateValid(cand)
    BY <2>1 DEF AttemptInv, Attempting
  <2>3. PICK status \in {"applied", "failed"} :
          Record(LifecycleReceipt(status, TRUE, after))
    BY <1>6 DEF RecordRepair
  <2>4. after.mode \in {"none", "up"} \/ ~after.healthy \/ (External /\ after.healthy)
    BY DEF AttemptInv
  <2>5. receipt'.own \/ (External /\ after.healthy)
    BY <2>2, <2>3, <2>4, RecordOwn DEF ReceiptStatuses
  <2> QED
    BY <1>1, <2>1, <2>5
    DEF AttemptInv, BootAttemptRecorded, Attempting, External
<1>7. ASSUME \/ RunCommand \/ CopyForPatch \/ CommandCloses \/ CommandTimesOut
             \/ CopySandbox \/ ApplyPatch \/ Cleanup
      PROVE  AttemptInv'
  <2>1. /\ UNCHANGED <<after, path, before, cand>> /\ pc \in Attempting
        /\ pc' \in Attempting \cup {"done"} /\ pc' # "askAi"
        /\ pc' = "done" =>
             \/ path = "registry"
             \/ result' = "copy_threw" /\ receipt' = NoReceipt /\ afterFile' = NoAfter
    BY <1>7 DEF RunCommand, CopyForPatch, CommandCloses, CommandTimesOut, CopySandbox,
                ApplyPatch, Cleanup, Attempting, CopyFails, AttemptInv, BoxInv
  <2>2. CandidateValid(cand) => CandidateValid(cand)'
    BY <2>1 DEF CandidateValid, Accepted
  <2> QED
    BY <1>1, <2>1, <2>2
    DEF AttemptInv, BootAttemptRecorded, Attempted, Attempting, External
<1>8. CASE Rerun
  <2>1. /\ UNCHANGED <<path, before, cand>> /\ pc = "rerun" /\ pc' = "cleanup"
        /\ \/ ~External /\ after' \in {after} \cup UpAttests
           \/ External /\ after' \in ExternalAttests
    BY <1>8 DEF Rerun
  <2>2. /\ after'.mode \in {"none", "up", "external"}
        /\ after'.mode = "external" => External
    BY <2>1 DEF AttemptInv, UpAttests, ExternalAttests, After, NoAfter
  <2> QED
    BY <1>1, <2>1, <2>2
    DEF AttemptInv, BootAttemptRecorded, Attempting, External, CandidateValid, Accepted
<1>9. CASE Baseline \/ Remediate \/ RerunRegistry
  <2>1. path = "registry" /\ pc \in {"baseline", "remedy", "rerun"}
    BY <1>9 DEF AttemptInv, TruthInv, Baseline, Remediate, RerunRegistry
  <2>2. /\ UNCHANGED <<path, cand>> /\ pc' \in {"remedy", "rerun", "cleanup"}
        /\ after' \in {after} \cup UpAttests
    BY <1>9 DEF Baseline, Remediate, RerunRegistry
  <2>3. after'.mode \in {"none", "up"}
    BY <2>1, <2>2 DEF AttemptInv, UpAttests, After, NoAfter, External
  <2> QED
    BY <1>1, <2>1, <2>2, <2>3
    DEF AttemptInv, BootAttemptRecorded, Attempting
<1>10. ASSUME ChildWorks \/ WorldChanges \/ Crash \/ UNCHANGED vars
      PROVE  AttemptInv'
  <2>1. /\ UNCHANGED <<after, path, before, cand, receipt, afterFile, sandbox, result>>
        /\ pc' \in {pc, "crashed"}
    BY <1>10 DEF ChildWorks, WorldChanges, Crash, vars
  <2> QED
    BY <1>1, <2>1
    DEF AttemptInv, BootAttemptRecorded, Attempted, Attempting, External, CandidateValid,
        Accepted
<1> QED
  BY <1>2, <1>3, <1>4, <1>5, <1>6, <1>7, <1>8, <1>9, <1>10 DEF Next, Repair, Over

(* docs/HONESTY_CONTRACT.md:90, as far as it is so: the policy accepts what *)
(* was attempted and the receipt does not contradict itself, so an attempt  *)
(* that is over has its own receipt and left no copy, but for a healthy     *)
(* external URL and for a copy that failed, which leaves neither a receipt  *)
(* nor anything of an earlier one (repair.ts:958-1055, 1150, 1244, 1457,    *)
(* 1536).                                                                   *)
THEOREM BootAttemptRecordedCorrect == Spec => []BootAttemptRecorded
<1>1. Init => AttemptInv
  <2>1. ASSUME Init
        PROVE  TruthInv
    BY <2>1
    DEF Init, TruthInv, ReceiptTellsTheTruth, Before, Underway, OldReceipt, NoReceipt
  <2> SUFFICES ASSUME Init PROVE AttemptInv
    OBVIOUS
  <2>2. TypeInv /\ TruthInv
    BY <2>1, TypeInit
  <2>3. pc = "start" /\ path = "none" /\ cand = NoCandidate
    BY DEF Init
  <2>4. after.mode = "none" /\ BoxInv
    BY DEF Init, NoAfter, After, BoxInv, Unboxed
  <2> QED
    BY <2>2, <2>3, <2>4 DEF AttemptInv, BootAttemptRecorded, Attempting
<1>2. AttemptInv => BootAttemptRecorded
  BY DEF AttemptInv
<1> QED
  BY <1>1, <1>2, AttemptStep, PTL DEF Spec
=============================================================================
