---------------------------- MODULE CiActionProofs ---------------------------
(***************************************************************************)
(* Theorems about CiAction: however often the action is used and wherever   *)
(* a command or a step dies, a green use was earned, what a use stages is   *)
(* its own, and there is one comment.                                       *)
(***************************************************************************)
EXTENDS CiAction, FiniteSetTheorems, TLAPS

(* What a copy is made of exists.                                           *)
LEMMA CopyTyped ==
  ASSUME TypeOK, Whole(disk.proof)
  PROVE  Copy \in Copies
  BY DEF TypeOK, Files, Whole, Copy, Copies, Evidence

(* Whatever `up` prints and leaves is of its kind.                          *)
LEMMA UpTyped ==
  ASSUME TypeOK, NEW up, up \in UpResults, NEW left, left \in Leaves(up)
  PROVE  up \in Results /\ left \in Evidence
<1>1. up \in Results
  <2>1. Printed(TRUE, 0) \in Results /\ Printed(FALSE, 1) \in Results
        /\ Printed(TRUE, 1) \in Results
    BY DEF Printed, Results
  <2>2. Silent \in Results
    BY DEF Silent, Results
  <2>3. [Silent EXCEPT !.json = TRUE] \in Results
    BY <2>2 DEF Results
  <2> QED
    BY <2>1, <2>2, <2>3 DEF UpResults
<1>2. Own(TRUE) \in Evidence /\ Own(FALSE) \in Evidence
  BY DEF TypeOK, Own, Evidence
<1>3. Own(up.verified) \in Evidence
  BY <1>1 DEF TypeOK, Own, Evidence, Results
<1>4. disk.proof \in Evidence /\ Torn \in Evidence
  BY DEF TypeOK, Files, Evidence
<1> QED
  BY <1>1, <1>2, <1>3, <1>4 DEF Leaves

(* The handler of main() leaves files of their kind.                        *)
LEMMA HaltsTyped ==
  ASSUME TypeOK, Halts, use' \in 0..MaxUses
  PROVE  at' \in Places /\ disk' \in Files
<1>1. [by |-> use', fail |-> TRUE] \in Verdicts
  BY DEF Verdicts
<1> QED
  BY <1>1 DEF TypeOK, Files, Halts, Goes, Places

(* Every action keeps the types.                                            *)
LEMMA TypeStep ==
  ASSUME TypeOK, [Next]_vars
  PROVE  TypeOK'
<1>1. ASSUME NEW i \in InputSet, Begin(i)
      PROVE  TypeOK'
  <2>1. use' \in 0..MaxUses
    BY <1>1, BoundAssumption DEF TypeOK, Begin
  <2>2. now' \in Memory
    BY <1>1 DEF Begin, Started, Silent, Results, Evidence, Memory
  <2>3. at' \in Places /\ disk' \in Files
    <3>1. CASE i.valid
      BY <3>1, <1>1 DEF TypeOK, Begin, Goes, NoArtifacts, Places, Files, Evidence
    <3>2. CASE ~i.valid
      BY <3>2, <2>1, <1>1, HaltsTyped DEF Begin
    <3> QED
      BY <3>1, <3>2
  <2> QED
    BY <2>1, <2>2, <2>3, <1>1 DEF TypeOK, Begin, thread
<1>2. CASE RunUp
  <2>1. PICK up, left :
          /\ up \in UpResults /\ left \in Leaves(up)
          /\ now' = [now EXCEPT !.up = up, !.wrong = ~up.json,
                                !.read = IF up.attested THEN left ELSE Absent]
          /\ disk' = [disk EXCEPT !.proof = left]
    BY <1>2 DEF RunUp
  <2>2. up \in Results /\ left \in Evidence /\ Absent \in Evidence
    BY <2>1, UpTyped DEF Evidence
  <2>3. now' \in Memory
    BY <2>1, <2>2 DEF TypeOK, Memory
  <2>4. disk' \in Files
    BY <2>1, <2>2 DEF TypeOK, Files
  <2> QED
    BY <2>3, <2>4, <1>2 DEF TypeOK, RunUp, Goes, Places, thread
<1>3. CASE RunDiff
  <2>1. now' \in Memory
    BY <1>3 DEF TypeOK, RunDiff, Memory
  <2> QED
    BY <2>1, <1>3 DEF TypeOK, RunDiff, Goes, Places, thread
<1>4. CASE ExportEntry
  <2>1. now' \in Memory
    BY <1>4 DEF TypeOK, ExportEntry, Notes, Memory
  <2>2. disk' \in Files
    BY <1>4, CopyTyped DEF TypeOK, ExportEntry, Files
  <2> QED
    BY <2>1, <2>2, <1>4 DEF TypeOK, ExportEntry, Goes, Places, thread
<1>5. CASE ExportReceipt
  <2>1. now' \in Memory
    BY <1>5, CopyTyped DEF TypeOK, ExportReceipt, Notes, Memory
  <2>2. \/ disk' = disk
        \/ Copy \in Copies /\ disk' = [disk EXCEPT !.receipts = @ \cup {Copy}]
    <3>1. CASE ~now.inputs.receipt
      BY <3>1, <1>5 DEF ExportReceipt
    <3>2. CASE Whole(disk.proof)
      BY <3>2, <1>5, CopyTyped DEF ExportReceipt
    <3>3. CASE now.inputs.receipt /\ ~Whole(disk.proof)
      BY <3>3, <1>5 DEF ExportReceipt
    <3> QED
      BY <3>1, <3>2, <3>3
  <2>3. disk' \in Files
    BY <2>2 DEF TypeOK, Files
  <2> QED
    BY <2>1, <2>3, <1>5 DEF TypeOK, ExportReceipt, Goes, Places, thread
<1>6. CASE ReadPlan
  <2>1. now' \in Memory
    BY <1>6 DEF TypeOK, ReadPlan, Notes, Memory
  <2> QED
    BY <2>1, <1>6 DEF TypeOK, ReadPlan, Goes, Places, thread
<1>7. CASE CannotStart
  BY <1>7, HaltsTyped DEF TypeOK, CannotStart, thread
<1>8. CASE SkipComment
  BY <1>8 DEF TypeOK, SkipComment, Goes, Places, thread
<1>9. CASE LookUp
  <2>1. now' \in Memory
    BY <1>9 DEF TypeOK, LookUp, Found, Memory
  <2>2. raced' \in BOOLEAN /\ crowded' \in BOOLEAN
    BY <1>9 DEF TypeOK, LookUp
  <2> QED
    BY <2>1, <2>2, <1>9 DEF TypeOK, LookUp, Goes, Places
<1>10. CASE Post
  BY <1>10 DEF TypeOK, Post, Posted, Goes, Places
<1>11. CASE Conclude
  <2>1. [by |-> use, fail |-> ShouldFail] \in Verdicts
    BY DEF TypeOK, Memory, Verdicts, ShouldFail
  <2>2. disk' \in Files
    BY <2>1, <1>11 DEF TypeOK, Conclude, Files, Memory
  <2> QED
    BY <2>2, <1>11 DEF TypeOK, Conclude, Goes, Places, thread
<1>12. CASE Publish
  <2>1. now' \in Memory
    BY <1>12 DEF TypeOK, Publish, Memory
  <2> QED
    BY <2>1, <1>12 DEF TypeOK, Publish, Goes, Places, thread
<1>13. CASE Enforce
  <2>1. now' \in Memory
    BY <1>13 DEF TypeOK, Enforce, Judged, Memory
  <2> QED
    BY <2>1, <1>13 DEF TypeOK, Enforce, Goes, Places, thread
<1>14. CASE Crash
  BY <1>14 DEF TypeOK, Crash, Goes, Places, thread
<1>15. CASE RivalLooksUp
  <2>1. rivals' \in 0..MaxRivals
    BY <1>15, BoundAssumption DEF TypeOK, RivalLooksUp
  <2>2. raced' \in BOOLEAN /\ crowded' \in BOOLEAN
    BY <1>15 DEF TypeOK, RivalLooksUp
  <2> QED
    BY <2>1, <2>2, <1>15 DEF TypeOK, RivalLooksUp
<1>16. CASE RivalPosts
  BY <1>16 DEF TypeOK, RivalPosts, Posted
<1>17. CASE SomebodyComments
  BY <1>17 DEF TypeOK, SomebodyComments
<1>18. CASE UNCHANGED vars
  BY <1>18 DEF TypeOK, vars, thread
<1> QED
  BY <1>1, <1>2, <1>3, <1>4, <1>5, <1>6, <1>7, <1>8, <1>9, <1>10, <1>11, <1>12,
     <1>13, <1>14, <1>15, <1>16, <1>17, <1>18 DEF Next, Step

(* github-action.mjs:491-751: the action keeps what it keeps in its kind,   *)
(* whatever is given to it.                                                 *)
THEOREM TypeCorrect == Spec => []TypeOK
<1>1. ASSUME Init
      PROVE  TypeOK
  <2>1. now \in Memory
    BY <1>1 DEF Init, Started, Silent, Results, Evidence, Memory
  <2>2. disk \in Files
    <3>1. PICK c \in BOOLEAN : disk = Checkout(c)
      BY <1>1 DEF Init
    <3>2. 0 \in 0..MaxUses
      BY BoundAssumption
    <3>3. [of |-> 0, verified |-> TRUE] \in Evidence /\ Absent \in Evidence
      BY <3>2 DEF Evidence
    <3>4. [by |-> 0, of |-> 0] \in Copies
      BY <3>2 DEF Copies
    <3>5. NoArtifacts \in [attestation : Evidence, entry : Copies \cup {Absent},
                          receipt : Copies \cup {Absent},
                          verdict : Verdicts \cup {Absent}]
      BY <3>3 DEF NoArtifacts
    <3> QED
      BY <3>1, <3>3, <3>4, <3>5 DEF Checkout, Files
  <2>3. use \in 0..MaxUses /\ rivals \in 0..MaxRivals
    BY <1>1, BoundAssumption DEF Init
  <2>4. comments \in Seq({"sticky", "person"})
    BY <1>1 DEF Init
  <2> QED
    BY <2>1, <2>2, <2>3, <2>4, <1>1 DEF Init, TypeOK, Places
<1> QED
  BY <1>1, TypeStep, PTL DEF Spec
-----------------------------------------------------------------------------
(* Where a use works, and where it has run `up`.                            *)
Ran == {"diff", "entry", "receipt", "plan", "comment", "post", "conclude"}
Working == Ran \cup {"up"}

Staged == disk.artifacts
Mine == [by |-> use, of |-> use]

(* What a green verdict of a strict use is to be earned by.                 *)
Earned ==
  /\ now.up.code = 0 /\ Staged.attestation = Own(TRUE)
  /\ now.inputs.entry => Staged.entry = Mine
  /\ now.inputs.receipt => Staged.receipt = Mine

(* What is staged is of this use.                                           *)
OwnStaged ==
  /\ Whole(Staged.attestation) => Staged.attestation.of = use
  /\ \A x \in {Staged.entry, Staged.receipt, Staged.verdict} :
       x # Absent => x.by = use

(* An attestation that was read is the one of this use, and still there.    *)
ReadIsOwn ==
  at \in Ran =>
    IF now.up.attested
      THEN now.read = Own(now.up.verified) /\ disk.proof = now.read
      ELSE now.read = Absent

(* The entry is of this use once it was asked for, and of its run if all    *)
(* went well.                                                               *)
EntryIsOwn ==
  at \in Ran \ {"diff", "entry"} /\ now.inputs.entry =>
    /\ disk.entry # Absent => disk.entry.by = use
    /\ ~now.wrong /\ now.up.attested => disk.entry = Mine

(* The same of the receipt.                                                 *)
ReceiptIsOwn ==
  at \in Working =>
    /\ now.fresh # Absent => now.fresh.by = use
    /\ /\ at \notin {"up", "diff", "entry", "receipt"}
       /\ now.inputs.receipt /\ ~now.wrong /\ now.up.attested
       => now.fresh = Mine

(* Nothing is staged before the verdict, and what is staged with it is own. *)
StagedInTurn ==
  /\ at \in Working => Staged = NoArtifacts
  /\ at \in {"publish", "enforce"} /\ now.inputs.valid => OwnStaged

(* A use is judged once, by the verdict that it has published.              *)
JudgedInTurn ==
  /\ at \notin {"idle", "enforce"} => ~now.published
  /\ at # "idle" => now.outcome = "none"
  /\ at = "publish" \/ (at = "enforce" /\ now.published) =>
       (~Staged.verdict.fail /\ now.inputs.strict => Earned)
  /\ now.outcome = "passed" /\ now.inputs.strict => Earned

EvidenceInv ==
  ReadIsOwn /\ EntryIsOwn /\ ReceiptIsOwn /\ StagedInTurn /\ JudgedInTurn

(* An attestation of this use is whole.                                     *)
LEMMA OwnIsWhole ==
  ASSUME TypeOK, NEW v \in BOOLEAN
  PROVE  Whole(Own(v)) /\ Own(v).of = use /\ Own(v).verified = v
  BY FileAssumption DEF TypeOK, Own, Whole

(* A copy of an attestation of this use is own.                             *)
LEMMA CopyIsMine ==
  ASSUME TypeOK, ReadIsOwn, at \in Ran
  PROVE  Copy.by = use /\ (now.up.attested => Copy = Mine)
<1>1. Copy.by = use
  BY DEF Copy
<1>2. ASSUME now.up.attested
      PROVE  Copy = Mine
  <2>1. now.up.verified \in BOOLEAN
    BY DEF TypeOK, Memory, Results
  <2>2. disk.proof.of = use
    BY <1>2, <2>1, OwnIsWhole DEF ReadIsOwn
  <2> QED
    BY <2>2 DEF Copy, Mine
<1> QED
  BY <1>1, <1>2

LEMMA MineExists ==
  ASSUME TypeOK
  PROVE  Mine # Absent
<1>1. use \in 0..MaxUses
  BY DEF TypeOK
<1> QED
  BY <1>1, FileAssumption DEF Mine

(* A verdict that does not fail a strict use was earned.                    *)
LEMMA JudgementIsSound ==
  ASSUME TypeOK, EvidenceInv, at = "conclude", ~ShouldFail, now.inputs.strict
  PROVE  /\ now.up.code = 0 /\ now.up.attested /\ disk.proof = Own(TRUE)
         /\ now.inputs.entry => disk.entry = Mine
         /\ now.inputs.receipt => now.fresh = Mine
<1>1. Verified /\ now.up.code = 0 /\ ~now.wrong
  BY DEF ShouldFail
<1>2. now.up.attested
  BY <1>1 DEF EvidenceInv, ReadIsOwn, Ran, Verified, Whole
<1>3. disk.proof = Own(now.up.verified) /\ now.up.verified
  BY <1>1, <1>2 DEF EvidenceInv, ReadIsOwn, Ran, Verified
<1>4. now.up.verified = TRUE
  BY <1>3 DEF TypeOK, Memory, Results
<1> QED
  BY <1>1, <1>2, <1>3, <1>4 DEF EvidenceInv, EntryIsOwn, ReceiptIsOwn, Ran, Working

(* What Conclude stages is own, and its verdict is just.                    *)
LEMMA ConcludeStages ==
  ASSUME TypeOK, EvidenceInv, Conclude
  PROVE  OwnStaged' /\ (~Staged'.verdict.fail /\ now.inputs.strict => Earned')
<1>1. /\ Staged'.attestation = (IF now.up.attested THEN disk.proof ELSE Absent)
      /\ Staged'.entry = (IF now.inputs.entry /\ disk.entry # Absent
                             THEN disk.entry ELSE Absent)
      /\ Staged'.receipt = now.fresh
      /\ Staged'.verdict = [by |-> use, fail |-> ShouldFail]
      /\ UNCHANGED <<now, use>> /\ at = "conclude"
  <2>1. Staged = NoArtifacts
    BY DEF Conclude, EvidenceInv, StagedInTurn, Working, Ran
  <2>2. /\ UNCHANGED <<now, use>> /\ at = "conclude"
        /\ disk' = [disk EXCEPT
             !.artifacts.attestation = IF now.up.attested THEN disk.proof ELSE @,
             !.artifacts.entry =
                IF now.inputs.entry /\ disk.entry # Absent THEN disk.entry ELSE @,
             !.artifacts.receipt = IF now.fresh # Absent THEN now.fresh ELSE @,
             !.artifacts.verdict = [by |-> use, fail |-> ShouldFail]]
    BY DEF Conclude
  <2>3. Staged.entry = Absent /\ Staged.receipt = Absent /\ Staged.attestation = Absent
    BY <2>1 DEF NoArtifacts
  <2>4. /\ Staged'.attestation =
             (IF now.up.attested THEN disk.proof ELSE Staged.attestation)
        /\ Staged'.entry = (IF now.inputs.entry /\ disk.entry # Absent
                               THEN disk.entry ELSE Staged.entry)
        /\ Staged'.receipt = (IF now.fresh # Absent THEN now.fresh ELSE Staged.receipt)
        /\ Staged'.verdict = [by |-> use, fail |-> ShouldFail]
    BY <2>2 DEF Staged, TypeOK, Files
  <2> QED
    BY <2>2, <2>3, <2>4
<1>2. ASSUME now.up.attested
      PROVE  disk.proof.of = use
  <2>1. now.up.verified \in BOOLEAN
    BY DEF TypeOK, Memory, Results
  <2> QED
    BY <1>1, <1>2, <2>1, OwnIsWhole DEF EvidenceInv, ReadIsOwn, Ran
<1>3. Whole(Staged'.attestation) => Staged'.attestation.of = use
  BY <1>1, <1>2 DEF Whole
<1>4. Staged'.entry # Absent => Staged'.entry.by = use
  BY <1>1 DEF EvidenceInv, EntryIsOwn, Ran
<1>5. Staged'.receipt # Absent => Staged'.receipt.by = use
  BY <1>1 DEF EvidenceInv, ReceiptIsOwn, Working, Ran
<1>6. Staged'.verdict.by = use
  BY <1>1
<1>7. OwnStaged'
  BY <1>1, <1>3, <1>4, <1>5, <1>6 DEF OwnStaged, Whole
<1>8. ASSUME ~Staged'.verdict.fail, now.inputs.strict
      PROVE  Earned'
  <2>1. ~ShouldFail
    BY <1>1, <1>8
  <2>2. /\ now.up.code = 0 /\ now.up.attested /\ disk.proof = Own(TRUE)
        /\ now.inputs.entry => disk.entry = Mine
        /\ now.inputs.receipt => now.fresh = Mine
    BY <1>1, <1>8, <2>1, JudgementIsSound
  <2>3. /\ Staged'.attestation = Own(TRUE)
        /\ now.inputs.entry => Staged'.entry = Mine
        /\ now.inputs.receipt => Staged'.receipt = Mine
    BY <1>1, <2>2, MineExists
  <2> QED
    BY <1>1, <2>2, <2>3 DEF Earned, Own, Mine
<1> QED
  BY <1>7, <1>8

(* The handler of main() leaves a failing verdict.                          *)
LEMMA HaltsFails ==
  ASSUME TypeOK, EvidenceInv, Halts
  PROVE  /\ at' = "publish" /\ Staged'.verdict = [by |-> use', fail |-> TRUE]
         /\ Staged'.attestation = Staged.attestation
         /\ Staged'.entry = Staged.entry /\ Staged'.receipt = Staged.receipt
  BY DEF Halts, Goes, Staged, TypeOK, Files

(* A step that ends in the verdict of the handler.                          *)
LEMMA HaltsKeeps ==
  ASSUME TypeOK, EvidenceInv, Halts, at \in Working, UNCHANGED <<use, now>>
  PROVE  EvidenceInv'
<1>1. /\ at' = "publish" /\ Staged'.verdict.fail /\ Staged'.verdict.by = use
      /\ Staged'.attestation = Absent /\ Staged'.entry = Absent
      /\ Staged'.receipt = Absent
  BY HaltsFails DEF EvidenceInv, StagedInTurn, NoArtifacts
<1>2. ReadIsOwn' /\ EntryIsOwn' /\ ReceiptIsOwn'
  BY <1>1 DEF ReadIsOwn, EntryIsOwn, ReceiptIsOwn, Ran, Working
<1>3. StagedInTurn'
  BY <1>1 DEF StagedInTurn, OwnStaged, Whole, Ran, Working
<1>4. JudgedInTurn'
  BY <1>1 DEF EvidenceInv, JudgedInTurn, Ran, Working
<1> QED
  BY <1>2, <1>3, <1>4 DEF EvidenceInv

(* A step of a use at work that neither judges nor stages anything.         *)
LEMMA WorkKeeps ==
  ASSUME TypeOK, EvidenceInv, at \in Working, at' \in Working, use' = use,
         Staged' = Staged, now'.published = now.published,
         now'.outcome = now.outcome
  PROVE  StagedInTurn' /\ JudgedInTurn'
  BY DEF EvidenceInv, StagedInTurn, JudgedInTurn, Ran, Working

(* The actions one by one.                                                  *)
LEMMA BeginKeeps ==
  ASSUME TypeOK, EvidenceInv, NEW i \in InputSet, Begin(i)
  PROVE  EvidenceInv'
<1>1. /\ at = "idle" /\ use' = use + 1 /\ now' = Started(i)
      /\ now'.inputs = i /\ now'.fresh = Absent /\ ~now'.published
      /\ now'.outcome = "none"
  BY DEF Begin, Started
<1>2. CASE i.valid
  <2>1. at' = "up" /\ Staged' = NoArtifacts
    BY <1>2 DEF Begin, Goes, Staged, TypeOK, Files
  <2>2. ReadIsOwn' /\ EntryIsOwn' /\ ReceiptIsOwn'
    BY <1>1, <2>1 DEF ReadIsOwn, EntryIsOwn, ReceiptIsOwn, Ran, Working
  <2>3. StagedInTurn' /\ JudgedInTurn'
    BY <1>1, <2>1 DEF StagedInTurn, JudgedInTurn, Ran, Working
  <2> QED
    BY <2>2, <2>3 DEF EvidenceInv
<1>3. CASE ~i.valid
  <2>1. at' = "publish" /\ Staged'.verdict.fail
    BY <1>3, HaltsFails DEF Begin
  <2>2. ReadIsOwn' /\ EntryIsOwn' /\ ReceiptIsOwn'
    BY <1>1, <2>1 DEF ReadIsOwn, EntryIsOwn, ReceiptIsOwn, Ran, Working
  <2>3. StagedInTurn' /\ JudgedInTurn'
    BY <1>1, <1>3, <2>1 DEF StagedInTurn, JudgedInTurn, Ran, Working
  <2> QED
    BY <2>2, <2>3 DEF EvidenceInv
<1> QED
  BY <1>2, <1>3

LEMMA RunUpKeeps ==
  ASSUME TypeOK, EvidenceInv, RunUp
  PROVE  EvidenceInv'
<1>1. PICK up, left :
        /\ up \in UpResults /\ left \in Leaves(up)
        /\ now' = [now EXCEPT !.up = up, !.wrong = ~up.json,
                              !.read = IF up.attested THEN left ELSE Absent]
        /\ disk' = [disk EXCEPT !.proof = left]
  BY DEF RunUp
<1>2. at = "up" /\ at' = "diff" /\ use' = use
  BY DEF RunUp, Goes
<1>3. /\ now'.up = up /\ now'.read = (IF up.attested THEN left ELSE Absent)
      /\ disk'.proof = left /\ Staged' = Staged /\ now'.fresh = now.fresh
      /\ now'.published = now.published /\ now'.outcome = now.outcome
  BY <1>1 DEF TypeOK, Memory, Files, Staged
<1>4. ReadIsOwn'
  <2>1. up.attested => left = Own(up.verified)
    BY <1>1 DEF Leaves
  <2> QED
    BY <2>1, <1>2, <1>3 DEF ReadIsOwn, Own
<1>5. EntryIsOwn' /\ ReceiptIsOwn'
  BY <1>2, <1>3 DEF EvidenceInv, EntryIsOwn, ReceiptIsOwn, Working
<1>6. StagedInTurn' /\ JudgedInTurn'
  BY <1>2, <1>3, WorkKeeps DEF Working, Ran
<1> QED
  BY <1>4, <1>5, <1>6 DEF EvidenceInv

LEMMA RunDiffKeeps ==
  ASSUME TypeOK, EvidenceInv, RunDiff
  PROVE  EvidenceInv'
<1>1. /\ at = "diff" /\ at' = "entry" /\ UNCHANGED <<use, disk>>
      /\ now'.up = now.up /\ now'.read = now.read /\ now'.fresh = now.fresh
      /\ now'.published = now.published /\ now'.outcome = now.outcome
  BY DEF RunDiff, Goes, TypeOK, Memory
<1>2. ReadIsOwn' /\ EntryIsOwn' /\ ReceiptIsOwn'
  BY <1>1 DEF EvidenceInv, ReadIsOwn, EntryIsOwn, ReceiptIsOwn, Ran, Working, Own
<1>3. StagedInTurn' /\ JudgedInTurn'
  BY <1>1, WorkKeeps DEF Working, Ran, Staged
<1> QED
  BY <1>2, <1>3 DEF EvidenceInv

LEMMA ExportEntryKeeps ==
  ASSUME TypeOK, EvidenceInv, ExportEntry
  PROVE  EvidenceInv'
<1>1. /\ at = "entry" /\ at' = "receipt" /\ use' = use
      /\ now'.inputs = now.inputs /\ now'.up = now.up /\ now'.read = now.read
      /\ now'.fresh = now.fresh /\ now'.published = now.published
      /\ now'.outcome = now.outcome
      /\ disk'.proof = disk.proof /\ Staged' = Staged
  BY DEF ExportEntry, Notes, Goes, TypeOK, Memory, Files, Staged
<1>2. ASSUME now.inputs.entry
      PROVE  \/ disk'.entry = Absent /\ now'.wrong
             \/ disk'.entry = Copy
  BY <1>2 DEF ExportEntry, Notes, TypeOK, Memory, Files
<1>3. Copy.by = use /\ (now.up.attested => Copy = Mine)
  BY <1>1, CopyIsMine DEF EvidenceInv, Ran
<1>4. ReadIsOwn' /\ ReceiptIsOwn'
  BY <1>1 DEF EvidenceInv, ReadIsOwn, ReceiptIsOwn, Ran, Working, Own
<1>5. EntryIsOwn'
  BY <1>1, <1>2, <1>3 DEF EntryIsOwn, Mine
<1>6. StagedInTurn' /\ JudgedInTurn'
  BY <1>1, WorkKeeps DEF Working, Ran
<1> QED
  BY <1>4, <1>5, <1>6 DEF EvidenceInv

LEMMA ExportReceiptKeeps ==
  ASSUME TypeOK, EvidenceInv, ExportReceipt
  PROVE  EvidenceInv'
<1>1. /\ at = "receipt" /\ at' = "plan" /\ use' = use
      /\ now'.inputs = now.inputs /\ now'.up = now.up /\ now'.read = now.read
      /\ now'.published = now.published /\ now'.outcome = now.outcome
      /\ now.wrong => now'.wrong
      /\ disk'.proof = disk.proof /\ disk'.entry = disk.entry /\ Staged' = Staged
  <2>1. at = "receipt" /\ at' = "plan" /\ use' = use
    BY DEF ExportReceipt, Goes
  <2>2. /\ now'.inputs = now.inputs /\ now'.up = now.up /\ now'.read = now.read
        /\ now'.published = now.published /\ now'.outcome = now.outcome
        /\ now.wrong => now'.wrong
    BY DEF ExportReceipt, Notes, TypeOK, Memory
  <2>3. disk' = disk \/ disk' = [disk EXCEPT !.receipts = @ \cup {Copy}]
    BY DEF ExportReceipt
  <2>4. disk'.proof = disk.proof /\ disk'.entry = disk.entry /\ Staged' = Staged
    BY <2>3 DEF TypeOK, Files, Staged
  <2> QED
    BY <2>1, <2>2, <2>4
<1>2. \/ now'.fresh = now.fresh /\ (now.inputs.receipt => now'.wrong)
      \/ now'.fresh = Copy
  BY DEF ExportReceipt, Notes, TypeOK, Memory
<1>3. Copy.by = use /\ (now.up.attested => Copy = Mine)
  BY <1>1, CopyIsMine DEF EvidenceInv, Ran
<1>4. ReadIsOwn' /\ EntryIsOwn'
  BY <1>1 DEF EvidenceInv, ReadIsOwn, EntryIsOwn, Ran, Own, Mine
<1>5. ReceiptIsOwn'
  BY <1>1, <1>2, <1>3 DEF EvidenceInv, ReceiptIsOwn, Working, Ran, Mine
<1>6. StagedInTurn' /\ JudgedInTurn'
  BY <1>1, WorkKeeps DEF Working, Ran
<1> QED
  BY <1>4, <1>5, <1>6 DEF EvidenceInv

(* Between the exports and the verdict.                                     *)
LEMMA LateWorkKeeps ==
  ASSUME TypeOK, EvidenceInv, ReadPlan \/ SkipComment \/ LookUp \/ Post
  PROVE  EvidenceInv'
<1>1. /\ at \in {"plan", "comment", "post"}
      /\ at' \in {"comment", "post", "conclude"} /\ UNCHANGED <<use, disk>>
      /\ now'.inputs = now.inputs /\ now'.up = now.up /\ now'.read = now.read
      /\ now'.fresh = now.fresh /\ now'.published = now.published
      /\ now'.outcome = now.outcome /\ (now.wrong => now'.wrong)
  BY DEF ReadPlan, SkipComment, LookUp, Post, Notes, Goes, TypeOK, Memory
<1>2. ReadIsOwn' /\ EntryIsOwn' /\ ReceiptIsOwn'
  BY <1>1 DEF EvidenceInv, ReadIsOwn, EntryIsOwn, ReceiptIsOwn, Ran, Working,
              Own, Mine
<1>3. StagedInTurn' /\ JudgedInTurn'
  BY <1>1, WorkKeeps DEF Working, Ran, Staged
<1> QED
  BY <1>2, <1>3 DEF EvidenceInv

LEMMA ConcludeKeeps ==
  ASSUME TypeOK, EvidenceInv, Conclude
  PROVE  EvidenceInv'
<1>1. at = "conclude" /\ at' = "publish" /\ UNCHANGED <<use, now>>
  BY DEF Conclude, Goes
<1>2. ReadIsOwn' /\ EntryIsOwn' /\ ReceiptIsOwn'
  BY <1>1 DEF ReadIsOwn, EntryIsOwn, ReceiptIsOwn, Ran, Working
<1>3. StagedInTurn'
  BY <1>1, ConcludeStages DEF StagedInTurn, Ran, Working
<1>4. JudgedInTurn'
  BY <1>1, ConcludeStages DEF EvidenceInv, JudgedInTurn
<1> QED
  BY <1>2, <1>3, <1>4 DEF EvidenceInv

(* The end of a use: its verdict is published and enforced, or it dies.     *)
LEMMA EndKeeps ==
  ASSUME TypeOK, EvidenceInv, Publish \/ Crash \/ Enforce
  PROVE  EvidenceInv'
<1>1. /\ at' \in {"enforce", "idle"} /\ UNCHANGED <<use, disk>>
      /\ now'.inputs = now.inputs /\ now'.up = now.up
  BY DEF Publish, Crash, Enforce, Judged, Goes, TypeOK, Memory
<1>2. ReadIsOwn' /\ EntryIsOwn' /\ ReceiptIsOwn'
  BY <1>1 DEF ReadIsOwn, EntryIsOwn, ReceiptIsOwn, Ran, Working
<1>3. Earned' <=> Earned
  BY <1>1 DEF Earned, Staged, Own, Mine
<1>4. CASE Publish
  <2>1. /\ at = "publish" /\ at' = "enforce" /\ now'.published
        /\ now'.outcome = now.outcome
    BY <1>4 DEF Publish, Goes, TypeOK, Memory
  <2>2. StagedInTurn'
    BY <1>1, <2>1 DEF EvidenceInv, StagedInTurn, OwnStaged, Staged, Working, Ran
  <2>3. JudgedInTurn'
    BY <1>1, <1>3, <2>1 DEF EvidenceInv, JudgedInTurn, Staged
  <2> QED
    BY <1>2, <2>2, <2>3 DEF EvidenceInv
<1>5. CASE Crash
  <2>1. at \notin {"idle", "enforce"} /\ at' = "enforce" /\ now' = now
    BY <1>5 DEF Crash, Goes
  <2>2. StagedInTurn'
    <3>1. at \in Working \cup {"publish"}
      BY <2>1 DEF TypeOK, Places, Working, Ran
    <3>2. CASE at \in Working
      BY <3>2, <1>1, <2>1
      DEF EvidenceInv, StagedInTurn, OwnStaged, Staged, NoArtifacts, Whole,
          Working, Ran
    <3>3. CASE at = "publish"
      BY <3>3, <1>1, <2>1
      DEF EvidenceInv, StagedInTurn, OwnStaged, Staged, Working, Ran
    <3> QED
      BY <3>1, <3>2, <3>3
  <2>3. JudgedInTurn'
    BY <1>1, <1>3, <2>1 DEF EvidenceInv, JudgedInTurn, Staged
  <2> QED
    BY <1>2, <2>2, <2>3 DEF EvidenceInv
<1>6. CASE Enforce
  <2>1. /\ at = "enforce" /\ at' = "idle"
        /\ now'.outcome = "passed" => now.published /\ ~Staged.verdict.fail
    BY <1>6 DEF Enforce, Judged, Goes, Staged, TypeOK, Memory
  <2>2. StagedInTurn'
    BY <2>1 DEF StagedInTurn, Working, Ran
  <2>3. JudgedInTurn'
    BY <1>1, <1>3, <2>1 DEF EvidenceInv, JudgedInTurn
  <2> QED
    BY <1>2, <2>2, <2>3 DEF EvidenceInv
<1> QED
  BY <1>4, <1>5, <1>6

LEMMA EvidenceStep ==
  ASSUME TypeOK, EvidenceInv, [Next]_vars
  PROVE  EvidenceInv'
<1>1. ASSUME NEW i \in InputSet, Begin(i)
      PROVE  EvidenceInv'
  BY <1>1, BeginKeeps
<1>2. CASE Step
  <2>1. CASE CannotStart
    BY <2>1, HaltsKeeps DEF CannotStart, Working, Ran
  <2> QED
    BY <1>2, <2>1, RunUpKeeps, RunDiffKeeps, ExportEntryKeeps,
       ExportReceiptKeeps, LateWorkKeeps, ConcludeKeeps, EndKeeps DEF Step
<1>3. CASE Crash
  BY <1>3, EndKeeps
<1>4. CASE UNCHANGED <<at, use, now, disk>>
  BY <1>4 DEF EvidenceInv, ReadIsOwn, EntryIsOwn, ReceiptIsOwn, StagedInTurn,
              JudgedInTurn, OwnStaged, Earned, Staged, Own, Mine
<1>5. ASSUME RivalLooksUp \/ RivalPosts \/ SomebodyComments \/ UNCHANGED vars
      PROVE  UNCHANGED <<at, use, now, disk>>
  BY <1>5 DEF RivalLooksUp, RivalPosts, SomebodyComments, vars
<1> QED
  BY <1>1, <1>2, <1>3, <1>4, <1>5 DEF Next

LEMMA EvidenceAlways == Spec => []EvidenceInv
<1>1. ASSUME Init
      PROVE  EvidenceInv
  <2>1. at = "idle" /\ now.outcome = "none"
    BY <1>1 DEF Init, Started
  <2> QED
    BY <2>1 DEF EvidenceInv, ReadIsOwn, EntryIsOwn, ReceiptIsOwn, StagedInTurn,
                JudgedInTurn, Working, Ran
<1> QED
  BY <1>1, TypeCorrect, EvidenceStep, PTL DEF Spec

(* github-action.mjs:661-668, github-action-enforce.mjs:3-13: a strict use  *)
(* that passes was earned by an `up` of its own, and so is what it staged,  *)
(* wherever a command or a step died and whatever lay in the workspace.     *)
THEOREM GreenIsEarnedCorrect == Spec => []GreenIsEarned
<1>1. EvidenceInv => GreenIsEarned
  BY DEF EvidenceInv, JudgedInTurn, Earned, GreenIsEarned, Staged, Mine
<1> QED
  BY <1>1, EvidenceAlways, PTL

(* github-action.mjs:508, 569, 580-582: what a use stages is its own, also  *)
(* when it fails or dies.                                                   *)
THEOREM StagedIsOwnCorrect == Spec => []StagedIsOwn
<1>1. EvidenceInv => StagedIsOwn
  BY DEF EvidenceInv, StagedInTurn, OwnStaged, StagedIsOwn, Staged
<1> QED
  BY <1>1, EvidenceAlways, PTL
-----------------------------------------------------------------------------
(* As long as the two jobs kept out of each other's way and every comment   *)
(* was seen, who saw no comment of the action is right, and there is one.   *)
StickyInv ==
  /\ ~raced => ~(at = "post" /\ rival # "away")
  /\ ~raced /\ ~crowded =>
       /\ \A m, n \in Sticky : m = n
       /\ (at = "post" /\ ~now.found) \/ rival = "missed" => Sticky = {}

(* A comment is added behind the others.                                    *)
LEMMA StickyAfterAppend ==
  ASSUME TypeOK, NEW c, comments' = Append(comments, c)
  PROVE  Sticky' = Sticky \cup (IF c = "sticky" THEN {Len(comments) + 1} ELSE {})
<1>1. /\ Len(comments) \in Nat /\ Len(comments') = Len(comments) + 1
      /\ \A n \in 1..Len(comments) : comments'[n] = comments[n]
      /\ comments'[Len(comments) + 1] = c
  BY DEF TypeOK
<1> QED
  BY <1>1 DEF Sticky

(* Who saw no comment where all are seen is right.                          *)
LEMMA NotFound ==
  ASSUME TypeOK, ~Found, ~(Len(comments) > Page)
  PROVE  Sticky = {}
<1>1. Len(comments) \in Nat /\ Page \in Nat
  BY BoundAssumption DEF TypeOK
<1> QED
  BY <1>1 DEF Found, Sticky

(* Who posts without having found one leaves one, who found one none more.  *)
LEMMA PostLeavesOne ==
  ASSUME TypeOK, StickyInv, ~raced, ~crowded, NEW found \in BOOLEAN,
         comments' = Posted(found), ~found => Sticky = {}
  PROVE  \A m, n \in Sticky' : m = n
<1>1. CASE found
  BY <1>1 DEF Posted, Sticky, StickyInv
<1>2. CASE ~found
  <2>1. Sticky' = {Len(comments) + 1}
    BY <1>2, StickyAfterAppend DEF Posted
  <2> QED
    BY <2>1
<1> QED
  BY <1>1, <1>2

LEMMA StickyStep ==
  ASSUME TypeOK, StickyInv, [Next]_vars
  PROVE  StickyInv'
<1>1. CASE LookUp
  <2>1. /\ at = "comment" /\ at' = "post" /\ now'.found = Found
        /\ raced' = (raced \/ rival # "away") /\ rival' = rival
        /\ crowded' = (crowded \/ Len(comments) > Page) /\ comments' = comments
    BY <1>1 DEF LookUp, Goes, TypeOK, Memory
  <2>2. Sticky' = Sticky
    BY <2>1 DEF Sticky
  <2>3. ~crowded' /\ ~now'.found => Sticky = {}
    BY <2>1, NotFound
  <2> QED
    BY <2>1, <2>2, <2>3 DEF StickyInv
<1>2. CASE Post
  <2>1. /\ at = "post" /\ at' = "conclude" /\ comments' = Posted(now.found)
        /\ UNCHANGED <<now, rival, raced, crowded>> /\ now.found \in BOOLEAN
    BY <1>2 DEF Post, Goes, TypeOK, Memory
  <2>2. ~raced => rival = "away"
    BY <2>1 DEF StickyInv
  <2>3. ~raced /\ ~crowded => \A m, n \in Sticky' : m = n
    BY <2>1, PostLeavesOne DEF StickyInv
  <2> QED
    BY <2>1, <2>2, <2>3 DEF StickyInv
<1>3. CASE RivalLooksUp
  <2>1. /\ rival' = (IF Found THEN "found" ELSE "missed") /\ at' = at /\ now' = now
        /\ raced' = (raced \/ at = "post") /\ comments' = comments
        /\ crowded' = (crowded \/ Len(comments) > Page)
    BY <1>3 DEF RivalLooksUp
  <2>2. Sticky' = Sticky
    BY <2>1 DEF Sticky
  <2>3. ~crowded' /\ rival' = "missed" => Sticky = {}
    BY <2>1, NotFound
  <2> QED
    BY <2>1, <2>2, <2>3 DEF StickyInv
<1>4. CASE RivalPosts
  <2>1. /\ rival # "away" /\ rival' = "away"
        /\ UNCHANGED <<at, now, raced, crowded>>
        /\ comments' \in {comments, Posted(rival = "found")}
    BY <1>4 DEF RivalPosts
  <2>2. ~raced => at # "post"
    BY <2>1 DEF StickyInv
  <2>3. ASSUME ~raced, ~crowded
        PROVE  \A m, n \in Sticky' : m = n
    <3>1. CASE comments' = comments
      BY <3>1, <2>3 DEF StickyInv, Sticky
    <3>2. CASE comments' = Posted(rival = "found")
      <4>1. rival # "found" => Sticky = {}
        BY <2>1, <2>3 DEF StickyInv, TypeOK
      <4> QED
        BY <4>1, <3>2, <2>3, PostLeavesOne
    <3> QED
      BY <2>1, <3>1, <3>2
  <2> QED
    BY <2>1, <2>2, <2>3 DEF StickyInv
<1>5. CASE SomebodyComments
  <2>1. /\ comments' = Append(comments, "person")
        /\ UNCHANGED <<at, now, rival, raced, crowded>>
    BY <1>5 DEF SomebodyComments
  <2>2. Sticky' = Sticky \cup (IF "person" = "sticky" THEN {Len(comments) + 1} ELSE {})
    BY <2>1, StickyAfterAppend
  <2>3. Sticky' = Sticky
    BY <2>2
  <2> QED
    BY <2>1, <2>3 DEF StickyInv
<1>6. ASSUME UNCHANGED <<comments, rival, raced, crowded>>, at' # "post"
      PROVE  StickyInv'
  BY <1>6 DEF StickyInv, Sticky
<1>7. CASE UNCHANGED vars
  BY <1>7 DEF vars, thread, StickyInv, Sticky
<1>8. ASSUME \/ \E i \in InputSet : Begin(i)
             \/ RunUp \/ RunDiff \/ ExportEntry \/ ExportReceipt \/ ReadPlan
             \/ CannotStart \/ SkipComment \/ Conclude \/ Publish \/ Enforce
             \/ Crash
      PROVE  UNCHANGED <<comments, rival, raced, crowded>> /\ at' # "post"
  BY <1>8 DEF Begin, RunUp, RunDiff, ExportEntry, ExportReceipt, ReadPlan,
              CannotStart, SkipComment, Conclude, Publish, Enforce, Crash,
              Halts, Goes, thread
<1> QED
  BY <1>1, <1>2, <1>3, <1>4, <1>5, <1>6, <1>7, <1>8 DEF Next, Step

(* github-action.mjs:404-444: there is one comment of the action, as long   *)
(* as no two jobs were between look-up and post at once and every comment   *)
(* fitted the page.                                                         *)
THEOREM StickyCommentIsOneCorrect == Spec => []StickyCommentIsOne
<1>1. ASSUME Init
      PROVE  StickyInv
  <2>1. at = "idle" /\ rival = "away" /\ Sticky = {}
    BY <1>1 DEF Init, Sticky
  <2> QED
    BY <2>1 DEF StickyInv
<1>2. ASSUME StickyInv
      PROVE  StickyCommentIsOne
  <2>1. ASSUME ~raced, ~crowded
        PROVE  Cardinality(Sticky) <= 1
    <3>1. CASE Sticky = {}
      BY <3>1, FS_EmptySet
    <3>2. CASE Sticky # {}
      <4>1. PICK m \in Sticky : TRUE
        BY <3>2
      <4>2. Sticky = {m}
        BY <4>1, <1>2, <2>1 DEF StickyInv
      <4> QED
        BY <4>2, FS_Singleton
    <3> QED
      BY <3>1, <3>2
  <2> QED
    BY <2>1 DEF StickyCommentIsOne
<1> QED
  BY <1>1, <1>2, TypeCorrect, StickyStep, PTL DEF Spec
=============================================================================
