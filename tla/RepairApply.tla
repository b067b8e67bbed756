----------------------------- MODULE RepairApply -----------------------------
(***************************************************************************)
(* `bootproof apply-repair` (applyVerifiedRepair in repair.ts): the checks   *)
(* of a repair receipt and of the working tree, the writes, the comparison  *)
(* that follows them and the rollback, one file operation at a time, in a   *)
(* tree that somebody may be editing and on a file system that may fail.    *)
(***************************************************************************)
EXTENDS Naturals, Sequences, FiniteSets

CONSTANTS
  Files,        (* the files of the working tree the receipt speaks of      *)
  Receipts,     (* the receipts this instance starts from                   *)
  MaxEdits,     (* bound: edits by somebody else                            *)
  MaxFaults,    (* bound: file operations that fail                         *)
  TornWrites    (* a failing write may have truncated its file              *)

Contents == {"absent", "old", "new", "edited", "torn"}

(* The checks of the receipt alone: it exists, parses, is signed, verified, *)
(* carries a repair with file changes whose manifest and hashes agree, and  *)
(* keeps to the scope of repairs and to paths inside the repository.        *)
ReceiptChecks ==
  {"exists", "parses", "signed", "verified", "carries", "consistent", "scope"}

Change(f, b, a) == [file |-> f, before |-> b, after |-> a]
Changes == [file : Files, before : {"absent", "old"}, after : {"new", "old"}]
Prerequisite(f, c) == [file |-> f, content |-> c]
Prerequisites == [file : Files, content : Contents \ {"absent", "torn"}]

(* The manifest check leaves no file with two changes.                      *)
ASSUME ReceiptAssumption ==
  \A r \in Receipts :
    /\ r.passes \subseteq ReceiptChecks
    /\ r.changes \in Seq(Changes) /\ Len(r.changes) > 0
    /\ \A i, j \in DOMAIN r.changes :
         r.changes[i].file = r.changes[j].file => i = j
    /\ r.needs \in Seq(Prerequisites)
ASSUME BoundAssumption ==
  MaxEdits \in Nat /\ MaxFaults \in Nat /\ TornWrites \in BOOLEAN

VARIABLES
  receipt,   (* the repair receipt                                          *)
  disk,      (* the working tree                                            *)
  pc,        (* the next file operation                                     *)
  i,         (* the index of the loop it is in                              *)
  written,   (* the changes written, in order                               *)
  result,    (* what the command reports                                    *)
  start,     (* history: the tree when the command began                    *)
  edits, faults

vars == <<receipt, disk, pc, i, written, result, start, edits, faults>>

PCs == {"receipt", "needs", "preimages", "write", "compare", "rollback", "done"}
ResultKinds == {"none", "refused", "applied", "rolled_back", "threw"}

change == receipt.changes[i]

Init ==
  /\ receipt \in Receipts
  /\ disk \in [Files -> {"absent", "old", "edited"}]
  /\ start = disk
  /\ pc = "receipt" /\ i = 1 /\ written = <<>> /\ result = "none"
  /\ edits = 0 /\ faults = 0

-----------------------------------------------------------------------------
Report(r) == result' = r /\ pc' = "done" /\ UNCHANGED i

(* The next round of the loop over s, or the first of what follows it.      *)
NextRound(s, following) ==
  /\ IF i < Len(s) THEN i' = i + 1 /\ UNCHANGED pc ELSE i' = 1 /\ pc' = following
  /\ UNCHANGED result

CheckReceipt ==
  /\ pc = "receipt"
  /\ IF receipt.passes # ReceiptChecks
       THEN Report("refused")
       ELSE /\ pc' = IF receipt.needs = <<>> THEN "preimages" ELSE "needs"
            /\ UNCHANGED <<i, result>>
  /\ UNCHANGED <<receipt, disk, written, start, edits, faults>>

CheckPrerequisite ==
  /\ pc = "needs"
  /\ IF disk[receipt.needs[i].file] # receipt.needs[i].content
       THEN Report("refused")
       ELSE NextRound(receipt.needs, "preimages")
  /\ UNCHANGED <<receipt, disk, written, start, edits, faults>>

(* Faulty variant: each file is written as soon as it was checked.          *)
CheckPreimageAndWrite ==
  /\ pc = "preimages"
  /\ IF disk[change.file] # change.before
       THEN Report("refused") /\ UNCHANGED <<disk, written>>
       ELSE /\ disk' = [disk EXCEPT ![change.file] = change.after]
            /\ written' = Append(written, change)
            /\ NextRound(receipt.changes, "compare")
  /\ UNCHANGED <<receipt, start, edits, faults>>

CheckPreimage ==
  /\ pc = "preimages"
  /\ IF disk[change.file] # change.before
       THEN Report("refused")
       ELSE NextRound(receipt.changes, "write")
  /\ UNCHANGED <<receipt, disk, written, start, edits, faults>>

Write ==
  /\ pc = "write"
  /\ disk' = [disk EXCEPT ![change.file] = change.after]
  /\ written' = Append(written, change)
  /\ NextRound(receipt.changes, "compare")
  /\ UNCHANGED <<receipt, start, edits, faults>>

(* Faulty variant: the rollback counts down from whatever was written.      *)
BeginRollbackAnyway(w) == pc' = "rollback" /\ i' = Len(w) /\ UNCHANGED result

(* The rollback visits `written` from its end; without one it is over.      *)
BeginRollback(w) ==
  IF w = <<>> THEN Report("rolled_back")
  ELSE pc' = "rollback" /\ i' = Len(w) /\ UNCHANGED result

(* writeFileSync throws before its change is pushed to `written`.           *)
WriteFails ==
  /\ pc = "write" /\ faults < MaxFaults
  /\ faults' = faults + 1
  /\ \/ UNCHANGED disk
     \/ TornWrites /\ disk' = [disk EXCEPT ![change.file] = "torn"]
  /\ BeginRollback(written)
  /\ UNCHANGED <<receipt, written, start, edits>>

Compare ==
  /\ pc = "compare"
  /\ IF disk[change.file] # change.after
       THEN BeginRollback(written)
       ELSE IF i < Len(receipt.changes)
              THEN i' = i + 1 /\ UNCHANGED <<pc, result>>
              ELSE Report("applied")
  /\ UNCHANGED <<receipt, disk, written, start, edits, faults>>

(* Faulty variant: a file that did not exist is left behind.                *)
RollBackExisting ==
  LET c == written[i] IN
  /\ pc = "rollback"
  /\ disk' = IF c.before = "absent" THEN disk
                                    ELSE [disk EXCEPT ![c.file] = c.before]
  /\ IF i > 1 THEN i' = i - 1 /\ UNCHANGED <<pc, result>>
              ELSE Report("rolled_back")
  /\ UNCHANGED <<receipt, written, start, edits, faults>>

RollBack ==
  LET c == written[i] IN
  /\ pc = "rollback"
  /\ disk' = [disk EXCEPT ![c.file] = c.before]
  /\ IF i > 1 THEN i' = i - 1 /\ UNCHANGED <<pc, result>>
              ELSE Report("rolled_back")
  /\ UNCHANGED <<receipt, written, start, edits, faults>>

(* Nothing catches an error of the rollback.                                *)
RollBackFails ==
  /\ pc = "rollback" /\ faults < MaxFaults
  /\ faults' = faults + 1
  /\ Report("threw")
  /\ UNCHANGED <<receipt, disk, written, start, edits>>

(* Somebody saves, creates or removes a file meanwhile.                     *)
Edit(f, c) ==
  /\ pc # "done" /\ edits < MaxEdits /\ disk[f] # c
  /\ disk' = [disk EXCEPT ![f] = c]
  /\ edits' = edits + 1
  /\ UNCHANGED <<receipt, pc, i, written, result, start, faults>>

Finished == pc = "done" /\ UNCHANGED vars

Apply ==
  \/ CheckReceipt \/ CheckPrerequisite \/ CheckPreimage \/ Write \/ Compare
  \/ RollBack

Next ==
  \/ Apply \/ WriteFails \/ RollBackFails
  \/ \E f \in Files, c \in {"edited", "absent"} : Edit(f, c)
  \/ Finished

Spec == Init /\ [][Next]_vars
-----------------------------------------------------------------------------
(* The tree, the counters and the report are of their kinds.                *)
TypeOK ==
  /\ receipt \in Receipts
  /\ disk \in [Files -> Contents] /\ start \in [Files -> Contents]
  /\ pc \in PCs /\ i \in Nat \ {0}
  /\ written \in Seq(Changes)
  /\ result \in ResultKinds
  /\ edits \in 0..MaxEdits /\ faults \in 0..MaxFaults

Target(r, d) ==
  [f \in Files |->
     IF \E k \in DOMAIN r.changes : r.changes[k].file = f
       THEN r.changes[CHOOSE k \in DOMAIN r.changes :
                        r.changes[k].file = f].after
       ELSE d[f]]

(* A tree nobody else edits ends as the receipt describes or as it began:   *)
(* applied means every change is in place, and a refusal or a completed     *)
(* rollback leaves every file as it was, created ones included              *)
(* (repair.ts:1686-1707).                                                   *)
AllOrNothing ==
  edits = 0 =>
    /\ result = "applied" => disk = Target(receipt, start)
    /\ result \in {"refused", "rolled_back"} => disk = start

(* docs/HONESTY_CONTRACT.md:26 "Explicit repair application requires a      *)
(* valid signed receipt and exact file preimages; stale or tampered         *)
(* receipts write nothing": a refused command has changed no file,          *)
(* although the checks read one file after the other in a tree that is      *)
(* being edited (repair.ts:1605-1684).                                      *)
RefusalWritesNothing ==
  result = "refused" => written = <<>> /\
    Cardinality({f \in Files : disk[f] # start[f]}) <= edits
=============================================================================
