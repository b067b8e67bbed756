-------------------------- MODULE RepairApplyProofs --------------------------
(***************************************************************************)
(* Theorems about RepairApply: whatever the receipts and the tree are, a    *)
(* repair is applied whole or not at all, and a refusal wrote nothing.      *)
(***************************************************************************)
EXTENDS RepairApply, FiniteSetTheorems, TLAPS

(* Where the loops stand, and that `written` is a prefix of the changes.    *)
LoopInv ==
  /\ pc = "needs" => i \in 1..Len(receipt.needs)
  /\ pc \in {"preimages", "write", "compare"} => i \in 1..Len(receipt.changes)
  /\ pc \in {"receipt", "needs", "preimages"} => written = <<>>
  /\ pc = "receipt" => i = 1
  /\ pc = "write" => Len(written) = i - 1
  /\ pc = "compare" => Len(written) = Len(receipt.changes)
  /\ pc = "rollback" => i \in 1..Len(written)
  /\ pc # "done" => result = "none"
  /\ result # "none" => pc = "done"
  /\ Len(written) <= Len(receipt.changes)
  /\ \A k \in 1..Len(written) : written[k] = receipt.changes[k]

(* The changes as far as they have been checked and written: the first n    *)
(* are in place and the rest of the tree is as it was.                      *)
Checked(n) ==
  \A k \in 1..n : start[receipt.changes[k].file] = receipt.changes[k].before
InPlace(n) ==
  /\ \A k \in 1..n : disk[receipt.changes[k].file] = receipt.changes[k].after
  /\ \A f \in Files :
       (\A k \in 1..n : receipt.changes[k].file # f) => disk[f] = start[f]

(* What each place of the command knows of a tree nobody else edits.        *)
TreeInv ==
  edits = 0 =>
    /\ pc \in {"receipt", "needs", "preimages"} => disk = start
    /\ pc = "preimages" => Checked(i - 1)
    /\ pc \in {"write", "compare", "rollback"} => Checked(Len(receipt.changes))
    /\ pc = "write" => InPlace(i - 1)
    /\ pc = "compare" => InPlace(Len(receipt.changes))
    /\ pc = "rollback" => InPlace(i)
    /\ result = "applied" => InPlace(Len(receipt.changes))
    /\ result \in {"refused", "rolled_back"} => disk = start

LEMMA ReceiptType ==
  ASSUME receipt \in Receipts
  PROVE  /\ receipt.changes \in Seq(Changes) /\ Len(receipt.changes) \in Nat \ {0}
         /\ \A k \in 1..Len(receipt.changes) : receipt.changes[k] \in Changes
         /\ \A k, l \in 1..Len(receipt.changes) :
              receipt.changes[k].file = receipt.changes[l].file => k = l
         /\ receipt.needs \in Seq(Prerequisites)
         /\ Len(receipt.needs) \in Nat
         /\ receipt.needs # <<>> => Len(receipt.needs) >= 1
<1>1. /\ receipt.changes \in Seq(Changes) /\ Len(receipt.changes) > 0
      /\ receipt.needs \in Seq(Prerequisites)
      /\ \A k, l \in DOMAIN receipt.changes :
           receipt.changes[k].file = receipt.changes[l].file => k = l
  BY ReceiptAssumption
<1> QED
  BY <1>1

LEMMA ChangeType ==
  ASSUME NEW c \in Changes
  PROVE  c.file \in Files /\ c.before \in Contents /\ c.after \in Contents
BY DEF Changes, Contents

LEMMA InitOK == Init => TypeOK /\ LoopInv
<1> SUFFICES ASSUME Init PROVE TypeOK /\ LoopInv
  OBVIOUS
<1>1. TypeOK
  BY BoundAssumption DEF Init, TypeOK, Contents, PCs, ResultKinds
<1>2. LoopInv
  BY ReceiptType DEF Init, LoopInv
<1> QED
  BY <1>1, <1>2

LEMMA LoopStep ==
  ASSUME TypeOK, LoopInv, [Next]_vars
  PROVE  TypeOK' /\ LoopInv'
<1>a. /\ receipt.changes \in Seq(Changes) /\ Len(receipt.changes) \in Nat \ {0}
      /\ \A k \in 1..Len(receipt.changes) : receipt.changes[k] \in Changes
      /\ Len(receipt.needs) \in Nat
      /\ receipt.needs # <<>> => Len(receipt.needs) >= 1
  BY ReceiptType DEF TypeOK
<1> USE <1>a DEF TypeOK, LoopInv, PCs, ResultKinds
<1>1. CASE CheckReceipt
  <2>1. CASE receipt.passes # ReceiptChecks
    BY <1>1, <2>1 DEF CheckReceipt, Report
  <2>2. CASE receipt.passes = ReceiptChecks
    <3>1. /\ pc' = IF receipt.needs = <<>> THEN "preimages" ELSE "needs"
          /\ UNCHANGED <<receipt, disk, i, written, result, start, edits, faults>>
          /\ pc = "receipt"
      BY <1>1, <2>2 DEF CheckReceipt
    <3>2. TypeOK'
      BY <3>1
    <3>3. LoopInv'
      BY <3>1
    <3> QED
      BY <3>2, <3>3
  <2> QED
    BY <2>1, <2>2
<1>2. CASE CheckPrerequisite
  BY <1>2 DEF CheckPrerequisite, Report, NextRound
<1>3. CASE CheckPreimage
  BY <1>3 DEF CheckPreimage, Report, NextRound
<1>4. CASE Write
  <2>1. change \in Changes
    BY <1>4 DEF Write, change
  <2>2. /\ written' \in Seq(Changes) /\ Len(written') = i
        /\ \A k \in 1..Len(written') : written'[k] = receipt.changes[k]
    BY <1>4, <2>1 DEF Write, change
  <2>3. disk' \in [Files -> Contents]
    BY <1>4, <2>1, ChangeType DEF Write
  <2> QED
    BY <1>4, <2>2, <2>3 DEF Write, NextRound
<1>5. CASE WriteFails
  <2>1. change \in Changes
    BY <1>5 DEF WriteFails, change
  <2>2. disk' \in [Files -> Contents]
    BY <1>5, <2>1, ChangeType DEF WriteFails, Contents
  <2>3. faults' \in 0..MaxFaults
    BY <1>5, BoundAssumption DEF WriteFails
  <2> QED
    BY <1>5, <2>2, <2>3 DEF WriteFails, BeginRollback, Report
<1>6. CASE Compare
  BY <1>6 DEF Compare, BeginRollback, Report
<1>7. CASE RollBack
  <2>1. written[i] \in Changes
    BY <1>7 DEF RollBack
  <2>2. disk' \in [Files -> Contents]
    BY <1>7, <2>1, ChangeType DEF RollBack
  <2> QED
    BY <1>7, <2>2 DEF RollBack, Report
<1>8. CASE RollBackFails
  <2>1. faults' \in 0..MaxFaults
    BY <1>8, BoundAssumption DEF RollBackFails
  <2> QED
    BY <1>8, <2>1 DEF RollBackFails, Report
<1>9. CASE \E f \in Files, c \in {"edited", "absent"} : Edit(f, c)
  <2>1. disk' \in [Files -> Contents] /\ edits' \in 0..MaxEdits
    BY <1>9, BoundAssumption DEF Edit, Contents
  <2> QED
    BY <1>9, <2>1 DEF Edit
<1>10. CASE Finished \/ UNCHANGED vars
  BY <1>10 DEF Finished, vars
<1> QED
  BY <1>1, <1>2, <1>3, <1>4, <1>5, <1>6, <1>7, <1>8, <1>9, <1>10
     DEF Next, Apply

(* Every file, counter and report stays of its kind (repair.ts:1591-1714).  *)
THEOREM TypeCorrect == Spec => []TypeOK
<1>1. TypeOK /\ LoopInv /\ [Next]_vars => (TypeOK /\ LoopInv)'
  BY LoopStep
<1> QED
  BY InitOK, <1>1, PTL DEF Spec

-----------------------------------------------------------------------------
(* The tree with every change in place is the target of the receipt.        *)
LEMMA InPlaceIsTarget ==
  ASSUME TypeOK, InPlace(Len(receipt.changes))
  PROVE  disk = Target(receipt, start)
<1>1. DOMAIN receipt.changes = 1..Len(receipt.changes)
  BY ReceiptType DEF TypeOK
<1>2. ASSUME NEW f \in Files PROVE disk[f] = Target(receipt, start)[f]
  <2>1. CASE \E k \in DOMAIN receipt.changes : receipt.changes[k].file = f
    <3> DEFINE K == CHOOSE k \in DOMAIN receipt.changes :
                      receipt.changes[k].file = f
    <3>1. K \in DOMAIN receipt.changes /\ receipt.changes[K].file = f
      BY <2>1
    <3>2. disk[f] = receipt.changes[K].after
      BY <1>1, <3>1 DEF InPlace
    <3> QED
      BY <2>1, <3>2 DEF Target
  <2>2. CASE ~\E k \in DOMAIN receipt.changes : receipt.changes[k].file = f
    BY <1>1, <2>2 DEF Target, InPlace
  <2> QED
    BY <2>1, <2>2
<1> QED
  BY <1>2 DEF TypeOK, Target

(* Writing the change after the first n puts one more in place.             *)
LEMMA WriteExtends ==
  ASSUME TypeOK, NEW n \in 1..Len(receipt.changes), InPlace(n - 1),
         disk' = [disk EXCEPT ![receipt.changes[n].file]
                                = receipt.changes[n].after],
         receipt' = receipt, start' = start
  PROVE  InPlace(n)'
<1>1. /\ \A k \in 1..Len(receipt.changes) : receipt.changes[k] \in Changes
      /\ \A k, l \in 1..Len(receipt.changes) :
           receipt.changes[k].file = receipt.changes[l].file => k = l
      /\ Len(receipt.changes) \in Nat
  BY ReceiptType DEF TypeOK
<1>2. \A k \in 1..Len(receipt.changes) : receipt.changes[k].file \in Files
  BY <1>1, ChangeType
<1>3. \A k \in 1..n : disk'[receipt.changes[k].file] = receipt.changes[k].after
  BY <1>1, <1>2 DEF TypeOK, InPlace
<1>4. ASSUME NEW f \in Files, \A k \in 1..n : receipt.changes[k].file # f
      PROVE  disk'[f] = start[f]
  BY <1>1, <1>2, <1>4 DEF TypeOK, InPlace
<1> QED
  BY <1>3, <1>4 DEF InPlace

(* Undoing the last of the first n leaves one less in place.                *)
LEMMA UndoShrinks ==
  ASSUME TypeOK, NEW n \in 1..Len(receipt.changes), InPlace(n),
         Checked(Len(receipt.changes)),
         disk' = [disk EXCEPT ![receipt.changes[n].file]
                                = receipt.changes[n].before],
         receipt' = receipt, start' = start
  PROVE  InPlace(n - 1)'
<1>1. /\ \A k \in 1..Len(receipt.changes) : receipt.changes[k] \in Changes
      /\ \A k, l \in 1..Len(receipt.changes) :
           receipt.changes[k].file = receipt.changes[l].file => k = l
      /\ Len(receipt.changes) \in Nat
  BY ReceiptType DEF TypeOK
<1>2. \A k \in 1..Len(receipt.changes) : receipt.changes[k].file \in Files
  BY <1>1, ChangeType
<1>3. \A k \in 1..(n - 1) :
        disk'[receipt.changes[k].file] = receipt.changes[k].after
  BY <1>1, <1>2 DEF TypeOK, InPlace
<1>4. ASSUME NEW f \in Files, \A k \in 1..(n - 1) : receipt.changes[k].file # f
      PROVE  disk'[f] = start[f]
  <2>1. CASE f = receipt.changes[n].file
    BY <1>1, <1>2, <2>1 DEF TypeOK, Checked
  <2>2. CASE f # receipt.changes[n].file
    <3>1. \A k \in 1..n : receipt.changes[k].file # f
      BY <1>1, <1>4, <2>2
    <3> QED
      BY <1>2, <2>2, <3>1 DEF TypeOK, InPlace
  <2> QED
    BY <2>1, <2>2
<1> QED
  BY <1>3, <1>4 DEF InPlace

LEMMA NothingInPlace ==
  ASSUME TypeOK
  PROVE  InPlace(0) <=> disk = start
BY DEF TypeOK, InPlace

(* Unless a failing write truncates its file, a step of the command keeps   *)
(* what it knows of the tree.                                               *)
LEMMA TreeStep ==
  ASSUME ~TornWrites, TypeOK, LoopInv, TreeInv, [Next]_vars
  PROVE  TreeInv'
<1> DEFINE N == Len(receipt.changes)
<1>a. TypeOK' /\ LoopInv'
  BY LoopStep
<1>b. N \in Nat \ {0} /\ i \in Nat \ {0} /\ Len(written) \in Nat
  BY ReceiptType DEF TypeOK
<1>c. edits \in Nat
  BY BoundAssumption DEF TypeOK
<1>1. CASE CheckReceipt
  BY <1>1, <1>b DEF CheckReceipt, Report, TreeInv, LoopInv, Checked
<1>2. CASE CheckPrerequisite
  BY <1>2, <1>b DEF CheckPrerequisite, Report, NextRound, TreeInv, LoopInv,
     Checked
<1>3. CASE CheckPreimage
  <2> SUFFICES ASSUME edits' = 0 PROVE TreeInv'
    BY DEF TreeInv
  <2>1. edits = 0 /\ disk = start /\ Checked(i - 1) /\ i \in 1..N
    BY <1>3 DEF CheckPreimage, TreeInv, LoopInv
  <2>2. CASE disk[change.file] # change.before
    BY <1>3, <2>1, <2>2 DEF CheckPreimage, Report, TreeInv
  <2>3. CASE disk[change.file] = change.before
    <3>1. Checked(i)
      BY <1>b, <2>1, <2>3 DEF Checked, change
    <3>2. InPlace(0)
      BY <2>1, NothingInPlace
    <3>3. UNCHANGED <<receipt, disk, written, start, edits, faults, result>>
          /\ \/ i < N /\ i' = i + 1 /\ pc' = pc
             \/ i = N /\ i' = 1 /\ pc' = "write"
          /\ pc = "preimages" /\ result = "none"
      BY <1>3, <1>b, <2>1, <2>3 DEF CheckPreimage, NextRound, LoopInv
    <3>4. CASE i < N
      BY <1>b, <2>1, <3>1, <3>3, <3>4 DEF TreeInv, Checked
    <3>5. CASE i = N
      BY <1>b, <2>1, <3>1, <3>2, <3>3, <3>5 DEF TreeInv, Checked, InPlace
    <3> QED
      BY <1>b, <2>1, <3>4, <3>5
  <2> QED
    BY <2>2, <2>3
<1>4. CASE Write
  <2> SUFFICES ASSUME edits' = 0 PROVE TreeInv'
    BY DEF TreeInv
  <2>1. edits = 0 /\ Checked(N) /\ InPlace(i - 1) /\ i \in 1..N
    BY <1>4 DEF Write, TreeInv, LoopInv
  <2>2. PICK n \in 1..N : n = i
    BY <2>1
  <2>3. disk' = [disk EXCEPT ![receipt.changes[n].file] = receipt.changes[n].after]
        /\ receipt' = receipt /\ start' = start /\ result' = result
        /\ \/ n < N /\ i' = n + 1 /\ pc' = pc
           \/ n = N /\ i' = 1 /\ pc' = "compare"
        /\ pc = "write" /\ result = "none"
    BY <1>4, <1>b, <2>2 DEF Write, NextRound, change, LoopInv
  <2>4. InPlace(n)'
    BY <2>1, <2>2, <2>3, WriteExtends
  <2>5. CASE n < N
    BY <1>b, <2>1, <2>2, <2>3, <2>4, <2>5 DEF TreeInv, Checked, InPlace
  <2>6. CASE n = N
    BY <1>b, <2>1, <2>2, <2>3, <2>4, <2>6 DEF TreeInv, Checked, InPlace
  <2> QED
    BY <1>b, <2>2, <2>5, <2>6
<1>5. CASE WriteFails
  <2> SUFFICES ASSUME edits' = 0 PROVE TreeInv'
    BY DEF TreeInv
  <2>1. /\ edits = 0 /\ Checked(N) /\ InPlace(i - 1) /\ i \in 1..N
        /\ Len(written) = i - 1
    BY <1>5 DEF WriteFails, TreeInv, LoopInv
  <2>2. UNCHANGED <<receipt, disk, written, start, edits>> /\ pc = "write"
        /\ BeginRollback(written) /\ result = "none"
    BY <1>5 DEF WriteFails, LoopInv
  <2>3. CASE written = <<>>
    <3>1. disk = start
      BY <1>b, <2>1, <2>3, NothingInPlace
    <3> QED
      BY <2>2, <2>3, <3>1 DEF TreeInv, BeginRollback, Report
  <2>4. CASE written # <<>>
    <3>1. pc' = "rollback" /\ i' = i - 1 /\ result' = result
      BY <2>1, <2>2, <2>4 DEF BeginRollback
    <3> QED
      BY <2>1, <2>2, <3>1 DEF TreeInv, Checked, InPlace
  <2> QED
    BY <2>3, <2>4
<1>6. CASE Compare
  <2> SUFFICES ASSUME edits' = 0 PROVE TreeInv'
    BY DEF TreeInv
  <2>1. /\ edits = 0 /\ Checked(N) /\ InPlace(N) /\ i \in 1..N
        /\ Len(written) = N
    BY <1>6 DEF Compare, TreeInv, LoopInv
  <2>2. disk[change.file] = change.after
    BY <1>b, <2>1 DEF InPlace, change
  <2>3. UNCHANGED <<receipt, disk, written, start, edits>>
        /\ \/ i' = i + 1 /\ pc' = "compare" /\ result' = "none"
           \/ pc' = "done" /\ result' = "applied"
    BY <1>6, <2>2 DEF Compare, Report, LoopInv
  <2> QED
    BY <2>1, <2>3 DEF TreeInv, Checked, InPlace
<1>7. CASE RollBack
  <2> SUFFICES ASSUME edits' = 0 PROVE TreeInv'
    BY DEF TreeInv
  <2>1. /\ edits = 0 /\ Checked(N) /\ InPlace(i) /\ i \in 1..N
        /\ written[i] = receipt.changes[i]
    BY <1>7, <1>b DEF RollBack, TreeInv, LoopInv
  <2>2. PICK n \in 1..N : n = i
    BY <2>1
  <2>3. disk' = [disk EXCEPT ![receipt.changes[n].file] = receipt.changes[n].before]
        /\ receipt' = receipt /\ start' = start
        /\ \/ n > 1 /\ i' = n - 1 /\ pc' = "rollback" /\ result' = "none"
           \/ n = 1 /\ pc' = "done" /\ result' = "rolled_back"
    BY <1>7, <1>b, <2>1, <2>2 DEF RollBack, Report, LoopInv
  <2>4. InPlace(n - 1)'
    BY <2>1, <2>2, <2>3, UndoShrinks
  <2>5. CASE n > 1
    BY <1>b, <2>1, <2>2, <2>3, <2>4, <2>5 DEF TreeInv, Checked, InPlace
  <2>6. CASE n = 1
    <3>1. InPlace(0)'
      BY <2>4, <2>6
    <3>2. (disk = start)'
      BY <1>a, <3>1 DEF InPlace, TypeOK
    <3> QED
      BY <1>b, <2>3, <2>6, <3>2 DEF TreeInv
  <2> QED
    BY <1>b, <2>2, <2>5, <2>6
<1>8. CASE RollBackFails
  BY <1>8 DEF RollBackFails, Report, TreeInv
<1>9. CASE \E f \in Files, c \in {"edited", "absent"} : Edit(f, c)
  BY <1>9, <1>c DEF Edit, TreeInv
<1>10. CASE Finished \/ UNCHANGED vars
  BY <1>10 DEF Finished, vars, TreeInv, Checked, InPlace
<1> QED
  BY <1>1, <1>2, <1>3, <1>4, <1>5, <1>6, <1>7, <1>8, <1>9, <1>10
     DEF Next, Apply

(* A tree nobody else edits ends as the receipt describes or as it began,   *)
(* if a write that fails leaves its file alone (repair.ts:1686-1707).       *)
THEOREM AllOrNothingCorrect ==
  ASSUME ~TornWrites
  PROVE  Spec => []AllOrNothing
<1> DEFINE Inv == TypeOK /\ LoopInv /\ TreeInv
<1>1. Init => Inv
  BY InitOK DEF Init, TreeInv
<1>2. Inv /\ [Next]_vars => Inv'
  BY LoopStep, TreeStep
<1>3. Inv => AllOrNothing
  BY InPlaceIsTarget DEF TreeInv, AllOrNothing
<1> QED
  BY <1>1, <1>2, <1>3, PTL DEF Spec

-----------------------------------------------------------------------------
(* Until the command writes, only edits have changed the tree.              *)
Differs == {f \in Files : disk[f] # start[f]}
ReadOnly == pc \in {"receipt", "needs", "preimages"} \/ result = "refused"
EditsInv ==
  ReadOnly => IsFiniteSet(Differs) /\ Cardinality(Differs) <= edits
              /\ written = <<>>

LEMMA EditsStep ==
  ASSUME TypeOK, LoopInv, EditsInv, [Next]_vars
  PROVE  EditsInv'
<1>a. edits \in Nat
  BY BoundAssumption DEF TypeOK
<1>1. CASE CheckReceipt \/ CheckPrerequisite \/ CheckPreimage
  <2>1. UNCHANGED <<disk, start, written, edits>> /\ ReadOnly
    BY <1>1 DEF CheckReceipt, CheckPrerequisite, CheckPreimage, ReadOnly
  <2> QED
    BY <2>1 DEF EditsInv, Differs
<1>2. CASE Write \/ WriteFails \/ Compare \/ RollBack \/ RollBackFails
  <2>1. ~ReadOnly'
    BY <1>2 DEF Write, WriteFails, Compare, RollBack, RollBackFails, NextRound,
       BeginRollback, Report, LoopInv, ReadOnly
  <2> QED
    BY <2>1 DEF EditsInv
<1>3. ASSUME NEW f \in Files, NEW c \in {"edited", "absent"}, Edit(f, c)
      PROVE  EditsInv'
  <2> SUFFICES ASSUME ReadOnly' PROVE EditsInv'
    BY DEF EditsInv
  <2>1. ReadOnly /\ UNCHANGED <<start, written>> /\ edits' = edits + 1
    BY <1>3 DEF Edit, ReadOnly
  <2>2. Differs' \subseteq Differs \cup {f}
    BY <1>3 DEF Edit, Differs, TypeOK
  <2>3. IsFiniteSet(Differs) /\ Cardinality(Differs) <= edits /\ written = <<>>
    BY <2>1 DEF EditsInv
  <2>4. /\ IsFiniteSet(Differs \cup {f})
        /\ Cardinality(Differs \cup {f}) <= Cardinality(Differs) + 1
    BY <2>3, FS_AddElement, FS_CardinalityType
  <2>5. IsFiniteSet(Differs') /\ Cardinality(Differs') <= Cardinality(Differs \cup {f})
    BY <2>2, <2>4, FS_Subset
  <2>6. Cardinality(Differs) \in Nat /\ Cardinality(Differs \cup {f}) \in Nat
        /\ Cardinality(Differs') \in Nat
    BY <2>3, <2>4, <2>5, FS_CardinalityType
  <2>7. Cardinality(Differs') <= edits'
    BY <1>a, <2>1, <2>3, <2>4, <2>5, <2>6
  <2> QED
    BY <2>1, <2>3, <2>5, <2>7 DEF EditsInv
<1>4. CASE Finished \/ UNCHANGED vars
  BY <1>4 DEF Finished, vars, EditsInv, Differs, ReadOnly
<1> QED
  BY <1>1, <1>2, <1>3, <1>4 DEF Next, Apply

(* A refused command has written nothing: what differs from the tree it     *)
(* began with, others edited (repair.ts:1605-1684).                         *)
THEOREM RefusalWritesNothingCorrect == Spec => []RefusalWritesNothing
<1> DEFINE Inv == TypeOK /\ LoopInv /\ EditsInv
<1>1. Init => Inv
  <2> SUFFICES ASSUME Init PROVE EditsInv
    BY InitOK
  <2>1. Differs = {} /\ edits = 0 /\ written = <<>>
    BY DEF Init, Differs
  <2> QED
    BY <2>1, FS_EmptySet DEF EditsInv
<1>2. Inv /\ [Next]_vars => Inv'
  BY LoopStep, EditsStep
<1>3. Inv => RefusalWritesNothing
  BY DEF EditsInv, ReadOnly, Differs, RefusalWritesNothing
<1> QED
  BY <1>1, <1>2, <1>3, PTL DEF Spec
=============================================================================
