---------------------------- MODULE MCRepairApply ----------------------------
(* Small instances of RepairApply for TLC.                                  *)
EXTENDS RepairApply

Created == Change("override", "absent", "new")
Changed == Change("config", "old", "new")
Schema  == <<Prerequisite("schema", "old")>>

Receipt(p, cs, ns) == [passes |-> p, changes |-> cs, needs |-> ns]

(* A receipt that creates one file and changes another on condition of a    *)
(* third, the same in the other order, a change alone, and a receipt that   *)
(* fails one of its checks.                                                 *)
SomeReceipts ==
  {Receipt(ReceiptChecks, <<Created, Changed>>, Schema),
   Receipt(ReceiptChecks, <<Changed, Created>>, <<>>),
   Receipt(ReceiptChecks, <<Changed>>, Schema)}
    \cup {Receipt(ReceiptChecks \ {c}, <<Changed>>, Schema) : c \in ReceiptChecks}
=============================================================================
