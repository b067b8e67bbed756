----------------------------- MODULE BootVerdict ----------------------------
(***************************************************************************)
(* What `bootproof up` promises, whatever it takes to keep the promise: it  *)
(* refuses only before it has run anything, it runs repository code on the  *)
(* host only with consent, it reports a boot only with supporting evidence  *)
(* in hand, and it reports once.                                            *)
(***************************************************************************)
VARIABLES
  consent,   (* the user acknowledged execution on the host                 *)
  ran,       (* the most that was run: nothing, containers or host commands *)
  heard,     (* the evidence in hand supports a boot                        *)
  report     (* the attestation of the run                                  *)

vars == <<consent, ran, heard, report>>

Reports == {"none", "refused", "failed", "booted"}

Init ==
  /\ consent \in BOOLEAN
  /\ ran = "nothing" /\ heard = FALSE /\ report = "none"

Silent == report = "none" /\ UNCHANGED <<consent, report>>

RunHost ==
  /\ Silent /\ consent
  /\ ran' = "host" /\ UNCHANGED heard

RunContainers ==
  /\ Silent /\ ran = "nothing"
  /\ ran' = "containers" /\ UNCHANGED heard

(* A later response may say less than an earlier one.                       *)
Hear ==
  /\ Silent /\ ran # "nothing"
  /\ heard' \in BOOLEAN /\ UNCHANGED ran

Conclude(r) == report = "none" /\ report' = r /\ UNCHANGED <<consent, ran, heard>>

Refuse == ran = "nothing" /\ Conclude("refused")
Fail   == Conclude("failed")
Boot   == heard /\ Conclude("booted")

Next == RunHost \/ RunContainers \/ Hear \/ Refuse \/ Fail \/ Boot

Spec == Init /\ [][Next]_vars
=============================================================================
