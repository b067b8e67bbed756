----------------------------- MODULE MCCiAction ------------------------------
(* Small instances of CiAction for TLC.                                     *)
EXTENDS CiAction

Plain == [valid |-> TRUE, strict |-> TRUE, diff |-> FALSE, drift |-> FALSE,
          entry |-> FALSE, receipt |-> FALSE, plan |-> FALSE, comment |-> TRUE]
SomeInputs ==
  {Plain, [Plain EXCEPT !.valid = FALSE],
   [Plain EXCEPT !.strict = FALSE, !.entry = TRUE],
   [Plain EXCEPT !.entry = TRUE, !.receipt = TRUE, !.comment = FALSE],
   [Plain EXCEPT !.diff = TRUE, !.drift = TRUE, !.receipt = TRUE,
                  !.plan = TRUE]}
=============================================================================
