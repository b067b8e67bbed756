----------------------------- MODULE MCAgentRun -----------------------------
(* Small instances of AgentRun for TLC.                                     *)
EXTENDS AgentRun, TLC

Action(a, x)    == [kind |-> "action", says |-> ActionSays(a, x)]
Verification(o) == [kind |-> "verification", says |-> VerificationSays(o)]

(* A plan without candidates, and one that stops for both reasons.          *)
SomePlans ==
  {<<>>, <<Candidate("pending", TRUE), Candidate("blocked", TRUE)>>}

(* An execution and a success, neither of which may be left standing by the *)
(* append that comes after it or at the same time, and a failure.           *)
Contested == {Action("approved", TRUE), Verification("external"),
              Verification("failed")}

(* Any process may play any part.                                           *)
Interchangeable == Permutations(Procs)
=============================================================================
