------------------------------ MODULE MCSigning ------------------------------
(* Small instances of Signing for TLC.                                      *)
EXTENDS Signing

CONSTANTS p1, p2, k1, k2, k3, friend, colleague

Command(kind) == [Idle EXCEPT !.kind = kind]
Foreign(who) == Signed(Body(0, 0), who)
Damaged(who) == [Foreign(who) EXCEPT !.body = Body(0, 1)]
Verify(strict, trust, target, given) ==
  [Command("verify") EXCEPT !.strict = strict, !.trust = trust,
                            !.target = target, !.given = given]
SomeCommands ==
  {Command("up"), Command("export"),
   [Command("rotate") EXCEPT !.resign = TRUE],
   [Command("rotate") EXCEPT !.backup = FALSE],
   Verify(TRUE, FALSE, "attestation", Absent),
   Verify(FALSE, TRUE, "entry", Absent),
   Verify(TRUE, TRUE, "file", Foreign(friend)),
   Verify(TRUE, TRUE, "file", Damaged(friend)),
   Verify(TRUE, TRUE, "file", Foreign(colleague))}
=============================================================================
