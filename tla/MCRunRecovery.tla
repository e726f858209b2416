--------------------------- MODULE MCRunRecovery ---------------------------
(* Instances of RunRecovery for TLC. *)
EXTENDS RunRecovery, TLC

CONSTANTS p1, p2, u1, u2

TwoProcs == {p1, p2}
SameUser == [p \in {p1, p2} |-> u1]
OneUserEach == [p \in {p1, p2} |-> IF p = p1 THEN u1 ELSE u2]
=============================================================================
