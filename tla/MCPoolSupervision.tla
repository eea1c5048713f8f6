------------------------- MODULE MCPoolSupervision -------------------------
(* Instances of PoolSupervision for TLC. *)
EXTENDS PoolSupervision

CONSTANTS p1, p2, n1, s1, s2

TwoPools == {p1, p2}
OneEndpoint == {n1}
TwoSuspenders == {s1, s2}
=============================================================================
