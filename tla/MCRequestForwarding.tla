------------------------ MODULE MCRequestForwarding ------------------------
(* Instances of RequestForwarding for TLC. *)
EXTENDS RequestForwarding, TLC

CONSTANTS w1, w2, t1, c1, c2, r1, r2, r3

TwoWorkersAndTester == {w1, w2, t1}
OneTester == {t1}
TwoConns == {c1, c2}
ThreeRequests == {r1, r2, r3}

\* Workers, connections and requests differ in nothing: sound for safety only.
Symmetry ==
  Permutations({w1, w2}) \cup Permutations(Conns) \cup Permutations(Requests)
=============================================================================
