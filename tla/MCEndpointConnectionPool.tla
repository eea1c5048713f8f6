---------------------- MODULE MCEndpointConnectionPool ----------------------
(* Instances of EndpointConnectionPool for TLC. *)
EXTENDS EndpointConnectionPool, TLC

CONSTANTS w1, w2, t1, c1, c2, c3

TwoUsers == {w1, w2}
ThreeUsers == {w1, w2, t1}
OneTester == {t1}
WorkerAndTester == {w1, t1}
TwoConns == {c1, c2}
ThreeConns == {c1, c2, c3}

\* Workers differ in nothing, nor do connections: sound for safety only.
Symmetry == Permutations({w1, w2}) \cup Permutations(Conns)
=============================================================================
