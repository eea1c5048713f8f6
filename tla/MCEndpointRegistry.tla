-------------------------- MODULE MCEndpointRegistry --------------------------
(* Instances of EndpointRegistry for TLC. *)
EXTENDS EndpointRegistry, TLC

CONSTANTS n1, n2, h1, p1, p2, p3, w1, w2

TwoNames == {n1, n2}

\* https://h1/, http://h1:8545/, and http://h1/, which is rejected.
ThreeUrls ==
  { [scheme |-> "https", host |-> h1, port |-> None],
    [scheme |-> "http", host |-> h1, port |-> 8545],
    [scheme |-> "http", host |-> h1, port |-> None] }
ThreePools == {p1, p2, p3}
TwoWorkers == {w1, w2}

\* Names, pools and workers differ in nothing: sound for safety only.
Symmetry ==
  Permutations(Names) \cup Permutations(Pools) \cup Permutations(Workers)
=============================================================================
