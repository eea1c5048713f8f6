------------------------ MODULE MCClientConnections ------------------------
(* Instances of ClientConnections for TLC. *)
EXTENDS ClientConnections, TLC

CONSTANTS s1, s2, s3, f1, f2, f3, w1, w2

TwoSocks == {s1, s2}
ThreeSocks == {s1, s2, s3}
OneFD == {f1}
TwoFDs == {f1, f2}
ThreeFDs == {f1, f2, f3}
OneWorker == {w1}
TwoWorkers == {w1, w2}

\* Sockets, descriptors and workers differ in nothing: sound for safety only.
Symmetry == Permutations(Socks) \cup Permutations(FDs) \cup Permutations(Workers)
=============================================================================
