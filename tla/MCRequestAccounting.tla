------------------------- MODULE MCRequestAccounting -------------------------
(* Instances of RequestAccounting for TLC. *)
EXTENDS RequestAccounting, TLC

CONSTANTS w1, w2

TwoWorkers == {w1, w2}

\* One whose calls an exchange uses up, and one whose bytes it uses up.
TwoPlans == {[calls |-> 1, bytes |-> 9], [calls |-> 9, bytes |-> 2]}

Symmetry == Permutations(Workers)
=============================================================================
