------------------------ MODULE MCProgressCoalescer ------------------------
(* ProgressCoalescer on a small instance. *)
EXTENDS ProgressCoalescer

CONSTANTS q1, q2, q3, k1, k2

ThreeRequests == {q1, q2, q3}
OneKey == {k1}
TwoKeys == {k1, k2}
RequestSymmetry == Permutations(ThreeRequests)
=============================================================================
