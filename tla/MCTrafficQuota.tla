--------------------------- MODULE MCTrafficQuota ---------------------------
(* TrafficQuota on a small instance. *)
EXTENDS TrafficQuota, TLC

CONSTANTS w1, w2

MCWriter == {w1, w2}
OneWriter == {w1}
MCSize == {2}
WriterSymmetry == Permutations(MCWriter)
=============================================================================
