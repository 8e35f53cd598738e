------------------------- MODULE MCUpstreamFailover -------------------------
(* UpstreamFailover on a small instance. *)
EXTENDS UpstreamFailover

CONSTANTS r1, r2

TwoRequests == {r1, r2}
=============================================================================
