------------------------ MODULE MCTrafficAccounting ------------------------
(* TrafficAccounting on a small instance. *)
EXTENDS TrafficAccounting

CONSTANTS r1

OneRequest == {r1}
MCPayload == {1}
=============================================================================
