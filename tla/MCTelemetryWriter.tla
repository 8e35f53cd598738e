------------------------- MODULE MCTelemetryWriter --------------------------
(* TelemetryWriter on a small instance. *)
EXTENDS TelemetryWriter, TLC

CONSTANTS o1, l1, l2, c1, c2

Observations == {o1}
Logs == {l1, l2}
Callers == {c1, c2}
ListAndClear == (c1 :> "flush") @@ (c2 :> "clear log")
=============================================================================
