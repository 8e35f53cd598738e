-------------------------- MODULE MCSiteLifecycle --------------------------
(* SiteLifecycle on a small instance. *)
EXTENDS SiteLifecycle

CONSTANTS s1, s2, p1, p2, h1, h2, none

MCSite == {s1, s2}
MCPort == {p1, p2}
MCHost == {h1, h2}
(* A dedicated port, the same port with a host, that host alone, another   *)
(* port with another host: an update may keep either, swap either or both. *)
MCConfig == {[port |-> p1, host |-> none], [port |-> p1, host |-> h1],
             [port |-> none, host |-> h1], [port |-> p2, host |-> h2]}
Second == {s2}
=============================================================================
