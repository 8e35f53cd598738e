---------------------------- MODULE CacheRequests ----------------------------
(* What the caches of an instance share: the client requests, the sites they *)
(* are for, and the clock.                                                   *)
EXTENDS CacheFreshness, Sequences, FiniteSets, FiniteSetsExt

CONSTANTS
  Request,        \* client requests: numbers, in the order they arrive
  Nobody,         \* no request
  Site,           \* sites, each with one running instance
  MaxClock,       \* bound on time
  Leap,           \* the ticks that pass at once
  MaxEvent        \* bound on closings, invalidations, clearings, file faults, crashes

ASSUME RequestAssumption ==
  /\ Request \subseteq Nat /\ IsFiniteSet(Request) /\ Nobody \notin Request
  /\ {MaxClock, MaxEvent} \subseteq Nat /\ Leap \in Nat \ {0}

VARIABLES
  clock,          \* time.Now
  events          \* what disturbed the caches so far

\* Something other than a request or the time.
Event == events < MaxEvent /\ events' = events + 1

\* The entries of a list whose key is in K, in their order.
Kept(q, K) ==
  LET kept[n \in 0..Len(q)] ==
        IF n = 0 THEN <<>>
        ELSE IF q[n].key \in K THEN Append(kept[n - 1], q[n]) ELSE kept[n - 1]
  IN kept[Len(q)]
=============================================================================
