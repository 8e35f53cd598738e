------------------------------ MODULE PingCache ------------------------------
(* The ping cache of one instance: identical pings follow one flight, an     *)
(* answer is kept for a short time, and an invalidation empties the cache    *)
(* and disowns what is being fetched. It sits below the proxy, as a          *)
(* transport: what fails here fails the request.                             *)
EXTENDS CacheRequests

CONSTANTS
  PingKey,        \* the ping keys: route, method, identity
  PingAnswer,     \* upstream answers
  PingTTL,        \* pingCacheTTL
  MaxEntries      \* pingCacheMaxEntries

ASSUME PingAssumption ==
  /\ {PingTTL, MaxEntries} \subseteq Nat \ {0}
  /\ \A answer \in PingAnswer : IsAnswer(answer)

VARIABLES
  ping,           \* per request: where roundTrip is, and its locals
  entries,        \* pingCache.entries in the order of lru, front first
  inflight,       \* pingCache.inflight: the request that leads a key
  flightOf,       \* pingCacheFlight.generation, by the leading request
  generation      \* pingCache.generation

pingVars == <<ping, entries, inflight, flightOf, generation>>

PingIdle == [at |-> "idle"]

PingInit ==
  /\ ping = [r \in Request |-> PingIdle]
  /\ entries = <<>>
  /\ inflight = [k \in PingKey |-> Nobody]
  /\ flightOf = [r \in Request |-> 0]
  /\ generation = 0

PingStep(r, state) == ping' = [ping EXCEPT ![r] = state]
PingAt(r, at) == ping[r].at = at
PingGoes(r, at) == PingStep(r, [ping[r] EXCEPT !.at = at])
PingFinished(r) == PingAt(r, "done")

\* lookupLocked: an expired entry is removed, any other moved to the front. The
\* clock is read under the lock.
Live(k) == {e \in Range(entries) : e.key = k /\ clock < e.expiresAt}
Others(k) == Kept(entries, PingKey \ {k})
AfterLookup(k) ==
  IF Live(k) = {} THEN Others(k) ELSE <<CHOOSE e \in Live(k) : TRUE>> \o Others(k)

\* With an answer or with an error.
PingFail(r) == PingStep(r, [at |-> "done"])

\* pingCacheResponseFromEntry; the answer is written after the lock is released.
PingServed(r) ==
  \E e \in Live(ping[r].key) :
    PingStep(r, [at |-> "served", entry |-> e, age |-> AgeValue(e, clock)])

PingReply(r) ==
  /\ PingAt(r, "served")
  /\ PingStep(r, [at |-> "done"])
  /\ UNCHANGED <<entries, inflight, flightOf, generation>>

\* The route and the request key of an eligible ping.
PingArrive(r) ==
  /\ PingAt(r, "idle")
  /\ \E k \in PingKey : PingStep(r, [at |-> "first", key |-> k, follows |-> Nobody])
  /\ UNCHANGED <<entries, inflight, flightOf, generation>>

\* cachedResponse, before joining a flight.
PingFirst(r) ==
  /\ PingAt(r, "first")
  /\ entries' = AfterLookup(ping[r].key)
  /\ IF Live(ping[r].key) # {} THEN PingServed(r) ELSE PingGoes(r, "second")
  /\ UNCHANGED <<inflight, flightOf, generation>>

\* The second look, and under the same lock: join the flight or lead one.
PingSecond(r) ==
  /\ PingAt(r, "second")
  /\ LET k == ping[r].key
     IN /\ entries' = AfterLookup(k)
        /\ \/ Live(k) # {} /\ PingServed(r) /\ UNCHANGED <<inflight, flightOf>>
           \/ /\ Live(k) = {} /\ inflight[k] # Nobody
              /\ PingStep(r, [ping[r] EXCEPT !.at = "waiting", !.follows = inflight[k]])
              /\ UNCHANGED <<inflight, flightOf>>
           \/ /\ Live(k) = {} /\ inflight[k] = Nobody
              /\ PingGoes(r, "fetching")
              /\ inflight' = [inflight EXCEPT ![k] = r]
              /\ flightOf' = [flightOf EXCEPT ![r] = generation]
  /\ UNCHANGED generation

PingFlying(r) == \E k \in PingKey : inflight[k] = r

\* The flight ended: what it stored, else the upstream, unless the client left.
PingWake(r) ==
  /\ PingAt(r, "waiting") /\ ~PingFlying(ping[r].follows)
  /\ entries' = AfterLookup(ping[r].key)
  /\ IF Live(ping[r].key) # {} THEN PingServed(r)
     ELSE PingGoes(r, "direct") \/ PingFail(r)
  /\ UNCHANGED <<inflight, flightOf, generation>>

\* The client leaves while it follows.
PingAbandon(r) ==
  /\ PingAt(r, "waiting")
  /\ PingFail(r)
  /\ UNCHANGED <<entries, inflight, flightOf, generation>>

\* A follower on its own: what it receives is not stored.
PingDirect(r) ==
  /\ PingAt(r, "direct")
  /\ PingStep(r, [at |-> "done"])
  /\ UNCHANGED <<entries, inflight, flightOf, generation>>

\* pingCacheResponseHeadersSafe, and fresh.
HeadersSafe(answer) == answer.safe /\ Fresh(answer)

\* The leader's round trip ended with an answer; its body is read next.
PingHeaders(r) ==
  /\ PingAt(r, "fetching")
  /\ \E answer \in PingAnswer :
       PingStep(r, [at |-> "reading", key |-> ping[r].key,
         entry |-> IF HeadersSafe(answer)
                   THEN {[key |-> ping[r].key, responseAt |-> clock, answer |-> answer,
                          initialAge |-> InitialAge(answer),
                          expiresAt |-> clock + Remaining(answer, PingTTL),
                          fetchedIn |-> flightOf[r]]}
                   ELSE {}])
  /\ UNCHANGED <<entries, inflight, flightOf, generation>>

\* Mutant: what was fetched before an invalidation is stored after it.
Storable_AnyGeneration(r, entry) == {e \in entry : clock < e.expiresAt}

\* Fetched in the present generation, and fresh still.
Storable(r, entry) == {e \in entry : flightOf[r] = generation /\ clock < e.expiresAt}

\* finishFlight.
PingFinishFlight(r, entry) ==
  /\ LET k == ping[r].key
         kept == Storable(r, entry)
     IN /\ entries' = IF kept = {} THEN entries
                      ELSE LET q == <<CHOOSE e \in kept : TRUE>> \o Others(k)
                           IN SubSeq(q, 1, Lesser(Len(q), MaxEntries))
        /\ inflight' = [inflight EXCEPT ![k] = Nobody]
  /\ flightOf' = [flightOf EXCEPT ![r] = 0]
  /\ PingStep(r, [at |-> "done"])
  /\ UNCHANGED generation

\* The round trip failed.
PingError(r) ==
  /\ PingAt(r, "fetching")
  /\ PingFinishFlight(r, {})

\* prepareResponse read the body to its end, or could not: a body that breaks,
\* is too large or has not its declared length is passed on and not stored.
PingBody(r) ==
  /\ PingAt(r, "reading")
  /\ \E whole \in BOOLEAN : PingFinishFlight(r, IF whole THEN ping[r].entry ELSE {})

Invalidate ==
  /\ Event
  /\ generation' = generation + 1
  /\ entries' = <<>>
  /\ UNCHANGED <<ping, inflight, flightOf>>
=============================================================================
