----------------------------- MODULE ImageCache ------------------------------
(* The image cache: one memory budget for the process and one for each site, *)
(* spent on stored answers and on reservations of requests that may store    *)
(* one; identical requests follow one leader; a site may be closed under it. *)
(*                                                                           *)
(* A key is a member of Target with its site. Sizes are in units: what an    *)
(* entry costs before its body (overhead, key, replayed headers, the         *)
(* Content-Length) is Minimum for every key.                                 *)
EXTENDS CacheRequests

CONSTANTS
  Target,         \* the image keys, records [site, image]
  ImageAnswer,    \* upstream answers: headers, declared length, body
  Minimum,        \* cost of an entry with an empty body
  MaxBody,        \* imageCacheMaxBodyBytes
  MaxSiteBytes, MaxProcessBytes,
  ImageTTL        \* imageCacheTTL

ASSUME TargetAssumption == \A t \in Target : t.site \in Site
ASSUME SizeAssumption ==
  /\ {Minimum, MaxBody, ImageTTL} \subseteq Nat \ {0}
  /\ {MaxSiteBytes, MaxProcessBytes} \subseteq Nat
ASSUME ImageAnswerAssumption ==
  \A answer \in ImageAnswer :
    IsAnswer(answer) /\ answer.declared \in Nat \union {Absent} /\ answer.body \in Nat

VARIABLES
  image,          \* per request: where serve is, and its locals
  lru,            \* the stored entries, most recently used first
  siteBytes,      \* imageCacheSite.bytes
  processBytes,   \* imageCacheRuntime.bytes
  leader,         \* imageCacheSite.flights: the request that leads a key
  reserved,       \* imageCacheFlight.reservedBytes, by the leading request
  capturing,      \* the leaders whose flight has captureStarted
  closedSites     \* imageCacheSite.closed

imageVars == <<image, lru, siteBytes, processBytes, leader, reserved, capturing, closedSites>>

Idle == [at |-> "idle"]

ImageInit ==
  /\ image = [r \in Request |-> Idle]
  /\ lru = <<>>
  /\ siteBytes = [s \in Site |-> 0]
  /\ processBytes = 0
  /\ leader = [t \in Target |-> Nobody]
  /\ reserved = [r \in Request |-> 0]
  /\ capturing = {}
  /\ closedSites = {}

-----------------------------------------------------------------------------
(* The lists. The list of a site is the part of lru that belongs to it: both *)
(* are relinked in the same calls.                                           *)

Without(q, t) == Kept(q, Target \ {t})
OfSite(q, s) == Kept(q, {t \in Target : t.site = s})
Stored(q, t) == {e \in Range(q) : e.key = t}

\* Everything but the n least recently used entries, of the site or of all.
DropTails(q, n) == SubSeq(q, 1, Len(q) - n)
DropSiteTails(q, s, n) ==
  LET own == OfSite(q, s)
      dropped == {own[i].key : i \in (Len(own) - n + 1)..Len(own)}
  IN Kept(q, Target \ dropped)

CostOf(q) == SumFunction([i \in DOMAIN q |-> q[i].cost])

\* The counters after the list lost entries: remove subtracts the cost of each.
\* Mutant: what is evicted for another site stays on its own site's bill.
BytesAfter_OfCallerOnly(q, s, reservation) ==
  /\ siteBytes' = [siteBytes EXCEPT ![s] =
       @ - (CostOf(OfSite(lru, s)) - CostOf(OfSite(q, s))) + reservation]
  /\ processBytes' = processBytes - (CostOf(lru) - CostOf(q)) + reservation

\* q replaces lru; reservation is what site s takes (or gives back, negative).
BytesAfter(q, s, reservation) ==
  /\ siteBytes' = [x \in Site |-> Greater(0,
       siteBytes[x] - (CostOf(OfSite(lru, x)) - CostOf(OfSite(q, x)))
                    + (IF x = s THEN reservation ELSE 0))]
  /\ processBytes' = Greater(0, processBytes - (CostOf(lru) - CostOf(q)) + reservation)

\* getLocked: an expired entry is removed, any other moved to the front.
Hit(t, now) == {e \in Stored(lru, t) : now < e.expiresAt}
AfterGet(t, now) ==
  IF Hit(t, now) = {} THEN Without(lru, t)
  ELSE <<CHOOSE e \in Hit(t, now) : TRUE>> \o Without(lru, t)

-----------------------------------------------------------------------------
(* Reservations.                                                             *)

\* The most a flight reserves.
FlightTarget == Lesser(Minimum + MaxBody, Lesser(MaxSiteBytes, MaxProcessBytes))

SiteRoom(q, s) == MaxSiteBytes - (siteBytes[s] - (CostOf(OfSite(lru, s)) - CostOf(OfSite(q, s))))
ProcessRoom(q) == MaxProcessBytes - (processBytes - (CostOf(lru) - CostOf(q)))

\* The list reserveFlightLocked leaves: the site's own tail is evicted until the
\* site has room for a body, then the tail of the process.
AfterEviction(q, s) ==
  LET all == Len(OfSite(q, s))
      own == DropSiteTails(q, s, Min({all} \union
               {n \in 0..all : SiteRoom(DropSiteTails(q, s, n), s) > Minimum}))
  IN IF SiteRoom(own, s) > Minimum
       THEN DropTails(own, Min({Len(own)} \union
              {n \in 0..Len(own) : ProcessRoom(DropTails(own, n)) > Minimum}))
       ELSE own

\* What it reserves; 0 when eviction does not make room.
Reservation(q, s) ==
  LET available == Lesser(SiteRoom(q, s), ProcessRoom(q))
  IN IF FlightTarget > Minimum /\ available > Minimum THEN Lesser(FlightTarget, available) ELSE 0

-----------------------------------------------------------------------------
(* serve.                                                                    *)

Step(r, state) == image' = [image EXCEPT ![r] = state]
At(r, at) == image[r].at = at
\* The same request elsewhere in serve, with the key it is for.
Goes(r, at) == Step(r, [at |-> at, target |-> image[r].target])
Forwards(r) == Step(r, [at |-> "forwarding"])
\* Served from the cache: what was answered, for the Age it reports.
Answer(r, e, now) == Step(r, [at |-> "served", entry |-> e, age |-> AgeValue(e, now)])
ImageFinished(r) == At(r, "done")

\* An eligible request; the clock is read before any lock is taken.
ImageArrive(r) ==
  /\ At(r, "idle")
  /\ \E t \in Target, m \in {"GET", "HEAD"} :
       Step(r, [at |-> "looking", target |-> t, method |-> m, now |-> clock])
  /\ UNCHANGED <<lru, siteBytes, processBytes, leader, reserved, capturing, closedSites>>

\* lookup of a HEAD and lookupOrBegin of a GET.
ImageLookup(r) ==
  /\ At(r, "looking")
  /\ LET t == image[r].target
         now == image[r].now
         got == AfterGet(t, now)
         room == AfterEviction(got, t.site)
         reservation == Reservation(room, t.site)
     IN \/ /\ t.site \in closedSites
           /\ Forwards(r)
           /\ UNCHANGED <<lru, siteBytes, processBytes, leader, reserved>>
        \/ /\ t.site \notin closedSites /\ Hit(t, now) # {}
           /\ \E e \in Hit(t, now) : Answer(r, e, now)
           /\ lru' = got /\ BytesAfter(got, t.site, 0)
           /\ UNCHANGED <<leader, reserved>>
        \/ /\ t.site \notin closedSites /\ Hit(t, now) = {}
           /\ leader[t] # Nobody
           /\ Step(r, [at |-> "waiting", target |-> t, follows |-> leader[t]])
           /\ lru' = got /\ BytesAfter(got, t.site, 0)
           /\ UNCHANGED <<leader, reserved>>
        \/ /\ t.site \notin closedSites /\ Hit(t, now) = {}
           /\ leader[t] = Nobody
           /\ image[r].method = "HEAD"
           /\ Forwards(r)
           /\ lru' = got /\ BytesAfter(got, t.site, 0)
           /\ UNCHANGED <<leader, reserved>>
        \/ /\ t.site \notin closedSites /\ Hit(t, now) = {}
           /\ leader[t] = Nobody
           /\ image[r].method = "GET"
           /\ lru' = room /\ BytesAfter(room, t.site, reservation)
           /\ IF reservation = 0
                THEN Forwards(r) /\ UNCHANGED <<leader, reserved>>
                ELSE /\ Goes(r, "leading")
                     /\ leader' = [leader EXCEPT ![t] = r]
                     /\ reserved' = [reserved EXCEPT ![r] = reservation]
  /\ UNCHANGED <<capturing, closedSites>>

\* The done channel of a flight is closed when it leaves the table.
Flying(r) == \E t \in Target : leader[t] = r

\* A follower is woken, reads the clock and looks once more.
ImageWake(r) ==
  /\ At(r, "waiting") /\ ~Flying(image[r].follows)
  /\ Step(r, [at |-> "again", target |-> image[r].target, now |-> clock])
  /\ UNCHANGED <<lru, siteBytes, processBytes, leader, reserved, capturing, closedSites>>

ImageLookAgain(r) ==
  /\ At(r, "again")
  /\ LET t == image[r].target
         now == image[r].now
     IN \/ /\ t.site \in closedSites
           /\ Forwards(r) /\ UNCHANGED <<lru, siteBytes, processBytes>>
        \/ /\ t.site \notin closedSites
           /\ lru' = AfterGet(t, now) /\ BytesAfter(AfterGet(t, now), t.site, 0)
           /\ IF Hit(t, now) = {} THEN Forwards(r)
              ELSE \E e \in Hit(t, now) : Answer(r, e, now)
  /\ UNCHANGED <<leader, reserved, capturing, closedSites>>

\* A follower whose client leaves is forwarded too, with a cancelled context.
ImageAbandon(r) ==
  /\ At(r, "waiting")
  /\ Forwards(r)
  /\ UNCHANGED <<lru, siteBytes, processBytes, leader, reserved, capturing, closedSites>>

\* serveImageCacheEntry, which needs no lock, and next.ServeHTTP without the cache.
ImageReply(r) ==
  /\ At(r, "served") \/ At(r, "forwarding")
  /\ Step(r, [at |-> "done"])
  /\ UNCHANGED <<lru, siteBytes, processBytes, leader, reserved, capturing, closedSites>>

-----------------------------------------------------------------------------
(* The leader.                                                               *)

\* beginFlightCapture: a flight that close unregistered is not captured.
BeginCapture(r) ==
  /\ At(r, "leading")
  /\ IF Flying(r) /\ reserved[r] > 0
       THEN Goes(r, "asking") /\ capturing' = capturing \union {r}
       ELSE Goes(r, "finishing") /\ UNCHANGED capturing
  /\ UNCHANGED <<lru, siteBytes, processBytes, leader, reserved, closedSites>>

CaptureLimit(r) == Lesser(reserved[r] - Minimum, MaxBody)

\* imageCacheResponseMetadata: a complete image with headers that may be replayed.
Metadata(answer) == answer.safe /\ Fresh(answer)

\* WriteHeader of the capture writer: the answer is judged by its headers.
Cacheable(r, answer) ==
  /\ Metadata(answer)
  /\ answer.declared # Absent => answer.declared <= CaptureLimit(r)

\* What the body is read into: its declared length, else all that may be kept.
Capacity(r, answer) == IF answer.declared # Absent THEN answer.declared ELSE CaptureLimit(r)

\* Write and entry: the body fits and has its declared length.
Complete(r, answer) ==
  /\ answer.body <= CaptureLimit(r)
  /\ answer.declared # Absent => answer.body = answer.declared

Entry(r, answer) ==
  [key |-> image[r].target, cost |-> Minimum + Capacity(r, answer),
   responseAt |-> clock, initialAge |-> InitialAge(answer),
   expiresAt |-> clock + Remaining(answer, ImageTTL), answer |-> answer]

\* The headers arrive; the body is copied to the client after them.
ImageHeaders(r) ==
  /\ At(r, "asking")
  /\ \E answer \in ImageAnswer :
       Step(r, [at |-> "copying", target |-> image[r].target,
                entry |-> IF Cacheable(r, answer) THEN {Entry(r, answer)} ELSE {}])
  /\ UNCHANGED <<lru, siteBytes, processBytes, leader, reserved, capturing, closedSites>>

\* The upstream failed, the copy broke off, or it ended: the candidate.
ImageCopied(r) ==
  /\ At(r, "copying")
  /\ \E kept \in {{}, {e \in image[r].entry : Complete(r, e.answer)}} :
       Step(r, [at |-> "finishing", target |-> image[r].target, entry |-> kept])
  /\ UNCHANGED <<lru, siteBytes, processBytes, leader, reserved, capturing, closedSites>>

\* A leader that captured nothing has no candidate.
Candidate(r) == IF "entry" \in DOMAIN image[r] THEN image[r].entry ELSE {}

\* Mutant: a flight that has nothing to store stays in the table.
Unregistered_WhenStored(r) ==
  [t \in Target |-> IF leader[t] = r /\ Candidate(r) # {} THEN Nobody ELSE leader[t]]

Unregistered(r) == [t \in Target |-> IF leader[t] = r THEN Nobody ELSE leader[t]]

\* storeLocked: what fits the reservation and is fresh; nothing of a flight that
\* close unregistered.
Stores(r) == {e \in Candidate(r) : Flying(r) /\ e.cost <= reserved[r] /\ clock < e.expiresAt}

\* finishFlight: an unregistered flight only returns its reservation.
FinishFlight(r) ==
  /\ At(r, "finishing")
  /\ LET t == image[r].target
         q == IF Stores(r) = {} THEN lru ELSE <<CHOOSE e \in Stores(r) : TRUE>> \o Without(lru, t)
     IN /\ lru' = q
        /\ BytesAfter(q, t.site, -reserved[r])
        /\ leader' = Unregistered(r)
  /\ reserved' = [reserved EXCEPT ![r] = 0]
  /\ capturing' = capturing \ {r}
  /\ Step(r, [at |-> "done"])
  /\ UNCHANGED closedSites

\* The flights that close takes out of the table.
Grounded(s) == {t \in Target : t.site = s}

\* close: the entries go, the flights are unregistered, and the reservations of
\* those that capture already stay until they finish.
CloseImages(s) ==
  /\ s \notin closedSites
  /\ Event
  /\ closedSites' = closedSites \union {s}
  /\ LET grounded == {leader[t] : t \in Grounded(s)} \ {Nobody}
         returned == grounded \ capturing
         q == Kept(lru, {t \in Target : t.site # s})
     IN /\ lru' = q
        /\ reserved' = [r \in Request |-> IF r \in returned THEN 0 ELSE reserved[r]]
        /\ BytesAfter(q, s, -SumFunctionOnSet(reserved, returned))
        /\ leader' = [t \in Target |-> IF t \in Grounded(s) THEN Nobody ELSE leader[t]]
  /\ UNCHANGED <<image, capturing>>
=============================================================================
