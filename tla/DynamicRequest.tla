--------------------------- MODULE DynamicRequest ----------------------------
(* One HTTP request that uses the dynamic runtime: where it is, what it      *)
(* holds, and the steps its parts share. It reserves an authority and has it *)
(* resolved, mints the capability of a target, takes slots of the pools, and *)
(* lets go of what it holds when it ends.                                    *)
EXTENDS DynamicState, Sequences

CONSTANT Request

VARIABLE request  \* where each request is, and its locals

dynamicVars == <<stateVars, request>>

Nothing == "nothing"
ASSUME RequestAssumption == IsFiniteSet(Request) /\ Nothing \notin Authority

NoKey == [target |-> Nothing, depth |-> 0]

NothingLost == [lease |-> <<>>, stream |-> FALSE]

\* site    the site it is for
\* at      where the request is
\* doing   what it reserves an authority for
\* served  the capability it presented, NoToken for a request to the site
\* own     serve's reservation for the target of that capability
\* res     the reservation being resolved or connected
\* lease   dynamicAuthorityLease.reservations
\* stream, parse: the slots it holds; half: the pool it has only the runtime's of
\* key     what it mints a capability for; token: what it was given for it
\* minted  dynamicRewriteSession.minted; depth: that of the session
\* hops    redirects followed; urls: URLs discovered in the response
\* retried the second session of a PlaybackInfo response
\* commit  how it lets go of its reservations
\* lost    what it held when it forgot about it
Fresh(s) ==
  [site |-> s, at |-> "new", doing |-> Nothing, served |-> NoToken, own |-> Nothing,
   res |-> Nothing, lease |-> <<>>, stream |-> FALSE, parse |-> FALSE, half |-> Nothing,
   key |-> NoKey, token |-> NoToken, minted |-> <<>>, depth |-> 0,
   hops |-> 0, urls |-> 0, retried |-> FALSE, commit |-> FALSE,
   lost |-> NothingLost]

RequestInit == request \in [Request -> {Fresh(s) : s \in Site}]

Where(r, places) == request[r].at \in places

\* A request that lets go of the last thing it holds has ended: only what it
\* forgot about is left of it.
Done(q) ==
  /\ q.at = "ending" /\ ~q.parse /\ ~q.stream
  /\ q.res = Nothing /\ q.own = Nothing /\ q.lease = <<>>
Become(r, q) ==
  request' = [request EXCEPT ![r] = IF Done(q) THEN [Fresh(q.site) EXCEPT !.at = "ended", !.lost = q.lost] ELSE q]
Go(r, at) == Become(r, [request[r] EXCEPT !.at = at])
Ending(q, commit) == [q EXCEPT !.at = "ending", !.commit = commit]

\* The counts of what a sequence holds, as FinishAuthorities and Settle want them.
Count(q, x) == Cardinality({i \in DOMAIN q : q[i] = x})

\* A failure ends the request, or the session that rewrites its response; the
\* second session of a PlaybackInfo response leaves the URL as it was.
Failing(q) ==
  IF q.doing \notin {"rewrite", "borrow"} THEN Ending([q EXCEPT !.res = Nothing], FALSE)
  ELSE [q EXCEPT !.at = IF q.retried THEN "rewriting" ELSE "aborting", !.res = Nothing]

-----------------------------------------------------------------------------
(* reserveAuthority and resolve, for the target of the key.                  *)

\* A token that was borrowed has to be given back after a failure.
Denied(q) ==
  IF q.token = NoToken THEN Failing(q) ELSE [q EXCEPT !.at = "returning", !.res = Nothing]

\* Request r, now q, asks for it; the policy may deny the target, and a limit
\* be reached.
Reserve(r, q) ==
  LET s == request[r].site
      a == AuthorityOf[q.key.target]
  IN \/ /\ CanReserve(s, a)
        /\ ReserveAuthority(s, a)
        /\ Become(r, [q EXCEPT !.at = "resolving", !.res = a])
     \/ /\ Become(r, Denied(q))
        /\ UNCHANGED authorityVars

\* Where a request goes on once its authority is resolved.
Resolved(q) ==
  CASE q.doing \in {"rewrite", "mint"} -> [q EXCEPT !.at = "minting"]
    [] q.doing = "borrow"  -> [q EXCEPT !.at = "borrowed"]
    [] q.doing = "serve"   -> [q EXCEPT !.at = "admitted", !.own = q.res, !.res = Nothing]
    [] OTHER               -> [q EXCEPT !.at = q.doing]

\* The first request to wait asks the resolver for all; its answer is shared
\* until none of them has the authority reserved.
Resolve(r) ==
  LET q == request[r]
      s == request[r].site
      resolution == authorities[s][q.res].resolution
  IN /\ Where(r, {"resolving"})
     /\ resolution \in {"fresh", "known"}
     /\ authorities' = [authorities EXCEPT ![s][q.res].resolution = "known"]
     /\ Become(r, Resolved(q))
     /\ UNCHANGED <<open, known, newOf, newAll, book, issued, occupied>>

\* The resolver fails, or no worker of it is free: so do all who wait.
ResolverFails(r) ==
  LET q == request[r]
      s == request[r].site
  IN /\ Where(r, {"resolving"})
     /\ authorities[s][q.res].resolution = "fresh"
     /\ authorities' = [authorities EXCEPT ![s][q.res].resolution = "failed"]
     /\ UNCHANGED <<open, known, newOf, newAll, book, issued, occupied, request>>

\* The resolution failed, an address is not allowed, or the client went away:
\* the reservation is rolled back. A borrowed token is given back after it.
ResolveFails(r) ==
  LET q == request[r]
  IN /\ Where(r, {"resolving"})
     /\ FinishAuthorities(request[r].site, One(q.res), FALSE)
     /\ Become(r, Denied(q))
     /\ UNCHANGED <<open, book, issued, occupied>>

-----------------------------------------------------------------------------
(* mintValidatedResourceWithRequiredHeadersTracked, once the authority of    *)
(* the target is resolved, and mintTrustedValidatedWithRequiredHeaders-      *)
(* Tracked, which reserves none.                                             *)

\* The request has the token it asked for; a rewrite remembers it.
Given(q, t) ==
  IF q.doing = "mint" THEN [q EXCEPT !.at = "publishing", !.minted = <<t>>, !.token = NoToken]
  ELSE [q EXCEPT !.at = "rewriting", !.minted = Append(@, t), !.token = NoToken]

\* Mutant: the reservation that the token has no use for is never rolled back.
GivenAnothers_KeepsReservation(q, t) == [Given(q, t) EXCEPT !.res = Nothing]

\* With a reservation of its own that the token has no use for, it still has to
\* roll that back.
GivenAnothers(q, t) ==
  IF q.res = Nothing THEN Given(q, t) ELSE [q EXCEPT !.at = "undoing", !.token = t]

MintReuses(r) ==
  LET q == request[r]
      s == request[r].site
  IN /\ Where(r, {"minting"})
     /\ \E due \in BOOLEAN : \E t \in Reusable(Pruned(due), s, q.key) :
          /\ book' = Borrowed(Pruned(due), s, t)
          /\ Become(r, GivenAnothers(q, t))
     /\ UNCHANGED <<open, authorityVars, issued, occupied>>

MintFindsNone(r) ==
  LET q == request[r]
      s == request[r].site
  IN /\ Where(r, {"minting"})
     /\ \E due \in BOOLEAN :
          /\ Reusable(Pruned(due), s, q.key) = {}
          /\ book' = Unmapped(Pruned(due), s, q.key)
     /\ Go(r, "registering")
     /\ UNCHANGED <<open, authorityVars, issued, occupied>>

Refused(q) == IF q.res = Nothing THEN Failing(q) ELSE [q EXCEPT !.at = "refused"]

\* Mutant: the use of a token that another request just registered is not counted.
Joined_Uncounted(b, s, t) == b

\* The token that another request registered for the key meanwhile gains a use.
Joined(b, s, t) == Borrowed(b, s, t)

\* registerCapability: another request was first, or there is room for one more,
\* or a limit is reached (on the number of tokens or on the memory they take).
Register(r) ==
  LET q == request[r]
      s == request[r].site
  IN /\ Where(r, {"registering"})
     /\ \E due \in BOOLEAN :
          LET b == Pruned(due)
              others == TokenOf(b, s, q.key)
          IN \/ \E t \in others :
                  /\ book' = Joined(b, s, t)
                  /\ Become(r, GivenAnothers(q, t))
                  /\ UNCHANGED issued
             \/ /\ others = {} /\ HasRoom(b, s) /\ issued < MaxToken
                /\ issued' = issued + 1
                /\ book' = Added(b, s, q.key, issued + 1, q.res # Nothing)
                /\ Become(r, [Given(q, issued + 1) EXCEPT !.res = Nothing])
             \/ /\ others = {}
                /\ book' = b
                /\ Become(r, Refused(q))
                /\ UNCHANGED issued
     /\ UNCHANGED <<open, authorityVars, occupied>>

\* sealDynamicCapability fails.
SealFails(r) ==
  /\ Where(r, {"registering"})
  /\ Become(r, Refused(request[r]))
  /\ UNCHANGED stateVars

\* The request rolls back the reservation it did not need, or failed with.
MintUndoes(r) ==
  LET q == request[r]
  IN /\ Where(r, {"undoing", "refused"})
     /\ FinishAuthorities(request[r].site, One(q.res), FALSE)
     /\ Become(r, IF q.at = "refused" THEN Failing(q) ELSE [Given(q, q.token) EXCEPT !.res = Nothing])
     /\ UNCHANGED <<open, book, issued, occupied>>

-----------------------------------------------------------------------------
(* acquireStream and acquireParse: two channels, one after the other.        *)

\* Where a request goes on with the slot, and without it.
WithSlot(q, p) ==
  IF p = "parses" THEN [q EXCEPT !.at = "rewriting", !.parse = TRUE, !.half = Nothing]
  ELSE [q EXCEPT !.at = IF q.doing = "serve" THEN "answered" ELSE "connecting",
                 !.stream = TRUE, !.half = Nothing]
WithoutSlot(q) == [Ending(q, FALSE) EXCEPT !.half = Nothing]

TakeFirst(r, p, q) ==
  IF occupied[p].all < GlobalLimits[p]
    THEN Take(p) /\ Become(r, [q EXCEPT !.at = "taking", !.half = p])
    ELSE UNCHANGED occupied /\ Become(r, WithoutSlot(q))

TakeSecond(r) ==
  LET q == request[r]
      p == q.half
  IN /\ Where(r, {"taking"})
     /\ TakeOfSite(p, request[r].site)
     /\ Become(r, IF occupied[p].of[request[r].site] < SiteLimits[p] THEN WithSlot(q, p) ELSE WithoutSlot(q))
     /\ UNCHANGED <<open, authorityVars, book, issued>>

-----------------------------------------------------------------------------
(* The end of a request: it lets go of what it holds, one thing at a time.   *)
(* The parse ends with the rewrite. A failed redirect then rolls back the    *)
(* reservation it was connecting with. When the response is good, serve      *)
(* commits its own reservation before those of the lease; otherwise its      *)
(* deferred calls roll it back last.                                         *)

EndsWith(r, q) == Become(r, q) /\ UNCHANGED <<open, newOf, newAll, book, issued>>

ReleaseParse(r) ==
  /\ Where(r, {"ending"}) /\ request[r].parse
  /\ Release("parses", request[r].site)
  /\ UNCHANGED <<authorities, known>>
  /\ EndsWith(r, [request[r] EXCEPT !.parse = FALSE])

ReleaseReservation(r) ==
  LET q == request[r]
  IN /\ Where(r, {"ending"}) /\ ~q.parse /\ q.res # Nothing
     /\ FinishAuthorities(request[r].site, One(q.res), FALSE)
     /\ UNCHANGED occupied
     /\ EndsWith(r, [q EXCEPT !.res = Nothing])

ReleaseLease(r) ==
  LET q == request[r]
  IN /\ Where(r, {"ending"}) /\ ~q.parse /\ q.res = Nothing
     /\ q.commit => q.own = Nothing
     /\ q.lease # <<>>
     /\ FinishAuthorities(request[r].site, One(Head(q.lease)), q.commit)
     /\ UNCHANGED occupied
     /\ EndsWith(r, [q EXCEPT !.lease = Tail(@)])

ReleaseStream(r) ==
  LET q == request[r]
  IN /\ Where(r, {"ending"}) /\ ~q.parse /\ q.res = Nothing /\ q.lease = <<>>
     /\ q.commit => q.own = Nothing
     /\ q.stream
     /\ Release("streams", request[r].site)
     /\ UNCHANGED <<authorities, known>>
     /\ EndsWith(r, [q EXCEPT !.stream = FALSE])

ReleaseOwn(r) ==
  LET q == request[r]
  IN /\ Where(r, {"ending"}) /\ ~q.parse /\ q.res = Nothing /\ q.own # Nothing
     /\ ~q.commit => q.lease = <<>> /\ ~q.stream
     /\ FinishAuthorities(request[r].site, One(q.own), q.commit)
     /\ UNCHANGED occupied
     /\ EndsWith(r, [q EXCEPT !.own = Nothing])
=============================================================================
