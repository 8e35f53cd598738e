--------------------------- MODULE DynamicRuntime ----------------------------
(* Requests that share the dynamic runtime: a request to a site, whose       *)
(* redirects to unknown authorities are followed or turned into capability   *)
(* routes and whose structured responses are rewritten; and a request for a  *)
(* capability route, which is served from the discovered target. Capabilities *)
(* expire and sites close meanwhile.                                         *)
EXTENDS DynamicRewrite

CONSTANTS
  MaxRedirects,   \* DynamicProfileLimits.MaxRedirects
  OneWay,         \* TRUE: once a redirect was followed internally, every later
                  \* redirect of that response is; see Forget
  MaxEvent        \* bound on expiries, minutes, and sites closed or opened

ASSUME RuntimeAssumption == MaxRedirects \in Nat /\ OneWay \in BOOLEAN /\ MaxEvent \in Nat

VARIABLE events   \* how many of those have happened

vars == <<dynamicVars, events>>

Init == StateInit /\ RequestInit /\ events = 0

-----------------------------------------------------------------------------
(* redirectFollowTransport.roundTripDynamic, with the response at hand. A    *)
(* redirect to an authority the administrator configured changes nothing.    *)

\* The upstream of the site has answered a request, or the target of the
\* capability has.
Answered(r) == Where(r, {"answered"}) \/ (Where(r, {"new"}) /\ request[r].site \in open)

Redirected(r, t, doing) ==
  LET q == request[r]
  IN /\ Answered(r)
     /\ ~Trusted(t)
     /\ q.hops < MaxRedirects
     /\ Reserve(r, [q EXCEPT !.doing = doing, !.key = [target |-> t, depth |-> 0]])
     /\ UNCHANGED <<open, book, issued, occupied>>

\* A response that is not wrapped leaves the follower with nobody to release
\* the stream it took, and to finish the lease of the redirects before. Of the
\* capabilities only that of a resource may answer with a redirect.
Forget(q) ==
  LET own == q.served = NoToken /\ q.stream
      lost == [q EXCEPT !.lost = [lease |-> q.lease, stream |-> own], !.lease = <<>>, !.stream = @ /\ ~own]
  IN IF q.served # NoToken /\ q.depth = 0 THEN [lost EXCEPT !.at = "using"]
     ELSE Ending(lost, q.served = NoToken)
MayForget(r) == OneWay => request[r].lease = <<>>

\* The redirect is followed.
FollowRedirect(r, t) == Redirected(r, t, "follow")

\* The client is sent to the media itself (mainVideoDirect), or to the route of
\* a capability for it.
DirectRedirect(r, t) == MayForget(r) /\ Redirected(r, t, "direct")
MintRedirect(r, t) == MayForget(r) /\ Redirected(r, t, "mint")

\* mainVideoDirect, and the redirect leads to a configured authority.
HandBack(r) ==
  /\ Answered(r) /\ MayForget(r)
  /\ Become(r, Forget(request[r]))
  /\ UNCHANGED stateVars

\* An invalid location, a loop, too many hops, or a status not supported; or the
\* target of a capability did not answer.
RefuseAnswer(r) ==
  /\ Answered(r)
  /\ Become(r, Ending(request[r], FALSE))
  /\ UNCHANGED stateVars

\* The stream is taken with the first redirect; a capability holds one already.
StreamForRedirect(r) ==
  /\ Where(r, {"follow"})
  /\ IF request[r].stream THEN Go(r, "connecting") /\ UNCHANGED occupied
     ELSE TakeFirst(r, "streams", request[r])
  /\ UNCHANGED <<open, authorityVars, book, issued>>

Connect(r) ==
  LET q == request[r]
  IN /\ Where(r, {"connecting"})
     /\ Become(r, [q EXCEPT !.at = "answered", !.lease = Append(@, q.res), !.res = Nothing, !.hops = @ + 1])
     /\ UNCHANGED stateVars

ConnectFails(r) ==
  /\ Where(r, {"connecting"})
  /\ Become(r, Ending(request[r], FALSE))
  /\ UNCHANGED stateVars

CommitDirect(r) ==
  LET q == request[r]
  IN /\ Where(r, {"direct"})
     /\ FinishAuthorities(request[r].site, One(q.res), TRUE)
     /\ Become(r, Forget([q EXCEPT !.res = Nothing]))
     /\ UNCHANGED <<open, book, issued, occupied>>

\* mint publishes the token of the redirect by itself.
PublishRedirect(r) ==
  LET q == request[r]
      s == request[r].site
      after == [q EXCEPT !.minted = <<>>]
  IN /\ Where(r, {"publishing"})
     /\ Settle(s, Uses(q), TRUE)
     /\ Become(r, IF Settles(s, Uses(q), TRUE) THEN Forget(after) ELSE Ending(after, FALSE))
     /\ UNCHANGED <<open, issued, occupied>>

Follows(r) ==
  \/ HandBack(r) \/ RefuseAnswer(r) \/ StreamForRedirect(r) \/ Connect(r) \/ ConnectFails(r)
  \/ CommitDirect(r) \/ PublishRedirect(r)
  \/ \E t \in Target : FollowRedirect(r, t) \/ DirectRedirect(r, t) \/ MintRedirect(r, t)

-----------------------------------------------------------------------------
(* ModifyResponse, for a request to the site.                                *)

\* What is not a redirect: a document to rewrite, or anything else, whose
\* authorities are committed unless its status is an error.
ReceiveDocument(r) ==
  /\ Answered(r)
  /\ request[r].served = NoToken \/ request[r].depth > 0
  /\ RewriteStarts(r)

Receive(r, good) ==
  /\ Answered(r)
  /\ request[r].served = NoToken
  /\ Become(r, Ending(request[r], good))
  /\ UNCHANGED stateVars

-----------------------------------------------------------------------------
(* dynamicCapabilityIssuer.serve: the client presents a token.               *)

\* hasCapability. The claims are sealed in the token: they outlive the entry.
Present(r, t) ==
  LET s == request[r].site
  IN /\ Where(r, {"new"})
     /\ s \in open
     /\ t <= issued
     /\ \E due \in BOOLEAN :
          LET b == Pruned(due)
          IN /\ book' = LookedUp(b, s, t)
             /\ \/ /\ Usable(b, s, t)
                   /\ LET q == [request[r] EXCEPT !.doing = "serve", !.served = t,
                                 !.key = Entry(b, s, t).key, !.depth = Entry(b, s, t).key.depth]
                      IN Become(r, [q EXCEPT !.at = IF Trusted(q.key.target) THEN "admitted" ELSE "presented"])
                \/ ~Usable(b, s, t) /\ Become(r, Ending(request[r], FALSE))
     /\ UNCHANGED <<open, authorityVars, issued, occupied>>

ReservePresented(r) ==
  /\ Where(r, {"presented"})
  /\ Reserve(r, request[r])
  /\ UNCHANGED <<open, book, issued, occupied>>

\* Either the client is sent to the media itself, or a stream is taken for it.
Admit(r) ==
  /\ Where(r, {"admitted"})
  /\ \/ Go(r, "using") /\ UNCHANGED occupied
     \/ TakeFirst(r, "streams", request[r])
  /\ UNCHANGED <<open, authorityVars, book, issued>>

\* useCapability: a good answer is worth nothing once the token has expired.
Use(r) ==
  LET q == request[r]
      s == request[r].site
  IN /\ Where(r, {"using"}) \/ (Where(r, {"answered"}) /\ q.served # NoToken /\ q.depth = 0)
     /\ \E due \in BOOLEAN :
          /\ book' = LookedUp(Pruned(due), s, q.served)
          /\ Become(r, Ending(q, Usable(Pruned(due), s, q.served)))
     /\ UNCHANGED <<open, authorityVars, issued, occupied>>

Serves(r) ==
  \/ ReservePresented(r) \/ Admit(r) \/ Use(r)
  \/ \E t \in Token : Present(r, t)

-----------------------------------------------------------------------------
(* What happens meanwhile. A site closes its state when its requests are     *)
(* drained.                                                                  *)

Event(step) ==
  /\ events < MaxEvent
  /\ events' = events + 1
  /\ step
  /\ UNCHANGED request

Drained(s) == \A r \in Request : request[r].site = s => Where(r, {"new", "ended"})

Expires == \E s \in Site, t \in Token : Event(Expire(s, t))
Minute == Event(MinutePasses /\ UNCHANGED <<open, book, issued, occupied>>)
Closes == \E s \in Site : Drained(s) /\ Event(CloseState(s))
Opens == \E s \in Site : Event(OpenState(s))

Mints(r) == MintReuses(r) \/ MintFindsNone(r) \/ Register(r) \/ SealFails(r) \/ MintUndoes(r)
Resolves(r) == Resolve(r) \/ ResolverFails(r) \/ ResolveFails(r)
LetsGo(r) ==
  \/ ReleaseParse(r) \/ ReleaseReservation(r) \/ ReleaseLease(r) \/ ReleaseStream(r)
  \/ ReleaseOwn(r)

Steps(r) ==
  /\ \/ ReceiveDocument(r) \/ (\E good \in BOOLEAN : Receive(r, good)) \/ TakeSecond(r)
     \/ Follows(r) \/ Serves(r) \/ Rewrites(r) \/ Mints(r) \/ Resolves(r) \/ LetsGo(r)
  /\ UNCHANGED events

Next == (\E r \in Request : Steps(r)) \/ Expires \/ Minute \/ Closes \/ Opens

Spec == Init /\ [][Next]_vars

-----------------------------------------------------------------------------
(* Properties.                                                               *)

TypeOK ==
  /\ open \subseteq Site
  /\ \A s \in Site :
       /\ DOMAIN authorities[s] \subseteq Authority
       /\ DOMAIN book.entries[s] \subseteq 1..issued
       /\ DOMAIN book.index[s] \subseteq Key
  /\ known \in [Authority -> Nat]
  /\ \A p \in Pool : occupied[p] \in [all : Nat, of : [Site -> Nat]]

\* The reservations of site s for authority a that nobody has finished: those
\* of the requests, forgotten ones included, and those of provisional tokens.
HeldOf(q, a) == One(q.own)[a] + One(q.res)[a] + Count(q.lease, a)
Reserved(s, a) ==
  SumFunction([r \in {x \in Request : request[x].site = s} |->
                 HeldOf(request[r], a) + Count(request[r].lost.lease, a)])
    + HeldBy(book, s, DOMAIN book.entries[s])[a]

\* An authority is kept exactly while somebody has it reserved or it was
\* committed, its reservations are counted exactly, and the runtime counts the
\* sites that know it (reserveAuthority, finishLocked, close): neither limit is
\* ever spent on an authority that nobody uses.
AuthoritiesCounted ==
  /\ \A s \in open, a \in Authority :
       IF IsKnown(s, a)
         THEN /\ authorities[s][a].inFlight = Reserved(s, a)
              /\ authorities[s][a].inFlight > 0 \/ authorities[s][a].committed
              /\ authorities[s][a].inFlight = 0 <=> authorities[s][a].resolution = "none"
         ELSE Reserved(s, a) = 0
  /\ \A a \in Authority : known[a] = Cardinality({s \in Site : IsKnown(s, a)})

\* The uses of token t by the requests of site s that have not settled it.
UsedBy(q, t) == Count(q.minted, t) + OneUse(q.token)[t]
UsesOf(s, t) ==
  SumFunction([r \in {x \in Request : request[x].site = s} |-> UsedBy(request[r], t)])

\* A token stays while any request rewrites with it, however the others end
\* (settleCapabilities and deleteCapabilityLocked count the provisional uses of
\* it), and the index and the totals follow the entries.
UsesCounted ==
  /\ \A s \in open, t \in Token :
       IF Registered(book, s, t) THEN Entry(book, s, t).pending = UsesOf(s, t) ELSE UsesOf(s, t) = 0
  /\ \A s \in Site : \A k \in DOMAIN book.index[s] :
       Registered(book, s, book.index[s][k]) /\ Entry(book, s, book.index[s][k]).key = k
  /\ book.active = Cardinality({x \in Site \X Token : x[2] \in DOMAIN book.entries[x[1]]})

\* A client is only ever given tokens whose authority is committed; until then
\* the token itself keeps the authority reserved, and somebody works with it.
PublishedIsCommitted ==
  \A s \in open : \A t \in DOMAIN book.entries[s] :
    LET e == Entry(book, s, t)
        a == AuthorityOf[e.key.target]
    IN IF e.published THEN ~e.holds /\ (~Trusted(e.key.target) => IsKnown(s, a) /\ authorities[s][a].committed)
       ELSE e.pending > 0 /\ e.holds = ~Trusted(e.key.target)

\* A request that has ended holds no stream and no reservation, and the pools
\* count the slots that requests do hold: a limit that is reached is given
\* back (acquireStream, acquireParse and every path that returns).
EverythingReturned ==
  /\ \A r \in Request : request[r].lost = NothingLost
  /\ \A s \in open :
       /\ occupied["streams"].of[s] = Cardinality({r \in Request : request[r].site = s /\ request[r].stream})
       /\ occupied["parses"].of[s] = Cardinality({r \in Request : request[r].site = s /\ request[r].parse})
  /\ \A p \in Pool : occupied[p].all = Cardinality({r \in Request :
       \/ request[r].half = p
       \/ IF p = "streams" THEN request[r].stream ELSE request[r].parse})

\* A route that a client was given keeps working until it expires or its site
\* closes, whatever rewrites that share its token end in.
RoutesKeepWorking ==
  [][book' # book => \A s \in open' : \A t \in DOMAIN book.entries[s] :
       Usable(book, s, t) => Registered(book', s, t) /\ Entry(book', s, t).published]_vars
=============================================================================
