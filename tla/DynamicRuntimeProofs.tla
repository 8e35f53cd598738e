------------------------- MODULE DynamicRuntimeProofs -------------------------
(* Proofs about DynamicRuntime, for any finite sets of sites and requests,   *)
(* any authorities and targets, and any limits and bounds.                   *)
EXTENDS DynamicRuntime, SumTheorems, FunctionTheorems, TLAPS

-----------------------------------------------------------------------------
(* What a request may hold, by where it is.                                  *)

Places == {"new", "ended", "ending", "resolving", "minting", "registering", "undoing", "refused",
           "returning", "taking", "follow", "connecting", "answered", "direct", "publishing",
           "presented", "admitted", "using", "rewriting", "looking", "borrowing", "borrowed",
           "aborting", "committing"}
Doings == {Nothing, "follow", "direct", "mint", "serve", "rewrite", "borrow"}
SomeToken == Token \union {NoToken}
SomeAuthority == Authority \union {Nothing}

RequestRecord ==
  [site : Site, at : Places, doing : Doings, served : SomeToken, own : SomeAuthority,
   res : SomeAuthority, lease : Seq(Authority), stream : BOOLEAN, parse : BOOLEAN,
   half : Pool \union {Nothing}, key : [target : Target \union {Nothing}, depth : Nat],
   token : SomeToken, minted : Seq(Token), depth : 0..MaxDepth, hops : Nat, urls : Nat,
   retried : BOOLEAN, commit : BOOLEAN, lost : [lease : Seq(Authority), stream : BOOLEAN]]

\* Where a request is in the middle of a rewrite.
Rewriting == {"rewriting", "looking", "borrowing", "borrowed", "returning", "aborting", "committing"}
\* Where it has a capability minted.
Minting == {"minting", "registering", "undoing", "refused"}
Idling == {"new", "ended"}

\* It holds a reservation for the authority it is about, and only where it
\* works with it.
ReservationFits(q) ==
  /\ q.at \in {"resolving", "follow", "connecting", "direct", "undoing", "refused", "borrowed"} =>
       q.res # Nothing
  /\ q.at \in Idling \union {"answered", "publishing", "presented", "admitted", "using", "rewriting",
               "looking", "borrowing", "returning", "aborting", "committing"} => q.res = Nothing
  /\ q.at \in {"resolving", "minting", "registering", "looking", "borrowing", "presented"} => q.key \in Key
  /\ q.at \in {"resolving", "borrowing", "presented"} => ~Trusted(q.key.target)
  /\ q.at = "resolving" => q.res = AuthorityOf[q.key.target]
  /\ q.at \in {"minting", "registering"} =>
       q.res = IF Trusted(q.key.target) THEN Nothing ELSE AuthorityOf[q.key.target]
  /\ q.at = "looking" => q.key.depth \in 1..q.depth
  /\ q.at = "taking" => (q.res # Nothing <=> q.doing = "follow")

\* What it is at fits what it is doing.
DoingFits(q) ==
  /\ q.at \in Rewriting => q.doing \in {"rewrite", "borrow"}
  /\ q.at \in {"borrowing", "borrowed", "returning"} => q.doing = "borrow"
  /\ q.at \in Minting => q.doing \in {"rewrite", "mint"}
  /\ q.at = "publishing" => q.doing = "mint"
  /\ q.at = "follow" => q.doing = "follow"
  /\ q.at = "direct" => q.doing = "direct"
  /\ q.at \in {"presented", "admitted"} => q.doing = "serve"
  /\ q.at = "answered" => q.doing \in {"serve", "follow"}
  /\ q.at = "connecting" => q.doing = "follow"
  /\ q.at = "resolving" => q.doing # Nothing
  /\ q.at = "taking" => q.doing \in {"serve", "follow", "rewrite"}
  /\ q.doing = "serve" \/ q.at = "using" => q.served # NoToken

\* Its uses of tokens.
TokensFit(q) ==
  /\ q.token # NoToken <=> q.at \in {"borrowing", "borrowed", "returning", "undoing"}
                             \/ (q.at = "resolving" /\ q.doing = "borrow")
  /\ q.minted # <<>> => q.at = "publishing" \/ (q.at \in Rewriting \union Minting \union {"resolving"}
                                                 /\ q.doing \in {"rewrite", "borrow"})

\* The slots it holds, and the reservation of serve.
SlotsFit(q) ==
  /\ q.half # Nothing <=> q.at = "taking"
  /\ q.at = "taking" => (q.half = "parses" <=> q.doing = "rewrite")
  /\ q.half = "parses" => ~q.parse
  /\ q.half = "streams" => ~q.stream
  /\ q.parse => q.doing \in {"rewrite", "borrow"}
  /\ q.at \in Idling => ~q.stream /\ q.own = Nothing /\ q.lease = <<>> /\ q.doing = Nothing
  /\ q.at = "new" => q.served = NoToken /\ q.lost = NothingLost
  /\ q.at \in {"presented", "admitted"} \/ (q.at = "resolving" /\ q.doing = "serve") => ~q.stream
  /\ q.at = "presented" \/ (q.at = "resolving" /\ q.doing = "serve") => q.own = Nothing

\* What keeps a request from forgetting anything: it holds no stream of its own
\* without a lease, and a redirect that is not followed finds it without one.
ForgetsNothing(q) ==
  /\ q.at \in {"new", "answered"} /\ q.lease = <<>> /\ q.served = NoToken => ~q.stream
  /\ OneWay /\ q.doing \in {"direct", "mint"} /\ q.at # "ending" /\ q.at # "using" =>
       q.lease = <<>> /\ (q.served = NoToken => ~q.stream)
  /\ OneWay => q.lost = NothingLost

Fits(q) == ReservationFits(q) /\ DoingFits(q) /\ TokensFit(q) /\ SlotsFit(q) /\ ForgetsNothing(q)

RequestsFit ==
  /\ request \in [Request -> RequestRecord]
  /\ \A r \in Request : Fits(request[r])
  /\ \A r \in Request : request[r].at \notin Idling => request[r].site \in open

-----------------------------------------------------------------------------
(* The book.                                                                 *)

EntryRecord == [key : Key, pending : Nat, published : BOOLEAN, expired : BOOLEAN, holds : BOOLEAN]

BookTyped(b, n) ==
  /\ DOMAIN b.entries = Site /\ DOMAIN b.index = Site
  /\ b = [entries |-> b.entries, index |-> b.index, active |-> b.active]
  /\ b.active \in Nat
  /\ \A s \in Site :
       /\ DOMAIN b.entries[s] \subseteq 1..n
       /\ \A t \in DOMAIN b.entries[s] : b.entries[s][t] \in EntryRecord
       /\ DOMAIN b.index[s] \subseteq Key

IndexFits(b) ==
  \A s \in Site : \A k \in DOMAIN b.index[s] :
    Registered(b, s, b.index[s][k]) /\ Entry(b, s, b.index[s][k]).key = k

PairsOf(b) == {x \in Site \X Token : x[2] \in DOMAIN b.entries[x[1]]}
ActiveFits(b) == b.active = Cardinality(PairsOf(b))

PendingFits(b, uses) ==
  \A s \in Site, t \in Token :
    IF Registered(b, s, t) THEN Entry(b, s, t).pending = uses[s][t] ELSE uses[s][t] = 0

\* A provisional token is in use and, unless it is for a configured target,
\* has a reservation; a published one has none.
HoldsFit(b) ==
  \A s \in Site : \A t \in DOMAIN b.entries[s] :
    IF Entry(b, s, t).published THEN ~Entry(b, s, t).holds
    ELSE Entry(b, s, t).pending > 0 /\ (Entry(b, s, t).holds = ~Trusted(Entry(b, s, t).key.target))

BookFits(b, n, uses) ==
  /\ BookTyped(b, n) /\ IndexFits(b) /\ ActiveFits(b) /\ PendingFits(b, uses) /\ HoldsFit(b)

UsesTable == [s \in Site |-> [t \in Token |-> UsesOf(s, t)]]

-----------------------------------------------------------------------------
(* The authorities.                                                          *)

AuthorityEntry == [committed : BOOLEAN, inFlight : Nat, resolution : {"none", "fresh", "known", "failed"}]

AuthoritiesTyped ==
  /\ DOMAIN authorities = Site
  /\ \A s \in Site :
       /\ DOMAIN authorities[s] \subseteq Authority
       /\ \A a \in DOMAIN authorities[s] : authorities[s][a] \in AuthorityEntry
  /\ known \in [Authority -> Nat]
  /\ newOf \in [Site -> Nat] /\ newAll \in Nat

\* n covers what there is to count, and is exact when nothing is forgotten.
Covers(n, m) == n >= m /\ (OneWay => n = m)

InFlightFits(held) ==
  \A s \in Site, a \in Authority :
    IF IsKnown(s, a)
      THEN /\ Covers(authorities[s][a].inFlight, held[s][a])
           /\ authorities[s][a].inFlight > 0 \/ authorities[s][a].committed
           /\ authorities[s][a].inFlight = 0 <=> authorities[s][a].resolution = "none"
      ELSE held[s][a] = 0

KnownFits == \A a \in Authority : known[a] = Cardinality({s \in Site : IsKnown(s, a)})

LiveIn(s, a) == SumFunction([r \in {x \in Request : request[x].site = s} |-> HeldOf(request[r], a)])
HeldTable ==
  [s \in Site |-> [a \in Authority |-> LiveIn(s, a) + HeldBy(book, s, DOMAIN book.entries[s])[a]]]

\* A client is only given tokens of authorities that are committed.
CommittedFits ==
  \A s \in Site : \A t \in DOMAIN book.entries[s] :
    Entry(book, s, t).published /\ ~Trusted(Entry(book, s, t).key.target) =>
      LET a == AuthorityOf[Entry(book, s, t).key.target]
      IN IsKnown(s, a) /\ authorities[s][a].committed

AuthoritiesFit == AuthoritiesTyped /\ InFlightFits(HeldTable) /\ KnownFits

\* A closed site has no entries.
ClosedFits ==
  \A s \in Site \ open : DOMAIN authorities[s] = {} /\ DOMAIN book.entries[s] = {}

-----------------------------------------------------------------------------
(* The pools.                                                                *)

Holds(q, p) == IF p = "streams" THEN q.stream ELSE q.parse
HoldersOf(p, s) == {r \in Request : request[r].site = s /\ Holds(request[r], p)}
HoldersIn(p) == {r \in Request : request[r].half = p \/ Holds(request[r], p)}

PoolsFit ==
  \A p \in Pool :
    /\ occupied[p] \in [all : Nat, of : [Site -> Nat]]
    /\ Covers(occupied[p].all, Cardinality(HoldersIn(p)))
    /\ \A s \in Site : Covers(occupied[p].of[s], Cardinality(HoldersOf(p, s)))

IInv ==
  /\ open \subseteq Site /\ issued \in 0..MaxToken /\ events \in Nat
  /\ DOMAIN occupied = Pool
  /\ RequestsFit /\ BookFits(book, issued, UsesTable) /\ AuthoritiesFit /\ CommittedFits
  /\ ClosedFits /\ PoolsFit

-----------------------------------------------------------------------------
(* Counting.                                                                 *)

LEMMA CountOfNone == ASSUME NEW x PROVE Count(<<>>, x) = 0
<1>1. {i \in DOMAIN <<>> : <<>>[i] = x} = {}
  OBVIOUS
<1> QED
  BY <1>1, FS_EmptySet DEF Count

LEMMA CountIsFinite ==
  ASSUME NEW S, NEW q \in Seq(S), NEW x
  PROVE  IsFiniteSet({i \in DOMAIN q : q[i] = x}) /\ Count(q, x) \in Nat
<1>1. IsFiniteSet(1..Len(q)) /\ DOMAIN q = 1..Len(q)
  BY FS_Interval
<1>2. IsFiniteSet({i \in DOMAIN q : q[i] = x})
  BY <1>1, FS_Subset
<1> QED
  BY <1>2, FS_CardinalityType DEF Count

LEMMA CountOfMore ==
  ASSUME NEW S, NEW q \in Seq(S), NEW y \in S, NEW x
  PROVE  /\ x = y => Count(Append(q, y), x) = Count(q, x) + 1
         /\ x # y => Count(Append(q, y), x) = Count(q, x)
<1> DEFINE n == Len(q)
           p == Append(q, y)
           A == {i \in DOMAIN q : q[i] = x}
           B == {i \in DOMAIN p : p[i] = x}
<1>1. n \in Nat /\ DOMAIN q = 1..n /\ DOMAIN p = 1..(n + 1) /\ p[n + 1] = y
      /\ \A i \in 1..n : p[i] = q[i]
  OBVIOUS
<1>2. IsFiniteSet(A) /\ Count(q, x) = Cardinality(A) /\ Count(p, x) = Cardinality(B)
  BY CountIsFinite DEF Count
<1>3. CASE x = y
  <2>1. B = A \union {n + 1} /\ (n + 1) \notin A
    BY <1>1, <1>3
  <2> QED
    BY ZenonT(60), <2>1, <1>2, <1>3, FS_AddElement, FS_CardinalityType
<1>4. CASE x # y
  <2>1. B = A
    BY <1>1, <1>4
  <2> QED
    BY <2>1, <1>2, <1>4
<1> QED
  BY <1>3, <1>4

LEMMA CountOfLess ==
  ASSUME NEW S, NEW q \in Seq(S), q # <<>>, NEW x
  PROVE  /\ x = Head(q) => Count(q, x) = Count(Tail(q), x) + 1
         /\ x # Head(q) => Count(q, x) = Count(Tail(q), x)
<1> DEFINE n == Len(q)
           p == Tail(q)
           A == {i \in DOMAIN q : q[i] = x}
           B == {i \in DOMAIN p : p[i] = x}
           C == {i \in 2..n : q[i] = x}
           f == [i \in B |-> i + 1]
<1>1. n \in Nat /\ n >= 1 /\ DOMAIN q = 1..n /\ p \in Seq(S) /\ DOMAIN p = 1..(n - 1) /\ Head(q) = q[1]
      /\ \A i \in 1..(n - 1) : p[i] = q[i + 1]
  OBVIOUS
<1>2. IsFiniteSet(A) /\ IsFiniteSet(B) /\ Count(q, x) = Cardinality(A) /\ Count(p, x) = Cardinality(B)
  BY <1>1, CountIsFinite DEF Count
<1>3. f \in Bijection(B, C)
  <2>1. \A i \in B : f[i] \in C
    BY <1>1
  <2>2. \A i, j \in B : f[i] = f[j] => i = j
    BY <1>1
  <2>3. \A k \in C : k - 1 \in B /\ f[k - 1] = k
    BY <1>1
  <2>4. f \in [B -> C]
    BY <2>1
  <2> HIDE DEF f, B, C
  <2>5. \A k \in C : \E i \in B : f[i] = k
    BY <2>3
  <2> QED
    BY <2>2, <2>4, <2>5, Fun_IsBij
<1>4. IsFiniteSet(C) /\ Cardinality(C) = Cardinality(B)
  <2>1. C \subseteq A
    BY <1>1
  <2>2. IsFiniteSet(C)
    BY <2>1, <1>2, FS_Subset
  <2> QED
    BY ZenonT(60), <2>2, <1>2, <1>3, FS_Bijection DEF ExistsBijection
<1>5. ASSUME x = Head(q) PROVE Count(q, x) = Count(Tail(q), x) + 1
  <2>1. A = C \union {1} /\ 1 \notin C
    BY <1>1, <1>5
  <2>2. Cardinality(C \union {1}) = Cardinality(C) + 1
    BY <2>1, <1>4, FS_AddElement
  <2> HIDE DEF A, B, C, p
  <2>3. Cardinality(A) = Cardinality(B) + 1 /\ Count(p, x) = Cardinality(B)
    BY <2>1, <2>2, <1>2, <1>4
  <2> QED
    BY <2>3, <1>2 DEF p
<1>6. ASSUME x # Head(q) PROVE Count(q, x) = Count(Tail(q), x)
  <2>1. A = C
    BY <1>1, <1>6
  <2> QED
    BY <2>1, <1>2, <1>4
<1> QED
  BY <1>5, <1>6

\* One term of a total changes.
LEMMA TotalMoves ==
  ASSUME NEW S, IsFiniteSet(S), NEW f, NEW g, DOMAIN f = S, DOMAIN g = S, NEW r \in S,
         \A x \in S : f[x] \in Nat /\ g[x] \in Nat, \A x \in S \ {r} : g[x] = f[x]
  PROVE  /\ SumFunction(f) \in Nat /\ SumFunction(g) \in Nat
         /\ f[r] <= SumFunction(f)
         /\ SumFunction(g) + f[r] = SumFunction(f) + g[r]
<1>1. SumFunction(f) = SumFunctionOnSet(f, S) /\ SumFunction(g) = SumFunctionOnSet(g, S)
  BY SumOverDomain
<1>2. SumFunctionOnSet(f, S) \in Nat /\ SumFunctionOnSet(g, S) \in Nat
  BY SumIsNatural
<1>3. SumFunctionOnSet(g, S) + f[r] = SumFunctionOnSet(f, S) + g[r]
  BY SumChanges
<1>4. f[r] <= SumFunctionOnSet(f, S)
  BY SumCovers
<1> QED
  BY <1>1, <1>2, <1>3, <1>4

LEMMA TotalOfZeros ==
  ASSUME NEW S, IsFiniteSet(S), NEW f, DOMAIN f = S, \A x \in S : f[x] = 0
  PROVE  SumFunction(f) = 0
BY SumOverDomain, SumOfZeros

\* One element of a set changes.
LEMMA SetMoves ==
  ASSUME NEW A, IsFiniteSet(A), NEW r
  PROVE  /\ Cardinality(A) \in Nat
         /\ r \notin A => Cardinality(A \union {r}) = Cardinality(A) + 1
         /\ r \in A => Cardinality(A \ {r}) = Cardinality(A) - 1 /\ Cardinality(A) >= 1
<1>1. r \in A => Cardinality(A \ {r}) \in Nat /\ Cardinality(A \ {r}) = Cardinality(A) - 1
  BY FS_RemoveElement, FS_CardinalityType
<1> QED
  BY <1>1, FS_AddElement, FS_CardinalityType

-----------------------------------------------------------------------------
(* What one request holds, and all of a site together.                       *)

LEMMA RecordFacts ==
  ASSUME NEW q \in RequestRecord
  PROVE  /\ q.site \in Site /\ q.at \in Places /\ q.doing \in Doings /\ q.served \in SomeToken
         /\ q.own \in SomeAuthority /\ q.res \in SomeAuthority
         /\ q.lease \in Seq(Authority) /\ q.stream \in BOOLEAN /\ q.parse \in BOOLEAN
         /\ q.half \in Pool \union {Nothing} /\ q.token \in SomeToken /\ q.minted \in Seq(Token)
         /\ q.depth \in 0..MaxDepth /\ q.hops \in Nat /\ q.urls \in Nat
         /\ q.lost.lease \in Seq(Authority)
BY DEF RequestRecord

LEMMA TermsTyped ==
  ASSUME NEW q \in RequestRecord
  PROVE  /\ \A a \in Authority : HeldOf(q, a) \in Nat
         /\ \A t \in Token : UsedBy(q, t) \in Nat
<1>1. ASSUME NEW a \in Authority PROVE HeldOf(q, a) \in Nat
  <2>1. Count(q.lease, a) \in Nat
    BY RecordFacts, CountIsFinite
  <2>2. One(q.own)[a] \in {0, 1} /\ One(q.res)[a] \in {0, 1}
    BY DEF One
  <2> QED
    BY <2>1, <2>2 DEF HeldOf
<1>2. ASSUME NEW t \in Token PROVE UsedBy(q, t) \in Nat
  <2>1. Count(q.minted, t) \in Nat
    BY RecordFacts, CountIsFinite
  <2>2. OneUse(q.token)[t] \in {0, 1}
    BY DEF OneUse
  <2> QED
    BY <2>1, <2>2 DEF UsedBy
<1> QED
  BY <1>1, <1>2

Peers(s) == {x \in Request : request[x].site = s}

\* Request r becomes p, for the same site.
Replaces(r, p) ==
  /\ request \in [Request -> RequestRecord] /\ p \in RequestRecord
  /\ p.site = request[r].site
  /\ request' = [request EXCEPT ![r] = p]

LEMMA PeersStay ==
  ASSUME NEW r \in Request, NEW p, Replaces(r, p), NEW s
  PROVE  /\ Peers(s)' = Peers(s) /\ IsFiniteSet(Peers(s))
         /\ r \in Peers(s) <=> s = p.site
         /\ request'[r] = p /\ \A x \in Request \ {r} : request'[x] = request[x]
         /\ request' \in [Request -> RequestRecord]
<1>1. request'[r] = p /\ \A x \in Request \ {r} : request'[x] = request[x]
  BY DEF Replaces
<1>2. \A x \in Request : request'[x].site = request[x].site
  BY <1>1 DEF Replaces
<1>3. Peers(s)' = Peers(s)
  BY <1>2 DEF Peers
<1>4. Peers(s) \subseteq Request
  BY DEF Peers
<1>5. IsFiniteSet(Peers(s))
  BY ONLY <1>4, RequestAssumption, FS_Subset
<1>6. r \in Peers(s) <=> s = p.site
  BY DEF Peers, Replaces
<1>7. request' \in [Request -> RequestRecord]
  BY DEF Replaces
<1> QED
  BY <1>1, <1>3, <1>5, <1>6, <1>7

LEMMA LiveMoves ==
  ASSUME NEW r \in Request, NEW p, Replaces(r, p), NEW s, NEW a \in Authority
  PROVE  /\ LiveIn(s, a) \in Nat /\ LiveIn(s, a)' \in Nat
         /\ s = p.site => /\ LiveIn(s, a)' + HeldOf(request[r], a) = LiveIn(s, a) + HeldOf(p, a)
                          /\ HeldOf(request[r], a) <= LiveIn(s, a)
         /\ s # p.site => LiveIn(s, a)' = LiveIn(s, a)
<1> DEFINE S == Peers(s)
           f == [x \in S |-> HeldOf(request[x], a)]
           g == [x \in S |-> HeldOf(request'[x], a)]
<1>1. LiveIn(s, a) = SumFunction(f)
  BY DEF LiveIn, Peers
<1>2. LiveIn(s, a)' = SumFunction(g)
  <2>1. LiveIn(s, a)' = SumFunction([x \in Peers(s)' |-> HeldOf(request'[x], a)])
    BY DEF LiveIn, Peers
  <2> QED
    BY <2>1, PeersStay
<1>3. DOMAIN f = S /\ DOMAIN g = S /\ IsFiniteSet(S) /\ S \subseteq Request
  <2>1. IsFiniteSet(Peers(s))
    BY PeersStay
  <2> QED
    BY <2>1 DEF Peers
<1>4. \A x \in S : f[x] \in Nat /\ g[x] \in Nat
  <2>1. \A x \in Request : request[x] \in RequestRecord /\ request'[x] \in RequestRecord
    BY PeersStay DEF Replaces
  <2> QED
    BY <2>1, <1>3, TermsTyped
<1>5. \A x \in S \ {r} : g[x] = f[x]
  BY <1>3, PeersStay
<1>6. r \in S => f[r] = HeldOf(request[r], a) /\ g[r] = HeldOf(p, a)
  BY PeersStay
<1>7. r \in S <=> s = p.site
  BY PeersStay
<1> HIDE DEF f, g, S
<1>8. CASE r \in S
  <2>1. /\ SumFunction(f) \in Nat /\ SumFunction(g) \in Nat
        /\ f[r] <= SumFunction(f)
        /\ SumFunction(g) + f[r] = SumFunction(f) + g[r]
    BY <1>3, <1>4, <1>5, <1>8, TotalMoves
  <2> QED
    BY <2>1, <1>1, <1>2, <1>6, <1>7, <1>8
<1>9. CASE r \notin S
  <2>1. g = f
    <3>1. \A x \in S : g[x] = f[x]
      BY <1>5, <1>9
    <3> QED
      BY <3>1, <1>3 DEF f, g
  <2>2. SumFunction(f) \in Nat
    BY <1>3, <1>4, SumIsNatural, SumOverDomain
  <2> QED
    BY <2>1, <2>2, <1>1, <1>2, <1>7, <1>9
<1> QED
  BY <1>8, <1>9

LEMMA UsesMove ==
  ASSUME NEW r \in Request, NEW p, Replaces(r, p), NEW s, NEW t \in Token
  PROVE  /\ UsesOf(s, t) \in Nat /\ UsesOf(s, t)' \in Nat
         /\ s = p.site => /\ UsesOf(s, t)' + UsedBy(request[r], t) = UsesOf(s, t) + UsedBy(p, t)
                          /\ UsedBy(request[r], t) <= UsesOf(s, t)
         /\ s # p.site => UsesOf(s, t)' = UsesOf(s, t)
<1> DEFINE S == Peers(s)
           f == [x \in S |-> UsedBy(request[x], t)]
           g == [x \in S |-> UsedBy(request'[x], t)]
<1>1. UsesOf(s, t) = SumFunction(f)
  BY DEF UsesOf, Peers
<1>2. UsesOf(s, t)' = SumFunction(g)
  <2>1. UsesOf(s, t)' = SumFunction([x \in Peers(s)' |-> UsedBy(request'[x], t)])
    BY DEF UsesOf, Peers
  <2> QED
    BY <2>1, PeersStay
<1>3. DOMAIN f = S /\ DOMAIN g = S /\ IsFiniteSet(S) /\ S \subseteq Request
  <2>1. IsFiniteSet(Peers(s))
    BY PeersStay
  <2> QED
    BY <2>1 DEF Peers
<1>4. \A x \in S : f[x] \in Nat /\ g[x] \in Nat
  <2>1. \A x \in Request : request[x] \in RequestRecord /\ request'[x] \in RequestRecord
    BY PeersStay DEF Replaces
  <2> QED
    BY <2>1, <1>3, TermsTyped
<1>5. \A x \in S \ {r} : g[x] = f[x]
  BY <1>3, PeersStay
<1>6. r \in S => f[r] = UsedBy(request[r], t) /\ g[r] = UsedBy(p, t)
  BY PeersStay
<1>7. r \in S <=> s = p.site
  BY PeersStay
<1> HIDE DEF f, g, S
<1>8. CASE r \in S
  <2>1. /\ SumFunction(f) \in Nat /\ SumFunction(g) \in Nat
        /\ f[r] <= SumFunction(f)
        /\ SumFunction(g) + f[r] = SumFunction(f) + g[r]
    BY <1>3, <1>4, <1>5, <1>8, TotalMoves
  <2> QED
    BY <2>1, <1>1, <1>2, <1>6, <1>7, <1>8
<1>9. CASE r \notin S
  <2>1. g = f
    <3>1. \A x \in S : g[x] = f[x]
      BY <1>5, <1>9
    <3> QED
      BY <3>1, <1>3 DEF f, g
  <2>2. SumFunction(f) \in Nat
    BY <1>3, <1>4, SumIsNatural, SumOverDomain
  <2> QED
    BY <2>1, <2>2, <1>1, <1>2, <1>7, <1>9
<1> QED
  BY <1>8, <1>9

LEMMA HoldersMove ==
  ASSUME NEW r \in Request, NEW p, Replaces(r, p), NEW l \in Pool, NEW s
  PROVE  /\ IsFiniteSet(HoldersOf(l, s)) /\ IsFiniteSet(HoldersIn(l))
         /\ HoldersOf(l, s)' = IF s = p.site /\ Holds(p, l) THEN HoldersOf(l, s) \union {r}
                               ELSE HoldersOf(l, s) \ {r}
         /\ r \in HoldersOf(l, s) <=> s = p.site /\ Holds(request[r], l)
         /\ HoldersIn(l)' = IF p.half = l \/ Holds(p, l) THEN HoldersIn(l) \union {r}
                            ELSE HoldersIn(l) \ {r}
         /\ r \in HoldersIn(l) <=> request[r].half = l \/ Holds(request[r], l)
<1>1. request'[r] = p /\ \A x \in Request \ {r} : request'[x] = request[x]
  BY PeersStay
<1>2. HoldersOf(l, s) \subseteq Request /\ HoldersIn(l) \subseteq Request
  BY DEF HoldersOf, HoldersIn
<1>3. IsFiniteSet(HoldersOf(l, s)) /\ IsFiniteSet(HoldersIn(l))
  BY ONLY <1>2, RequestAssumption, FS_Subset
<1>4. HoldersOf(l, s)' = {x \in Request : request'[x].site = s /\ Holds(request'[x], l)}
  BY DEF HoldersOf, Holds
<1>5. HoldersIn(l)' = {x \in Request : request'[x].half = l \/ Holds(request'[x], l)}
  BY DEF HoldersIn, Holds
<1>6. p.site = request[r].site
  BY DEF Replaces
<1>7. HoldersOf(l, s)' = IF s = p.site /\ Holds(p, l) THEN HoldersOf(l, s) \union {r}
                         ELSE HoldersOf(l, s) \ {r}
  BY <1>1, <1>4, <1>6 DEF HoldersOf
<1>8. HoldersIn(l)' = IF p.half = l \/ Holds(p, l) THEN HoldersIn(l) \union {r} ELSE HoldersIn(l) \ {r}
  BY <1>1, <1>5 DEF HoldersIn
<1> QED
  BY <1>3, <1>6, <1>7, <1>8 DEF HoldersOf, HoldersIn

-----------------------------------------------------------------------------
(* The operations on the book.                                               *)

HeldIn(b, s, a) == HeldBy(b, s, DOMAIN b.entries[s])[a]

\* The book b2 keeps what b has to keep: the reservations, the keys, the routes
\* that work; it publishes nothing and registers nothing.
Thins(b, b2) ==
  /\ \A s \in Site, a \in Authority : HeldIn(b2, s, a) = HeldIn(b, s, a)
  /\ \A s \in Site : DOMAIN b2.entries[s] \subseteq DOMAIN b.entries[s]
  /\ \A s \in Site : \A t \in DOMAIN b2.entries[s] :
       /\ Entry(b2, s, t).key = Entry(b, s, t).key
       /\ Entry(b2, s, t).published = Entry(b, s, t).published
  /\ \A s \in Site : \A t \in DOMAIN b.entries[s] : Usable(b, s, t) => Usable(b2, s, t)

LEMMA ThinsSelf == ASSUME NEW b PROVE Thins(b, b)
BY DEF Thins, HeldIn

LEMMA ThinsFurther ==
  ASSUME NEW b, NEW b2, NEW b3, Thins(b, b2), Thins(b2, b3)
  PROVE  Thins(b, b3)
<1>1. \A s \in Site, a \in Authority : HeldIn(b3, s, a) = HeldIn(b, s, a)
  BY DEF Thins
<1>2. \A s \in Site : DOMAIN b3.entries[s] \subseteq DOMAIN b.entries[s]
  BY DEF Thins
<1>3. \A s \in Site : \A t \in DOMAIN b3.entries[s] :
       /\ Entry(b3, s, t).key = Entry(b, s, t).key
       /\ Entry(b3, s, t).published = Entry(b, s, t).published
  BY DEF Thins
<1>4. \A s \in Site : \A t \in DOMAIN b.entries[s] : Usable(b, s, t) => Usable(b3, s, t)
  BY DEF Thins, Usable, Registered
<1> QED
  BY <1>1, <1>2, <1>3, <1>4 DEF Thins

LEMMA PairsAreFinite ==
  ASSUME NEW b
  PROVE  IsFiniteSet(PairsOf(b)) /\ Cardinality(PairsOf(b)) \in Nat
<1>1. IsFiniteSet(Token)
  BY FS_Interval, LimitAssumption DEF Token
<1>2. IsFiniteSet(Site \X Token)
  BY <1>1, SiteAssumption, FS_Product
<1>3. PairsOf(b) \subseteq Site \X Token
  BY DEF PairsOf
<1> QED
  BY <1>2, <1>3, FS_Subset, FS_CardinalityType

\* The entries that stay are the entries they were (deleteCapabilityLocked).
Leaves(b, gone, d) ==
  /\ DOMAIN d.entries = Site /\ DOMAIN d.index = Site
  /\ d = [entries |-> d.entries, index |-> d.index, active |-> d.active]
  /\ \A s \in Site : DOMAIN d.entries[s] = DOMAIN b.entries[s] \ gone[s]
  /\ \A s \in Site : \A t \in DOMAIN d.entries[s] : d.entries[s][t] = b.entries[s][t]
  /\ \A s \in Site : DOMAIN d.index[s] = {k \in DOMAIN b.index[s] : b.index[s][k] \notin gone[s]}
  /\ \A s \in Site : \A k \in DOMAIN d.index[s] : d.index[s][k] = b.index[s][k]
  /\ d.active = b.active - Cardinality({x \in Site \X Token : x[2] \in gone[x[1]]})

LEMMA DeletedLeaves == ASSUME NEW b, NEW gone PROVE Leaves(b, gone, Deleted(b, gone))
BY DEF Deleted, Restrict, Leaves

\* The total follows the entries.
LEMMA DeletedActive ==
  ASSUME NEW b, ActiveFits(b), NEW gone,
         \A s \in Site : gone[s] \subseteq DOMAIN b.entries[s], NEW d, Leaves(b, gone, d)
  PROVE  ActiveFits(d)
<1> DEFINE G == {x \in Site \X Token : x[2] \in gone[x[1]]}
<1>1. G \subseteq PairsOf(b)
  BY DEF PairsOf
<1>2. PairsOf(d) = PairsOf(b) \ G
  BY DEF Leaves, PairsOf
<1>3. PairsOf(b) \cap G = G
  BY <1>1
<1>4. Cardinality(PairsOf(b) \ G) = Cardinality(PairsOf(b)) - Cardinality(G)
  <2>1. IsFiniteSet(PairsOf(b))
    BY PairsAreFinite
  <2> HIDE DEF G
  <2>2. Cardinality(PairsOf(b) \ G) = Cardinality(PairsOf(b)) - Cardinality(PairsOf(b) \cap G)
    BY <2>1, FS_Difference
  <2> QED
    BY <2>2, <1>3
<1>5. d.active = b.active - Cardinality(G)
  BY DEF Leaves
<1> QED
  BY <1>2, <1>4, <1>5 DEF ActiveFits

LEMMA DeletedIndex ==
  ASSUME NEW b, IndexFits(b), NEW gone, NEW d, Leaves(b, gone, d)
  PROVE  IndexFits(d)
<1>1. ASSUME NEW s \in Site, NEW k \in DOMAIN d.index[s]
      PROVE  Registered(d, s, d.index[s][k]) /\ Entry(d, s, d.index[s][k]).key = k
  <2>1. k \in DOMAIN b.index[s] /\ d.index[s][k] = b.index[s][k] /\ b.index[s][k] \notin gone[s]
    BY DEF Leaves
  <2>2. b.index[s][k] \in DOMAIN b.entries[s] /\ b.entries[s][b.index[s][k]].key = k
    BY <2>1 DEF IndexFits, Registered, Entry
  <2>3. b.index[s][k] \in DOMAIN d.entries[s]
    BY <2>1, <2>2 DEF Leaves
  <2>4. d.entries[s][b.index[s][k]] = b.entries[s][b.index[s][k]]
    BY <2>3 DEF Leaves
  <2> QED
    BY <2>1, <2>2, <2>3, <2>4 DEF Registered, Entry
<1> QED
  BY <1>1 DEF IndexFits

\* An idle token that is deleted is published and has no reservation.
LEMMA LeavesFits ==
  ASSUME NEW n \in 0..MaxToken, NEW b, NEW uses, BookFits(b, n, uses), NEW gone,
         NEW d, Leaves(b, gone, d),
         \A s \in Site : \A t \in gone[s] : Registered(b, s, t) /\ Idle(b, s, t) /\ ~Usable(b, s, t)
  PROVE  BookFits(d, n, uses) /\ Thins(b, d)
<1>1. \A s \in Site : gone[s] \subseteq DOMAIN b.entries[s]
  BY DEF Registered
<1>2. ActiveFits(d) /\ IndexFits(d)
  BY <1>1, DeletedActive, DeletedIndex DEF BookFits
<1>3. BookTyped(d, n)
  <2>1. d.active \in Nat
    BY <1>2, PairsAreFinite DEF ActiveFits
  <2>2. BookTyped(b, n)
    BY DEF BookFits
  <2>3. \A s \in Site : DOMAIN d.entries[s] \subseteq DOMAIN b.entries[s] /\ DOMAIN d.index[s] \subseteq DOMAIN b.index[s]
    BY DEF Leaves
  <2>4. \A s \in Site : \A t \in DOMAIN d.entries[s] : d.entries[s][t] \in EntryRecord
    BY <2>2, <2>3 DEF Leaves, BookTyped
  <2>5. DOMAIN d.entries = Site /\ DOMAIN d.index = Site
        /\ d = [entries |-> d.entries, index |-> d.index, active |-> d.active]
    BY DEF Leaves
  <2> QED
    BY <2>1, <2>2, <2>3, <2>4, <2>5 DEF BookTyped
<1>4. \A s \in Site : \A t \in gone[s] :
        Entry(b, s, t).pending = 0 /\ ~Entry(b, s, t).holds
  BY DEF BookFits, HoldsFit, Idle, Registered
<1>5. PendingFits(d, uses)
  <2> SUFFICES ASSUME NEW s \in Site, NEW t \in Token
               PROVE  IF Registered(d, s, t) THEN Entry(d, s, t).pending = uses[s][t] ELSE uses[s][t] = 0
    BY DEF PendingFits
  <2>1. IF Registered(b, s, t) THEN Entry(b, s, t).pending = uses[s][t] ELSE uses[s][t] = 0
    BY DEF BookFits, PendingFits
  <2>2. Registered(d, s, t) <=> Registered(b, s, t) /\ t \notin gone[s]
    BY DEF Leaves, Registered
  <2>3. Registered(d, s, t) => Entry(d, s, t) = Entry(b, s, t)
    BY DEF Leaves, Registered, Entry
  <2> QED
    BY <2>1, <2>2, <2>3, <1>4
<1>6. HoldsFit(d)
  <2> SUFFICES ASSUME NEW s \in Site, NEW t \in DOMAIN d.entries[s]
               PROVE  IF Entry(d, s, t).published THEN ~Entry(d, s, t).holds
                      ELSE Entry(d, s, t).pending > 0
                           /\ (Entry(d, s, t).holds = ~Trusted(Entry(d, s, t).key.target))
    BY DEF HoldsFit
  <2>1. Entry(d, s, t) = Entry(b, s, t) /\ t \in DOMAIN b.entries[s]
    BY DEF Leaves, Entry
  <2> QED
    BY <2>1 DEF BookFits, HoldsFit
<1>7. ASSUME NEW s \in Site, NEW a \in Authority PROVE HeldIn(d, s, a) = HeldIn(b, s, a)
  <2> DEFINE A == {t \in DOMAIN b.entries[s] : Entry(b, s, t).holds /\ AuthorityOf[Entry(b, s, t).key.target] = a}
             D == {t \in DOMAIN d.entries[s] : Entry(d, s, t).holds /\ AuthorityOf[Entry(d, s, t).key.target] = a}
  <2>1. \A t \in DOMAIN d.entries[s] : Entry(d, s, t) = Entry(b, s, t)
    BY DEF Leaves, Entry
  <2>2. DOMAIN d.entries[s] = DOMAIN b.entries[s] \ gone[s]
    BY DEF Leaves
  <2>3. A = D
    BY <2>1, <2>2, <1>4
  <2> QED
    BY <2>3 DEF HeldIn, HeldBy
<1>8. Thins(b, d)
  <2>1. \A s \in Site : DOMAIN d.entries[s] \subseteq DOMAIN b.entries[s]
    BY DEF Leaves
  <2>2. \A s \in Site : \A t \in DOMAIN d.entries[s] : Entry(d, s, t) = Entry(b, s, t)
    BY DEF Leaves, Entry
  <2>3. ASSUME NEW s \in Site, NEW t \in DOMAIN b.entries[s], Usable(b, s, t) PROVE Usable(d, s, t)
    <3>1. t \in DOMAIN d.entries[s]
      BY <2>3 DEF Leaves
    <3> QED
      BY <3>1, <2>2, <2>3 DEF Usable, Valid, Registered
  <2> QED
    BY <1>7, <2>1, <2>2, <2>3 DEF Thins
<1> QED
  BY <1>2, <1>3, <1>5, <1>6, <1>8 DEF BookFits

\* A prune deletes what is idle and past its time (pruneCapabilitiesLocked).
LEMMA PrunedFits ==
  ASSUME NEW n \in 0..MaxToken, NEW uses, BookFits(book, n, uses), NEW due \in BOOLEAN
  PROVE  BookFits(Pruned(due), n, uses) /\ Thins(book, Pruned(due))
<1>1. CASE due
  <2> DEFINE gone == [s \in Site |-> {t \in DOMAIN book.entries[s] : Idle(book, s, t) /\ ~Valid(book, s, t)}]
  <2>1. Pruned(due) = Deleted(book, gone)
    BY <1>1 DEF Pruned
  <2>2. \A s \in Site : \A t \in gone[s] : Registered(book, s, t) /\ Idle(book, s, t) /\ ~Usable(book, s, t)
    BY DEF Registered, Usable
  <2> HIDE DEF gone
  <2> QED
    BY <2>1, <2>2, DeletedLeaves, LeavesFits
<1>2. CASE ~due
  <2>1. Pruned(due) = book
    BY <1>2 DEF Pruned
  <2> QED
    BY <2>1, ThinsSelf
<1> QED
  BY <1>1, <1>2

\* A lookup deletes the token it looked up, when it is of no use to anybody
\* (hasCapability, useCapability).
LEMMA LookedUpFits ==
  ASSUME NEW n \in 0..MaxToken, NEW b, NEW uses, BookFits(b, n, uses), NEW s \in Site, NEW t
  PROVE  BookFits(LookedUp(b, s, t), n, uses) /\ Thins(b, LookedUp(b, s, t))
<1>1. CASE Usable(b, s, t)
  <2>1. LookedUp(b, s, t) = b
    BY <1>1 DEF LookedUp
  <2> QED
    BY <2>1, ThinsSelf
<1>2. CASE ~Usable(b, s, t)
  <2> DEFINE gone == IdleAt(b, s, {t})
  <2>1. LookedUp(b, s, t) = Deleted(b, gone)
    BY <1>2 DEF LookedUp
  <2>2. \A x \in Site : \A y \in gone[x] : Registered(b, x, y) /\ Idle(b, x, y) /\ ~Usable(b, x, y)
    BY <1>2 DEF IdleAt, At
  <2> HIDE DEF gone
  <2> QED
    BY <2>1, <2>2, DeletedLeaves, LeavesFits
<1> QED
  BY <1>1, <1>2

\* The token of a key is registered under it, and is the only one.
LEMMA TokenOfKey ==
  ASSUME NEW n \in 0..MaxToken, NEW b, NEW uses, BookFits(b, n, uses), NEW s \in Site, NEW k,
         NEW t \in TokenOf(b, s, k)
  PROVE  /\ TokenOf(b, s, k) = {t} /\ t \in Token
         /\ Registered(b, s, t) /\ Entry(b, s, t).key = k
<1>1. k \in DOMAIN b.index[s] /\ t = b.index[s][k] /\ TokenOf(b, s, k) = {t}
  BY DEF TokenOf
<1>2. Registered(b, s, t) /\ Entry(b, s, t).key = k
  BY <1>1 DEF BookFits, IndexFits
<1>3. t \in 1..n
  BY <1>2 DEF BookFits, BookTyped, Registered
<1>4. t \in Token
  BY <1>3, LimitAssumption DEF Token
<1> QED
  BY <1>1, <1>2, <1>4

\* reuseCapability that finds nothing forgets the key.
LEMMA UnmappedFits ==
  ASSUME NEW n \in 0..MaxToken, NEW b, NEW uses, BookFits(b, n, uses), NEW s \in Site, NEW k,
         Reusable(b, s, k) = {}
  PROVE  BookFits(Unmapped(b, s, k), n, uses) /\ Thins(b, Unmapped(b, s, k))
<1> DEFINE gone == IdleAt(b, s, TokenOf(b, s, k))
<1>1. \A t \in TokenOf(b, s, k) : ~Usable(b, s, t)
  BY DEF Reusable, Usable
<1>2. \A x \in Site : \A y \in gone[x] : Registered(b, x, y) /\ Idle(b, x, y) /\ ~Usable(b, x, y)
  BY <1>1 DEF IdleAt, At
<1> HIDE DEF gone
<1>3. PICK d : d = Deleted(b, gone)
  OBVIOUS
<1>4. BookFits(d, n, uses) /\ Thins(b, d) /\ Leaves(b, gone, d)
  BY <1>2, <1>3, DeletedLeaves, LeavesFits
<1>5. PICK e : e = [d EXCEPT !.index[s] = Restrict(@, DOMAIN @ \ {k})]
  OBVIOUS
<1>6. e = Unmapped(b, s, k)
  BY <1>3, <1>5 DEF Unmapped, gone
<1>7. /\ e.entries = d.entries /\ e.active = d.active /\ DOMAIN e.index = Site
      /\ e = [entries |-> e.entries, index |-> e.index, active |-> e.active]
      /\ \A x \in Site : DOMAIN e.index[x] \subseteq DOMAIN d.index[x]
      /\ \A x \in Site : \A y \in DOMAIN e.index[x] : e.index[x][y] = d.index[x][y]
  BY <1>4, <1>5 DEF Leaves, Restrict
<1>8. BookTyped(e, n)
  BY <1>4, <1>7 DEF BookFits, BookTyped
<1>9. IndexFits(e)
  BY <1>4, <1>7 DEF BookFits, IndexFits, Registered, Entry
<1>10. ActiveFits(e)
  BY <1>4, <1>7 DEF BookFits, ActiveFits, PairsOf
<1>11. PendingFits(e, uses)
  BY <1>4, <1>7 DEF BookFits, PendingFits, Registered, Entry
<1>12. HoldsFit(e)
  BY <1>4, <1>7 DEF BookFits, HoldsFit, Entry
<1>13. Thins(d, e)
  BY <1>7 DEF Thins, HeldIn, HeldBy, Entry, Usable, Valid, Registered
<1>14. Thins(b, e)
  BY <1>4, <1>13, ThinsFurther
<1> QED
  BY <1>6, <1>8, <1>9, <1>10, <1>11, <1>12, <1>14 DEF BookFits

\* One more use of a token is counted (reuseCapability, registerCapability).
LEMMA BorrowedFits ==
  ASSUME NEW n \in 0..MaxToken, NEW b, NEW uses, BookFits(b, n, uses), NEW s \in Site, NEW t \in Token,
         Registered(b, s, t), NEW more,
         \A x \in Site, y \in Token :
           /\ x = s /\ y = t => more[x][y] = uses[x][y] + 1
           /\ ~(x = s /\ y = t) => more[x][y] = uses[x][y]
  PROVE  BookFits(Borrowed(b, s, t), n, more) /\ Thins(b, Borrowed(b, s, t))
<1>1. PICK e : e = Borrowed(b, s, t)
  OBVIOUS
<1>2. BookTyped(b, n) /\ t \in DOMAIN b.entries[s]
  BY DEF BookFits, Registered
<1>3. /\ e.index = b.index /\ e.active = b.active /\ DOMAIN e.entries = Site
      /\ e = [entries |-> e.entries, index |-> e.index, active |-> e.active]
      /\ \A x \in Site : DOMAIN e.entries[x] = DOMAIN b.entries[x]
      /\ \A x \in Site : \A y \in DOMAIN e.entries[x] : ~(x = s /\ y = t) => e.entries[x][y] = b.entries[x][y]
      /\ e.entries[s][t] = [b.entries[s][t] EXCEPT !.pending = @ + 1]
  BY <1>1, <1>2 DEF Borrowed, BookTyped
<1>4. b.entries[s][t] \in EntryRecord
  BY <1>2 DEF BookTyped
<1>5. /\ e.entries[s][t] \in EntryRecord
      /\ e.entries[s][t].pending = b.entries[s][t].pending + 1
      /\ e.entries[s][t].pending > 0
      /\ e.entries[s][t].key = b.entries[s][t].key /\ e.entries[s][t].holds = b.entries[s][t].holds
      /\ e.entries[s][t].published = b.entries[s][t].published
      /\ e.entries[s][t].expired = b.entries[s][t].expired
  <2>1. b.entries[s][t].pending \in Nat
    BY <1>4 DEF EntryRecord
  <2>2. PICK m \in Nat : m = b.entries[s][t].pending + 1 /\ m > 0
    BY <2>1
  <2>3. e.entries[s][t] = [b.entries[s][t] EXCEPT !.pending = m]
    BY <1>3, <2>2
  <2>4. e.entries[s][t].pending = m
    BY <2>3, <1>4 DEF EntryRecord
  <2> QED
    BY <2>2, <2>3, <2>4, <1>4 DEF EntryRecord
<1>6. \A x \in Site : \A y \in DOMAIN b.entries[x] :
        /\ e.entries[x][y].key = b.entries[x][y].key /\ e.entries[x][y].holds = b.entries[x][y].holds
        /\ e.entries[x][y].published = b.entries[x][y].published
        /\ e.entries[x][y].expired = b.entries[x][y].expired
  <2> SUFFICES ASSUME NEW x \in Site, NEW y \in DOMAIN b.entries[x]
               PROVE  /\ e.entries[x][y].key = b.entries[x][y].key /\ e.entries[x][y].holds = b.entries[x][y].holds
                      /\ e.entries[x][y].published = b.entries[x][y].published
                      /\ e.entries[x][y].expired = b.entries[x][y].expired
    OBVIOUS
  <2>1. CASE x = s /\ y = t
    BY ONLY <2>1, <1>5
  <2>2. CASE ~(x = s /\ y = t)
    BY <2>2, <1>3
  <2> QED
    BY <2>1, <2>2
<1>7. BookTyped(e, n)
  BY <1>2, <1>3, <1>5 DEF BookTyped
<1>8. IndexFits(e)
  BY <1>3, <1>6 DEF BookFits, IndexFits, Registered, Entry
<1>9. ActiveFits(e)
  BY <1>3 DEF BookFits, ActiveFits, PairsOf
<1>10. PendingFits(e, more)
  <2> SUFFICES ASSUME NEW x \in Site, NEW y \in Token
               PROVE  IF Registered(e, x, y) THEN Entry(e, x, y).pending = more[x][y] ELSE more[x][y] = 0
    BY DEF PendingFits
  <2>1. IF Registered(b, x, y) THEN Entry(b, x, y).pending = uses[x][y] ELSE uses[x][y] = 0
    BY DEF BookFits, PendingFits
  <2>2. CASE x = s /\ y = t
    BY <2>1, <2>2, <1>2, <1>3, <1>5 DEF Registered, Entry
  <2>3. CASE ~(x = s /\ y = t)
    BY <2>1, <2>3, <1>3 DEF Registered, Entry
  <2> QED
    BY <2>2, <2>3
<1>11. HoldsFit(e)
  <2> SUFFICES ASSUME NEW x \in Site, NEW y \in DOMAIN e.entries[x]
               PROVE  IF Entry(e, x, y).published THEN ~Entry(e, x, y).holds
                      ELSE Entry(e, x, y).pending > 0
                           /\ (Entry(e, x, y).holds = ~Trusted(Entry(e, x, y).key.target))
    BY DEF HoldsFit
  <2>1. IF Entry(b, x, y).published THEN ~Entry(b, x, y).holds
        ELSE Entry(b, x, y).pending > 0
             /\ (Entry(b, x, y).holds = ~Trusted(Entry(b, x, y).key.target))
    BY <1>3 DEF BookFits, HoldsFit
  <2>2. Entry(e, x, y).pending > 0 \/ Entry(e, x, y) = Entry(b, x, y)
    BY <1>3, <1>5 DEF Entry
  <2> QED
    BY <2>1, <2>2, <1>3, <1>6 DEF Entry
<1>12. Thins(b, e)
  <2>1. \A x \in Site, a \in Authority : HeldIn(e, x, a) = HeldIn(b, x, a)
    <3> SUFFICES ASSUME NEW x \in Site, NEW a \in Authority PROVE HeldIn(e, x, a) = HeldIn(b, x, a)
      OBVIOUS
    <3> DEFINE A == {y \in DOMAIN b.entries[x] : b.entries[x][y].holds /\ AuthorityOf[b.entries[x][y].key.target] = a}
               D == {y \in DOMAIN e.entries[x] : e.entries[x][y].holds /\ AuthorityOf[e.entries[x][y].key.target] = a}
    <3>1. A = D
      BY ONLY <1>3, <1>6
    <3> QED
      BY <3>1 DEF HeldIn, HeldBy, Entry
  <2> QED
    BY <2>1, <1>3, <1>6 DEF Thins, Entry, Usable, Valid, Registered
<1> QED
  BY <1>1, <1>7, <1>8, <1>9, <1>10, <1>11, <1>12 DEF BookFits

-----------------------------------------------------------------------------
(* A token registered, and tokens settled.                                   *)

HeldSet(b, s, tokens, a) ==
  {t \in tokens : Entry(b, s, t).holds /\ AuthorityOf[Entry(b, s, t).key.target] = a}

LEMMA HeldSets ==
  ASSUME NEW n \in 0..MaxToken, NEW b, BookTyped(b, n), NEW s \in Site, NEW a \in Authority,
         NEW T, T \subseteq DOMAIN b.entries[s]
  PROVE  /\ IsFiniteSet(HeldSet(b, s, T, a))
         /\ HeldBy(b, s, T)[a] = Cardinality(HeldSet(b, s, T, a)) /\ HeldBy(b, s, T)[a] \in Nat
         /\ HeldBy(b, s, T)[a] <= HeldIn(b, s, a) /\ HeldIn(b, s, a) \in Nat
         /\ HeldIn(b, s, a) = Cardinality(HeldSet(b, s, DOMAIN b.entries[s], a))
<1>1. DOMAIN b.entries[s] \subseteq 1..n /\ IsFiniteSet(1..n)
  <2>1. n \in Int
    BY LimitAssumption
  <2>2. IsFiniteSet(1..n)
    BY ONLY <2>1, 1 \in Int, FS_Interval
  <2> QED
    BY <2>2 DEF BookTyped
<1>2. HeldSet(b, s, DOMAIN b.entries[s], a) \subseteq 1..n
  BY <1>1 DEF HeldSet
<1>3. HeldSet(b, s, T, a) \subseteq HeldSet(b, s, DOMAIN b.entries[s], a)
  BY DEF HeldSet
<1>4. IsFiniteSet(HeldSet(b, s, DOMAIN b.entries[s], a))
  BY ONLY <1>1, <1>2, FS_Subset
<1>5. /\ IsFiniteSet(HeldSet(b, s, T, a))
      /\ Cardinality(HeldSet(b, s, T, a)) <= Cardinality(HeldSet(b, s, DOMAIN b.entries[s], a))
  BY ONLY <1>3, <1>4, FS_Subset
<1>6. /\ Cardinality(HeldSet(b, s, T, a)) \in Nat
      /\ Cardinality(HeldSet(b, s, DOMAIN b.entries[s], a)) \in Nat
  BY ONLY <1>4, <1>5, FS_CardinalityType
<1>7. HeldBy(b, s, T)[a] = Cardinality(HeldSet(b, s, T, a))
  BY DEF HeldBy, HeldSet
<1>8. HeldIn(b, s, a) = Cardinality(HeldSet(b, s, DOMAIN b.entries[s], a))
  BY DEF HeldIn, HeldBy, HeldSet
<1> QED
  BY <1>5, <1>6, <1>7, <1>8

\* Book e is book b with a provisional token more, for key k of site s.
AddsTo(s, k, holds, b, e) ==
  /\ \A x \in Site, a \in Authority :
       /\ x = s /\ holds /\ a = AuthorityOf[k.target] => HeldIn(e, x, a) = HeldIn(b, x, a) + 1
       /\ ~(x = s /\ holds /\ a = AuthorityOf[k.target]) => HeldIn(e, x, a) = HeldIn(b, x, a)
  /\ \A x \in Site \ {s} : DOMAIN e.entries[x] = DOMAIN b.entries[x]
  /\ \A x \in Site : \A t \in DOMAIN e.entries[x] : Entry(e, x, t).published =>
       t \in DOMAIN b.entries[x] /\ Entry(e, x, t) = Entry(b, x, t)
  /\ \A x \in Site : \A t \in DOMAIN b.entries[x] : Usable(b, x, t) => Usable(e, x, t)

\* The new token holds the reservation that was made for its target
\* (registerCapability).
\* Token t of site s is used for the first time.
FirstUse(s, t, uses, more) ==
  \A x \in Site, y \in Token : /\ x = s /\ y = t => more[x][y] = 1
                               /\ ~(x = s /\ y = t) => more[x][y] = uses[x][y]

LEMMA AddedFits ==
  ASSUME NEW n \in 0..MaxToken, n < MaxToken, NEW b, NEW uses, BookFits(b, n, uses), NEW s \in Site,
         NEW k \in Key, TokenOf(b, s, k) = {}, NEW holds \in BOOLEAN, holds <=> ~Trusted(k.target),
         NEW e, e = Added(b, s, k, n + 1, holds), NEW more,
         FirstUse(s, n + 1, uses, more)
  PROVE  BookFits(e, n + 1, more) /\ AddsTo(s, k, holds, b, e)
<1> DEFINE t == n + 1
           new == [key |-> k, pending |-> 1, published |-> FALSE, expired |-> FALSE, holds |-> holds]
<1>0. FirstUse(s, t, uses, more)
  OBVIOUS
<1>1. BookTyped(b, n)
  BY DEF BookFits
<1>2. t \in Token /\ t \in 1..(n + 1) /\ \A x \in Site : t \notin DOMAIN b.entries[x] /\ DOMAIN b.entries[x] \subseteq 1..(n + 1)
  BY <1>1, LimitAssumption DEF BookTyped, Token
<1>3. k \notin DOMAIN b.index[s]
  BY DEF TokenOf
<1> HIDE DEF t
<1>a. e = Added(b, s, k, t, holds)
  BY DEF t
<1>4. /\ DOMAIN e.entries = Site /\ DOMAIN e.index = Site
      /\ e = [entries |-> e.entries, index |-> e.index, active |-> e.active]
      /\ e.active = b.active + 1
      /\ \A x \in Site \ {s} : e.entries[x] = b.entries[x] /\ e.index[x] = b.index[x]
      /\ DOMAIN e.entries[s] = DOMAIN b.entries[s] \union {t}
      /\ DOMAIN e.index[s] = DOMAIN b.index[s] \union {k}
      /\ e.entries[s][t] = new /\ e.index[s][k] = t
  <2>1. /\ e.entries = [b.entries EXCEPT ![s] = Put(@, t, new)]
        /\ e.index = [b.index EXCEPT ![s] = Put(@, k, t)]
        /\ e.active = b.active + 1
        /\ e = [entries |-> e.entries, index |-> e.index, active |-> e.active]
    BY <1>a DEF Added
  <2> HIDE DEF new
  <2>2. DOMAIN e.entries = Site /\ \A x \in Site \ {s} : e.entries[x] = b.entries[x]
    BY <2>1, <1>1 DEF BookTyped
  <2>3. DOMAIN e.index = Site /\ \A x \in Site \ {s} : e.index[x] = b.index[x]
    BY <2>1, <1>1 DEF BookTyped
  <2>4. e.entries[s] = Put(b.entries[s], t, new)
    BY <2>1, <1>1 DEF BookTyped
  <2>5. e.index[s] = Put(b.index[s], k, t)
    BY <2>1, <1>1 DEF BookTyped
  <2> QED
    BY <2>1, <2>2, <2>3, <2>4, <2>5 DEF Put
<1>5. \A x \in Site : \A y \in DOMAIN b.entries[x] : e.entries[x][y] = b.entries[x][y]
  BY <1>a, <1>1, <1>2 DEF Added, Put, BookTyped
<1>6. \A x \in Site : \A y \in DOMAIN b.index[x] : e.index[x][y] = b.index[x][y]
  BY <1>a, <1>1, <1>3 DEF Added, Put, BookTyped
<1>7. new \in EntryRecord /\ new.key = k /\ new.pending = 1 /\ ~new.published /\ (new.holds <=> holds)
  BY DEF EntryRecord
<1> HIDE DEF new
<1>8. ActiveFits(e) /\ e.active \in Nat
  <2>1. PairsOf(e) = PairsOf(b) \union {<<s, t>>} /\ <<s, t>> \notin PairsOf(b)
    BY <1>2, <1>4 DEF PairsOf
  <2>2. Cardinality(PairsOf(e)) = Cardinality(PairsOf(b)) + 1
    BY <2>1, PairsAreFinite, FS_AddElement
  <2> QED
    BY <2>2, <1>4, PairsAreFinite DEF BookFits, ActiveFits
<1>9. BookTyped(e, n + 1)
  <2>1. \A x \in Site : \A y \in DOMAIN e.entries[x] : e.entries[x][y] \in EntryRecord
    BY <1>1, <1>4, <1>5, <1>7 DEF BookTyped
  <2>2. \A x \in Site : DOMAIN e.entries[x] \subseteq 1..(n + 1) /\ DOMAIN e.index[x] \subseteq Key
    BY <1>1, <1>2, <1>4 DEF BookTyped
  <2> QED
    BY <2>1, <2>2, <1>4, <1>8 DEF BookTyped
<1>10. IndexFits(e)
  <2> SUFFICES ASSUME NEW x \in Site, NEW y \in DOMAIN e.index[x]
               PROVE  Registered(e, x, e.index[x][y]) /\ Entry(e, x, e.index[x][y]).key = y
    BY DEF IndexFits
  <2>1. CASE x = s /\ y = k
    BY <2>1, <1>4, <1>7 DEF Registered, Entry
  <2>2. CASE ~(x = s /\ y = k)
    <3>1. y \in DOMAIN b.index[x] /\ e.index[x][y] = b.index[x][y]
      BY <2>2, <1>4, <1>6
    <3>2. b.index[x][y] \in DOMAIN b.entries[x] /\ b.entries[x][b.index[x][y]].key = y
      BY <3>1 DEF BookFits, IndexFits, Registered, Entry
    <3>3. b.index[x][y] \in DOMAIN e.entries[x] /\ e.entries[x][b.index[x][y]] = b.entries[x][b.index[x][y]]
      BY <3>2, <1>4, <1>5
    <3> QED
      BY <3>1, <3>2, <3>3 DEF Registered, Entry
  <2> QED
    BY <2>1, <2>2
<1>11. PendingFits(e, more)
  <2> SUFFICES ASSUME NEW x \in Site, NEW y \in Token
               PROVE  IF Registered(e, x, y) THEN Entry(e, x, y).pending = more[x][y] ELSE more[x][y] = 0
    BY DEF PendingFits
  <2>1. IF Registered(b, x, y) THEN Entry(b, x, y).pending = uses[x][y] ELSE uses[x][y] = 0
    BY DEF BookFits, PendingFits
  <2>2. CASE x = s /\ y = t
    BY <2>2, <1>0, <1>4, <1>7 DEF Registered, Entry, FirstUse
  <2>3. CASE ~(x = s /\ y = t)
    <3>1. more[x][y] = uses[x][y]
      BY <2>3, <1>0 DEF FirstUse
    <3>2. y \in DOMAIN e.entries[x] <=> y \in DOMAIN b.entries[x]
      BY <2>3, <1>4
    <3> QED
      BY <3>1, <3>2, <2>1, <1>5 DEF Registered, Entry
  <2> QED
    BY <2>2, <2>3
<1>12. HoldsFit(e)
  <2> SUFFICES ASSUME NEW x \in Site, NEW y \in DOMAIN e.entries[x]
               PROVE  IF Entry(e, x, y).published THEN ~Entry(e, x, y).holds
                      ELSE Entry(e, x, y).pending > 0
                           /\ (Entry(e, x, y).holds = ~Trusted(Entry(e, x, y).key.target))
    BY DEF HoldsFit
  <2>1. CASE x = s /\ y = t
    <3>1. Entry(e, x, y) = new
      BY <2>1, <1>4 DEF Entry
    <3>2. new.holds = holds
      BY DEF new
    <3> QED
      BY <3>1, <3>2, <1>7
  <2>2. CASE ~(x = s /\ y = t)
    <3>1. y \in DOMAIN b.entries[x] /\ Entry(e, x, y) = Entry(b, x, y)
      BY <2>2, <1>4, <1>5 DEF Entry
    <3> QED
      BY <3>1 DEF BookFits, HoldsFit
  <2> QED
    BY <2>1, <2>2
<1>13. ASSUME NEW x \in Site, NEW a \in Authority
       PROVE  /\ x = s /\ holds /\ a = AuthorityOf[k.target] => HeldIn(e, x, a) = HeldIn(b, x, a) + 1
              /\ ~(x = s /\ holds /\ a = AuthorityOf[k.target]) => HeldIn(e, x, a) = HeldIn(b, x, a)
  <2> DEFINE A == HeldSet(b, x, DOMAIN b.entries[x], a)
             E == HeldSet(e, x, DOMAIN e.entries[x], a)
  <2>1. HeldIn(b, x, a) = Cardinality(A) /\ IsFiniteSet(A)
    BY <1>1, HeldSets
  <2>2. HeldIn(e, x, a) = Cardinality(E)
    BY DEF HeldIn, HeldBy, HeldSet
  <2>3. \A y \in DOMAIN b.entries[x] : Entry(e, x, y) = Entry(b, x, y)
    BY <1>5 DEF Entry
  <2>4. ASSUME x = s, holds, a = AuthorityOf[k.target]
        PROVE  HeldIn(e, x, a) = HeldIn(b, x, a) + 1
    <3>0. Entry(e, x, t).holds /\ Entry(e, x, t).key = k /\ DOMAIN e.entries[x] = DOMAIN b.entries[x] \union {t}
      BY <2>4, <1>4, <1>7 DEF Entry
    <3>1. E = A \union {t}
      BY ONLY <3>0, <2>3, <2>4 DEF HeldSet
    <3>2. t \notin A
      BY <1>2 DEF HeldSet
    <3> HIDE DEF A, E
    <3> QED
      BY SMTT(30), <3>1, <3>2, <2>1, <2>2, FS_AddElement
  <2>5. ASSUME ~(x = s /\ holds /\ a = AuthorityOf[k.target])
        PROVE  HeldIn(e, x, a) = HeldIn(b, x, a)
    <3>1. E = A
      BY <2>3, <2>5, <1>4, <1>7 DEF HeldSet, Entry
    <3> QED
      BY <3>1, <2>1, <2>2
  <2> QED
    BY <2>4, <2>5
<1>14. \A x \in Site \ {s} : DOMAIN e.entries[x] = DOMAIN b.entries[x]
  BY <1>4
<1>15. \A x \in Site : \A y \in DOMAIN e.entries[x] : Entry(e, x, y).published =>
         y \in DOMAIN b.entries[x] /\ Entry(e, x, y) = Entry(b, x, y)
  BY <1>4, <1>5, <1>7 DEF Entry
<1>16. \A x \in Site : \A y \in DOMAIN b.entries[x] : Usable(b, x, y) => Usable(e, x, y)
  BY <1>4, <1>5 DEF Usable, Valid, Registered, Entry
<1>17. BookFits(e, n + 1, more)
  BY <1>8, <1>9, <1>10, <1>11, <1>12 DEF BookFits
<1> QED
  BY <1>13, <1>14, <1>15, <1>16, <1>17 DEF AddsTo

\* Book e has less[t] fewer uses of each token of site s than the book has.
Takes(n, s, uses, fewer) ==
  /\ \A t \in Token : n[t] \in Nat /\ n[t] <= uses[s][t] /\ fewer[s][t] = uses[s][t] - n[t]
  /\ \A x \in Site \ {s} : \A t \in Token : fewer[x][t] = uses[x][t]

\* The tokens settled are those with a use to settle: all are registered.
LEMMA SettledAre ==
  ASSUME NEW m \in 0..MaxToken, NEW uses, BookFits(book, m, uses), NEW s \in Site, NEW n, NEW fewer,
         Takes(n, s, uses, fewer)
  PROVE  /\ DOMAIN book.entries[s] \subseteq Token
         /\ Settled(s, n) = {t \in Token : n[t] > 0} /\ Settled(s, n) \subseteq DOMAIN book.entries[s]
         /\ \A t \in DOMAIN book.entries[s] :
              /\ Entry(book, s, t).pending = uses[s][t] /\ Entry(book, s, t).pending >= n[t]
              /\ Entry(book, s, t).pending \in Nat /\ n[t] \in Nat
              /\ Entry(book, s, t).pending - n[t] = fewer[s][t]
              /\ t \notin Settled(s, n) => n[t] = 0
         /\ Withdrawn(s, n) \subseteq DOMAIN book.entries[s]
<1>1. DOMAIN book.entries[s] \subseteq Token
  BY LimitAssumption DEF BookFits, BookTyped, Token
<1>2. \A t \in DOMAIN book.entries[s] : Entry(book, s, t).pending \in Nat
  BY DEF BookFits, BookTyped, EntryRecord, Entry
<1>3. \A t \in DOMAIN book.entries[s] : Entry(book, s, t).pending = uses[s][t]
  BY <1>1 DEF BookFits, PendingFits, Registered
<1>4. \A t \in Token : t \notin DOMAIN book.entries[s] => uses[s][t] = 0
  BY DEF BookFits, PendingFits, Registered
<1>5. \A t \in Token : n[t] \in Nat /\ n[t] <= uses[s][t] /\ fewer[s][t] = uses[s][t] - n[t]
  BY DEF Takes
<1>6. Settled(s, n) = {t \in Token : n[t] > 0}
  BY <1>1, <1>3, <1>4, <1>5 DEF Settled
<1>7. Settled(s, n) \subseteq DOMAIN book.entries[s] /\ Withdrawn(s, n) \subseteq Settled(s, n)
  BY DEF Settled, Withdrawn
<1>8. \A t \in DOMAIN book.entries[s] : t \notin Settled(s, n) => n[t] = 0
  BY <1>1, <1>5, <1>6
<1> QED
  BY <1>1, <1>2, <1>3, <1>5, <1>6, <1>7, <1>8

\* Entries of site s alone change, and keep their keys; a token that could be
\* used still can.
KeepsKeys(s, e) ==
  /\ \A x \in Site \ {s} :
       /\ DOMAIN e.entries[x] = DOMAIN book.entries[x]
       /\ \A t \in DOMAIN book.entries[x] : Entry(e, x, t) = Entry(book, x, t)
  /\ DOMAIN e.entries[s] \subseteq DOMAIN book.entries[s]
  /\ \A t \in DOMAIN e.entries[s] : Entry(e, s, t).key = Entry(book, s, t).key
  /\ \A x \in Site : \A t \in DOMAIN book.entries[x] : Usable(book, x, t) => Usable(e, x, t)

\* Book e after the settlement: the tokens of T gave up their reservations, and
\* only those of new are newly published.
SettlesInto(s, m, fewer, e, T, new) ==
  /\ BookFits(e, m, fewer) /\ KeepsKeys(s, e)
  /\ \A a \in Authority : HeldIn(e, s, a) = HeldIn(book, s, a) - HeldBy(book, s, T)[a]
  /\ \A t \in DOMAIN e.entries[s] : Entry(e, s, t).published => Entry(book, s, t).published \/ t \in new

\* Publishing gives up the reservations of the tokens published
\* (settleCapabilities).
LEMMA PublishedFits ==
  ASSUME NEW m \in 0..MaxToken, NEW uses, BookFits(book, m, uses), NEW s \in Site, NEW n, NEW fewer,
         Takes(n, s, uses, fewer), NEW e, e = Published(s, n)
  PROVE  SettlesInto(s, m, fewer, e, Settled(s, n), Settled(s, n))
<1> DEFINE T == Settled(s, n)
<1>1. BookTyped(book, m)
  BY DEF BookFits
<1>2. /\ T \subseteq DOMAIN book.entries[s]
      /\ \A t \in DOMAIN book.entries[s] :
           /\ Entry(book, s, t).pending = uses[s][t] /\ Entry(book, s, t).pending >= n[t]
           /\ Entry(book, s, t).pending \in Nat /\ n[t] \in Nat
           /\ Entry(book, s, t).pending - n[t] = fewer[s][t]
           /\ t \notin T => n[t] = 0
  BY SettledAre
<1>4. /\ e.index = book.index /\ e.active = book.active /\ DOMAIN e.entries = Site
      /\ e = [entries |-> e.entries, index |-> e.index, active |-> e.active]
      /\ \A x \in Site \ {s} : e.entries[x] = book.entries[x]
      /\ DOMAIN e.entries[s] = DOMAIN book.entries[s]
      /\ \A t \in DOMAIN book.entries[s] : t \notin T => e.entries[s][t] = book.entries[s][t]
      /\ \A t \in T : e.entries[s][t] = Made(Entry(book, s, t), n[t])
  <2> DEFINE new == [t \in DOMAIN book.entries[s] |->
               IF t \in Settled(s, n) THEN Made(Entry(book, s, t), n[t]) ELSE Entry(book, s, t)]
  <2>1. e = [book EXCEPT !.entries[s] = new]
    BY DEF Published
  <2>2. DOMAIN new = DOMAIN book.entries[s]
    OBVIOUS
  <2>3. \A t \in DOMAIN book.entries[s] : t \notin T => new[t] = book.entries[s][t]
    BY DEF Entry
  <2>4. \A t \in T : new[t] = Made(Entry(book, s, t), n[t])
    BY <1>2
  <2> HIDE DEF new
  <2>5. /\ e.index = book.index /\ e.active = book.active /\ DOMAIN e.entries = Site
        /\ e = [entries |-> e.entries, index |-> e.index, active |-> e.active]
        /\ \A x \in Site \ {s} : e.entries[x] = book.entries[x]
        /\ e.entries[s] = new
    BY <2>1, <1>1 DEF BookTyped
  <2> QED
    BY <2>2, <2>3, <2>4, <2>5
<1>5. ASSUME NEW t \in T
      PROVE  /\ Entry(e, s, t) \in EntryRecord /\ Entry(e, s, t).pending = fewer[s][t]
             /\ Entry(e, s, t).published = TRUE /\ Entry(e, s, t).holds = FALSE
             /\ Entry(e, s, t).key = Entry(book, s, t).key /\ Entry(e, s, t).expired = Entry(book, s, t).expired
  <2>1. PICK r : r = book.entries[s][t]
    OBVIOUS
  <2>2. r \in EntryRecord /\ t \in DOMAIN book.entries[s]
    BY <2>1, <1>1, <1>2 DEF BookTyped
  <2>3. PICK i \in Nat : i = r.pending - n[t] /\ i = fewer[s][t]
    BY <2>1, <2>2, <1>2 DEF Entry
  <2>5. Entry(book, s, t) = r
    BY <2>1 DEF Entry
  <2>4. Entry(e, s, t) = [[r EXCEPT !.pending = i] EXCEPT !.published = TRUE, !.holds = FALSE]
    <3>1. Entry(e, s, t) = Made(r, n[t])
      BY <2>5, <1>4 DEF Entry
    <3> QED
      BY <3>1, <2>3 DEF Made, Without
  <2> QED
    BY ONLY <2>2, <2>3, <2>4, <2>5 DEF EntryRecord
<1>6. \A t \in DOMAIN book.entries[s] : t \notin T => Entry(e, s, t) = Entry(book, s, t)
  BY <1>4 DEF Entry
<1>7. \A x \in Site : DOMAIN e.entries[x] = DOMAIN book.entries[x]
  BY <1>4
<1>8. \A x \in Site : \A t \in DOMAIN book.entries[x] :
        /\ Entry(e, x, t).key = Entry(book, x, t).key /\ Entry(e, x, t).expired = Entry(book, x, t).expired
        /\ Entry(book, x, t).published => Entry(e, x, t).published
        /\ Entry(e, x, t) \in EntryRecord
  <2> SUFFICES ASSUME NEW x \in Site, NEW t \in DOMAIN book.entries[x]
               PROVE  /\ Entry(e, x, t).key = Entry(book, x, t).key
                      /\ Entry(e, x, t).expired = Entry(book, x, t).expired
                      /\ Entry(book, x, t).published => Entry(e, x, t).published
                      /\ Entry(e, x, t) \in EntryRecord
    OBVIOUS
  <2>1. Entry(book, x, t) \in EntryRecord
    BY <1>1 DEF BookTyped, Entry
  <2>2. CASE x = s /\ t \in T
    BY <2>2, <1>5
  <2>3. CASE ~(x = s /\ t \in T)
    <3>1. Entry(e, x, t) = Entry(book, x, t)
      BY <2>3, <1>4 DEF Entry
    <3> QED
      BY <3>1, <2>1
  <2> QED
    BY <2>2, <2>3
<1>9. BookTyped(e, m)
  <2>1. \A x \in Site : \A t \in DOMAIN e.entries[x] : e.entries[x][t] \in EntryRecord
    BY <1>7, <1>8 DEF Entry
  <2> QED
    BY <2>1, <1>1, <1>4, <1>7 DEF BookTyped
<1>10. IndexFits(e)
  <2>1. IndexFits(book)
    BY DEF BookFits
  <2> SUFFICES ASSUME NEW x \in Site, NEW k \in DOMAIN e.index[x]
               PROVE  Registered(e, x, e.index[x][k]) /\ Entry(e, x, e.index[x][k]).key = k
    BY DEF IndexFits
  <2>2. e.index[x][k] = book.index[x][k] /\ k \in DOMAIN book.index[x]
    BY <1>4
  <2>3. book.index[x][k] \in DOMAIN book.entries[x] /\ Entry(book, x, book.index[x][k]).key = k
    BY <2>1, <2>2 DEF IndexFits, Registered
  <2> QED
    BY <2>2, <2>3, <1>7, <1>8 DEF Registered
<1>11. ActiveFits(e)
  BY <1>4, <1>7 DEF BookFits, ActiveFits, PairsOf
<1>12. PendingFits(e, fewer)
  <2> SUFFICES ASSUME NEW x \in Site, NEW t \in Token
               PROVE  IF Registered(e, x, t) THEN Entry(e, x, t).pending = fewer[x][t] ELSE fewer[x][t] = 0
    BY DEF PendingFits
  <2>1. IF Registered(book, x, t) THEN Entry(book, x, t).pending = uses[x][t] ELSE uses[x][t] = 0
    BY DEF BookFits, PendingFits
  <2>2. CASE x # s
    <3>1. fewer[x][t] = uses[x][t]
      BY <2>2 DEF Takes
    <3>2. e.entries[x] = book.entries[x]
      BY <2>2, <1>4
    <3> QED
      BY <3>1, <3>2, <2>1 DEF Registered, Entry
  <2>3. CASE x = s /\ t \in DOMAIN book.entries[s]
    <3>1. Registered(e, s, t)
      BY <2>3, <1>7 DEF Registered
    <3>2. Entry(e, s, t).pending = fewer[s][t]
      <4>1. CASE t \in T
        BY <4>1, <1>5
      <4>2. CASE t \notin T
        BY <4>2, <2>3, <1>2, <1>6
      <4> QED
        BY <4>1, <4>2
    <3> QED
      BY <2>3, <3>1, <3>2
  <2>4. CASE x = s /\ t \notin DOMAIN book.entries[s]
    BY <2>1, <2>4, <1>7 DEF Registered, Takes
  <2> QED
    BY <2>2, <2>3, <2>4
<1>13. HoldsFit(e)
  <2> SUFFICES ASSUME NEW x \in Site, NEW t \in DOMAIN e.entries[x]
               PROVE  IF Entry(e, x, t).published THEN ~Entry(e, x, t).holds
                      ELSE Entry(e, x, t).pending > 0
                           /\ (Entry(e, x, t).holds = ~Trusted(Entry(e, x, t).key.target))
    BY DEF HoldsFit
  <2>1. CASE x = s /\ t \in T
    BY <2>1, <1>5
  <2>2. CASE ~(x = s /\ t \in T)
    <3>1. Entry(e, x, t) = Entry(book, x, t) /\ t \in DOMAIN book.entries[x]
      BY <2>2, <1>4, <1>7 DEF Entry
    <3> QED
      BY <3>1 DEF BookFits, HoldsFit
  <2> QED
    BY <2>1, <2>2
<1>14. KeepsKeys(s, e)
  BY <1>4, <1>7, <1>8 DEF KeepsKeys, Usable, Valid, Registered, Entry
<1>15. ASSUME NEW a \in Authority
       PROVE  HeldIn(e, s, a) = HeldIn(book, s, a) - HeldBy(book, s, T)[a]
  <2> DEFINE A == HeldSet(book, s, DOMAIN book.entries[s], a)
             B == HeldSet(book, s, T, a)
             E == HeldSet(e, s, DOMAIN e.entries[s], a)
  <2>1. E = A \ B
    <3>1. \A t \in E : t \notin T /\ Entry(e, s, t) = Entry(book, s, t)
      BY <1>5, <1>6, <1>7 DEF HeldSet
    <3>2. \A t \in A : t \notin T => t \in E
      BY <1>6, <1>7 DEF HeldSet
    <3>3. \A t \in B : t \in T
      BY DEF HeldSet
    <3>4. \A t \in A : t \in T => t \in B
      BY DEF HeldSet
    <3>5. \A t \in E : t \in A
      BY <3>1, <1>7 DEF HeldSet
    <3> HIDE DEF A, B, E
    <3> QED
      BY <3>1, <3>2, <3>3, <3>4, <3>5
  <2>2. /\ IsFiniteSet(A) /\ HeldIn(book, s, a) = Cardinality(A)
        /\ HeldBy(book, s, T)[a] = Cardinality(B)
    BY <1>1, <1>2, HeldSets
  <2>3. HeldIn(e, s, a) = Cardinality(E)
    BY <1>9, HeldSets
  <2>4. A \cap B = B
    BY <1>2 DEF HeldSet
  <2> HIDE DEF A, B, E
  <2>5. Cardinality(A \ B) = Cardinality(A) - Cardinality(A \cap B)
    BY <2>2, FS_Difference
  <2> QED
    BY <2>1, <2>2, <2>3, <2>4, <2>5
<1>16. \A t \in DOMAIN e.entries[s] : Entry(e, s, t).published => Entry(book, s, t).published \/ t \in T
  BY <1>6, <1>7
<1> QED
  BY <1>9, <1>10, <1>11, <1>12, <1>13, <1>14, <1>15, <1>16 DEF BookFits, SettlesInto

\* Giving back deletes the tokens that nobody uses any more and that were never
\* published, and gives up their reservations (settleCapabilities).
LEMMA GivenBackFits ==
  ASSUME NEW m \in 0..MaxToken, NEW uses, BookFits(book, m, uses), NEW s \in Site, NEW n, NEW fewer,
         Takes(n, s, uses, fewer), NEW e, e = GivenBack(s, n)
  PROVE  SettlesInto(s, m, fewer, e, Withdrawn(s, n), {})
<1> DEFINE T == Settled(s, n)
           W == Withdrawn(s, n)
           gone == At(s, W)
<1>1. BookTyped(book, m)
  BY DEF BookFits
<1>2. /\ T \subseteq DOMAIN book.entries[s] /\ W \subseteq DOMAIN book.entries[s]
      /\ \A t \in DOMAIN book.entries[s] :
           /\ Entry(book, s, t).pending = uses[s][t] /\ Entry(book, s, t).pending >= n[t]
           /\ Entry(book, s, t).pending \in Nat /\ n[t] \in Nat
           /\ Entry(book, s, t).pending - n[t] = fewer[s][t]
           /\ t \notin T => n[t] = 0
  BY SettledAre
<1>3. \A x \in Site : gone[x] = IF x = s THEN W ELSE {}
  BY DEF At
<1>4. PICK c : /\ e = Deleted(c, gone) /\ c.index = book.index /\ c.active = book.active /\ DOMAIN c.entries = Site
               /\ c = [entries |-> c.entries, index |-> c.index, active |-> c.active]
               /\ \A x \in Site \ {s} : c.entries[x] = book.entries[x]
               /\ DOMAIN c.entries[s] = DOMAIN book.entries[s]
               /\ \A t \in DOMAIN book.entries[s] : t \notin T => c.entries[s][t] = book.entries[s][t]
               /\ \A t \in T : c.entries[s][t] = Without(Entry(book, s, t), n[t])
  <2> DEFINE new == [t \in DOMAIN book.entries[s] |->
               IF t \in Settled(s, n) THEN Without(Entry(book, s, t), n[t]) ELSE Entry(book, s, t)]
             d == [book EXCEPT !.entries[s] = new]
  <2>1. e = Deleted(d, gone)
    BY DEF GivenBack
  <2>2. DOMAIN new = DOMAIN book.entries[s]
    OBVIOUS
  <2>3. \A t \in DOMAIN book.entries[s] : t \notin T => new[t] = book.entries[s][t]
    BY DEF Entry
  <2>4. \A t \in T : new[t] = Without(Entry(book, s, t), n[t])
    BY <1>2
  <2> HIDE DEF new
  <2>5. /\ d.index = book.index /\ d.active = book.active /\ DOMAIN d.entries = Site
        /\ d = [entries |-> d.entries, index |-> d.index, active |-> d.active]
        /\ \A x \in Site \ {s} : d.entries[x] = book.entries[x]
        /\ d.entries[s] = new
    BY <1>1 DEF BookTyped
  <2> HIDE DEF d, gone
  <2> QED
    BY <2>1, <2>2, <2>3, <2>4, <2>5
<1>5. ASSUME NEW t \in T
      PROVE  /\ Entry(c, s, t) \in EntryRecord /\ Entry(c, s, t).pending = fewer[s][t]
             /\ Entry(c, s, t).published = Entry(book, s, t).published
             /\ Entry(c, s, t).holds = Entry(book, s, t).holds
             /\ Entry(c, s, t).key = Entry(book, s, t).key /\ Entry(c, s, t).expired = Entry(book, s, t).expired
  <2>1. PICK r : r = book.entries[s][t]
    OBVIOUS
  <2>2. r \in EntryRecord /\ t \in DOMAIN book.entries[s]
    BY <2>1, <1>1, <1>2 DEF BookTyped
  <2>3. PICK i \in Nat : i = r.pending - n[t] /\ i = fewer[s][t]
    BY <2>1, <2>2, <1>2 DEF Entry
  <2>4. Entry(book, s, t) = r
    BY <2>1 DEF Entry
  <2>5. Entry(c, s, t) = [r EXCEPT !.pending = i]
    <3>1. Entry(c, s, t) = Without(r, n[t])
      BY <2>4, <1>4 DEF Entry
    <3> QED
      BY <3>1, <2>3 DEF Without
  <2> QED
    BY ONLY <2>2, <2>3, <2>4, <2>5 DEF EntryRecord
<1>6. \A t \in DOMAIN book.entries[s] : t \notin T => Entry(c, s, t) = Entry(book, s, t)
  BY <1>4 DEF Entry
<1>7. \A x \in Site : DOMAIN c.entries[x] = DOMAIN book.entries[x]
  BY <1>4
<1>8. \A x \in Site : \A t \in DOMAIN book.entries[x] :
        /\ Entry(c, x, t).key = Entry(book, x, t).key /\ Entry(c, x, t).expired = Entry(book, x, t).expired
        /\ Entry(c, x, t).published = Entry(book, x, t).published
        /\ Entry(c, x, t).holds = Entry(book, x, t).holds
        /\ Entry(c, x, t) \in EntryRecord
  <2> SUFFICES ASSUME NEW x \in Site, NEW t \in DOMAIN book.entries[x]
               PROVE  /\ Entry(c, x, t).key = Entry(book, x, t).key
                      /\ Entry(c, x, t).expired = Entry(book, x, t).expired
                      /\ Entry(c, x, t).published = Entry(book, x, t).published
                      /\ Entry(c, x, t).holds = Entry(book, x, t).holds
                      /\ Entry(c, x, t) \in EntryRecord
    OBVIOUS
  <2>1. Entry(book, x, t) \in EntryRecord
    BY <1>1 DEF BookTyped, Entry
  <2>2. CASE x = s /\ t \in T
    BY <2>2, <1>5
  <2>3. CASE ~(x = s /\ t \in T)
    <3>1. Entry(c, x, t) = Entry(book, x, t)
      BY <2>3, <1>4 DEF Entry
    <3> QED
      BY <3>1, <2>1
  <2> QED
    BY <2>2, <2>3
<1>9. \A t \in DOMAIN book.entries[s] :
        /\ Entry(c, s, t).pending = fewer[s][t]
        /\ t \notin W /\ ~Entry(book, s, t).published => Entry(c, s, t).pending > 0
        /\ t \in W => Entry(c, s, t).pending = 0 /\ ~Entry(book, s, t).published
  <2> SUFFICES ASSUME NEW t \in DOMAIN book.entries[s]
               PROVE  /\ Entry(c, s, t).pending = fewer[s][t]
                      /\ t \notin W /\ ~Entry(book, s, t).published => Entry(c, s, t).pending > 0
                      /\ t \in W => Entry(c, s, t).pending = 0 /\ ~Entry(book, s, t).published
    OBVIOUS
  <2>1. ~Entry(book, s, t).published => Entry(book, s, t).pending > 0
    BY DEF BookFits, HoldsFit
  <2>2. Entry(c, s, t).pending = fewer[s][t]
    <3>1. CASE t \in T
      BY <3>1, <1>5
    <3>2. CASE t \notin T
      BY <3>2, <1>2, <1>6
    <3> QED
      BY <3>1, <3>2
  <2>3. t \in W <=> t \in T /\ Entry(book, s, t).pending = n[t] /\ ~Entry(book, s, t).published
    BY DEF Withdrawn
  <2>4. /\ Entry(book, s, t).pending >= n[t]
        /\ Entry(book, s, t).pending \in Nat /\ n[t] \in Nat
        /\ Entry(book, s, t).pending - n[t] = fewer[s][t]
        /\ t \notin T => n[t] = 0
    BY <1>2
  <2> HIDE DEF T, W
  <2> QED
    BY <2>1, <2>2, <2>3, <2>4
<1>10. Leaves(c, gone, e)
  BY <1>4, DeletedLeaves
<1>11. ActiveFits(c) /\ IndexFits(c)
  <2>1. ActiveFits(c)
    BY <1>4, <1>7 DEF BookFits, ActiveFits, PairsOf
  <2>2. IndexFits(book)
    BY DEF BookFits
  <2>3. ASSUME NEW x \in Site, NEW k \in DOMAIN c.index[x]
        PROVE  Registered(c, x, c.index[x][k]) /\ Entry(c, x, c.index[x][k]).key = k
    <3>1. c.index[x][k] = book.index[x][k] /\ k \in DOMAIN book.index[x]
      BY <1>4
    <3>2. book.index[x][k] \in DOMAIN book.entries[x] /\ Entry(book, x, book.index[x][k]).key = k
      BY <2>2, <3>1 DEF IndexFits, Registered
    <3> QED
      BY <3>1, <3>2, <1>7, <1>8 DEF Registered
  <2> QED
    BY <2>1, <2>3 DEF IndexFits
<1> HIDE DEF gone, W
<1>12. ActiveFits(e) /\ IndexFits(e)
  <2>1. \A x \in Site : gone[x] \subseteq DOMAIN c.entries[x]
    BY <1>2, <1>3, <1>7
  <2> QED
    BY <2>1, <1>10, <1>11, DeletedActive, DeletedIndex
<1>13. /\ \A x \in Site : DOMAIN e.entries[x] = IF x = s THEN DOMAIN book.entries[s] \ W ELSE DOMAIN book.entries[x]
       /\ \A x \in Site : \A t \in DOMAIN e.entries[x] : t \in DOMAIN book.entries[x] /\ Entry(e, x, t) = Entry(c, x, t)
       /\ \A x \in Site \ {s} : \A t \in DOMAIN book.entries[x] : Entry(e, x, t) = Entry(book, x, t)
  <2>1. \A x \in Site : DOMAIN e.entries[x] = DOMAIN c.entries[x] \ gone[x]
    BY <1>10 DEF Leaves
  <2>2. \A x \in Site : \A t \in DOMAIN e.entries[x] : e.entries[x][t] = c.entries[x][t]
    BY <1>10 DEF Leaves
  <2>3. \A x \in Site : DOMAIN e.entries[x] = IF x = s THEN DOMAIN book.entries[s] \ W ELSE DOMAIN book.entries[x]
    BY <2>1, <1>3, <1>7
  <2>4. \A x \in Site : \A t \in DOMAIN e.entries[x] : t \in DOMAIN book.entries[x] /\ Entry(e, x, t) = Entry(c, x, t)
    BY <2>2, <2>3 DEF Entry
  <2>5. \A x \in Site \ {s} : \A t \in DOMAIN book.entries[x] : Entry(e, x, t) = Entry(book, x, t)
    BY <2>2, <2>3, <1>4 DEF Entry
  <2> QED
    BY <2>3, <2>4, <2>5
<1>14. BookTyped(e, m)
  <2>1. \A x \in Site : \A t \in DOMAIN e.entries[x] : e.entries[x][t] \in EntryRecord
    BY <1>8, <1>13 DEF Entry
  <2>2. \A x \in Site : DOMAIN e.entries[x] \subseteq 1..m
    BY <1>1, <1>13 DEF BookTyped
  <2>3. \A x \in Site : DOMAIN e.index[x] \subseteq Key
    BY <1>1, <1>4, <1>10 DEF BookTyped, Leaves
  <2>4. e.active \in Nat
    BY <1>12, PairsAreFinite DEF ActiveFits
  <2> QED
    BY <2>1, <2>2, <2>3, <2>4, <1>10 DEF BookTyped, Leaves
<1>15. PendingFits(e, fewer)
  <2> SUFFICES ASSUME NEW x \in Site, NEW t \in Token
               PROVE  IF Registered(e, x, t) THEN Entry(e, x, t).pending = fewer[x][t] ELSE fewer[x][t] = 0
    BY DEF PendingFits
  <2>1. IF Registered(book, x, t) THEN Entry(book, x, t).pending = uses[x][t] ELSE uses[x][t] = 0
    BY DEF BookFits, PendingFits
  <2>2. CASE x # s
    <3>1. fewer[x][t] = uses[x][t]
      BY <2>2 DEF Takes
    <3> QED
      BY <2>2, <3>1, <2>1, <1>13 DEF Registered
  <2>3. CASE x = s /\ t \in DOMAIN book.entries[s] /\ t \notin W
    BY <2>3, <1>9, <1>13 DEF Registered
  <2>4. CASE x = s /\ t \in DOMAIN book.entries[s] /\ t \in W
    BY <2>4, <1>9, <1>13 DEF Registered
  <2>5. CASE x = s /\ t \notin DOMAIN book.entries[s]
    <3>1. uses[s][t] = 0 /\ n[t] \in Nat /\ n[t] <= uses[s][t] /\ fewer[s][t] = uses[s][t] - n[t]
      BY <2>1, <2>5 DEF Registered, Takes
    <3> QED
      BY <2>5, <3>1, <1>13 DEF Registered
  <2> QED
    BY <2>2, <2>3, <2>4, <2>5
<1>16. HoldsFit(e)
  <2> SUFFICES ASSUME NEW x \in Site, NEW t \in DOMAIN e.entries[x]
               PROVE  IF Entry(e, x, t).published THEN ~Entry(e, x, t).holds
                      ELSE Entry(e, x, t).pending > 0
                           /\ (Entry(e, x, t).holds = ~Trusted(Entry(e, x, t).key.target))
    BY DEF HoldsFit
  <2>1. t \in DOMAIN book.entries[x]
    BY <1>13
  <2>2. IF Entry(book, x, t).published THEN ~Entry(book, x, t).holds
        ELSE Entry(book, x, t).pending > 0
             /\ (Entry(book, x, t).holds = ~Trusted(Entry(book, x, t).key.target))
    BY <2>1 DEF BookFits, HoldsFit
  <2>3. CASE x = s
    <3>1. t \notin W /\ Entry(e, x, t) = Entry(c, x, t)
      BY <2>3, <1>13
    <3>2. ~Entry(book, s, t).published => Entry(c, s, t).pending > 0
      BY <2>1, <2>3, <3>1, <1>9
    <3> QED
      BY <2>1, <2>2, <2>3, <3>1, <3>2, <1>8
  <2>4. CASE x # s
    BY <2>1, <2>2, <2>4, <1>13
  <2> QED
    BY <2>3, <2>4
<1>17. KeepsKeys(s, e)
  <2>1. ASSUME NEW x \in Site, NEW t \in DOMAIN book.entries[x], Usable(book, x, t) PROVE Usable(e, x, t)
    <3>1. t \in DOMAIN e.entries[x]
      BY <2>1, <1>9, <1>13 DEF Usable
    <3>2. Entry(e, x, t).published = Entry(book, x, t).published /\ Entry(e, x, t).expired = Entry(book, x, t).expired
      BY <3>1, <1>8, <1>13
    <3> QED
      BY <2>1, <3>1, <3>2 DEF Usable, Valid, Registered
  <2> QED
    BY <2>1, <1>8, <1>13 DEF KeepsKeys
<1>18. ASSUME NEW a \in Authority
       PROVE  HeldIn(e, s, a) = HeldIn(book, s, a) - HeldBy(book, s, W)[a]
  <2> DEFINE A == HeldSet(book, s, DOMAIN book.entries[s], a)
             B == HeldSet(book, s, W, a)
             E == HeldSet(e, s, DOMAIN e.entries[s], a)
  <2>1. \A t \in DOMAIN e.entries[s] :
          /\ Entry(e, s, t).holds = Entry(book, s, t).holds
          /\ Entry(e, s, t).key = Entry(book, s, t).key
    BY <1>8, <1>13
  <2>2. E = A \ B
    BY <2>1, <1>13 DEF HeldSet
  <2>3. W \subseteq DOMAIN book.entries[s]
    BY <1>2 DEF W
  <2>4. /\ IsFiniteSet(A) /\ HeldIn(book, s, a) = Cardinality(A)
        /\ HeldBy(book, s, W)[a] = Cardinality(B)
    BY <1>1, <2>3, HeldSets
  <2>5. HeldIn(e, s, a) = Cardinality(E)
    BY <1>14, HeldSets
  <2>6. A \cap B = B
    BY <2>3 DEF HeldSet
  <2> HIDE DEF A, B, E
  <2>7. Cardinality(A \ B) = Cardinality(A) - Cardinality(A \cap B)
    BY <2>4, FS_Difference
  <2> QED
    BY <2>2, <2>4, <2>5, <2>6, <2>7
<1>19. \A t \in DOMAIN e.entries[s] : Entry(e, s, t).published => Entry(book, s, t).published
  BY <1>8, <1>13
<1> QED
  BY <1>12, <1>14, <1>15, <1>16, <1>17, <1>18, <1>19 DEF BookFits, SettlesInto, W

-----------------------------------------------------------------------------
(* The operations on the authorities.                                        *)

\* A committed authority stays known and committed.
CommitsStay ==
  \A s \in Site, a \in Authority :
    IsKnown(s, a) /\ authorities[s][a].committed => IsKnown(s, a)' /\ (authorities[s][a].committed)'

KnowersOf(a) == {s \in Site : IsKnown(s, a)}

LEMMA KnowersAreFinite == ASSUME NEW a PROVE IsFiniteSet(KnowersOf(a))
<1>1. KnowersOf(a) \subseteq Site
  BY DEF KnowersOf
<1> QED
  BY <1>1, SiteAssumption, FS_Subset

\* More and fewer reservations of site s.
MoreAt(s, a, held, more) ==
  \A x \in Site, y \in Authority :
    /\ x = s /\ y = a => more[x][y] = held[x][y] + 1
    /\ ~(x = s /\ y = a) => more[x][y] = held[x][y]
FewerAt(s, n, held, fewer) ==
  /\ \A a \in Authority : n[a] \in Nat /\ n[a] <= held[s][a] /\ fewer[s][a] = held[s][a] - n[a]
  /\ \A x \in Site \ {s} : \A a \in Authority : fewer[x][a] = held[x][a]

NatTable(held) == \A s \in Site, a \in Authority : held[s][a] \in Nat

LEMMA OneKnownMore ==
  ASSUME NEW S, NEW T, NEW s, IsFiniteSet(S), T = S \union {s}, s \notin S
  PROVE  Cardinality(T) = Cardinality(S) + 1
BY FS_AddElement

\* A reservation keeps the authority known, and counts (reserveAuthority).
LEMMA ReserveFits ==
  ASSUME AuthoritiesTyped, KnownFits, NEW held, NatTable(held), InFlightFits(held),
         NEW s \in Site, NEW a \in Authority, ReserveAuthority(s, a), NEW more, MoreAt(s, a, held, more)
  PROVE  /\ AuthoritiesTyped' /\ KnownFits' /\ InFlightFits(more)' /\ CommitsStay
         /\ \A x \in Site \ {s} : authorities'[x] = authorities[x]
<1>1. CASE IsKnown(s, a)
  <2> DEFINE new == Again(authorities[s][a])
  <2>1. authorities' = [authorities EXCEPT ![s][a] = new] /\ UNCHANGED <<known, newOf, newAll>>
    BY <1>1 DEF ReserveAuthority
  <2>2. a \in DOMAIN authorities[s] /\ authorities[s][a] \in AuthorityEntry
    BY <1>1 DEF IsKnown, AuthoritiesTyped
  <2>3. /\ new \in AuthorityEntry /\ new.committed = authorities[s][a].committed
        /\ new.inFlight = authorities[s][a].inFlight + 1 /\ new.inFlight \in Nat
        /\ new.resolution # "none"
    <3>1. PICK e \in AuthorityEntry : e = authorities[s][a]
      BY <2>2
    <3>2. PICK i \in Nat : i = e.inFlight + 1
      BY DEF AuthorityEntry
    <3>3. PICK o \in {"fresh", "known", "failed"} : o = IF e.resolution = "none" THEN "fresh" ELSE e.resolution
      BY DEF AuthorityEntry
    <3>4. new = [e EXCEPT !.inFlight = i, !.resolution = o]
      BY <3>1, <3>2, <3>3 DEF Again
    <3> HIDE DEF new
    <3> QED
      BY <3>1, <3>2, <3>3, <3>4 DEF AuthorityEntry
  <2> HIDE DEF new
  <2>4. /\ DOMAIN authorities' = Site
        /\ \A x \in Site : DOMAIN authorities'[x] = DOMAIN authorities[x]
        /\ \A x \in Site : \A y \in DOMAIN authorities[x] : ~(x = s /\ y = a) => authorities'[x][y] = authorities[x][y]
        /\ authorities'[s][a] = new
        /\ \A x \in Site \ {s} : authorities'[x] = authorities[x]
    BY <2>1, <2>2 DEF AuthoritiesTyped
  <2>5. AuthoritiesTyped'
    <3>1. \A x \in Site : \A y \in DOMAIN authorities'[x] : authorities'[x][y] \in AuthorityEntry
      BY <2>3, <2>4 DEF AuthoritiesTyped
    <3> QED
      BY <2>1, <2>4, <3>1 DEF AuthoritiesTyped
  <2>6. \A x \in Site, y \in Authority : IsKnown(x, y)' <=> IsKnown(x, y)
    BY <2>4 DEF IsKnown
  <2>7. KnownFits'
    BY <2>1, <2>6 DEF KnownFits
  <2>8. InFlightFits(more)'
    <3> SUFFICES ASSUME NEW x \in Site, NEW y \in Authority
                 PROVE  IF IsKnown(x, y)'
                          THEN /\ Covers(authorities'[x][y].inFlight, more[x][y])
                               /\ authorities'[x][y].inFlight > 0 \/ authorities'[x][y].committed
                               /\ authorities'[x][y].inFlight = 0 <=> authorities'[x][y].resolution = "none"
                          ELSE more[x][y] = 0
      BY DEF InFlightFits
    <3>1. IF IsKnown(x, y)
            THEN /\ Covers(authorities[x][y].inFlight, held[x][y])
                 /\ authorities[x][y].inFlight > 0 \/ authorities[x][y].committed
                 /\ authorities[x][y].inFlight = 0 <=> authorities[x][y].resolution = "none"
            ELSE held[x][y] = 0
      BY DEF InFlightFits
    <3>2. CASE x = s /\ y = a
      <4>1. more[x][y] = held[x][y] + 1 /\ held[x][y] \in Nat
        BY <3>2 DEF MoreAt, NatTable
      <4>2. authorities[s][a].inFlight \in Nat
        BY <2>2 DEF AuthorityEntry
      <4> QED
        BY <3>1, <3>2, <4>1, <4>2, <1>1, <2>3, <2>4, <2>6 DEF Covers
    <3>3. CASE ~(x = s /\ y = a)
      <4>1. more[x][y] = held[x][y]
        BY <3>3 DEF MoreAt
      <4>2. IsKnown(x, y) => authorities'[x][y] = authorities[x][y]
        BY <3>3, <2>4 DEF IsKnown
      <4> QED
        BY <3>1, <4>1, <4>2, <2>6
    <3> QED
      BY <3>2, <3>3
  <2>9. CommitsStay
    <3> SUFFICES ASSUME NEW x \in Site, NEW y \in Authority, IsKnown(x, y), authorities[x][y].committed
                 PROVE  IsKnown(x, y)' /\ authorities'[x][y].committed
      BY DEF CommitsStay
    <3>1. authorities'[x][y].committed
      <4>1. CASE x = s /\ y = a
        BY <4>1, <2>3, <2>4
      <4>2. CASE ~(x = s /\ y = a)
        BY <4>2, <2>4 DEF IsKnown
      <4> QED
        BY <4>1, <4>2
    <3> QED
      BY <3>1, <2>6
  <2> QED
    BY <2>4, <2>5, <2>7, <2>8, <2>9
<1>2. CASE ~IsKnown(s, a)
  <2> DEFINE new == [committed |-> FALSE, inFlight |-> 1, resolution |-> "fresh"]
  <2>1. /\ authorities' = [authorities EXCEPT ![s] = Put(authorities[s], a, new)]
        /\ newOf' = [newOf EXCEPT ![s] = @ + 1]
        /\ newAll' = IF known[a] = 0 THEN newAll + 1 ELSE newAll
        /\ known' = [known EXCEPT ![a] = @ + 1]
    BY <1>2 DEF ReserveAuthority
  <2>2. a \notin DOMAIN authorities[s] /\ new \in AuthorityEntry /\ new.inFlight = 1 /\ new.resolution # "none"
    BY <1>2 DEF IsKnown, AuthorityEntry
  <2> HIDE DEF new
  <2>3. /\ DOMAIN authorities' = Site
        /\ \A x \in Site \ {s} : authorities'[x] = authorities[x]
        /\ authorities'[s] = Put(authorities[s], a, new)
    BY <2>1 DEF AuthoritiesTyped
  <2>4. /\ DOMAIN authorities'[s] = DOMAIN authorities[s] \union {a}
        /\ authorities'[s][a] = new
        /\ \A y \in DOMAIN authorities[s] : authorities'[s][y] = authorities[s][y]
    BY <2>2, <2>3 DEF Put
  <2>5. AuthoritiesTyped'
    <3>1. ASSUME NEW x \in Site
          PROVE  /\ DOMAIN authorities'[x] \subseteq Authority
                 /\ \A y \in DOMAIN authorities'[x] : authorities'[x][y] \in AuthorityEntry
      <4>1. CASE x = s
        BY <4>1, <2>2, <2>4 DEF AuthoritiesTyped
      <4>2. CASE x # s
        BY <4>2, <2>3 DEF AuthoritiesTyped
      <4> QED
        BY <4>1, <4>2
    <3>2. known' \in [Authority -> Nat] /\ newOf' \in [Site -> Nat] /\ newAll' \in Nat
      BY <2>1 DEF AuthoritiesTyped
    <3> QED
      BY <2>3, <3>1, <3>2 DEF AuthoritiesTyped
  <2>6. \A x \in Site, y \in Authority : IsKnown(x, y)' <=> IsKnown(x, y) \/ (x = s /\ y = a)
    BY <2>3, <2>4 DEF IsKnown
  <2>7. KnownFits'
    <3> SUFFICES ASSUME NEW y \in Authority PROVE known'[y] = Cardinality({x \in Site : IsKnown(x, y)'})
      BY DEF KnownFits
    <3>1. known[y] = Cardinality(KnowersOf(y)) /\ IsFiniteSet(KnowersOf(y))
      BY KnowersAreFinite DEF KnownFits, KnowersOf
    <3> DEFINE K == {x \in Site : IsKnown(x, y)'}
    <3>2. CASE y = a
      <4>1. K = KnowersOf(y) \union {s} /\ s \notin KnowersOf(y)
        BY <3>2, <2>6, <1>2 DEF KnowersOf
      <4>2. known'[y] = known[y] + 1
        BY <3>2, <2>1 DEF AuthoritiesTyped
      <4> HIDE DEF K
      <4>3. Cardinality(K) = Cardinality(KnowersOf(y)) + 1
        BY <4>1, <3>1, OneKnownMore
      <4> QED
        BY <4>2, <4>3, <3>1 DEF K
    <3>3. CASE y # a
      <4>1. K = KnowersOf(y)
        BY <3>3, <2>6 DEF KnowersOf
      <4>2. known'[y] = known[y]
        BY <3>3, <2>1 DEF AuthoritiesTyped
      <4> QED
        BY <4>1, <4>2, <3>1
    <3> QED
      BY <3>2, <3>3
  <2>8. InFlightFits(more)'
    <3> SUFFICES ASSUME NEW x \in Site, NEW y \in Authority
                 PROVE  IF IsKnown(x, y)'
                          THEN /\ Covers(authorities'[x][y].inFlight, more[x][y])
                               /\ authorities'[x][y].inFlight > 0 \/ authorities'[x][y].committed
                               /\ authorities'[x][y].inFlight = 0 <=> authorities'[x][y].resolution = "none"
                          ELSE more[x][y] = 0
      BY DEF InFlightFits
    <3>1. IF IsKnown(x, y)
            THEN /\ Covers(authorities[x][y].inFlight, held[x][y])
                 /\ authorities[x][y].inFlight > 0 \/ authorities[x][y].committed
                 /\ authorities[x][y].inFlight = 0 <=> authorities[x][y].resolution = "none"
            ELSE held[x][y] = 0
      BY DEF InFlightFits
    <3>2. CASE x = s /\ y = a
      <4>1. more[x][y] = held[x][y] + 1 /\ held[x][y] = 0
        BY <3>1, <3>2, <1>2 DEF MoreAt
      <4> QED
        BY <3>2, <4>1, <2>2, <2>4, <2>6 DEF Covers
    <3>3. CASE ~(x = s /\ y = a)
      <4>1. more[x][y] = held[x][y]
        BY <3>3 DEF MoreAt
      <4>2. IsKnown(x, y) => authorities'[x][y] = authorities[x][y]
        BY <2>3, <2>4 DEF IsKnown
      <4>3. IsKnown(x, y)' <=> IsKnown(x, y)
        BY <3>3, <2>6
      <4> QED
        BY <3>1, <4>1, <4>2, <4>3
    <3> QED
      BY <3>2, <3>3
  <2>9. CommitsStay
    <3> SUFFICES ASSUME NEW x \in Site, NEW y \in Authority, IsKnown(x, y), authorities[x][y].committed
                 PROVE  IsKnown(x, y)' /\ authorities'[x][y].committed
      BY DEF CommitsStay
    <3>1. authorities'[x][y] = authorities[x][y]
      BY <2>3, <2>4 DEF IsKnown
    <3> QED
      BY <3>1, <2>6
  <2> QED
    BY <2>3, <2>5, <2>7, <2>8, <2>9
<1> QED
  BY <1>1, <1>2

\* What finishing commits.
Commits(s, n) == \A a \in Authority : n[a] > 0 => IsKnown(s, a)' /\ (authorities[s][a].committed)'

\* The reservations of n are counted; the last one forgets an authority that
\* nobody ever committed (finishLocked).
LEMMA FinishFits ==
  ASSUME AuthoritiesTyped, KnownFits, NEW held, NatTable(held), InFlightFits(held),
         NEW s \in Site, NEW n, NEW commit \in BOOLEAN, FinishAuthorities(s, n, commit),
         NEW fewer, FewerAt(s, n, held, fewer)
  PROVE  /\ AuthoritiesTyped' /\ KnownFits' /\ InFlightFits(fewer)' /\ CommitsStay
         /\ \A x \in Site \ {s} : authorities'[x] = authorities[x]
         /\ commit => Commits(s, n)
<1>1. PICK gone : gone = Forgotten(s, n, commit)
  OBVIOUS
<1>2. /\ authorities' = [authorities EXCEPT ![s] =
            [a \in DOMAIN authorities[s] \ gone |-> EntryAfter(authorities[s][a], n[a], commit)]]
      /\ known' = [a \in Authority |-> IF a \in gone THEN known[a] - 1 ELSE known[a]]
      /\ newOf' = newOf /\ newAll' = newAll
  BY <1>1 DEF FinishAuthorities
<1>3. /\ DOMAIN authorities' = Site
      /\ \A x \in Site \ {s} : authorities'[x] = authorities[x]
      /\ DOMAIN authorities'[s] = DOMAIN authorities[s] \ gone
      /\ \A a \in DOMAIN authorities'[s] : authorities'[s][a] = EntryAfter(authorities[s][a], n[a], commit)
  <2> DEFINE new == [a \in DOMAIN authorities[s] \ gone |-> EntryAfter(authorities[s][a], n[a], commit)]
  <2>1. DOMAIN new = DOMAIN authorities[s] \ gone
        /\ \A a \in DOMAIN new : new[a] = EntryAfter(authorities[s][a], n[a], commit)
    OBVIOUS
  <2> HIDE DEF new
  <2>2. /\ DOMAIN authorities' = Site /\ authorities'[s] = new
        /\ \A x \in Site \ {s} : authorities'[x] = authorities[x]
    BY <1>2 DEF AuthoritiesTyped, new
  <2> QED
    BY <2>1, <2>2
<1>4. ASSUME NEW a \in DOMAIN authorities[s]
      PROVE  /\ a \in Authority /\ authorities[s][a] \in AuthorityEntry /\ authorities[s][a].inFlight \in Nat
             /\ n[a] \in Nat /\ n[a] <= authorities[s][a].inFlight
             /\ Covers(authorities[s][a].inFlight - n[a], fewer[s][a])
             /\ authorities[s][a].inFlight = 0 => authorities[s][a].committed /\ authorities[s][a].resolution = "none"
             /\ authorities[s][a].inFlight # 0 => authorities[s][a].resolution # "none"
  <2>1. a \in Authority /\ authorities[s][a] \in AuthorityEntry /\ authorities[s][a].inFlight \in Nat
    BY DEF AuthoritiesTyped, AuthorityEntry
  <2>2. n[a] \in Nat /\ n[a] <= held[s][a] /\ fewer[s][a] = held[s][a] - n[a] /\ held[s][a] \in Nat
    BY <2>1 DEF FewerAt, NatTable
  <2>3. /\ Covers(authorities[s][a].inFlight, held[s][a])
        /\ authorities[s][a].inFlight > 0 \/ authorities[s][a].committed
        /\ authorities[s][a].inFlight = 0 <=> authorities[s][a].resolution = "none"
    BY <2>1 DEF InFlightFits, IsKnown
  <2> QED
    BY <2>1, <2>2, <2>3 DEF Covers
<1>5. ASSUME NEW a \in DOMAIN authorities[s]
      PROVE  /\ EntryAfter(authorities[s][a], n[a], commit) \in AuthorityEntry
             /\ EntryAfter(authorities[s][a], n[a], commit).inFlight = authorities[s][a].inFlight - n[a]
             /\ EntryAfter(authorities[s][a], n[a], commit).committed
                  <=> authorities[s][a].committed \/ (commit /\ n[a] > 0)
             /\ EntryAfter(authorities[s][a], n[a], commit).resolution = "none"
                  <=> authorities[s][a].inFlight = n[a]
  <2>1. PICK e \in AuthorityEntry : e = authorities[s][a]
    BY <1>4
  <2>2. PICK k \in Nat : k = n[a] /\ k <= e.inFlight
    BY <1>4, <2>1
  <2>3. PICK i \in Nat : i = e.inFlight - k
    BY <2>2 DEF AuthorityEntry
  <2>4. EntryAfter(e, k, commit) = [committed |-> e.committed \/ (commit /\ k > 0), inFlight |-> i,
                                    resolution |-> IF e.inFlight = k THEN "none" ELSE e.resolution]
    BY <2>3 DEF EntryAfter
  <2>5. e.resolution = "none" => e.inFlight = k
    BY <1>4, <2>1, <2>2 DEF AuthorityEntry
  <2>6. /\ EntryAfter(e, k, commit) \in AuthorityEntry
        /\ EntryAfter(e, k, commit).inFlight = i
        /\ EntryAfter(e, k, commit).committed <=> e.committed \/ (commit /\ k > 0)
        /\ EntryAfter(e, k, commit).resolution = "none" <=> e.inFlight = k
    BY <2>4, <2>5 DEF AuthorityEntry
  <2> QED
    BY <2>1, <2>2, <2>3, <2>6
<1>6. \A a : a \in gone <=> /\ a \in DOMAIN authorities[s] /\ n[a] > 0
                            /\ EntryAfter(authorities[s][a], n[a], commit).inFlight = 0
                            /\ ~EntryAfter(authorities[s][a], n[a], commit).committed
  BY <1>1 DEF Forgotten
<1>7. ASSUME NEW a \in gone
      PROVE  a \in DOMAIN authorities[s] /\ fewer[s][a] = 0 /\ ~authorities[s][a].committed /\ ~commit
  <2>1. authorities[s][a].inFlight - n[a] = 0
    BY <1>5, <1>6
  <2>2. Covers(0, fewer[s][a]) /\ a \in Authority
    BY <1>4, <1>6, <2>1
  <2>3. fewer[s][a] \in Nat
    BY <2>2 DEF FewerAt, NatTable
  <2> QED
    BY <2>2, <2>3, <1>5, <1>6 DEF Covers
<1>8. AuthoritiesTyped'
  <2>1. ASSUME NEW x \in Site
        PROVE  /\ DOMAIN authorities'[x] \subseteq Authority
               /\ \A a \in DOMAIN authorities'[x] : authorities'[x][a] \in AuthorityEntry
    <3>1. CASE x = s
      BY <3>1, <1>3, <1>5 DEF AuthoritiesTyped
    <3>2. CASE x # s
      BY <3>2, <1>3 DEF AuthoritiesTyped
    <3> QED
      BY <3>1, <3>2
  <2>2. known' \in [Authority -> Nat]
    <3>1. ASSUME NEW a \in gone PROVE a \in Authority /\ known[a] \in Nat /\ known[a] >= 1
      <4>1. a \in Authority /\ s \in KnowersOf(a)
        BY <1>7 DEF AuthoritiesTyped, KnowersOf, IsKnown
      <4>2. known[a] = Cardinality(KnowersOf(a))
        BY <4>1 DEF KnownFits, KnowersOf
      <4>3. Cardinality(KnowersOf(a)) >= 1 /\ Cardinality(KnowersOf(a)) \in Nat
        BY <4>1, KnowersAreFinite, SetMoves
      <4> QED
        BY <4>1, <4>2, <4>3
    <3> QED
      BY <3>1, <1>2 DEF AuthoritiesTyped
  <2> QED
    BY <2>1, <2>2, <1>2, <1>3 DEF AuthoritiesTyped
<1>9. \A x \in Site, a \in Authority : IsKnown(x, a)' <=> IsKnown(x, a) /\ ~(x = s /\ a \in gone)
  BY <1>3 DEF IsKnown
<1>10. KnownFits'
  <2> SUFFICES ASSUME NEW a \in Authority PROVE known'[a] = Cardinality({x \in Site : IsKnown(x, a)'})
    BY DEF KnownFits
  <2> DEFINE K == {x \in Site : IsKnown(x, a)'}
  <2>1. known[a] = Cardinality(KnowersOf(a)) /\ IsFiniteSet(KnowersOf(a))
    BY KnowersAreFinite DEF KnownFits, KnowersOf
  <2>2. CASE a \in gone
    <3>1. K = KnowersOf(a) \ {s} /\ s \in KnowersOf(a)
      BY <2>2, <1>7, <1>9 DEF KnowersOf, IsKnown
    <3>2. known'[a] = known[a] - 1
      BY <2>2, <1>2
    <3> HIDE DEF K
    <3>3. Cardinality(K) = Cardinality(KnowersOf(a)) - 1
      BY <3>1, <2>1, SetMoves
    <3> QED
      BY <3>2, <3>3, <2>1 DEF K
  <2>3. CASE a \notin gone
    <3>1. K = KnowersOf(a)
      BY <2>3, <1>9 DEF KnowersOf
    <3> QED
      BY <2>1, <2>3, <3>1, <1>2
  <2> QED
    BY <2>2, <2>3
<1>11. InFlightFits(fewer)'
  <2> SUFFICES ASSUME NEW x \in Site, NEW a \in Authority
               PROVE  IF IsKnown(x, a)'
                        THEN /\ Covers(authorities'[x][a].inFlight, fewer[x][a])
                             /\ authorities'[x][a].inFlight > 0 \/ authorities'[x][a].committed
                             /\ authorities'[x][a].inFlight = 0 <=> authorities'[x][a].resolution = "none"
                        ELSE fewer[x][a] = 0
    BY DEF InFlightFits
  <2>1. IF IsKnown(x, a)
          THEN /\ Covers(authorities[x][a].inFlight, held[x][a])
               /\ authorities[x][a].inFlight > 0 \/ authorities[x][a].committed
               /\ authorities[x][a].inFlight = 0 <=> authorities[x][a].resolution = "none"
          ELSE held[x][a] = 0
    BY DEF InFlightFits
  <2>2. CASE x # s
    <3>1. fewer[x][a] = held[x][a] /\ authorities'[x] = authorities[x]
      BY <2>2, <1>3 DEF FewerAt
    <3>2. IsKnown(x, a)' <=> IsKnown(x, a)
      BY <2>2, <1>9
    <3> QED
      BY <2>1, <3>1, <3>2
  <2>3. CASE x = s /\ ~IsKnown(s, a)
    <3>1. held[s][a] = 0 /\ n[a] \in Nat /\ n[a] <= held[s][a] /\ fewer[s][a] = held[s][a] - n[a]
      BY <2>1, <2>3 DEF FewerAt
    <3> QED
      BY <2>3, <3>1, <1>9
  <2>4. CASE x = s /\ a \in gone
    BY <2>4, <1>7, <1>9
  <2>5. CASE x = s /\ IsKnown(s, a) /\ a \notin gone
    <3>1. a \in DOMAIN authorities[s] /\ a \in DOMAIN authorities'[s]
      BY <2>5, <1>3 DEF IsKnown
    <3>2. PICK e : e = EntryAfter(authorities[s][a], n[a], commit)
      OBVIOUS
    <3>3. authorities'[s][a] = e
      BY <3>1, <3>2, <1>3
    <3>4. e.inFlight = authorities[s][a].inFlight - n[a] /\ e.inFlight \in Nat
      BY <3>1, <3>2, <1>4, <1>5 DEF AuthorityEntry
    <3>5. e.resolution = "none" <=> e.inFlight = 0
      BY <3>1, <3>2, <3>4, <1>4, <1>5
    <3>6. e.inFlight > 0 \/ e.committed
      BY <3>1, <3>2, <3>4, <2>5, <1>4, <1>5, <1>6
    <3>7. Covers(e.inFlight, fewer[s][a])
      BY <3>1, <3>4, <1>4
    <3> QED
      BY <2>5, <3>3, <3>5, <3>6, <3>7, <1>9
  <2> QED
    BY <2>2, <2>3, <2>4, <2>5
<1>12. CommitsStay
  <2> SUFFICES ASSUME NEW x \in Site, NEW a \in Authority, IsKnown(x, a), authorities[x][a].committed
               PROVE  IsKnown(x, a)' /\ authorities'[x][a].committed
    BY DEF CommitsStay
  <2>1. CASE x = s
    <3>1. a \notin gone /\ a \in DOMAIN authorities[s]
      BY <2>1, <1>7 DEF IsKnown
    <3> QED
      BY <2>1, <3>1, <1>3, <1>5, <1>9
  <2>2. CASE x # s
    BY <2>2, <1>3, <1>9
  <2> QED
    BY <2>1, <2>2
<1>13. ASSUME commit PROVE Commits(s, n)
  <2> SUFFICES ASSUME NEW a \in Authority, n[a] > 0 PROVE IsKnown(s, a)' /\ authorities'[s][a].committed
    BY DEF Commits
  <2>1. a \in DOMAIN authorities[s]
    <3>1. held[s][a] \in Nat /\ n[a] \in Nat /\ n[a] <= held[s][a]
      BY DEF FewerAt, NatTable
    <3>2. held[s][a] # 0
      BY <3>1
    <3> QED
      BY <3>2 DEF InFlightFits, IsKnown
  <2>2. a \notin gone
    BY <1>7, <1>13
  <2> QED
    BY <2>1, <2>2, <1>3, <1>5, <1>9, <1>13 DEF IsKnown
<1> QED
  BY <1>3, <1>8, <1>10, <1>11, <1>12, <1>13

\* A table that counts fewer of what is forgotten anyway.
Lowers(low, held) ==
  \A s \in Site, a \in Authority :
    /\ low[s][a] \in Nat /\ held[s][a] \in Nat /\ low[s][a] <= held[s][a]
    /\ OneWay => low[s][a] = held[s][a]

LEMMA InFlightLowers ==
  ASSUME AuthoritiesTyped', NEW held, NEW low, InFlightFits(held)', Lowers(low, held)
  PROVE  InFlightFits(low)'
<1> SUFFICES ASSUME NEW s \in Site, NEW a \in Authority
             PROVE  IF IsKnown(s, a)'
                      THEN /\ Covers(authorities'[s][a].inFlight, low[s][a])
                           /\ authorities'[s][a].inFlight > 0 \/ authorities'[s][a].committed
                           /\ authorities'[s][a].inFlight = 0 <=> authorities'[s][a].resolution = "none"
                      ELSE low[s][a] = 0
  BY DEF InFlightFits
<1>1. /\ low[s][a] \in Nat /\ held[s][a] \in Nat /\ low[s][a] <= held[s][a]
      /\ OneWay => low[s][a] = held[s][a]
  BY DEF Lowers
<1>2. IsKnown(s, a)' => authorities'[s][a].inFlight \in Nat
  BY DEF AuthoritiesTyped, AuthorityEntry, IsKnown
<1> QED
  BY <1>1, <1>2 DEF InFlightFits, Covers

\* The answer of the resolver changes nothing that is counted.
LEMMA ResolutionFits ==
  ASSUME AuthoritiesTyped, KnownFits, NEW held, InFlightFits(held),
         NEW s \in Site, NEW a, IsKnown(s, a), authorities[s][a].resolution # "none",
         NEW answer \in {"known", "failed"},
         authorities' = [authorities EXCEPT ![s][a].resolution = answer], UNCHANGED <<known, newOf, newAll>>
  PROVE  /\ AuthoritiesTyped' /\ KnownFits' /\ InFlightFits(held)' /\ CommitsStay
         /\ \A x \in Site \ {s} : authorities'[x] = authorities[x]
<1>1. PICK e \in AuthorityEntry : e = authorities[s][a] /\ a \in DOMAIN authorities[s]
  BY DEF AuthoritiesTyped, IsKnown
<1>2. PICK new \in AuthorityEntry :
        /\ new = [e EXCEPT !.resolution = answer]
        /\ new.resolution = answer /\ new.inFlight = e.inFlight /\ new.committed = e.committed
  <2> DEFINE m == [e EXCEPT !.resolution = answer]
  <2>1. m \in AuthorityEntry /\ m.resolution = answer /\ m.inFlight = e.inFlight /\ m.committed = e.committed
    BY DEF AuthorityEntry
  <2> QED
    BY <2>1
<1>3. authorities' = [authorities EXCEPT ![s][a] = new]
  BY <1>1, <1>2
<1>4. /\ DOMAIN authorities' = Site
      /\ \A x \in Site : DOMAIN authorities'[x] = DOMAIN authorities[x]
      /\ \A x \in Site : \A y \in DOMAIN authorities[x] : ~(x = s /\ y = a) => authorities'[x][y] = authorities[x][y]
      /\ authorities'[s][a] = new
      /\ \A x \in Site \ {s} : authorities'[x] = authorities[x]
  BY <1>1, <1>3 DEF AuthoritiesTyped
<1>5. AuthoritiesTyped'
  <2>1. \A x \in Site : \A y \in DOMAIN authorities'[x] : authorities'[x][y] \in AuthorityEntry
    BY <1>2, <1>4 DEF AuthoritiesTyped
  <2> QED
    BY <1>4, <2>1 DEF AuthoritiesTyped
<1>6. \A x \in Site, y \in Authority : IsKnown(x, y)' <=> IsKnown(x, y)
  BY <1>4 DEF IsKnown
<1>7. KnownFits'
  BY <1>6 DEF KnownFits
<1>8. \A x \in Site : \A y \in DOMAIN authorities[x] :
        /\ authorities'[x][y].inFlight = authorities[x][y].inFlight
        /\ authorities'[x][y].committed = authorities[x][y].committed
        /\ authorities'[x][y].resolution = "none" <=> authorities[x][y].resolution = "none"
  <2> SUFFICES ASSUME NEW x \in Site, NEW y \in DOMAIN authorities[x]
               PROVE  /\ authorities'[x][y].inFlight = authorities[x][y].inFlight
                      /\ authorities'[x][y].committed = authorities[x][y].committed
                      /\ authorities'[x][y].resolution = "none" <=> authorities[x][y].resolution = "none"
    OBVIOUS
  <2>1. CASE x = s /\ y = a
    BY <2>1, <1>1, <1>2, <1>4
  <2>2. CASE ~(x = s /\ y = a)
    BY <2>2, <1>4
  <2> QED
    BY <2>1, <2>2
<1>9. InFlightFits(held)'
  <2> SUFFICES ASSUME NEW x \in Site, NEW y \in Authority
               PROVE  IF IsKnown(x, y)'
                        THEN /\ Covers(authorities'[x][y].inFlight, held[x][y])
                             /\ authorities'[x][y].inFlight > 0 \/ authorities'[x][y].committed
                             /\ authorities'[x][y].inFlight = 0 <=> authorities'[x][y].resolution = "none"
                        ELSE held[x][y] = 0
    BY DEF InFlightFits
  <2>1. IF IsKnown(x, y)
          THEN /\ Covers(authorities[x][y].inFlight, held[x][y])
               /\ authorities[x][y].inFlight > 0 \/ authorities[x][y].committed
               /\ authorities[x][y].inFlight = 0 <=> authorities[x][y].resolution = "none"
          ELSE held[x][y] = 0
    BY DEF InFlightFits
  <2>2. CASE IsKnown(x, y)
    <3>1. y \in DOMAIN authorities[x]
      BY <2>2 DEF IsKnown
    <3> QED
      BY <2>1, <2>2, <3>1, <1>6, <1>8
  <2>3. CASE ~IsKnown(x, y)
    BY <2>1, <2>3, <1>6
  <2> QED
    BY <2>2, <2>3
<1>10. CommitsStay
  BY <1>6, <1>8 DEF CommitsStay, IsKnown
<1> QED
  BY <1>4, <1>5, <1>7, <1>9, <1>10

-----------------------------------------------------------------------------
(* One request changes.                                                      *)

\* p holds what q holds, at the same site.
SameHoldings(q, p) ==
  /\ p.site = q.site /\ p.own = q.own /\ p.res = q.res /\ p.lease = q.lease
  /\ p.stream = q.stream /\ p.parse = q.parse /\ p.half = q.half
  /\ p.token = q.token /\ p.minted = q.minted

\* A request that is done has nothing left but what it forgot about.
LEMMA EndedFits ==
  ASSUME NEW q \in RequestRecord, Fits(q), Done(q),
         NEW p, p = [Fresh(q.site) EXCEPT !.at = "ended", !.lost = q.lost]
  PROVE  p \in RequestRecord /\ Fits(p) /\ SameHoldings(q, p)
<1>1. /\ "ended" \in Places /\ Nothing \in Doings /\ Nothing \in SomeAuthority /\ NoToken \in SomeToken
      /\ Nothing \in Pool \union {Nothing} /\ 0 \in 0..MaxDepth
      /\ NoKey \in [target : Target \union {Nothing}, depth : Nat]
  BY LimitAssumption DEF Places, Doings, SomeAuthority, SomeToken, NoKey
<1>2. q.lost \in [lease : Seq(Authority), stream : BOOLEAN] /\ q.site \in Site
  BY DEF RequestRecord
<1>3. PICK x \in Site : x = q.site
  BY <1>2
<1>4. PICK l \in [lease : Seq(Authority), stream : BOOLEAN] : l = q.lost
  BY <1>2
<1>5. p = [site |-> x, at |-> "ended", doing |-> Nothing, served |-> NoToken, own |-> Nothing,
           res |-> Nothing, lease |-> <<>>, stream |-> FALSE, parse |-> FALSE, half |-> Nothing,
           key |-> NoKey, token |-> NoToken, minted |-> <<>>, depth |-> 0,
           hops |-> 0, urls |-> 0, retried |-> FALSE, commit |-> FALSE, lost |-> l]
  BY <1>3, <1>4 DEF Fresh
<1>f. /\ p.site = x /\ p.at = "ended" /\ p.doing = Nothing /\ p.served = NoToken /\ p.own = Nothing
      /\ p.res = Nothing /\ p.lease = <<>> /\ p.stream = FALSE /\ p.parse = FALSE /\ p.half = Nothing
      /\ p.token = NoToken /\ p.minted = <<>> /\ p.lost = l
  BY ONLY <1>5
<1>6. p \in RequestRecord
  BY ONLY <1>1, <1>5 DEF RequestRecord
<1>7. SameHoldings(q, p)
  <2>1. q.at = "ending" /\ ~q.parse /\ ~q.stream /\ q.res = Nothing /\ q.own = Nothing /\ q.lease = <<>>
    BY DEF Done
  <2>2. q.half = Nothing
    BY <2>1 DEF Fits, SlotsFit
  <2>3. q.token = NoToken /\ q.minted = <<>>
    BY <2>1 DEF Fits, TokensFit, Rewriting, Minting
  <2>4. q.parse \in BOOLEAN /\ q.stream \in BOOLEAN
    BY DEF RequestRecord
  <2> QED
    BY <2>1, <2>2, <2>3, <2>4, <1>3, <1>f DEF SameHoldings
<1>8. OneWay => l = NothingLost
  BY <1>4 DEF Fits, ForgetsNothing
<1>9. Fits(p)
  <2>1. ReservationFits(p)
    BY <1>f DEF ReservationFits, Idling
  <2>2. DoingFits(p)
    BY <1>f DEF DoingFits, Rewriting, Minting, Nothing
  <2>3. TokensFit(p)
    BY <1>f DEF TokensFit
  <2>4. SlotsFit(p)
    BY <1>f DEF SlotsFit, Nothing
  <2>5. ForgetsNothing(p)
    BY <1>f, <1>8 DEF ForgetsNothing, Nothing
  <2> QED
    BY <2>1, <2>2, <2>3, <2>4, <2>5 DEF Fits
<1> QED
  BY <1>6, <1>7, <1>9

LEMMA BecomeFits ==
  ASSUME RequestsFit, NEW r \in Request, NEW q \in RequestRecord, Fits(q), q.site = request[r].site,
         q.site \in open, UNCHANGED open, Become(r, q)
  PROVE  \E p \in RequestRecord : Replaces(r, p) /\ SameHoldings(q, p) /\ RequestsFit'
<1>1. PICK p \in RequestRecord : Fits(p) /\ SameHoldings(q, p) /\ request' = [request EXCEPT ![r] = p]
  <2>1. CASE Done(q)
    BY <2>1, EndedFits DEF Become
  <2>2. CASE ~Done(q)
    <3>1. request' = [request EXCEPT ![r] = q]
      BY <2>2 DEF Become
    <3> QED
      BY <3>1 DEF SameHoldings
  <2> QED
    BY <2>1, <2>2
<1>2. p.site = request[r].site
  BY <1>1 DEF SameHoldings
<1>3. Replaces(r, p)
  BY <1>1, <1>2 DEF Replaces, RequestsFit
<1>4. request'[r] = p /\ \A x \in Request \ {r} : request'[x] = request[x]
  BY <1>3, PeersStay
<1>5. request' \in [Request -> RequestRecord]
  BY <1>3, PeersStay
<1>6. \A x \in Request : Fits(request'[x])
  BY <1>1, <1>4 DEF RequestsFit
<1>7. \A x \in Request : request'[x].at \notin Idling => request'[x].site \in open'
  BY <1>2, <1>4 DEF RequestsFit
<1>8. RequestsFit'
  <2>1. \A x \in Request : Fits(request[x])'
    BY <1>6 DEF Fits, ReservationFits, DoingFits, TokensFit, SlotsFit, ForgetsNothing
  <2> QED
    BY <2>1, <1>5, <1>7 DEF RequestsFit
<1> QED
  BY <1>1, <1>3, <1>8

LEMMA HoldingsCount ==
  ASSUME NEW q, NEW p, SameHoldings(q, p)
  PROVE  /\ \A a : HeldOf(p, a) = HeldOf(q, a)
         /\ \A t : UsedBy(p, t) = UsedBy(q, t)
         /\ \A l : Holds(p, l) = Holds(q, l)
         /\ p.half = q.half /\ p.site = q.site
BY DEF SameHoldings, HeldOf, UsedBy, Holds

\* What request r and the tokens of its site hold, and what they will.
Had(r, a) == HeldOf(request[r], a) + HeldIn(book, request[r].site, a)
Keeps(p, b, a) == HeldOf(p, a) + HeldIn(b, p.site, a)

\* The tokens of the other sites hold what they held.
OthersHold(s, b) ==
  /\ \A x \in Site, a \in Authority : HeldIn(book, x, a) \in Nat /\ HeldIn(b, x, a) \in Nat
  /\ \A x \in Site \ {s}, a \in Authority : HeldIn(b, x, a) = HeldIn(book, x, a)

LEMMA HeldMoves ==
  ASSUME NEW r \in Request, NEW p \in RequestRecord, Replaces(r, p), NEW b, b = book', OthersHold(p.site, b),
         NEW t, t = HeldTable', NEW s \in Site, NEW a \in Authority
  PROVE  /\ HeldTable[s][a] \in Nat /\ t[s][a] \in Nat
         /\ s = p.site => /\ t[s][a] + Had(r, a) = HeldTable[s][a] + Keeps(p, b, a)
                          /\ Had(r, a) <= HeldTable[s][a] /\ Had(r, a) \in Nat /\ Keeps(p, b, a) \in Nat
         /\ s # p.site => t[s][a] = HeldTable[s][a]
<1>1. HeldTable[s][a] = LiveIn(s, a) + HeldIn(book, s, a)
  BY DEF HeldTable, HeldIn
<1>2. t[s][a] = LiveIn(s, a)' + HeldIn(b, s, a)
  BY DEF HeldTable, HeldIn
<1>3. /\ LiveIn(s, a) \in Nat /\ LiveIn(s, a)' \in Nat
      /\ s = p.site => /\ LiveIn(s, a)' + HeldOf(request[r], a) = LiveIn(s, a) + HeldOf(p, a)
                       /\ HeldOf(request[r], a) <= LiveIn(s, a)
      /\ s # p.site => LiveIn(s, a)' = LiveIn(s, a)
  BY LiveMoves
<1>4. HeldOf(request[r], a) \in Nat /\ HeldOf(p, a) \in Nat
  BY TermsTyped DEF Replaces
<1>5. HeldIn(book, s, a) \in Nat /\ HeldIn(b, s, a) \in Nat
      /\ (s # p.site => HeldIn(b, s, a) = HeldIn(book, s, a))
  BY DEF OthersHold
<1>6. p.site = request[r].site
  BY DEF Replaces
<1>7. s = p.site => Had(r, a) = HeldOf(request[r], a) + HeldIn(book, s, a)
                    /\ Keeps(p, b, a) = HeldOf(p, a) + HeldIn(b, s, a)
  BY <1>6 DEF Had, Keeps
<1>8. PICK u, v, w, x : u = LiveIn(s, a) /\ v = LiveIn(s, a)' /\ w = HeldOf(request[r], a) /\ x = HeldOf(p, a)
  OBVIOUS
<1>9. PICK y, z : y = HeldIn(book, s, a) /\ z = HeldIn(b, s, a)
  OBVIOUS
<1> QED
  BY <1>1, <1>2, <1>3, <1>4, <1>5, <1>7, <1>8, <1>9

\* Nothing happens to the authorities, or nothing that is counted.
LEMMA AuthoritiesQuiet ==
  ASSUME AuthoritiesTyped', KnownFits',
         NEW held, held = HeldTable, InFlightFits(held)',
         NEW r \in Request, NEW p \in RequestRecord, Replaces(r, p), NEW b, b = book', OthersHold(p.site, b),
         \A a \in Authority : Keeps(p, b, a) <= Had(r, a) /\ (OneWay => Keeps(p, b, a) = Had(r, a))
  PROVE  AuthoritiesFit'
<1>1. PICK t : t = HeldTable'
  OBVIOUS
<1>2. Lowers(t, held)
  <2> SUFFICES ASSUME NEW s \in Site, NEW a \in Authority
               PROVE  /\ t[s][a] \in Nat /\ held[s][a] \in Nat /\ t[s][a] <= held[s][a]
                      /\ OneWay => t[s][a] = held[s][a]
    BY DEF Lowers
  <2>1. /\ held[s][a] \in Nat /\ t[s][a] \in Nat
        /\ s = p.site => /\ t[s][a] + Had(r, a) = held[s][a] + Keeps(p, b, a)
                         /\ Had(r, a) <= held[s][a] /\ Had(r, a) \in Nat /\ Keeps(p, b, a) \in Nat
        /\ s # p.site => t[s][a] = held[s][a]
    BY <1>1, HeldMoves
  <2> QED
    BY <2>1
<1>3. InFlightFits(t)'
  BY <1>2, InFlightLowers
<1> QED
  BY <1>1, <1>3 DEF AuthoritiesFit, InFlightFits

LEMMA AuthoritiesReserved ==
  ASSUME AuthoritiesFit, NEW r \in Request, NEW p \in RequestRecord, Replaces(r, p),
         NEW b, b = book', OthersHold(p.site, b), NEW y \in Authority, ReserveAuthority(p.site, y),
         \A a \in Authority : /\ a = y => Keeps(p, b, a) = Had(r, a) + 1
                              /\ a # y => Keeps(p, b, a) = Had(r, a)
  PROVE  AuthoritiesFit' /\ CommitsStay /\ \A x \in Site \ {p.site} : authorities'[x] = authorities[x]
<1>1. PICK t, held : t = HeldTable' /\ held = HeldTable
  OBVIOUS
<1>2. PICK s \in Site : s = p.site
  BY RecordFacts
<1>3. ASSUME NEW x \in Site, NEW a \in Authority
      PROVE  /\ held[x][a] \in Nat
             /\ x = s /\ a = y => t[x][a] = held[x][a] + 1
             /\ ~(x = s /\ a = y) => t[x][a] = held[x][a]
  <2>1. /\ held[x][a] \in Nat /\ t[x][a] \in Nat
        /\ x = p.site => /\ t[x][a] + Had(r, a) = held[x][a] + Keeps(p, b, a)
                         /\ Had(r, a) <= held[x][a] /\ Had(r, a) \in Nat /\ Keeps(p, b, a) \in Nat
        /\ x # p.site => t[x][a] = held[x][a]
    BY <1>1, HeldMoves
  <2> QED
    BY <2>1, <1>2
<1>4. NatTable(held) /\ MoreAt(s, y, held, t)
  BY <1>3 DEF NatTable, MoreAt
<1>5. InFlightFits(held) /\ AuthoritiesTyped /\ KnownFits /\ ReserveAuthority(s, y)
  BY <1>1, <1>2 DEF AuthoritiesFit
<1>6. /\ AuthoritiesTyped' /\ KnownFits' /\ InFlightFits(t)' /\ CommitsStay
      /\ \A x \in Site \ {s} : authorities'[x] = authorities[x]
  BY <1>4, <1>5, ReserveFits
<1> QED
  BY <1>1, <1>2, <1>6 DEF AuthoritiesFit, InFlightFits

LEMMA AuthoritiesFinished ==
  ASSUME AuthoritiesFit, NEW r \in Request, NEW p \in RequestRecord, Replaces(r, p),
         NEW b, b = book', OthersHold(p.site, b), NEW n, NEW commit \in BOOLEAN,
         FinishAuthorities(p.site, n, commit),
         \A a \in Authority : /\ n[a] \in Nat /\ Keeps(p, b, a) + n[a] <= Had(r, a)
                              /\ OneWay => Keeps(p, b, a) + n[a] = Had(r, a)
  PROVE  /\ AuthoritiesFit' /\ CommitsStay /\ \A x \in Site \ {p.site} : authorities'[x] = authorities[x]
         /\ commit => Commits(p.site, n)
<1>1. PICK t, held : t = HeldTable' /\ held = HeldTable
  OBVIOUS
<1>2. PICK s \in Site : s = p.site
  BY RecordFacts
<1>3. PICK fewer : fewer = [x \in Site |-> [a \in Authority |-> IF x = s THEN held[x][a] - n[a] ELSE held[x][a]]]
  OBVIOUS
<1>4. ASSUME NEW x \in Site, NEW a \in Authority
      PROVE  /\ held[x][a] \in Nat /\ n[a] \in Nat /\ t[x][a] \in Nat /\ fewer[x][a] \in Nat
             /\ x = s => n[a] <= held[x][a] /\ fewer[x][a] = held[x][a] - n[a]
             /\ x # s => fewer[x][a] = held[x][a]
             /\ t[x][a] <= fewer[x][a] /\ (OneWay => t[x][a] = fewer[x][a])
  <2>1. /\ held[x][a] \in Nat /\ t[x][a] \in Nat
        /\ x = p.site => /\ t[x][a] + Had(r, a) = held[x][a] + Keeps(p, b, a)
                         /\ Had(r, a) <= held[x][a] /\ Had(r, a) \in Nat /\ Keeps(p, b, a) \in Nat
        /\ x # p.site => t[x][a] = held[x][a]
    BY <1>1, HeldMoves
  <2>2. /\ x = s => fewer[x][a] = held[x][a] - n[a]
        /\ x # s => fewer[x][a] = held[x][a]
    BY <1>3
  <2>3. n[a] \in Nat /\ Keeps(p, b, a) + n[a] <= Had(r, a) /\ (OneWay => Keeps(p, b, a) + n[a] = Had(r, a))
    OBVIOUS
  <2> QED
    BY <2>1, <2>2, <2>3, <1>2
<1>5. NatTable(held) /\ FewerAt(s, n, held, fewer) /\ Lowers(t, fewer)
  BY <1>4 DEF NatTable, FewerAt, Lowers
<1>6. InFlightFits(held) /\ AuthoritiesTyped /\ KnownFits /\ FinishAuthorities(s, n, commit)
  BY <1>1, <1>2 DEF AuthoritiesFit
<1>7. /\ AuthoritiesTyped' /\ KnownFits' /\ InFlightFits(fewer)' /\ CommitsStay
      /\ \A x \in Site \ {s} : authorities'[x] = authorities[x]
      /\ commit => Commits(s, n)
  BY <1>5, <1>6, FinishFits
<1>8. InFlightFits(t)'
  BY <1>5, <1>7, InFlightLowers
<1> QED
  BY <1>1, <1>2, <1>7, <1>8 DEF AuthoritiesFit, InFlightFits

\* A token is published only with its authority committed (settleCapabilities).
LEMMA CommittedStays ==
  ASSUME CommittedFits, CommitsStay, NEW b, b = book', NEW n, BookTyped(b, n),
         \A x \in Site : \A t \in DOMAIN b.entries[x] : Entry(b, x, t).published =>
           \/ Trusted(Entry(b, x, t).key.target)
           \/ /\ t \in DOMAIN book.entries[x] /\ Entry(book, x, t).published
              /\ Entry(b, x, t).key = Entry(book, x, t).key
           \/ /\ IsKnown(x, AuthorityOf[Entry(b, x, t).key.target])'
              /\ authorities'[x][AuthorityOf[Entry(b, x, t).key.target]].committed
  PROVE  CommittedFits'
<1> SUFFICES ASSUME NEW x \in Site, NEW t \in DOMAIN b.entries[x],
                    Entry(b, x, t).published, ~Trusted(Entry(b, x, t).key.target)
             PROVE  /\ IsKnown(x, AuthorityOf[Entry(b, x, t).key.target])'
                    /\ authorities'[x][AuthorityOf[Entry(b, x, t).key.target]].committed
  BY Zenon DEF CommittedFits, Entry
<1>1. PICK k : k = Entry(b, x, t).key
  OBVIOUS
<1>2. AuthorityOf[k.target] \in Authority
  <2>1. k \in Key
    BY <1>1 DEF BookTyped, EntryRecord, Entry
  <2>2. k.target \in Target /\ AuthorityOf[k.target] # Configured
    BY <2>1, <1>1 DEF Key, Trusted
  <2> QED
    BY SMTT(30), <2>2, TargetAssumption
<1>3. CASE t \in DOMAIN book.entries[x] /\ Entry(book, x, t).published /\ k = Entry(book, x, t).key
  <2>1. IsKnown(x, AuthorityOf[k.target]) /\ authorities[x][AuthorityOf[k.target]].committed
    BY <1>1, <1>3 DEF CommittedFits
  <2>2. IsKnown(x, AuthorityOf[k.target])' /\ authorities'[x][AuthorityOf[k.target]].committed
    <3>1. PICK a \in Authority : a = AuthorityOf[k.target]
      BY <1>2
    <3>2. IsKnown(x, a)' /\ authorities'[x][a].committed
      BY <2>1, <3>1 DEF CommitsStay
    <3> QED
      BY <3>1, <3>2
  <2> QED
    BY <1>1, <2>2
<1> QED
  BY SMTT(30), <1>1, <1>3

\* Only an open site gains entries.
LEMMA ClosedStays ==
  ASSUME ClosedFits, UNCHANGED open, NEW s \in open, NEW b, b = book',
         \A x \in Site \ {s} : authorities'[x] = authorities[x] /\ DOMAIN b.entries[x] \subseteq DOMAIN book.entries[x]
  PROVE  ClosedFits'
<1> SUFFICES ASSUME NEW x \in Site \ open PROVE DOMAIN authorities'[x] = {} /\ DOMAIN b.entries[x] = {}
  BY DEF ClosedFits
<1>1. x \in Site \ {s} /\ DOMAIN authorities[x] = {} /\ DOMAIN book.entries[x] = {}
  BY DEF ClosedFits
<1> QED
  BY <1>1

-----------------------------------------------------------------------------
(* The pools.                                                                *)

\* Whether request q has a slot of the pool of the runtime.
HasSlot(q, l) == q.half = l \/ Holds(q, l)

LEMMA SlotsMove ==
  ASSUME NEW r \in Request, NEW p \in RequestRecord, Replaces(r, p), NEW l \in Pool,
         NEW n, NEW m, n = Cardinality(HoldersIn(l)), m = Cardinality(HoldersIn(l)')
  PROVE  /\ n \in Nat /\ m \in Nat
         /\ HasSlot(request[r], l) <=> HasSlot(p, l) => m = n
         /\ HasSlot(p, l) /\ ~HasSlot(request[r], l) => m = n + 1
         /\ ~HasSlot(p, l) /\ HasSlot(request[r], l) => m = n - 1
<1>1. /\ IsFiniteSet(HoldersIn(l))
      /\ HoldersIn(l)' = IF HasSlot(p, l) THEN HoldersIn(l) \union {r} ELSE HoldersIn(l) \ {r}
      /\ r \in HoldersIn(l) <=> HasSlot(request[r], l)
  BY HoldersMove DEF HasSlot
<1>2. PICK A, B : A = HoldersIn(l) /\ B = HoldersIn(l)'
  OBVIOUS
<1>3. /\ Cardinality(A) \in Nat
      /\ r \notin A => Cardinality(A \union {r}) = Cardinality(A) + 1
      /\ r \in A => Cardinality(A \ {r}) = Cardinality(A) - 1 /\ Cardinality(A) >= 1
  BY <1>1, <1>2, SetMoves
<1>4. r \in A => A \union {r} = A
  OBVIOUS
<1>5. r \notin A => A \ {r} = A
  OBVIOUS
<1> QED
  BY <1>1, <1>2, <1>3, <1>4, <1>5

LEMMA SlotsOfSiteMove ==
  ASSUME NEW r \in Request, NEW p \in RequestRecord, Replaces(r, p), NEW l \in Pool, NEW s \in Site,
         NEW n, NEW m, n = Cardinality(HoldersOf(l, s)), m = Cardinality(HoldersOf(l, s)')
  PROVE  /\ n \in Nat /\ m \in Nat
         /\ s # p.site \/ (Holds(request[r], l) <=> Holds(p, l)) => m = n
         /\ s = p.site /\ Holds(p, l) /\ ~Holds(request[r], l) => m = n + 1
         /\ s = p.site /\ ~Holds(p, l) /\ Holds(request[r], l) => m = n - 1
<1>1. /\ IsFiniteSet(HoldersOf(l, s))
      /\ HoldersOf(l, s)' = IF s = p.site /\ Holds(p, l) THEN HoldersOf(l, s) \union {r}
                            ELSE HoldersOf(l, s) \ {r}
      /\ r \in HoldersOf(l, s) <=> s = p.site /\ Holds(request[r], l)
  BY HoldersMove
<1>2. PICK A, B : A = HoldersOf(l, s) /\ B = HoldersOf(l, s)'
  OBVIOUS
<1>3. /\ Cardinality(A) \in Nat
      /\ r \notin A => Cardinality(A \union {r}) = Cardinality(A) + 1
      /\ r \in A => Cardinality(A \ {r}) = Cardinality(A) - 1 /\ Cardinality(A) >= 1
  BY <1>1, <1>2, SetMoves
<1>4. r \in A => A \union {r} = A
  OBVIOUS
<1>5. r \notin A => A \ {r} = A
  OBVIOUS
<1>6. CASE s = p.site
  <2>1. CASE Holds(p, l)
    <3>1. B = A \union {r}
      BY <2>1, <1>1, <1>2, <1>6
    <3>2. r \in A <=> Holds(request[r], l)
      BY <1>1, <1>2, <1>6
    <3>3. n = Cardinality(A) /\ m = Cardinality(B)
      BY <1>2
    <3>4. CASE r \in A
      <4>1. B = A
        BY <3>1, <3>4
      <4>2. m = n /\ n \in Nat
        BY ONLY <4>1, <3>3, <1>3
      <4>3. Holds(request[r], l)
        BY ONLY <3>2, <3>4
      <4> QED
        BY ONLY <2>1, <4>2, <4>3
    <3>5. CASE r \notin A
      BY <2>1, <3>1, <3>2, <3>3, <3>5, <1>3, <1>6
    <3> QED
      BY <3>4, <3>5
  <2>2. CASE ~Holds(p, l)
    BY <2>2, <1>1, <1>2, <1>3, <1>5, <1>6
  <2> QED
    BY <2>1, <2>2
<1>7. CASE s # p.site
  BY <1>1, <1>2, <1>3, <1>5, <1>7
<1> QED
  BY <1>6, <1>7

\* Pool l of the runtime gains n slots, and of site s m slots.
PoolMoves(l, s, n, m) ==
  /\ occupied'[l] \in [all : Int, of : [Site -> Int]]
  /\ occupied'[l].all = occupied[l].all + n
  /\ occupied'[l].of[s] = occupied[l].of[s] + m
  /\ \A x \in Site \ {s} : occupied'[l].of[x] = occupied[l].of[x]

\* The pools follow what the request does with pool l.
LEMMA PoolFollows ==
  ASSUME PoolsFit, NEW r \in Request, NEW p \in RequestRecord, Replaces(r, p), NEW l \in Pool,
         NEW n \in Int, NEW m \in Int, PoolMoves(l, p.site, n, m),
         \/ n = 0 /\ (HasSlot(request[r], l) <=> HasSlot(p, l))
         \/ n = 0 /\ ~OneWay /\ (HasSlot(p, l) => HasSlot(request[r], l))
         \/ n = 1 /\ HasSlot(p, l) /\ ~HasSlot(request[r], l)
         \/ n = -1 /\ ~HasSlot(p, l) /\ HasSlot(request[r], l),
         \/ m = 0 /\ (Holds(request[r], l) <=> Holds(p, l))
         \/ m = 0 /\ ~OneWay /\ (Holds(p, l) => Holds(request[r], l))
         \/ m = 1 /\ Holds(p, l) /\ ~Holds(request[r], l)
         \/ m = -1 /\ ~Holds(p, l) /\ Holds(request[r], l)
  PROVE  /\ occupied'[l] \in [all : Nat, of : [Site -> Nat]]
         /\ Covers(occupied'[l].all, Cardinality(HoldersIn(l)'))
         /\ \A s \in Site : Covers(occupied'[l].of[s], Cardinality(HoldersOf(l, s)'))
<1>1. /\ occupied[l] \in [all : Nat, of : [Site -> Nat]]
      /\ Covers(occupied[l].all, Cardinality(HoldersIn(l)))
      /\ \A s \in Site : Covers(occupied[l].of[s], Cardinality(HoldersOf(l, s)))
  BY DEF PoolsFit
<1>2. occupied[l].all \in Nat /\ \A s \in Site : occupied[l].of[s] \in Nat
  BY <1>1
<1>3. Covers(occupied'[l].all, Cardinality(HoldersIn(l)')) /\ occupied'[l].all \in Nat
  <2>1. PICK i, j : i = Cardinality(HoldersIn(l)) /\ j = Cardinality(HoldersIn(l)')
    OBVIOUS
  <2>2. /\ i \in Nat /\ j \in Nat
        /\ HasSlot(request[r], l) <=> HasSlot(p, l) => j = i
        /\ HasSlot(p, l) /\ ~HasSlot(request[r], l) => j = i + 1
        /\ ~HasSlot(p, l) /\ HasSlot(request[r], l) => j = i - 1
    BY <2>1, SlotsMove
  <2>3. PICK u, v : u = occupied[l].all /\ v = occupied'[l].all
    OBVIOUS
  <2>4. u \in Nat /\ v = u + n /\ u >= i /\ (OneWay => u = i)
    BY <1>1, <1>2, <2>1, <2>3 DEF Covers, PoolMoves
  <2>5. v \in Nat /\ v >= j /\ (OneWay => v = j)
    BY <2>2, <2>4
  <2> QED
    BY <2>1, <2>3, <2>5 DEF Covers
<1>4. ASSUME NEW s \in Site
      PROVE  Covers(occupied'[l].of[s], Cardinality(HoldersOf(l, s)')) /\ occupied'[l].of[s] \in Nat
  <2>1. PICK i, j : i = Cardinality(HoldersOf(l, s)) /\ j = Cardinality(HoldersOf(l, s)')
    OBVIOUS
  <2>2. /\ i \in Nat /\ j \in Nat
        /\ s # p.site \/ (Holds(request[r], l) <=> Holds(p, l)) => j = i
        /\ s = p.site /\ Holds(p, l) /\ ~Holds(request[r], l) => j = i + 1
        /\ s = p.site /\ ~Holds(p, l) /\ Holds(request[r], l) => j = i - 1
    BY <2>1, SlotsOfSiteMove
  <2>3. PICK u, v : u = occupied[l].of[s] /\ v = occupied'[l].of[s]
    OBVIOUS
  <2>4. /\ u \in Nat /\ u >= i /\ (OneWay => u = i)
        /\ s = p.site => v = u + m
        /\ s # p.site => v = u
    BY <1>1, <1>2, <2>1, <2>3 DEF Covers, PoolMoves
  <2>5. v \in Nat /\ v >= j /\ (OneWay => v = j)
    BY <2>2, <2>4
  <2> QED
    BY <2>1, <2>3, <2>5 DEF Covers
<1>5. occupied'[l] \in [all : Nat, of : [Site -> Nat]]
  <2>1. PICK o : o = occupied'[l]
    OBVIOUS
  <2>2. o \in [all : Int, of : [Site -> Int]] /\ o.all \in Nat /\ \A s \in Site : o.of[s] \in Nat
    BY <2>1, <1>3, <1>4 DEF PoolMoves
  <2>3. o.of \in [Site -> Nat] /\ o = [all |-> o.all, of |-> o.of]
    BY <2>2
  <2> QED
    BY <2>1, <2>2, <2>3
<1> QED
  BY <1>3, <1>4, <1>5

\* The slots stay; a request may forget the stream it holds.
LEMMA PoolsStay ==
  ASSUME PoolsFit, DOMAIN occupied = Pool, UNCHANGED occupied,
         NEW r \in Request, NEW p \in RequestRecord, Replaces(r, p), p.half = request[r].half,
         \A l \in Pool : /\ Holds(p, l) => Holds(request[r], l)
                         /\ OneWay => (Holds(request[r], l) => Holds(p, l))
  PROVE  PoolsFit' /\ DOMAIN occupied' = Pool
<1>1. ASSUME NEW l \in Pool
      PROVE  /\ occupied'[l] \in [all : Nat, of : [Site -> Nat]]
             /\ Covers(occupied'[l].all, Cardinality(HoldersIn(l)'))
             /\ \A s \in Site : Covers(occupied'[l].of[s], Cardinality(HoldersOf(l, s)'))
  <2>1. occupied[l] \in [all : Nat, of : [Site -> Nat]]
    BY DEF PoolsFit
  <2>2. PICK o \in [all : Nat, of : [Site -> Nat]] : o = occupied[l] /\ o = occupied'[l]
    BY <2>1
  <2>3. p.site \in Site
    BY RecordFacts
  <2>4. PoolMoves(l, p.site, 0, 0)
    BY <2>2, <2>3 DEF PoolMoves
  <2>5. /\ HasSlot(p, l) => HasSlot(request[r], l)
        /\ OneWay => (HasSlot(request[r], l) => HasSlot(p, l))
    BY DEF HasSlot
  <2> QED
    BY <2>4, <2>5, PoolFollows
<1> QED
  BY <1>1 DEF PoolsFit, Covers, HoldersIn, HoldersOf, Holds

\* The uses that request r and the others have of the tokens.
LEMMA UsesStay ==
  ASSUME NEW r \in Request, NEW p \in RequestRecord, Replaces(r, p),
         \A t \in Token : UsedBy(p, t) = UsedBy(request[r], t)
  PROVE  UsesTable' = UsesTable
<1>1. ASSUME NEW s \in Site, NEW t \in Token PROVE UsesOf(s, t)' = UsesOf(s, t)
  <2>1. /\ UsesOf(s, t) \in Nat /\ UsesOf(s, t)' \in Nat
        /\ s = p.site => UsesOf(s, t)' + UsedBy(request[r], t) = UsesOf(s, t) + UsedBy(p, t)
        /\ s # p.site => UsesOf(s, t)' = UsesOf(s, t)
    BY UsesMove
  <2>2. UsedBy(p, t) \in Nat
    BY TermsTyped
  <2>3. PICK u, v, w : u = UsesOf(s, t) /\ v = UsesOf(s, t)' /\ w = UsedBy(p, t)
    OBVIOUS
  <2> QED
    BY <2>1, <2>2, <2>3
<1> QED
  BY <1>1 DEF UsesTable

LEMMA UsesTyped ==
  ASSUME NEW r \in Request, NEW p \in RequestRecord, Replaces(r, p)
  PROVE  \A s \in Site, t \in Token : UsesTable[s][t] \in Nat /\ UsesTable'[s][t] \in Nat
<1> SUFFICES ASSUME NEW s \in Site, NEW t \in Token PROVE UsesTable[s][t] \in Nat /\ UsesTable'[s][t] \in Nat
  OBVIOUS
<1>1. UsesOf(s, t) \in Nat /\ UsesOf(s, t)' \in Nat
  BY UsesMove
<1> QED
  BY <1>1 DEF UsesTable

LEMMA UsesGain ==
  ASSUME NEW r \in Request, NEW p \in RequestRecord, Replaces(r, p), NEW y \in Token,
         \A t \in Token : /\ t = y => UsedBy(p, t) = UsedBy(request[r], t) + 1
                          /\ t # y => UsedBy(p, t) = UsedBy(request[r], t),
         NEW uses, NEW more, uses = UsesTable, more = UsesTable'
  PROVE  \A x \in Site, t \in Token :
           /\ uses[x][t] \in Nat
           /\ x = p.site /\ t = y => more[x][t] = uses[x][t] + 1
           /\ ~(x = p.site /\ t = y) => more[x][t] = uses[x][t]
<1> SUFFICES ASSUME NEW x \in Site, NEW t \in Token
             PROVE  /\ uses[x][t] \in Nat
                    /\ x = p.site /\ t = y => more[x][t] = uses[x][t] + 1
                    /\ ~(x = p.site /\ t = y) => more[x][t] = uses[x][t]
  OBVIOUS
<1>1. /\ UsesOf(x, t) \in Nat /\ UsesOf(x, t)' \in Nat
      /\ x = p.site => UsesOf(x, t)' + UsedBy(request[r], t) = UsesOf(x, t) + UsedBy(p, t)
      /\ x # p.site => UsesOf(x, t)' = UsesOf(x, t)
  BY UsesMove
<1>2. UsedBy(p, t) \in Nat /\ UsedBy(request[r], t) \in Nat
  BY TermsTyped DEF Replaces
<1>3. uses[x][t] = UsesOf(x, t) /\ more[x][t] = UsesOf(x, t)'
  BY DEF UsesTable
<1>4. PICK u, v, w, z : u = UsesOf(x, t) /\ v = UsesOf(x, t)' /\ w = UsedBy(p, t) /\ z = UsedBy(request[r], t)
  OBVIOUS
<1>5. (t = y => w = z + 1) /\ (t # y => w = z)
  BY <1>4
<1> QED
  BY ONLY <1>1, <1>2, <1>3, <1>4, <1>5

LEMMA UsesLessen ==
  ASSUME NEW r \in Request, NEW p \in RequestRecord, Replaces(r, p), NEW n,
         \A t \in Token : n[t] \in Nat /\ UsedBy(p, t) + n[t] = UsedBy(request[r], t),
         NEW uses, NEW fewer, uses = UsesTable, fewer = UsesTable'
  PROVE  Takes(n, p.site, uses, fewer)
<1>1. ASSUME NEW x \in Site, NEW t \in Token
      PROVE  /\ x = p.site => n[t] \in Nat /\ n[t] <= uses[x][t] /\ fewer[x][t] = uses[x][t] - n[t]
             /\ x # p.site => fewer[x][t] = uses[x][t]
  <2>1. /\ UsesOf(x, t) \in Nat /\ UsesOf(x, t)' \in Nat
        /\ x = p.site => /\ UsesOf(x, t)' + UsedBy(request[r], t) = UsesOf(x, t) + UsedBy(p, t)
                         /\ UsedBy(request[r], t) <= UsesOf(x, t)
        /\ x # p.site => UsesOf(x, t)' = UsesOf(x, t)
    BY UsesMove
  <2>2. UsedBy(p, t) \in Nat /\ UsedBy(request[r], t) \in Nat
    BY TermsTyped DEF Replaces
  <2>3. uses[x][t] = UsesOf(x, t) /\ fewer[x][t] = UsesOf(x, t)'
    BY DEF UsesTable
  <2>4. PICK u, v, w, z : u = UsesOf(x, t) /\ v = UsesOf(x, t)' /\ w = UsedBy(p, t) /\ z = UsedBy(request[r], t)
    OBVIOUS
  <2>5. n[t] \in Nat /\ w + n[t] = z
    BY <2>4
  <2> QED
    BY ONLY <2>1, <2>2, <2>3, <2>4, <2>5
<1>2. p.site \in Site
  BY RecordFacts
<1> QED
  BY <1>1, <1>2 DEF Takes

-----------------------------------------------------------------------------
(* The steps of a request, by what they do to what is shared.                *)

RoutesKept ==
  \A s \in open' : \A t \in DOMAIN book.entries[s] :
    Usable(book, s, t) => Registered(book', s, t) /\ Entry(book', s, t).published

\* Request r becomes q, one of the records that its place allows.
MayBecome(r, q) ==
  /\ q \in RequestRecord /\ Fits(q) /\ q.site = request[r].site /\ q.site \in open
  /\ Become(r, q) /\ UNCHANGED <<open, events>>

LEMMA PartsFit ==
  ASSUME IInv, NEW p \in RequestRecord, p.site \in open, UNCHANGED <<open, events>>, RequestsFit',
         NEW b, b = book', NEW n \in 0..MaxToken, n = issued', NEW uses, uses = UsesTable', BookFits(b, n, uses),
         AuthoritiesFit', CommittedFits', PoolsFit', DOMAIN occupied' = Pool,
         \A x \in Site \ {p.site} : authorities'[x] = authorities[x],
         \A x \in Site \ {p.site} : DOMAIN b.entries[x] \subseteq DOMAIN book.entries[x],
         \A x \in Site : \A t \in DOMAIN book.entries[x] : Usable(book, x, t) => Usable(b, x, t)
  PROVE  IInv' /\ RoutesKept
<1>1. ClosedFits'
  BY ClosedStays DEF IInv
<1>2. RoutesKept
  BY DEF RoutesKept, Usable, IInv
<1>3. BookFits(book, issued, UsesTable)'
  BY DEF BookFits, BookTyped, IndexFits, ActiveFits, PairsOf, PendingFits, HoldsFit, Registered, Entry
<1> QED
  BY <1>1, <1>2, <1>3 DEF IInv

\* Its uses of tokens stay; its slots and its reservations stay, or it forgets them.
SameUses(r, q) == \A t \in Token : UsedBy(q, t) = UsedBy(request[r], t)
SameSlots(r, q) ==
  /\ q.half = request[r].half
  /\ \A l \in Pool : /\ Holds(q, l) => Holds(request[r], l)
                     /\ OneWay => (Holds(request[r], l) => Holds(q, l))
SameHeld(r, q) ==
  \A a \in Authority : /\ HeldOf(q, a) <= HeldOf(request[r], a)
                       /\ OneWay => HeldOf(q, a) = HeldOf(request[r], a)

LEMMA Picked ==
  ASSUME IInv, NEW r \in Request, NEW q, MayBecome(r, q)
  PROVE  \E p \in RequestRecord :
           /\ Replaces(r, p) /\ RequestsFit' /\ p.site = request[r].site /\ p.site \in open /\ p.site \in Site
           /\ \A a : HeldOf(p, a) = HeldOf(q, a)
           /\ \A t : UsedBy(p, t) = UsedBy(q, t)
           /\ \A l : Holds(p, l) = Holds(q, l)
           /\ p.half = q.half
<1>1. /\ RequestsFit /\ q \in RequestRecord /\ Fits(q) /\ q.site = request[r].site
      /\ q.site \in open /\ UNCHANGED open /\ Become(r, q)
  BY DEF MayBecome, IInv
<1>2. PICK p \in RequestRecord : Replaces(r, p) /\ SameHoldings(q, p) /\ RequestsFit'
  BY <1>1, BecomeFits
<1>3. /\ \A a : HeldOf(p, a) = HeldOf(q, a)
      /\ \A t : UsedBy(p, t) = UsedBy(q, t)
      /\ \A l : Holds(p, l) = Holds(q, l)
      /\ p.half = q.half /\ p.site = q.site
  BY <1>2, HoldingsCount
<1>4. p.site \in open /\ p.site \in Site
  BY <1>1, <1>3 DEF IInv
<1> QED
  BY <1>1, <1>2, <1>3, <1>4

LEMMA HeldInTyped ==
  ASSUME NEW n \in 0..MaxToken, NEW b, NEW uses, BookFits(b, n, uses)
  PROVE  \A s \in Site, a \in Authority : HeldIn(b, s, a) \in Nat
<1> SUFFICES ASSUME NEW s \in Site, NEW a \in Authority PROVE HeldIn(b, s, a) \in Nat
  OBVIOUS
<1>1. BookTyped(b, n) /\ {} \subseteq DOMAIN b.entries[s]
  BY DEF BookFits
<1> QED
  BY <1>1, HeldSets

\* Nothing that is counted happens to the authorities, and the book only thins.
LEMMA QuietParts ==
  ASSUME IInv, NEW r \in Request, NEW p \in RequestRecord, Replaces(r, p), RequestsFit', p.site \in open,
         UNCHANGED <<open, events, issued, occupied>>,
         AuthoritiesTyped', KnownFits', NEW held, held = HeldTable, InFlightFits(held)', CommitsStay,
         \A x \in Site \ {p.site} : authorities'[x] = authorities[x],
         SameHeld(r, p), SameSlots(r, p),
         NEW b, b = book', Thins(book, b), NEW uses, uses = UsesTable', BookFits(b, issued, uses)
  PROVE  IInv' /\ RoutesKept
<1>1. PICK n \in 0..MaxToken : n = issued /\ n = issued'
  BY DEF IInv
<1>2. BookFits(book, n, UsesTable) /\ BookFits(b, n, uses)
  BY <1>1 DEF IInv
<1>3. \A s \in Site, a \in Authority : HeldIn(book, s, a) \in Nat /\ HeldIn(b, s, a) = HeldIn(book, s, a)
  BY <1>2, HeldInTyped DEF Thins
<1>4. OthersHold(p.site, b)
  BY <1>3 DEF OthersHold
<1>5. ASSUME NEW a \in Authority
      PROVE  Keeps(p, b, a) <= Had(r, a) /\ (OneWay => Keeps(p, b, a) = Had(r, a))
  <2>1. p.site = request[r].site /\ p.site \in Site
    BY RecordFacts DEF Replaces
  <2>2. HeldOf(p, a) <= HeldOf(request[r], a) /\ (OneWay => HeldOf(p, a) = HeldOf(request[r], a))
    BY DEF SameHeld
  <2>3. HeldOf(p, a) \in Nat /\ HeldOf(request[r], a) \in Nat
    BY TermsTyped DEF Replaces
  <2>4. PICK u, v, w : u = HeldOf(p, a) /\ v = HeldOf(request[r], a) /\ w = HeldIn(book, p.site, a)
    OBVIOUS
  <2>5. Keeps(p, b, a) = u + w /\ Had(r, a) = v + w /\ w \in Nat
    BY <2>1, <2>4, <1>3 DEF Keeps, Had
  <2> QED
    BY <2>2, <2>3, <2>4, <2>5
<1>6. AuthoritiesFit'
  BY <1>4, <1>5, AuthoritiesQuiet
<1>7. CommittedFits'
  <2>1. BookTyped(b, n) /\ CommittedFits
    BY <1>2 DEF BookFits, IInv
  <2>2. \A x \in Site : \A t \in DOMAIN b.entries[x] : Entry(b, x, t).published =>
          /\ t \in DOMAIN book.entries[x] /\ Entry(book, x, t).published
          /\ Entry(b, x, t).key = Entry(book, x, t).key
    BY DEF Thins
  <2> QED
    BY <2>1, <2>2, CommittedStays
<1>8. PoolsFit' /\ DOMAIN occupied' = Pool
  <2>1. PoolsFit /\ DOMAIN occupied = Pool /\ UNCHANGED occupied
    BY DEF IInv
  <2> QED
    BY <2>1, PoolsStay DEF SameSlots
<1>9. /\ \A x \in Site \ {p.site} : DOMAIN b.entries[x] \subseteq DOMAIN book.entries[x]
      /\ \A x \in Site : \A t \in DOMAIN book.entries[x] : Usable(book, x, t) => Usable(b, x, t)
  BY DEF Thins
<1> QED
  BY <1>1, <1>2, <1>6, <1>7, <1>8, <1>9, PartsFit

\* Nothing at all happens to the authorities.
LEMMA QuietAuthorities ==
  ASSUME AuthoritiesFit, UNCHANGED authorityVars, NEW held, held = HeldTable
  PROVE  /\ AuthoritiesTyped' /\ KnownFits' /\ InFlightFits(held)' /\ CommitsStay
         /\ \A x : authorities'[x] = authorities[x]
<1>1. authorities' = authorities /\ known' = known /\ newOf' = newOf /\ newAll' = newAll
  BY DEF authorityVars
<1>2. AuthoritiesTyped'
  BY <1>1 DEF AuthoritiesFit, AuthoritiesTyped
<1>3. KnownFits'
  BY <1>1 DEF AuthoritiesFit, KnownFits, IsKnown
<1>4. InFlightFits(held)'
  BY <1>1 DEF AuthoritiesFit, InFlightFits, IsKnown
<1>5. CommitsStay
  BY <1>1 DEF CommitsStay, IsKnown
<1> QED
  BY <1>1, <1>2, <1>3, <1>4, <1>5

\* A step that uses no token more or less.
LEMMA QuietStep ==
  ASSUME IInv, NEW r \in Request, NEW q, MayBecome(r, q), UNCHANGED <<authorityVars, issued, occupied>>,
         SameHeld(r, q), SameSlots(r, q), SameUses(r, q),
         NEW b, b = book', BookFits(b, issued, UsesTable), Thins(book, b)
  PROVE  IInv' /\ RoutesKept
<1>1. PICK p \in RequestRecord :
           /\ Replaces(r, p) /\ RequestsFit' /\ p.site = request[r].site /\ p.site \in open /\ p.site \in Site
           /\ \A a : HeldOf(p, a) = HeldOf(q, a)
           /\ \A t : UsedBy(p, t) = UsedBy(q, t)
           /\ \A l : Holds(p, l) = Holds(q, l)
           /\ p.half = q.half
  BY Picked
<1>2. SameHeld(r, p) /\ SameSlots(r, p) /\ \A t \in Token : UsedBy(p, t) = UsedBy(request[r], t)
  BY <1>1 DEF SameHeld, SameSlots, SameUses
<1>3. PICK uses : uses = UsesTable'
  OBVIOUS
<1>4. BookFits(b, issued, uses)
  BY <1>1, <1>2, <1>3, UsesStay
<1>5. PICK held : held = HeldTable
  OBVIOUS
<1>6. /\ AuthoritiesTyped' /\ KnownFits' /\ InFlightFits(held)' /\ CommitsStay
      /\ \A x : authorities'[x] = authorities[x]
  BY <1>5, QuietAuthorities DEF IInv
<1>7. UNCHANGED <<open, events, issued, occupied>>
  BY DEF MayBecome
<1> QED
  BY <1>1, <1>2, <1>3, <1>4, <1>5, <1>6, <1>7, QuietParts

\* A step that uses token y once more.
LEMMA BorrowStep ==
  ASSUME IInv, NEW r \in Request, NEW q, MayBecome(r, q), UNCHANGED <<authorityVars, issued, occupied>>,
         SameHeld(r, q), SameSlots(r, q), NEW y \in Token,
         \A t \in Token : /\ t = y => UsedBy(q, t) = UsedBy(request[r], t) + 1
                          /\ t # y => UsedBy(q, t) = UsedBy(request[r], t),
         NEW c, BookFits(c, issued, UsesTable), Thins(book, c), Registered(c, request[r].site, y),
         book' = Borrowed(c, request[r].site, y)
  PROVE  IInv' /\ RoutesKept
<1>1. PICK p \in RequestRecord :
           /\ Replaces(r, p) /\ RequestsFit' /\ p.site = request[r].site /\ p.site \in open /\ p.site \in Site
           /\ \A a : HeldOf(p, a) = HeldOf(q, a)
           /\ \A t : UsedBy(p, t) = UsedBy(q, t)
           /\ \A l : Holds(p, l) = Holds(q, l)
           /\ p.half = q.half
  BY Picked
<1>2. /\ SameHeld(r, p) /\ SameSlots(r, p)
      /\ \A t \in Token : /\ t = y => UsedBy(p, t) = UsedBy(request[r], t) + 1
                          /\ t # y => UsedBy(p, t) = UsedBy(request[r], t)
  BY <1>1 DEF SameHeld, SameSlots
<1>3. PICK uses, more : uses = UsesTable /\ more = UsesTable'
  OBVIOUS
<1>4. PICK s \in Site : s = p.site
  BY <1>1
<1>5. \A x \in Site, t \in Token :
           /\ x = s /\ t = y => more[x][t] = uses[x][t] + 1
           /\ ~(x = s /\ t = y) => more[x][t] = uses[x][t]
  BY <1>1, <1>2, <1>3, <1>4, UsesGain
<1>6. PICK n \in 0..MaxToken : n = issued
  BY DEF IInv
<1>7. BookFits(c, n, uses) /\ Registered(c, s, y)
  BY <1>1, <1>3, <1>4, <1>6
<1>8. BookFits(Borrowed(c, s, y), n, more) /\ Thins(c, Borrowed(c, s, y))
  BY <1>5, <1>7, BorrowedFits
<1>9. PICK b : b = book'
  OBVIOUS
<1>10. BookFits(b, issued, more) /\ Thins(book, b)
  BY <1>1, <1>4, <1>6, <1>8, <1>9, ThinsFurther
<1>11. PICK held : held = HeldTable
  OBVIOUS
<1>12. /\ AuthoritiesTyped' /\ KnownFits' /\ InFlightFits(held)' /\ CommitsStay
       /\ \A x : authorities'[x] = authorities[x]
  BY <1>11, QuietAuthorities DEF IInv
<1>13. UNCHANGED <<open, events, issued, occupied>>
  BY DEF MayBecome
<1> QED
  BY <1>1, <1>2, <1>3, <1>9, <1>10, <1>11, <1>12, <1>13, QuietParts

\* A step that reserves authority y (reserveAuthority).
LEMMA ReserveStep ==
  ASSUME IInv, NEW r \in Request, NEW q, MayBecome(r, q), UNCHANGED <<issued, occupied>>,
         NEW b, b = book', BookFits(b, issued, UsesTable), Thins(book, b),
         SameUses(r, q), SameSlots(r, q), NEW y \in Authority, ReserveAuthority(request[r].site, y),
         \A a \in Authority : /\ a = y => HeldOf(q, a) = HeldOf(request[r], a) + 1
                              /\ a # y => HeldOf(q, a) = HeldOf(request[r], a)
  PROVE  IInv' /\ RoutesKept
<1>1. PICK p \in RequestRecord :
           /\ Replaces(r, p) /\ RequestsFit' /\ p.site = request[r].site /\ p.site \in open /\ p.site \in Site
           /\ \A a : HeldOf(p, a) = HeldOf(q, a)
           /\ \A t : UsedBy(p, t) = UsedBy(q, t)
           /\ \A l : Holds(p, l) = Holds(q, l)
           /\ p.half = q.half
  BY Picked
<1>2. SameSlots(r, p) /\ \A t \in Token : UsedBy(p, t) = UsedBy(request[r], t)
  BY <1>1 DEF SameSlots, SameUses
<1>3. PICK uses, n : uses = UsesTable' /\ n = issued' /\ n = issued /\ n \in 0..MaxToken
  BY DEF IInv
<1>4. BookFits(b, n, uses) /\ uses = UsesTable /\ BookFits(book, n, uses)
  BY <1>1, <1>2, <1>3, UsesStay DEF IInv
<1>5. \A s \in Site, a \in Authority : HeldIn(book, s, a) \in Nat /\ HeldIn(b, s, a) = HeldIn(book, s, a)
  BY <1>3, <1>4, HeldInTyped DEF Thins
<1>6. OthersHold(p.site, b)
  BY <1>5 DEF OthersHold
<1>7. ASSUME NEW a \in Authority
      PROVE  /\ a = y => Keeps(p, b, a) = Had(r, a) + 1
             /\ a # y => Keeps(p, b, a) = Had(r, a)
  <2>1. HeldOf(p, a) \in Nat /\ HeldOf(request[r], a) \in Nat
    BY <1>1, TermsTyped DEF Replaces
  <2>2. PICK u, v, w : u = HeldOf(p, a) /\ v = HeldOf(request[r], a) /\ w = HeldIn(book, p.site, a)
    OBVIOUS
  <2>3. Keeps(p, b, a) = u + w /\ Had(r, a) = v + w /\ w \in Nat
    BY <1>1, <2>2, <1>5 DEF Keeps, Had
  <2>4. (a = y => u = v + 1) /\ (a # y => u = v)
    BY <1>1, <2>2
  <2> QED
    BY <2>1, <2>2, <2>3, <2>4
<1>8. ReserveAuthority(p.site, y) /\ AuthoritiesFit
  BY <1>1 DEF IInv
<1>9. AuthoritiesFit' /\ CommitsStay /\ \A x \in Site \ {p.site} : authorities'[x] = authorities[x]
  BY <1>1, <1>3, <1>6, <1>7, <1>8, AuthoritiesReserved
<1>10. CommittedFits'
  <2>1. BookTyped(b, n) /\ CommittedFits
    BY <1>4 DEF BookFits, IInv
  <2>2. \A x \in Site : \A t \in DOMAIN b.entries[x] : Entry(b, x, t).published =>
          /\ t \in DOMAIN book.entries[x] /\ Entry(book, x, t).published
          /\ Entry(b, x, t).key = Entry(book, x, t).key
    BY DEF Thins
  <2> QED
    BY <2>1, <2>2, <1>3, <1>9, CommittedStays
<1>11. PoolsFit' /\ DOMAIN occupied' = Pool
  <2>1. PoolsFit /\ DOMAIN occupied = Pool /\ UNCHANGED occupied
    BY DEF IInv
  <2> QED
    BY <2>1, <1>1, <1>2, PoolsStay DEF SameSlots
<1>12. UNCHANGED <<open, events>>
  BY DEF MayBecome
<1>13. /\ \A x \in Site \ {p.site} : DOMAIN b.entries[x] \subseteq DOMAIN book.entries[x]
       /\ \A x \in Site : \A t \in DOMAIN book.entries[x] : Usable(book, x, t) => Usable(b, x, t)
  BY DEF Thins
<1> QED
  BY <1>1, <1>3, <1>4, <1>9, <1>10, <1>11, <1>12, <1>13, PartsFit

\* A step that finishes the reservations of n (finishLocked).
LEMMA FinishStep ==
  ASSUME IInv, NEW r \in Request, NEW q, MayBecome(r, q), UNCHANGED <<book, issued, occupied>>,
         SameUses(r, q), SameSlots(r, q), NEW n, NEW commit \in BOOLEAN,
         FinishAuthorities(request[r].site, n, commit),
         \A a \in Authority : /\ n[a] \in Nat /\ HeldOf(q, a) + n[a] <= HeldOf(request[r], a)
                              /\ OneWay => HeldOf(q, a) + n[a] = HeldOf(request[r], a)
  PROVE  IInv' /\ RoutesKept
<1>1. PICK p \in RequestRecord :
           /\ Replaces(r, p) /\ RequestsFit' /\ p.site = request[r].site /\ p.site \in open /\ p.site \in Site
           /\ \A a : HeldOf(p, a) = HeldOf(q, a)
           /\ \A t : UsedBy(p, t) = UsedBy(q, t)
           /\ \A l : Holds(p, l) = Holds(q, l)
           /\ p.half = q.half
  BY Picked
<1>2. SameSlots(r, p) /\ \A t \in Token : UsedBy(p, t) = UsedBy(request[r], t)
  BY <1>1 DEF SameSlots, SameUses
<1>3. PICK uses, b, m : uses = UsesTable' /\ b = book' /\ b = book /\ m = issued' /\ m = issued /\ m \in 0..MaxToken
  BY DEF IInv
<1>4. BookFits(b, m, uses) /\ uses = UsesTable
  BY <1>1, <1>2, <1>3, UsesStay DEF IInv
<1>5. \A s \in Site, a \in Authority : HeldIn(book, s, a) \in Nat /\ HeldIn(b, s, a) = HeldIn(book, s, a)
  BY <1>3, <1>4, HeldInTyped
<1>6. OthersHold(p.site, b)
  BY <1>5 DEF OthersHold
<1>7. ASSUME NEW a \in Authority
      PROVE  /\ n[a] \in Nat /\ Keeps(p, b, a) + n[a] <= Had(r, a)
             /\ OneWay => Keeps(p, b, a) + n[a] = Had(r, a)
  <2>1. HeldOf(p, a) \in Nat /\ HeldOf(request[r], a) \in Nat
    BY <1>1, TermsTyped DEF Replaces
  <2>2. PICK u, v, w : u = HeldOf(p, a) /\ v = HeldOf(request[r], a) /\ w = HeldIn(book, p.site, a)
    OBVIOUS
  <2>3. Keeps(p, b, a) = u + w /\ Had(r, a) = v + w /\ w \in Nat
    BY <1>1, <2>2, <1>5 DEF Keeps, Had
  <2>4. n[a] \in Nat /\ u + n[a] <= v /\ (OneWay => u + n[a] = v)
    BY <1>1, <2>2
  <2> QED
    BY <2>1, <2>2, <2>3, <2>4
<1>8. FinishAuthorities(p.site, n, commit) /\ AuthoritiesFit
  BY <1>1 DEF IInv
<1>9. AuthoritiesFit' /\ CommitsStay /\ \A x \in Site \ {p.site} : authorities'[x] = authorities[x]
  BY <1>1, <1>3, <1>6, <1>7, <1>8, AuthoritiesFinished
<1>10. CommittedFits'
  <2>1. BookTyped(b, m) /\ CommittedFits
    BY <1>4 DEF BookFits, IInv
  <2> QED
    BY <2>1, <1>3, <1>9, CommittedStays
<1>11. PoolsFit' /\ DOMAIN occupied' = Pool
  <2>1. PoolsFit /\ DOMAIN occupied = Pool /\ UNCHANGED occupied
    BY DEF IInv
  <2> QED
    BY <2>1, <1>1, <1>2, PoolsStay DEF SameSlots
<1>12. UNCHANGED <<open, events>>
  BY DEF MayBecome
<1> QED
  BY <1>1, <1>3, <1>4, <1>9, <1>10, <1>11, <1>12, PartsFit

\* The reservation of a single request.
LEMMA OneIs ==
  ASSUME NEW y
  PROVE  \A a \in Authority : /\ One(y)[a] \in Nat
                              /\ a = y => One(y)[a] = 1
                              /\ a # y => One(y)[a] = 0
BY DEF One

\* A step that settles n uses of tokens (settleCapabilities).
LEMMA SettleStep ==
  ASSUME IInv, NEW r \in Request, NEW q, MayBecome(r, q), UNCHANGED <<issued, occupied>>,
         SameHeld(r, q), SameSlots(r, q), NEW n, NEW publish \in BOOLEAN, Settle(request[r].site, n, publish),
         \A t \in Token : n[t] \in Nat /\ UsedBy(q, t) + n[t] = UsedBy(request[r], t)
  PROVE  IInv' /\ RoutesKept
<1>1. PICK p \in RequestRecord :
           /\ Replaces(r, p) /\ RequestsFit' /\ p.site = request[r].site /\ p.site \in open /\ p.site \in Site
           /\ \A a : HeldOf(p, a) = HeldOf(q, a)
           /\ \A t : UsedBy(p, t) = UsedBy(q, t)
           /\ \A l : Holds(p, l) = Holds(q, l)
           /\ p.half = q.half
  BY Picked
<1>2. /\ SameHeld(r, p) /\ SameSlots(r, p)
      /\ \A t \in Token : n[t] \in Nat /\ UsedBy(p, t) + n[t] = UsedBy(request[r], t)
  BY <1>1 DEF SameHeld, SameSlots
<1>3. PICK uses, fewer, b, m :
        uses = UsesTable /\ fewer = UsesTable' /\ b = book' /\ m = issued' /\ m = issued /\ m \in 0..MaxToken
  BY DEF IInv
<1>4. PICK s \in Site : s = p.site
  BY <1>1
<1>5. Takes(n, s, uses, fewer)
  BY <1>1, <1>2, <1>3, <1>4, UsesLessen
<1>6. BookFits(book, m, uses)
  BY <1>3 DEF IInv
<1>7. PICK T, commit, d :
        /\ commit \in BOOLEAN /\ T \subseteq DOMAIN book.entries[s] /\ d = HeldBy(book, s, T)
        /\ FinishAuthorities(s, d, commit)
        /\ BookFits(b, m, fewer) /\ KeepsKeys(s, b)
        /\ \A a \in Authority : HeldIn(b, s, a) = HeldIn(book, s, a) - d[a]
        /\ \A t \in DOMAIN b.entries[s] : Entry(b, s, t).published => Entry(book, s, t).published \/ (commit /\ t \in T)
  <2>1. CASE publish /\ Settles(s, n, TRUE)
    <3>1. b = Published(s, n) /\ FinishAuthorities(s, HeldBy(book, s, Settled(s, n)), TRUE)
      BY <2>1, <1>1, <1>3, <1>4 DEF Settle
    <3>2. SettlesInto(s, m, fewer, b, Settled(s, n), Settled(s, n))
      BY <3>1, <1>3, <1>5, <1>6, PublishedFits
    <3>3. Settled(s, n) \subseteq DOMAIN book.entries[s]
      BY DEF Settled
    <3> QED
      BY <3>1, <3>2, <3>3 DEF SettlesInto
  <2>2. CASE ~(publish /\ Settles(s, n, TRUE))
    <3>1. b = GivenBack(s, n) /\ FinishAuthorities(s, HeldBy(book, s, Withdrawn(s, n)), FALSE)
      BY <2>2, <1>1, <1>3, <1>4 DEF Settle
    <3>2. SettlesInto(s, m, fewer, b, Withdrawn(s, n), {})
      BY <3>1, <1>3, <1>5, <1>6, GivenBackFits
    <3>3. Withdrawn(s, n) \subseteq DOMAIN book.entries[s]
      BY DEF Withdrawn, Settled
    <3> QED
      BY <3>1, <3>2, <3>3 DEF SettlesInto
  <2> QED
    BY <2>1, <2>2
<1>8. BookTyped(book, m) /\ BookTyped(b, m)
  BY <1>6, <1>7 DEF BookFits
<1>9. \A a \in Authority : d[a] \in Nat /\ d[a] <= HeldIn(book, s, a) /\ HeldIn(book, s, a) \in Nat
  BY <1>3, <1>7, <1>8, HeldSets
<1>10. OthersHold(s, b)
  <2>1. \A x \in Site, a \in Authority : HeldIn(book, x, a) \in Nat /\ HeldIn(b, x, a) \in Nat
    BY <1>3, <1>6, <1>7, HeldInTyped
  <2>2. ASSUME NEW x \in Site \ {s}, NEW a \in Authority PROVE HeldIn(b, x, a) = HeldIn(book, x, a)
    <3>1. HeldSet(b, x, DOMAIN b.entries[x], a) = HeldSet(book, x, DOMAIN book.entries[x], a)
      BY <1>7 DEF KeepsKeys, HeldSet
    <3> QED
      BY <3>1, <1>3, <1>8, HeldSets
  <2> QED
    BY <2>1, <2>2 DEF OthersHold
<1>11. ASSUME NEW a \in Authority
       PROVE  /\ d[a] \in Nat /\ Keeps(p, b, a) + d[a] <= Had(r, a)
              /\ OneWay => Keeps(p, b, a) + d[a] = Had(r, a)
  <2>1. HeldOf(p, a) \in Nat /\ HeldOf(request[r], a) \in Nat
    BY <1>1, TermsTyped DEF Replaces
  <2>2. PICK u, v, w, z : /\ u = HeldOf(p, a) /\ v = HeldOf(request[r], a)
                          /\ w = HeldIn(book, s, a) /\ z = HeldIn(b, s, a)
    OBVIOUS
  <2>3. Keeps(p, b, a) = u + z /\ Had(r, a) = v + w /\ w \in Nat /\ z = w - d[a] /\ d[a] \in Nat /\ d[a] <= w
    BY <1>1, <1>4, <2>2, <1>7, <1>9 DEF Keeps, Had
  <2>4. u <= v /\ (OneWay => u = v)
    BY <1>2, <2>2 DEF SameHeld
  <2> QED
    BY <2>1, <2>2, <2>3, <2>4
<1>12. AuthoritiesFit /\ FinishAuthorities(p.site, d, commit) /\ OthersHold(p.site, b)
  BY <1>4, <1>7, <1>10 DEF IInv
<1>13. /\ AuthoritiesFit' /\ CommitsStay /\ \A x \in Site \ {p.site} : authorities'[x] = authorities[x]
       /\ commit => Commits(p.site, d)
  BY <1>1, <1>3, <1>7, <1>11, <1>12, AuthoritiesFinished
<1>14. CommittedFits'
  <2>1. CommittedFits
    BY DEF IInv
  <2>2. ASSUME NEW x \in Site, NEW t \in DOMAIN b.entries[x], Entry(b, x, t).published
        PROVE  \/ Trusted(Entry(b, x, t).key.target)
               \/ /\ t \in DOMAIN book.entries[x] /\ Entry(book, x, t).published
                  /\ Entry(b, x, t).key = Entry(book, x, t).key
               \/ /\ IsKnown(x, AuthorityOf[Entry(b, x, t).key.target])'
                  /\ authorities'[x][AuthorityOf[Entry(b, x, t).key.target]].committed
    <3>1. t \in DOMAIN book.entries[x] /\ Entry(b, x, t).key = Entry(book, x, t).key
      BY <1>7 DEF KeepsKeys
    <3>2. CASE Entry(book, x, t).published
      BY <3>1, <3>2
    <3>3. CASE ~Entry(book, x, t).published /\ ~Trusted(Entry(book, x, t).key.target)
      <4>1. x = s /\ commit /\ t \in T
        BY <2>2, <3>1, <3>3, <1>7 DEF KeepsKeys
      <4>2. PICK k : k = Entry(book, s, t).key
        OBVIOUS
      <4>3. AuthorityOf[k.target] \in Authority
        <5>1. k \in Key
          BY <3>1, <4>1, <4>2, <1>8 DEF BookTyped, EntryRecord, Entry
        <5>2. k.target \in Target /\ AuthorityOf[k.target] # Configured
          BY <5>1, <3>3, <4>1, <4>2 DEF Key, Trusted
        <5> QED
          BY <5>2, TargetAssumption
      <4>4. PICK a \in Authority : a = AuthorityOf[k.target]
        BY <4>3
      <4>5. Entry(book, s, t).holds
        BY <3>1, <3>3, <4>1, <1>6 DEF BookFits, HoldsFit
      <4>6. t \in HeldSet(book, s, T, a)
        BY <4>1, <4>2, <4>4, <4>5 DEF HeldSet
      <4>7. d[a] = Cardinality(HeldSet(book, s, T, a)) /\ IsFiniteSet(HeldSet(book, s, T, a))
        BY <1>3, <1>7, <1>8, HeldSets
      <4>8. d[a] > 0
        <5>1. PICK H : H = HeldSet(book, s, T, a)
          OBVIOUS
        <5>2. Cardinality(H) \in Nat /\ Cardinality(H) >= 1
          BY ONLY <4>6, <4>7, <5>1, SetMoves
        <5> QED
          BY ONLY <4>7, <5>1, <5>2
      <4>9. IsKnown(s, a)' /\ authorities'[s][a].committed
        BY <4>1, <4>8, <1>4, <1>13 DEF Commits
      <4> QED
        BY <3>1, <4>1, <4>2, <4>4, <4>9
    <3>4. CASE Trusted(Entry(book, x, t).key.target)
      BY <3>1, <3>4
    <3> QED
      BY <3>2, <3>3, <3>4
  <2> QED
    BY <2>1, <2>2, <1>3, <1>8, <1>13, CommittedStays
<1>15. PoolsFit' /\ DOMAIN occupied' = Pool
  <2>1. PoolsFit /\ DOMAIN occupied = Pool /\ UNCHANGED occupied
    BY DEF IInv
  <2> QED
    BY <2>1, <1>1, <1>2, PoolsStay DEF SameSlots
<1>16. /\ \A x \in Site \ {p.site} : DOMAIN b.entries[x] \subseteq DOMAIN book.entries[x]
       /\ \A x \in Site : \A t \in DOMAIN book.entries[x] : Usable(book, x, t) => Usable(b, x, t)
  BY <1>4, <1>7 DEF KeepsKeys
<1>17. UNCHANGED <<open, events>>
  BY DEF MayBecome
<1> QED
  BY <1>1, <1>3, <1>7, <1>13, <1>14, <1>15, <1>16, <1>17, PartsFit

\* A step that takes or gives back a slot of pool l.
LEMMA PoolStep ==
  ASSUME IInv, NEW r \in Request, NEW q, MayBecome(r, q), UNCHANGED <<authorityVars, book, issued>>,
         SameHeld(r, q), SameUses(r, q), NEW l \in Pool, NEW n \in Int, NEW m \in Int,
         PoolMoves(l, request[r].site, n, m), DOMAIN occupied' = Pool,
         \A k \in Pool \ {l} : /\ occupied'[k] = occupied[k]
                               /\ HasSlot(request[r], k) <=> HasSlot(q, k)
                               /\ Holds(request[r], k) <=> Holds(q, k),
         \/ n = 0 /\ (HasSlot(request[r], l) <=> HasSlot(q, l))
         \/ n = 1 /\ HasSlot(q, l) /\ ~HasSlot(request[r], l)
         \/ n = -1 /\ ~HasSlot(q, l) /\ HasSlot(request[r], l),
         \/ m = 0 /\ (Holds(request[r], l) <=> Holds(q, l))
         \/ m = 1 /\ Holds(q, l) /\ ~Holds(request[r], l)
         \/ m = -1 /\ ~Holds(q, l) /\ Holds(request[r], l)
  PROVE  IInv' /\ RoutesKept
<1>1. PICK p \in RequestRecord :
           /\ Replaces(r, p) /\ RequestsFit' /\ p.site = request[r].site /\ p.site \in open /\ p.site \in Site
           /\ \A a : HeldOf(p, a) = HeldOf(q, a)
           /\ \A t : UsedBy(p, t) = UsedBy(q, t)
           /\ \A k : Holds(p, k) = Holds(q, k)
           /\ p.half = q.half
  BY Picked
<1>2. /\ SameHeld(r, p) /\ \A t \in Token : UsedBy(p, t) = UsedBy(request[r], t)
      /\ \A k \in Pool : HasSlot(p, k) <=> HasSlot(q, k)
  BY <1>1 DEF SameHeld, SameUses, HasSlot
<1>3. PICK uses, b, i : uses = UsesTable' /\ b = book' /\ b = book /\ i = issued' /\ i = issued /\ i \in 0..MaxToken
  BY DEF IInv
<1>4. BookFits(b, i, uses) /\ uses = UsesTable
  BY <1>1, <1>2, <1>3, UsesStay DEF IInv
<1>5. \A s \in Site, a \in Authority : HeldIn(book, s, a) \in Nat /\ HeldIn(b, s, a) = HeldIn(book, s, a)
  BY <1>3, <1>4, HeldInTyped
<1>6. OthersHold(p.site, b)
  BY <1>5 DEF OthersHold
<1>7. ASSUME NEW a \in Authority
      PROVE  Keeps(p, b, a) <= Had(r, a) /\ (OneWay => Keeps(p, b, a) = Had(r, a))
  <2>1. HeldOf(p, a) \in Nat /\ HeldOf(request[r], a) \in Nat
    BY <1>1, TermsTyped DEF Replaces
  <2>2. PICK u, v, w : u = HeldOf(p, a) /\ v = HeldOf(request[r], a) /\ w = HeldIn(book, p.site, a)
    OBVIOUS
  <2>3. Keeps(p, b, a) = u + w /\ Had(r, a) = v + w /\ w \in Nat
    BY <1>1, <2>2, <1>5 DEF Keeps, Had
  <2>4. u <= v /\ (OneWay => u = v)
    BY <1>2, <2>2 DEF SameHeld
  <2> QED
    BY <2>1, <2>3, <2>2, <2>4
<1>8. PICK held : held = HeldTable
  OBVIOUS
<1>9. /\ AuthoritiesTyped' /\ KnownFits' /\ InFlightFits(held)' /\ CommitsStay
      /\ \A x : authorities'[x] = authorities[x]
  BY <1>8, QuietAuthorities DEF IInv
<1>10. AuthoritiesFit'
  BY <1>1, <1>3, <1>6, <1>7, <1>8, <1>9, AuthoritiesQuiet
<1>11. CommittedFits'
  <2>1. BookTyped(b, i) /\ CommittedFits
    BY <1>4 DEF BookFits, IInv
  <2> QED
    BY <2>1, <1>3, <1>9, CommittedStays
<1>12. ASSUME NEW k \in Pool
       PROVE  /\ occupied'[k] \in [all : Nat, of : [Site -> Nat]]
              /\ Covers(occupied'[k].all, Cardinality(HoldersIn(k)'))
              /\ \A s \in Site : Covers(occupied'[k].of[s], Cardinality(HoldersOf(k, s)'))
  <2>1. PoolsFit
    BY DEF IInv
  <2>2. CASE k = l
    <3>1. PoolMoves(l, p.site, n, m)
      BY <1>1
    <3>2. \/ n = 0 /\ (HasSlot(request[r], l) <=> HasSlot(p, l))
          \/ n = 1 /\ HasSlot(p, l) /\ ~HasSlot(request[r], l)
          \/ n = -1 /\ ~HasSlot(p, l) /\ HasSlot(request[r], l)
      BY <1>2
    <3>3. \/ m = 0 /\ (Holds(request[r], l) <=> Holds(p, l))
          \/ m = 1 /\ Holds(p, l) /\ ~Holds(request[r], l)
          \/ m = -1 /\ ~Holds(p, l) /\ Holds(request[r], l)
      BY <1>1
    <3> QED
      BY <1>1, <2>1, <2>2, <3>1, <3>2, <3>3, PoolFollows
  <2>3. CASE k # l
    <3>1. occupied[k] \in [all : Nat, of : [Site -> Nat]]
      BY <2>1 DEF PoolsFit
    <3>2. PICK o \in [all : Nat, of : [Site -> Nat]] : o = occupied[k] /\ o = occupied'[k]
      BY <2>3, <3>1
    <3>3. PoolMoves(k, p.site, 0, 0)
      BY <1>1, <3>2 DEF PoolMoves
    <3>4. HasSlot(p, k) <=> HasSlot(request[r], k)
      BY <2>3, <1>2
    <3>5. Holds(p, k) <=> Holds(request[r], k)
      BY <2>3, <1>1
    <3> QED
      BY <1>1, <2>1, <3>3, <3>4, <3>5, PoolFollows
  <2> QED
    BY <2>2, <2>3
<1>13. PoolsFit'
  BY <1>12 DEF PoolsFit, Covers, HoldersIn, HoldersOf, Holds
<1>14. UNCHANGED <<open, events>>
  BY DEF MayBecome
<1> QED
  BY <1>1, <1>3, <1>4, <1>9, <1>10, <1>11, <1>13, <1>14, PartsFit

\* What the operations of a pool do to its counts (acquireStream, acquireParse).
LEMMA PoolsMove ==
  ASSUME DOMAIN occupied = Pool, NEW l \in Pool, NEW s \in Site,
         \A k \in Pool : occupied[k] \in [all : Nat, of : [Site -> Nat]]
  PROVE  /\ Take(l) => PoolMoves(l, s, 1, 0)
         /\ TakeOfSite(l, s) => /\ occupied[l].of[s] < SiteLimits[l] => PoolMoves(l, s, 0, 1)
                                /\ ~(occupied[l].of[s] < SiteLimits[l]) => PoolMoves(l, s, -1, 0)
         /\ Release(l, s) => PoolMoves(l, s, -1, -1)
         /\ Take(l) \/ TakeOfSite(l, s) \/ Release(l, s) =>
              /\ DOMAIN occupied' = Pool
              /\ \A k \in Pool \ {l} : occupied'[k] = occupied[k]
<1>1. PICK o : o = occupied[l]
  OBVIOUS
<1>2. o \in [all : Nat, of : [Site -> Nat]] /\ o.all \in Nat /\ o.of[s] \in Nat /\ o.of \in [Site -> Nat]
  BY <1>1
<1>3. PICK u, v, w : u = o.all + 1 /\ v = o.all - 1 /\ w = o.of[s] + 1
  OBVIOUS
<1>4. PICK z : z = o.of[s] - 1
  OBVIOUS
<1>5. u \in Int /\ v \in Int /\ w \in Int /\ z \in Int
  BY <1>2, <1>3, <1>4
<1>6. ASSUME Take(l)
      PROVE  PoolMoves(l, s, 1, 0) /\ DOMAIN occupied' = Pool /\ \A k \in Pool \ {l} : occupied'[k] = occupied[k]
  <2>1. occupied' = [occupied EXCEPT ![l].all = u]
    BY <1>1, <1>3, <1>6 DEF Take
  <2>2. occupied'[l] = [o EXCEPT !.all = u]
    BY <2>1, <1>1
  <2>3. occupied'[l] \in [all : Int, of : [Site -> Int]] /\ occupied'[l].all = u /\ occupied'[l].of = o.of
    BY <2>2, <1>2, <1>5
  <2> QED
    BY <2>1, <2>3, <1>1, <1>2, <1>3 DEF PoolMoves
<1>7. ASSUME TakeOfSite(l, s), occupied[l].of[s] < SiteLimits[l]
      PROVE  PoolMoves(l, s, 0, 1) /\ DOMAIN occupied' = Pool /\ \A k \in Pool \ {l} : occupied'[k] = occupied[k]
  <2>1. occupied' = [occupied EXCEPT ![l].of[s] = w]
    BY <1>1, <1>3, <1>7 DEF TakeOfSite
  <2>2. occupied'[l] = [o EXCEPT !.of[s] = w]
    BY <2>1, <1>1
  <2>3. occupied'[l].all = o.all /\ occupied'[l].of = [o.of EXCEPT ![s] = w]
        /\ occupied'[l] \in [all : Int, of : [Site -> Int]]
    BY <2>2, <1>2, <1>5
  <2> QED
    BY <2>1, <2>3, <1>1, <1>2, <1>3 DEF PoolMoves
<1>8. ASSUME TakeOfSite(l, s), ~(occupied[l].of[s] < SiteLimits[l])
      PROVE  PoolMoves(l, s, -1, 0) /\ DOMAIN occupied' = Pool /\ \A k \in Pool \ {l} : occupied'[k] = occupied[k]
  <2>1. occupied' = [occupied EXCEPT ![l].all = v]
    BY <1>1, <1>3, <1>8 DEF TakeOfSite
  <2>2. occupied'[l] = [o EXCEPT !.all = v]
    BY <2>1, <1>1
  <2>3. occupied'[l] \in [all : Int, of : [Site -> Int]] /\ occupied'[l].all = v /\ occupied'[l].of = o.of
    BY <2>2, <1>2, <1>5
  <2> QED
    BY <2>1, <2>3, <1>1, <1>2, <1>3 DEF PoolMoves
<1>9. ASSUME Release(l, s)
      PROVE  PoolMoves(l, s, -1, -1) /\ DOMAIN occupied' = Pool /\ \A k \in Pool \ {l} : occupied'[k] = occupied[k]
  <2>1. occupied' = [[occupied EXCEPT ![l].all = v] EXCEPT ![l].of[s] = z]
    BY <1>1, <1>2, <1>3, <1>4, <1>9 DEF Release
  <2>2. occupied'[l] = [[o EXCEPT !.all = v] EXCEPT !.of[s] = z]
    BY <2>1, <1>1
  <2>3. occupied'[l].all = v /\ occupied'[l].of = [o.of EXCEPT ![s] = z]
        /\ occupied'[l] \in [all : Int, of : [Site -> Int]]
    <3>1. PICK e : e = [o EXCEPT !.all = v]
      OBVIOUS
    <3>2. e \in [all : Int, of : [Site -> Int]] /\ e.all = v /\ e.of = o.of
      BY <3>1, <1>2, <1>5
    <3>3. occupied'[l] = [e EXCEPT !.of[s] = z]
      BY <2>2, <3>1
    <3> QED
      BY <3>2, <3>3, <1>5
  <2> QED
    BY <2>1, <2>3, <1>1, <1>2, <1>3, <1>4 DEF PoolMoves
<1> QED
  BY <1>6, <1>7, <1>8, <1>9

\* A step that registers a token for key k (registerCapability).
LEMMA AddStep ==
  ASSUME IInv, NEW r \in Request, NEW q, MayBecome(r, q), UNCHANGED <<authorityVars, occupied>>,
         issued < MaxToken, issued' = issued + 1, SameSlots(r, q),
         NEW c, BookFits(c, issued, UsesTable), Thins(book, c), NEW k \in Key,
         TokenOf(c, request[r].site, k) = {}, NEW holds \in BOOLEAN, holds = ~Trusted(k.target),
         book' = Added(c, request[r].site, k, issued + 1, holds),
         \A t \in Token : /\ t = issued + 1 => UsedBy(q, t) = UsedBy(request[r], t) + 1
                          /\ t # issued + 1 => UsedBy(q, t) = UsedBy(request[r], t),
         \A a \in Authority :
           /\ holds /\ a = AuthorityOf[k.target] => HeldOf(q, a) + 1 = HeldOf(request[r], a)
           /\ ~(holds /\ a = AuthorityOf[k.target]) => HeldOf(q, a) = HeldOf(request[r], a)
  PROVE  IInv' /\ RoutesKept
<1>1. PICK p \in RequestRecord :
           /\ Replaces(r, p) /\ RequestsFit' /\ p.site = request[r].site /\ p.site \in open /\ p.site \in Site
           /\ \A a : HeldOf(p, a) = HeldOf(q, a)
           /\ \A t : UsedBy(p, t) = UsedBy(q, t)
           /\ \A l : Holds(p, l) = Holds(q, l)
           /\ p.half = q.half
  BY Picked
<1>2. PICK s \in Site : s = p.site
  BY <1>1
<1>3. PICK n \in 0..MaxToken : n = issued
  BY DEF IInv
<1>4. PICK y \in Token : y = n + 1
  BY <1>3, LimitAssumption DEF Token
<1>5. PICK uses, more, b : uses = UsesTable /\ more = UsesTable' /\ b = book'
  OBVIOUS
<1>6. \A t \in Token : /\ t = y => UsedBy(p, t) = UsedBy(request[r], t) + 1
                       /\ t # y => UsedBy(p, t) = UsedBy(request[r], t)
  BY <1>1, <1>3, <1>4
<1>7. \A x \in Site, t \in Token :
           /\ x = s /\ t = y => more[x][t] = uses[x][t] + 1
           /\ ~(x = s /\ t = y) => more[x][t] = uses[x][t]
  BY <1>1, <1>2, <1>5, <1>6, UsesGain
<1>8. BookFits(c, n, uses) /\ BookFits(book, n, uses)
  BY <1>3, <1>5 DEF IInv
<1>9. uses[s][y] = 0
  <2>1. DOMAIN c.entries[s] \subseteq 1..n
    BY <1>8 DEF BookFits, BookTyped
  <2>2. y \notin 1..n
    BY <1>4
  <2> QED
    BY <2>1, <2>2, <1>8 DEF BookFits, PendingFits, Registered
<1>10. FirstUse(s, n + 1, uses, more)
  <2> SUFFICES ASSUME NEW x \in Site, NEW z \in Token
               PROVE  /\ x = s /\ z = y => more[x][z] = 1
                      /\ ~(x = s /\ z = y) => more[x][z] = uses[x][z]
    BY <1>4 DEF FirstUse
  <2>1. CASE x = s /\ z = y
    <3>1. more[s][y] = uses[s][y] + 1
      BY <1>7, <1>2, <1>4
    <3> QED
      BY ONLY <3>1, <2>1, <1>9
  <2>2. CASE ~(x = s /\ z = y)
    BY <2>2, <1>7
  <2> QED
    BY <2>1, <2>2
<1>11. b = Added(c, s, k, n + 1, holds) /\ TokenOf(c, s, k) = {} /\ n < MaxToken
  BY <1>1, <1>2, <1>3, <1>5
<1>12. BookFits(b, n + 1, more) /\ AddsTo(s, k, holds, c, b)
  <2>1. s \in Site /\ k \in Key /\ holds \in BOOLEAN /\ (holds <=> ~Trusted(k.target)) /\ n \in 0..MaxToken
    BY <1>2, <1>3
  <2> QED
    BY ONLY <2>1, <1>8, <1>10, <1>11, AddedFits
<1>13. \A x \in Site, a \in Authority : HeldIn(book, x, a) \in Nat /\ HeldIn(c, x, a) = HeldIn(book, x, a)
  BY <1>8, HeldInTyped DEF Thins
<1>14. OthersHold(s, b)
  <2>1. ASSUME NEW x \in Site, NEW a \in Authority
        PROVE  HeldIn(book, x, a) \in Nat /\ HeldIn(b, x, a) \in Nat
               /\ (x # s => HeldIn(b, x, a) = HeldIn(book, x, a))
    <3>1. HeldIn(book, x, a) \in Nat /\ HeldIn(c, x, a) = HeldIn(book, x, a)
      BY <1>13
    <3>2. HeldIn(b, x, a) = HeldIn(c, x, a) + 1 \/ HeldIn(b, x, a) = HeldIn(c, x, a)
      BY <1>12 DEF AddsTo
    <3>3. x # s => HeldIn(b, x, a) = HeldIn(c, x, a)
      BY <1>12 DEF AddsTo
    <3> QED
      BY <3>1, <3>2, <3>3
  <2> QED
    BY <2>1 DEF OthersHold
<1>15. ASSUME NEW a \in Authority PROVE Keeps(p, b, a) = Had(r, a) /\ Had(r, a) \in Nat
  <2>1. HeldOf(p, a) \in Nat /\ HeldOf(request[r], a) \in Nat
    BY <1>1, TermsTyped DEF Replaces
  <2>2. PICK u, v, w, z : /\ u = HeldOf(p, a) /\ v = HeldOf(request[r], a)
                          /\ w = HeldIn(book, s, a) /\ z = HeldIn(b, s, a)
    OBVIOUS
  <2>3. Keeps(p, b, a) = u + z /\ Had(r, a) = v + w /\ w \in Nat
    BY <1>1, <1>2, <2>2, <1>13 DEF Keeps, Had
  <2>4. ASSUME holds /\ a = AuthorityOf[k.target] PROVE u + z = v + w /\ v + w \in Nat
    <3>1. u + 1 = v
      BY <2>2, <2>4, <1>1
    <3>2. z = w + 1
      BY <2>2, <2>4, <1>12, <1>13 DEF AddsTo
    <3>3. u \in Nat /\ v \in Nat /\ w \in Nat
      BY <2>1, <2>2, <2>3
    <3> QED
      BY ONLY <3>1, <3>2, <3>3
  <2>5. ASSUME ~(holds /\ a = AuthorityOf[k.target]) PROVE u + z = v + w /\ v + w \in Nat
    <3>1. u = v
      BY <2>2, <2>5, <1>1
    <3>2. z = w
      BY <2>2, <2>5, <1>12, <1>13 DEF AddsTo
    <3>3. u \in Nat /\ v \in Nat /\ w \in Nat
      BY <2>1, <2>2, <2>3
    <3> QED
      BY ONLY <3>1, <3>2, <3>3
  <2>6. u + z = v + w /\ v + w \in Nat
    BY ONLY <2>4, <2>5
  <2> QED
    BY ONLY <2>3, <2>6
<1>16. PICK held : held = HeldTable
  OBVIOUS
<1>17. /\ AuthoritiesTyped' /\ KnownFits' /\ InFlightFits(held)' /\ CommitsStay
       /\ \A x : authorities'[x] = authorities[x]
  BY <1>16, QuietAuthorities DEF IInv
<1>18. AuthoritiesFit'
  <2>1. \A a \in Authority : Keeps(p, b, a) <= Had(r, a) /\ (OneWay => Keeps(p, b, a) = Had(r, a))
    BY <1>15
  <2>2. OthersHold(p.site, b)
    BY <1>2, <1>14
  <2> QED
    BY <2>1, <2>2, <1>1, <1>5, <1>16, <1>17, AuthoritiesQuiet
<1>19. CommittedFits'
  <2>1. BookTyped(b, n + 1) /\ CommittedFits
    BY <1>12 DEF BookFits, IInv
  <2>2. \A x \in Site : \A t \in DOMAIN b.entries[x] : Entry(b, x, t).published =>
          /\ t \in DOMAIN book.entries[x] /\ Entry(book, x, t).published
          /\ Entry(b, x, t).key = Entry(book, x, t).key
    BY <1>12 DEF Thins, AddsTo
  <2> QED
    BY <2>1, <2>2, <1>5, <1>17, CommittedStays
<1>20. PoolsFit' /\ DOMAIN occupied' = Pool
  <2>1. PoolsFit /\ DOMAIN occupied = Pool /\ UNCHANGED occupied
    BY DEF IInv
  <2> QED
    BY <2>1, <1>1, PoolsStay DEF SameSlots
<1>21. /\ \A x \in Site \ {p.site} : DOMAIN b.entries[x] \subseteq DOMAIN book.entries[x]
       /\ \A x \in Site : \A t \in DOMAIN book.entries[x] : Usable(book, x, t) => Usable(b, x, t)
  <2>1. \A x \in Site \ {p.site} : DOMAIN b.entries[x] \subseteq DOMAIN book.entries[x]
    BY <1>2, <1>12 DEF Thins, AddsTo
  <2>2. \A x \in Site : \A t \in DOMAIN book.entries[x] : Usable(book, x, t) => Usable(b, x, t)
    BY <1>12 DEF Thins, AddsTo, Usable, Registered
  <2> QED
    BY <2>1, <2>2
<1>22. UNCHANGED <<open, events>>
  BY DEF MayBecome
<1>23. PICK i \in 0..MaxToken : i = issued' /\ i = n + 1
  BY <1>3, <1>11, LimitAssumption
<1>24. BookFits(b, i, more)
  BY <1>12, <1>23
<1> QED
  BY <1>1, <1>5, <1>17, <1>18, <1>19, <1>20, <1>21, <1>22, <1>23, <1>24, PartsFit

\* What a request holds is known, and is being resolved or was.
LEMMA HeldIsKnown ==
  ASSUME IInv, NEW r \in Request, NEW p, Replaces(r, p), NEW a \in Authority, HeldOf(request[r], a) > 0
  PROVE  IsKnown(request[r].site, a)
<1>1. PICK s \in Site : s = p.site /\ s = request[r].site
  BY RecordFacts DEF Replaces
<1>2. LiveIn(s, a) \in Nat /\ HeldOf(request[r], a) <= LiveIn(s, a) /\ HeldOf(request[r], a) \in Nat
  BY <1>1, LiveMoves, TermsTyped DEF Replaces
<1>3. HeldIn(book, s, a) \in Nat
  BY HeldInTyped DEF IInv
<1>4. HeldTable[s][a] = LiveIn(s, a) + HeldIn(book, s, a)
  BY DEF HeldTable, HeldIn
<1>5. HeldTable[s][a] # 0
  BY <1>2, <1>3, <1>4
<1> QED
  BY <1>1, <1>5 DEF IInv, AuthoritiesFit, InFlightFits

\* A step with the answer of the resolver.
LEMMA ResolveStep ==
  ASSUME IInv, NEW r \in Request, NEW q, MayBecome(r, q),
         UNCHANGED <<known, newOf, newAll, book, issued, occupied>>,
         SameHeld(r, q), SameSlots(r, q), SameUses(r, q),
         NEW a \in Authority, HeldOf(request[r], a) > 0,
         authorities[request[r].site][a].resolution # "none",
         authorities' = [authorities EXCEPT ![request[r].site][a].resolution = "known"]
  PROVE  IInv' /\ RoutesKept
<1>1. PICK p \in RequestRecord :
           /\ Replaces(r, p) /\ RequestsFit' /\ p.site = request[r].site /\ p.site \in open /\ p.site \in Site
           /\ \A x : HeldOf(p, x) = HeldOf(q, x)
           /\ \A t : UsedBy(p, t) = UsedBy(q, t)
           /\ \A l : Holds(p, l) = Holds(q, l)
           /\ p.half = q.half
  BY Picked
<1>2. SameHeld(r, p) /\ SameSlots(r, p) /\ \A t \in Token : UsedBy(p, t) = UsedBy(request[r], t)
  BY <1>1 DEF SameHeld, SameSlots, SameUses
<1>3. PICK uses, b : uses = UsesTable' /\ b = book' /\ b = book
  OBVIOUS
<1>4. BookFits(b, issued, uses) /\ Thins(book, b)
  BY <1>1, <1>2, <1>3, UsesStay, ThinsSelf DEF IInv
<1>6. PICK h : h = HeldTable
  OBVIOUS
<1>7. PICK x \in Site : x = p.site
  BY <1>1
<1>8. /\ IsKnown(x, a) /\ authorities[x][a].resolution # "none"
      /\ authorities' = [authorities EXCEPT ![x][a].resolution = "known"]
  BY <1>1, <1>7, HeldIsKnown
<1>9. AuthoritiesTyped /\ KnownFits /\ InFlightFits(h) /\ UNCHANGED <<known, newOf, newAll>>
  BY <1>6 DEF IInv, AuthoritiesFit
<1>10. /\ AuthoritiesTyped' /\ KnownFits' /\ InFlightFits(h)' /\ CommitsStay
       /\ \A z \in Site \ {x} : authorities'[z] = authorities[z]
  BY <1>8, <1>9, ResolutionFits
<1>11. UNCHANGED <<open, events, issued, occupied>>
  BY DEF MayBecome
<1> QED
  BY <1>1, <1>2, <1>3, <1>4, <1>6, <1>7, <1>10, <1>11, QuietParts

-----------------------------------------------------------------------------
(* What happens meanwhile. The requests stay as they are.                    *)

\* Everything that only depends on the requests.
LEMMA RequestsStay ==
  ASSUME UNCHANGED request
  PROVE  /\ UsesTable' = UsesTable
         /\ \A s, a : LiveIn(s, a)' = LiveIn(s, a)
         /\ \A l : HoldersIn(l)' = HoldersIn(l)
         /\ \A l, s : HoldersOf(l, s)' = HoldersOf(l, s)
<1>1. request' = request
  OBVIOUS
<1>2. UsesTable' = UsesTable
  BY ONLY <1>1, Zenon DEF UsesTable, UsesOf
<1>3. \A s, a : LiveIn(s, a)' = LiveIn(s, a)
  BY ONLY <1>1, Zenon DEF LiveIn
<1>4. \A l : HoldersIn(l)' = HoldersIn(l)
  BY ONLY <1>1, Zenon DEF HoldersIn, Holds
<1>5. \A l, s : HoldersOf(l, s)' = HoldersOf(l, s)
  BY ONLY <1>1, Zenon DEF HoldersOf, Holds
<1> QED
  BY <1>2, <1>3, <1>4, <1>5

LEMMA RequestsFitStill ==
  ASSUME RequestsFit, UNCHANGED request,
         \A r \in Request : request[r].at \notin Idling => request[r].site \in open'
  PROVE  RequestsFit'
<1>1. request' = request
  OBVIOUS
<1>2. \A r \in Request : Fits(request[r])'
  BY <1>1 DEF RequestsFit, Fits, ReservationFits, DoingFits, TokensFit, SlotsFit, ForgetsNothing
<1> QED
  BY <1>1, <1>2 DEF RequestsFit

LEMMA PoolsStill ==
  ASSUME PoolsFit, UNCHANGED <<request, occupied>>
  PROVE  PoolsFit'
<1>1. ASSUME NEW l \in Pool
      PROVE  /\ occupied'[l] \in [all : Nat, of : [Site -> Nat]]
             /\ Covers(occupied'[l].all, Cardinality(HoldersIn(l)'))
             /\ \A s \in Site : Covers(occupied'[l].of[s], Cardinality(HoldersOf(l, s)'))
  BY RequestsStay DEF PoolsFit
<1> QED
  BY <1>1 DEF PoolsFit, Covers, HoldersIn, HoldersOf, Holds

\* What the book says of the tokens stays when their entries do.
LEMMA TermsOfBook ==
  ASSUME NEW b, NEW n, NEW uses, BookFits(b, n, uses), b = book', n = issued', uses = UsesTable'
  PROVE  BookFits(book, issued, UsesTable)'
BY DEF BookFits, BookTyped, IndexFits, ActiveFits, PairsOf, PendingFits, HoldsFit, Registered, Entry

LEMMA TableStays ==
  ASSUME UNCHANGED request, NEW b, b = book', \A x \in Site, a \in Authority : HeldIn(b, x, a) = HeldIn(book, x, a)
  PROVE  HeldTable' = HeldTable
<1>1. ASSUME NEW x \in Site, NEW a \in Authority
      PROVE  LiveIn(x, a)' + HeldBy(b, x, DOMAIN b.entries[x])[a] = LiveIn(x, a) + HeldBy(book, x, DOMAIN book.entries[x])[a]
  <2>1. LiveIn(x, a)' = LiveIn(x, a)
    BY RequestsStay
  <2>2. HeldBy(b, x, DOMAIN b.entries[x])[a] = HeldBy(book, x, DOMAIN book.entries[x])[a]
    BY DEF HeldIn
  <2> QED
    BY <2>1, <2>2
<1> QED
  BY <1>1 DEF HeldTable

\* The lifetime or the idle time of a capability ends.
LEMMA ExpireStep ==
  ASSUME IInv, NEW s \in Site, NEW t \in Token, Event(Expire(s, t))
  PROVE  IInv' /\ RoutesKept
<1>1. /\ UNCHANGED <<request, open, authorities, known, newOf, newAll, issued, occupied>>
      /\ events' = events + 1 /\ book' = [book EXCEPT !.entries[s][t].expired = TRUE]
      /\ t \in DOMAIN book.entries[s]
  BY DEF Event, Expire, Registered, authorityVars
<1>2. PICK b, n, uses : b = book' /\ n = issued /\ n = issued' /\ n \in 0..MaxToken /\ uses = UsesTable'
  BY <1>1 DEF IInv
<1>3. uses = UsesTable
  BY <1>1, <1>2, RequestsStay
<1>4. BookFits(book, n, uses)
  BY <1>2, <1>3 DEF IInv
<1>5. PICK f, i, k : f = book.entries /\ i = book.index /\ k = book.active
                     /\ book = [entries |-> f, index |-> i, active |-> k] /\ DOMAIN f = Site /\ DOMAIN i = Site
  BY <1>4 DEF BookFits, BookTyped
<1>6. PICK e : e = f[s][t] /\ e \in EntryRecord
  BY <1>1, <1>4, <1>5 DEF BookFits, BookTyped
<1>7. PICK d : d = [e EXCEPT !.expired = TRUE]
  OBVIOUS
<1>8. /\ d \in EntryRecord /\ d.key = e.key /\ d.pending = e.pending /\ d.published = e.published
      /\ d.holds = e.holds
  BY <1>6, <1>7 DEF EntryRecord
<1>9. b = [entries |-> [f EXCEPT ![s] = [f[s] EXCEPT ![t] = d]], index |-> i, active |-> k]
  BY <1>1, <1>2, <1>5, <1>6, <1>7
<1>10. /\ DOMAIN b.entries = Site /\ b.index = book.index /\ b.active = book.active
       /\ b = [entries |-> b.entries, index |-> b.index, active |-> b.active]
       /\ \A x \in Site : DOMAIN b.entries[x] = DOMAIN book.entries[x]
       /\ b.entries[s][t] = d
       /\ \A x \in Site : \A y \in DOMAIN book.entries[x] :
            ~(x = s /\ y = t) => b.entries[x][y] = book.entries[x][y]
  BY ONLY <1>1, <1>5, <1>9
<1>11. \A x \in Site : \A y \in DOMAIN book.entries[x] :
         /\ Entry(b, x, y) \in EntryRecord
         /\ Entry(b, x, y).key = Entry(book, x, y).key
         /\ Entry(b, x, y).pending = Entry(book, x, y).pending
         /\ Entry(b, x, y).published = Entry(book, x, y).published
         /\ Entry(b, x, y).holds = Entry(book, x, y).holds
  <2> SUFFICES ASSUME NEW x \in Site, NEW y \in DOMAIN book.entries[x]
               PROVE  /\ b.entries[x][y] \in EntryRecord
                      /\ b.entries[x][y].key = book.entries[x][y].key
                      /\ b.entries[x][y].pending = book.entries[x][y].pending
                      /\ b.entries[x][y].published = book.entries[x][y].published
                      /\ b.entries[x][y].holds = book.entries[x][y].holds
    BY DEF Entry
  <2>1. CASE x = s /\ y = t
    BY <2>1, <1>5, <1>6, <1>8, <1>10
  <2>2. CASE ~(x = s /\ y = t)
    <3>1. b.entries[x][y] = book.entries[x][y]
      BY <2>2, <1>10
    <3> QED
      BY <3>1, <1>4 DEF BookFits, BookTyped
  <2> QED
    BY <2>1, <2>2
<1>12. BookFits(b, n, uses)
  <2>1. BookTyped(b, n)
    <3>1. BookTyped(book, n)
      BY <1>4 DEF BookFits
    <3>2. \A x \in Site : \A y \in DOMAIN b.entries[x] : b.entries[x][y] \in EntryRecord
      BY <1>10, <1>11 DEF Entry
    <3> QED
      BY <3>1, <3>2, <1>10 DEF BookTyped
  <2>2. IndexFits(b)
    BY <1>4, <1>10, <1>11 DEF BookFits, IndexFits, Registered
  <2>3. ActiveFits(b)
    <3>1. PairsOf(b) = PairsOf(book)
      BY <1>10 DEF PairsOf
    <3> QED
      BY <3>1, <1>4, <1>10 DEF BookFits, ActiveFits
  <2>4. PendingFits(b, uses)
    BY <1>4, <1>10, <1>11 DEF BookFits, PendingFits, Registered
  <2>5. HoldsFit(b)
    <3> SUFFICES ASSUME NEW x \in Site, NEW y \in DOMAIN book.entries[x]
                 PROVE  IF Entry(b, x, y).published THEN ~Entry(b, x, y).holds
                        ELSE Entry(b, x, y).pending > 0
                             /\ (Entry(b, x, y).holds = ~Trusted(Entry(b, x, y).key.target))
      BY <1>10 DEF HoldsFit
    <3> QED
      BY <1>4, <1>11 DEF BookFits, HoldsFit
  <2> QED
    BY <2>1, <2>2, <2>3, <2>4, <2>5 DEF BookFits
<1>13. BookFits(book, issued, UsesTable)'
  BY <1>2, <1>12, TermsOfBook
<1>14. \A x \in Site, a \in Authority : HeldIn(b, x, a) = HeldIn(book, x, a)
  <2> SUFFICES ASSUME NEW x \in Site, NEW a \in Authority PROVE HeldIn(b, x, a) = HeldIn(book, x, a)
    OBVIOUS
  <2>1. HeldSet(b, x, DOMAIN b.entries[x], a) = HeldSet(book, x, DOMAIN book.entries[x], a)
    BY <1>10, <1>11 DEF HeldSet
  <2> QED
    BY <2>1 DEF HeldIn, HeldBy, HeldSet
<1>15. AuthoritiesFit'
  <2>1. PICK held : held = HeldTable
    OBVIOUS
  <2>2. HeldTable' = held
    BY <1>1, <1>2, <1>14, <2>1, TableStays
  <2>3. AuthoritiesTyped' /\ KnownFits' /\ InFlightFits(held)'
    BY <2>1, <1>1, QuietAuthorities DEF IInv, authorityVars
  <2> QED
    BY <2>2, <2>3 DEF AuthoritiesFit, InFlightFits, IsKnown
<1>16. CommittedFits'
  <2>1. CommitsStay
    BY <1>1 DEF CommitsStay, IsKnown
  <2>2. CommittedFits /\ BookTyped(b, n)
    BY <1>12 DEF IInv, BookFits
  <2>3. \A x \in Site : \A y \in DOMAIN b.entries[x] : Entry(b, x, y).published =>
           /\ y \in DOMAIN book.entries[x] /\ Entry(book, x, y).published
           /\ Entry(b, x, y).key = Entry(book, x, y).key
    BY <1>10, <1>11
  <2> QED
    BY <2>1, <2>2, <2>3, <1>2, CommittedStays
<1>17. ClosedFits'
  BY <1>1, <1>2, <1>10 DEF IInv, ClosedFits
<1>18. RequestsFit' /\ PoolsFit'
  BY <1>1, RequestsFitStill, PoolsStill DEF IInv, RequestsFit
<1>19. RoutesKept
  <2>1. open' \subseteq Site
    BY <1>1 DEF IInv
  <2>2. \A x \in Site : \A y \in DOMAIN book.entries[x] :
          Entry(book, x, y).published => y \in DOMAIN b.entries[x] /\ Entry(b, x, y).published
    BY <1>10, <1>11
  <2> QED
    BY <2>1, <2>2, <1>2 DEF RoutesKept, Usable, Registered
<1>20. open' \subseteq Site /\ issued' \in 0..MaxToken /\ events' \in Nat /\ DOMAIN occupied' = Pool
  BY <1>1 DEF IInv
<1> QED
  BY <1>13, <1>15, <1>16, <1>17, <1>18, <1>19, <1>20 DEF IInv

\* A minute passes for the windows of the limits.

\* Nothing but the windows of new authorities, and the count of events.
LEMMA OnlyWindowsMove ==
  ASSUME IInv, UNCHANGED <<request, open, authorities, known, book, issued, occupied>>,
         newOf' \in [Site -> Nat], newAll' \in Nat, events' \in Nat
  PROVE  IInv' /\ RoutesKept
<1>1. /\ UNCHANGED <<request, open, authorities, known, book, issued, occupied>>
      /\ newOf' \in [Site -> Nat] /\ newAll' \in Nat /\ events' \in Nat
  OBVIOUS
<1>2. AuthoritiesFit'
  <2>1. AuthoritiesTyped'
    BY <1>1 DEF IInv, AuthoritiesFit, AuthoritiesTyped
  <2>2. KnownFits'
    BY <1>1 DEF IInv, AuthoritiesFit, KnownFits, IsKnown
  <2>3. HeldTable' = HeldTable
    BY <1>1, RequestsStay DEF HeldTable, HeldBy, Entry
  <2>4. InFlightFits(HeldTable)'
    BY <2>3, <1>1 DEF IInv, AuthoritiesFit, InFlightFits, IsKnown
  <2> QED
    BY <2>1, <2>2, <2>4 DEF AuthoritiesFit
<1>3. BookFits(book, issued, UsesTable)'
  <2>1. BookFits(book, issued, UsesTable) /\ UsesTable' = UsesTable
    BY SMTT(30), <1>1, RequestsStay DEF IInv
  <2> QED
    BY <2>1, <1>1, TermsOfBook
<1>4. CommittedFits' /\ ClosedFits'
  BY Zenon, <1>1 DEF IInv, CommittedFits, ClosedFits, Entry, IsKnown
<1>5. RequestsFit' /\ PoolsFit'
  BY <1>1, RequestsFitStill, PoolsStill DEF IInv, RequestsFit
<1>6. RoutesKept
  BY <1>1 DEF RoutesKept, Usable
<1>7. open' \subseteq Site /\ issued' \in 0..MaxToken /\ events' \in Nat /\ DOMAIN occupied' = Pool
  BY <1>1 DEF IInv
<1> QED
  BY <1>2, <1>3, <1>4, <1>5, <1>6, <1>7 DEF IInv


LEMMA MinuteStep ==
  ASSUME IInv, Minute
  PROVE  IInv' /\ RoutesKept
<1>1. /\ UNCHANGED <<request, open, authorities, known, book, issued, occupied>>
      /\ events' = events + 1 /\ newAll' = 0 /\ newOf' = [s \in Site |-> 0]
  BY DEF Minute, Event, MinutePasses
<1>2. newOf' \in [Site -> Nat] /\ newAll' \in Nat /\ events' \in Nat
  BY <1>1 DEF IInv
<1> QED
  BY <1>1, <1>2, OnlyWindowsMove

\* A request that has not begun, or has ended, holds nothing.
LEMMA IdleHoldsNothing ==
  ASSUME NEW q \in RequestRecord, Fits(q), q.at \in Idling
  PROVE  /\ \A a \in Authority : HeldOf(q, a) = 0
         /\ \A t \in Token : UsedBy(q, t) = 0
         /\ \A l \in Pool : ~Holds(q, l)
<1>1. /\ q.own = Nothing /\ q.res = Nothing /\ q.lease = <<>> /\ q.stream = FALSE /\ q.doing = Nothing
  BY DEF Fits, ReservationFits, SlotsFit, RequestRecord
<1>2. q.token = NoToken /\ q.minted = <<>>
  BY DEF Fits, TokensFit, Rewriting, Minting, Idling
<1>3. q.parse = FALSE
  BY <1>1 DEF Fits, SlotsFit, RequestRecord, Nothing
<1>4. ASSUME NEW a \in Authority PROVE HeldOf(q, a) = 0
  <2>1. One(Nothing)[a] = 0
    BY RequestAssumption DEF One
  <2>2. Count(<<>>, a) = 0
    BY CountOfNone
  <2> QED
    BY <1>1, <2>1, <2>2 DEF HeldOf
<1>5. ASSUME NEW t \in Token PROVE UsedBy(q, t) = 0
  <2>1. OneUse(NoToken)[t] = 0
    BY LimitAssumption DEF OneUse, NoToken, Token
  <2>2. Count(<<>>, t) = 0
    BY CountOfNone
  <2> QED
    BY <1>2, <2>1, <2>2 DEF UsedBy
<1> QED
  BY <1>1, <1>3, <1>4, <1>5 DEF Holds

\* Nor do all those of a site that is drained.
LEMMA DrainedHoldsNothing ==
  ASSUME RequestsFit, NEW s, \A r \in Request : request[r].site = s => request[r].at \in Idling
  PROVE  /\ \A a \in Authority : LiveIn(s, a) = 0
         /\ \A t \in Token : UsesOf(s, t) = 0
         /\ \A l \in Pool : HoldersOf(l, s) = {}
<1>1. ASSUME NEW r \in Request, request[r].site = s
      PROVE  /\ \A a \in Authority : HeldOf(request[r], a) = 0
             /\ \A t \in Token : UsedBy(request[r], t) = 0
             /\ \A l \in Pool : ~Holds(request[r], l)
  <2>1. PICK q \in RequestRecord : q = request[r] /\ Fits(q) /\ q.at \in Idling
    BY <1>1 DEF RequestsFit
  <2> QED
    BY <2>1, IdleHoldsNothing
<1>2. IsFiniteSet({x \in Request : request[x].site = s})
  <2>1. {x \in Request : request[x].site = s} \subseteq Request
    OBVIOUS
  <2> QED
    BY ONLY <2>1, RequestAssumption, FS_Subset
<1>3. PICK S : S = {x \in Request : request[x].site = s}
  OBVIOUS
<1>4. ASSUME NEW a \in Authority PROVE LiveIn(s, a) = 0
  <2>1. \A r \in S : [x \in S |-> HeldOf(request[x], a)][r] = 0
    BY <1>1, <1>3
  <2>2. SumFunction([x \in S |-> HeldOf(request[x], a)]) = 0
    BY <2>1, <1>2, <1>3, TotalOfZeros
  <2> QED
    BY <2>2, <1>3 DEF LiveIn
<1>5. ASSUME NEW t \in Token PROVE UsesOf(s, t) = 0
  <2>1. \A r \in S : [x \in S |-> UsedBy(request[x], t)][r] = 0
    BY <1>1, <1>3
  <2>2. SumFunction([x \in S |-> UsedBy(request[x], t)]) = 0
    BY <2>1, <1>2, <1>3, TotalOfZeros
  <2> QED
    BY <2>2, <1>3 DEF UsesOf
<1>6. \A l \in Pool : HoldersOf(l, s) = {}
  BY <1>1 DEF HoldersOf
<1> QED
  BY <1>4, <1>5, <1>6

\* The tokens of one site, as pairs.
LEMMA OneSiteOfPairs ==
  ASSUME NEW b, NEW n \in 0..MaxToken, BookTyped(b, n), NEW s \in Site, NEW c,
         \A x \in Site : DOMAIN c.entries[x] = IF x = s THEN {} ELSE DOMAIN b.entries[x]
  PROVE  /\ Cardinality(DOMAIN b.entries[s]) \in Nat
         /\ Cardinality(PairsOf(c)) = Cardinality(PairsOf(b)) - Cardinality(DOMAIN b.entries[s])
<1> DEFINE D == DOMAIN b.entries[s]
<1>1. D \subseteq Token /\ IsFiniteSet(Token)
  <2>1. D \subseteq 1..n
    BY DEF BookTyped
  <2>2. 1..n \subseteq Token
    BY LimitAssumption DEF Token
  <2>3. IsFiniteSet(Token)
    BY FS_Interval, LimitAssumption DEF Token
  <2> QED
    BY <2>1, <2>2, <2>3
<1>2. IsFiniteSet(D)
  BY <1>1, FS_Subset
<1>3. PairsOf(c) = PairsOf(b) \ ({s} \X D) /\ PairsOf(b) \cap ({s} \X D) = {s} \X D
  BY <1>1 DEF PairsOf
<1> HIDE DEF D
<1>4. Cardinality({s} \X D) = Cardinality(D) /\ Cardinality(D) \in Nat
  <2>1. Cardinality({s} \X D) = Cardinality({s}) * Cardinality(D)
    BY <1>2, FS_Singleton, FS_Product
  <2>2. Cardinality({s}) = 1 /\ Cardinality(D) \in Nat
    BY <1>2, FS_Singleton, FS_CardinalityType
  <2>3. PICK d \in Nat : d = Cardinality(D)
    BY <2>2
  <2> QED
    BY <2>1, <2>2, <2>3
<1>5. Cardinality(PairsOf(b) \ ({s} \X D)) = Cardinality(PairsOf(b)) - Cardinality(PairsOf(b) \cap ({s} \X D))
  BY PairsAreFinite, FS_Difference
<1> QED
  BY <1>3, <1>4, <1>5 DEF D

\* The book of a site that closes is emptied (close).
Emptied(b, s) ==
  [entries |-> [b.entries EXCEPT ![s] = <<>>], index |-> [b.index EXCEPT ![s] = <<>>],
   active |-> b.active - Cardinality(DOMAIN b.entries[s])]
EmptiedAt(s, b, c) == DOMAIN c.entries[s] = {} /\ \A x \in Site \ {s} : c.entries[x] = b.entries[x]
UnusedAt(s, uses) == \A t \in Token : uses[s][t] = 0

LEMMA ClosedBook ==
  ASSUME NEW b, NEW n \in 0..MaxToken, NEW uses, BookFits(b, n, uses), NEW s \in Site,
         UnusedAt(s, uses), NEW c, c = Emptied(b, s)
  PROVE  BookFits(c, n, uses) /\ EmptiedAt(s, b, c)
<1>1. BookTyped(b, n)
  BY DEF BookFits
<1>2. /\ c.entries = [b.entries EXCEPT ![s] = <<>>] /\ c.index = [b.index EXCEPT ![s] = <<>>]
      /\ c.active = b.active - Cardinality(DOMAIN b.entries[s])
      /\ c = [entries |-> c.entries, index |-> c.index, active |-> c.active]
  BY DEF Emptied
<1>3. /\ DOMAIN c.entries = Site /\ DOMAIN c.index = Site
      /\ c.entries[s] = <<>> /\ c.index[s] = <<>>
      /\ \A x \in Site \ {s} : c.entries[x] = b.entries[x] /\ c.index[x] = b.index[x]
  BY <1>1, <1>2 DEF BookTyped
<1>4. DOMAIN c.entries[s] = {} /\ DOMAIN c.index[s] = {}
  BY <1>3
<1>5. ActiveFits(c) /\ c.active \in Nat
  <2>1. \A x \in Site : DOMAIN c.entries[x] = IF x = s THEN {} ELSE DOMAIN b.entries[x]
    BY <1>3, <1>4
  <2>2. Cardinality(PairsOf(c)) = Cardinality(PairsOf(b)) - Cardinality(DOMAIN b.entries[s])
    BY <2>1, <1>1, OneSiteOfPairs
  <2>3. Cardinality(PairsOf(c)) \in Nat
    BY PairsAreFinite
  <2> QED
    BY <2>2, <2>3, <1>2 DEF BookFits, ActiveFits
<1>6. BookTyped(c, n)
  <2>1. \A x \in Site : /\ DOMAIN c.entries[x] \subseteq 1..n
                        /\ \A t \in DOMAIN c.entries[x] : c.entries[x][t] \in EntryRecord
                        /\ DOMAIN c.index[x] \subseteq Key
    BY <1>1, <1>3, <1>4 DEF BookTyped
  <2> QED
    BY <2>1, <1>2, <1>3, <1>5 DEF BookTyped
<1>7. IndexFits(c)
  BY <1>3, <1>4 DEF BookFits, IndexFits, Registered, Entry
<1>8. PendingFits(c, uses)
  <2> SUFFICES ASSUME NEW x \in Site, NEW t \in Token
               PROVE  IF Registered(c, x, t) THEN Entry(c, x, t).pending = uses[x][t] ELSE uses[x][t] = 0
    BY DEF PendingFits
  <2>1. CASE x = s
    BY <2>1, <1>4 DEF Registered, UnusedAt
  <2>2. CASE x # s
    BY <2>2, <1>3 DEF BookFits, PendingFits, Registered, Entry
  <2> QED
    BY <2>1, <2>2
<1>9. HoldsFit(c)
  <2> SUFFICES ASSUME NEW x \in Site, NEW t \in DOMAIN c.entries[x]
               PROVE  IF Entry(c, x, t).published THEN ~Entry(c, x, t).holds
                      ELSE Entry(c, x, t).pending > 0
                           /\ (Entry(c, x, t).holds = ~Trusted(Entry(c, x, t).key.target))
    BY DEF HoldsFit
  <2>1. x # s /\ c.entries[x] = b.entries[x]
    BY <1>3, <1>4
  <2> QED
    BY <2>1 DEF BookFits, HoldsFit, Entry
<1> QED
  BY <1>3, <1>4, <1>5, <1>6, <1>7, <1>8, <1>9 DEF BookFits, EmptiedAt

\* A site closes its state once its requests are drained.
LEMMA CloseStep ==
  ASSUME IInv, NEW s \in Site, Drained(s), Event(CloseState(s))
  PROVE  IInv' /\ RoutesKept
<1>1. /\ UNCHANGED <<request, newOf, newAll, issued, occupied>> /\ events' = events + 1
      /\ open' = open \ {s}
      /\ known' = [a \in Authority |-> IF IsKnown(s, a) THEN known[a] - 1 ELSE known[a]]
      /\ authorities' = [authorities EXCEPT ![s] = <<>>]
      /\ book' = [entries |-> [book.entries EXCEPT ![s] = <<>>], index |-> [book.index EXCEPT ![s] = <<>>],
                  active |-> book.active - Cardinality(DOMAIN book.entries[s])]
  BY DEF Event, CloseState
<1>2. PICK b, n, uses : b = book' /\ n = issued /\ n = issued' /\ n \in 0..MaxToken /\ uses = UsesTable
  BY <1>1 DEF IInv
<1>3. /\ \A a \in Authority : LiveIn(s, a) = 0
      /\ \A t \in Token : UsesOf(s, t) = 0
  <2>1. \A r \in Request : request[r].site = s => request[r].at \in Idling
    BY DEF Drained, Where, Idling
  <2> QED
    BY <2>1, DrainedHoldsNothing DEF IInv
<1>4. BookFits(book, n, uses) /\ \A t \in Token : uses[s][t] = 0
  BY <1>2, <1>3 DEF IInv, UsesTable
<1>5. BookFits(b, n, uses) /\ DOMAIN b.entries[s] = {} /\ \A x \in Site \ {s} : b.entries[x] = book.entries[x]
  <2>1. b = Emptied(book, s)
    BY <1>1, <1>2 DEF Emptied
  <2>2. UnusedAt(s, uses)
    BY <1>4 DEF UnusedAt
  <2>3. n \in 0..MaxToken /\ s \in Site
    BY <1>2
  <2>4. BookFits(b, n, uses) /\ EmptiedAt(s, book, b)
    BY ONLY <2>1, <2>2, <2>3, <1>4, ClosedBook
  <2> QED
    BY <2>4 DEF EmptiedAt
<1>6. BookFits(book, issued, UsesTable)'
  <2>1. uses = UsesTable'
    BY <1>1, <1>2, RequestsStay
  <2> QED
    BY <2>1, <1>2, <1>5, TermsOfBook
<1>7. /\ DOMAIN authorities' = Site /\ DOMAIN authorities'[s] = {}
      /\ \A x \in Site \ {s} : authorities'[x] = authorities[x]
  BY <1>1 DEF IInv, AuthoritiesFit, AuthoritiesTyped
<1>8. KnownFits' /\ known' \in [Authority -> Nat]
  <2>1. ASSUME NEW a \in Authority
        PROVE  known'[a] = Cardinality(KnowersOf(a)') /\ known'[a] \in Nat
    <3>1. KnowersOf(a)' = KnowersOf(a) \ {s} /\ (s \in KnowersOf(a) <=> IsKnown(s, a))
      BY <1>7 DEF KnowersOf, IsKnown
    <3>2. known[a] = Cardinality(KnowersOf(a)) /\ known[a] \in Nat
      BY DEF IInv, AuthoritiesFit, AuthoritiesTyped, KnownFits, KnowersOf
    <3>3. PICK A, k : A = KnowersOf(a) /\ k = known[a] /\ k \in Nat /\ k = Cardinality(A) /\ IsFiniteSet(A)
      BY <3>2, KnowersAreFinite
    <3>4. CASE IsKnown(s, a)
      <4>1. known'[a] = k - 1
        BY <3>4, <3>3, <1>1
      <4>2. Cardinality(A \ {s}) = Cardinality(A) - 1 /\ Cardinality(A) >= 1
        BY <3>1, <3>3, <3>4, SetMoves
      <4> QED
        BY <4>1, <4>2, <3>1, <3>3
    <3>5. CASE ~IsKnown(s, a)
      <4>1. known'[a] = k
        BY <3>5, <3>3, <1>1
      <4>2. A \ {s} = A
        BY <3>1, <3>3, <3>5
      <4> QED
        BY <4>1, <4>2, <3>1, <3>3
    <3> QED
      BY <3>4, <3>5
  <2>2. known' = [a \in Authority |-> known'[a]]
    BY <1>1
  <2> QED
    BY <2>1, <2>2 DEF KnownFits, KnowersOf, IsKnown
<1>9. AuthoritiesTyped'
  BY <1>1, <1>7, <1>8 DEF IInv, AuthoritiesFit, AuthoritiesTyped
<1>10. PICK held : held = HeldTable'
  OBVIOUS
<1>11. \A x \in Site, a \in Authority : /\ x # s => held[x][a] = HeldTable[x][a]
                                        /\ x = s => held[x][a] = 0
  <2> SUFFICES ASSUME NEW x \in Site, NEW a \in Authority
               PROVE  /\ x # s => held[x][a] = HeldTable[x][a]
                      /\ x = s => held[x][a] = 0
    OBVIOUS
  <2>1. LiveIn(x, a)' = LiveIn(x, a)
    BY <1>1, RequestsStay
  <2>2. held[x][a] = LiveIn(x, a) + HeldIn(b, x, a) /\ HeldTable[x][a] = LiveIn(x, a) + HeldIn(book, x, a)
    BY <2>1, <1>2, <1>10 DEF HeldTable, HeldIn
  <2>3. CASE x # s
    <3>1. HeldIn(b, x, a) = HeldIn(book, x, a)
      <4>1. b.entries[x] = book.entries[x]
        BY <2>3, <1>5
      <4> QED
        BY <4>1 DEF HeldIn, HeldBy, Entry
    <3> QED
      BY <3>1, <2>2, <2>3
  <2>4. CASE x = s
    <3>1. HeldIn(b, s, a) = 0
      <4>1. {t \in {} : Entry(b, s, t).holds /\ AuthorityOf[Entry(b, s, t).key.target] = a} = {}
        OBVIOUS
      <4> QED
        BY <4>1, <1>5, FS_EmptySet DEF HeldIn, HeldBy
    <3> QED
      BY <3>1, <2>2, <2>4, <1>3
  <2> QED
    BY <2>3, <2>4
<1>12. InFlightFits(held)'
  <2> SUFFICES ASSUME NEW x \in Site, NEW a \in Authority
               PROVE  IF IsKnown(x, a)'
                        THEN /\ Covers(authorities'[x][a].inFlight, held[x][a])
                             /\ authorities'[x][a].inFlight > 0 \/ authorities'[x][a].committed
                             /\ authorities'[x][a].inFlight = 0 <=> authorities'[x][a].resolution = "none"
                        ELSE held[x][a] = 0
    BY DEF InFlightFits, Covers
  <2>1. CASE x = s
    BY <2>1, <1>7, <1>11 DEF IsKnown
  <2>2. CASE x # s
    BY <2>2, <1>7, <1>11 DEF IsKnown, IInv, AuthoritiesFit, InFlightFits
  <2> QED
    BY <2>1, <2>2
<1>13. AuthoritiesFit'
  BY SMTT(30), <1>8, <1>9, <1>10, <1>12 DEF AuthoritiesFit, InFlightFits, IsKnown
<1>14. CommittedFits'
  <2> SUFFICES ASSUME NEW x \in Site, NEW t \in DOMAIN b.entries[x],
                      Entry(b, x, t).published, ~Trusted(Entry(b, x, t).key.target)
               PROVE  /\ IsKnown(x, AuthorityOf[Entry(b, x, t).key.target])'
                      /\ authorities'[x][AuthorityOf[Entry(b, x, t).key.target]].committed
    BY Zenon, <1>2 DEF CommittedFits, Entry
  <2>1. x # s /\ b.entries[x] = book.entries[x] /\ authorities'[x] = authorities[x]
    BY <1>5, <1>7
  <2> QED
    BY ZenonT(60), <2>1 DEF IInv, CommittedFits, Entry, IsKnown
<1>15. ClosedFits'
  BY <1>1, <1>2, <1>5, <1>7 DEF IInv, ClosedFits
<1>16. RequestsFit'
  <2>1. \A r \in Request : request[r].at \notin Idling => request[r].site \in open'
    BY <1>1 DEF Drained, Where, Idling, IInv, RequestsFit
  <2> QED
    BY <2>1, <1>1, RequestsFitStill DEF IInv
<1>17. PoolsFit'
  BY <1>1, PoolsStill DEF IInv
<1>18. RoutesKept
  <2>1. \A x \in open' : x \in Site \ {s}
    BY <1>1 DEF IInv
  <2> QED
    BY <2>1, <1>2, <1>5 DEF RoutesKept, Usable, Registered, Entry
<1>19. open' \subseteq Site /\ issued' \in 0..MaxToken /\ events' \in Nat /\ DOMAIN occupied' = Pool
  BY <1>1 DEF IInv
<1> QED
  BY <1>6, <1>13, <1>14, <1>15, <1>16, <1>17, <1>18, <1>19 DEF IInv

\* A site starts again, with pools of its own.
LEMMA OpenStep ==
  ASSUME IInv, NEW s \in Site, Event(OpenState(s))
  PROVE  IInv' /\ RoutesKept
<1>1. /\ UNCHANGED <<request, authorities, known, newAll, book, issued>> /\ events' = events + 1
      /\ s \notin open /\ open' = open \union {s} /\ newOf' = [newOf EXCEPT ![s] = 0]
      /\ occupied' = [l \in Pool |-> [occupied[l] EXCEPT !.of[s] = 0]]
  BY DEF Event, OpenState
<1>2. AuthoritiesFit'
  <2>1. AuthoritiesTyped'
    BY <1>1 DEF IInv, AuthoritiesFit, AuthoritiesTyped
  <2>2. KnownFits'
    BY <1>1 DEF IInv, AuthoritiesFit, KnownFits, IsKnown
  <2>3. HeldTable' = HeldTable
    BY <1>1, RequestsStay DEF HeldTable, HeldBy, Entry
  <2>4. InFlightFits(HeldTable)'
    BY <2>3, <1>1 DEF IInv, AuthoritiesFit, InFlightFits, IsKnown
  <2> QED
    BY <2>1, <2>2, <2>4 DEF AuthoritiesFit
<1>3. BookFits(book, issued, UsesTable)'
  <2>1. BookFits(book, issued, UsesTable) /\ UsesTable' = UsesTable
    BY SMTT(30), <1>1, RequestsStay DEF IInv
  <2> QED
    BY <2>1, <1>1, TermsOfBook
<1>4. CommittedFits' /\ ClosedFits'
  BY Zenon, <1>1 DEF IInv, CommittedFits, ClosedFits, Entry, IsKnown
<1>5. RequestsFit'
  BY <1>1, RequestsFitStill DEF IInv, RequestsFit
<1>6. PoolsFit'
  <2>1. \A l \in Pool : HoldersOf(l, s) = {}
    <3>1. \A r \in Request : request[r].site = s => request[r].at \in Idling
      BY <1>1 DEF IInv, RequestsFit
    <3> QED
      BY <3>1, DrainedHoldsNothing DEF IInv
  <2>2. ASSUME NEW l \in Pool
        PROVE  /\ occupied'[l] \in [all : Nat, of : [Site -> Nat]]
               /\ Covers(occupied'[l].all, Cardinality(HoldersIn(l)'))
               /\ \A x \in Site : Covers(occupied'[l].of[x], Cardinality(HoldersOf(l, x)'))
    <3>1. PICK o \in [all : Nat, of : [Site -> Nat]] : o = occupied[l]
      BY DEF IInv, PoolsFit
    <3>2. PICK p : p = [o EXCEPT !.of[s] = 0] /\ p = occupied'[l]
      BY <3>1, <1>1
    <3>3. p \in [all : Nat, of : [Site -> Nat]] /\ p.all = o.all /\ p.of[s] = 0 /\ \A x \in Site \ {s} : p.of[x] = o.of[x]
      BY ONLY <3>1, <3>2
    <3>4. Covers(p.all, Cardinality(HoldersIn(l)'))
      BY <3>1, <3>3, <1>1, RequestsStay DEF IInv, PoolsFit
    <3>5. ASSUME NEW x \in Site PROVE Covers(p.of[x], Cardinality(HoldersOf(l, x)'))
      <4>1. HoldersOf(l, x)' = HoldersOf(l, x)
        BY <1>1, RequestsStay
      <4>2. CASE x = s
        <5>1. Cardinality(HoldersOf(l, x)') = 0 /\ p.of[x] = 0
          BY <4>1, <4>2, <2>1, <3>3, FS_EmptySet
        <5> QED
          BY <5>1 DEF Covers
      <4>3. CASE x # s
        BY <4>1, <4>3, <3>1, <3>3 DEF IInv, PoolsFit
      <4> QED
        BY <4>2, <4>3
    <3> QED
      BY <3>2, <3>3, <3>4, <3>5
  <2> QED
    BY <2>2 DEF PoolsFit, Covers, HoldersIn, HoldersOf, Holds
<1>7. RoutesKept
  <2>1. open' \subseteq Site /\ book' = book
    BY <1>1 DEF IInv
  <2> QED
    BY <2>1 DEF RoutesKept, Usable
<1>8. open' \subseteq Site /\ issued' \in 0..MaxToken /\ events' \in Nat /\ DOMAIN occupied' = Pool
  BY <1>1 DEF IInv
<1> QED
  BY <1>2, <1>3, <1>4, <1>5, <1>6, <1>7, <1>8 DEF IInv

-----------------------------------------------------------------------------
(* What a request becomes, whatever the others do.                           *)

\* It has no token to give back and waits for no slot; what it has of a rewrite
\* it has for a rewrite.
Bare(q) ==
  /\ q \in RequestRecord
  /\ q.token = NoToken /\ q.half = Nothing
  /\ q.parse \/ q.minted # <<>> => q.doing \in {"rewrite", "borrow"}
  /\ q.doing = "serve" => q.served # NoToken
  /\ OneWay => q.lost = NothingLost

\* It may ask for a reservation of its target.
Asks(q) ==
  /\ q \in RequestRecord
  /\ q.half = Nothing /\ q.res = Nothing
  /\ q.key \in Key /\ ~Trusted(q.key.target)
  /\ q.doing # Nothing
  /\ q.token # NoToken <=> q.doing = "borrow"
  /\ q.parse \/ q.minted # <<>> => q.doing \in {"rewrite", "borrow"}
  /\ q.doing = "serve" => q.served # NoToken /\ q.own = Nothing /\ ~q.stream
  /\ OneWay => q.lost = NothingLost
  /\ OneWay /\ q.doing \in {"direct", "mint"} => q.lease = <<>> /\ (q.served = NoToken => ~q.stream)

\* p is q but for its reservation.
ButReservation(q, p) ==
  /\ p.site = q.site /\ p.own = q.own /\ p.lease = q.lease
  /\ p.stream = q.stream /\ p.parse = q.parse /\ p.half = q.half
  /\ p.token = q.token /\ p.minted = q.minted

LEMMA EndingFits ==
  ASSUME NEW q, Bare(q), q.minted = <<>>, NEW c \in BOOLEAN, NEW m, m = Ending(q, c)
  PROVE  m \in RequestRecord /\ Fits(m) /\ SameHoldings(q, m)
<1>1. q \in RequestRecord /\ "ending" \in Places
  BY DEF Bare, Places
<1>2. m = [q EXCEPT !.at = "ending", !.commit = c]
  BY DEF Ending
<1>3. /\ m \in RequestRecord /\ m.at = "ending" /\ SameHoldings(q, m)
      /\ m.doing = q.doing /\ m.served = q.served /\ m.lost = q.lost /\ m.key = q.key /\ m.depth = q.depth
  BY ZenonT(60), <1>1, <1>2 DEF RequestRecord, SameHoldings
<1>4. Fits(m)
  BY <1>3 DEF Bare, SameHoldings, Fits, ReservationFits, DoingFits, TokensFit, SlotsFit, ForgetsNothing,
              Idling, Rewriting, Minting, Nothing
<1> QED
  BY <1>3, <1>4

LEMMA FailingFits ==
  ASSUME NEW q, Bare(q), NEW m, m = Failing(q)
  PROVE  m \in RequestRecord /\ Fits(m) /\ ButReservation(q, m) /\ m.res = Nothing
<1>1. q \in RequestRecord /\ {"ending", "rewriting", "aborting"} \subseteq Places /\ Nothing \in SomeAuthority
  BY DEF Bare, Places, SomeAuthority
<1>2. CASE q.doing \notin {"rewrite", "borrow"}
  <2>1. PICK p : p = [q EXCEPT !.res = Nothing]
    OBVIOUS
  <2>2. /\ p \in RequestRecord /\ p.res = Nothing /\ ButReservation(q, p)
        /\ p.doing = q.doing /\ p.served = q.served /\ p.lost = q.lost
    BY <1>1, <2>1 DEF RequestRecord, ButReservation
  <2>3. Bare(p) /\ p.minted = <<>>
    BY <2>2, <1>2 DEF Bare, ButReservation
  <2>4. m = Ending(p, FALSE)
    <3>1. Failing(q) = Ending([q EXCEPT !.res = Nothing], FALSE)
      BY <1>2 DEF Failing
    <3> QED
      BY ONLY <3>1, <2>1, m = Failing(q)
  <2>5. m \in RequestRecord /\ Fits(m) /\ SameHoldings(p, m)
    BY <2>3, <2>4, EndingFits
  <2> QED
    BY <2>2, <2>5 DEF SameHoldings, ButReservation
<1>3. CASE q.doing \in {"rewrite", "borrow"}
  <2>1. PICK at, z : /\ at \in {"rewriting", "aborting"} /\ z = Nothing
                      /\ m = [q EXCEPT !.at = at, !.res = z]
    BY <1>3 DEF Failing
  <2>a. at \in Places /\ z \in SomeAuthority
    BY <1>1, <2>1
  <2>2. /\ m \in RequestRecord /\ m.at = at /\ m.res = Nothing /\ ButReservation(q, m)
        /\ m.doing = q.doing /\ m.served = q.served /\ m.lost = q.lost /\ m.key = q.key /\ m.depth = q.depth
    BY <1>1, <2>1, <2>a DEF RequestRecord, ButReservation
  <2>3. Fits(m)
    BY <2>1, <2>2, <1>3 DEF Bare, ButReservation, Fits, ReservationFits, DoingFits, TokensFit, SlotsFit, ForgetsNothing,
              Idling, Rewriting, Minting, Nothing
  <2> QED
    BY <2>2, <2>3
<1> QED
  BY <1>2, <1>3

\* The refusal, and the failure of a resolution.
LEMMA DeniedFits ==
  ASSUME NEW q \in RequestRecord, q.token = NoToken => Bare(q),
         q.token # NoToken => /\ q.doing = "borrow" /\ q.half = Nothing
                              /\ OneWay => q.lost = NothingLost,
         NEW m, m = Denied(q)
  PROVE  m \in RequestRecord /\ Fits(m) /\ ButReservation(q, m) /\ m.res = Nothing
<1>1. CASE q.token = NoToken
  BY <1>1, FailingFits DEF Denied
<1>2. CASE q.token # NoToken
  <2>1. PICK at \in Places, z \in SomeAuthority :
           at = "returning" /\ z = Nothing /\ m = [q EXCEPT !.at = at, !.res = z]
    BY <1>2 DEF Denied, Places, SomeAuthority
  <2>2. /\ m \in RequestRecord /\ m.at = "returning" /\ m.res = Nothing /\ ButReservation(q, m)
        /\ m.doing = q.doing /\ m.served = q.served /\ m.lost = q.lost /\ m.key = q.key /\ m.depth = q.depth
    BY ONLY q \in RequestRecord, <2>1 DEF RequestRecord, ButReservation
  <2>3. Fits(m)
    BY <2>2, <1>2 DEF ButReservation, Fits, ReservationFits, DoingFits, TokensFit, SlotsFit, ForgetsNothing,
              Idling, Rewriting, Minting, Nothing
  <2> QED
    BY <2>2, <2>3
<1> QED
  BY <1>1, <1>2

\* m waits for authority a, for the target that q is about.
Waits(q, a, m) == a = AuthorityOf[q.key.target] /\ m = [q EXCEPT !.at = "resolving", !.res = a]

LEMMA ResolvingFits ==
  ASSUME NEW q, Asks(q), NEW a, NEW m, Waits(q, a, m)
  PROVE  m \in RequestRecord /\ Fits(m) /\ ButReservation(q, m) /\ m.res = a /\ a \in Authority /\ a # Nothing
<1>1. a \in Authority /\ a # Nothing
  <2>1. q.key.target \in Target /\ AuthorityOf[q.key.target] # Configured
    BY DEF Asks, Key, Trusted
  <2> QED
    BY <2>1, TargetAssumption, RequestAssumption DEF Waits
<1>2. q \in RequestRecord /\ "resolving" \in Places /\ a \in SomeAuthority
  BY <1>1 DEF Asks, Places, SomeAuthority
<1>3. /\ m \in RequestRecord /\ m.at = "resolving" /\ m.res = a /\ ButReservation(q, m)
      /\ m.doing = q.doing /\ m.served = q.served /\ m.lost = q.lost /\ m.key = q.key /\ m.depth = q.depth
  BY <1>2 DEF Waits, RequestRecord, ButReservation
<1>4. Fits(m)
  BY <1>1, <1>3 DEF Waits, Asks, ButReservation, Fits, ReservationFits, DoingFits, TokensFit, SlotsFit, ForgetsNothing,
              Idling, Rewriting, Minting, Nothing
<1> QED
  BY <1>1, <1>3, <1>4

\* What the reservation that a request is about adds to what it holds.
LEMMA ReservationCounts ==
  ASSUME NEW q \in RequestRecord, NEW m \in RequestRecord, ButReservation(q, m)
  PROVE  /\ \A a \in Authority : HeldOf(m, a) + One(q.res)[a] = HeldOf(q, a) + One(m.res)[a]
         /\ \A t \in Token : UsedBy(m, t) = UsedBy(q, t)
         /\ \A l \in Pool : Holds(m, l) = Holds(q, l)
         /\ m.half = q.half /\ m.site = q.site
<1>1. ASSUME NEW a \in Authority PROVE HeldOf(m, a) + One(q.res)[a] = HeldOf(q, a) + One(m.res)[a]
  <2>1. One(q.res)[a] \in Nat /\ One(m.res)[a] \in Nat /\ One(q.own)[a] \in Nat
    BY OneIs
  <2>2. Count(q.lease, a) \in Nat
    BY RecordFacts, CountIsFinite
  <2>3. m.own = q.own /\ m.lease = q.lease
    BY DEF ButReservation
  <2>4. PICK u, v, w, x : u = One(q.res)[a] /\ v = One(m.res)[a] /\ w = One(q.own)[a] /\ x = Count(q.lease, a)
    OBVIOUS
  <2>5. HeldOf(q, a) = w + u + x /\ HeldOf(m, a) = w + v + x
    BY <2>3, <2>4 DEF HeldOf
  <2>6. u \in Nat /\ v \in Nat /\ w \in Nat /\ x \in Nat
    BY <2>1, <2>2, <2>4
  <2> QED
    BY ONLY <2>4, <2>5, <2>6
<1> QED
  BY <1>1 DEF ButReservation, UsedBy, Holds

LEMMA NothingIsNone == \A a \in Authority : One(Nothing)[a] = 0
BY RequestAssumption, OneIs

\* What stays in all that is counted.
Equal(q, m) ==
  /\ m.site = q.site /\ m.half = q.half
  /\ \A a \in Authority : HeldOf(m, a) = HeldOf(q, a)
  /\ \A t \in Token : UsedBy(m, t) = UsedBy(q, t)
  /\ \A l \in Pool : Holds(m, l) = Holds(q, l)

LEMMA EqualHoldings == ASSUME NEW q, NEW m, SameHoldings(q, m) PROVE Equal(q, m)
BY HoldingsCount DEF Equal

LEMMA EqualBut ==
  ASSUME NEW q \in RequestRecord, NEW m \in RequestRecord, ButReservation(q, m), m.res = q.res
  PROVE  Equal(q, m)
<1>1. SameHoldings(q, m)
  BY DEF ButReservation, SameHoldings
<1> QED
  BY <1>1, EqualHoldings

LEMMA EqualIsSame ==
  ASSUME NEW r \in Request, NEW q \in RequestRecord, q = request[r], NEW m, Equal(q, m)
  PROVE  SameHeld(r, m) /\ SameSlots(r, m) /\ SameUses(r, m) /\ m.site = request[r].site
<1>1. \A a \in Authority : HeldOf(q, a) \in Nat
  BY TermsTyped
<1>2. SameHeld(r, m)
  BY <1>1 DEF Equal, SameHeld
<1>3. SameSlots(r, m)
  BY DEF Equal, SameSlots
<1> QED
  BY <1>2, <1>3 DEF Equal, SameUses

\* Where a request goes on with its authority resolved.
LEMMA ResolvedFits ==
  ASSUME NEW q \in RequestRecord, Fits(q), q.at = "resolving", NEW m, m = Resolved(q)
  PROVE  m \in RequestRecord /\ Fits(m) /\ Equal(q, m)
<1>1. {"minting", "borrowed", "admitted", "follow", "direct"} \subseteq Places /\ Nothing \in SomeAuthority
  BY DEF Places, SomeAuthority
<1>2. q.doing \in Doings /\ q.doing # Nothing
  BY DEF RequestRecord, Fits, DoingFits
<1>3. CASE q.doing = "serve"
  <2>1. PICK at, z, a : /\ at = "admitted" /\ z = Nothing /\ a = q.res
                        /\ m = [q EXCEPT !.at = at, !.own = a, !.res = z]
    BY <1>3 DEF Resolved
  <2>2. at \in Places /\ z \in SomeAuthority /\ a \in SomeAuthority
    BY <1>1, <2>1, RecordFacts
  <2>3. /\ m \in RequestRecord /\ m.at = at /\ m.own = a /\ m.res = z
        /\ m.site = q.site /\ m.lease = q.lease /\ m.stream = q.stream /\ m.parse = q.parse /\ m.half = q.half
        /\ m.token = q.token /\ m.minted = q.minted
        /\ m.doing = q.doing /\ m.served = q.served /\ m.lost = q.lost /\ m.key = q.key /\ m.depth = q.depth
    BY ONLY q \in RequestRecord, <2>1, <2>2 DEF RequestRecord
  <2>4. Fits(m)
    BY <2>1, <2>3, <1>3 DEF Fits, ReservationFits, DoingFits, TokensFit, SlotsFit, ForgetsNothing,
              Idling, Rewriting, Minting, Nothing
  <2>5. q.own = Nothing
    BY <1>3 DEF Fits, SlotsFit
  <2>6. ASSUME NEW x \in Authority PROVE HeldOf(m, x) = HeldOf(q, x)
    <3>1. PICK u, v, w : u = One(a)[x] /\ v = Count(q.lease, x) /\ w = One(Nothing)[x]
      OBVIOUS
    <3>2. HeldOf(q, x) = w + u + v /\ HeldOf(m, x) = u + w + v
      BY <2>1, <2>3, <2>5, <3>1 DEF HeldOf
    <3>3. u \in Nat /\ w \in Nat
      BY <3>1, OneIs
    <3>4. v \in Nat
      BY <3>1, RecordFacts, CountIsFinite
    <3> QED
      BY ONLY <3>2, <3>3, <3>4
  <2>7. Equal(q, m)
    BY <2>3, <2>6 DEF Equal, UsedBy, Holds
  <2> QED
    BY <2>3, <2>4, <2>7
<1>4. CASE q.doing # "serve"
  <2>1. PICK at : /\ at = IF q.doing \in {"rewrite", "mint"} THEN "minting"
                          ELSE IF q.doing = "borrow" THEN "borrowed" ELSE q.doing
                  /\ m = [q EXCEPT !.at = at]
    BY <1>2, <1>4 DEF Resolved
  <2>2. at \in Places
    BY <1>1, <1>2, <1>4, <2>1 DEF Doings
  <2>3. /\ m \in RequestRecord /\ m.at = at /\ SameHoldings(q, m)
        /\ m.doing = q.doing /\ m.served = q.served /\ m.lost = q.lost /\ m.key = q.key /\ m.depth = q.depth
    BY ZenonT(60), <2>1, <2>2 DEF RequestRecord, SameHoldings
  <2>4. Fits(m)
    <3>1. ReservationFits(m) /\ DoingFits(m)
      BY <1>2, <1>4, <2>1, <2>3 DEF Fits, SameHoldings, ReservationFits, DoingFits, Idling, Rewriting, Minting, Nothing, Doings
    <3>2. TokensFit(m) /\ SlotsFit(m) /\ ForgetsNothing(m)
      BY <1>2, <1>4, <2>1, <2>3 DEF Fits, SameHoldings, DoingFits, TokensFit, SlotsFit, ForgetsNothing, Idling,
                                    Rewriting, Minting, Nothing, Doings
    <3> QED
      BY <3>1, <3>2 DEF Fits
  <2> QED
    BY <2>3, <2>4, EqualHoldings
<1> QED
  BY <1>3, <1>4

\* It may be given a token.
MayMint(q) ==
  /\ q \in RequestRecord /\ q.half = Nothing
  /\ q.doing \in {"mint", "rewrite", "borrow"}
  /\ q.doing = "mint" => q.minted = <<>>
  /\ q.parse => q.doing \in {"rewrite", "borrow"}
  /\ OneWay => q.lost = NothingLost
  /\ OneWay /\ q.doing = "mint" => q.lease = <<>> /\ (q.served = NoToken => ~q.stream)

\* p is q but for its reservation and its tokens.
ButTokens(q, p) ==
  /\ p.site = q.site /\ p.own = q.own /\ p.lease = q.lease
  /\ p.stream = q.stream /\ p.parse = q.parse /\ p.half = q.half

\* Token t is used once more.
OneUseMore(q, m, t) ==
  \A y \in Token : /\ y = t => UsedBy(m, y) = UsedBy(q, y) + 1
                   /\ y # t => UsedBy(m, y) = UsedBy(q, y)

LEMMA OneUseIs ==
  ASSUME NEW x
  PROVE  \A t \in Token : /\ OneUse(x)[t] \in Nat
                          /\ t = x => OneUse(x)[t] = 1
                          /\ t # x => OneUse(x)[t] = 0
BY DEF OneUse

LEMMA NoUse == \A t \in Token : OneUse(NoToken)[t] = 0
BY OneUseIs, LimitAssumption DEF NoToken, Token

\* It is given token t, and has no reservation any more.
IsGiven(q, t, m) ==
  \/ m = Given(q, t) /\ q.res = Nothing
  \/ m = [Given(q, t) EXCEPT !.res = Nothing]

LEMMA GivenFits ==
  ASSUME NEW q, MayMint(q), NEW t \in Token, NEW m, IsGiven(q, t, m)
  PROVE  /\ m \in RequestRecord /\ Fits(m) /\ ButTokens(q, m) /\ m.res = Nothing
         /\ m.token = NoToken /\ m.minted = Append(q.minted, t)
         /\ m.at \in {"publishing", "rewriting"} /\ m.doing = q.doing
<1>1. q \in RequestRecord /\ q.minted \in Seq(Token)
  BY RecordFacts DEF MayMint
<1>2. PICK at, z, n, w : /\ at = (IF q.doing = "mint" THEN "publishing" ELSE "rewriting")
                         /\ z = Nothing /\ n = NoToken /\ w = Append(q.minted, t)
  OBVIOUS
<1>3. at \in Places /\ z \in SomeAuthority /\ n \in SomeToken
  BY <1>2 DEF Places, SomeAuthority, SomeToken
<1>4. w \in Seq(Token)
  BY ONLY <1>1, <1>2, t \in Token
<1>5. q.doing = "mint" => w = <<t>>
  <2>1. q.doing = "mint" => q.minted = <<>>
    BY DEF MayMint
  <2>2. Append(<<>>, t) = <<t>>
    OBVIOUS
  <2> QED
    BY ONLY <2>1, <2>2, <1>2
<1>6. Given(q, t) = [q EXCEPT !.at = at, !.minted = w, !.token = n]
  BY <1>2, <1>5 DEF Given
<1>7. PICK p : p = Given(q, t)
  OBVIOUS
<1>8. /\ p \in RequestRecord /\ p.at = at /\ p.minted = w /\ p.token = n /\ p.res = q.res
      /\ p.site = q.site /\ p.own = q.own /\ p.lease = q.lease
      /\ p.stream = q.stream /\ p.parse = q.parse /\ p.half = q.half
      /\ p.doing = q.doing /\ p.served = q.served /\ p.lost = q.lost /\ p.key = q.key /\ p.depth = q.depth
  BY ONLY ZenonT(60), <1>1, <1>3, <1>4, <1>6, <1>7 DEF RequestRecord
<1>9. /\ m \in RequestRecord /\ m.at = at /\ m.minted = w /\ m.token = n /\ m.res = z
      /\ m.site = q.site /\ m.own = q.own /\ m.lease = q.lease
      /\ m.stream = q.stream /\ m.parse = q.parse /\ m.half = q.half
      /\ m.doing = q.doing /\ m.served = q.served /\ m.lost = q.lost /\ m.key = q.key /\ m.depth = q.depth
  <2>1. CASE m = Given(q, t) /\ q.res = Nothing
    BY <2>1, <1>2, <1>7, <1>8
  <2>2. CASE m = [Given(q, t) EXCEPT !.res = Nothing]
    <3>1. m = [p EXCEPT !.res = z]
      BY <2>2, <1>2, <1>7
    <3> QED
      BY ONLY <3>1, <1>3, <1>8 DEF RequestRecord
  <2> QED
    BY <2>1, <2>2 DEF IsGiven
<1>10. Fits(m)
  BY <1>2, <1>9 DEF MayMint, Fits, ReservationFits, DoingFits, TokensFit, SlotsFit, ForgetsNothing,
                    Idling, Rewriting, Minting, Nothing
<1> QED
  BY <1>2, <1>9, <1>10 DEF ButTokens

LEMMA GivenCounts ==
  ASSUME NEW q \in RequestRecord, NEW t \in Token, NEW m \in RequestRecord,
         m.token = NoToken, m.minted = Append(q.minted, t)
  PROVE  /\ q.token = NoToken => OneUseMore(q, m, t)
         /\ q.token = t => \A y \in Token : UsedBy(m, y) = UsedBy(q, y)
<1>1. ASSUME NEW y \in Token
      PROVE  /\ UsedBy(q, y) = Count(q.minted, y) + OneUse(q.token)[y]
             /\ UsedBy(m, y) = Count(Append(q.minted, t), y)
             /\ Count(q.minted, y) \in Nat
             /\ y = t => Count(Append(q.minted, t), y) = Count(q.minted, y) + 1
             /\ y # t => Count(Append(q.minted, t), y) = Count(q.minted, y)
  <2>1. q.minted \in Seq(Token)
    BY RecordFacts
  <2>2. Count(Append(q.minted, t), y) = Count(q.minted, y) + 1 \/ Count(Append(q.minted, t), y) = Count(q.minted, y)
    BY <2>1, CountOfMore
  <2>3. Count(q.minted, y) \in Nat
    BY <2>1, CountIsFinite
  <2>4. UsedBy(m, y) = Count(Append(q.minted, t), y) + 0
    BY NoUse DEF UsedBy
  <2> QED
    BY <2>1, <2>2, <2>3, <2>4, CountOfMore DEF UsedBy
<1>2. ASSUME q.token = NoToken PROVE OneUseMore(q, m, t)
  <2> SUFFICES ASSUME NEW y \in Token
               PROVE  /\ y = t => UsedBy(m, y) = UsedBy(q, y) + 1
                      /\ y # t => UsedBy(m, y) = UsedBy(q, y)
    BY DEF OneUseMore
  <2>1. OneUse(q.token)[y] = 0
    BY <1>2, NoUse
  <2>2. PICK u, v : u = Count(q.minted, y) /\ v = Count(Append(q.minted, t), y)
    OBVIOUS
  <2> QED
    BY <1>1, <2>1, <2>2
<1>3. ASSUME q.token = t, NEW y \in Token PROVE UsedBy(m, y) = UsedBy(q, y)
  <2>1. (y = t => OneUse(q.token)[y] = 1) /\ (y # t => OneUse(q.token)[y] = 0)
    BY <1>3, OneUseIs
  <2>2. PICK u, v, w : u = Count(q.minted, y) /\ v = Count(Append(q.minted, t), y) /\ w = OneUse(q.token)[y]
    OBVIOUS
  <2> QED
    BY <1>1, <2>1, <2>2
<1> QED
  BY <1>2, <1>3

LEMMA TokensAside ==
  ASSUME NEW r \in Request, NEW q \in RequestRecord, q = request[r], NEW m, ButTokens(q, m), m.res = q.res
  PROVE  SameHeld(r, m) /\ SameSlots(r, m) /\ m.site = request[r].site
<1>1. \A a \in Authority : HeldOf(q, a) \in Nat
  BY TermsTyped
<1>2. SameHeld(r, m)
  BY <1>1 DEF ButTokens, SameHeld, HeldOf
<1>3. SameSlots(r, m)
  BY DEF ButTokens, SameSlots, Holds
<1> QED
  BY <1>2, <1>3 DEF ButTokens

LEMMA MintingMayMint ==
  ASSUME NEW q \in RequestRecord, Fits(q), q.at \in {"minting", "registering", "undoing"}
  PROVE  MayMint(q) /\ (q.at # "undoing" => q.token = NoToken) /\ q.doing \in {"mint", "rewrite"}
BY DEF MayMint, Fits, DoingFits, TokensFit, SlotsFit, ForgetsNothing, Minting, Rewriting, Idling, Nothing

\* A token that stays another's, or that another registered first.
LEMMA GivenAnothersFits ==
  ASSUME NEW q \in RequestRecord, Fits(q), q.at \in {"minting", "registering"}, NEW t \in Token,
         NEW m, m = GivenAnothers(q, t)
  PROVE  m \in RequestRecord /\ Fits(m) /\ ButTokens(q, m) /\ m.res = q.res /\ OneUseMore(q, m, t)
<1>1. MayMint(q) /\ q.token = NoToken
  BY MintingMayMint
<1>2. CASE q.res = Nothing
  <2>1. m = Given(q, t)
    BY <1>2 DEF GivenAnothers
  <2>2. /\ m \in RequestRecord /\ Fits(m) /\ ButTokens(q, m) /\ m.res = Nothing
        /\ m.token = NoToken /\ m.minted = Append(q.minted, t)
    BY <1>1, <1>2, <2>1, GivenFits DEF IsGiven
  <2> QED
    BY <1>1, <1>2, <2>2, GivenCounts
<1>3. CASE q.res # Nothing
  <2>1. PICK at, y : at = "undoing" /\ y = t /\ m = [q EXCEPT !.at = at, !.token = y]
    BY <1>3 DEF GivenAnothers
  <2>2. at \in Places /\ y \in SomeToken /\ t # NoToken
    BY <2>1, LimitAssumption DEF Places, SomeToken, Token, NoToken
  <2>3. /\ m \in RequestRecord /\ m.at = at /\ m.token = y /\ m.minted = q.minted /\ m.res = q.res
        /\ m.site = q.site /\ m.own = q.own /\ m.lease = q.lease
        /\ m.stream = q.stream /\ m.parse = q.parse /\ m.half = q.half
        /\ m.doing = q.doing /\ m.served = q.served /\ m.lost = q.lost /\ m.key = q.key /\ m.depth = q.depth
    BY ONLY q \in RequestRecord, <2>1, <2>2 DEF RequestRecord
  <2>4. Fits(m)
    BY <1>3, <2>1, <2>2, <2>3 DEF Fits, ReservationFits, DoingFits, TokensFit, SlotsFit, ForgetsNothing,
                    Idling, Rewriting, Minting, Nothing
  <2>5. OneUseMore(q, m, t)
    <3> SUFFICES ASSUME NEW x \in Token
                 PROVE  /\ x = t => UsedBy(m, x) = UsedBy(q, x) + 1
                        /\ x # t => UsedBy(m, x) = UsedBy(q, x)
      BY DEF OneUseMore
    <3>1. OneUse(q.token)[x] = 0 /\ (x = t => OneUse(t)[x] = 1) /\ (x # t => OneUse(t)[x] = 0)
      BY <1>1, NoUse, OneUseIs
    <3>2. PICK u, v : u = Count(q.minted, x) /\ v = OneUse(t)[x]
      OBVIOUS
    <3>3. u \in Nat
      BY <3>2, RecordFacts, CountIsFinite
    <3>4. UsedBy(q, x) = u + 0 /\ UsedBy(m, x) = u + v
      BY <3>1, <3>2, <2>1, <2>3 DEF UsedBy
    <3> QED
      BY ONLY <3>1, <3>2, <3>3, <3>4
  <2> QED
    BY <2>3, <2>4, <2>5 DEF ButTokens
<1> QED
  BY <1>2, <1>3

\* A limit is reached, or the token cannot be sealed.
LEMMA RefusedFits ==
  ASSUME NEW q \in RequestRecord, Fits(q), q.at = "registering", NEW m, m = Refused(q)
  PROVE  m \in RequestRecord /\ Fits(m) /\ Equal(q, m)
<1>1. CASE q.res = Nothing
  <2>1. Bare(q)
    BY DEF Bare, Fits, DoingFits, TokensFit, SlotsFit, ForgetsNothing, Minting, Rewriting, Idling, Nothing
  <2>2. m = Failing(q)
    BY <1>1 DEF Refused
  <2>3. m \in RequestRecord /\ Fits(m) /\ ButReservation(q, m) /\ m.res = Nothing
    BY <2>1, <2>2, FailingFits
  <2> QED
    BY <1>1, <2>3, EqualBut
<1>2. CASE q.res # Nothing
  <2>1. PICK at \in Places : at = "refused" /\ m = [q EXCEPT !.at = at]
    BY <1>2 DEF Refused, Places
  <2>2. /\ m \in RequestRecord /\ m.at = at /\ SameHoldings(q, m)
        /\ m.doing = q.doing /\ m.served = q.served /\ m.lost = q.lost /\ m.key = q.key /\ m.depth = q.depth
    BY ONLY q \in RequestRecord, <2>1 DEF RequestRecord, SameHoldings
  <2>3. Fits(m)
    BY <1>2, <2>1, <2>2 DEF SameHoldings, Fits, ReservationFits, DoingFits, TokensFit, SlotsFit, ForgetsNothing,
                    Idling, Rewriting, Minting, Nothing
  <2> QED
    BY <2>2, <2>3, EqualHoldings
<1> QED
  BY <1>1, <1>2

\* It may leave without wrapping its response.
MayLeave(q) ==
  /\ q \in RequestRecord /\ q.half = Nothing /\ q.res = Nothing
  /\ q.token = NoToken /\ q.minted = <<>> /\ ~q.parse
  /\ q.doing = "serve" => q.served # NoToken
  /\ OneWay => q.lost = NothingLost /\ q.lease = <<>> /\ (q.served = NoToken => ~q.stream)

LEMMA ForgetFits ==
  ASSUME NEW q, MayLeave(q), NEW m, m = Forget(q)
  PROVE  /\ m \in RequestRecord /\ Fits(m) /\ m.site = q.site /\ m.half = q.half
         /\ \A a \in Authority : /\ HeldOf(m, a) <= HeldOf(q, a)
                                 /\ OneWay => HeldOf(m, a) = HeldOf(q, a)
         /\ \A t \in Token : UsedBy(m, t) = UsedBy(q, t)
         /\ \A l \in Pool : Holds(m, l) => Holds(q, l)
         /\ OneWay => \A l \in Pool : Holds(q, l) => Holds(m, l)
<1>1. q \in RequestRecord /\ q.stream \in BOOLEAN /\ q.parse \in BOOLEAN /\ q.lease \in Seq(Authority)
  BY RecordFacts DEF MayLeave
<1>2. PICK own \in BOOLEAN : own = (q.served = NoToken /\ q.stream)
  OBVIOUS
<1>3. PICK lost, none, stream : /\ lost = [lease |-> q.lease, stream |-> own] /\ none = <<>>
                                /\ stream = (q.stream /\ ~own)
  OBVIOUS
<1>4. lost \in [lease : Seq(Authority), stream : BOOLEAN] /\ none \in Seq(Authority) /\ stream \in BOOLEAN
  BY ONLY <1>1, <1>2, <1>3
<1>5. PICK p : p = [q EXCEPT !.lost = lost, !.lease = none, !.stream = stream]
  OBVIOUS
<1>6. /\ p \in RequestRecord /\ p.at = q.at /\ p.lost = lost /\ p.lease = none /\ p.stream = stream
      /\ p.site = q.site /\ p.own = q.own /\ p.res = q.res /\ p.parse = q.parse /\ p.half = q.half
      /\ p.token = q.token /\ p.minted = q.minted
      /\ p.doing = q.doing /\ p.served = q.served /\ p.key = q.key /\ p.depth = q.depth
  BY ONLY <1>1, <1>4, <1>5 DEF RequestRecord
<1>7. OneWay => lost = NothingLost /\ none = q.lease /\ stream = q.stream
  <2>1. OneWay => q.lease = <<>> /\ (q.served = NoToken => ~q.stream)
    BY DEF MayLeave
  <2> QED
    BY ONLY <2>1, <1>1, <1>2, <1>3 DEF NothingLost
<1>8. PICK at, c : /\ at = (IF q.served # NoToken /\ q.depth = 0 THEN "using" ELSE "ending")
                   /\ c \in BOOLEAN /\ (m = [p EXCEPT !.at = at, !.commit = c] \/ m = [p EXCEPT !.at = at])
  <2>1. CASE q.served # NoToken /\ q.depth = 0
    BY <2>1, <1>2, <1>3, <1>5 DEF Forget
  <2>2. CASE ~(q.served # NoToken /\ q.depth = 0)
    <3>1. m = Ending(p, q.served = NoToken)
      BY <2>2, <1>2, <1>3, <1>5 DEF Forget
    <3>2. m = [p EXCEPT !.at = "ending", !.commit = (q.served = NoToken)]
      BY <3>1 DEF Ending
    <3> QED
      BY <2>2, <3>2
  <2> QED
    BY <2>1, <2>2
<1>9. at \in Places
  BY <1>8 DEF Places
<1>10. /\ m \in RequestRecord /\ m.at = at /\ m.lost = lost /\ m.lease = none /\ m.stream = stream
       /\ m.site = q.site /\ m.own = q.own /\ m.res = q.res /\ m.parse = q.parse /\ m.half = q.half
       /\ m.token = q.token /\ m.minted = q.minted
       /\ m.doing = q.doing /\ m.served = q.served /\ m.key = q.key /\ m.depth = q.depth
  BY ONLY ZenonT(60), <1>6, <1>8, <1>9 DEF RequestRecord
<1>11. Fits(m)
  BY <1>7, <1>8, <1>10, <1>1, <1>3 DEF MayLeave, Fits, ReservationFits, DoingFits, TokensFit, SlotsFit, ForgetsNothing,
                    Idling, Rewriting, Minting, Nothing
<1>12. ASSUME NEW a \in Authority
       PROVE  HeldOf(m, a) <= HeldOf(q, a) /\ (OneWay => HeldOf(m, a) = HeldOf(q, a))
  <2>1. PICK u, v, w : u = One(q.own)[a] /\ v = One(q.res)[a] /\ w = Count(q.lease, a)
    OBVIOUS
  <2>2. u \in Nat /\ v \in Nat
    BY <2>1, OneIs
  <2>3. w \in Nat
    BY <2>1, <1>1, CountIsFinite
  <2>4. HeldOf(q, a) = u + v + w /\ HeldOf(m, a) = u + v + 0
    BY <2>1, <1>3, <1>10, CountOfNone DEF HeldOf
  <2>5. OneWay => w = 0
    BY <2>1, <1>3, <1>7, CountOfNone
  <2> QED
    BY ONLY <2>2, <2>3, <2>4, <2>5
<1>13. \A t \in Token : UsedBy(m, t) = UsedBy(q, t)
  BY <1>10 DEF UsedBy
<1>14. \A l \in Pool : /\ Holds(m, l) => Holds(q, l)
                       /\ OneWay => (Holds(q, l) => Holds(m, l))
  BY <1>3, <1>7, <1>10 DEF Holds
<1> QED
  BY <1>10, <1>11, <1>12, <1>13, <1>14

-----------------------------------------------------------------------------
(* The actions, one after the other.                                         *)

LEMMA RequestIs ==
  ASSUME IInv, NEW r \in Request
  PROVE  \E q \in RequestRecord : /\ q = request[r] /\ Fits(q) /\ q.site \in Site /\ q.site = request[r].site
                                  /\ q.at \notin Idling => q.site \in open
BY RecordFacts DEF IInv, RequestsFit

LEMMA BecomesIt ==
  ASSUME IInv, NEW r \in Request, NEW m \in RequestRecord, Fits(m), m.site = request[r].site,
         request[r].at \notin Idling \/ request[r].site \in open, Become(r, m), UNCHANGED <<open, events>>
  PROVE  MayBecome(r, m)
BY DEF IInv, RequestsFit, MayBecome

\* The book as it is, and pruned.
LEMMA BookNow ==
  ASSUME IInv
  PROVE  /\ BookFits(book, issued, UsesTable) /\ Thins(book, book) /\ issued \in 0..MaxToken
         /\ \A due \in BOOLEAN : BookFits(Pruned(due), issued, UsesTable) /\ Thins(book, Pruned(due))
<1>1. PICK n, uses : n = issued /\ uses = UsesTable /\ n \in 0..MaxToken /\ BookFits(book, n, uses)
  BY DEF IInv
<1>2. ASSUME NEW due \in BOOLEAN PROVE BookFits(Pruned(due), n, uses) /\ Thins(book, Pruned(due))
  BY <1>1, PrunedFits
<1> QED
  BY <1>1, <1>2, ThinsSelf

LEMMA LookedUpNow ==
  ASSUME IInv, NEW due \in BOOLEAN, NEW s \in Site, NEW t, NEW b, b = LookedUp(Pruned(due), s, t)
  PROVE  BookFits(b, issued, UsesTable) /\ Thins(book, b)
<1>1. PICK n, uses, c : /\ n = issued /\ uses = UsesTable /\ n \in 0..MaxToken
                        /\ c = Pruned(due) /\ BookFits(c, n, uses) /\ Thins(book, c)
  BY BookNow
<1>2. BookFits(LookedUp(c, s, t), n, uses) /\ Thins(c, LookedUp(c, s, t))
  BY <1>1, LookedUpFits
<1> QED
  BY <1>1, <1>2, ThinsFurther

LEMMA UnmappedNow ==
  ASSUME IInv, NEW due \in BOOLEAN, NEW s \in Site, NEW k, Reusable(Pruned(due), s, k) = {},
         NEW b, b = Unmapped(Pruned(due), s, k)
  PROVE  BookFits(b, issued, UsesTable) /\ Thins(book, b)
<1>1. PICK n, uses, c : /\ n = issued /\ uses = UsesTable /\ n \in 0..MaxToken
                        /\ c = Pruned(due) /\ BookFits(c, n, uses) /\ Thins(book, c)
  BY BookNow
<1>2. BookFits(Unmapped(c, s, k), n, uses) /\ Thins(c, Unmapped(c, s, k))
  BY <1>1, UnmappedFits
<1> QED
  BY <1>1, <1>2, ThinsFurther

\* Steps that change nothing but the request.
LEMMA AloneStep ==
  ASSUME IInv, NEW r \in Request, NEW q \in RequestRecord, q = request[r], NEW m, MayBecome(r, m), Equal(q, m),
         UNCHANGED <<authorityVars, book, issued, occupied>>
  PROVE  IInv' /\ RoutesKept
<1>1. SameHeld(r, m) /\ SameSlots(r, m) /\ SameUses(r, m)
  BY EqualIsSame
<1>2. PICK b : b = book' /\ b = book
  OBVIOUS
<1>3. BookFits(b, issued, UsesTable) /\ Thins(book, b)
  BY <1>2, BookNow
<1> QED
  BY <1>1, <1>2, <1>3, QuietStep

\* A request that ends, with all that it holds still to let go of.
LEMMA EndStep ==
  ASSUME IInv, NEW r \in Request, NEW c \in BOOLEAN, Become(r, Ending(request[r], c)),
         request[r].at \in {"answered", "connecting", "using"} \/ (request[r].at = "new" /\ request[r].site \in open),
         UNCHANGED <<open, events>>
  PROVE  /\ MayBecome(r, Ending(request[r], c))
         /\ SameHeld(r, Ending(request[r], c)) /\ SameSlots(r, Ending(request[r], c)) /\ SameUses(r, Ending(request[r], c))
<1>1. PICK q \in RequestRecord : /\ q = request[r] /\ Fits(q) /\ q.site \in Site /\ q.site = request[r].site
                                 /\ q.at \notin Idling => q.site \in open
  BY RequestIs
<1>2. Bare(q) /\ q.minted = <<>>
  BY <1>1 DEF Bare, Fits, DoingFits, TokensFit, SlotsFit, ForgetsNothing, Idling, Minting, Rewriting, Nothing
<1>3. PICK m : m = Ending(q, c)
  OBVIOUS
<1>4. m \in RequestRecord /\ Fits(m) /\ SameHoldings(q, m)
  BY <1>2, <1>3, EndingFits
<1>5. m.site = q.site
  BY <1>4 DEF SameHoldings
<1>6. MayBecome(r, m)
  BY <1>1, <1>3, <1>4, <1>5, BecomesIt DEF Idling
<1>7. SameHeld(r, m) /\ SameSlots(r, m) /\ SameUses(r, m)
  BY <1>1, <1>4, EqualHoldings, EqualIsSame
<1> QED
  BY <1>1, <1>3, <1>6, <1>7

\* RefuseAnswer, ConnectFails and Receive.
LEMMA EndsAlone ==
  ASSUME IInv, NEW r \in Request, UNCHANGED events,
         RefuseAnswer(r) \/ ConnectFails(r) \/ (\E good \in BOOLEAN : Receive(r, good))
  PROVE  IInv' /\ RoutesKept
<1>1. PICK c \in BOOLEAN : Become(r, Ending(request[r], c))
  BY DEF RefuseAnswer, ConnectFails, Receive
<1>2. /\ request[r].at \in {"answered", "connecting", "using"} \/ (request[r].at = "new" /\ request[r].site \in open)
      /\ UNCHANGED stateVars
  BY DEF RefuseAnswer, ConnectFails, Receive, Answered, Where
<1>3. UNCHANGED <<open, authorityVars, book, issued, occupied>>
  BY <1>2 DEF stateVars
<1>4. PICK m : m = Ending(request[r], c)
  OBVIOUS
<1>5. MayBecome(r, m) /\ SameHeld(r, m) /\ SameSlots(r, m) /\ SameUses(r, m)
  BY <1>1, <1>2, <1>3, <1>4, EndStep
<1>6. PICK b : b = book' /\ b = book
  BY <1>3
<1>7. BookFits(b, issued, UsesTable) /\ Thins(book, b)
  BY <1>6, BookNow
<1> QED
  BY <1>3, <1>5, <1>6, <1>7, QuietStep

\* useCapability.
LEMMA UseStep ==
  ASSUME IInv, NEW r \in Request, UNCHANGED events, Use(r)
  PROVE  IInv' /\ RoutesKept
<1>1. PICK due \in BOOLEAN :
        /\ book' = LookedUp(Pruned(due), request[r].site, request[r].served)
        /\ Become(r, Ending(request[r], Usable(Pruned(due), request[r].site, request[r].served)))
  BY DEF Use
<1>2. /\ request[r].at \in {"answered", "connecting", "using"} \/ (request[r].at = "new" /\ request[r].site \in open)
      /\ UNCHANGED <<open, authorityVars, issued, occupied>>
  BY DEF Use, Where
<1>3. PICK c \in BOOLEAN : c = Usable(Pruned(due), request[r].site, request[r].served)
  BY DEF Usable
<1>4. PICK m : m = Ending(request[r], c)
  OBVIOUS
<1>5. MayBecome(r, m) /\ SameHeld(r, m) /\ SameSlots(r, m) /\ SameUses(r, m)
  BY <1>1, <1>2, <1>3, <1>4, EndStep
<1>6. PICK b : b = book'
  OBVIOUS
<1>7. BookFits(b, issued, UsesTable) /\ Thins(book, b)
  BY <1>1, <1>6, RequestIs, LookedUpNow
<1> QED
  BY <1>2, <1>5, <1>6, <1>7, QuietStep

\* Moving on with all that it has.
LEMMA GoFits ==
  ASSUME NEW q \in RequestRecord, Fits(q), NEW at,
         \/ q.at = "minting" /\ at = "registering"
         \/ q.at = "rewriting" /\ at \in {"committing", "aborting"}
         \/ q.at = "follow" /\ at = "connecting"
         \/ q.at = "admitted" /\ at = "using",
         NEW m, m = [q EXCEPT !.at = at]
  PROVE  m \in RequestRecord /\ Fits(m) /\ Equal(q, m) /\ m.site = q.site
<1>1. at \in Places
  BY DEF Places
<1>2. /\ m \in RequestRecord /\ m.at = at /\ SameHoldings(q, m)
      /\ m.doing = q.doing /\ m.served = q.served /\ m.lost = q.lost /\ m.key = q.key /\ m.depth = q.depth
  BY ONLY q \in RequestRecord, <1>1, m = [q EXCEPT !.at = at] DEF RequestRecord, SameHoldings
<1>3. Fits(m)
  BY <1>2 DEF SameHoldings, Fits, ReservationFits, DoingFits, TokensFit, SlotsFit, ForgetsNothing,
              Idling, Rewriting, Minting, Nothing
<1> QED
  BY <1>2, <1>3, EqualHoldings DEF SameHoldings

LEMMA MintFindsNoneStep ==
  ASSUME IInv, NEW r \in Request, UNCHANGED events, MintFindsNone(r)
  PROVE  IInv' /\ RoutesKept
<1>1. PICK q \in RequestRecord : /\ q = request[r] /\ Fits(q) /\ q.site \in Site /\ q.site = request[r].site
                                 /\ q.at \notin Idling => q.site \in open
  BY RequestIs
<1>2. /\ q.at = "minting" /\ Become(r, [request[r] EXCEPT !.at = "registering"])
      /\ UNCHANGED <<open, authorityVars, issued, occupied>>
  BY <1>1 DEF MintFindsNone, Where, Go
<1>3. PICK due \in BOOLEAN :
        Reusable(Pruned(due), q.site, q.key) = {} /\ book' = Unmapped(Pruned(due), q.site, q.key)
  BY <1>1 DEF MintFindsNone
<1>4. PICK m : m = [q EXCEPT !.at = "registering"]
  OBVIOUS
<1>5. m \in RequestRecord /\ Fits(m) /\ Equal(q, m) /\ m.site = q.site
  BY <1>1, <1>2, <1>4, GoFits
<1>6. MayBecome(r, m)
  BY <1>1, <1>2, <1>4, <1>5, BecomesIt DEF Idling
<1>7. SameHeld(r, m) /\ SameSlots(r, m) /\ SameUses(r, m)
  BY <1>1, <1>5, EqualIsSame
<1>8. PICK b : b = book'
  OBVIOUS
<1>9. BookFits(b, issued, UsesTable) /\ Thins(book, b)
  BY <1>1, <1>3, <1>8, UnmappedNow
<1> QED
  BY <1>2, <1>6, <1>7, <1>8, <1>9, QuietStep

LEMMA SealFailsStep ==
  ASSUME IInv, NEW r \in Request, UNCHANGED events, SealFails(r)
  PROVE  IInv' /\ RoutesKept
<1>1. PICK q \in RequestRecord : /\ q = request[r] /\ Fits(q) /\ q.site \in Site /\ q.site = request[r].site
                                 /\ q.at \notin Idling => q.site \in open
  BY RequestIs
<1>2. /\ q.at = "registering" /\ Become(r, Refused(q))
      /\ UNCHANGED <<open, authorityVars, book, issued, occupied>>
  BY <1>1 DEF SealFails, Where, stateVars
<1>3. PICK m : m = Refused(q)
  OBVIOUS
<1>4. m \in RequestRecord /\ Fits(m) /\ Equal(q, m)
  BY <1>1, <1>2, <1>3, RefusedFits
<1>5. MayBecome(r, m)
  BY <1>1, <1>2, <1>3, <1>4, BecomesIt DEF Idling, Equal
<1> QED
  BY <1>1, <1>2, <1>4, <1>5, AloneStep

LEMMA AcceptStep ==
  ASSUME IInv, NEW r \in Request, UNCHANGED events, Accept(r)
  PROVE  IInv' /\ RoutesKept
<1>1. PICK q \in RequestRecord : /\ q = request[r] /\ Fits(q) /\ q.site \in Site /\ q.site = request[r].site
                                 /\ q.at \notin Idling => q.site \in open
  BY RequestIs
<1>2. q.at = "rewriting" /\ UNCHANGED <<open, authorityVars, issued, occupied>>
  BY <1>1 DEF Accept, Where
<1>3. PICK due \in BOOLEAN, at \in {"committing", "aborting"} :
        book' = LookedUp(Pruned(due), q.site, q.served) /\ Become(r, [q EXCEPT !.at = at])
  BY <1>1 DEF Accept, Go
<1>4. PICK m : m = [q EXCEPT !.at = at]
  OBVIOUS
<1>5. m \in RequestRecord /\ Fits(m) /\ Equal(q, m) /\ m.site = q.site
  BY <1>1, <1>2, <1>3, <1>4, GoFits
<1>6. MayBecome(r, m)
  BY <1>1, <1>2, <1>3, <1>4, <1>5, BecomesIt DEF Idling
<1>7. SameHeld(r, m) /\ SameSlots(r, m) /\ SameUses(r, m)
  BY <1>1, <1>5, EqualIsSame
<1>8. PICK b : b = book'
  OBVIOUS
<1>9. BookFits(b, issued, UsesTable) /\ Thins(book, b)
  BY <1>1, <1>3, <1>8, LookedUpNow
<1> QED
  BY <1>2, <1>6, <1>7, <1>8, <1>9, QuietStep

LEMMA ConnectStep ==
  ASSUME IInv, NEW r \in Request, UNCHANGED events, Connect(r)
  PROVE  IInv' /\ RoutesKept
<1>1. PICK q \in RequestRecord : /\ q = request[r] /\ Fits(q) /\ q.site \in Site /\ q.site = request[r].site
                                 /\ q.at \notin Idling => q.site \in open
  BY RequestIs
<1>2. /\ q.at = "connecting" /\ UNCHANGED <<open, authorityVars, book, issued, occupied>>
      /\ Become(r, [q EXCEPT !.at = "answered", !.lease = Append(@, q.res), !.res = Nothing, !.hops = @ + 1])
  BY <1>1 DEF Connect, Where, stateVars
<1>3. q.res \in Authority /\ q.res # Nothing /\ q.lease \in Seq(Authority) /\ q.hops \in Nat
  BY <1>1, <1>2, RecordFacts DEF Fits, ReservationFits, SomeAuthority
<1>4. PICK at, w, z, h : at = "answered" /\ w = Append(q.lease, q.res) /\ z = Nothing /\ h = q.hops + 1
  OBVIOUS
<1>5. at \in Places /\ z \in SomeAuthority
  BY <1>4 DEF Places, SomeAuthority
<1>6. w \in Seq(Authority) /\ w # <<>> /\ h \in Nat
  BY ONLY <1>3, <1>4
<1>7. PICK m : m = [q EXCEPT !.at = at, !.lease = w, !.res = z, !.hops = h]
  OBVIOUS
<1>8. Become(r, m)
  BY ONLY <1>2, <1>4, <1>7
<1>9. /\ m \in RequestRecord /\ m.at = at /\ m.lease = w /\ m.res = z
      /\ m.site = q.site /\ m.own = q.own /\ m.stream = q.stream /\ m.parse = q.parse /\ m.half = q.half
      /\ m.token = q.token /\ m.minted = q.minted
      /\ m.doing = q.doing /\ m.served = q.served /\ m.lost = q.lost /\ m.key = q.key /\ m.depth = q.depth
  BY ONLY <1>1, <1>5, <1>6, <1>7 DEF RequestRecord
<1>10. Fits(m)
  BY <1>1, <1>2, <1>3, <1>4, <1>6, <1>9 DEF Fits, ReservationFits, DoingFits, TokensFit, SlotsFit, ForgetsNothing,
              Idling, Rewriting, Minting, Nothing
<1>11. ASSUME NEW x \in Authority PROVE HeldOf(m, x) = HeldOf(q, x)
  <2>1. PICK u, v, c, d : u = One(q.own)[x] /\ v = One(q.res)[x] /\ c = Count(q.lease, x) /\ d = Count(w, x)
    OBVIOUS
  <2>2. u \in Nat /\ (x = q.res => v = 1) /\ (x # q.res => v = 0)
    BY <2>1, OneIs
  <2>3. c \in Nat
    BY <2>1, <1>3, CountIsFinite
  <2>4. (x = q.res => d = c + 1) /\ (x # q.res => d = c)
    BY <2>1, <1>3, <1>4, CountOfMore
  <2>5. HeldOf(q, x) = u + v + c /\ HeldOf(m, x) = u + 0 + d
    BY <2>1, <1>4, <1>9, NothingIsNone DEF HeldOf
  <2> QED
    BY ONLY <2>2, <2>3, <2>4, <2>5
<1>12. Equal(q, m)
  BY <1>9, <1>11 DEF Equal, UsedBy, Holds
<1>13. MayBecome(r, m)
  BY <1>1, <1>2, <1>8, <1>9, <1>10, BecomesIt DEF Idling
<1> QED
  BY <1>1, <1>2, <1>12, <1>13, AloneStep

\* mainVideoDirect, for a configured authority.
LEMMA HandBackStep ==
  ASSUME IInv, NEW r \in Request, UNCHANGED events, HandBack(r)
  PROVE  IInv' /\ RoutesKept
<1>1. PICK q \in RequestRecord : /\ q = request[r] /\ Fits(q) /\ q.site \in Site /\ q.site = request[r].site
                                 /\ q.at \notin Idling => q.site \in open
  BY RequestIs
<1>2. /\ q.at = "answered" \/ (q.at = "new" /\ q.site \in open)
      /\ UNCHANGED <<open, authorityVars, book, issued, occupied>>
      /\ OneWay => q.lease = <<>>
      /\ Become(r, Forget(q))
  BY <1>1 DEF HandBack, Answered, MayForget, Where, stateVars
<1>3. MayLeave(q)
  BY <1>1, <1>2 DEF MayLeave, Fits, ReservationFits, DoingFits, TokensFit, SlotsFit, ForgetsNothing,
              Idling, Rewriting, Minting, Nothing
<1>4. PICK m : m = Forget(q)
  OBVIOUS
<1>5. /\ m \in RequestRecord /\ Fits(m) /\ m.site = q.site /\ m.half = q.half
      /\ \A a \in Authority : /\ HeldOf(m, a) <= HeldOf(q, a)
                              /\ OneWay => HeldOf(m, a) = HeldOf(q, a)
      /\ \A t \in Token : UsedBy(m, t) = UsedBy(q, t)
      /\ \A l \in Pool : Holds(m, l) => Holds(q, l)
      /\ OneWay => \A l \in Pool : Holds(q, l) => Holds(m, l)
  BY <1>3, <1>4, ForgetFits
<1>6. MayBecome(r, m)
  BY <1>1, <1>2, <1>4, <1>5, BecomesIt DEF Idling
<1>7. SameHeld(r, m) /\ SameSlots(r, m) /\ SameUses(r, m)
  BY <1>1, <1>5 DEF SameHeld, SameSlots, SameUses
<1>8. PICK b : b = book' /\ b = book
  BY <1>2
<1>9. BookFits(b, issued, UsesTable) /\ Thins(book, b)
  BY <1>8, BookNow
<1> QED
  BY <1>2, <1>6, <1>7, <1>8, <1>9, QuietStep

\* Request r, as q, asks for a reservation of the target it is about.
LEMMA ReserveFor ==
  ASSUME IInv, NEW r \in Request, NEW q \in RequestRecord, q = request[r], Fits(q), q.site \in open,
         NEW w, Asks(w), Equal(q, w), w.site = q.site, Reserve(r, w),
         UNCHANGED <<open, events, issued, occupied>>,
         NEW b, b = book', BookFits(b, issued, UsesTable), Thins(book, b)
  PROVE  IInv' /\ RoutesKept
<1>1. w \in RequestRecord /\ w.res = Nothing
  BY DEF Asks
<1>2. PICK a : a = AuthorityOf[w.key.target]
  OBVIOUS
<1>3. CASE ReserveAuthority(q.site, a) /\ Become(r, [w EXCEPT !.at = "resolving", !.res = a])
  <2>1. PICK m : m = [w EXCEPT !.at = "resolving", !.res = a]
    OBVIOUS
  <2>2. m \in RequestRecord /\ Fits(m) /\ ButReservation(w, m) /\ m.res = a /\ a \in Authority /\ a # Nothing
    <3>1. Waits(w, a, m)
      BY <1>2, <2>1 DEF Waits
    <3> QED
      BY <3>1, ResolvingFits
  <2>3. /\ \A x \in Authority : HeldOf(m, x) + One(w.res)[x] = HeldOf(w, x) + One(m.res)[x]
        /\ \A t \in Token : UsedBy(m, t) = UsedBy(w, t)
        /\ \A l \in Pool : Holds(m, l) = Holds(w, l)
        /\ m.half = w.half /\ m.site = w.site
    BY <1>1, <2>2, ReservationCounts
  <2>4. ASSUME NEW x \in Authority
        PROVE  /\ x = a => HeldOf(m, x) = HeldOf(request[r], x) + 1
               /\ x # a => HeldOf(m, x) = HeldOf(request[r], x)
    <3>1. PICK u, v, z : u = HeldOf(m, x) /\ v = HeldOf(q, x) /\ z = One(a)[x]
      OBVIOUS
    <3>2. u + 0 = v + z
      <4>1. One(w.res)[x] = 0
        BY <1>1, NothingIsNone
      <4>2. HeldOf(w, x) = v
        BY <3>1 DEF Equal
      <4> QED
        BY <4>1, <4>2, <2>2, <2>3, <3>1
    <3>3. u \in Nat /\ v \in Nat
      BY <2>2, <3>1, TermsTyped
    <3>4. (x = a => z = 1) /\ (x # a => z = 0)
      BY <3>1, OneIs
    <3>5. (x = a => u = v + 1) /\ (x # a => u = v)
      BY ONLY <3>2, <3>3, <3>4
    <3> QED
      BY <3>1, <3>5
  <2>5. MayBecome(r, m)
    BY <1>3, <2>1, <2>2, <2>3, BecomesIt
  <2>6. SameUses(r, m) /\ SameSlots(r, m)
    BY <2>3 DEF Equal, SameUses, SameSlots
  <2>7. ReserveAuthority(request[r].site, a)
    BY <1>3
  <2>8. UNCHANGED <<issued, occupied>>
    OBVIOUS
  <2> QED
    BY <2>2, <2>4, <2>5, <2>6, <2>7, <2>8, ReserveStep
<1>4. CASE Become(r, Denied(w)) /\ UNCHANGED authorityVars
  <2>1. PICK m : m = Denied(w)
    OBVIOUS
  <2>2. w.token = NoToken => Bare(w)
    BY DEF Asks, Bare
  <2>3. w.token # NoToken => w.doing = "borrow" /\ w.half = Nothing /\ (OneWay => w.lost = NothingLost)
    BY DEF Asks
  <2>4. m \in RequestRecord /\ Fits(m) /\ ButReservation(w, m) /\ m.res = Nothing
    BY <1>1, <2>1, <2>2, <2>3, DeniedFits
  <2>5. Equal(w, m)
    BY <1>1, <2>4, EqualBut
  <2>6. Equal(q, m)
    BY <2>5 DEF Equal
  <2>7. MayBecome(r, m)
    BY <1>4, <2>1, <2>4, <2>6, BecomesIt DEF Equal
  <2>8. SameHeld(r, m) /\ SameSlots(r, m) /\ SameUses(r, m)
    BY <2>6, EqualIsSame
  <2>9. UNCHANGED <<authorityVars, issued, occupied>>
    BY <1>4
  <2> QED
    BY <2>7, <2>8, <2>9, QuietStep
<1> QED
  BY <1>2, <1>3, <1>4 DEF Reserve

\* ReserveBorrowed and ReservePresented: as it is.
LEMMA ReserveAsItIs ==
  ASSUME IInv, NEW r \in Request, UNCHANGED events, ReserveBorrowed(r) \/ ReservePresented(r)
  PROVE  IInv' /\ RoutesKept
<1>1. PICK q \in RequestRecord : /\ q = request[r] /\ Fits(q) /\ q.site \in Site /\ q.site = request[r].site
                                 /\ q.at \notin Idling => q.site \in open
  BY RequestIs
<1>2. /\ q.at \in {"borrowing", "presented"} /\ Reserve(r, q)
      /\ UNCHANGED <<open, book, issued, occupied>>
  BY <1>1 DEF ReserveBorrowed, ReservePresented, Where
<1>3. Asks(q)
  BY <1>1, <1>2 DEF Asks, Fits, ReservationFits, DoingFits, TokensFit, SlotsFit, ForgetsNothing,
                    Idling, Rewriting, Minting, Nothing
<1>4. Equal(q, q) /\ q.site \in open
  BY <1>1, <1>2 DEF Equal, Idling
<1>5. PICK b : b = book' /\ b = book
  BY <1>2
<1>6. BookFits(b, issued, UsesTable) /\ Thins(book, b)
  BY <1>5, BookNow
<1> QED
  BY <1>1, <1>2, <1>3, <1>4, <1>5, <1>6, ReserveFor

\* The redirects that ask for a reservation.
LEMMA RedirectStep ==
  ASSUME IInv, NEW r \in Request, UNCHANGED events, NEW t \in Target,
         FollowRedirect(r, t) \/ DirectRedirect(r, t) \/ MintRedirect(r, t)
  PROVE  IInv' /\ RoutesKept
<1>1. PICK q \in RequestRecord : /\ q = request[r] /\ Fits(q) /\ q.site \in Site /\ q.site = request[r].site
                                 /\ q.at \notin Idling => q.site \in open
  BY RequestIs
<1>2. PICK doing \in {"follow", "direct", "mint"} :
        Redirected(r, t, doing) /\ (doing \in {"direct", "mint"} => MayForget(r))
  BY DEF FollowRedirect, DirectRedirect, MintRedirect
<1>3. PICK key : key = [target |-> t, depth |-> 0]
  OBVIOUS
<1>4. PICK w : w = [q EXCEPT !.doing = doing, !.key = key]
  OBVIOUS
<1>5. /\ q.at = "answered" \/ (q.at = "new" /\ q.site \in open)
      /\ ~Trusted(t) /\ Reserve(r, w)
      /\ UNCHANGED <<open, book, issued, occupied>>
  BY <1>1, <1>2, <1>3, <1>4 DEF Redirected, Answered, Where
<1>6. doing \in {"direct", "mint"} /\ OneWay => q.lease = <<>>
  BY <1>1, <1>2 DEF MayForget
<1>7. key \in Key /\ key.target = t /\ key \in [target : Target \union {Nothing}, depth : Nat] /\ doing \in Doings
  BY <1>3, LimitAssumption DEF Key, Doings
<1>8. /\ w \in RequestRecord /\ w.doing = doing /\ w.key = key /\ SameHoldings(q, w)
      /\ w.served = q.served /\ w.lost = q.lost /\ w.depth = q.depth
  BY ONLY q \in RequestRecord, <1>4, <1>7 DEF RequestRecord, SameHoldings
<1>9. Asks(w)
  BY <1>1, <1>5, <1>6, <1>7, <1>8 DEF SameHoldings, Asks, Fits, ReservationFits, DoingFits, TokensFit, SlotsFit,
                    ForgetsNothing, Idling, Rewriting, Minting, Nothing
<1>10. Equal(q, w) /\ w.site = q.site /\ q.site \in open
  BY <1>1, <1>5, <1>8, EqualHoldings DEF SameHoldings, Idling
<1>11. PICK b : b = book' /\ b = book
  BY <1>5
<1>12. BookFits(b, issued, UsesTable) /\ Thins(book, b)
  BY <1>11, BookNow
<1> QED
  BY <1>1, <1>5, <1>9, <1>10, <1>11, <1>12, ReserveFor

\* A session goes on with another count of its URLs.
ButURLs(q, w) ==
  /\ w \in RequestRecord /\ SameHoldings(q, w)
  /\ w.at = q.at /\ w.doing = q.doing /\ w.served = q.served /\ w.lost = q.lost
  /\ w.key = q.key /\ w.depth = q.depth

\* The mint of a target begins (MintFrom).
LEMMA MintFromStep ==
  ASSUME IInv, NEW r \in Request, NEW q \in RequestRecord, q = request[r], Fits(q),
         q.at \in {"rewriting", "looking"}, q.site \in open,
         NEW w, ButURLs(q, w), NEW key \in [target : Target, depth : Nat], MintFrom(r, w, key),
         UNCHANGED <<open, events, issued, occupied>>,
         NEW b, b = book', BookFits(b, issued, UsesTable), Thins(book, b)
  PROVE  IInv' /\ RoutesKept
<1>1. PICK at, doing, m : at = "minting" /\ doing = "rewrite" /\ m = [w EXCEPT !.doing = doing, !.key = key, !.at = at]
  OBVIOUS
<1>2. at \in Places /\ doing \in Doings /\ key \in [target : Target \union {Nothing}, depth : Nat]
  BY <1>1 DEF Places, Doings
<1>3. w \in RequestRecord
  BY DEF ButURLs
<1>4. /\ m \in RequestRecord /\ m.at = at /\ m.doing = doing /\ m.key = key /\ SameHoldings(w, m)
      /\ m.served = w.served /\ m.lost = w.lost /\ m.depth = w.depth
  BY ONLY <1>1, <1>2, <1>3 DEF RequestRecord, SameHoldings
<1>5. /\ SameHoldings(q, m) /\ m.served = q.served /\ m.lost = q.lost /\ m.depth = q.depth
  BY <1>4 DEF ButURLs, SameHoldings
<1>6. Equal(q, m) /\ m.site = q.site
  BY <1>5, EqualHoldings DEF SameHoldings
<1>7. m.res = Nothing /\ m.token = NoToken /\ m.half = Nothing /\ (OneWay => m.lost = NothingLost)
  BY <1>5 DEF SameHoldings, Fits, ReservationFits, DoingFits, TokensFit, SlotsFit, ForgetsNothing,
              Idling, Rewriting, Minting, Nothing
<1>8. UNCHANGED <<issued, occupied>>
  OBVIOUS
<1>9. key.target \in Target /\ key.depth \in Nat /\ (key.depth <= MaxDepth => key \in Key)
  BY LimitAssumption DEF Key
<1>10. MintFrom(r, w, key) =
         IF key.depth <= MaxDepth /\ ~Trusted(key.target) THEN Reserve(r, m)
         ELSE /\ Become(r, IF key.depth <= MaxDepth THEN m ELSE Failing(m))
              /\ UNCHANGED authorityVars
  BY <1>1 DEF MintFrom
<1>11. CASE key.depth <= MaxDepth /\ ~Trusted(key.target)
  <2>1. Asks(m)
    BY <1>1, <1>4, <1>7, <1>9, <1>11 DEF Asks, Nothing
  <2>2. Reserve(r, m)
    BY <1>10, <1>11
  <2> QED
    BY <1>6, <2>1, <2>2, ReserveFor
<1>12. CASE key.depth <= MaxDepth /\ Trusted(key.target)
  <2>1. Fits(m)
    BY <1>1, <1>4, <1>7, <1>9, <1>12 DEF Fits, ReservationFits, DoingFits, TokensFit, SlotsFit, ForgetsNothing,
              Idling, Rewriting, Minting, Nothing
  <2>2. Become(r, m) /\ UNCHANGED authorityVars
    BY <1>10, <1>12
  <2>3. MayBecome(r, m)
    BY <1>4, <1>6, <2>1, <2>2, BecomesIt
  <2>4. SameHeld(r, m) /\ SameSlots(r, m) /\ SameUses(r, m)
    BY <1>6, EqualIsSame
  <2> QED
    BY <1>8, <2>2, <2>3, <2>4, QuietStep
<1>13. CASE ~(key.depth <= MaxDepth)
  <2>1. Bare(m)
    BY <1>1, <1>4, <1>7 DEF Bare
  <2>2. PICK p : p = Failing(m)
    OBVIOUS
  <2>3. p \in RequestRecord /\ Fits(p) /\ ButReservation(m, p) /\ p.res = Nothing
    BY <2>1, <2>2, FailingFits
  <2>4. Equal(m, p)
    BY <1>4, <1>7, <2>3, EqualBut
  <2>5. Equal(q, p)
    BY <1>6, <2>4 DEF Equal
  <2>6. Become(r, p) /\ UNCHANGED authorityVars
    BY <1>10, <1>13, <2>2
  <2>7. MayBecome(r, p)
    BY <2>3, <2>5, <2>6, BecomesIt DEF Equal
  <2>8. SameHeld(r, p) /\ SameSlots(r, p) /\ SameUses(r, p)
    BY <2>5, EqualIsSame
  <2> QED
    BY <1>8, <2>6, <2>7, <2>8, QuietStep
<1> QED
  BY <1>11, <1>12, <1>13

\* rewriteAgainst..., a URL that has no route yet.
LEMMA DiscoverStep ==
  ASSUME IInv, NEW r \in Request, UNCHANGED events, NEW t \in Target, Discover(r, t)
  PROVE  IInv' /\ RoutesKept
<1>1. PICK q \in RequestRecord : /\ q = request[r] /\ Fits(q) /\ q.site \in Site /\ q.site = request[r].site
                                 /\ q.at \notin Idling => q.site \in open
  BY RequestIs
<1>2. PICK urls : urls = q.urls + 1
  OBVIOUS
<1>3. PICK w : w = [q EXCEPT !.urls = urls]
  OBVIOUS
<1>4. urls \in Nat
  BY <1>2, RecordFacts
<1>5. ButURLs(q, w)
  BY ONLY q \in RequestRecord, <1>3, <1>4 DEF RequestRecord, ButURLs, SameHoldings
<1>6. PICK key : key = [target |-> t, depth |-> DepthOf(w, t)]
  OBVIOUS
<1>7. w.depth \in 0..MaxDepth /\ w.depth = q.depth
  BY <1>5, RecordFacts DEF ButURLs
<1>8. key \in [target : Target, depth : Nat] /\ key.depth <= w.depth + 1
  BY <1>6, <1>7, LimitAssumption DEF DepthOf
<1>9. /\ q.at = "rewriting" /\ UNCHANGED <<open, book, issued, occupied>>
      /\ IF key.depth > 1
           THEN /\ Become(r, [w EXCEPT !.at = "looking", !.key = [key EXCEPT !.depth = 1]])
                /\ UNCHANGED authorityVars
           ELSE MintFrom(r, w, key)
  BY <1>1, <1>2, <1>3, <1>6 DEF Discover, Where
<1>10. PICK b : b = book' /\ b = book
  BY <1>9
<1>11. BookFits(b, issued, UsesTable) /\ Thins(book, b) /\ q.site \in open
  BY <1>1, <1>9, <1>10, BookNow DEF Idling
<1>12. CASE key.depth > 1
  <2>1. PICK at, k : at = "looking" /\ k = [key EXCEPT !.depth = 1]
    OBVIOUS
  <2>2. 1 \in 1..q.depth /\ k.depth = 1 /\ k.target = t
    BY <1>7, <1>8, <1>12, <2>1, <1>6
  <2>3. k \in Key /\ k \in [target : Target \union {Nothing}, depth : Nat] /\ at \in Places
    BY <1>6, <1>7, <2>1, <2>2, LimitAssumption DEF Key, Places
  <2>4. PICK m : m = [w EXCEPT !.at = at, !.key = k]
    OBVIOUS
  <2>5. w \in RequestRecord
    BY <1>5 DEF ButURLs
  <2>6. /\ m \in RequestRecord /\ m.at = at /\ m.key = k /\ SameHoldings(w, m) /\ m.doing = w.doing
        /\ m.served = w.served /\ m.lost = w.lost /\ m.depth = w.depth
    BY ONLY <2>3, <2>4, <2>5 DEF RequestRecord, SameHoldings
  <2>7. SameHoldings(q, m) /\ m.doing = q.doing /\ m.served = q.served /\ m.lost = q.lost /\ m.depth = q.depth
    BY <1>5, <2>6 DEF ButURLs, SameHoldings
  <2>8. Fits(m)
    BY <1>1, <1>9, <2>1, <2>2, <2>3, <2>6, <2>7 DEF SameHoldings, Fits, ReservationFits, DoingFits, TokensFit, SlotsFit,
              ForgetsNothing, Idling, Rewriting, Minting, Nothing
  <2>9. Equal(q, m)
    BY <2>7, EqualHoldings
  <2>10. Become(r, m) /\ UNCHANGED authorityVars
    BY <1>9, <1>12, <2>1, <2>4
  <2>11. MayBecome(r, m)
    BY <1>1, <1>9, <1>11, <2>6, <2>8, <2>9, <2>10, BecomesIt DEF Equal
  <2>12. UNCHANGED <<authorityVars, book, issued, occupied>>
    BY <1>9, <2>10
  <2> QED
    BY <1>1, <2>9, <2>11, <2>12, AloneStep
<1>13. CASE ~(key.depth > 1)
  BY <1>1, <1>5, <1>8, <1>9, <1>10, <1>11, <1>13, MintFromStep
<1> QED
  BY <1>12, <1>13

\* A use of a token that is borrowed counts once more.
LEMMA BorrowingCounts ==
  ASSUME NEW q \in RequestRecord, q.token = NoToken, NEW m, m.minted = q.minted, NEW t \in Token, m.token = t
  PROVE  OneUseMore(q, m, t)
<1> SUFFICES ASSUME NEW x \in Token
             PROVE  /\ x = t => UsedBy(m, x) = UsedBy(q, x) + 1
                    /\ x # t => UsedBy(m, x) = UsedBy(q, x)
  BY DEF OneUseMore
<1>1. OneUse(q.token)[x] = 0 /\ (x = t => OneUse(t)[x] = 1) /\ (x # t => OneUse(t)[x] = 0)
  BY NoUse, OneUseIs
<1>2. PICK u, v : u = Count(q.minted, x) /\ v = OneUse(t)[x]
  OBVIOUS
<1>3. u \in Nat
  BY <1>2, RecordFacts, CountIsFinite
<1>4. UsedBy(q, x) = u + 0 /\ UsedBy(m, x) = u + v
  BY <1>1, <1>2 DEF UsedBy
<1> QED
  BY ONLY <1>1, <1>2, <1>3, <1>4

\* A shallower capability of the manifest is found.
LEMMA ShallowerFits ==
  ASSUME NEW q \in RequestRecord, Fits(q), q.at = "looking", NEW t \in Token, NEW m,
         m = IF Trusted(q.key.target) THEN Given([q EXCEPT !.doing = "rewrite"], t)
             ELSE [q EXCEPT !.at = "borrowing", !.doing = "borrow", !.token = t]
  PROVE  m \in RequestRecord /\ Fits(m) /\ ButTokens(q, m) /\ m.res = q.res /\ OneUseMore(q, m, t)
<1>1. /\ q.half = Nothing /\ q.res = Nothing /\ q.token = NoToken /\ q.doing \in {"rewrite", "borrow"}
      /\ OneWay => q.lost = NothingLost
  BY DEF Fits, ReservationFits, DoingFits, TokensFit, SlotsFit, ForgetsNothing, Idling, Rewriting, Nothing
<1>2. CASE Trusted(q.key.target)
  <2>1. PICK doing \in Doings : doing = "rewrite"
    BY DEF Doings
  <2>2. PICK w : w = [q EXCEPT !.doing = doing]
    OBVIOUS
  <2>3. /\ w \in RequestRecord /\ w.doing = doing /\ SameHoldings(q, w) /\ w.lost = q.lost
    BY ONLY q \in RequestRecord, <2>2, doing \in Doings DEF RequestRecord, SameHoldings
  <2>4. MayMint(w) /\ w.res = Nothing /\ w.token = NoToken
    BY <1>1, <2>1, <2>3 DEF MayMint, SameHoldings
  <2>5. m = Given(w, t)
    BY <1>2, <2>1, <2>2
  <2>6. /\ m \in RequestRecord /\ Fits(m) /\ ButTokens(w, m) /\ m.res = Nothing
        /\ m.token = NoToken /\ m.minted = Append(w.minted, t)
    BY ZenonT(60), <2>4, <2>5, GivenFits DEF IsGiven
  <2>7. OneUseMore(w, m, t)
    BY <2>3, <2>4, <2>6, GivenCounts
  <2> QED
    BY <1>1, <2>3, <2>6, <2>7 DEF SameHoldings, ButTokens, OneUseMore, UsedBy
<1>3. CASE ~Trusted(q.key.target)
  <2>1. PICK at, doing, y : /\ at = "borrowing" /\ doing = "borrow" /\ y = t
                            /\ m = [q EXCEPT !.at = at, !.doing = doing, !.token = y]
    BY <1>3
  <2>2. at \in Places /\ doing \in Doings /\ y \in SomeToken /\ t # NoToken
    BY <2>1, LimitAssumption DEF Places, Doings, SomeToken, Token, NoToken
  <2>3. /\ m \in RequestRecord /\ m.at = at /\ m.doing = doing /\ m.token = y /\ m.minted = q.minted /\ m.res = q.res
        /\ m.site = q.site /\ m.own = q.own /\ m.lease = q.lease
        /\ m.stream = q.stream /\ m.parse = q.parse /\ m.half = q.half
        /\ m.served = q.served /\ m.lost = q.lost /\ m.key = q.key /\ m.depth = q.depth
    BY ONLY q \in RequestRecord, <2>1, <2>2 DEF RequestRecord
  <2>4. Fits(m)
    BY <1>1, <1>3, <2>1, <2>2, <2>3 DEF Fits, ReservationFits, DoingFits, TokensFit, SlotsFit, ForgetsNothing,
                    Idling, Rewriting, Minting, Nothing
  <2>5. OneUseMore(q, m, t)
    BY <1>1, <2>1, <2>3, BorrowingCounts
  <2> QED
    BY <2>3, <2>4, <2>5 DEF ButTokens
<1> QED
  BY <1>2, <1>3

\* The token of a key is borrowed from book c (reuseCapability, registerCapability).
LEMMA TakesAUse ==
  ASSUME IInv, NEW r \in Request, NEW q \in RequestRecord, q = request[r],
         NEW t \in Token, NEW m, MayBecome(r, m), ButTokens(q, m), m.res = q.res, OneUseMore(q, m, t),
         UNCHANGED <<authorityVars, issued, occupied>>,
         NEW c, BookFits(c, issued, UsesTable), Thins(book, c), t \in TokenOf(c, q.site, q.key), q.site \in Site,
         book' = Borrowed(c, q.site, t)
  PROVE  IInv' /\ RoutesKept
<1>1. SameHeld(r, m) /\ SameSlots(r, m)
  BY TokensAside
<1>2. PICK n, uses, s, k : n = issued /\ uses = UsesTable /\ s = q.site /\ k = q.key
  OBVIOUS
<1>3. n \in 0..MaxToken /\ BookFits(c, n, uses) /\ s \in Site /\ t \in TokenOf(c, s, k)
  BY <1>2 DEF IInv
<1>4. Registered(c, s, t)
  BY <1>3, TokenOfKey
<1>5. \A y \in Token : /\ y = t => UsedBy(m, y) = UsedBy(request[r], y) + 1
                       /\ y # t => UsedBy(m, y) = UsedBy(request[r], y)
  BY DEF OneUseMore
<1>6. Registered(c, request[r].site, t) /\ book' = Borrowed(c, request[r].site, t)
  BY <1>2, <1>4
<1> QED
  BY <1>1, <1>5, <1>6, BorrowStep

\* The tokens of a key are tokens.
LEMMA TokensOfKey ==
  ASSUME IInv, NEW c, BookFits(c, issued, UsesTable), NEW s \in Site, NEW k
  PROVE  TokenOf(c, s, k) \subseteq Token /\ Reusable(c, s, k) \subseteq TokenOf(c, s, k)
<1>1. PICK n, uses : n = issued /\ uses = UsesTable /\ n \in 0..MaxToken /\ BookFits(c, n, uses)
  BY DEF IInv
<1>2. \A t \in TokenOf(c, s, k) : t \in Token
  BY <1>1, TokenOfKey
<1> QED
  BY <1>2 DEF Reusable

\* reuseShallowTrustedManifest and reuseShallowDynamicManifest.
LEMMA LookShallowerStep ==
  ASSUME IInv, NEW r \in Request, UNCHANGED events, LookShallower(r)
  PROVE  IInv' /\ RoutesKept
<1>1. PICK q \in RequestRecord : /\ q = request[r] /\ Fits(q) /\ q.site \in Site /\ q.site = request[r].site
                                 /\ q.at \notin Idling => q.site \in open
  BY RequestIs
<1>2. q.at = "looking" /\ q.site \in open /\ UNCHANGED <<open, issued, occupied>>
  BY <1>1 DEF LookShallower, Where, Idling
<1>3. PICK due \in BOOLEAN :
        LET b == Pruned(due)
        IN \/ \E t \in Reusable(b, q.site, q.key) :
                /\ book' = Borrowed(b, q.site, t)
                /\ Become(r, IF Trusted(q.key.target) THEN Given([q EXCEPT !.doing = "rewrite"], t)
                             ELSE [q EXCEPT !.at = "borrowing", !.doing = "borrow", !.token = t])
                /\ UNCHANGED authorityVars
           \/ /\ Reusable(b, q.site, q.key) = {}
              /\ book' = Unmapped(b, q.site, q.key)
              /\ IF q.key.depth < q.depth
                   THEN Become(r, [q EXCEPT !.key.depth = @ + 1]) /\ UNCHANGED authorityVars
                   ELSE MintFrom(r, q, [q.key EXCEPT !.depth = @ + 1])
  BY <1>1 DEF LookShallower
<1>4. PICK c : c = Pruned(due)
  OBVIOUS
<1>5. BookFits(c, issued, UsesTable) /\ Thins(book, c)
  BY <1>4, BookNow
<1>6. ASSUME NEW t \in Reusable(c, q.site, q.key), book' = Borrowed(c, q.site, t), UNCHANGED authorityVars,
             Become(r, IF Trusted(q.key.target) THEN Given([q EXCEPT !.doing = "rewrite"], t)
                       ELSE [q EXCEPT !.at = "borrowing", !.doing = "borrow", !.token = t])
      PROVE  IInv' /\ RoutesKept
  <2>1. t \in Token /\ t \in TokenOf(c, q.site, q.key)
    BY <1>1, <1>5, <1>6, TokensOfKey
  <2>2. PICK m : m = IF Trusted(q.key.target) THEN Given([q EXCEPT !.doing = "rewrite"], t)
                     ELSE [q EXCEPT !.at = "borrowing", !.doing = "borrow", !.token = t]
    OBVIOUS
  <2>3. m \in RequestRecord /\ Fits(m) /\ ButTokens(q, m) /\ m.res = q.res /\ OneUseMore(q, m, t)
    BY ZenonT(60), <1>1, <1>2, <2>1, <2>2, ShallowerFits
  <2>4. MayBecome(r, m)
    BY <1>1, <1>2, <1>6, <2>2, <2>3, BecomesIt DEF ButTokens
  <2>5. UNCHANGED <<authorityVars, issued, occupied>>
    BY <1>2, <1>6
  <2> QED
    BY <1>1, <1>5, <1>6, <2>1, <2>3, <2>4, <2>5, TakesAUse
<1>7. ASSUME Reusable(c, q.site, q.key) = {}, book' = Unmapped(c, q.site, q.key),
             IF q.key.depth < q.depth
               THEN Become(r, [q EXCEPT !.key.depth = @ + 1]) /\ UNCHANGED authorityVars
               ELSE MintFrom(r, q, [q.key EXCEPT !.depth = @ + 1])
      PROVE  IInv' /\ RoutesKept
  <2>1. PICK b : b = book'
    OBVIOUS
  <2>2. BookFits(b, issued, UsesTable) /\ Thins(book, b)
    BY <1>1, <1>4, <1>7, <2>1, UnmappedNow
  <2>3. q.key \in Key /\ q.key.depth \in 1..q.depth /\ q.depth \in 0..MaxDepth
    BY <1>1, <1>2, RecordFacts DEF Fits, ReservationFits
  <2>4. PICK d, k : d = q.key.depth + 1 /\ k = [q.key EXCEPT !.depth = d]
    OBVIOUS
  <2>5. k \in [target : Target, depth : Nat] /\ k.target = q.key.target /\ k.depth = d /\ d \in Nat
    BY <2>3, <2>4, LimitAssumption DEF Key
  <2>6. CASE q.key.depth < q.depth
    <3>1. d \in 1..q.depth /\ d \in 0..MaxDepth
      <4>1. PICK e, x : e = q.depth /\ x = q.key.depth
        OBVIOUS
      <4>2. x \in 1..e /\ e \in 0..MaxDepth /\ x < e /\ d = x + 1 /\ MaxDepth \in Nat
        BY <2>3, <2>4, <2>6, <4>1, LimitAssumption
      <4>3. d \in 1..e /\ d \in 0..MaxDepth
        BY ONLY <4>2
      <4> QED
        BY <4>1, <4>3
    <3>2. k \in Key /\ k \in [target : Target \union {Nothing}, depth : Nat]
      BY <2>3, <2>4, <2>5, <3>1 DEF Key
    <3>3. PICK m : m = [q EXCEPT !.key = k]
      OBVIOUS
    <3>4. Become(r, m)
      <4>1. [q EXCEPT !.key.depth = @ + 1] = [q EXCEPT !.key = k]
        BY <2>4
      <4> QED
        BY <1>7, <2>6, <3>3, <4>1
    <3>5. /\ m \in RequestRecord /\ m.key = k /\ SameHoldings(q, m) /\ m.doing = q.doing /\ m.at = q.at
          /\ m.served = q.served /\ m.lost = q.lost /\ m.depth = q.depth
      BY ONLY q \in RequestRecord, <3>2, <3>3 DEF RequestRecord, SameHoldings
    <3>6. Fits(m)
      BY <1>1, <1>2, <2>5, <3>1, <3>2, <3>5 DEF SameHoldings, Fits, ReservationFits, DoingFits, TokensFit, SlotsFit,
              ForgetsNothing, Idling, Rewriting, Minting, Nothing
    <3>7. Equal(q, m)
      BY <3>5, EqualHoldings
    <3>8. MayBecome(r, m)
      BY <1>1, <1>2, <3>4, <3>5, <3>6, <3>7, BecomesIt DEF Equal
    <3>9. SameHeld(r, m) /\ SameSlots(r, m) /\ SameUses(r, m)
      BY <1>1, <3>7, EqualIsSame
    <3>10. UNCHANGED <<authorityVars, issued, occupied>>
      BY <1>2, <1>7, <2>6
    <3> QED
      BY <2>1, <2>2, <3>8, <3>9, <3>10, QuietStep
  <2>7. CASE ~(q.key.depth < q.depth)
    <3>1. MintFrom(r, q, k)
      BY <1>7, <2>4, <2>7
    <3>2. ButURLs(q, q)
      BY DEF ButURLs, SameHoldings
    <3> QED
      BY <1>1, <1>2, <2>1, <2>2, <2>5, <3>1, <3>2, MintFromStep
  <2> QED
    BY <2>6, <2>7
<1> QED
  BY <1>3, <1>4, <1>6, <1>7

\* reuseCapability, for a target that is minted.
LEMMA MintReusesStep ==
  ASSUME IInv, NEW r \in Request, UNCHANGED events, MintReuses(r)
  PROVE  IInv' /\ RoutesKept
<1>1. PICK q \in RequestRecord : /\ q = request[r] /\ Fits(q) /\ q.site \in Site /\ q.site = request[r].site
                                 /\ q.at \notin Idling => q.site \in open
  BY RequestIs
<1>2. q.at = "minting" /\ q.site \in open /\ UNCHANGED <<open, authorityVars, issued, occupied>>
  BY <1>1 DEF MintReuses, Where, Idling
<1>3. PICK due \in BOOLEAN : \E t \in Reusable(Pruned(due), q.site, q.key) :
        book' = Borrowed(Pruned(due), q.site, t) /\ Become(r, GivenAnothers(q, t))
  BY <1>1 DEF MintReuses
<1>4. PICK c : c = Pruned(due)
  OBVIOUS
<1>5. BookFits(c, issued, UsesTable) /\ Thins(book, c)
  BY <1>4, BookNow
<1>6. PICK t \in Reusable(c, q.site, q.key) : book' = Borrowed(c, q.site, t) /\ Become(r, GivenAnothers(q, t))
  BY <1>3, <1>4
<1>7. t \in Token /\ t \in TokenOf(c, q.site, q.key)
  BY <1>1, <1>5, <1>6, TokensOfKey
<1>8. PICK m : m = GivenAnothers(q, t)
  OBVIOUS
<1>9. m \in RequestRecord /\ Fits(m) /\ ButTokens(q, m) /\ m.res = q.res /\ OneUseMore(q, m, t)
  BY <1>1, <1>2, <1>7, <1>8, GivenAnothersFits
<1>10. MayBecome(r, m)
  BY <1>1, <1>2, <1>6, <1>8, <1>9, BecomesIt DEF ButTokens
<1> QED
  BY <1>1, <1>2, <1>5, <1>6, <1>7, <1>9, <1>10, TakesAUse

\* What a request has once its own token is registered.
Registers(q, t, m) == m = [Given(q, t) EXCEPT !.res = Nothing]

\* Its reservation becomes that of the token.
HandsOver(q, m) ==
  /\ q.key \in Key /\ ((q.res # Nothing) = ~Trusted(q.key.target))
  /\ \A a \in Authority :
       /\ q.res # Nothing /\ a = AuthorityOf[q.key.target] => HeldOf(m, a) + 1 = HeldOf(q, a)
       /\ ~(q.res # Nothing /\ a = AuthorityOf[q.key.target]) => HeldOf(m, a) = HeldOf(q, a)

LEMMA RegisteredFits ==
  ASSUME NEW q \in RequestRecord, Fits(q), q.at = "registering", NEW t \in Token,
         NEW m, Registers(q, t, m)
  PROVE  /\ m \in RequestRecord /\ Fits(m) /\ ButTokens(q, m) /\ OneUseMore(q, m, t)
         /\ HandsOver(q, m)
<1>1. MayMint(q) /\ q.token = NoToken
  BY MintingMayMint
<1>2. /\ m \in RequestRecord /\ Fits(m) /\ ButTokens(q, m) /\ m.res = Nothing
      /\ m.token = NoToken /\ m.minted = Append(q.minted, t)
  <2>1. IsGiven(q, t, m)
    BY DEF Registers, IsGiven
  <2> QED
    BY <1>1, <2>1, GivenFits
<1>3. OneUseMore(q, m, t)
  BY <1>1, <1>2, GivenCounts
<1>4. q.key \in Key /\ q.res = IF Trusted(q.key.target) THEN Nothing ELSE AuthorityOf[q.key.target]
  BY DEF Fits, ReservationFits
<1>5. ~Trusted(q.key.target) => AuthorityOf[q.key.target] # Nothing
  <2>1. q.key.target \in Target
    BY <1>4 DEF Key
  <2> QED
    BY <2>1, TargetAssumption, RequestAssumption DEF Trusted
<1>6. (q.res # Nothing) = ~Trusted(q.key.target)
  BY <1>4, <1>5
<1>7. ASSUME NEW a \in Authority
      PROVE  /\ q.res # Nothing /\ a = AuthorityOf[q.key.target] => HeldOf(m, a) + 1 = HeldOf(q, a)
             /\ ~(q.res # Nothing /\ a = AuthorityOf[q.key.target]) => HeldOf(m, a) = HeldOf(q, a)
  <2>1. PICK u, v, w : u = One(q.own)[a] /\ v = One(q.res)[a] /\ w = Count(q.lease, a)
    OBVIOUS
  <2>2. u \in Nat /\ v \in Nat /\ (a = q.res => v = 1) /\ (a # q.res => v = 0)
    BY <2>1, OneIs
  <2>3. w \in Nat
    BY <2>1, RecordFacts, CountIsFinite
  <2>4. HeldOf(q, a) = u + v + w /\ HeldOf(m, a) = u + 0 + w
    BY <2>1, <1>2, NothingIsNone DEF HeldOf, ButTokens
  <2>5. a = q.res <=> q.res # Nothing /\ a = AuthorityOf[q.key.target]
    BY <1>4, <1>5, RequestAssumption
  <2> QED
    BY <2>2, <2>3, <2>4, <2>5
<1> QED
  BY <1>2, <1>3, <1>4, <1>6, <1>7 DEF HandsOver

\* registerCapability.
LEMMA RegisterStep ==
  ASSUME IInv, NEW r \in Request, UNCHANGED events, Register(r)
  PROVE  IInv' /\ RoutesKept
<1>1. PICK q \in RequestRecord : /\ q = request[r] /\ Fits(q) /\ q.site \in Site /\ q.site = request[r].site
                                 /\ q.at \notin Idling => q.site \in open
  BY RequestIs
<1>2. q.at = "registering" /\ q.site \in open /\ UNCHANGED <<open, authorityVars, occupied>>
  BY <1>1 DEF Register, Where, Idling
<1>3. PICK due \in BOOLEAN :
        LET b == Pruned(due)
            others == TokenOf(b, q.site, q.key)
        IN \/ \E t \in others :
                /\ book' = Joined(b, q.site, t)
                /\ Become(r, GivenAnothers(q, t))
                /\ UNCHANGED issued
           \/ /\ others = {} /\ HasRoom(b, q.site) /\ issued < MaxToken
              /\ issued' = issued + 1
              /\ book' = Added(b, q.site, q.key, issued + 1, q.res # Nothing)
              /\ Become(r, [Given(q, issued + 1) EXCEPT !.res = Nothing])
           \/ /\ others = {}
              /\ book' = b
              /\ Become(r, Refused(q))
              /\ UNCHANGED issued
  BY <1>1 DEF Register
<1>4. PICK c : c = Pruned(due)
  OBVIOUS
<1>5. BookFits(c, issued, UsesTable) /\ Thins(book, c)
  BY <1>4, BookNow
<1>6. ASSUME NEW t \in TokenOf(c, q.site, q.key), book' = Joined(c, q.site, t), Become(r, GivenAnothers(q, t)),
             UNCHANGED issued
      PROVE  IInv' /\ RoutesKept
  <2>1. t \in Token /\ t \in TokenOf(c, q.site, q.key) /\ book' = Borrowed(c, q.site, t)
    BY <1>1, <1>5, <1>6, TokensOfKey DEF Joined
  <2>2. PICK m : m = GivenAnothers(q, t)
    OBVIOUS
  <2>3. m \in RequestRecord /\ Fits(m) /\ ButTokens(q, m) /\ m.res = q.res /\ OneUseMore(q, m, t)
    BY <1>1, <1>2, <2>1, <2>2, GivenAnothersFits
  <2>4. MayBecome(r, m)
    BY <1>1, <1>2, <1>6, <2>2, <2>3, BecomesIt DEF ButTokens
  <2>5. UNCHANGED <<authorityVars, issued, occupied>>
    BY <1>2, <1>6
  <2> QED
    BY <1>1, <1>5, <2>1, <2>3, <2>4, <2>5, TakesAUse
<1>7. ASSUME TokenOf(c, q.site, q.key) = {}, issued < MaxToken, issued' = issued + 1,
             book' = Added(c, q.site, q.key, issued + 1, q.res # Nothing),
             Become(r, [Given(q, issued + 1) EXCEPT !.res = Nothing])
      PROVE  IInv' /\ RoutesKept
  <2>1. issued + 1 \in Token
    BY <1>7, LimitAssumption DEF IInv, Token
  <2>2. PICK t \in Token : t = issued + 1
    BY <2>1
  <2>3. PICK m : m = [Given(q, t) EXCEPT !.res = Nothing]
    OBVIOUS
  <2>4. PICK holds \in BOOLEAN : holds = (q.res # Nothing)
    OBVIOUS
  <2>5. PICK k : k = q.key
    OBVIOUS
  <2>6. /\ m \in RequestRecord /\ Fits(m) /\ ButTokens(q, m) /\ OneUseMore(q, m, t)
        /\ k \in Key /\ holds = ~Trusted(k.target)
        /\ \A a \in Authority :
             /\ holds /\ a = AuthorityOf[k.target] => HeldOf(m, a) + 1 = HeldOf(q, a)
             /\ ~(holds /\ a = AuthorityOf[k.target]) => HeldOf(m, a) = HeldOf(q, a)
    <3>1. Registers(q, t, m)
      BY <2>3 DEF Registers
    <3>2. /\ m \in RequestRecord /\ Fits(m) /\ ButTokens(q, m) /\ OneUseMore(q, m, t)
          /\ HandsOver(q, m)
      BY <1>1, <1>2, <3>1, RegisteredFits
    <3> QED
      BY <2>4, <2>5, <3>2 DEF HandsOver
  <2>7. MayBecome(r, m)
    BY <1>1, <1>2, <1>7, <2>2, <2>3, <2>6, BecomesIt DEF ButTokens
  <2>8. SameSlots(r, m)
    BY <1>1, <2>6 DEF ButTokens, SameSlots, Holds
  <2>9. UNCHANGED <<authorityVars, occupied>>
    BY <1>2
  <2>10. \A y \in Token : /\ y = issued + 1 => UsedBy(m, y) = UsedBy(request[r], y) + 1
                          /\ y # issued + 1 => UsedBy(m, y) = UsedBy(request[r], y)
    BY <1>1, <2>2, <2>6 DEF OneUseMore
  <2>11. \A a \in Authority :
           /\ holds /\ a = AuthorityOf[k.target] => HeldOf(m, a) + 1 = HeldOf(request[r], a)
           /\ ~(holds /\ a = AuthorityOf[k.target]) => HeldOf(m, a) = HeldOf(request[r], a)
    BY <1>1, <2>6
  <2>12. TokenOf(c, request[r].site, k) = {} /\ book' = Added(c, request[r].site, k, issued + 1, holds)
    BY <1>1, <1>7, <2>4, <2>5
  <2>13. issued < MaxToken /\ issued' = issued + 1 /\ k \in Key /\ holds = ~Trusted(k.target)
    BY <1>7, <2>6
  <2> QED
    BY <1>5, <2>7, <2>8, <2>9, <2>10, <2>11, <2>12, <2>13, AddStep
<1>8. ASSUME book' = c, Become(r, Refused(q)), UNCHANGED issued
      PROVE  IInv' /\ RoutesKept
  <2>1. PICK m : m = Refused(q)
    OBVIOUS
  <2>2. m \in RequestRecord /\ Fits(m) /\ Equal(q, m)
    BY <1>1, <1>2, <2>1, RefusedFits
  <2>3. MayBecome(r, m)
    BY <1>1, <1>2, <1>8, <2>1, <2>2, BecomesIt DEF Equal
  <2>4. SameHeld(r, m) /\ SameSlots(r, m) /\ SameUses(r, m)
    BY <1>1, <2>2, EqualIsSame
  <2>5. UNCHANGED <<authorityVars, issued, occupied>> /\ c = book'
    BY <1>2, <1>8
  <2> QED
    BY <1>5, <2>3, <2>4, <2>5, QuietStep
<1> QED
  BY <1>3, <1>4, <1>6, <1>7, <1>8

\* The answer of the resolver reaches a request (resolve).
LEMMA ResolvesStep ==
  ASSUME IInv, NEW r \in Request, UNCHANGED events, Resolve(r)
  PROVE  IInv' /\ RoutesKept
<1>1. PICK q \in RequestRecord : /\ q = request[r] /\ Fits(q) /\ q.site \in Site /\ q.site = request[r].site
                                 /\ q.at \notin Idling => q.site \in open
  BY RequestIs
<1>2. PICK a : a = q.res
  OBVIOUS
<1>3. /\ q.at = "resolving" /\ q.site \in open
      /\ authorities[q.site][a].resolution \in {"fresh", "known"}
      /\ authorities' = [authorities EXCEPT ![q.site][a].resolution = "known"]
      /\ Become(r, Resolved(q))
      /\ UNCHANGED <<open, known, newOf, newAll, book, issued, occupied>>
  BY <1>1, <1>2 DEF Resolve, Where, Idling
<1>4. a \in Authority /\ HeldOf(q, a) > 0
  <2>1. a \in Authority
    BY <1>1, <1>2, <1>3, RecordFacts DEF Fits, ReservationFits, SomeAuthority
  <2>2. One(q.own)[a] \in Nat /\ One(q.res)[a] = 1
    BY <1>2, <2>1, OneIs
  <2>3. Count(q.lease, a) \in Nat
    BY RecordFacts, CountIsFinite
  <2>4. PICK u, v : u = One(q.own)[a] /\ v = Count(q.lease, a)
    OBVIOUS
  <2>5. HeldOf(q, a) = u + 1 + v
    BY <2>2, <2>4 DEF HeldOf
  <2> QED
    BY <2>1, <2>2, <2>3, <2>4, <2>5
<1>5. PICK m : m = Resolved(q)
  OBVIOUS
<1>6. m \in RequestRecord /\ Fits(m) /\ Equal(q, m)
  BY <1>1, <1>3, <1>5, ResolvedFits
<1>7. MayBecome(r, m)
  BY <1>1, <1>3, <1>5, <1>6, BecomesIt DEF Equal
<1>8. SameHeld(r, m) /\ SameSlots(r, m) /\ SameUses(r, m)
  BY <1>1, <1>6, EqualIsSame
<1>9. /\ authorities[request[r].site][a].resolution # "none"
      /\ authorities' = [authorities EXCEPT ![request[r].site][a].resolution = "known"]
      /\ HeldOf(request[r], a) > 0
      /\ UNCHANGED <<known, newOf, newAll, book, issued, occupied>>
  BY <1>1, <1>3, <1>4
<1> QED
  BY <1>4, <1>7, <1>8, <1>9, ResolveStep

\* The resolver fails, for all who wait.
LEMMA ResolverFailsStep ==
  ASSUME IInv, NEW r \in Request, UNCHANGED events, ResolverFails(r)
  PROVE  IInv' /\ RoutesKept
<1>1. PICK q \in RequestRecord : /\ q = request[r] /\ Fits(q) /\ q.site \in Site /\ q.site = request[r].site
                                 /\ q.at \notin Idling => q.site \in open
  BY RequestIs
<1>2. PICK a : a = q.res
  OBVIOUS
<1>3. /\ q.at = "resolving" /\ q.site \in open
      /\ authorities[q.site][a].resolution = "fresh"
      /\ authorities' = [authorities EXCEPT ![q.site][a].resolution = "failed"]
      /\ UNCHANGED <<open, known, newOf, newAll, book, issued, occupied, request>>
  BY <1>1, <1>2 DEF ResolverFails, Where, Idling
<1>4. a \in Authority /\ HeldOf(q, a) > 0
  <2>1. a \in Authority
    BY <1>1, <1>2, <1>3, RecordFacts DEF Fits, ReservationFits, SomeAuthority
  <2>2. One(q.own)[a] \in Nat /\ One(q.res)[a] = 1
    BY <1>2, <2>1, OneIs
  <2>3. Count(q.lease, a) \in Nat
    BY RecordFacts, CountIsFinite
  <2>4. PICK u, v : u = One(q.own)[a] /\ v = Count(q.lease, a)
    OBVIOUS
  <2>5. HeldOf(q, a) = u + 1 + v
    BY <2>2, <2>4 DEF HeldOf
  <2> QED
    BY <2>1, <2>2, <2>3, <2>4, <2>5
<1>5. RequestsFit' /\ UsesTable' = UsesTable
  <2>1. RequestsFit /\ \A x \in Request : request[x].at \notin Idling => request[x].site \in open'
    BY <1>3 DEF IInv, RequestsFit
  <2> QED
    BY <1>3, <2>1, RequestsFitStill, RequestsStay
<1>6. Replaces(r, q)
  BY <1>1, <1>3 DEF Replaces, IInv, RequestsFit
<1>7. PICK x, h : x \in Site /\ x = q.site /\ h = HeldTable
  BY <1>1
<1>8. IsKnown(x, a)
  BY <1>1, <1>4, <1>6, <1>7, HeldIsKnown
<1>9. AuthoritiesTyped /\ KnownFits /\ InFlightFits(h) /\ UNCHANGED <<known, newOf, newAll>>
  BY <1>3, <1>7 DEF IInv, AuthoritiesFit
<1>10. /\ AuthoritiesTyped' /\ KnownFits' /\ InFlightFits(h)' /\ CommitsStay
       /\ \A z \in Site \ {x} : authorities'[z] = authorities[z]
  BY <1>3, <1>7, <1>8, <1>9, ResolutionFits
<1>11. PICK uses, b : uses = UsesTable' /\ b = book' /\ b = book
  BY <1>3
<1>12. BookFits(b, issued, uses) /\ Thins(book, b)
  BY <1>5, <1>11, ThinsSelf DEF IInv
<1>13. Equal(q, q)
  BY DEF Equal
<1>14. SameHeld(r, q) /\ SameSlots(r, q)
  BY <1>1, <1>13, EqualIsSame
<1>15. UNCHANGED <<open, events, issued, occupied>>
  BY <1>3
<1> QED
  BY <1>3, <1>5, <1>6, <1>7, <1>10, <1>11, <1>12, <1>14, <1>15, QuietParts

\* m holds no more than q does without one reservation for authority y, and
\* exactly that when nothing is forgotten.
LeavesOne(q, m, y) ==
  /\ \A a \in Authority :
       /\ HeldOf(m, a) + One(y)[a] <= HeldOf(q, a)
       /\ OneWay => HeldOf(m, a) + One(y)[a] = HeldOf(q, a)
  /\ \A t \in Token : UsedBy(m, t) = UsedBy(q, t)
  /\ m.half = q.half
  /\ \A l \in Pool :
       /\ Holds(m, l) => Holds(q, l)
       /\ OneWay => (Holds(q, l) => Holds(m, l))

\* A step that gives reservations back one at a time.
LEMMA FinishOne ==
  ASSUME IInv, NEW r \in Request, NEW q \in RequestRecord, q = request[r], NEW m, MayBecome(r, m),
         UNCHANGED <<book, issued, occupied>>, NEW y \in Authority, NEW commit \in BOOLEAN,
         FinishAuthorities(q.site, One(y), commit), LeavesOne(q, m, y)
  PROVE  IInv' /\ RoutesKept
<1>1. PICK n : n = One(y)
  OBVIOUS
<1>2. \A a \in Authority : /\ n[a] \in Nat /\ HeldOf(m, a) + n[a] <= HeldOf(request[r], a)
                           /\ OneWay => HeldOf(m, a) + n[a] = HeldOf(request[r], a)
  <2> SUFFICES ASSUME NEW a \in Authority
               PROVE  /\ n[a] \in Nat /\ HeldOf(m, a) + n[a] <= HeldOf(request[r], a)
                      /\ OneWay => HeldOf(m, a) + n[a] = HeldOf(request[r], a)
    OBVIOUS
  <2>1. /\ HeldOf(m, a) + One(y)[a] <= HeldOf(q, a)
        /\ OneWay => HeldOf(m, a) + One(y)[a] = HeldOf(q, a)
    BY DEF LeavesOne
  <2>2. One(y)[a] \in Nat
    BY OneIs
  <2> QED
    BY <1>1, <2>1, <2>2
<1>3. SameUses(r, m) /\ SameSlots(r, m)
  <2>1. m.half = q.half /\ \A t \in Token : UsedBy(m, t) = UsedBy(q, t)
    BY DEF LeavesOne
  <2>2. \A l \in Pool : /\ Holds(m, l) => Holds(q, l)
                        /\ OneWay => (Holds(q, l) => Holds(m, l))
    BY DEF LeavesOne
  <2> QED
    BY <2>1, <2>2 DEF SameUses, SameSlots
<1>4. FinishAuthorities(request[r].site, n, commit)
  BY <1>1
<1> QED
  BY <1>2, <1>3, <1>4, FinishStep

\* m holds what q does, but one reservation for authority y.
LetsOneGo(q, m, y) == \A a \in Authority : HeldOf(m, a) + One(y)[a] = HeldOf(q, a)

\* m has the uses, the pool and the slots of q.
SameOthers(q, m) ==
  /\ m.site = q.site /\ m.half = q.half
  /\ \A t \in Token : UsedBy(m, t) = UsedBy(q, t)
  /\ \A l \in Pool : Holds(m, l) = Holds(q, l)

LEMMA OneGoes ==
  ASSUME IInv, NEW r \in Request, NEW q \in RequestRecord, q = request[r], NEW m, MayBecome(r, m),
         UNCHANGED <<book, issued, occupied>>, NEW y \in Authority, NEW commit \in BOOLEAN,
         FinishAuthorities(q.site, One(y), commit), SameOthers(q, m), LetsOneGo(q, m, y)
  PROVE  IInv' /\ RoutesKept
<1>1. ASSUME NEW a \in Authority
      PROVE  /\ HeldOf(m, a) + One(y)[a] <= HeldOf(q, a)
             /\ OneWay => HeldOf(m, a) + One(y)[a] = HeldOf(q, a)
  <2>1. HeldOf(m, a) + One(y)[a] = HeldOf(q, a) /\ HeldOf(q, a) \in Nat
    BY TermsTyped DEF LetsOneGo
  <2> QED
    BY <2>1
<1>2. LeavesOne(q, m, y)
  BY <1>1 DEF LeavesOne, SameOthers
<1> QED
  BY <1>2, FinishOne

LEMMA DropsReservation ==
  ASSUME NEW q \in RequestRecord, NEW m, m.own = q.own, m.lease = q.lease, m.res = Nothing
  PROVE  LetsOneGo(q, m, q.res)
<1> SUFFICES ASSUME NEW a \in Authority PROVE HeldOf(m, a) + One(q.res)[a] = HeldOf(q, a)
  BY DEF LetsOneGo
<1>1. PICK u, v, w : u = One(q.own)[a] /\ v = One(q.res)[a] /\ w = Count(q.lease, a)
  OBVIOUS
<1>2. u \in Nat /\ v \in Nat
  BY <1>1, OneIs
<1>3. w \in Nat
  BY <1>1, RecordFacts, CountIsFinite
<1>4. HeldOf(q, a) = u + v + w /\ HeldOf(m, a) = u + 0 + w
  BY <1>1, NothingIsNone DEF HeldOf
<1> QED
  BY <1>1, <1>2, <1>3, <1>4

\* ResolveFails: it is rolled back, and a borrowed token is given back after it.
LEMMA ResolveFailsStep ==
  ASSUME IInv, NEW r \in Request, UNCHANGED events, ResolveFails(r)
  PROVE  IInv' /\ RoutesKept
<1>1. PICK q \in RequestRecord : /\ q = request[r] /\ Fits(q) /\ q.site \in Site /\ q.site = request[r].site
                                 /\ q.at \notin Idling => q.site \in open
  BY RequestIs
<1>2. /\ q.at = "resolving" /\ q.site \in open
      /\ FinishAuthorities(q.site, One(q.res), FALSE)
      /\ Become(r, Denied(q))
      /\ UNCHANGED <<open, book, issued, occupied>>
  BY <1>1 DEF ResolveFails, Where, Idling
<1>3. q.res \in Authority
  BY <1>1, <1>2, RecordFacts DEF Fits, ReservationFits, SomeAuthority
<1>4. PICK m : m = Denied(q)
  OBVIOUS
<1>5. q.token = NoToken => Bare(q)
  BY <1>1, <1>2 DEF Bare, Fits, DoingFits, TokensFit, SlotsFit, ForgetsNothing, Minting, Rewriting, Idling, Nothing
<1>6. q.token # NoToken => q.doing = "borrow" /\ q.half = Nothing /\ (OneWay => q.lost = NothingLost)
  BY <1>1, <1>2 DEF Fits, DoingFits, TokensFit, SlotsFit, ForgetsNothing, Minting, Rewriting, Idling, Nothing
<1>7. m \in RequestRecord /\ Fits(m) /\ ButReservation(q, m) /\ m.res = Nothing
  BY <1>4, <1>5, <1>6, DeniedFits
<1>8. LetsOneGo(q, m, q.res) /\ SameOthers(q, m)
  BY <1>7, DropsReservation DEF ButReservation, SameOthers, UsedBy, Holds
<1>9. MayBecome(r, m)
  BY <1>1, <1>2, <1>4, <1>7, BecomesIt DEF ButReservation
<1> QED
  BY <1>1, <1>2, <1>3, <1>8, <1>9, OneGoes

\* The token of another, with its own reservation rolled back.
LEMMA UndoneFits ==
  ASSUME NEW q \in RequestRecord, Fits(q), q.at \in {"undoing", "borrowed"}, NEW m, Registers(q, q.token, m)
  PROVE  /\ m \in RequestRecord /\ Fits(m) /\ LetsOneGo(q, m, q.res) /\ SameOthers(q, m)
         /\ m.res = Nothing /\ m.token = NoToken /\ m.at \in {"publishing", "rewriting"} /\ m.doing = q.doing
<1>1. PICK t : t = q.token
  OBVIOUS
<1>2. t \in Token
  BY <1>1, RecordFacts DEF Fits, TokensFit, SomeToken
<1>3. MayMint(q)
  BY DEF MayMint, Fits, DoingFits, TokensFit, SlotsFit, ForgetsNothing, Minting, Rewriting, Idling, Nothing
<1>4. IsGiven(q, t, m)
  BY <1>1 DEF Registers, IsGiven
<1>5. /\ m \in RequestRecord /\ Fits(m) /\ ButTokens(q, m) /\ m.res = Nothing
      /\ m.token = NoToken /\ m.minted = Append(q.minted, t)
      /\ m.at \in {"publishing", "rewriting"} /\ m.doing = q.doing
  BY <1>2, <1>3, <1>4, GivenFits
<1>6. \A y \in Token : UsedBy(m, y) = UsedBy(q, y)
  BY <1>1, <1>2, <1>5, GivenCounts
<1>7. LetsOneGo(q, m, q.res) /\ SameOthers(q, m)
  BY <1>5, <1>6, DropsReservation DEF ButTokens, SameOthers, Holds
<1> QED
  BY <1>5, <1>7

LEMMA MintUndoesStep ==
  ASSUME IInv, NEW r \in Request, UNCHANGED events, MintUndoes(r)
  PROVE  IInv' /\ RoutesKept
<1>1. PICK q \in RequestRecord : /\ q = request[r] /\ Fits(q) /\ q.site \in Site /\ q.site = request[r].site
                                 /\ q.at \notin Idling => q.site \in open
  BY RequestIs
<1>2. PICK m : m = IF q.at = "refused" THEN Failing(q) ELSE [Given(q, q.token) EXCEPT !.res = Nothing]
  OBVIOUS
<1>3. /\ q.at \in {"undoing", "refused"} /\ q.site \in open
      /\ FinishAuthorities(q.site, One(q.res), FALSE)
      /\ Become(r, m)
      /\ UNCHANGED <<open, book, issued, occupied>>
  BY <1>1, <1>2 DEF MintUndoes, Where, Idling
<1>4. q.res \in Authority
  BY <1>1, <1>3, RecordFacts DEF Fits, ReservationFits, SomeAuthority
<1>5. m \in RequestRecord /\ Fits(m) /\ LetsOneGo(q, m, q.res) /\ SameOthers(q, m)
  <2>1. CASE q.at = "refused"
    <3>1. Bare(q)
      BY <1>1, <2>1 DEF Bare, Fits, DoingFits, TokensFit, SlotsFit, ForgetsNothing, Minting, Rewriting, Idling, Nothing
    <3>2. m = Failing(q)
      BY <1>2, <2>1
    <3>3. m \in RequestRecord /\ Fits(m) /\ ButReservation(q, m) /\ m.res = Nothing
      BY <3>1, <3>2, FailingFits
    <3> QED
      BY <3>3, DropsReservation DEF ButReservation, SameOthers, UsedBy, Holds
  <2>2. CASE q.at = "undoing"
    <3>1. Registers(q, q.token, m)
      BY <1>2, <2>2 DEF Registers
    <3> QED
      BY <1>1, <2>2, <3>1, UndoneFits
  <2> QED
    BY <1>3, <2>1, <2>2
<1>6. MayBecome(r, m)
  BY <1>1, <1>3, <1>5, BecomesIt DEF SameOthers
<1> QED
  BY <1>1, <1>3, <1>4, <1>5, <1>6, OneGoes

\* The reservation made for a borrowed token has served its purpose.
LEMMA KeepBorrowedStep ==
  ASSUME IInv, NEW r \in Request, UNCHANGED events, KeepBorrowed(r)
  PROVE  IInv' /\ RoutesKept
<1>1. PICK q \in RequestRecord : /\ q = request[r] /\ Fits(q) /\ q.site \in Site /\ q.site = request[r].site
                                 /\ q.at \notin Idling => q.site \in open
  BY RequestIs
<1>2. PICK p : p = [Given(q, q.token) EXCEPT !.res = Nothing]
  OBVIOUS
<1>3. PICK doing \in Doings : doing = "rewrite"
  BY DEF Doings
<1>4. PICK m : m = [p EXCEPT !.doing = doing]
  OBVIOUS
<1>5. [Given(q, q.token) EXCEPT !.res = Nothing, !.doing = "rewrite"] = m
  BY <1>2, <1>3, <1>4
<1>6. /\ q.at = "borrowed" /\ q.site \in open
      /\ FinishAuthorities(q.site, One(q.res), FALSE)
      /\ Become(r, m)
      /\ UNCHANGED <<open, book, issued, occupied>>
  BY <1>1, <1>5 DEF KeepBorrowed, Where, Idling
<1>7. q.res \in Authority /\ q.doing = "borrow"
  BY <1>1, <1>6, RecordFacts DEF Fits, ReservationFits, DoingFits, SomeAuthority
<1>8. /\ p \in RequestRecord /\ Fits(p) /\ LetsOneGo(q, p, q.res) /\ SameOthers(q, p)
      /\ p.res = Nothing /\ p.token = NoToken /\ p.at \in {"publishing", "rewriting"} /\ p.doing = "borrow"
  <2>1. Registers(q, q.token, p)
    BY <1>2 DEF Registers
  <2> QED
    BY <1>1, <1>6, <1>7, <2>1, UndoneFits
<1>9. /\ m \in RequestRecord /\ m.doing = doing /\ SameHoldings(p, m)
      /\ m.at = p.at /\ m.served = p.served /\ m.lost = p.lost /\ m.key = p.key /\ m.depth = p.depth
  BY ONLY ZenonT(60), <1>4, <1>8, doing \in Doings DEF RequestRecord, SameHoldings
<1>10. Fits(m)
  BY <1>3, <1>8, <1>9 DEF SameHoldings, Fits, ReservationFits, DoingFits, TokensFit, SlotsFit, ForgetsNothing,
              Idling, Rewriting, Minting, Nothing
<1>11. LetsOneGo(q, m, q.res) /\ SameOthers(q, m)
  BY <1>8, <1>9 DEF SameHoldings, LetsOneGo, HeldOf, SameOthers, UsedBy, Holds
<1>12. MayBecome(r, m)
  BY <1>1, <1>6, <1>9, <1>10, <1>11, BecomesIt DEF SameOthers
<1> QED
  BY <1>1, <1>6, <1>7, <1>11, <1>12, OneGoes

\* A redirect whose target the client is sent to (mainVideoDirect).
LEMMA CommitDirectStep ==
  ASSUME IInv, NEW r \in Request, UNCHANGED events, CommitDirect(r)
  PROVE  IInv' /\ RoutesKept
<1>1. PICK q \in RequestRecord : /\ q = request[r] /\ Fits(q) /\ q.site \in Site /\ q.site = request[r].site
                                 /\ q.at \notin Idling => q.site \in open
  BY RequestIs
<1>2. PICK z \in SomeAuthority : z = Nothing
  BY DEF SomeAuthority
<1>3. PICK w : w = [q EXCEPT !.res = z]
  OBVIOUS
<1>4. PICK m : m = Forget(w)
  OBVIOUS
<1>5. /\ q.at = "direct" /\ q.site \in open
      /\ FinishAuthorities(q.site, One(q.res), TRUE)
      /\ Become(r, m)
      /\ UNCHANGED <<open, book, issued, occupied>>
  BY <1>1, <1>2, <1>3, <1>4 DEF CommitDirect, Where, Idling
<1>6. q.res \in Authority /\ q.doing = "direct"
  BY <1>1, <1>5, RecordFacts DEF Fits, ReservationFits, DoingFits, SomeAuthority
<1>7. /\ w \in RequestRecord /\ w.res = z /\ ButReservation(q, w)
      /\ w.at = q.at /\ w.doing = q.doing /\ w.served = q.served /\ w.lost = q.lost /\ w.depth = q.depth
  BY ONLY <1>1, <1>3, z \in SomeAuthority DEF RequestRecord, ButReservation
<1>8. MayLeave(w)
  BY <1>1, <1>2, <1>5, <1>6, <1>7 DEF ButReservation, MayLeave, Fits, ReservationFits, DoingFits, TokensFit, SlotsFit,
              ForgetsNothing, Idling, Rewriting, Minting, Nothing
<1>9. LetsOneGo(q, w, q.res)
  BY <1>2, <1>7, DropsReservation DEF ButReservation
<1>10. /\ m \in RequestRecord /\ Fits(m) /\ m.site = w.site /\ m.half = w.half
       /\ \A a \in Authority : /\ HeldOf(m, a) <= HeldOf(w, a)
                               /\ OneWay => HeldOf(m, a) = HeldOf(w, a)
       /\ \A t \in Token : UsedBy(m, t) = UsedBy(w, t)
       /\ \A l \in Pool : Holds(m, l) => Holds(w, l)
       /\ OneWay => \A l \in Pool : Holds(w, l) => Holds(m, l)
  BY <1>4, <1>8, ForgetFits
<1>11. ASSUME NEW a \in Authority
       PROVE  /\ HeldOf(m, a) + One(q.res)[a] <= HeldOf(q, a)
              /\ OneWay => HeldOf(m, a) + One(q.res)[a] = HeldOf(q, a)
  <2>1. HeldOf(m, a) \in Nat /\ HeldOf(w, a) \in Nat /\ One(q.res)[a] \in Nat
    BY <1>7, <1>10, TermsTyped, OneIs
  <2>2. HeldOf(w, a) + One(q.res)[a] = HeldOf(q, a)
    BY <1>9 DEF LetsOneGo
  <2>3. PICK u, v, x : u = HeldOf(m, a) /\ v = HeldOf(w, a) /\ x = One(q.res)[a]
    OBVIOUS
  <2> QED
    BY <1>10, <2>1, <2>2, <2>3
<1>12. /\ m.half = q.half /\ m.site = q.site /\ \A t \in Token : UsedBy(m, t) = UsedBy(q, t)
       /\ \A l \in Pool : /\ Holds(m, l) => Holds(q, l)
                          /\ OneWay => (Holds(q, l) => Holds(m, l))
  BY <1>7, <1>10 DEF ButReservation, UsedBy, Holds
<1>13. MayBecome(r, m)
  BY <1>1, <1>5, <1>10, <1>12, BecomesIt
<1>14. LeavesOne(q, m, q.res)
  BY <1>11, <1>12 DEF LeavesOne
<1> QED
  BY <1>1, <1>5, <1>6, <1>13, <1>14, FinishOne

\* What is at its end stays at its end.
EndingOf(q, m) ==
  /\ m \in RequestRecord /\ q.at = "ending" /\ m.at = "ending"
  /\ m.site = q.site /\ m.doing = q.doing /\ m.served = q.served /\ m.token = q.token /\ m.minted = q.minted
  /\ m.half = q.half /\ m.lost = q.lost /\ (m.parse => q.parse)

LEMMA EndingOn ==
  ASSUME NEW q \in RequestRecord, Fits(q), NEW m, EndingOf(q, m)
  PROVE  Fits(m)
BY DEF EndingOf, Fits, ReservationFits, DoingFits, TokensFit, SlotsFit, ForgetsNothing,
       Idling, Rewriting, Minting, Nothing

LEMMA ReleaseReservationStep ==
  ASSUME IInv, NEW r \in Request, UNCHANGED events, ReleaseReservation(r)
  PROVE  IInv' /\ RoutesKept
<1>1. PICK q \in RequestRecord : /\ q = request[r] /\ Fits(q) /\ q.site \in Site /\ q.site = request[r].site
                                 /\ q.at \notin Idling => q.site \in open
  BY RequestIs
<1>2. PICK z \in SomeAuthority : z = Nothing
  BY DEF SomeAuthority
<1>3. PICK m : m = [q EXCEPT !.res = z]
  OBVIOUS
<1>4. /\ q.at = "ending" /\ q.site \in open /\ q.res # Nothing
      /\ FinishAuthorities(q.site, One(q.res), FALSE)
      /\ Become(r, m)
      /\ UNCHANGED <<open, book, issued, occupied>>
  BY <1>1, <1>2, <1>3 DEF ReleaseReservation, EndsWith, Where, Idling
<1>5. q.res \in Authority
  BY <1>4, RecordFacts DEF SomeAuthority
<1>6. /\ m \in RequestRecord /\ m.res = z /\ ButReservation(q, m)
      /\ m.at = q.at /\ m.doing = q.doing /\ m.served = q.served /\ m.lost = q.lost
  BY ONLY <1>1, <1>3, z \in SomeAuthority DEF RequestRecord, ButReservation
<1>7. EndingOf(q, m)
  BY <1>4, <1>6 DEF EndingOf, ButReservation
<1>8. LetsOneGo(q, m, q.res) /\ SameOthers(q, m)
  BY <1>2, <1>6, DropsReservation DEF ButReservation, SameOthers, UsedBy, Holds
<1>9. MayBecome(r, m)
  BY <1>1, <1>4, <1>6, <1>7, <1>8, EndingOn, BecomesIt DEF SameOthers
<1> QED
  BY <1>1, <1>4, <1>5, <1>8, <1>9, OneGoes

\* finish of the lease, one authority after the other.
LEMMA ReleaseLeaseStep ==
  ASSUME IInv, NEW r \in Request, UNCHANGED events, ReleaseLease(r)
  PROVE  IInv' /\ RoutesKept
<1>1. PICK q \in RequestRecord : /\ q = request[r] /\ Fits(q) /\ q.site \in Site /\ q.site = request[r].site
                                 /\ q.at \notin Idling => q.site \in open
  BY RequestIs
<1>2. PICK y, w : y = Head(q.lease) /\ w = Tail(q.lease)
  OBVIOUS
<1>3. PICK m : m = [q EXCEPT !.lease = w]
  OBVIOUS
<1>4. /\ q.at = "ending" /\ q.site \in open /\ q.lease # <<>>
      /\ FinishAuthorities(q.site, One(y), q.commit)
      /\ Become(r, m)
      /\ UNCHANGED <<open, book, issued, occupied>>
  BY <1>1, <1>2, <1>3 DEF ReleaseLease, EndsWith, Where, Idling
<1>5. q.lease \in Seq(Authority)
  BY RecordFacts
<1>6. y \in Authority /\ w \in Seq(Authority)
  BY ONLY <1>2, <1>4, <1>5
<1>7. /\ m \in RequestRecord /\ m.lease = w /\ m.own = q.own /\ m.res = q.res
      /\ m.site = q.site /\ m.stream = q.stream /\ m.parse = q.parse /\ m.half = q.half
      /\ m.token = q.token /\ m.minted = q.minted
      /\ m.at = q.at /\ m.doing = q.doing /\ m.served = q.served /\ m.lost = q.lost
  BY ONLY <1>1, <1>3, <1>6 DEF RequestRecord
<1>8. EndingOf(q, m)
  BY <1>4, <1>7 DEF EndingOf
<1>9. LetsOneGo(q, m, y)
  <2> SUFFICES ASSUME NEW a \in Authority PROVE HeldOf(m, a) + One(y)[a] = HeldOf(q, a)
    BY DEF LetsOneGo
  <2>1. PICK u, v, c, d, x : /\ u = One(q.own)[a] /\ v = One(q.res)[a]
                             /\ c = Count(q.lease, a) /\ d = Count(w, a) /\ x = One(y)[a]
    OBVIOUS
  <2>2. u \in Nat /\ v \in Nat /\ (a = y => x = 1) /\ (a # y => x = 0)
    BY <2>1, OneIs
  <2>3. d \in Nat
    BY <1>6, <2>1, CountIsFinite
  <2>4. (a = y => c = d + 1) /\ (a # y => c = d)
    BY <1>2, <1>4, <1>5, <2>1, CountOfLess
  <2>5. HeldOf(q, a) = u + v + c /\ HeldOf(m, a) = u + v + d
    BY <1>7, <2>1 DEF HeldOf
  <2>6. (u + v + d) + x = u + v + c
    BY ONLY <2>2, <2>3, <2>4
  <2> QED
    BY <2>1, <2>5, <2>6
<1>10. SameOthers(q, m) /\ q.commit \in BOOLEAN
  BY <1>7 DEF SameOthers, UsedBy, Holds, RequestRecord
<1>11. MayBecome(r, m)
  BY <1>1, <1>4, <1>7, <1>8, EndingOn, BecomesIt
<1> QED
  BY <1>1, <1>4, <1>6, <1>9, <1>10, <1>11, OneGoes

LEMMA ReleaseOwnStep ==
  ASSUME IInv, NEW r \in Request, UNCHANGED events, ReleaseOwn(r)
  PROVE  IInv' /\ RoutesKept
<1>1. PICK q \in RequestRecord : /\ q = request[r] /\ Fits(q) /\ q.site \in Site /\ q.site = request[r].site
                                 /\ q.at \notin Idling => q.site \in open
  BY RequestIs
<1>2. PICK z \in SomeAuthority, y \in {q.own} : z = Nothing /\ y = q.own
  BY DEF SomeAuthority
<1>3. PICK m : m = [q EXCEPT !.own = z]
  OBVIOUS
<1>4. /\ q.at = "ending" /\ q.site \in open /\ q.own # Nothing
      /\ FinishAuthorities(q.site, One(y), q.commit)
      /\ Become(r, m)
      /\ UNCHANGED <<open, book, issued, occupied>>
  BY <1>1, <1>2, <1>3 DEF ReleaseOwn, EndsWith, Where, Idling
<1>5. y \in Authority
  BY <1>2, <1>4, RecordFacts DEF SomeAuthority
<1>6. /\ m \in RequestRecord /\ m.own = z /\ m.lease = q.lease /\ m.res = q.res
      /\ m.site = q.site /\ m.stream = q.stream /\ m.parse = q.parse /\ m.half = q.half
      /\ m.token = q.token /\ m.minted = q.minted
      /\ m.at = q.at /\ m.doing = q.doing /\ m.served = q.served /\ m.lost = q.lost
  BY ONLY <1>1, <1>3, z \in SomeAuthority DEF RequestRecord
<1>7. EndingOf(q, m)
  BY <1>4, <1>6 DEF EndingOf
<1>8. LetsOneGo(q, m, y)
  <2> SUFFICES ASSUME NEW a \in Authority PROVE HeldOf(m, a) + One(y)[a] = HeldOf(q, a)
    BY DEF LetsOneGo
  <2>1. PICK u, v, c : u = One(y)[a] /\ v = One(q.res)[a] /\ c = Count(q.lease, a)
    OBVIOUS
  <2>2. u \in Nat /\ v \in Nat
    BY <2>1, OneIs
  <2>3. c \in Nat
    BY <2>1, RecordFacts, CountIsFinite
  <2>4. HeldOf(q, a) = u + v + c /\ HeldOf(m, a) = 0 + v + c
    BY <1>2, <1>6, <2>1, NothingIsNone DEF HeldOf
  <2>5. (0 + v + c) + u = u + v + c
    BY ONLY <2>2, <2>3
  <2> QED
    BY <2>1, <2>4, <2>5
<1>9. SameOthers(q, m) /\ q.commit \in BOOLEAN
  BY <1>6 DEF SameOthers, UsedBy, Holds, RequestRecord
<1>10. MayBecome(r, m)
  BY <1>1, <1>4, <1>6, <1>7, EndingOn, BecomesIt
<1> QED
  BY <1>1, <1>4, <1>5, <1>8, <1>9, <1>10, OneGoes

\* A step that settles all uses of a session.
LEMMA SettlesUses ==
  ASSUME IInv, NEW r \in Request, NEW q \in RequestRecord, q = request[r], q.token = NoToken,
         NEW m, MayBecome(r, m), UNCHANGED <<issued, occupied>>, SameHeld(r, m), SameSlots(r, m),
         m.token = NoToken, m.minted = <<>>, NEW publish \in BOOLEAN, Settle(q.site, Uses(q), publish)
  PROVE  IInv' /\ RoutesKept
<1>1. PICK n : n = Uses(q)
  OBVIOUS
<1>2. Settle(request[r].site, n, publish)
  BY <1>1
<1>3. ASSUME NEW t \in Token PROVE n[t] \in Nat /\ UsedBy(m, t) + n[t] = UsedBy(request[r], t)
  <2>1. PICK u : u = Count(q.minted, t)
    OBVIOUS
  <2>2. u \in Nat
    BY <2>1, RecordFacts, CountIsFinite
  <2>3. n[t] = u
    BY <1>1, <2>1 DEF Uses
  <2>4. UsedBy(m, t) = 0 + 0 /\ UsedBy(q, t) = u + 0
    BY <2>1, CountOfNone, NoUse DEF UsedBy
  <2> QED
    BY <2>2, <2>3, <2>4
<1> QED
  BY <1>2, <1>3, SettleStep

\* w is q without the tokens of its session.
ButMinted(q, w) ==
  /\ w \in RequestRecord /\ w.minted = <<>>
  /\ w.site = q.site /\ w.own = q.own /\ w.res = q.res /\ w.lease = q.lease
  /\ w.stream = q.stream /\ w.parse = q.parse /\ w.half = q.half /\ w.token = q.token
  /\ w.at = q.at /\ w.doing = q.doing /\ w.served = q.served /\ w.lost = q.lost
  /\ w.key = q.key /\ w.depth = q.depth

LEMMA MintedAside ==
  ASSUME NEW q \in RequestRecord, NEW w, w = [q EXCEPT !.minted = <<>>]
  PROVE  ButMinted(q, w)
<1>1. PICK none : none = <<>>
  OBVIOUS
<1>2. none \in Seq(Token) /\ w = [q EXCEPT !.minted = none]
  BY <1>1
<1> QED
  BY ONLY <1>1, <1>2, q \in RequestRecord DEF RequestRecord, ButMinted

\* It ends with nothing of its session left.
LEMMA EndsSettled ==
  ASSUME NEW q \in RequestRecord, Fits(q), q.at \in {"rewriting", "aborting", "committing", "publishing"},
         NEW w, ButMinted(q, w), NEW c \in BOOLEAN, NEW m, m = Ending(w, c)
  PROVE  /\ m \in RequestRecord /\ Fits(m) /\ SameHoldings(w, m)
<1>1. Bare(w) /\ w.minted = <<>>
  BY DEF ButMinted, Bare, Fits, DoingFits, TokensFit, SlotsFit, ForgetsNothing, Idling, Minting, Rewriting, Nothing
<1> QED
  BY <1>1, EndingFits

\* What keeps all but the tokens of its session.
LEMMA SettledKeeps ==
  ASSUME NEW r \in Request, NEW q \in RequestRecord, q = request[r], q.token = NoToken, NEW w, ButMinted(q, w),
         NEW m, SameHoldings(w, m)
  PROVE  /\ SameHeld(r, m) /\ SameSlots(r, m) /\ m.token = NoToken /\ m.minted = <<>> /\ m.site = q.site
<1>1. \A a \in Authority : HeldOf(q, a) \in Nat /\ HeldOf(m, a) = HeldOf(q, a)
  BY TermsTyped DEF SameHoldings, ButMinted, HeldOf
<1>2. SameHeld(r, m)
  BY <1>1 DEF SameHeld
<1>3. SameSlots(r, m)
  BY DEF SameHoldings, ButMinted, SameSlots, Holds
<1> QED
  BY <1>2, <1>3 DEF SameHoldings, ButMinted

\* dynamicRewriteSession.commit.
LEMMA CommitRewriteStep ==
  ASSUME IInv, NEW r \in Request, UNCHANGED events, CommitRewrite(r)
  PROVE  IInv' /\ RoutesKept
<1>1. PICK q \in RequestRecord : /\ q = request[r] /\ Fits(q) /\ q.site \in Site /\ q.site = request[r].site
                                 /\ q.at \notin Idling => q.site \in open
  BY RequestIs
<1>2. PICK c \in BOOLEAN : c = Settles(q.site, Uses(q), TRUE)
  BY DEF Settles
<1>3. PICK w : w = [q EXCEPT !.minted = <<>>]
  OBVIOUS
<1>4. PICK m : m = Ending(w, c)
  OBVIOUS
<1>5. /\ q.at \in {"committing", "rewriting"} /\ q.site \in open
      /\ Settle(q.site, Uses(q), TRUE)
      /\ Become(r, m)
      /\ UNCHANGED <<open, issued, occupied>>
  BY <1>1, <1>2, <1>3, <1>4 DEF CommitRewrite, Where, Idling
<1>6. ButMinted(q, w)
  BY <1>1, <1>3, MintedAside
<1>7. m \in RequestRecord /\ Fits(m) /\ SameHoldings(w, m)
  BY <1>1, <1>4, <1>5, <1>6, EndsSettled
<1>8. q.token = NoToken
  BY <1>1, <1>5 DEF Fits, TokensFit
<1>9. SameHeld(r, m) /\ SameSlots(r, m) /\ m.token = NoToken /\ m.minted = <<>> /\ m.site = q.site
  BY <1>1, <1>6, <1>7, <1>8, SettledKeeps
<1>10. MayBecome(r, m)
  BY <1>1, <1>5, <1>7, <1>9, BecomesIt
<1> QED
  BY <1>1, <1>5, <1>8, <1>9, <1>10, SettlesUses

\* dynamicRewriteSession.rollback.
LEMMA AbortStep ==
  ASSUME IInv, NEW r \in Request, UNCHANGED events, NEW lenient \in BOOLEAN, Abort(r, lenient)
  PROVE  IInv' /\ RoutesKept
<1>1. PICK q \in RequestRecord : /\ q = request[r] /\ Fits(q) /\ q.site \in Site /\ q.site = request[r].site
                                 /\ q.at \notin Idling => q.site \in open
  BY RequestIs
<1>2. PICK w : w = [q EXCEPT !.minted = <<>>]
  OBVIOUS
<1>3. PICK m : m = IF q.retried THEN Ending(w, TRUE)
                   ELSE IF lenient THEN [w EXCEPT !.at = "rewriting", !.retried = TRUE, !.urls = 0]
                   ELSE Ending(w, FALSE)
  OBVIOUS
<1>4. /\ q.at \in {"rewriting", "aborting"} /\ q.site \in open
      /\ Settle(q.site, Uses(q), FALSE)
      /\ Become(r, m)
      /\ UNCHANGED <<open, issued, occupied>>
  BY <1>1, <1>2, <1>3 DEF Abort, Where, Idling
<1>5. ButMinted(q, w)
  BY <1>1, <1>2, MintedAside
<1>6. m \in RequestRecord /\ Fits(m) /\ SameHoldings(w, m)
  <2>1. CASE q.retried
    <3>1. PICK c \in BOOLEAN : c = TRUE
      OBVIOUS
    <3>2. m = Ending(w, c)
      BY <1>3, <2>1, <3>1
    <3> QED
      BY <1>1, <1>4, <1>5, <3>2, EndsSettled
  <2>2. CASE ~q.retried /\ lenient
    <3>1. PICK at, z, u : at = "rewriting" /\ z = TRUE /\ u = 0
      OBVIOUS
    <3>2. m = [w EXCEPT !.at = at, !.retried = z, !.urls = u]
      BY <1>3, <2>2, <3>1
    <3>3. at \in Places /\ z \in BOOLEAN /\ u \in Nat /\ w \in RequestRecord
      BY <1>5, <3>1 DEF Places, ButMinted
    <3>4. /\ m \in RequestRecord /\ m.at = at /\ SameHoldings(w, m)
          /\ m.doing = w.doing /\ m.served = w.served /\ m.lost = w.lost /\ m.key = w.key /\ m.depth = w.depth
      BY ONLY <3>2, <3>3 DEF RequestRecord, SameHoldings
    <3>5. Fits(m)
      BY <1>1, <1>4, <1>5, <3>1, <3>4 DEF SameHoldings, ButMinted, Fits, ReservationFits, DoingFits, TokensFit,
              SlotsFit, ForgetsNothing, Idling, Rewriting, Minting, Nothing
    <3> QED
      BY <3>4, <3>5
  <2>3. CASE ~q.retried /\ ~lenient
    <3>1. PICK c \in BOOLEAN : c = FALSE
      OBVIOUS
    <3>2. m = Ending(w, c)
      BY <1>3, <2>3, <3>1
    <3> QED
      BY <1>1, <1>4, <1>5, <3>2, EndsSettled
  <2> QED
    BY <2>1, <2>2, <2>3
<1>7. q.token = NoToken
  BY <1>1, <1>4 DEF Fits, TokensFit
<1>8. SameHeld(r, m) /\ SameSlots(r, m) /\ m.token = NoToken /\ m.minted = <<>> /\ m.site = q.site
  BY <1>1, <1>5, <1>6, <1>7, SettledKeeps
<1>9. MayBecome(r, m)
  BY <1>1, <1>4, <1>6, <1>8, BecomesIt
<1> QED
  BY <1>1, <1>4, <1>7, <1>8, <1>9, SettlesUses

\* mint publishes the token of a redirect by itself.
LEMMA PublishRedirectStep ==
  ASSUME IInv, NEW r \in Request, UNCHANGED events, PublishRedirect(r)
  PROVE  IInv' /\ RoutesKept
<1>1. PICK q \in RequestRecord : /\ q = request[r] /\ Fits(q) /\ q.site \in Site /\ q.site = request[r].site
                                 /\ q.at \notin Idling => q.site \in open
  BY RequestIs
<1>2. PICK w : w = [q EXCEPT !.minted = <<>>]
  OBVIOUS
<1>3. PICK m : m = IF Settles(q.site, Uses(q), TRUE) THEN Forget(w) ELSE Ending(w, FALSE)
  OBVIOUS
<1>4. /\ q.at = "publishing" /\ q.site \in open
      /\ Settle(q.site, Uses(q), TRUE)
      /\ Become(r, m)
      /\ UNCHANGED <<open, issued, occupied>>
  BY <1>1, <1>2, <1>3 DEF PublishRedirect, Where, Idling
<1>5. ButMinted(q, w)
  BY <1>1, <1>2, MintedAside
<1>6. q.token = NoToken /\ q.doing = "mint"
  BY <1>1, <1>4 DEF Fits, TokensFit, DoingFits
<1>7. /\ m \in RequestRecord /\ Fits(m)
      /\ SameHeld(r, m) /\ SameSlots(r, m) /\ m.token = NoToken /\ m.minted = <<>> /\ m.site = q.site
  <2>1. CASE Settles(q.site, Uses(q), TRUE)
    <3>1. MayLeave(w)
      BY <1>1, <1>4, <1>5, <1>6 DEF ButMinted, MayLeave, Fits, ReservationFits, DoingFits, TokensFit, SlotsFit,
              ForgetsNothing, Idling, Rewriting, Minting, Nothing
    <3>2. m = Forget(w)
      BY <1>3, <2>1
    <3>3. /\ m \in RequestRecord /\ Fits(m) /\ m.site = w.site /\ m.half = w.half
          /\ \A a \in Authority : /\ HeldOf(m, a) <= HeldOf(w, a)
                                  /\ OneWay => HeldOf(m, a) = HeldOf(w, a)
          /\ \A t \in Token : UsedBy(m, t) = UsedBy(w, t)
          /\ \A l \in Pool : Holds(m, l) => Holds(w, l)
          /\ OneWay => \A l \in Pool : Holds(w, l) => Holds(m, l)
      BY <3>1, <3>2, ForgetFits
    <3>4. m.token = NoToken /\ m.minted = <<>>
      BY <1>5, <1>6, <3>2 DEF Forget, Ending, ButMinted, RequestRecord
    <3>5. SameHeld(r, m)
      <4>1. \A a \in Authority : HeldOf(w, a) = HeldOf(q, a)
        BY <1>5 DEF ButMinted, HeldOf
      <4> QED
        BY <1>1, <3>3, <4>1 DEF SameHeld
    <3>6. SameSlots(r, m)
      BY <1>1, <1>5, <3>3 DEF ButMinted, SameSlots, Holds
    <3> QED
      BY <1>5, <3>3, <3>4, <3>5, <3>6 DEF ButMinted
  <2>2. CASE ~Settles(q.site, Uses(q), TRUE)
    <3>1. PICK c \in BOOLEAN : c = FALSE
      OBVIOUS
    <3>2. m = Ending(w, c)
      BY <1>3, <2>2, <3>1
    <3>3. m \in RequestRecord /\ Fits(m) /\ SameHoldings(w, m)
      BY <1>1, <1>4, <1>5, <3>2, EndsSettled
    <3> QED
      BY <1>1, <1>5, <1>6, <3>3, SettledKeeps
  <2> QED
    BY <2>1, <2>2
<1>8. MayBecome(r, m)
  BY <1>1, <1>4, <1>7, BecomesIt
<1> QED
  BY <1>1, <1>4, <1>6, <1>7, <1>8, SettlesUses

\* The undo of a borrowed token.
LEMMA ReturnBorrowedStep ==
  ASSUME IInv, NEW r \in Request, UNCHANGED events, ReturnBorrowed(r)
  PROVE  IInv' /\ RoutesKept
<1>1. PICK q \in RequestRecord : /\ q = request[r] /\ Fits(q) /\ q.site \in Site /\ q.site = request[r].site
                                 /\ q.at \notin Idling => q.site \in open
  BY RequestIs
<1>2. PICK none \in SomeToken : none = NoToken
  BY DEF SomeToken
<1>3. PICK w : w = [q EXCEPT !.token = none]
  OBVIOUS
<1>4. PICK m : m = Failing(w)
  OBVIOUS
<1>5. PICK n : n = OneUse(q.token)
  OBVIOUS
<1>6. /\ q.at = "returning" /\ q.site \in open
      /\ Settle(q.site, n, FALSE)
      /\ Become(r, m)
      /\ UNCHANGED <<open, issued, occupied>>
  BY <1>1, <1>2, <1>3, <1>4, <1>5 DEF ReturnBorrowed, Where, Idling
<1>7. /\ w \in RequestRecord /\ w.token = none
      /\ w.site = q.site /\ w.own = q.own /\ w.res = q.res /\ w.lease = q.lease
      /\ w.stream = q.stream /\ w.parse = q.parse /\ w.half = q.half /\ w.minted = q.minted
      /\ w.at = q.at /\ w.doing = q.doing /\ w.served = q.served /\ w.lost = q.lost
  BY ONLY <1>1, <1>3, none \in SomeToken DEF RequestRecord
<1>8. Bare(w) /\ w.res = Nothing
  BY <1>1, <1>2, <1>6, <1>7 DEF Bare, Fits, ReservationFits, DoingFits, TokensFit, SlotsFit, ForgetsNothing,
              Idling, Rewriting, Minting, Nothing
<1>9. m \in RequestRecord /\ Fits(m) /\ ButReservation(w, m) /\ m.res = Nothing
  BY <1>4, <1>8, FailingFits
<1>10. /\ SameHeld(r, m) /\ SameSlots(r, m) /\ m.site = q.site
  <2>1. \A a \in Authority : HeldOf(q, a) \in Nat /\ HeldOf(m, a) = HeldOf(q, a)
    BY <1>7, <1>8, <1>9, TermsTyped DEF ButReservation, HeldOf
  <2>2. SameHeld(r, m)
    BY <1>1, <2>1 DEF SameHeld
  <2>3. SameSlots(r, m)
    BY <1>1, <1>7, <1>9 DEF ButReservation, SameSlots, Holds
  <2> QED
    BY <1>7, <1>9, <2>2, <2>3 DEF ButReservation
<1>11. ASSUME NEW t \in Token PROVE n[t] \in Nat /\ UsedBy(m, t) + n[t] = UsedBy(request[r], t)
  <2>1. PICK u : u = Count(q.minted, t)
    OBVIOUS
  <2>2. u \in Nat
    BY <2>1, RecordFacts, CountIsFinite
  <2>3. n[t] \in Nat /\ UsedBy(q, t) = u + n[t]
    BY <1>5, <2>1, OneUseIs DEF UsedBy
  <2>4. UsedBy(m, t) = u + 0
    BY <1>2, <1>7, <1>9, <2>1, NoUse DEF UsedBy, ButReservation
  <2> QED
    BY <1>1, <2>2, <2>3, <2>4
<1>12. MayBecome(r, m)
  BY <1>1, <1>6, <1>9, <1>10, BecomesIt
<1>13. PICK no \in BOOLEAN : no = FALSE
  OBVIOUS
<1>14. Settle(request[r].site, n, no) /\ UNCHANGED <<issued, occupied>>
  BY <1>1, <1>6, <1>13
<1> QED
  BY <1>10, <1>11, <1>12, <1>14, SettleStep

\* It may wait for a slot of pool l.
MayTake(w, l) ==
  /\ w \in RequestRecord /\ l \in Pool /\ w.half = Nothing /\ w.token = NoToken /\ w.minted = <<>>
  /\ w.doing \in {"serve", "follow", "rewrite"}
  /\ w.doing = "serve" => w.served # NoToken
  /\ w.res # Nothing <=> w.doing = "follow"
  /\ l = "parses" <=> w.doing = "rewrite"
  /\ ~Holds(w, l)
  /\ w.parse => w.doing = "rewrite"
  /\ OneWay => w.lost = NothingLost

\* m waits for it, w otherwise.
Taking(w, l, m) == m = [w EXCEPT !.at = "taking", !.half = l]

\* m counts as w does, but for the slot it waits for.
CountsAs(w, m) ==
  /\ m.site = w.site
  /\ \A a \in Authority : HeldOf(m, a) = HeldOf(w, a)
  /\ \A t \in Token : UsedBy(m, t) = UsedBy(w, t)
  /\ \A k \in Pool : Holds(m, k) = Holds(w, k)

LEMMA TakingFits ==
  ASSUME NEW w, NEW l, MayTake(w, l), NEW m, Taking(w, l, m)
  PROVE  m \in RequestRecord /\ Fits(m) /\ m.half = l /\ CountsAs(w, m)
<1>1. w \in RequestRecord /\ l \in Pool \union {Nothing} /\ "taking" \in Places
  BY DEF MayTake, Places
<1>2. /\ m \in RequestRecord /\ m.at = "taking" /\ m.half = l
      /\ m.site = w.site /\ m.own = w.own /\ m.res = w.res /\ m.lease = w.lease
      /\ m.stream = w.stream /\ m.parse = w.parse /\ m.token = w.token /\ m.minted = w.minted
      /\ m.doing = w.doing /\ m.served = w.served /\ m.lost = w.lost
  BY ONLY <1>1, Taking(w, l, m) DEF Taking, RequestRecord
<1>3. Fits(m)
  BY <1>2 DEF MayTake, Holds, Pool, Fits, ReservationFits, DoingFits, TokensFit, SlotsFit, ForgetsNothing,
              Idling, Rewriting, Minting, Nothing
<1> QED
  BY <1>2, <1>3 DEF CountsAs, HeldOf, UsedBy, Holds

\* It ends without the slot.
LEMMA WithoutSlotFits ==
  ASSUME NEW q \in RequestRecord, q.token = NoToken, q.minted = <<>>,
         q.parse => q.doing \in {"rewrite", "borrow"}, q.doing = "serve" => q.served # NoToken,
         OneWay => q.lost = NothingLost, NEW m, m = WithoutSlot(q)
  PROVE  m \in RequestRecord /\ Fits(m) /\ m.half = Nothing /\ CountsAs(q, m)
<1>1. PICK at, c, none : at = "ending" /\ c = FALSE /\ none = Nothing
  OBVIOUS
<1>2. PICK p : p = [q EXCEPT !.at = at, !.commit = c]
  OBVIOUS
<1>3. m = [p EXCEPT !.half = none]
  BY <1>1, <1>2 DEF WithoutSlot, Ending
<1>4. at \in Places /\ c \in BOOLEAN /\ none \in Pool \union {Nothing}
  BY <1>1 DEF Places
<1>5. /\ p \in RequestRecord /\ p.at = at
      /\ p.site = q.site /\ p.own = q.own /\ p.res = q.res /\ p.lease = q.lease
      /\ p.stream = q.stream /\ p.parse = q.parse /\ p.token = q.token /\ p.minted = q.minted
      /\ p.doing = q.doing /\ p.served = q.served /\ p.lost = q.lost
  BY ONLY q \in RequestRecord, <1>2, <1>4 DEF RequestRecord
<1>6. /\ m \in RequestRecord /\ m.at = at /\ m.half = none
      /\ m.site = q.site /\ m.own = q.own /\ m.res = q.res /\ m.lease = q.lease
      /\ m.stream = q.stream /\ m.parse = q.parse /\ m.token = q.token /\ m.minted = q.minted
      /\ m.doing = q.doing /\ m.served = q.served /\ m.lost = q.lost
  BY ONLY <1>3, <1>4, <1>5 DEF RequestRecord
<1>7. Fits(m)
  BY <1>1, <1>6 DEF Fits, ReservationFits, DoingFits, TokensFit, SlotsFit, ForgetsNothing,
              Idling, Rewriting, Minting, Nothing
<1> QED
  BY <1>1, <1>6, <1>7 DEF CountsAs, HeldOf, UsedBy, Holds

\* acquireStream and acquireParse, as far as the slot of the runtime.
LEMMA TakeFirstStep ==
  ASSUME IInv, NEW r \in Request, NEW q \in RequestRecord, q = request[r], Fits(q), q.site \in open,
         NEW w, NEW l, MayTake(w, l), SameHoldings(q, w), TakeFirst(r, l, w),
         UNCHANGED <<open, authorityVars, book, issued, events>>
  PROVE  IInv' /\ RoutesKept
<1>1. w \in RequestRecord /\ l \in Pool /\ Equal(q, w)
  BY EqualHoldings DEF MayTake
<1>2. CASE Take(l) /\ Become(r, [w EXCEPT !.at = "taking", !.half = l])
  <2>1. PICK m : m = [w EXCEPT !.at = "taking", !.half = l]
    OBVIOUS
  <2>2. /\ m \in RequestRecord /\ Fits(m) /\ m.site = w.site /\ m.half = l
        /\ \A a \in Authority : HeldOf(m, a) = HeldOf(w, a)
        /\ \A t \in Token : UsedBy(m, t) = UsedBy(w, t)
        /\ \A k \in Pool : Holds(m, k) = Holds(w, k)
    <3>1. Taking(w, l, m)
      BY <2>1 DEF Taking
    <3> QED
      BY <3>1, TakingFits DEF CountsAs
  <2>3. MayBecome(r, m)
    BY <1>1, <1>2, <2>1, <2>2, BecomesIt DEF Equal
  <2>4. SameHeld(r, m) /\ SameUses(r, m)
    <3>1. \A a \in Authority : HeldOf(q, a) \in Nat /\ HeldOf(m, a) = HeldOf(q, a)
      BY <1>1, <2>2, TermsTyped DEF Equal
    <3> QED
      BY <1>1, <2>2, <3>1 DEF Equal, SameHeld, SameUses
  <2>5. PoolMoves(l, request[r].site, 1, 0) /\ DOMAIN occupied' = Pool /\ \A k \in Pool \ {l} : occupied'[k] = occupied[k]
    <3>1. request[r].site \in Site /\ DOMAIN occupied = Pool
          /\ \A k \in Pool : occupied[k] \in [all : Nat, of : [Site -> Nat]]
      BY RequestIs DEF IInv, PoolsFit
    <3> QED
      BY <1>1, <1>2, <3>1, PoolsMove
  <2>6. q.half = Nothing /\ \A k \in Pool : Holds(m, k) = Holds(q, k)
    BY <1>1, <2>2 DEF MayTake, SameHoldings, Equal
  <2>7. HasSlot(m, l) /\ ~HasSlot(request[r], l) /\ (Holds(request[r], l) <=> Holds(m, l))
    BY <1>1, <2>2, <2>6 DEF HasSlot, MayTake, Holds, SameHoldings, Pool, Nothing
  <2>8. \A k \in Pool \ {l} : /\ occupied'[k] = occupied[k]
                              /\ HasSlot(request[r], k) <=> HasSlot(m, k)
                              /\ Holds(request[r], k) <=> Holds(m, k)
    BY <1>1, <2>2, <2>5, <2>6 DEF HasSlot, Pool, Nothing
  <2>9. UNCHANGED <<authorityVars, book, issued>>
    OBVIOUS
  <2>10. PICK one \in Int, none \in Int : one = 1 /\ none = 0
    OBVIOUS
  <2> QED
    BY <1>1, <2>3, <2>4, <2>5, <2>7, <2>8, <2>9, <2>10, PoolStep
<1>3. CASE UNCHANGED occupied /\ Become(r, WithoutSlot(w))
  <2>1. PICK m : m = WithoutSlot(w)
    OBVIOUS
  <2>2. /\ m \in RequestRecord /\ Fits(m) /\ m.site = w.site /\ m.half = Nothing
        /\ \A a \in Authority : HeldOf(m, a) = HeldOf(w, a)
        /\ \A t \in Token : UsedBy(m, t) = UsedBy(w, t)
        /\ \A k \in Pool : Holds(m, k) = Holds(w, k)
    <3>1. m \in RequestRecord /\ Fits(m) /\ m.half = Nothing /\ CountsAs(w, m)
      BY <2>1, WithoutSlotFits DEF MayTake
    <3> QED
      BY <3>1 DEF CountsAs
  <2>3. Equal(q, m)
    BY <1>1, <2>2 DEF Equal, MayTake
  <2>4. MayBecome(r, m)
    BY <1>1, <1>3, <2>1, <2>2, <2>3, BecomesIt DEF Equal
  <2>5. UNCHANGED <<authorityVars, book, issued, occupied>>
    BY <1>3
  <2> QED
    BY <2>3, <2>4, <2>5, AloneStep
<1> QED
  BY <1>2, <1>3 DEF TakeFirst

\* A structured response is there.
LEMMA ReceiveDocumentStep ==
  ASSUME IInv, NEW r \in Request, UNCHANGED events, ReceiveDocument(r)
  PROVE  IInv' /\ RoutesKept
<1>1. PICK q \in RequestRecord : /\ q = request[r] /\ Fits(q) /\ q.site \in Site /\ q.site = request[r].site
                                 /\ q.at \notin Idling => q.site \in open
  BY RequestIs
<1>2. PICK doing \in Doings : doing = "rewrite"
  BY DEF Doings
<1>3. PICK w : w = [q EXCEPT !.doing = doing]
  OBVIOUS
<1>4. /\ q.at = "answered" \/ (q.at = "new" /\ q.site \in open)
      /\ TakeFirst(r, "parses", w)
      /\ UNCHANGED <<open, authorityVars, book, issued>>
  BY <1>1, <1>2, <1>3 DEF ReceiveDocument, RewriteStarts, Answered, Where
<1>5. /\ w \in RequestRecord /\ w.doing = doing /\ SameHoldings(q, w)
      /\ w.served = q.served /\ w.lost = q.lost
  BY ONLY <1>1, <1>3, doing \in Doings DEF RequestRecord, SameHoldings
<1>6. MayTake(w, "parses")
  BY <1>1, <1>2, <1>4, <1>5 DEF SameHoldings, MayTake, Holds, Pool, Fits, ReservationFits, DoingFits, TokensFit, SlotsFit,
              ForgetsNothing, Idling, Rewriting, Minting, Nothing
<1>7. q.site \in open
  BY <1>1, <1>4 DEF Idling
<1> QED
  BY <1>1, <1>4, <1>5, <1>6, <1>7, TakeFirstStep

\* Admit and StreamForRedirect: a stream, or none is needed.
LEMMA StreamStep ==
  ASSUME IInv, NEW r \in Request, UNCHANGED events, Admit(r) \/ StreamForRedirect(r)
  PROVE  IInv' /\ RoutesKept
<1>1. PICK q \in RequestRecord : /\ q = request[r] /\ Fits(q) /\ q.site \in Site /\ q.site = request[r].site
                                 /\ q.at \notin Idling => q.site \in open
  BY RequestIs
<1>2. /\ q.at \in {"admitted", "follow"} /\ q.site \in open
      /\ UNCHANGED <<open, authorityVars, book, issued>>
  BY <1>1 DEF Admit, StreamForRedirect, Where, Idling
<1>3. PICK at : at = IF q.at = "admitted" THEN "using" ELSE "connecting"
  OBVIOUS
<1>4. \/ Become(r, [q EXCEPT !.at = at]) /\ UNCHANGED occupied
      \/ TakeFirst(r, "streams", q) /\ (q.at = "follow" => ~q.stream)
  BY <1>1, <1>3 DEF Admit, StreamForRedirect, Where, Go
<1>5. CASE Become(r, [q EXCEPT !.at = at]) /\ UNCHANGED occupied
  <2>1. PICK m : m = [q EXCEPT !.at = at]
    OBVIOUS
  <2>2. m \in RequestRecord /\ Fits(m) /\ Equal(q, m) /\ m.site = q.site
    BY <1>1, <1>2, <1>3, <2>1, GoFits
  <2>3. MayBecome(r, m)
    BY <1>1, <1>2, <1>5, <2>1, <2>2, BecomesIt
  <2> QED
    BY <1>1, <1>2, <1>5, <2>2, <2>3, AloneStep
<1>6. CASE TakeFirst(r, "streams", q) /\ (q.at = "follow" => ~q.stream)
  <2>1. SameHoldings(q, q)
    BY DEF SameHoldings
  <2>2. MayTake(q, "streams")
    BY <1>1, <1>2, <1>6 DEF MayTake, Holds, Pool, Fits, ReservationFits, DoingFits, TokensFit, SlotsFit,
              ForgetsNothing, Idling, Rewriting, Minting, Nothing
  <2> QED
    BY <1>1, <1>2, <1>6, <2>1, <2>2, TakeFirstStep
<1> QED
  BY <1>4, <1>5, <1>6

\* It goes on with the slot it waited for.
LEMMA WithSlotFits ==
  ASSUME NEW q \in RequestRecord, Fits(q), q.at = "taking", NEW l \in Pool, q.half = l, NEW m, m = WithSlot(q, l)
  PROVE  /\ m \in RequestRecord /\ Fits(m) /\ m.site = q.site /\ m.half = Nothing
         /\ \A a \in Authority : HeldOf(m, a) = HeldOf(q, a)
         /\ \A t \in Token : UsedBy(m, t) = UsedBy(q, t)
         /\ Holds(m, l) /\ \A k \in Pool \ {l} : Holds(m, k) = Holds(q, k)
<1>1. PICK at, none, yes : /\ at = IF l = "parses" THEN "rewriting"
                                   ELSE IF q.doing = "serve" THEN "answered" ELSE "connecting"
                           /\ none = Nothing /\ yes = TRUE
  OBVIOUS
<1>2. at \in Places /\ none \in Pool \union {Nothing} /\ yes \in BOOLEAN
  BY <1>1 DEF Places
<1>3. CASE l = "parses"
  <2>1. m = [q EXCEPT !.at = at, !.parse = yes, !.half = none]
    BY <1>1, <1>3 DEF WithSlot
  <2>2. /\ m \in RequestRecord /\ m.at = at /\ m.half = none /\ m.parse = yes
        /\ m.site = q.site /\ m.own = q.own /\ m.res = q.res /\ m.lease = q.lease
        /\ m.stream = q.stream /\ m.token = q.token /\ m.minted = q.minted
        /\ m.doing = q.doing /\ m.served = q.served /\ m.lost = q.lost /\ m.key = q.key /\ m.depth = q.depth
    BY ONLY q \in RequestRecord, <1>2, <2>1 DEF RequestRecord
  <2>3. Fits(m)
    BY <1>1, <1>3, <2>2 DEF Fits, ReservationFits, DoingFits, TokensFit, SlotsFit, ForgetsNothing,
              Idling, Rewriting, Minting, Nothing
  <2> QED
    BY <1>1, <1>3, <2>2, <2>3 DEF HeldOf, UsedBy, Holds, Pool
<1>4. CASE l = "streams"
  <2>1. m = [q EXCEPT !.at = at, !.stream = yes, !.half = none]
    BY <1>1, <1>4 DEF WithSlot
  <2>2. /\ m \in RequestRecord /\ m.at = at /\ m.half = none /\ m.stream = yes
        /\ m.site = q.site /\ m.own = q.own /\ m.res = q.res /\ m.lease = q.lease
        /\ m.parse = q.parse /\ m.token = q.token /\ m.minted = q.minted
        /\ m.doing = q.doing /\ m.served = q.served /\ m.lost = q.lost /\ m.key = q.key /\ m.depth = q.depth
    BY ONLY q \in RequestRecord, <1>2, <2>1 DEF RequestRecord
  <2>3. Fits(m)
    BY <1>1, <1>4, <2>2 DEF Fits, ReservationFits, DoingFits, TokensFit, SlotsFit, ForgetsNothing,
              Idling, Rewriting, Minting, Nothing
  <2> QED
    BY <1>1, <1>4, <2>2, <2>3 DEF HeldOf, UsedBy, Holds, Pool
<1> QED
  BY <1>3, <1>4 DEF Pool

\* acquireStream and acquireParse, the slot of the site.
LEMMA TakeSecondStep ==
  ASSUME IInv, NEW r \in Request, UNCHANGED events, TakeSecond(r)
  PROVE  IInv' /\ RoutesKept
<1>1. PICK q \in RequestRecord : /\ q = request[r] /\ Fits(q) /\ q.site \in Site /\ q.site = request[r].site
                                 /\ q.at \notin Idling => q.site \in open
  BY RequestIs
<1>2. PICK l : l = q.half
  OBVIOUS
<1>3. PICK room \in BOOLEAN : room <=> (occupied[l].of[q.site] < SiteLimits[l])
  OBVIOUS
<1>4. /\ q.at = "taking" /\ q.site \in open
      /\ TakeOfSite(l, q.site)
      /\ Become(r, IF room THEN WithSlot(q, l) ELSE WithoutSlot(q))
      /\ UNCHANGED <<open, authorityVars, book, issued>>
  BY <1>1, <1>2, <1>3 DEF TakeSecond, Where, Idling
<1>5. /\ l \in Pool /\ l # Nothing /\ ~Holds(q, l) /\ q.token = NoToken /\ q.minted = <<>>
      /\ q.parse => q.doing \in {"rewrite", "borrow"}
      /\ q.doing = "serve" => q.served # NoToken
      /\ OneWay => q.lost = NothingLost
  <2>1. l # Nothing /\ l \in Pool
    BY <1>1, <1>2, <1>4, RecordFacts DEF Fits, SlotsFit
  <2> QED
    BY <1>1, <1>2, <1>4, <2>1 DEF Holds, Pool, Fits, DoingFits, TokensFit, SlotsFit, ForgetsNothing, Idling, Minting,
              Rewriting, Nothing
<1>6. PICK m : m = IF room THEN WithSlot(q, l) ELSE WithoutSlot(q)
  OBVIOUS
<1>7. /\ m \in RequestRecord /\ Fits(m) /\ m.site = q.site /\ m.half = Nothing
      /\ \A a \in Authority : HeldOf(m, a) = HeldOf(q, a)
      /\ \A t \in Token : UsedBy(m, t) = UsedBy(q, t)
      /\ (Holds(m, l) <=> room) /\ \A k \in Pool \ {l} : Holds(m, k) = Holds(q, k)
  <2>1. CASE room
    <3>1. m = WithSlot(q, l)
      BY <1>6, <2>1
    <3>2. /\ m \in RequestRecord /\ Fits(m) /\ m.site = q.site /\ m.half = Nothing
          /\ \A a \in Authority : HeldOf(m, a) = HeldOf(q, a)
          /\ \A t \in Token : UsedBy(m, t) = UsedBy(q, t)
          /\ Holds(m, l) /\ \A k \in Pool \ {l} : Holds(m, k) = Holds(q, k)
      BY <1>1, <1>2, <1>4, <1>5, <3>1, WithSlotFits
    <3> QED
      BY <2>1, <3>2
  <2>2. CASE ~room
    <3>1. m = WithoutSlot(q)
      BY <1>6, <2>2
    <3>2. m \in RequestRecord /\ Fits(m) /\ m.half = Nothing /\ CountsAs(q, m)
      BY <1>5, <3>1, WithoutSlotFits
    <3> QED
      BY <1>5, <2>2, <3>2 DEF CountsAs
  <2> QED
    BY <2>1, <2>2
<1>8. MayBecome(r, m)
  BY <1>1, <1>4, <1>6, <1>7, BecomesIt
<1>9. SameHeld(r, m) /\ SameUses(r, m)
  <2>1. \A a \in Authority : HeldOf(q, a) \in Nat
    BY TermsTyped
  <2> QED
    BY <1>1, <1>7, <2>1 DEF SameHeld, SameUses
<1>10. PICK s \in Site : s = q.site /\ s = request[r].site
  BY <1>1
<1>11. PICK n \in Int, k \in Int : n = (IF room THEN 0 ELSE -1) /\ k = (IF room THEN 1 ELSE 0)
  OBVIOUS
<1>12. PoolMoves(l, s, n, k) /\ DOMAIN occupied' = Pool /\ \A x \in Pool \ {l} : occupied'[x] = occupied[x]
  <2>1. /\ DOMAIN occupied = Pool /\ TakeOfSite(l, s)
        /\ \A x \in Pool : occupied[x] \in [all : Nat, of : [Site -> Nat]]
    BY <1>4, <1>10 DEF IInv, PoolsFit
  <2>2. /\ room => PoolMoves(l, s, 0, 1)
        /\ ~room => PoolMoves(l, s, -1, 0)
        /\ DOMAIN occupied' = Pool
        /\ \A x \in Pool \ {l} : occupied'[x] = occupied[x]
    BY <1>3, <1>5, <1>10, <2>1, PoolsMove
  <2> QED
    BY <1>11, <2>2
<1>13. /\ HasSlot(q, l) /\ ~Holds(q, l)
       /\ HasSlot(m, l) <=> room
       /\ Holds(m, l) <=> room
  BY <1>2, <1>5, <1>7 DEF HasSlot, Pool, Nothing
<1>14. \A x \in Pool \ {l} : /\ occupied'[x] = occupied[x]
                             /\ HasSlot(request[r], x) <=> HasSlot(m, x)
                             /\ Holds(request[r], x) <=> Holds(m, x)
  BY <1>1, <1>2, <1>7, <1>12 DEF HasSlot, Pool, Nothing
<1>15. /\ \/ n = 0 /\ (HasSlot(request[r], l) <=> HasSlot(m, l))
          \/ n = 1 /\ HasSlot(m, l) /\ ~HasSlot(request[r], l)
          \/ n = -1 /\ ~HasSlot(m, l) /\ HasSlot(request[r], l)
       /\ \/ k = 0 /\ (Holds(request[r], l) <=> Holds(m, l))
          \/ k = 1 /\ Holds(m, l) /\ ~Holds(request[r], l)
          \/ k = -1 /\ ~Holds(m, l) /\ Holds(request[r], l)
  BY <1>1, <1>11, <1>13
<1>16. UNCHANGED <<authorityVars, book, issued>> /\ PoolMoves(l, request[r].site, n, k) /\ DOMAIN occupied' = Pool
  BY <1>4, <1>10, <1>12
<1> QED
  BY <1>5, <1>8, <1>9, <1>14, <1>15, <1>16, PoolStep

\* A slot is given back.
LEMMA ReleaseStep ==
  ASSUME IInv, NEW r \in Request, NEW q \in RequestRecord, q = request[r], NEW m, MayBecome(r, m),
         NEW l \in Pool, Holds(q, l), q.half = Nothing, m.half = Nothing, ~Holds(m, l),
         \A k \in Pool \ {l} : Holds(m, k) = Holds(q, k),
         \A a \in Authority : HeldOf(m, a) = HeldOf(q, a),
         \A t \in Token : UsedBy(m, t) = UsedBy(q, t),
         Release(l, q.site), UNCHANGED <<authorityVars, book, issued>>
  PROVE  IInv' /\ RoutesKept
<1>1. SameHeld(r, m) /\ SameUses(r, m)
  <2>1. \A a \in Authority : HeldOf(q, a) \in Nat
    BY TermsTyped
  <2> QED
    BY <2>1 DEF SameHeld, SameUses
<1>2. PICK s \in Site : s = q.site /\ s = request[r].site
  BY RecordFacts
<1>3. PICK n \in Int : n = -1
  OBVIOUS
<1>4. PoolMoves(l, s, n, n) /\ DOMAIN occupied' = Pool /\ \A x \in Pool \ {l} : occupied'[x] = occupied[x]
  <2>1. /\ DOMAIN occupied = Pool /\ Release(l, s)
        /\ \A x \in Pool : occupied[x] \in [all : Nat, of : [Site -> Nat]]
    BY <1>2 DEF IInv, PoolsFit
  <2> QED
    BY <1>2, <1>3, <2>1, PoolsMove
<1>5. HasSlot(request[r], l) /\ ~HasSlot(m, l) /\ Holds(request[r], l) /\ ~Holds(m, l)
  BY DEF HasSlot, Pool, Nothing
<1>6. \A x \in Pool \ {l} : /\ occupied'[x] = occupied[x]
                            /\ HasSlot(request[r], x) <=> HasSlot(m, x)
                            /\ Holds(request[r], x) <=> Holds(m, x)
  BY <1>4 DEF HasSlot
<1>7. PoolMoves(l, request[r].site, n, n) /\ DOMAIN occupied' = Pool
  BY <1>2, <1>4
<1> QED
  BY <1>1, <1>3, <1>5, <1>6, <1>7, PoolStep

LEMMA ReleaseParseStep ==
  ASSUME IInv, NEW r \in Request, UNCHANGED events, ReleaseParse(r)
  PROVE  IInv' /\ RoutesKept
<1>1. PICK q \in RequestRecord : /\ q = request[r] /\ Fits(q) /\ q.site \in Site /\ q.site = request[r].site
                                 /\ q.at \notin Idling => q.site \in open
  BY RequestIs
<1>2. PICK no \in BOOLEAN : no = FALSE
  OBVIOUS
<1>3. PICK m : m = [q EXCEPT !.parse = no]
  OBVIOUS
<1>4. /\ q.at = "ending" /\ q.site \in open /\ q.parse
      /\ Release("parses", q.site)
      /\ Become(r, m)
      /\ UNCHANGED <<open, authorityVars, book, issued>>
  BY <1>1, <1>2, <1>3 DEF ReleaseParse, EndsWith, Where, Idling, authorityVars
<1>5. /\ m \in RequestRecord /\ m.parse = no
      /\ m.site = q.site /\ m.own = q.own /\ m.res = q.res /\ m.lease = q.lease
      /\ m.stream = q.stream /\ m.half = q.half /\ m.token = q.token /\ m.minted = q.minted
      /\ m.at = q.at /\ m.doing = q.doing /\ m.served = q.served /\ m.lost = q.lost
  BY ONLY <1>1, <1>3, no \in BOOLEAN DEF RequestRecord
<1>6. EndingOf(q, m) /\ q.half = Nothing
  BY <1>1, <1>2, <1>4, <1>5 DEF EndingOf, Fits, SlotsFit
<1>7. MayBecome(r, m)
  BY <1>1, <1>4, <1>5, <1>6, EndingOn, BecomesIt
<1>8. PICK l \in Pool : l = "parses"
  BY DEF Pool
<1>9. /\ Holds(q, l) /\ ~Holds(m, l) /\ \A k \in Pool \ {l} : Holds(m, k) = Holds(q, k)
      /\ m.half = Nothing /\ Release(l, q.site)
      /\ \A a \in Authority : HeldOf(m, a) = HeldOf(q, a)
      /\ \A t \in Token : UsedBy(m, t) = UsedBy(q, t)
  BY <1>2, <1>4, <1>5, <1>6, <1>8 DEF Holds, Pool, HeldOf, UsedBy
<1> QED
  BY <1>1, <1>4, <1>6, <1>7, <1>9, ReleaseStep

LEMMA ReleaseStreamStep ==
  ASSUME IInv, NEW r \in Request, UNCHANGED events, ReleaseStream(r)
  PROVE  IInv' /\ RoutesKept
<1>1. PICK q \in RequestRecord : /\ q = request[r] /\ Fits(q) /\ q.site \in Site /\ q.site = request[r].site
                                 /\ q.at \notin Idling => q.site \in open
  BY RequestIs
<1>2. PICK no \in BOOLEAN : no = FALSE
  OBVIOUS
<1>3. PICK m : m = [q EXCEPT !.stream = no]
  OBVIOUS
<1>4. /\ q.at = "ending" /\ q.site \in open /\ q.stream
      /\ Release("streams", q.site)
      /\ Become(r, m)
      /\ UNCHANGED <<open, authorityVars, book, issued>>
  BY <1>1, <1>2, <1>3 DEF ReleaseStream, EndsWith, Where, Idling, authorityVars
<1>5. /\ m \in RequestRecord /\ m.stream = no
      /\ m.site = q.site /\ m.own = q.own /\ m.res = q.res /\ m.lease = q.lease
      /\ m.parse = q.parse /\ m.half = q.half /\ m.token = q.token /\ m.minted = q.minted
      /\ m.at = q.at /\ m.doing = q.doing /\ m.served = q.served /\ m.lost = q.lost
  BY ONLY <1>1, <1>3, no \in BOOLEAN DEF RequestRecord
<1>6. EndingOf(q, m) /\ q.half = Nothing
  BY <1>1, <1>2, <1>4, <1>5 DEF EndingOf, Fits, SlotsFit
<1>7. MayBecome(r, m)
  BY <1>1, <1>4, <1>5, <1>6, EndingOn, BecomesIt
<1>8. PICK l \in Pool : l = "streams"
  BY DEF Pool
<1>9. /\ Holds(q, l) /\ ~Holds(m, l) /\ \A k \in Pool \ {l} : Holds(m, k) = Holds(q, k)
      /\ m.half = Nothing /\ Release(l, q.site)
      /\ \A a \in Authority : HeldOf(m, a) = HeldOf(q, a)
      /\ \A t \in Token : UsedBy(m, t) = UsedBy(q, t)
  BY <1>2, <1>4, <1>5, <1>6, <1>8 DEF Holds, Pool, HeldOf, UsedBy
<1> QED
  BY <1>1, <1>4, <1>6, <1>7, <1>9, ReleaseStep

\* hasCapability: the client presents a token.
LEMMA PresentStep ==
  ASSUME IInv, NEW r \in Request, UNCHANGED events, NEW t \in Token, Present(r, t)
  PROVE  IInv' /\ RoutesKept
<1>1. PICK q \in RequestRecord : /\ q = request[r] /\ Fits(q) /\ q.site \in Site /\ q.site = request[r].site
                                 /\ q.at \notin Idling => q.site \in open
  BY RequestIs
<1>2. q.at = "new" /\ q.site \in open /\ UNCHANGED <<open, authorityVars, issued, occupied>>
  BY <1>1 DEF Present, Where
<1>3. PICK due \in BOOLEAN :
        /\ book' = LookedUp(Pruned(due), q.site, t)
        /\ \/ /\ Usable(Pruned(due), q.site, t)
              /\ LET w == [q EXCEPT !.doing = "serve", !.served = t,
                            !.key = Entry(Pruned(due), q.site, t).key, !.depth = Entry(Pruned(due), q.site, t).key.depth]
                 IN Become(r, [w EXCEPT !.at = IF Trusted(w.key.target) THEN "admitted" ELSE "presented"])
           \/ ~Usable(Pruned(due), q.site, t) /\ Become(r, Ending(q, FALSE))
  BY <1>1 DEF Present
<1>4. PICK b : b = book'
  OBVIOUS
<1>5. BookFits(b, issued, UsesTable) /\ Thins(book, b)
  BY <1>1, <1>3, <1>4, LookedUpNow
<1>6. PICK c : c = Pruned(due)
  OBVIOUS
<1>7. ASSUME Usable(c, q.site, t),
             LET w == [q EXCEPT !.doing = "serve", !.served = t,
                        !.key = Entry(c, q.site, t).key, !.depth = Entry(c, q.site, t).key.depth]
             IN Become(r, [w EXCEPT !.at = IF Trusted(w.key.target) THEN "admitted" ELSE "presented"])
      PROVE  IInv' /\ RoutesKept
  <2>1. PICK k : k = Entry(c, q.site, t).key
    OBVIOUS
  <2>2. k \in Key
    <3>1. BookFits(c, issued, UsesTable)
      BY <1>6, BookNow
    <3>2. c.entries[q.site][t] \in EntryRecord
      BY <1>1, <1>7, <3>1 DEF BookFits, BookTyped, Usable, Registered
    <3> QED
      BY <2>1, <3>2 DEF EntryRecord, Entry
  <2>3. PICK doing, d : doing = "serve" /\ d = k.depth
    OBVIOUS
  <2>4. PICK w : w = [q EXCEPT !.doing = doing, !.served = t, !.key = k, !.depth = d]
    OBVIOUS
  <2>5. doing \in Doings /\ t \in SomeToken /\ d \in 0..MaxDepth /\ k \in [target : Target \union {Nothing}, depth : Nat]
    BY <2>2, <2>3, LimitAssumption DEF Doings, SomeToken, Key
  <2>6. /\ w \in RequestRecord /\ w.doing = doing /\ w.served = t /\ w.key = k /\ w.depth = d
        /\ SameHoldings(q, w) /\ w.at = q.at /\ w.lost = q.lost
    BY ONLY <1>1, <2>4, <2>5 DEF RequestRecord, SameHoldings
  <2>7. PICK at : at = IF Trusted(k.target) THEN "admitted" ELSE "presented"
    OBVIOUS
  <2>8. at \in Places
    BY <2>7 DEF Places
  <2>9. PICK m : m = [w EXCEPT !.at = at]
    OBVIOUS
  <2>10. Become(r, m)
    BY <1>7, <2>1, <2>3, <2>4, <2>6, <2>7, <2>9
  <2>11. /\ m \in RequestRecord /\ m.at = at /\ SameHoldings(w, m)
         /\ m.doing = w.doing /\ m.served = w.served /\ m.lost = w.lost /\ m.key = w.key /\ m.depth = w.depth
    BY ONLY <2>6, <2>8, <2>9 DEF RequestRecord, SameHoldings
  <2>12. t # NoToken
    BY LimitAssumption DEF Token, NoToken
  <2>13. Fits(m)
    BY <1>1, <1>2, <2>2, <2>3, <2>6, <2>7, <2>11, <2>12 DEF SameHoldings, Fits, ReservationFits, DoingFits, TokensFit,
              SlotsFit, ForgetsNothing, Idling, Rewriting, Minting, Nothing
  <2>14. Equal(q, m)
    <3>1. SameHoldings(q, m)
      BY <2>6, <2>11 DEF SameHoldings
    <3> QED
      BY <3>1, EqualHoldings
  <2>15. MayBecome(r, m)
    BY <1>1, <1>2, <2>10, <2>11, <2>13, <2>14, BecomesIt DEF Equal
  <2>16. SameHeld(r, m) /\ SameSlots(r, m) /\ SameUses(r, m)
    BY <1>1, <2>14, EqualIsSame
  <2> QED
    BY <1>2, <1>4, <1>5, <2>15, <2>16, QuietStep
<1>8. ASSUME Become(r, Ending(q, FALSE)) PROVE IInv' /\ RoutesKept
  <2>1. PICK no \in BOOLEAN : no = FALSE
    OBVIOUS
  <2>2. PICK m : m = Ending(request[r], no)
    OBVIOUS
  <2>3. Become(r, Ending(request[r], no)) /\ request[r].at = "new" /\ request[r].site \in open
    BY <1>1, <1>2, <1>8, <2>1
  <2>4. MayBecome(r, m) /\ SameHeld(r, m) /\ SameSlots(r, m) /\ SameUses(r, m)
    BY <1>2, <2>2, <2>3, EndStep
  <2> QED
    BY <1>2, <1>4, <1>5, <2>4, QuietStep
<1> QED
  BY <1>3, <1>6, <1>7, <1>8

-----------------------------------------------------------------------------
(* The invariant holds.                                                      *)

LEMMA StepsHold ==
  ASSUME IInv, NEW r \in Request, Steps(r)
  PROVE  IInv' /\ RoutesKept
<1>1. UNCHANGED events
  BY DEF Steps
<1>2. CASE ReceiveDocument(r) \/ (\E good \in BOOLEAN : Receive(r, good)) \/ TakeSecond(r)
  BY <1>1, <1>2, ReceiveDocumentStep, EndsAlone, TakeSecondStep
<1>3. CASE Follows(r)
  <2>1. CASE HandBack(r) \/ RefuseAnswer(r) \/ StreamForRedirect(r) \/ Connect(r) \/ ConnectFails(r)
    BY <1>1, <2>1, HandBackStep, EndsAlone, StreamStep, ConnectStep
  <2>2. CASE CommitDirect(r) \/ PublishRedirect(r)
    BY <1>1, <2>2, CommitDirectStep, PublishRedirectStep
  <2>3. ASSUME NEW t \in Target, FollowRedirect(r, t) \/ DirectRedirect(r, t) \/ MintRedirect(r, t)
        PROVE  IInv' /\ RoutesKept
    BY <1>1, <2>3, RedirectStep
  <2> QED
    BY <1>3, <2>1, <2>2, <2>3 DEF Follows
<1>4. CASE Serves(r)
  <2>1. CASE ReservePresented(r) \/ Admit(r) \/ Use(r)
    BY <1>1, <2>1, ReserveAsItIs, StreamStep, UseStep
  <2>2. ASSUME NEW t \in Token, Present(r, t) PROVE IInv' /\ RoutesKept
    BY <1>1, <2>2, PresentStep
  <2> QED
    BY <1>4, <2>1, <2>2 DEF Serves
<1>5. CASE Rewrites(r)
  <2>1. CASE LookShallower(r) \/ ReserveBorrowed(r) \/ KeepBorrowed(r)
    BY <1>1, <2>1, LookShallowerStep, ReserveAsItIs, KeepBorrowedStep
  <2>2. CASE ReturnBorrowed(r) \/ Accept(r) \/ CommitRewrite(r)
    BY <1>1, <2>2, ReturnBorrowedStep, AcceptStep, CommitRewriteStep
  <2>3. ASSUME NEW t \in Target, Discover(r, t) PROVE IInv' /\ RoutesKept
    BY <1>1, <2>3, DiscoverStep
  <2>4. ASSUME NEW lenient \in BOOLEAN, Abort(r, lenient) PROVE IInv' /\ RoutesKept
    BY <1>1, <2>4, AbortStep
  <2> QED
    BY <1>5, <2>1, <2>2, <2>3, <2>4 DEF Rewrites
<1>6. CASE Mints(r)
  BY <1>1, <1>6, MintReusesStep, MintFindsNoneStep, RegisterStep, SealFailsStep, MintUndoesStep DEF Mints
<1>7. CASE Resolves(r)
  BY <1>1, <1>7, ResolvesStep, ResolverFailsStep, ResolveFailsStep DEF Resolves
<1>8. CASE LetsGo(r)
  BY <1>1, <1>8, ReleaseParseStep, ReleaseReservationStep, ReleaseLeaseStep, ReleaseStreamStep, ReleaseOwnStep DEF LetsGo
<1> QED
  BY <1>2, <1>3, <1>4, <1>5, <1>6, <1>7, <1>8 DEF Steps

LEMMA NextHolds ==
  ASSUME IInv, Next
  PROVE  IInv' /\ RoutesKept
<1>1. ASSUME NEW r \in Request, Steps(r) PROVE IInv' /\ RoutesKept
  BY <1>1, StepsHold
<1>2. CASE Expires
  BY <1>2, ExpireStep DEF Expires
<1>3. CASE Minute
  BY <1>3, MinuteStep
<1>4. CASE Closes
  BY <1>4, CloseStep DEF Closes
<1>5. CASE Opens
  BY <1>5, OpenStep DEF Opens
<1> QED
  BY <1>1, <1>2, <1>3, <1>4, <1>5 DEF Next

-----------------------------------------------------------------------------
(* The initial states, and what follows for every reachable state.           *)

LEMMA FreshFits ==
  ASSUME NEW s \in Site
  PROVE  Fresh(s) \in RequestRecord /\ Fits(Fresh(s)) /\ Fresh(s).at \in Idling /\ Fresh(s).lost = NothingLost
<1>1. /\ 0 \in 0..MaxDepth /\ <<>> \in Seq(Token) /\ <<>> \in Seq(Authority)
      /\ NoKey \in [target : Target \union {Nothing}, depth : Nat]
      /\ NothingLost \in [lease : Seq(Authority), stream : BOOLEAN]
  BY LimitAssumption DEF NoKey, NothingLost
<1>2. PICK q : q = Fresh(s)
  OBVIOUS
<1>3. q \in RequestRecord
  BY ONLY <1>1, <1>2, s \in Site
     DEF Fresh, RequestRecord, Places, Doings, SomeToken, SomeAuthority, NoToken
<1>4. /\ q.at = "new" /\ q.doing = Nothing /\ q.served = NoToken /\ q.own = Nothing /\ q.res = Nothing
      /\ q.lease = <<>> /\ q.stream = FALSE /\ q.parse = FALSE /\ q.half = Nothing /\ q.token = NoToken
      /\ q.minted = <<>> /\ q.lost = NothingLost
  BY <1>2 DEF Fresh
<1>5. Fits(q)
  BY <1>4 DEF Fits, ReservationFits, DoingFits, TokensFit, SlotsFit, ForgetsNothing, Idling,
              Rewriting, Minting, Nothing
<1> QED
  BY <1>2, <1>3, <1>4, <1>5 DEF Idling

LEMMA InitHolds == Init => IInv
<1> SUFFICES ASSUME Init PROVE IInv
  OBVIOUS
<1>1. /\ open = Site /\ authorities = [s \in Site |-> <<>>] /\ known = [a \in Authority |-> 0]
      /\ newOf = [s \in Site |-> 0] /\ newAll = 0 /\ issued = 0 /\ events = 0
      /\ book = [entries |-> [s \in Site |-> <<>>], index |-> [s \in Site |-> <<>>], active |-> 0]
      /\ occupied = [p \in Pool |-> [all |-> 0, of |-> [s \in Site |-> 0]]]
      /\ request \in [Request -> {Fresh(s) : s \in Site}]
  BY DEF Init, StateInit, RequestInit
<1>2. ASSUME NEW r \in Request
      PROVE  request[r] \in RequestRecord /\ Fits(request[r]) /\ request[r].at \in Idling
  <2>1. PICK s \in Site : request[r] = Fresh(s)
    BY <1>1
  <2> QED
    BY <2>1, FreshFits
<1>3. RequestsFit
  <2>1. request \in [Request -> RequestRecord]
    BY <1>1, <1>2
  <2> QED
    BY <2>1, <1>2 DEF RequestsFit
<1>4. ASSUME NEW s \in Site
      PROVE  /\ \A a \in Authority : LiveIn(s, a) = 0
             /\ \A t \in Token : UsesOf(s, t) = 0
             /\ \A l \in Pool : HoldersOf(l, s) = {}
  BY <1>2, <1>3, DrainedHoldsNothing
<1>5. \A s \in Site : /\ book.entries[s] = <<>> /\ book.index[s] = <<>>
                      /\ DOMAIN book.entries[s] = {} /\ DOMAIN book.index[s] = {}
  BY <1>1
<1>6. BookFits(book, issued, UsesTable)
  <2>1. BookTyped(book, issued)
    BY <1>1, <1>5 DEF BookTyped
  <2>2. IndexFits(book) /\ HoldsFit(book)
    BY <1>5 DEF IndexFits, HoldsFit
  <2>3. ActiveFits(book)
    <3>1. PairsOf(book) = {}
      BY <1>5 DEF PairsOf
    <3> QED
      BY <3>1, <1>1, FS_EmptySet DEF ActiveFits
  <2>4. PendingFits(book, UsesTable)
    BY <1>4, <1>5 DEF PendingFits, UsesTable, Registered
  <2> QED
    BY <2>1, <2>2, <2>3, <2>4 DEF BookFits
<1>7. \A s \in Site : authorities[s] = <<>> /\ DOMAIN authorities[s] = {}
  BY <1>1
<1>8. AuthoritiesFit
  <2>1. AuthoritiesTyped
    BY <1>1, <1>7 DEF AuthoritiesTyped
  <2>2. ASSUME NEW s \in Site, NEW a \in Authority
        PROVE  HeldTable[s][a] = 0
    <3>1. HeldIn(book, s, a) = 0
      <4>1. {t \in DOMAIN book.entries[s] : Entry(book, s, t).holds
                 /\ AuthorityOf[Entry(book, s, t).key.target] = a} = {}
        BY <1>5
      <4> QED
        BY <4>1, FS_EmptySet DEF HeldIn, HeldBy
    <3>2. LiveIn(s, a) = 0
      BY <1>4
    <3>3. HeldTable[s][a] = LiveIn(s, a) + HeldIn(book, s, a)
      BY DEF HeldTable, HeldIn
    <3> QED
      BY <3>1, <3>2, <3>3
  <2>3. InFlightFits(HeldTable)
    BY <2>2, <1>7 DEF InFlightFits, IsKnown
  <2>4. KnownFits
    <3> SUFFICES ASSUME NEW a \in Authority PROVE known[a] = Cardinality({s \in Site : IsKnown(s, a)})
      BY DEF KnownFits
    <3>1. {s \in Site : IsKnown(s, a)} = {}
      BY <1>7 DEF IsKnown
    <3> QED
      BY <3>1, <1>1, FS_EmptySet
  <2> QED
    BY <2>1, <2>3, <2>4 DEF AuthoritiesFit
<1>9. CommittedFits /\ ClosedFits
  BY <1>1, <1>5 DEF CommittedFits, ClosedFits
<1>10. PoolsFit
  <2> SUFFICES ASSUME NEW p \in Pool
               PROVE  /\ occupied[p] \in [all : Nat, of : [Site -> Nat]]
                      /\ Covers(occupied[p].all, Cardinality(HoldersIn(p)))
                      /\ \A s \in Site : Covers(occupied[p].of[s], Cardinality(HoldersOf(p, s)))
    BY DEF PoolsFit
  <2>1. occupied[p] = [all |-> 0, of |-> [s \in Site |-> 0]]
    BY <1>1
  <2>2. HoldersIn(p) = {}
    <3> SUFFICES ASSUME NEW r \in Request PROVE request[r].half # p /\ ~Holds(request[r], p)
      BY DEF HoldersIn
    <3>1. PICK q \in RequestRecord : q = request[r] /\ Fits(q) /\ q.at \in Idling
      BY <1>2
    <3>2. q.half = Nothing
      BY <3>1 DEF Fits, SlotsFit, Idling
    <3>3. ~Holds(q, p)
      BY <3>1, IdleHoldsNothing
    <3> QED
      BY <3>1, <3>2, <3>3 DEF Pool, Nothing
  <2>3. Covers(occupied[p].all, Cardinality(HoldersIn(p)))
    BY <2>1, <2>2, FS_EmptySet DEF Covers
  <2>4. ASSUME NEW s \in Site PROVE Covers(occupied[p].of[s], Cardinality(HoldersOf(p, s)))
    BY <2>1, <1>4, FS_EmptySet DEF Covers
  <2> QED
    BY <2>1, <2>3, <2>4
<1> QED
  BY <1>1, <1>3, <1>6, <1>8, <1>9, <1>10, LimitAssumption DEF IInv

LEMMA StutterHolds ==
  ASSUME IInv, UNCHANGED vars
  PROVE  IInv' /\ RoutesKept
<1>1. UNCHANGED <<request, open, authorities, known, newOf, newAll, book, issued, occupied, events>>
  BY DEF vars, dynamicVars, stateVars, authorityVars
<1>2. newOf' \in [Site -> Nat] /\ newAll' \in Nat /\ events' \in Nat
  BY <1>1 DEF IInv, AuthoritiesFit, AuthoritiesTyped
<1> QED
  BY <1>1, <1>2, OnlyWindowsMove

\* The inductive invariant: what each request may hold where it is, and that
\* the counts of the runtime are the sums of what the requests hold.
THEOREM InvariantHolds == Spec => []IInv
<1>1. IInv /\ [Next]_vars => IInv'
  BY NextHolds, StutterHolds
<1> QED
  BY InitHolds, <1>1, PTL DEF Spec

-----------------------------------------------------------------------------

\* What the maps of dynamicRuntime and dynamicSiteState hold: the authorities
\* of a site, tokens that have been sealed, and slots never below zero.
THEOREM TypeIsKept == Spec => []TypeOK
<1>1. IInv => TypeOK
  BY DEF IInv, TypeOK, AuthoritiesFit, AuthoritiesTyped, BookFits, BookTyped, PoolsFit
<1> QED
  BY <1>1, InvariantHolds, PTL

\* A token stays while any request rewrites with it: settleCapabilities never
\* deletes what another session still counts on, and the index and the totals
\* that registerCapability and deleteCapabilityLocked keep follow the entries.
\* It holds whether or not a redirect was ever forgotten about.
THEOREM UsesAreCounted == Spec => []UsesCounted
<1>1. IInv => UsesCounted
  <2> SUFFICES ASSUME IInv PROVE UsesCounted
    OBVIOUS
  <2>1. ASSUME NEW s \in open, NEW t \in Token
        PROVE  IF Registered(book, s, t) THEN Entry(book, s, t).pending = UsesOf(s, t) ELSE UsesOf(s, t) = 0
    <3>1. s \in Site
      BY DEF IInv
    <3>2. UsesTable[s][t] = UsesOf(s, t)
      BY <3>1 DEF UsesTable
    <3> QED
      BY <3>1, <3>2 DEF IInv, BookFits, PendingFits
  <2>2. \A s \in Site : \A k \in DOMAIN book.index[s] :
          Registered(book, s, book.index[s][k]) /\ Entry(book, s, book.index[s][k]).key = k
    BY DEF IInv, BookFits, IndexFits
  <2>3. book.active = Cardinality({x \in Site \X Token : x[2] \in DOMAIN book.entries[x[1]]})
    BY DEF IInv, BookFits, ActiveFits, PairsOf
  <2> QED
    BY <2>1, <2>2, <2>3 DEF UsesCounted
<1> QED
  BY <1>1, InvariantHolds, PTL

\* The token a client is given stands for an authority that was committed, and
\* a provisional one keeps its authority reserved by itself and has a session
\* that works with it (registerCapability, settleCapabilities).
THEOREM PublishedTokensAreCommitted == Spec => []PublishedIsCommitted
<1>1. IInv => PublishedIsCommitted
  <2> SUFFICES ASSUME IInv, NEW s \in open, NEW t \in DOMAIN book.entries[s]
               PROVE  LET e == Entry(book, s, t)
                          a == AuthorityOf[e.key.target]
                      IN IF e.published
                           THEN ~e.holds /\ (~Trusted(e.key.target) => IsKnown(s, a) /\ authorities[s][a].committed)
                           ELSE e.pending > 0 /\ e.holds = ~Trusted(e.key.target)
    BY DEF PublishedIsCommitted
  <2>1. s \in Site
    BY DEF IInv
  <2>2. IF Entry(book, s, t).published THEN ~Entry(book, s, t).holds
        ELSE Entry(book, s, t).pending > 0 /\ (Entry(book, s, t).holds = ~Trusted(Entry(book, s, t).key.target))
    BY <2>1 DEF IInv, BookFits, HoldsFit
  <2>3. Entry(book, s, t).published /\ ~Trusted(Entry(book, s, t).key.target) =>
          /\ IsKnown(s, AuthorityOf[Entry(book, s, t).key.target])
          /\ authorities[s][AuthorityOf[Entry(book, s, t).key.target]].committed
    BY <2>1 DEF IInv, CommittedFits
  <2> QED
    BY <2>2, <2>3
<1> QED
  BY <1>1, InvariantHolds, PTL

\* A route that a client was given keeps working until it expires or its site
\* closes: no step of any request, of expiry or of the life of a site takes
\* away a token that useCapability would still accept.
THEOREM RoutesAreKept == Spec => RoutesKeepWorking
<1>1. IInv /\ [Next]_vars =>
        [book' # book => \A s \in open' : \A t \in DOMAIN book.entries[s] :
           Usable(book, s, t) => Registered(book', s, t) /\ Entry(book', s, t).published]_vars
  BY NextHolds DEF RoutesKept
<1> QED
  BY <1>1, InvariantHolds, PTL DEF Spec, RoutesKeepWorking

-----------------------------------------------------------------------------
(* The counts are exact unless a followed redirect is forgotten about, which *)
(* OneWay rules out.                                                         *)

LEMMA NothingIsLost ==
  ASSUME OneWay, IInv, NEW r \in Request
  PROVE  request[r].lost = NothingLost
BY DEF IInv, RequestsFit, Fits, ForgetsNothing

LEMMA ReservedIsHeld ==
  ASSUME OneWay, IInv, NEW s \in Site, NEW a \in Authority
  PROVE  Reserved(s, a) = HeldTable[s][a]
<1> DEFINE R == {x \in Request : request[x].site = s}
<1>1. ASSUME NEW r \in R
      PROVE  HeldOf(request[r], a) + Count(request[r].lost.lease, a) = HeldOf(request[r], a)
  <2>1. Count(request[r].lost.lease, a) = 0
    BY NothingIsLost, CountOfNone DEF NothingLost
  <2>2. PICK n : n = HeldOf(request[r], a) /\ n \in Nat
    BY TermsTyped DEF IInv, RequestsFit
  <2> QED
    BY <2>1, <2>2
<1>2. [r \in R |-> HeldOf(request[r], a) + Count(request[r].lost.lease, a)] = [r \in R |-> HeldOf(request[r], a)]
  BY <1>1
<1>3. Reserved(s, a) = LiveIn(s, a) + HeldBy(book, s, DOMAIN book.entries[s])[a]
  BY ONLY <1>2, Zenon DEF Reserved, LiveIn
<1> QED
  BY <1>3 DEF HeldTable

\* An authority is kept exactly while somebody has it reserved or it was
\* committed, and reserveAuthority, finishLocked and close leave the counts of
\* the runtime what the requests and the provisional tokens really hold, as
\* long as no response of a followed redirect is dropped.
THEOREM AuthoritiesAreCounted == ASSUME OneWay PROVE Spec => []AuthoritiesCounted
<1>1. IInv => AuthoritiesCounted
  <2> SUFFICES ASSUME IInv PROVE AuthoritiesCounted
    OBVIOUS
  <2>1. ASSUME NEW s \in open, NEW a \in Authority
        PROVE  IF IsKnown(s, a)
                 THEN /\ authorities[s][a].inFlight = Reserved(s, a)
                      /\ authorities[s][a].inFlight > 0 \/ authorities[s][a].committed
                      /\ authorities[s][a].inFlight = 0 <=> authorities[s][a].resolution = "none"
                 ELSE Reserved(s, a) = 0
    <3>1. s \in Site
      BY DEF IInv
    <3>2. Reserved(s, a) = HeldTable[s][a]
      BY <3>1, ReservedIsHeld
    <3>3. InFlightFits(HeldTable)
      BY DEF IInv, AuthoritiesFit
    <3> QED
      BY <3>1, <3>2, <3>3 DEF InFlightFits, Covers
  <2>2. \A a \in Authority : known[a] = Cardinality({s \in Site : IsKnown(s, a)})
    BY DEF IInv, AuthoritiesFit, KnownFits
  <2> QED
    BY <2>1, <2>2 DEF AuthoritiesCounted
<1> QED
  BY <1>1, InvariantHolds, PTL

\* A request that has ended holds no stream, no parse and no reservation, and
\* acquireStream and acquireParse count exactly the slots that are held, as
\* long as no response of a followed redirect is dropped.
THEOREM EverythingIsReturned == ASSUME OneWay PROVE Spec => []EverythingReturned
<1>1. IInv => EverythingReturned
  <2> SUFFICES ASSUME IInv PROVE EverythingReturned
    OBVIOUS
  <2>1. \A r \in Request : request[r].lost = NothingLost
    BY NothingIsLost
  <2>2. ASSUME NEW p \in Pool
        PROVE  /\ occupied[p].all = Cardinality(HoldersIn(p))
               /\ \A s \in Site : occupied[p].of[s] = Cardinality(HoldersOf(p, s))
    BY DEF IInv, PoolsFit, Covers
  <2>3. ASSUME NEW s \in open
        PROVE  /\ occupied["streams"].of[s] = Cardinality({r \in Request : request[r].site = s /\ request[r].stream})
               /\ occupied["parses"].of[s] = Cardinality({r \in Request : request[r].site = s /\ request[r].parse})
    <3>1. s \in Site
      BY DEF IInv
    <3>2. /\ HoldersOf("streams", s) = {r \in Request : request[r].site = s /\ request[r].stream}
          /\ HoldersOf("parses", s) = {r \in Request : request[r].site = s /\ request[r].parse}
      BY DEF HoldersOf, Holds
    <3> QED
      BY <3>1, <3>2, <2>2 DEF Pool
  <2>4. ASSUME NEW p \in Pool
        PROVE  occupied[p].all = Cardinality({r \in Request :
                 \/ request[r].half = p
                 \/ IF p = "streams" THEN request[r].stream ELSE request[r].parse})
    BY <2>2 DEF HoldersIn, Holds
  <2> QED
    BY <2>1, <2>3, <2>4 DEF EverythingReturned
<1> QED
  BY <1>1, InvariantHolds, PTL

-----------------------------------------------------------------------------
(* The limits.                                                               *)

AuthoritiesWithin ==
  /\ \A s \in Site : /\ IsFiniteSet(DOMAIN authorities[s])
                     /\ Cardinality(DOMAIN authorities[s]) <= SiteLimits.authorities
                     /\ newOf[s] <= SiteLimits.newAuthorities
  /\ IsFiniteSet(KnownAnywhere) /\ Cardinality(KnownAnywhere) <= GlobalLimits.authorities
  /\ newAll <= GlobalLimits.newAuthorities

CapabilitiesWithin ==
  /\ \A s \in Site : Cardinality(DOMAIN book.entries[s]) <= SiteLimits.capabilities
  /\ book.active <= GlobalLimits.capabilities

SlotsWithin ==
  \A p \in Pool : /\ occupied[p].all <= GlobalLimits[p]
                  /\ \A s \in Site : occupied[p].of[s] <= SiteLimits[p]

Within == AuthoritiesWithin /\ CapabilitiesWithin /\ SlotsWithin

\* Authorities are forgotten, or one more is reserved that there is room for.
AuthoritiesMove ==
  \/ /\ \A s \in Site : DOMAIN authorities'[s] \subseteq DOMAIN authorities[s] /\ newOf'[s] <= newOf[s]
     /\ \A a \in Authority : known'[a] <= known[a]
     /\ newAll' <= newAll
  \/ \E s \in Site : \E a : CanReserve(s, a) /\ ReserveAuthority(s, a)

\* Capabilities are deleted, or one more is registered that there is room for.
BookMoves ==
  \/ \A s \in Site : DOMAIN book'.entries[s] \subseteq DOMAIN book.entries[s]
  \/ \E s \in Site, due \in BOOLEAN : \E k, t, holds :
       HasRoom(Pruned(due), s) /\ book' = Added(Pruned(due), s, k, t, holds)

\* A slot is taken or released, or a site starts with pools of its own.
PoolsMoveSo ==
  \/ UNCHANGED occupied
  \/ \E l \in Pool, s \in Site : Take(l) \/ TakeOfSite(l, s) \/ Release(l, s)
  \/ \E s \in Site : occupied' = [p \in Pool |-> [occupied[p] EXCEPT !.of[s] = 0]]

Moves == AuthoritiesMove /\ BookMoves /\ PoolsMoveSo

LEMMA LimitsAre ==
  /\ SiteLimits.authorities \in Nat /\ GlobalLimits.authorities \in Nat
  /\ SiteLimits.newAuthorities \in Nat /\ GlobalLimits.newAuthorities \in Nat
  /\ SiteLimits.capabilities \in Nat /\ GlobalLimits.capabilities \in Nat
  /\ \A p \in Pool : SiteLimits[p] \in Nat /\ GlobalLimits[p] \in Nat
<1>1. SiteLimits \in [LimitNames -> Nat] /\ GlobalLimits \in [LimitNames -> Nat]
  BY LimitAssumption
<1>2. /\ "authorities" \in LimitNames /\ "newAuthorities" \in LimitNames /\ "capabilities" \in LimitNames
      /\ \A p \in Pool : p \in LimitNames
  BY DEF LimitNames
<1> QED
  BY <1>1, <1>2

\* A set that loses members, or gains one that there is room for.
LEMMA SmallerStays ==
  ASSUME NEW S, NEW T, IsFiniteSet(S), T \subseteq S, NEW n \in Nat, Cardinality(S) <= n
  PROVE  IsFiniteSet(T) /\ Cardinality(T) <= n
<1>1. IsFiniteSet(T) /\ Cardinality(T) <= Cardinality(S) /\ Cardinality(T) \in Nat /\ Cardinality(S) \in Nat
  BY FS_Subset, FS_CardinalityType
<1> QED
  BY <1>1

LEMMA OneMoreStays ==
  ASSUME NEW S, NEW T, NEW x, IsFiniteSet(S), T \subseteq S \union {x}, NEW n \in Nat, Cardinality(S) < n
  PROVE  IsFiniteSet(T) /\ Cardinality(T) <= n
<1>1. /\ IsFiniteSet(S \union {x}) /\ Cardinality(S) \in Nat
      /\ Cardinality(S \union {x}) = IF x \in S THEN Cardinality(S) ELSE Cardinality(S) + 1
  BY FS_AddElement, FS_CardinalityType
<1>2. Cardinality(S \union {x}) <= n
  BY <1>1
<1> QED
  BY <1>1, <1>2, SmallerStays

\* reserveAuthority asks for room first; finishLocked and close only forget.
LEMMA AuthoritiesStayWithin ==
  ASSUME AuthoritiesTyped, AuthoritiesWithin, AuthoritiesTyped', AuthoritiesMove
  PROVE  AuthoritiesWithin'
<1>1. /\ \A a \in Authority : known[a] \in Nat /\ known'[a] \in Nat
      /\ \A s \in Site : newOf[s] \in Nat /\ newOf'[s] \in Nat
      /\ newAll \in Nat /\ newAll' \in Nat
  BY DEF AuthoritiesTyped
<1>2. CASE /\ \A s \in Site : DOMAIN authorities'[s] \subseteq DOMAIN authorities[s] /\ newOf'[s] <= newOf[s]
           /\ \A a \in Authority : known'[a] <= known[a]
           /\ newAll' <= newAll
  <2>1. ASSUME NEW s \in Site
        PROVE  /\ IsFiniteSet(DOMAIN authorities'[s])
               /\ Cardinality(DOMAIN authorities'[s]) <= SiteLimits.authorities
               /\ newOf'[s] <= SiteLimits.newAuthorities
    <3>1. newOf'[s] <= newOf[s] /\ newOf[s] <= SiteLimits.newAuthorities
      BY <1>2 DEF AuthoritiesWithin
    <3>2. newOf'[s] <= SiteLimits.newAuthorities
      BY <3>1, <1>1, LimitsAre
    <3> QED
      BY <1>2, <3>2, LimitsAre, SmallerStays DEF AuthoritiesWithin
  <2>2. KnownAnywhere' \subseteq KnownAnywhere
    BY <1>1, <1>2 DEF KnownAnywhere
  <2>3. IsFiniteSet(KnownAnywhere') /\ Cardinality(KnownAnywhere') <= GlobalLimits.authorities
    BY <2>2, LimitsAre, SmallerStays DEF AuthoritiesWithin
  <2>4. newAll' <= GlobalLimits.newAuthorities
    BY <1>1, <1>2, LimitsAre DEF AuthoritiesWithin
  <2> QED
    BY <2>1, <2>3, <2>4 DEF AuthoritiesWithin
<1>3. ASSUME NEW s \in Site, NEW a, CanReserve(s, a), ReserveAuthority(s, a)
      PROVE  AuthoritiesWithin'
  <2>1. CASE IsKnown(s, a)
    <3>1. \A x \in Site : DOMAIN authorities'[x] = DOMAIN authorities[x]
      BY <2>1, <1>3 DEF ReserveAuthority, IsKnown, AuthoritiesTyped
    <3>2. UNCHANGED <<known, newOf, newAll>>
      BY <2>1, <1>3 DEF ReserveAuthority
    <3> QED
      BY <3>1, <3>2 DEF AuthoritiesWithin, KnownAnywhere
  <2>2. CASE ~IsKnown(s, a)
    <3>1. /\ Cardinality(DOMAIN authorities[s]) < SiteLimits.authorities
          /\ known[a] = 0 => Cardinality(KnownAnywhere) < GlobalLimits.authorities
          /\ newOf[s] < SiteLimits.newAuthorities
          /\ known[a] = 0 => newAll < GlobalLimits.newAuthorities
      BY <2>2, <1>3 DEF CanReserve
    <3>2. /\ DOMAIN authorities'[s] = DOMAIN authorities[s] \union {a}
          /\ \A x \in Site \ {s} : authorities'[x] = authorities[x]
      BY <2>2, <1>3 DEF ReserveAuthority, AuthoritiesTyped, Put
    <3>3. newOf' = [newOf EXCEPT ![s] = @ + 1] /\ known' = [known EXCEPT ![a] = @ + 1]
          /\ newAll' = IF known[a] = 0 THEN newAll + 1 ELSE newAll
      BY <2>2, <1>3 DEF ReserveAuthority
    <3>4. ASSUME NEW x \in Site
          PROVE  /\ IsFiniteSet(DOMAIN authorities'[x])
                 /\ Cardinality(DOMAIN authorities'[x]) <= SiteLimits.authorities
                 /\ newOf'[x] <= SiteLimits.newAuthorities
      <4>1. CASE x = s
        <5>1. IsFiniteSet(DOMAIN authorities'[s]) /\ Cardinality(DOMAIN authorities'[s]) <= SiteLimits.authorities
          BY <3>1, <3>2, LimitsAre, OneMoreStays DEF AuthoritiesWithin
        <5>2. newOf'[s] = newOf[s] + 1
          BY <3>3 DEF AuthoritiesTyped
        <5>3. newOf'[s] <= SiteLimits.newAuthorities
          BY <5>2, <3>1, <1>1, LimitsAre
        <5> QED
          BY <4>1, <5>1, <5>3
      <4>2. CASE x # s
        <5>1. newOf'[x] = newOf[x] /\ authorities'[x] = authorities[x]
          BY <4>2, <3>2, <3>3 DEF AuthoritiesTyped
        <5> QED
          BY <5>1 DEF AuthoritiesWithin
      <4> QED
        BY <4>1, <4>2
    <3>5. IsFiniteSet(KnownAnywhere') /\ Cardinality(KnownAnywhere') <= GlobalLimits.authorities
      <4>1. \A y \in Authority : y # a => known'[y] = known[y]
        BY <3>3 DEF AuthoritiesTyped
      <4>2. KnownAnywhere' \subseteq KnownAnywhere \union {a}
        BY <4>1 DEF KnownAnywhere
      <4>3. CASE known[a] = 0
        BY <4>2, <4>3, <3>1, LimitsAre, OneMoreStays DEF AuthoritiesWithin
      <4>4. CASE known[a] # 0
        <5>1. KnownAnywhere' \subseteq KnownAnywhere
          BY <4>2, <4>4, <1>1 DEF KnownAnywhere
        <5> QED
          BY <5>1, LimitsAre, SmallerStays DEF AuthoritiesWithin
      <4> QED
        BY <4>3, <4>4
    <3>6. newAll' <= GlobalLimits.newAuthorities
      BY <3>1, <3>3, <1>1, LimitsAre DEF AuthoritiesWithin
    <3> QED
      BY <3>4, <3>5, <3>6 DEF AuthoritiesWithin
  <2> QED
    BY <2>1, <2>2
<1> QED
  BY <1>2, <1>3 DEF AuthoritiesMove

\* registerCapability asks for room first; the others only delete.
LEMMA CapabilitiesStayWithin ==
  ASSUME IInv, CapabilitiesWithin, IInv', BookMoves
  PROVE  CapabilitiesWithin'
<1>1. PICK b, c : b = book /\ c = book'
  OBVIOUS
<1>2. \A s \in Site : IsFiniteSet(DOMAIN b.entries[s])
  <2> SUFFICES ASSUME NEW s \in Site PROVE IsFiniteSet(DOMAIN b.entries[s])
    OBVIOUS
  <2>1. DOMAIN b.entries[s] \subseteq 1..issued /\ issued \in 0..MaxToken
    BY <1>1 DEF IInv, BookFits, BookTyped
  <2>2. IsFiniteSet(1..issued)
    BY <2>1, LimitAssumption, FS_Interval
  <2> QED
    BY <2>1, <2>2, FS_Subset
<1>3. b.active = Cardinality(PairsOf(b)) /\ c.active = Cardinality(PairsOf(c))
  BY <1>1 DEF IInv, BookFits, ActiveFits, PairsOf
<1>4. /\ \A s \in Site : Cardinality(DOMAIN b.entries[s]) <= SiteLimits.capabilities
      /\ Cardinality(PairsOf(b)) <= GlobalLimits.capabilities
  BY <1>1, <1>3 DEF CapabilitiesWithin
<1>5. CASE \A s \in Site : DOMAIN c.entries[s] \subseteq DOMAIN b.entries[s]
  <2>1. \A s \in Site : Cardinality(DOMAIN c.entries[s]) <= SiteLimits.capabilities
    BY <1>2, <1>4, <1>5, LimitsAre, SmallerStays
  <2>2. PairsOf(c) \subseteq PairsOf(b)
    BY <1>5 DEF PairsOf
  <2>3. c.active <= GlobalLimits.capabilities
    BY <1>3, <1>4, <2>2, LimitsAre, PairsAreFinite, SmallerStays
  <2> QED
    BY <1>1, <2>1, <2>3 DEF CapabilitiesWithin
<1>6. ASSUME NEW s \in Site, NEW due \in BOOLEAN, NEW k, NEW t, NEW holds,
             HasRoom(Pruned(due), s), c = Added(Pruned(due), s, k, t, holds)
      PROVE  CapabilitiesWithin'
  <2>1. PICK d : d = Pruned(due)
    OBVIOUS
  <2>2. BookTyped(d, issued) /\ \A x \in Site : DOMAIN d.entries[x] \subseteq DOMAIN b.entries[x]
    BY <1>1, <2>1, BookNow DEF BookFits, Thins
  <2>3. c = Added(d, s, k, t, holds) /\ HasRoom(d, s)
    BY <1>6, <2>1
  <2>4. /\ DOMAIN c.entries[s] = DOMAIN d.entries[s] \union {t}
        /\ \A x \in Site \ {s} : DOMAIN c.entries[x] = DOMAIN d.entries[x]
        /\ c.active = d.active + 1
    BY <2>2, <2>3 DEF Added, Put, BookTyped
  <2>5. ASSUME NEW x \in Site PROVE Cardinality(DOMAIN c.entries[x]) <= SiteLimits.capabilities
    <3>1. CASE x = s
      <4>1. IsFiniteSet(DOMAIN d.entries[s])
        BY <1>2, <2>2, FS_Subset
      <4> QED
        BY <3>1, <4>1, <2>3, <2>4, LimitsAre, OneMoreStays DEF HasRoom
    <3>2. CASE x # s
      BY <3>2, <1>2, <1>4, <2>2, <2>4, LimitsAre, SmallerStays
    <3> QED
      BY <3>1, <3>2
  <2>6. c.active <= GlobalLimits.capabilities
    <3>1. d.active < GlobalLimits.capabilities /\ d.active \in Nat
      BY <2>2, <2>3 DEF HasRoom, BookTyped
    <3> QED
      BY <3>1, <2>4, LimitsAre
  <2> QED
    BY <1>1, <2>5, <2>6 DEF CapabilitiesWithin
<1> QED
  BY <1>1, <1>5, <1>6 DEF BookMoves

\* acquireStream and acquireParse take a slot of a channel that has one left.
LEMMA SlotsStayWithin ==
  ASSUME PoolsFit, DOMAIN occupied = Pool, SlotsWithin, PoolsMoveSo
  PROVE  SlotsWithin'
<1>1. /\ \A p \in Pool : occupied[p] \in [all : Nat, of : [Site -> Nat]]
      /\ \A p \in Pool : occupied[p].all \in Nat
      /\ \A p \in Pool : \A s \in Site : occupied[p].of[s] \in Nat
  BY DEF PoolsFit
<1>2. CASE UNCHANGED occupied
  BY <1>2 DEF SlotsWithin
<1>3. ASSUME NEW l \in Pool, NEW s \in Site, Take(l) \/ TakeOfSite(l, s) \/ Release(l, s)
      PROVE  SlotsWithin'
  <2>1. \A k \in Pool \ {l} : occupied'[k] = occupied[k]
    BY <1>1, <1>3, PoolsMove
  <2>2. PICK i, j : i = occupied[l].all /\ j = occupied[l].of[s]
    OBVIOUS
  <2>3. i \in Nat /\ j \in Nat /\ i <= GlobalLimits[l] /\ j <= SiteLimits[l]
    BY <1>1, <2>2 DEF SlotsWithin
  <2>4. \/ PoolMoves(l, s, 1, 0) /\ i < GlobalLimits[l]
        \/ PoolMoves(l, s, 0, 1) /\ j < SiteLimits[l]
        \/ PoolMoves(l, s, -1, 0) \/ PoolMoves(l, s, -1, -1)
    BY <1>1, <1>3, <2>2, PoolsMove DEF Take
  <2>5. PICK n, m \in Nat : n = GlobalLimits[l] /\ m = SiteLimits[l]
    BY LimitsAre
  <2>6. occupied'[l].all <= n /\ occupied'[l].of[s] <= m /\ \A x \in Site \ {s} : occupied'[l].of[x] = occupied[l].of[x]
    BY <2>2, <2>3, <2>4, <2>5 DEF PoolMoves
  <2>7. \A x \in Site : occupied'[l].of[x] <= m
    BY <2>5, <2>6 DEF SlotsWithin
  <2> QED
    BY <2>1, <2>5, <2>6, <2>7 DEF SlotsWithin
<1>4. ASSUME NEW s \in Site, occupied' = [p \in Pool |-> [occupied[p] EXCEPT !.of[s] = 0]]
      PROVE  SlotsWithin'
  <2> SUFFICES ASSUME NEW p \in Pool
               PROVE  occupied'[p].all <= GlobalLimits[p] /\ \A x \in Site : occupied'[p].of[x] <= SiteLimits[p]
    BY DEF SlotsWithin
  <2>1. occupied'[p] = [occupied[p] EXCEPT !.of[s] = 0]
    BY <1>4
  <2>2. /\ occupied'[p].all = occupied[p].all
        /\ \A x \in Site : occupied'[p].of[x] = IF x = s THEN 0 ELSE occupied[p].of[x]
    BY <1>1, <2>1
  <2> QED
    BY <2>2, LimitsAre DEF SlotsWithin
<1> QED
  BY <1>2, <1>3, <1>4 DEF PoolsMoveSo

\* The steps on the authorities.
LEMMA AuthoritiesStay ==
  ASSUME AuthoritiesTyped, UNCHANGED authorityVars
  PROVE  AuthoritiesMove
<1>1. authorities' = authorities /\ known' = known /\ newOf' = newOf /\ newAll' = newAll
  BY DEF authorityVars
<1>2. /\ \A a \in Authority : known[a] \in Nat
      /\ \A s \in Site : newOf[s] \in Nat
      /\ newAll \in Nat
  BY DEF AuthoritiesTyped
<1>3. (\A a \in Authority : known[a] <= known[a]) /\ (\A s \in Site : newOf[s] <= newOf[s]) /\ newAll <= newAll
  BY ONLY <1>2
<1> QED
  BY <1>1, <1>3 DEF AuthoritiesMove

LEMMA FinishMoves ==
  ASSUME AuthoritiesTyped, NEW s \in Site, NEW n, NEW commit, FinishAuthorities(s, n, commit)
  PROVE  AuthoritiesMove
<1>1. PICK gone : gone = Forgotten(s, n, commit)
  OBVIOUS
<1>2. /\ authorities' = [authorities EXCEPT ![s] =
           [a \in DOMAIN authorities[s] \ gone |-> EntryAfter(authorities[s][a], n[a], commit)]]
      /\ known' = [a \in Authority |-> IF a \in gone THEN known[a] - 1 ELSE known[a]]
      /\ newOf' = newOf /\ newAll' = newAll
  BY <1>1 DEF FinishAuthorities
<1>3. \A x \in Site : DOMAIN authorities'[x] \subseteq DOMAIN authorities[x]
  BY <1>2 DEF AuthoritiesTyped
<1>4. /\ \A a \in Authority : known[a] \in Nat
      /\ \A x \in Site : newOf[x] \in Nat
      /\ newAll \in Nat
  BY DEF AuthoritiesTyped
<1>5. ASSUME NEW a \in Authority PROVE known'[a] <= known[a]
  <2>1. known'[a] = IF a \in gone THEN known[a] - 1 ELSE known[a]
    BY <1>2
  <2> QED
    BY <1>4, <2>1
<1>6. (\A x \in Site : newOf'[x] <= newOf[x]) /\ newAll' <= newAll
  BY <1>2, <1>4
<1> QED
  BY <1>3, <1>5, <1>6 DEF AuthoritiesMove

\* A new resolution changes nothing that is counted.
LEMMA ResolutionMoves ==
  ASSUME AuthoritiesTyped, NEW s \in Site, NEW a, NEW answer,
         authorities' = [authorities EXCEPT ![s][a].resolution = answer], UNCHANGED <<known, newOf, newAll>>
  PROVE  AuthoritiesMove
<1>1. PICK f, g : f = authorities /\ g = authorities'
  OBVIOUS
<1>2. DOMAIN f = Site /\ g = [f EXCEPT ![s] = [f[s] EXCEPT ![a] = [f[s][a] EXCEPT !.resolution = answer]]]
  BY <1>1 DEF AuthoritiesTyped
<1>3. \A x \in Site : DOMAIN g[x] = DOMAIN f[x]
  BY ONLY <1>2
<1>4. /\ \A x \in Authority : known[x] \in Nat
      /\ \A x \in Site : newOf[x] \in Nat
      /\ newAll \in Nat
  BY DEF AuthoritiesTyped
<1>5. (\A x \in Authority : known'[x] <= known[x]) /\ (\A x \in Site : newOf'[x] <= newOf[x]) /\ newAll' <= newAll
  BY <1>4
<1> QED
  BY <1>1, <1>3, <1>5 DEF AuthoritiesMove

LEMMA ReserveMoves ==
  ASSUME AuthoritiesTyped, NEW r \in Request, request[r].site \in Site, NEW q, Reserve(r, q)
  PROVE  AuthoritiesMove
<1>1. CASE UNCHANGED authorityVars
  BY <1>1, AuthoritiesStay
<1>2. ASSUME CanReserve(request[r].site, AuthorityOf[q.key.target]),
             ReserveAuthority(request[r].site, AuthorityOf[q.key.target])
      PROVE  AuthoritiesMove
  BY <1>2 DEF AuthoritiesMove
<1> QED
  BY <1>1, <1>2 DEF Reserve

LEMMA MintFromMoves ==
  ASSUME AuthoritiesTyped, NEW r \in Request, request[r].site \in Site, NEW q, NEW key, MintFrom(r, q, key)
  PROVE  AuthoritiesMove
BY AuthoritiesStay, ReserveMoves DEF MintFrom

\* The steps on the book.
LEMMA BookStays ==
  ASSUME UNCHANGED book
  PROVE  BookMoves
BY DEF BookMoves

LEMMA ThinBook ==
  ASSUME Thins(book, book')
  PROVE  BookMoves
BY DEF BookMoves, Thins

LEMMA BorrowedMoves ==
  ASSUME IInv, NEW due \in BOOLEAN, NEW s \in Site, NEW t, book' = Borrowed(Pruned(due), s, t)
  PROVE  BookMoves
<1>1. PICK b, c : b = Pruned(due) /\ c = book'
  OBVIOUS
<1>2. BookTyped(b, issued) /\ \A x \in Site : DOMAIN b.entries[x] \subseteq DOMAIN book.entries[x]
  BY <1>1, BookNow DEF BookFits, Thins
<1>3. PICK f, i, k : b = [entries |-> f, index |-> i, active |-> k] /\ f = b.entries /\ DOMAIN f = Site
  BY <1>2 DEF BookTyped
<1>4. c = [entries |-> [f EXCEPT ![s] = [f[s] EXCEPT ![t] = [f[s][t] EXCEPT !.pending = @ + 1]]], index |-> i, active |-> k]
  BY <1>1, <1>3 DEF Borrowed
<1>5. \A x \in Site : DOMAIN c.entries[x] = DOMAIN f[x]
  BY ONLY <1>3, <1>4
<1> QED
  BY <1>1, <1>2, <1>3, <1>5 DEF BookMoves

LEMMA SettleMoves ==
  ASSUME IInv, NEW s \in Site, NEW n, NEW publish, Settle(s, n, publish)
  PROVE  AuthoritiesMove /\ BookMoves
<1>1. PICK c : c = book'
  OBVIOUS
<1>2. PICK f, i, k : book = [entries |-> f, index |-> i, active |-> k] /\ f = book.entries /\ DOMAIN f = Site
  BY DEF IInv, BookFits, BookTyped
<1>3. AuthoritiesTyped
  BY DEF IInv, AuthoritiesFit
<1>4. AuthoritiesMove
  BY <1>3, FinishMoves DEF Settle
<1>5. CASE c = Published(s, n)
  <2>1. PICK g : g = [t \in DOMAIN f[s] |-> IF t \in Settled(s, n) THEN Made(Entry(book, s, t), n[t]) ELSE Entry(book, s, t)]
    OBVIOUS
  <2>2. c = [entries |-> [f EXCEPT ![s] = g], index |-> i, active |-> k]
    BY <1>2, <1>5, <2>1 DEF Published
  <2>3. DOMAIN g = DOMAIN f[s]
    BY <2>1
  <2>4. \A x \in Site : DOMAIN c.entries[x] = DOMAIN f[x]
    BY ONLY <1>2, <2>2, <2>3
  <2> QED
    BY <1>1, <1>2, <1>4, <2>4 DEF BookMoves
<1>6. CASE c = GivenBack(s, n)
  <2>1. PICK g : g = [t \in DOMAIN f[s] |-> IF t \in Settled(s, n) THEN Without(Entry(book, s, t), n[t]) ELSE Entry(book, s, t)]
    OBVIOUS
  <2>2. PICK d : d = [entries |-> [f EXCEPT ![s] = g], index |-> i, active |-> k]
    OBVIOUS
  <2>3. c = Deleted(d, At(s, Withdrawn(s, n)))
    BY <1>2, <1>6, <2>1, <2>2 DEF GivenBack
  <2>4. DOMAIN g = DOMAIN f[s]
    BY <2>1
  <2>5. \A x \in Site : DOMAIN d.entries[x] = DOMAIN f[x]
    BY ONLY <1>2, <2>2, <2>4
  <2>6. PICK gone : Leaves(d, gone, c)
    BY <2>3, DeletedLeaves
  <2>7. \A x \in Site : DOMAIN c.entries[x] \subseteq DOMAIN d.entries[x]
    BY <2>6 DEF Leaves
  <2> QED
    BY <1>1, <1>2, <1>4, <2>5, <2>7 DEF BookMoves
<1> QED
  BY <1>1, <1>4, <1>5, <1>6 DEF Settle

\* The steps on the pools.
LEMMA TakeFirstMoves ==
  ASSUME NEW r, NEW l \in Pool, NEW q, request[r].site \in Site, TakeFirst(r, l, q)
  PROVE  PoolsMoveSo
BY DEF TakeFirst, PoolsMoveSo

\* What the three lemmas about a step need.
LEMMA Settings ==
  ASSUME IInv, NEW r \in Request
  PROVE  AuthoritiesTyped /\ request[r].site \in Site
BY RequestIs DEF IInv, AuthoritiesFit

\* A request follows redirects, or ends.
LEMMA FollowsMoves ==
  ASSUME IInv, NEW r \in Request, Follows(r)
  PROVE  Moves
<1>1. AuthoritiesTyped /\ request[r].site \in Site
  BY Settings
<1>2. CASE HandBack(r) \/ RefuseAnswer(r) \/ Connect(r) \/ ConnectFails(r)
  <2>1. UNCHANGED <<authorityVars, book, occupied>>
    BY <1>2 DEF HandBack, RefuseAnswer, Connect, ConnectFails, stateVars
  <2> QED
    BY <1>1, <2>1, AuthoritiesStay, BookStays DEF Moves, PoolsMoveSo
<1>3. CASE StreamForRedirect(r)
  <2>1. UNCHANGED <<authorityVars, book>>
    BY <1>3 DEF StreamForRedirect
  <2>2. PoolsMoveSo
    <3>1. CASE UNCHANGED occupied
      BY <3>1 DEF PoolsMoveSo
    <3>2. CASE TakeFirst(r, "streams", request[r])
      BY <1>1, <3>2, TakeFirstMoves DEF Pool
    <3> QED
      BY <1>3, <3>1, <3>2 DEF StreamForRedirect
  <2> QED
    BY <1>1, <2>1, <2>2, AuthoritiesStay, BookStays DEF Moves
<1>4. CASE CommitDirect(r)
  <2>1. UNCHANGED <<book, occupied>> /\ FinishAuthorities(request[r].site, One(request[r].res), TRUE)
    BY <1>4 DEF CommitDirect
  <2> QED
    BY <1>1, <2>1, FinishMoves, BookStays DEF Moves, PoolsMoveSo
<1>5. CASE PublishRedirect(r)
  <2>1. UNCHANGED occupied /\ Settle(request[r].site, Uses(request[r]), TRUE)
    BY <1>5 DEF PublishRedirect
  <2> QED
    BY <1>1, <2>1, SettleMoves DEF Moves, PoolsMoveSo
<1>6. ASSUME NEW t \in Target, FollowRedirect(r, t) \/ DirectRedirect(r, t) \/ MintRedirect(r, t)
      PROVE  Moves
  <2>1. PICK doing : Redirected(r, t, doing)
    BY <1>6 DEF FollowRedirect, DirectRedirect, MintRedirect
  <2>2. /\ UNCHANGED <<book, occupied>>
        /\ Reserve(r, [request[r] EXCEPT !.doing = doing, !.key = [target |-> t, depth |-> 0]])
    BY <2>1 DEF Redirected
  <2> QED
    BY <1>1, <2>2, ReserveMoves, BookStays DEF Moves, PoolsMoveSo
<1> QED
  BY <1>2, <1>3, <1>4, <1>5, <1>6 DEF Follows

\* A client presents a capability.
LEMMA ServesMoves ==
  ASSUME IInv, NEW r \in Request, Serves(r)
  PROVE  Moves
<1>1. AuthoritiesTyped /\ request[r].site \in Site
  BY Settings
<1>2. CASE ReservePresented(r)
  <2>1. UNCHANGED <<book, occupied>> /\ Reserve(r, request[r])
    BY <1>2 DEF ReservePresented
  <2> QED
    BY <1>1, <2>1, ReserveMoves, BookStays DEF Moves, PoolsMoveSo
<1>3. CASE Admit(r)
  <2>1. UNCHANGED <<authorityVars, book>>
    BY <1>3 DEF Admit
  <2>2. PoolsMoveSo
    <3>1. CASE UNCHANGED occupied
      BY <3>1 DEF PoolsMoveSo
    <3>2. CASE TakeFirst(r, "streams", request[r])
      BY <1>1, <3>2, TakeFirstMoves DEF Pool
    <3> QED
      BY <1>3, <3>1, <3>2 DEF Admit
  <2> QED
    BY <1>1, <2>1, <2>2, AuthoritiesStay, BookStays DEF Moves
<1>4. CASE Use(r)
  <2>1. UNCHANGED <<authorityVars, occupied>>
    BY <1>4 DEF Use
  <2>2. PICK due \in BOOLEAN : book' = LookedUp(Pruned(due), request[r].site, request[r].served)
    BY <1>4 DEF Use
  <2>3. Thins(book, book')
    BY <1>1, <2>2, LookedUpNow
  <2> QED
    BY <1>1, <2>1, <2>3, ThinBook, AuthoritiesStay DEF Moves, PoolsMoveSo
<1>5. ASSUME NEW t \in Token, Present(r, t) PROVE Moves
  <2>1. UNCHANGED <<authorityVars, occupied>>
    BY <1>5 DEF Present
  <2>2. PICK due \in BOOLEAN : book' = LookedUp(Pruned(due), request[r].site, t)
    BY <1>5 DEF Present
  <2>3. Thins(book, book')
    BY <1>1, <2>2, LookedUpNow
  <2> QED
    BY <1>1, <2>1, <2>3, ThinBook, AuthoritiesStay DEF Moves, PoolsMoveSo
<1> QED
  BY <1>2, <1>3, <1>4, <1>5 DEF Serves

\* A document is rewritten.
LEMMA RewritesMoves ==
  ASSUME IInv, NEW r \in Request, Rewrites(r)
  PROVE  Moves
<1>1. AuthoritiesTyped /\ request[r].site \in Site
  BY Settings
<1>2. CASE LookShallower(r)
  <2>1. UNCHANGED occupied
    BY <1>2 DEF LookShallower
  <2>2. PICK due \in BOOLEAN :
          \/ /\ \E t \in Reusable(Pruned(due), request[r].site, request[r].key) :
                     book' = Borrowed(Pruned(due), request[r].site, t)
             /\ UNCHANGED authorityVars
          \/ /\ Reusable(Pruned(due), request[r].site, request[r].key) = {}
             /\ book' = Unmapped(Pruned(due), request[r].site, request[r].key)
             /\ \/ UNCHANGED authorityVars
                \/ MintFrom(r, request[r], [request[r].key EXCEPT !.depth = @ + 1])
    BY <1>2 DEF LookShallower
  <2>3. ASSUME NEW t, book' = Borrowed(Pruned(due), request[r].site, t), UNCHANGED authorityVars PROVE Moves
    BY <1>1, <2>1, <2>3, BorrowedMoves, AuthoritiesStay DEF Moves, PoolsMoveSo
  <2>4. ASSUME Reusable(Pruned(due), request[r].site, request[r].key) = {},
               book' = Unmapped(Pruned(due), request[r].site, request[r].key),
               \/ UNCHANGED authorityVars
               \/ MintFrom(r, request[r], [request[r].key EXCEPT !.depth = @ + 1])
        PROVE  Moves
    <3>1. Thins(book, book')
      BY <1>1, <2>4, UnmappedNow
    <3>2. AuthoritiesMove
      BY <1>1, <2>4, AuthoritiesStay, MintFromMoves
    <3> QED
      BY <2>1, <3>1, <3>2, ThinBook DEF Moves, PoolsMoveSo
  <2> QED
    BY <2>2, <2>3, <2>4
<1>3. CASE ReserveBorrowed(r)
  <2>1. UNCHANGED <<book, occupied>> /\ Reserve(r, request[r])
    BY <1>3 DEF ReserveBorrowed
  <2> QED
    BY <1>1, <2>1, ReserveMoves, BookStays DEF Moves, PoolsMoveSo
<1>4. CASE KeepBorrowed(r)
  <2>1. UNCHANGED <<book, occupied>> /\ FinishAuthorities(request[r].site, One(request[r].res), FALSE)
    BY <1>4 DEF KeepBorrowed
  <2> QED
    BY <1>1, <2>1, FinishMoves, BookStays DEF Moves, PoolsMoveSo
<1>5. CASE ReturnBorrowed(r)
  <2>1. UNCHANGED occupied /\ Settle(request[r].site, OneUse(request[r].token), FALSE)
    BY <1>5 DEF ReturnBorrowed
  <2> QED
    BY <1>1, <2>1, SettleMoves DEF Moves, PoolsMoveSo
<1>6. CASE Accept(r)
  <2>1. UNCHANGED <<authorityVars, occupied>>
    BY <1>6 DEF Accept
  <2>2. PICK due \in BOOLEAN : book' = LookedUp(Pruned(due), request[r].site, request[r].served)
    BY <1>6 DEF Accept
  <2>3. Thins(book, book')
    BY <1>1, <2>2, LookedUpNow
  <2> QED
    BY <1>1, <2>1, <2>3, ThinBook, AuthoritiesStay DEF Moves, PoolsMoveSo
<1>7. CASE CommitRewrite(r)
  <2>1. UNCHANGED occupied /\ Settle(request[r].site, Uses(request[r]), TRUE)
    BY <1>7 DEF CommitRewrite
  <2> QED
    BY <1>1, <2>1, SettleMoves DEF Moves, PoolsMoveSo
<1>8. ASSUME NEW t \in Target, Discover(r, t) PROVE Moves
  <2>1. UNCHANGED <<book, occupied>>
    BY <1>8 DEF Discover
  <2>2. PICK q, key : UNCHANGED authorityVars \/ MintFrom(r, q, key)
    BY <1>8 DEF Discover
  <2> QED
    BY <1>1, <2>1, <2>2, MintFromMoves, AuthoritiesStay, BookStays DEF Moves, PoolsMoveSo
<1>9. ASSUME NEW lenient \in BOOLEAN, Abort(r, lenient) PROVE Moves
  <2>1. UNCHANGED occupied /\ Settle(request[r].site, Uses(request[r]), FALSE)
    BY <1>9 DEF Abort
  <2> QED
    BY <1>1, <2>1, SettleMoves DEF Moves, PoolsMoveSo
<1> QED
  BY <1>2, <1>3, <1>4, <1>5, <1>6, <1>7, <1>8, <1>9 DEF Rewrites

\* A capability is minted.
LEMMA MintsMoves ==
  ASSUME IInv, NEW r \in Request, Mints(r)
  PROVE  Moves
<1>1. AuthoritiesTyped /\ request[r].site \in Site
  BY Settings
<1>2. CASE MintReuses(r)
  <2>1. UNCHANGED <<authorityVars, occupied>>
    BY <1>2 DEF MintReuses
  <2>2. PICK due \in BOOLEAN : \E t : book' = Borrowed(Pruned(due), request[r].site, t)
    BY <1>2 DEF MintReuses
  <2> QED
    BY <1>1, <2>1, <2>2, BorrowedMoves, AuthoritiesStay DEF Moves, PoolsMoveSo
<1>3. CASE MintFindsNone(r)
  <2>1. UNCHANGED <<authorityVars, occupied>>
    BY <1>3 DEF MintFindsNone
  <2>2. PICK due \in BOOLEAN : /\ Reusable(Pruned(due), request[r].site, request[r].key) = {}
                               /\ book' = Unmapped(Pruned(due), request[r].site, request[r].key)
    BY <1>3 DEF MintFindsNone
  <2>3. Thins(book, book')
    BY <1>1, <2>2, UnmappedNow
  <2> QED
    BY <1>1, <2>1, <2>3, ThinBook, AuthoritiesStay DEF Moves, PoolsMoveSo
<1>4. CASE Register(r)
  <2>1. UNCHANGED <<authorityVars, occupied>>
    BY <1>4 DEF Register
  <2>2. PICK due \in BOOLEAN :
          \/ \E t : book' = Joined(Pruned(due), request[r].site, t)
          \/ \E k, t, holds : /\ HasRoom(Pruned(due), request[r].site)
                              /\ book' = Added(Pruned(due), request[r].site, k, t, holds)
          \/ book' = Pruned(due)
    BY <1>4 DEF Register
  <2>3. BookMoves
    <3>1. ASSUME NEW t, book' = Joined(Pruned(due), request[r].site, t) PROVE BookMoves
      BY <1>1, <3>1, BorrowedMoves DEF Joined
    <3>2. ASSUME NEW k, NEW t, NEW holds, HasRoom(Pruned(due), request[r].site),
                 book' = Added(Pruned(due), request[r].site, k, t, holds)
          PROVE  BookMoves
      BY <1>1, <3>2 DEF BookMoves
    <3>3. CASE book' = Pruned(due)
      BY <3>3, BookNow, ThinBook
    <3> QED
      BY <2>2, <3>1, <3>2, <3>3
  <2> QED
    BY <1>1, <2>1, <2>3, AuthoritiesStay DEF Moves, PoolsMoveSo
<1>5. CASE SealFails(r)
  <2>1. UNCHANGED <<authorityVars, book, occupied>>
    BY <1>5 DEF SealFails, stateVars
  <2> QED
    BY <1>1, <2>1, AuthoritiesStay, BookStays DEF Moves, PoolsMoveSo
<1>6. CASE MintUndoes(r)
  <2>1. UNCHANGED <<book, occupied>> /\ FinishAuthorities(request[r].site, One(request[r].res), FALSE)
    BY <1>6 DEF MintUndoes
  <2> QED
    BY <1>1, <2>1, FinishMoves, BookStays DEF Moves, PoolsMoveSo
<1> QED
  BY <1>2, <1>3, <1>4, <1>5, <1>6 DEF Mints

\* An authority is resolved.
LEMMA ResolvesMoves ==
  ASSUME IInv, NEW r \in Request, Resolves(r)
  PROVE  Moves
<1>1. AuthoritiesTyped /\ request[r].site \in Site
  BY Settings
<1>2. CASE Resolve(r)
  <2>1. /\ UNCHANGED <<known, newOf, newAll, book, occupied>>
        /\ authorities' = [authorities EXCEPT ![request[r].site][request[r].res].resolution = "known"]
    BY <1>2 DEF Resolve
  <2> QED
    BY <1>1, <2>1, ResolutionMoves, BookStays DEF Moves, PoolsMoveSo
<1>3. CASE ResolverFails(r)
  <2>1. /\ UNCHANGED <<known, newOf, newAll, book, occupied>>
        /\ authorities' = [authorities EXCEPT ![request[r].site][request[r].res].resolution = "failed"]
    BY <1>3 DEF ResolverFails
  <2> QED
    BY <1>1, <2>1, ResolutionMoves, BookStays DEF Moves, PoolsMoveSo
<1>4. CASE ResolveFails(r)
  <2>1. UNCHANGED <<book, occupied>> /\ FinishAuthorities(request[r].site, One(request[r].res), FALSE)
    BY <1>4 DEF ResolveFails
  <2> QED
    BY <1>1, <2>1, FinishMoves, BookStays DEF Moves, PoolsMoveSo
<1> QED
  BY <1>2, <1>3, <1>4 DEF Resolves

\* A request lets go of something.
LEMMA LetsGoMoves ==
  ASSUME IInv, NEW r \in Request, LetsGo(r)
  PROVE  Moves
<1>1. AuthoritiesTyped /\ request[r].site \in Site
  BY Settings
<1>2. CASE ReleaseParse(r) \/ ReleaseStream(r)
  <2>1. UNCHANGED <<authorityVars, book>>
    BY <1>2 DEF ReleaseParse, ReleaseStream, EndsWith, authorityVars
  <2>2. Release("parses", request[r].site) \/ Release("streams", request[r].site)
    BY <1>2 DEF ReleaseParse, ReleaseStream
  <2>3. PoolsMoveSo
    BY <1>1, <2>2 DEF PoolsMoveSo, Pool
  <2> QED
    BY <1>1, <2>1, <2>3, AuthoritiesStay, BookStays DEF Moves
<1>3. CASE ReleaseReservation(r) \/ ReleaseLease(r) \/ ReleaseOwn(r)
  <2>1. UNCHANGED <<book, occupied>>
    BY <1>3 DEF ReleaseReservation, ReleaseLease, ReleaseOwn, EndsWith
  <2>2. PICK n, commit : FinishAuthorities(request[r].site, n, commit)
    BY <1>3 DEF ReleaseReservation, ReleaseLease, ReleaseOwn
  <2> QED
    BY <1>1, <2>1, <2>2, FinishMoves, BookStays DEF Moves, PoolsMoveSo
<1> QED
  BY <1>2, <1>3 DEF LetsGo

\* Every step of a request.
LEMMA RequestMoves ==
  ASSUME IInv, NEW r \in Request, Steps(r)
  PROVE  Moves
<1>1. AuthoritiesTyped /\ request[r].site \in Site
  BY Settings
<1>2. CASE ReceiveDocument(r)
  <2>1. UNCHANGED <<authorityVars, book>> /\ TakeFirst(r, "parses", [request[r] EXCEPT !.doing = "rewrite"])
    BY <1>2 DEF ReceiveDocument, RewriteStarts
  <2>2. PoolsMoveSo
    BY <1>1, <2>1, TakeFirstMoves DEF Pool
  <2> QED
    BY <1>1, <2>1, <2>2, AuthoritiesStay, BookStays DEF Moves
<1>3. ASSUME NEW good \in BOOLEAN, Receive(r, good) PROVE Moves
  <2>1. UNCHANGED <<authorityVars, book, occupied>>
    BY <1>3 DEF Receive, stateVars
  <2> QED
    BY <1>1, <2>1, AuthoritiesStay, BookStays DEF Moves, PoolsMoveSo
<1>4. CASE TakeSecond(r)
  <2>1. UNCHANGED <<authorityVars, book>> /\ TakeOfSite(request[r].half, request[r].site) /\ request[r].at = "taking"
    BY <1>4 DEF TakeSecond, Where
  <2>2. request[r].half \in Pool
    <3>1. PICK q \in RequestRecord : q = request[r] /\ Fits(q)
      BY RequestIs
    <3> QED
      BY <2>1, <3>1, RecordFacts DEF Fits, SlotsFit
  <2>3. PoolsMoveSo
    BY <1>1, <2>1, <2>2 DEF PoolsMoveSo
  <2> QED
    BY <1>1, <2>1, <2>3, AuthoritiesStay, BookStays DEF Moves
<1> QED
  BY <1>2, <1>3, <1>4, FollowsMoves, ServesMoves, RewritesMoves, MintsMoves, ResolvesMoves, LetsGoMoves DEF Steps

\* What happens meanwhile.
LEMMA EventMoves ==
  ASSUME IInv, Expires \/ Minute \/ Closes \/ Opens
  PROVE  Moves
<1>1. AuthoritiesTyped
  BY DEF IInv, AuthoritiesFit
<1>2. /\ \A a \in Authority : known[a] \in Nat
      /\ \A s \in Site : newOf[s] \in Nat
      /\ newAll \in Nat
  BY <1>1 DEF AuthoritiesTyped
<1>3. ASSUME NEW s \in Site, NEW t \in Token, Event(Expire(s, t)) PROVE Moves
  <2>1. UNCHANGED <<authorityVars, occupied>> /\ book' = [book EXCEPT !.entries[s][t].expired = TRUE]
    BY <1>3 DEF Event, Expire
  <2>2. PICK f, i, k : book = [entries |-> f, index |-> i, active |-> k] /\ f = book.entries /\ DOMAIN f = Site
    BY DEF IInv, BookFits, BookTyped
  <2>3. PICK c : c = book'
    OBVIOUS
  <2>4. c = [entries |-> [f EXCEPT ![s] = [f[s] EXCEPT ![t] = [f[s][t] EXCEPT !.expired = TRUE]]],
             index |-> i, active |-> k]
    BY <2>1, <2>2, <2>3
  <2>5. \A x \in Site : DOMAIN c.entries[x] = DOMAIN f[x]
    BY ONLY <2>2, <2>4
  <2>6. BookMoves
    BY <2>2, <2>3, <2>5 DEF BookMoves
  <2> QED
    BY <1>1, <2>1, <2>6, AuthoritiesStay DEF Moves, PoolsMoveSo
<1>4. CASE Minute
  <2>1. UNCHANGED <<authorities, known, book, occupied>> /\ newAll' = 0 /\ newOf' = [x \in Site |-> 0]
    BY <1>4 DEF Minute, Event, MinutePasses
  <2>2. AuthoritiesMove
    <3>1. \A x \in Site : newOf'[x] = 0
      BY <2>1
    <3>2. (\A x \in Site : newOf'[x] <= newOf[x]) /\ newAll' <= newAll /\ \A a \in Authority : known'[a] <= known[a]
      BY <1>2, <2>1, <3>1
    <3> QED
      BY <2>1, <3>2 DEF AuthoritiesMove
  <2> QED
    BY <2>1, <2>2, BookStays DEF Moves, PoolsMoveSo
<1>5. ASSUME NEW s \in Site, Event(CloseState(s)) PROVE Moves
  <2>1. /\ UNCHANGED <<newOf, newAll, occupied>> /\ authorities' = [authorities EXCEPT ![s] = <<>>]
        /\ known' = [a \in Authority |-> IF IsKnown(s, a) THEN known[a] - 1 ELSE known[a]]
        /\ book' = [entries |-> [book.entries EXCEPT ![s] = <<>>], index |-> [book.index EXCEPT ![s] = <<>>],
                    active |-> book.active - Cardinality(DOMAIN book.entries[s])]
    BY <1>5 DEF Event, CloseState
  <2>2. DOMAIN authorities = Site /\ DOMAIN book.entries = Site
    BY <1>1 DEF IInv, BookFits, BookTyped, AuthoritiesTyped
  <2>3. \A x \in Site : DOMAIN authorities'[x] \subseteq DOMAIN authorities[x]
    BY <2>1, <2>2
  <2>4. BookMoves
    <3>1. \A x \in Site : DOMAIN book'.entries[x] \subseteq DOMAIN book.entries[x]
      BY <2>1, <2>2
    <3> QED
      BY <3>1 DEF BookMoves
  <2>5. ASSUME NEW a \in Authority PROVE known'[a] <= known[a]
    <3>1. known'[a] = IF IsKnown(s, a) THEN known[a] - 1 ELSE known[a]
      BY <2>1
    <3> QED
      BY <1>2, <3>1
  <2>6. (\A x \in Site : newOf'[x] <= newOf[x]) /\ newAll' <= newAll
    BY <1>2, <2>1
  <2> QED
    BY <2>1, <2>3, <2>4, <2>5, <2>6 DEF Moves, AuthoritiesMove, PoolsMoveSo
<1>6. ASSUME NEW s \in Site, Event(OpenState(s)) PROVE Moves
  <2>1. /\ UNCHANGED <<authorities, known, newAll, book>> /\ newOf' = [newOf EXCEPT ![s] = 0]
        /\ occupied' = [p \in Pool |-> [occupied[p] EXCEPT !.of[s] = 0]]
    BY <1>6 DEF Event, OpenState
  <2>2. \A x \in Site : newOf'[x] = IF x = s THEN 0 ELSE newOf[x]
    BY <1>1, <2>1 DEF AuthoritiesTyped
  <2>3. (\A x \in Site : newOf'[x] <= newOf[x]) /\ newAll' <= newAll /\ \A a \in Authority : known'[a] <= known[a]
    BY <1>2, <2>1, <2>2
  <2>4. AuthoritiesMove
    BY <2>1, <2>3 DEF AuthoritiesMove
  <2> QED
    BY <2>1, <2>4, BookStays DEF Moves, PoolsMoveSo
<1> QED
  BY <1>3, <1>4, <1>5, <1>6 DEF Expires, Closes, Opens

LEMMA NextMoves ==
  ASSUME IInv, [Next]_vars
  PROVE  Moves
<1>1. CASE Next
  BY <1>1, RequestMoves, EventMoves DEF Next
<1>2. CASE UNCHANGED vars
  <2>1. UNCHANGED <<authorityVars, book, occupied>>
    BY <1>2 DEF vars, dynamicVars, stateVars
  <2>2. AuthoritiesTyped
    BY DEF IInv, AuthoritiesFit
  <2> QED
    BY <2>1, <2>2, AuthoritiesStay, BookStays DEF Moves, PoolsMoveSo
<1> QED
  BY <1>1, <1>2

LEMMA WithinAtFirst == Init => Within
<1> SUFFICES ASSUME Init PROVE Within
  OBVIOUS
<1>1. /\ authorities = [s \in Site |-> <<>>] /\ known = [a \in Authority |-> 0]
      /\ newOf = [s \in Site |-> 0] /\ newAll = 0
      /\ book = [entries |-> [s \in Site |-> <<>>], index |-> [s \in Site |-> <<>>], active |-> 0]
      /\ occupied = [p \in Pool |-> [all |-> 0, of |-> [s \in Site |-> 0]]]
  BY DEF Init, StateInit
<1>2. IsFiniteSet({}) /\ Cardinality({}) = 0
  BY FS_EmptySet
<1>3. \A s \in Site : DOMAIN authorities[s] = {} /\ DOMAIN book.entries[s] = {} /\ newOf[s] = 0
  BY <1>1
<1>4. KnownAnywhere = {}
  BY <1>1 DEF KnownAnywhere
<1>5. AuthoritiesWithin
  BY <1>1, <1>2, <1>3, <1>4, LimitsAre DEF AuthoritiesWithin
<1>6. CapabilitiesWithin
  BY <1>1, <1>2, <1>3, LimitsAre DEF CapabilitiesWithin
<1>7. SlotsWithin
  BY <1>1, LimitsAre DEF SlotsWithin
<1> QED
  BY <1>5, <1>6, <1>7 DEF Within

LEMMA WithinHolds == Spec => []Within
<1>1. IInv /\ IInv' /\ Within /\ [Next]_vars => Within'
  <2> SUFFICES ASSUME IInv, IInv', Within, [Next]_vars PROVE Within'
    OBVIOUS
  <2>1. Moves
    BY NextMoves
  <2>2. AuthoritiesTyped /\ AuthoritiesTyped' /\ PoolsFit /\ DOMAIN occupied = Pool
    BY DEF IInv, AuthoritiesFit
  <2>3. AuthoritiesWithin'
    BY <2>1, <2>2, AuthoritiesStayWithin DEF Moves, Within
  <2>4. CapabilitiesWithin'
    BY <2>1, CapabilitiesStayWithin DEF Moves, Within
  <2>5. SlotsWithin'
    BY <2>1, <2>2, SlotsStayWithin DEF Moves, Within
  <2> QED
    BY <2>3, <2>4, <2>5 DEF Within
<1> QED
  BY WithinAtFirst, <1>1, InvariantHolds, PTL DEF Spec

\* Neither the requests of a site nor those of all sites ever hold more streams
\* and parses than acquireStream and acquireParse may give out, and the limits
\* of reserveAuthority and registerCapability hold for what is really kept.
\* A site that closes and opens again with pools and windows of its own, or a
\* redirect that is forgotten about, lets nobody exceed them.
LimitsKept ==
  /\ \A p \in Pool : /\ Cardinality(HoldersIn(p)) <= GlobalLimits[p]
                     /\ \A s \in Site : Cardinality(HoldersOf(p, s)) <= SiteLimits[p]
  /\ \A s \in Site : /\ Cardinality(DOMAIN authorities[s]) <= SiteLimits.authorities
                     /\ newOf[s] <= SiteLimits.newAuthorities
                     /\ Cardinality(DOMAIN book.entries[s]) <= SiteLimits.capabilities
  /\ Cardinality({a \in Authority : \E s \in Site : IsKnown(s, a)}) <= GlobalLimits.authorities
  /\ newAll <= GlobalLimits.newAuthorities
  /\ Cardinality(PairsOf(book)) <= GlobalLimits.capabilities

\* acquireStream, acquireParse, reserveAuthority and registerCapability never
\* let anything exceed the limits of the profile and of the runtime, whatever
\* requests, expiry and the life of a site do meanwhile.
THEOREM LimitsAreKept == Spec => []LimitsKept
<1>1. IInv /\ Within => LimitsKept
  <2> SUFFICES ASSUME IInv, Within PROVE LimitsKept
    OBVIOUS
  <2>1. ASSUME NEW p \in Pool
        PROVE  /\ Cardinality(HoldersIn(p)) <= GlobalLimits[p]
               /\ \A s \in Site : Cardinality(HoldersOf(p, s)) <= SiteLimits[p]
    <3>1. IsFiniteSet(HoldersIn(p)) /\ \A s \in Site : IsFiniteSet(HoldersOf(p, s))
      BY RequestAssumption, FS_Subset DEF HoldersIn, HoldersOf
    <3>2. Cardinality(HoldersIn(p)) \in Nat /\ \A s \in Site : Cardinality(HoldersOf(p, s)) \in Nat
      BY <3>1, FS_CardinalityType
    <3>3. /\ occupied[p] \in [all : Nat, of : [Site -> Nat]]
          /\ occupied[p].all >= Cardinality(HoldersIn(p))
          /\ \A s \in Site : occupied[p].of[s] >= Cardinality(HoldersOf(p, s))
      BY DEF IInv, PoolsFit, Covers
    <3>4. occupied[p].all \in Nat /\ \A s \in Site : occupied[p].of[s] \in Nat
      BY <3>3
    <3>5. occupied[p].all <= GlobalLimits[p] /\ \A s \in Site : occupied[p].of[s] <= SiteLimits[p]
      BY DEF Within, SlotsWithin
    <3>6. Cardinality(HoldersIn(p)) <= GlobalLimits[p]
      BY <3>2, <3>3, <3>4, <3>5, LimitsAre
    <3>7. ASSUME NEW s \in Site PROVE Cardinality(HoldersOf(p, s)) <= SiteLimits[p]
      BY <3>2, <3>3, <3>4, <3>5, LimitsAre
    <3> QED
      BY <3>6, <3>7
  <2>2. {a \in Authority : \E s \in Site : IsKnown(s, a)} \subseteq KnownAnywhere
    <3> SUFFICES ASSUME NEW a \in Authority, NEW s \in Site, IsKnown(s, a) PROVE known[a] > 0
      BY DEF KnownAnywhere
    <3>1. IsFiniteSet(KnowersOf(a)) /\ s \in KnowersOf(a)
      BY KnowersAreFinite DEF KnowersOf
    <3>2. Cardinality(KnowersOf(a)) \in Nat /\ Cardinality(KnowersOf(a)) # 0
      BY <3>1, FS_CardinalityType, FS_EmptySet
    <3>3. known[a] = Cardinality(KnowersOf(a))
      BY DEF IInv, AuthoritiesFit, KnownFits, KnowersOf
    <3> QED
      BY <3>2, <3>3
  <2>3. Cardinality({a \in Authority : \E s \in Site : IsKnown(s, a)}) <= GlobalLimits.authorities
    BY <2>2, LimitsAre, SmallerStays DEF Within, AuthoritiesWithin
  <2>4. Cardinality(PairsOf(book)) <= GlobalLimits.capabilities
    BY DEF IInv, BookFits, ActiveFits, Within, CapabilitiesWithin
  <2> QED
    BY <2>1, <2>3, <2>4 DEF LimitsKept, Within, AuthoritiesWithin, CapabilitiesWithin
<1> QED
  BY <1>1, InvariantHolds, WithinHolds, PTL
=============================================================================
