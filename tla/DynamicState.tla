---------------------------- MODULE DynamicState -----------------------------
(* What the dynamic runtime and the dynamic state of each site keep: the     *)
(* authorities discovered behind a site, the capability tokens that stand    *)
(* for discovered URLs, and the pools of streams and parses. Every operation *)
(* here runs under the mutex of the runtime and that of the site.            *)
(*                                                                           *)
(* The byte budgets are abstracted: whatever asks for memory may be refused  *)
(* it. Which targets the policy and the addresses behind a name rule out is  *)
(* left open in the same way. The paths learned from PlaybackInfo responses  *)
(* are left out.                                                             *)
EXTENDS Integers, FiniteSets, Functions

CONSTANTS
  Site, Authority, Target,
  Configured,     \* the authority of every target the administrator configured
  AuthorityOf,    \* the authority of a target
  SiteLimits,     \* DynamicProfileLimits: records of numbers
  GlobalLimits,   \* the globalDynamicMax... constants, the same fields
  MaxDepth,       \* maxDynamicManifestDepth
  MaxToken        \* bound on the tokens sealed in a behaviour

Pool == {"streams", "parses"}
LimitNames == {"authorities", "newAuthorities", "capabilities"} \union Pool

ASSUME TargetAssumption == AuthorityOf \in [Target -> Authority \union {Configured}]
ASSUME ConfiguredAssumption == Configured \notin Authority
ASSUME SiteAssumption == IsFiniteSet(Site)
ASSUME LimitAssumption ==
  /\ {SiteLimits, GlobalLimits} \subseteq [LimitNames -> Nat]
  /\ {MaxDepth, MaxToken} \subseteq Nat

Token == 1..MaxToken
NoToken == 0

\* What a token stands for: a resource has depth 0, a manifest its nesting.
Key == [target : Target, depth : 0..MaxDepth]

VARIABLES
  open,           \* dynamicRuntime.states: the sites that have a state
  authorities,    \* dynamicSiteState.authorities
  known,          \* dynamicRuntime.authorities: at how many sites one is known
  newOf, newAll,  \* how many authorities newAuthorities holds, per site and in all
  book,           \* the capabilities of each site, capabilityByTarget (index),
                  \* and dynamicRuntime.activeCapabilities
  issued,         \* tokens sealed so far
  occupied        \* the slots taken in the pools of the runtime and of the sites

\* A map with the value v stored at x.
Put(f, x, v) == [y \in DOMAIN f \union {x} |-> IF y = x THEN v ELSE f[y]]

authorityVars == <<authorities, known, newOf, newAll>>
stateVars == <<open, authorityVars, book, issued, occupied>>

StateInit ==
  /\ open = Site
  /\ authorities = [s \in Site |-> <<>>]
  /\ known = [a \in Authority |-> 0]
  /\ newOf = [s \in Site |-> 0]
  /\ newAll = 0
  /\ book = [entries |-> [s \in Site |-> <<>>], index |-> [s \in Site |-> <<>>], active |-> 0]
  /\ issued = 0
  /\ occupied = [p \in Pool |-> [all |-> 0, of |-> [s \in Site |-> 0]]]

-----------------------------------------------------------------------------
(* Authorities.                                                              *)

IsKnown(s, a) == a \in DOMAIN authorities[s]
KnownAnywhere == {a \in Authority : known[a] > 0}

\* Whether reserveAuthority has room for one more.
CanReserve(s, a) ==
  \/ IsKnown(s, a)
  \/ /\ Cardinality(DOMAIN authorities[s]) < SiteLimits.authorities
     /\ known[a] = 0 => Cardinality(KnownAnywhere) < GlobalLimits.authorities
     /\ newOf[s] < SiteLimits.newAuthorities
     /\ known[a] = 0 => newAll < GlobalLimits.newAuthorities

\* An entry reserved once more. Nobody resolves an authority whose resolution is
\* "none"; the first to resolve a "fresh" one asks the resolver.
Again(entry) ==
  [entry EXCEPT !.inFlight = @ + 1, !.resolution = IF @ = "none" THEN "fresh" ELSE @]

\* reserveAuthority, once it has room.
ReserveAuthority(s, a) ==
  IF IsKnown(s, a)
    THEN /\ authorities' = [authorities EXCEPT ![s][a] = Again(authorities[s][a])]
         /\ UNCHANGED <<known, newOf, newAll>>
    ELSE /\ authorities' = [authorities EXCEPT ![s] =
              Put(@, a, [committed |-> FALSE, inFlight |-> 1, resolution |-> "fresh"])]
         /\ newOf' = [newOf EXCEPT ![s] = @ + 1]
         /\ newAll' = IF known[a] = 0 THEN newAll + 1 ELSE newAll
         /\ known' = [known EXCEPT ![a] = @ + 1]

\* The reservations of one request for one authority.
One(a) == [x \in Authority |-> IF x = a THEN 1 ELSE 0]

\* An entry after n of its reservations finished.
EntryAfter(entry, n, commit) ==
  [committed |-> entry.committed \/ (commit /\ n > 0),
   inFlight |-> entry.inFlight - n,
   resolution |-> IF entry.inFlight = n THEN "none" ELSE entry.resolution]

\* Mutant: an authority that was committed keeps its entry only while in use.
Forgotten_CommittedToo(s, n, commit) ==
  {a \in DOMAIN authorities[s] : n[a] > 0 /\ authorities[s][a].inFlight = n[a] /\ ~commit}

\* The authorities whose last reservation finishes without any ever committed.
Forgotten(s, n, commit) ==
  {a \in DOMAIN authorities[s] :
     LET after == EntryAfter(authorities[s][a], n[a], commit)
     IN n[a] > 0 /\ after.inFlight = 0 /\ ~after.committed}

\* finishLocked for n[a] reservations of each authority a. The state of a closed
\* site has no entries, so that a reservation that outlived it does nothing.
FinishAuthorities(s, n, commit) ==
  LET gone == Forgotten(s, n, commit)
  IN /\ authorities' = [authorities EXCEPT ![s] =
          [a \in DOMAIN authorities[s] \ gone |-> EntryAfter(authorities[s][a], n[a], commit)]]
     /\ known' = [a \in Authority |-> IF a \in gone THEN known[a] - 1 ELSE known[a]]
     /\ UNCHANGED <<newOf, newAll>>

\* A minute passes: pruneDynamicRateWindow empties every window.
MinutePasses ==
  /\ newAll > 0
  /\ newAll' = 0
  /\ newOf' = [s \in Site |-> 0]
  /\ UNCHANGED <<authorities, known>>

-----------------------------------------------------------------------------
(* Capabilities. The operators take the book and give the book.              *)

Entry(b, s, t) == b.entries[s][t]
Registered(b, s, t) == t \in DOMAIN b.entries[s]

\* dynamicCapabilityEntryValid: neither its lifetime nor its idle time is over.
Valid(b, s, t) == ~Entry(b, s, t).expired
Idle(b, s, t) == Entry(b, s, t).pending = 0

\* deleteCapabilityLocked for the tokens gone[s] of every site s.
Deleted(b, gone) ==
  [entries |-> [s \in Site |-> Restrict(b.entries[s], DOMAIN b.entries[s] \ gone[s])],
   index |-> [s \in Site |->
      Restrict(b.index[s], {k \in DOMAIN b.index[s] : b.index[s][k] \notin gone[s]})],
   active |-> b.active - Cardinality({x \in Site \X Token : x[2] \in gone[x[1]]})]
At(s, tokens) == [x \in Site |-> IF x = s THEN tokens ELSE {}]

\* An operation on one token first prunes every site, when the last prune is
\* long enough ago (due).
Pruned(due) ==
  IF due THEN Deleted(book, [s \in Site |->
                {t \in DOMAIN book.entries[s] : Idle(book, s, t) /\ ~Valid(book, s, t)}])
  ELSE book

\* The token looked up is deleted when it is of no use and nobody rewrites with it.
IdleAt(b, s, tokens) == At(s, {t \in tokens : Registered(b, s, t) /\ Idle(b, s, t)})

\* What hasCapability and useCapability answer, and what they leave.
Usable(b, s, t) == Registered(b, s, t) /\ Entry(b, s, t).published /\ Valid(b, s, t)
LookedUp(b, s, t) == IF Usable(b, s, t) THEN b ELSE Deleted(b, IdleAt(b, s, {t}))

\* The tokens of a key: none or one.
TokenOf(b, s, k) == {b.index[s][x] : x \in {k} \intersect DOMAIN b.index[s]}

\* reuseCapability finds these; it counts one more use of the one it finds.
Reusable(b, s, k) == {t \in TokenOf(b, s, k) : Valid(b, s, t)}
Borrowed(b, s, t) == [b EXCEPT !.entries[s][t].pending = @ + 1]

\* What it leaves when it finds none: the key unmapped, an idle entry deleted.
Unmapped(b, s, k) ==
  [Deleted(b, IdleAt(b, s, TokenOf(b, s, k))) EXCEPT
     !.index[s] = Restrict(@, DOMAIN @ \ {k})]

\* Whether registerCapability has room for one more token, and the book with it.
HasRoom(b, s) ==
  /\ Cardinality(DOMAIN b.entries[s]) < SiteLimits.capabilities
  /\ b.active < GlobalLimits.capabilities
Added(b, s, k, t, holds) ==
  [entries |-> [b.entries EXCEPT ![s] = Put(@, t, [key |-> k, pending |-> 1,
                  published |-> FALSE, expired |-> FALSE, holds |-> holds])],
   index |-> [b.index EXCEPT ![s] = Put(@, k, t)],
   active |-> b.active + 1]

\* settleCapabilities, for the tokens of a session. n[t] uses of t are settled:
\* published when every one of them still can be, otherwise given back.
Settles(s, n, publish) ==
  \A t \in Token : n[t] > 0 =>
    Registered(book, s, t) /\ Entry(book, s, t).pending >= n[t] /\ (publish => Valid(book, s, t))
Settled(s, n) == {t \in DOMAIN book.entries[s] : n[t] > 0 /\ Entry(book, s, t).pending >= n[t]}

\* An entry without k of its uses, and once these are published.
Without(entry, k) == [entry EXCEPT !.pending = @ - k]
Made(entry, k) == [Without(entry, k) EXCEPT !.published = TRUE, !.holds = FALSE]

Published(s, n) ==
  [book EXCEPT !.entries[s] =
     [t \in DOMAIN book.entries[s] |->
        IF t \in Settled(s, n) THEN Made(Entry(book, s, t), n[t]) ELSE Entry(book, s, t)]]

\* Mutant: the last session to give a token back deletes it, published or not.
Withdrawn_Published(s, n) ==
  {t \in Settled(s, n) : Entry(book, s, t).pending = n[t]}

\* The tokens that nobody uses any more and that were never published.
Withdrawn(s, n) ==
  {t \in Settled(s, n) : Entry(book, s, t).pending = n[t] /\ ~Entry(book, s, t).published}

GivenBack(s, n) ==
  Deleted([book EXCEPT !.entries[s] =
     [t \in DOMAIN book.entries[s] |->
        IF t \in Settled(s, n) THEN Without(Entry(book, s, t), n[t]) ELSE Entry(book, s, t)]],
     At(s, Withdrawn(s, n)))

\* How many reservations for each authority the tokens hold.
HeldBy(b, s, tokens) ==
  [a \in Authority |-> Cardinality({t \in tokens :
     Entry(b, s, t).holds /\ AuthorityOf[Entry(b, s, t).key.target] = a})]

\* The whole of settleCapabilities: an authority becomes committed with the
\* first token published for it, and is forgotten with the last one given back.
Settle(s, n, publish) ==
  IF publish /\ Settles(s, n, TRUE)
    THEN book' = Published(s, n) /\ FinishAuthorities(s, HeldBy(book, s, Settled(s, n)), TRUE)
    ELSE book' = GivenBack(s, n) /\ FinishAuthorities(s, HeldBy(book, s, Withdrawn(s, n)), FALSE)

-----------------------------------------------------------------------------
(* Pools: a slot of the runtime is taken first, then one of the site.        *)

Take(p) ==
  /\ occupied[p].all < GlobalLimits[p]
  /\ occupied' = [occupied EXCEPT ![p].all = @ + 1]

\* Mutant: the slot of the runtime is kept when the site has none.
TakeOfSite_KeepsOther(p, s) ==
  occupied' = IF occupied[p].of[s] < SiteLimits[p] THEN [occupied EXCEPT ![p].of[s] = @ + 1] ELSE occupied

\* Either the slot of the site as well, or neither.
TakeOfSite(p, s) ==
  occupied' = IF occupied[p].of[s] < SiteLimits[p]
                THEN [occupied EXCEPT ![p].of[s] = @ + 1] ELSE [occupied EXCEPT ![p].all = @ - 1]

Release(p, s) == occupied' = [occupied EXCEPT ![p].all = @ - 1, ![p].of[s] = @ - 1]

-----------------------------------------------------------------------------
(* Time and the life of a site.                                              *)

\* The lifetime or the idle time of a capability ends.
Expire(s, t) ==
  /\ Registered(book, s, t) /\ Valid(book, s, t)
  /\ book' = [book EXCEPT !.entries[s][t].expired = TRUE]
  /\ UNCHANGED <<open, authorityVars, issued, occupied>>

\* dynamicSiteState.close.
CloseState(s) ==
  /\ s \in open
  /\ open' = open \ {s}
  /\ known' = [a \in Authority |-> IF IsKnown(s, a) THEN known[a] - 1 ELSE known[a]]
  /\ authorities' = [authorities EXCEPT ![s] = <<>>]
  /\ book' = [entries |-> [book.entries EXCEPT ![s] = <<>>], index |-> [book.index EXCEPT ![s] = <<>>],
              active |-> book.active - Cardinality(DOMAIN book.entries[s])]
  /\ UNCHANGED <<newOf, newAll, issued, occupied>>

\* newDynamicSiteState: the site starts again with pools of its own.
OpenState(s) ==
  /\ s \notin open
  /\ open' = open \union {s}
  /\ newOf' = [newOf EXCEPT ![s] = 0]
  /\ occupied' = [p \in Pool |-> [occupied[p] EXCEPT !.of[s] = 0]]
  /\ UNCHANGED <<authorities, known, newAll, book, issued>>
=============================================================================
