--------------------------- MODULE DynamicRewrite ----------------------------
(* The rewrite of a structured response (PlaybackInfo, HLS, DASH): every URL *)
(* that it names is replaced by the route of a capability. The capabilities  *)
(* of one response are provisional until all of it is rewritten, and are     *)
(* then published together, or given back together.                          *)
(*                                                                           *)
(* The documents are abstracted to the targets they name, in the order the   *)
(* rewriter meets them: a target of Manifest is itself rewritten when its    *)
(* capability is used.                                                       *)
EXTENDS DynamicRequest

CONSTANTS
  Manifest,       \* the targets discovered as manifests
  MaxURLs         \* DynamicProfileLimits.MaxURLsPerResponse

ASSUME ManifestAssumption == Manifest \subseteq Target
ASSUME MaxURLsAssumption == MaxURLs \in Nat

\* A structured response is there: acquireParse, with what the memory budget
\* leaves.
RewriteStarts(r) ==
  /\ TakeFirst(r, "parses", [request[r] EXCEPT !.doing = "rewrite"])
  /\ UNCHANGED <<open, authorityVars, book, issued>>

\* dynamicRewriteSession.seen: the targets this session has a route for.
Seen(r) ==
  {t \in Target : \E i \in DOMAIN request[r].minted :
     /\ Registered(book, request[r].site, request[r].minted[i])
     /\ Entry(book, request[r].site, request[r].minted[i]).key.target = t}

\* The depth a target is discovered at.
DepthOf(q, t) == IF t \in Manifest THEN q.depth + 1 ELSE 0

Trusted(t) == AuthorityOf[t] = Configured

\* The mint of a target begins; one nested too deep has no capability.
MintFrom(r, q, key) ==
  LET minting == [q EXCEPT !.doing = "rewrite", !.key = key, !.at = "minting"]
  IN IF key.depth <= MaxDepth /\ ~Trusted(key.target) THEN Reserve(r, minting)
     ELSE /\ Become(r, IF key.depth <= MaxDepth THEN minting ELSE Failing(minting))
          /\ UNCHANGED authorityVars

\* rewriteAgainst...: a URL is met that has no route yet. For a manifest that
\* is not at the top, the capability of a shallower one is looked for first.
Discover(r, t) ==
  LET q == [request[r] EXCEPT !.urls = @ + 1]
      key == [target |-> t, depth |-> DepthOf(q, t)]
  IN /\ Where(r, {"rewriting"})
     /\ q.urls <= MaxURLs
     /\ t \notin Seen(r)
     /\ IF key.depth > 1
          THEN /\ Become(r, [q EXCEPT !.at = "looking", !.key = [key EXCEPT !.depth = 1]])
               /\ UNCHANGED authorityVars
          ELSE MintFrom(r, q, key)
     /\ UNCHANGED <<open, book, issued, occupied>>

\* reuseShallowTrustedManifest and reuseShallowDynamicManifest: one depth after
\* the other. The token found for a discovered authority is used only once
\* that authority is reserved and resolved again.
LookShallower(r) ==
  LET q == request[r]
      s == request[r].site
  IN /\ Where(r, {"looking"})
     /\ \E due \in BOOLEAN :
          LET b == Pruned(due)
          IN \/ \E t \in Reusable(b, s, q.key) :
                  /\ book' = Borrowed(b, s, t)
                  /\ Become(r, IF Trusted(q.key.target) THEN Given([q EXCEPT !.doing = "rewrite"], t)
                               ELSE [q EXCEPT !.at = "borrowing", !.doing = "borrow", !.token = t])
                  /\ UNCHANGED authorityVars
             \/ /\ Reusable(b, s, q.key) = {}
                /\ book' = Unmapped(b, s, q.key)
                /\ IF q.key.depth < q.depth
                     THEN Become(r, [q EXCEPT !.key.depth = @ + 1]) /\ UNCHANGED authorityVars
                     ELSE MintFrom(r, q, [q.key EXCEPT !.depth = @ + 1])
     /\ UNCHANGED <<open, issued, occupied>>

ReserveBorrowed(r) ==
  /\ Where(r, {"borrowing"})
  /\ Reserve(r, request[r])
  /\ UNCHANGED <<open, book, issued, occupied>>

\* The reservation made for the borrowed token has served its purpose.
KeepBorrowed(r) ==
  LET q == request[r]
  IN /\ Where(r, {"borrowed"})
     /\ FinishAuthorities(request[r].site, One(q.res), FALSE)
     /\ Become(r, [Given(q, q.token) EXCEPT !.res = Nothing, !.doing = "rewrite"])
     /\ UNCHANGED <<open, book, issued, occupied>>

\* The uses of the tokens of a session.
Uses(q) == [t \in Token |-> Count(q.minted, t)]
OneUse(t) == [x \in Token |-> IF x = t THEN 1 ELSE 0]

\* The undo of a borrowed token.
ReturnBorrowed(r) ==
  LET q == request[r]
  IN /\ Where(r, {"returning"})
     /\ Settle(request[r].site, OneUse(q.token), FALSE)
     /\ Become(r, Failing([q EXCEPT !.token = NoToken]))
     /\ UNCHANGED <<open, issued, occupied>>

\* dynamicRewriteSession.rollback, after a failure or because the document is
\* malformed, names too many URLs, or is late. A PlaybackInfo response is then
\* rewritten by a second, lenient session; when that one fails too, the
\* response is passed on as it came.
Abort(r, lenient) ==
  LET q == request[r]
      after == [q EXCEPT !.minted = <<>>]
  IN /\ Where(r, {"rewriting", "aborting"})
     /\ lenient => q.served = NoToken
     /\ q.retried => lenient
     /\ Settle(request[r].site, Uses(q), FALSE)
     /\ Become(r, IF q.retried THEN Ending(after, TRUE)
                  ELSE IF lenient THEN [after EXCEPT !.at = "rewriting", !.retried = TRUE, !.urls = 0]
                  ELSE Ending(after, FALSE))
     /\ UNCHANGED <<open, issued, occupied>>

\* accept: the capability that was presented must still be usable when its
\* manifest is rewritten. A response of the site itself has nothing to ask. The
\* answer to a HEAD is not parsed and takes no slot: here it is a document that
\* names no URL, with a slot until it is accepted or refused.
Accept(r) ==
  LET q == request[r]
      s == request[r].site
  IN /\ Where(r, {"rewriting"})
     /\ q.served # NoToken
     /\ \E due \in BOOLEAN :
          /\ book' = LookedUp(Pruned(due), s, q.served)
          /\ Go(r, IF Usable(Pruned(due), s, q.served) THEN "committing" ELSE "aborting")
     /\ UNCHANGED <<open, authorityVars, issued, occupied>>

\* dynamicRewriteSession.commit.
CommitRewrite(r) ==
  LET q == request[r]
      s == request[r].site
  IN /\ Where(r, {"committing"}) \/ (Where(r, {"rewriting"}) /\ q.served = NoToken)
     /\ Settle(s, Uses(q), TRUE)
     /\ Become(r, Ending([q EXCEPT !.minted = <<>>], Settles(s, Uses(q), TRUE)))
     /\ UNCHANGED <<open, issued, occupied>>

Rewrites(r) ==
  \/ LookShallower(r) \/ ReserveBorrowed(r) \/ KeepBorrowed(r) \/ ReturnBorrowed(r)
  \/ Accept(r) \/ CommitRewrite(r)
  \/ \E t \in Target : Discover(r, t)
  \/ \E lenient \in BOOLEAN : Abort(r, lenient)
=============================================================================
