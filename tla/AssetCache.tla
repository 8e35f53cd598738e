----------------------------- MODULE AssetCache ------------------------------
(* The asset cache: a body file and a metadata file for each key, written by *)
(* rename under one mutex, bounded for each site by evicting the entries not *)
(* used for longest. File operations fail, and the process may die between   *)
(* two of them; the files survive it.                                        *)
(*                                                                           *)
(* The content of a body is the request that fetched it, its author. The     *)
(* temporary files are left out: no operation reads one, and a write starts  *)
(* by replacing them.                                                        *)
EXTENDS CacheRequests

CONSTANTS
  AssetKey,       \* the asset keys, records [site, asset]
  AssetAnswer,    \* upstream answers, records [eligible, size]; a size is never 0
  AssetTTL,       \* AssetCacheTTLSec
  AssetMaxBytes   \* AssetCacheMaxBytes

ASSUME AssetAssumption ==
  /\ IsFiniteSet(AssetKey) /\ \A k \in AssetKey : k.site \in Site
  /\ \A answer \in AssetAnswer : answer.eligible \in BOOLEAN /\ answer.size \in Nat \ {0}
  /\ AssetTTL \in Nat \ {0}
  /\ AssetMaxBytes \in Nat

VARIABLES
  asset,          \* per request: where the handler is, and its locals
  files,          \* per key: the set of at most one body and one meta
  torn            \* keys whose files a crash or a failed removal left unpaired

assetVars == <<asset, files, torn>>

AssetIdle == [at |-> "idle"]
NoFiles == [body |-> {}, meta |-> {}]

AssetInit ==
  /\ asset = [r \in Request |-> AssetIdle]
  /\ files = [k \in AssetKey |-> NoFiles]
  /\ torn = {}

AssetStep(r, state) == asset' = [asset EXCEPT ![r] = state]
AssetAt(r, at) == asset[r].at = at
AssetFinished(r) == AssetAt(r, "done")

-----------------------------------------------------------------------------
\* An eligible request: request derives its key, and only a GET is stored.
AssetArrive(r) ==
  /\ AssetAt(r, "idle")
  /\ \E k \in AssetKey, m \in {"GET", "HEAD"} :
       AssetStep(r, [at |-> "reading", key |-> k, method |-> m, now |-> clock])
  /\ UNCHANGED <<files, torn, events>>

\* Metadata that does not parse.
Unreadable == [size |-> 0, author |-> 0, accessed |-> 0, expiresAt |-> 0]

\* The metadata that read accepts: unexpired, with a body of its size.
Matching(k, now) ==
  {m \in files[k].meta : now < m.expiresAt /\ \E b \in files[k].body : b.size = m.size}

\* read, with the clock read before the lock: a hit marks the access; expired
\* metadata, or one without its body, takes both files with it.
AssetHit(r) ==
  /\ AssetAt(r, "reading")
  /\ LET k == asset[r].key
         now == asset[r].now
     IN \E m \in Matching(k, now), b \in files[k].body :
          /\ AssetStep(r, [at |-> "served", key |-> k, body |-> b, meta |-> m])
          /\ \/ /\ files' = [files EXCEPT ![k].meta = {[m EXCEPT !.accessed = now]}]
                /\ UNCHANGED <<torn, events>>
             \* the rewritten metadata is cut short and cannot be read again
             \/ /\ Event
                /\ files' = [files EXCEPT ![k].meta = {Unreadable}]
                /\ torn' = torn \union {k}

\* serveAssetCacheHit, after the lock.
AssetReply(r) ==
  /\ AssetAt(r, "served")
  /\ AssetStep(r, [at |-> "done"])
  /\ UNCHANGED <<files, torn, events>>

AssetMiss(r) ==
  /\ AssetAt(r, "reading")
  /\ LET k == asset[r].key
     IN /\ Matching(k, asset[r].now) = {}
        /\ \/ /\ files' = [files EXCEPT ![k] = IF @.meta = {} THEN @ ELSE NoFiles]
              /\ torn' = IF files[k].meta = {} THEN torn ELSE torn \ {k}
              /\ UNCHANGED events
           \* the body stays when only the metadata can be removed
           \/ /\ files[k].meta # {} /\ Event
              /\ files' = [files EXCEPT ![k].meta = {}]
              /\ torn' = torn \union {k}
  /\ AssetStep(r, [asset[r] EXCEPT !.at = "fetching"])

\* The answer of the upstream is given up, passed through or stored.
AssetFetched(r) ==
  /\ AssetAt(r, "fetching")
  /\ \/ AssetStep(r, [at |-> "done"])
     \/ \E answer \in AssetAnswer :
          IF answer.eligible /\ asset[r].method = "GET"
            THEN AssetStep(r, [at |-> "storing", key |-> asset[r].key, size |-> answer.size,
                               now |-> clock])
            ELSE AssetStep(r, [at |-> "done"])
  /\ UNCHANGED <<files, torn, events>>

-----------------------------------------------------------------------------
(* write.                                                                    *)

Body(r) == [size |-> asset[r].size, author |-> r]
Meta(r) == [size |-> asset[r].size, author |-> r, accessed |-> asset[r].now,
            expiresAt |-> asset[r].now + AssetTTL]

BodyRenamed(r) == [files EXCEPT ![asset[r].key].body = {Body(r)}]
MetaRenamed(r) == [files EXCEPT ![asset[r].key] = [body |-> {Body(r)}, meta |-> {Meta(r)}]]

\* Mutant: a failing rename of the metadata leaves the new body in place.
MetaRenameFailed_BodyStays(r) == BodyRenamed(r)

\* The new body is removed again; older metadata stays, without a body.
MetaRenameFailed(r) == [files EXCEPT ![asset[r].key].body = {}]

\* The size in a file of a key, which there may not be.
SizeIn(file) == IF file = {} THEN 0 ELSE (CHOOSE f \in file : TRUE).size
SizeOf(fs, K) == SumFunctionOnSet([k \in AssetKey |-> SizeIn(fs[k].meta)], K)
LastAccess(fs, k) == (CHOOSE m \in fs[k].meta : TRUE).accessed

\* The entries of a site whose metadata can be read: a size is never 0.
Listed(fs, s) == {k \in AssetKey : k.site = s /\ \E m \in fs[k].meta : m.size > 0}

\* enforceBudgetLocked removes K: the entries first in order of access, as many
\* as it takes to bring the sizes in their metadata within the budget.
Evicted(fs, s, K) ==
  LET own == Listed(fs, s)
  IN /\ K \subseteq own
     /\ \A k \in K, j \in own \ K : LastAccess(fs, k) <= LastAccess(fs, j)
     /\ SizeOf(fs, own \ K) <= AssetMaxBytes
     /\ K # {} => \E k \in K : /\ \A j \in K : LastAccess(fs, j) <= LastAccess(fs, k)
                               /\ SizeOf(fs, (own \ K) \union {k}) > AssetMaxBytes

Cleared(fs, K) == [k \in AssetKey |-> IF k \in K THEN NoFiles ELSE fs[k]]

AssetWrite(r) ==
  /\ AssetAt(r, "storing")
  /\ LET k == asset[r].key
     IN \/ \E K \in SUBSET AssetKey :
             /\ Evicted(MetaRenamed(r), k.site, K)
             /\ files' = Cleared(MetaRenamed(r), K)
             /\ torn' = torn \ (K \union {k})
             /\ UNCHANGED events
        \* a temporary file cannot be written or renamed to the body
        \/ Event /\ UNCHANGED <<files, torn>>
        \/ Event /\ files' = MetaRenameFailed(r) /\ torn' = torn \ {k}
        \* an evicted body that cannot be removed stays without its metadata
        \/ \E K \in SUBSET AssetKey : \E stays \in K :
             /\ Evicted(MetaRenamed(r), k.site, K)
             /\ Event
             /\ files' = [Cleared(MetaRenamed(r), K) EXCEPT ![stays].body = MetaRenamed(r)[stays].body]
             /\ torn' = (torn \ (K \union {k})) \union {stays}
  /\ AssetStep(r, [at |-> "done"])

\* What a write leaves when the process dies in it: the new body with the older
\* metadata, or both renamed and the budget not enforced.
Interrupted(r) ==
  \/ files' = BodyRenamed(r) /\ torn' = torn \union {asset[r].key}
  \/ files' = MetaRenamed(r) /\ torn' = torn \union {asset[r].key}

-----------------------------------------------------------------------------
(* The panel.                                                                *)

\* sizeBySite counts the body files.
PanelSize(s) ==
  SumFunctionOnSet([k \in AssetKey |-> SizeIn(files[k].body)], {k \in AssetKey : k.site = s})

\* clearSite and clear.
ClearAssets(K) ==
  /\ files' = Cleared(files, K)
  /\ torn' = torn \ K
  /\ UNCHANGED <<asset, events>>
=============================================================================
