--------------------------- MODULE InstanceCaches ----------------------------
(* The three caches a client request may meet in the handler of an instance, *)
(* over one clock: the asset cache of the process on disk, the image cache   *)
(* with its process budget, and the ping cache of the instance. A request is *)
(* followed through one of them: an image that the asset cache misses and    *)
(* that goes on to the image cache is there a request of its own.            *)
(*                                                                           *)
(* Closing a site's images and invalidating the pings happen at any time     *)
(* here, with requests in every state: each cache keeps its promises without *)
(* relying on ProxyInstance.shutdown, which waits for the handlers first.    *)
EXTENDS ImageCache, PingCache, AssetCache

vars == <<clock, events, imageVars, pingVars, assetVars>>

Init ==
  /\ clock = 0 /\ events = 0
  /\ ImageInit
  /\ PingInit
  /\ AssetInit

-----------------------------------------------------------------------------
\* Requests are told apart by the order in which they arrive.
Started(r) == image[r] # Idle \/ ping[r] # PingIdle \/ asset[r] # AssetIdle
MayArrive(r) == ~Started(r) /\ \A q \in Request : q < r => Started(q)
Answered(r) == ImageFinished(r) \/ PingFinished(r) \/ AssetFinished(r)

\* The caches share nothing but the clock and a crash, so the requests of one
\* behaviour meet one cache: mixing them would only multiply the states.
Untouched(state, idle) == \A q \in Request : state[q] = idle

Arrive(r) ==
  /\ MayArrive(r)
  /\ \/ /\ Untouched(ping, PingIdle) /\ Untouched(asset, AssetIdle)
        /\ ImageArrive(r) /\ UNCHANGED <<clock, events, pingVars, assetVars>>
     \/ /\ Untouched(image, Idle) /\ Untouched(asset, AssetIdle)
        /\ PingArrive(r) /\ UNCHANGED <<clock, events, imageVars, assetVars>>
     \/ /\ Untouched(image, Idle) /\ Untouched(ping, PingIdle)
        /\ AssetArrive(r) /\ UNCHANGED <<clock, imageVars, pingVars>>

\* What a request does of itself, in the image cache.
ImageServe(r) ==
  /\ \/ ImageLookup(r) \/ ImageWake(r) \/ ImageLookAgain(r) \/ ImageReply(r)
     \/ BeginCapture(r) \/ ImageHeaders(r) \/ ImageCopied(r) \/ FinishFlight(r)
  /\ UNCHANGED <<clock, events, pingVars, assetVars>>

PingServe(r) ==
  /\ \/ PingFirst(r) \/ PingSecond(r) \/ PingWake(r) \/ PingDirect(r)
     \/ PingHeaders(r) \/ PingError(r) \/ PingBody(r) \/ PingReply(r)
  /\ UNCHANGED <<clock, events, imageVars, assetVars>>

AssetServe(r) ==
  /\ AssetHit(r) \/ AssetReply(r) \/ AssetMiss(r) \/ AssetFetched(r) \/ AssetWrite(r)
  /\ UNCHANGED <<clock, imageVars, pingVars>>

Serve(r) == ImageServe(r) \/ PingServe(r) \/ AssetServe(r)

\* A client that stops waiting for another request's answer.
Abandon(r) ==
  \/ ImageAbandon(r) /\ UNCHANGED <<clock, events, pingVars, assetVars>>
  \/ PingAbandon(r) /\ UNCHANGED <<clock, events, imageVars, assetVars>>

CloseSite(s) == CloseImages(s) /\ UNCHANGED <<clock, pingVars, assetVars>>
InvalidatePings == Invalidate /\ UNCHANGED <<clock, imageVars, assetVars>>

\* The panel clears the assets of a site, or all of them.
ClearFiles ==
  /\ \/ \E s \in Site : ClearAssets({k \in AssetKey : k.site = s})
     \/ ClearAssets(AssetKey)
  /\ files' # files
  /\ UNCHANGED <<clock, imageVars, pingVars>>

\* The process dies, in the middle of writing files or not, and starts again:
\* requests are gone and the memory caches empty; the files stay.
Crash ==
  /\ Event
  /\ \/ \E r \in Request : AssetAt(r, "storing") /\ Interrupted(r)
     \/ UNCHANGED <<files, torn>>
  /\ image' = [r \in Request |-> IF image[r] = Idle THEN Idle ELSE [at |-> "done"]]
  /\ ping' = [r \in Request |-> IF ping[r] = PingIdle THEN PingIdle ELSE [at |-> "done"]]
  /\ asset' = [r \in Request |-> IF asset[r] = AssetIdle THEN AssetIdle ELSE [at |-> "done"]]
  /\ lru' = <<>> /\ processBytes' = 0 /\ siteBytes' = [s \in Site |-> 0]
  /\ leader' = [t \in Target |-> Nobody] /\ reserved' = [r \in Request |-> 0]
  /\ capturing' = {} /\ closedSites' = {}
  /\ entries' = <<>> /\ inflight' = [k \in PingKey |-> Nobody]
  /\ flightOf' = [r \in Request |-> 0] /\ generation' = 0
  /\ UNCHANGED clock

Tick == clock < MaxClock /\ clock' = clock + Leap /\ UNCHANGED <<events, imageVars, pingVars, assetVars>>

Next ==
  \/ \E r \in Request : Arrive(r) \/ Serve(r) \/ Abandon(r)
  \/ \E s \in Site : CloseSite(s)
  \/ InvalidatePings \/ ClearFiles \/ Crash \/ Tick

Spec == Init /\ [][Next]_vars

-----------------------------------------------------------------------------
(* Properties.                                                               *)

\* The image counters are exact: a site pays for its entries and for the open
\* reservations of its requests, the process for all of them, and neither ever
\* exceeds its limit; what is closed keeps no entry and leads nothing.
ImageBudgetExact ==
  LET bill(s) == CostOf(OfSite(lru, s)) +
                 SumFunctionOnSet(reserved, {r \in Request : reserved[r] > 0 /\ image[r].target.site = s})
  IN /\ \A s \in Site : siteBytes[s] = bill(s) /\ siteBytes[s] <= MaxSiteBytes
     /\ processBytes = CostOf(lru) + SumFunction(reserved)
     /\ processBytes <= MaxProcessBytes
     /\ \A r \in Request : reserved[r] > 0 => ~ImageFinished(r)
     /\ \A s \in closedSites :
          OfSite(lru, s) = <<>> /\ \A t \in Target : t.site = s => leader[t] = Nobody

\* An answer served from the ping or the image cache reports an Age that is at
\* least the upstream's own, and not above the lifetime the upstream granted, both
\* in whole seconds: the last fraction of a second may reach it. The clock may have
\* been read before the answer was stored. The image cache's answers are whole too.
HonestAge(served) ==
  LET answer == served.entry.answer
  IN /\ served.age >= answer.age /\ Seconds(served.age) >= answer.dated
     /\ Stated(answer) => served.age <= RoundedUp(Lifetime(answer))
ServedFresh ==
  \A r \in Request :
    /\ image[r].at = "served" =>
         /\ HonestAge(image[r])
         /\ image[r].entry.answer.declared \in {Absent, image[r].entry.answer.body}
    /\ ping[r].at = "served" => HonestAge(ping[r])

\* Nothing fetched before an invalidation of the pings is in the cache after it,
\* whichever flights were open, and the cache stays within its size.
NothingFromBeforeInvalidation ==
  /\ \A i \in DOMAIN entries : entries[i].fetchedIn = generation
  /\ Len(entries) <= MaxEntries
  /\ \A i, j \in DOMAIN entries : entries[i].key = entries[j].key => i = j

\* Metadata and a body of its size under one key come from one answer, and the
\* panel's figure for a site keeps to its budget: through failing renames, but
\* not where a crash or a failing removal left one file without the other.
AssetFilesConsistent ==
  /\ \A k \in AssetKey \ torn : \A m \in files[k].meta, b \in files[k].body :
       m.size = b.size => m.author = b.author
  /\ \A s \in Site : (\A k \in torn : k.site # s) => PanelSize(s) <= AssetMaxBytes

\* Whoever follows a flight is woken: a flight stays in the table only while the
\* request that leads it is on its way to finish it, and that request waits for
\* nobody itself. Every other step of a request is its own or its upstream's.
FlightsAreFlown ==
  /\ \A t \in Target : leader[t] # Nobody =>
       /\ image[leader[t]].at \in {"leading", "asking", "copying", "finishing"}
       /\ image[leader[t]].target = t
  /\ \A k \in PingKey : inflight[k] # Nobody =>
       /\ ping[inflight[k]].at \in {"fetching", "reading"}
       /\ ping[inflight[k]].key = k
=============================================================================
