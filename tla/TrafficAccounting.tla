------------------------- MODULE TrafficAccounting -------------------------
(***************************************************************************)
(* Traffic accounting of one site: request meters, the pending counters of *)
(* its ProxyInstance, the flush that moves them into SQLite under          *)
(* trafficMu, and the lifecycle steps that stop, replace or shut down the  *)
(* instance.                                                               *)
(*                                                                         *)
(* Atomicity.  trafficMu is held for a whole flush, so a step that takes   *)
(* it waits for ~Flushing.  The fast path of requestTrafficMeter.add and   *)
(* the last counter of finish do not take it and interleave with a flush.  *)
(* The meter's own mutex makes each add or finish one critical section of  *)
(* its meter.                                                              *)
(***************************************************************************)
EXTENDS Naturals, FiniteSets, Functions

CONSTANTS Request,      \* identities of proxied requests, each used once
          Payload,      \* byte counts one read or write can carry
          MaxServed,    \* bound: bytes counted
          MaxMinute,    \* bound: wall-clock minutes
          MaxFault      \* bound: failed flush transactions and process exits

ASSUME RequestAssumption == IsFiniteSet(Request)
ASSUME PayloadAssumption == Payload \subseteq Nat \ {0}
ASSUME BoundAssumption == /\ MaxServed \in Nat
                          /\ MaxMinute \in Nat
                          /\ MaxFault \in Nat

Direction == {"in", "out"}
Kind == Direction \cup {"requests"}
Minute == 0..MaxMinute

VARIABLES
  meter,            \* the requestTrafficMeter of each request
  gate,             \* the instance in pm.proxies: absent, open or closed
  bytes,            \* bytesIn, bytesOut
  pendingRequests,
  pendingMinute,    \* pendingMinuteTraffic
  persistedBytes,   \* persistedBytesIn, persistedBytesOut
  persistedTraffic,
  siteUsed,         \* inst.Site.TrafficUsed
  siteDir,          \* inst.Site.TrafficUsedIn, inst.Site.TrafficUsedOut
  flight,           \* what the flush holding trafficMu swapped out, and for whom
  job,              \* the lifecycle call that holds pm.lifecycleMu, and the
                    \* sites row it was called with
  shutdownStarted,
  now,              \* current minute
  faults,
  rowUsed, rowDir,  \* sites.traffic_used, traffic_used_in, traffic_used_out
  logs,             \* traffic_logs, summed over its rows
  minuteLogs,       \* traffic_minute_logs
  served, lost, lostMinute, lostRequests   \* history

instance == <<bytes, pendingRequests, pendingMinute, persistedBytes,
              persistedTraffic, siteUsed, siteDir>>
database == <<rowUsed, rowDir, logs, minuteLogs>>
history == <<served, lost, lostMinute, lostRequests>>
control == <<gate, job, shutdownStarted>>
vars == <<meter, gate, bytes, pendingRequests, pendingMinute, persistedBytes,
          persistedTraffic, siteUsed, siteDir, flight, job, shutdownStarted,
          now, faults, rowUsed, rowDir, logs, minuteLogs,
          served, lost, lostMinute, lostRequests>>

NoBytes == [d \in Direction |-> 0]
NoDelta == [k \in Kind |-> 0]
NoMinutes == [m \in Minute |-> NoDelta]
NoFlight == [by |-> "none", bytes |-> NoBytes, requests |-> 0, minutes |-> NoMinutes]
NoMeter == [at |-> "idle", started |-> 0, due |-> 0, streaming |-> FALSE,
            local |-> NoBytes]
NoRow == [used |-> 0, dir |-> NoBytes]
NoJob == [kind |-> "none", at |-> "idle", row |-> NoRow]

Flushing == flight.by # "none"

(* activeRequests. *)
Active_ReleasedEarly == {r \in Request : meter[r].at \notin {"idle", "counting", "done", "cut"}}
Active == {r \in Request : meter[r].at \notin {"idle", "done", "cut"}}
RequestsIn(minutes) == SumFunction([m \in Minute |-> minutes[m]["requests"]])
Plus(f, g) == [x \in DOMAIN f |-> f[x] + g[x]]
PlusMinutes(f, g) == [m \in Minute |-> Plus(f[m], g[m])]

Init ==
  /\ meter = [r \in Request |-> NoMeter]
  /\ gate = "absent"
  /\ bytes = NoBytes /\ pendingRequests = 0 /\ pendingMinute = NoMinutes
  /\ persistedBytes = NoBytes /\ persistedTraffic = 0
  /\ siteUsed = 0 /\ siteDir = NoBytes
  /\ flight = NoFlight
  /\ job = NoJob
  /\ shutdownStarted = FALSE
  /\ now = 0 /\ faults = 0
  /\ rowUsed = 0 /\ rowDir = NoBytes /\ logs = NoDelta /\ minuteLogs = NoMinutes
  /\ served = NoBytes /\ lost = NoBytes /\ lostMinute = NoBytes /\ lostRequests = 0

-----------------------------------------------------------------------------
(* Request meters                                                          *)

(* beginHTTPRequest: the lifecycle gate admits the request. *)
Admit(r) ==
  /\ meter[r].at = "idle" /\ gate = "open"
  /\ meter' = [meter EXCEPT ![r].at = "admitted"]
  /\ UNCHANGED <<control, instance, flight, now, faults, database, history>>

(* newRequestTrafficMeter: takes trafficMu, notes the starting minute. *)
NewMeter(r) ==
  /\ meter[r].at = "admitted" /\ ~Flushing
  /\ meter' = [meter EXCEPT ![r].at = "metered", ![r].started = now]
  /\ UNCHANGED <<control, instance, flight, now, faults, database, history>>

(* defer trafficMeter.finish(time.Now()): Go evaluates the argument at the *)
(* defer statement, so the minute the request will be charged to is fixed  *)
(* here, before any payload moves.                                         *)
DeferFinish(r) ==
  /\ meter[r].at = "metered"
  /\ meter' = [meter EXCEPT ![r].at = "open", ![r].due = now]
  /\ UNCHANGED <<control, instance, flight, now, faults, database, history>>

(* addMinuteTraffic: the caller does not hold trafficMu, so it waits for a *)
(* flush to end.                                                           *)
AddMinute(minute, delta, requests) ==
  /\ ~Flushing
  /\ pendingMinute' = [pendingMinute EXCEPT ![minute] =
                         [k \in Kind |-> @[k] + (IF k \in Direction THEN delta[k] ELSE requests)]]

CountBytes(d, n) ==
  /\ served["in"] + served["out"] + n <= MaxServed
  /\ bytes' = [bytes EXCEPT ![d] = @ + n]
  /\ served' = [served EXCEPT ![d] = @ + n]

(* add, fast path: the request is still in its first minute; the bytes go  *)
(* to the global counter without trafficMu and stay local to the meter.    *)
AddFast(r, d, n) ==
  /\ meter[r].at = "open" /\ ~meter[r].streaming /\ meter[r].started = now
  /\ CountBytes(d, n)
  /\ meter' = [meter EXCEPT ![r].local[d] = @ + n]
  /\ UNCHANGED <<control, pendingRequests, pendingMinute, persistedBytes,
                 persistedTraffic, siteUsed, siteDir, flight, now, faults,
                 database, lost, lostMinute, lostRequests>>

(* add, first payload of a later minute: promoteLocked moves the local     *)
(* bytes to the starting minute's bucket (they are counted already).  The  *)
(* payload itself follows in AddStreaming, under trafficMu once more.      *)
Promote(r) ==
  /\ meter[r].at = "open" /\ ~meter[r].streaming /\ meter[r].started # now
  /\ AddMinute(meter[r].started, meter[r].local, 0)
  /\ meter' = [meter EXCEPT ![r].at = "adding", ![r].streaming = TRUE, ![r].local = NoBytes]
  /\ UNCHANGED <<control, bytes, pendingRequests, persistedBytes,
                 persistedTraffic, siteUsed, siteDir, flight, now, faults,
                 database, history>>

(* add, streaming request: bucket and global counter move together under   *)
(* trafficMu.                                                              *)
AddStreaming(r, d, n) ==
  /\ meter[r].at \in {"open", "adding"} /\ meter[r].streaming
  /\ CountBytes(d, n)
  /\ AddMinute(now, [NoBytes EXCEPT ![d] = n], 0)
  /\ meter' = [meter EXCEPT ![r].at = "open"]
  /\ UNCHANGED <<control, pendingRequests, persistedBytes,
                 persistedTraffic, siteUsed, siteDir, flight, now, faults,
                 database, lost, lostMinute, lostRequests>>

(* finish, first half: under trafficMu the request and the local bytes go  *)
(* to the bucket of the minute fixed by DeferFinish.                       *)
FinishBucket(r) ==
  /\ meter[r].at = "open"
  /\ AddMinute(meter[r].due, IF meter[r].streaming THEN NoBytes ELSE meter[r].local, 1)
  /\ meter' = [meter EXCEPT ![r].at = "counting", ![r].local = NoBytes]
  /\ UNCHANGED <<control, bytes, pendingRequests, persistedBytes,
                 persistedTraffic, siteUsed, siteDir, flight, now, faults,
                 database, history>>

(* finish, second half: pendingRequests moves without trafficMu; then the  *)
(* deferred endHTTPRequest releases the request.                           *)
FinishCount(r) ==
  /\ meter[r].at = "counting"
  /\ pendingRequests' = pendingRequests + 1
  /\ meter' = [meter EXCEPT ![r] = [NoMeter EXCEPT !.at = "done"]]
  /\ UNCHANGED <<control, bytes, pendingMinute, persistedBytes,
                 persistedTraffic, siteUsed, siteDir, flight, now, faults,
                 database, history>>

-----------------------------------------------------------------------------
(* flushProxyTraffic                                                       *)

(* Requests counted in pendingRequests beyond those of the buckets are     *)
(* charged to the current minute.                                          *)
WithResidual ==
  LET bucketed == RequestsIn(pendingMinute)
  IN  IF pendingRequests > bucketed
      THEN [pendingMinute EXCEPT ![now]["requests"] = @ + (pendingRequests - bucketed)]
      ELSE pendingMinute

(* What the next flush will charge. *)
PendingTotal == RequestsIn(WithResidual)

NothingPending == /\ bytes = NoBytes
                  /\ pendingRequests = 0
                  /\ pendingMinute = NoMinutes

(* The lifecycle call's own flushes: before the gate closes, after the     *)
(* drain, and after a drain that timed out.                                *)
JobFlush == {"first", "final", "late"}

(* Who may flush: the 60 s ticker, the early checkpoint of                 *)
(* GracefulShutdown or a panel call that exports a backup at any time, the *)
(* lifecycle call where it says so.                                        *)
Flusher_OpenOnly == IF gate = "absent" THEN {}
                    ELSE {x \in {"ticker"} : gate = "open"} \cup ({job.at} \cap JobFlush)
Flusher == IF gate = "absent" THEN {}
           ELSE {"ticker"} \cup ({job.at} \cap JobFlush)

(* What the lifecycle call does when its flush returns. *)
JobAfterFlush(by, ok) ==
  job' = IF by = "ticker" THEN job
         ELSE IF ok /\ by = "first" THEN [job EXCEPT !.at = "close"]
         ELSE IF ok /\ by = "final" THEN [job EXCEPT !.at = "leave"]
         ELSE NoJob

(* Nothing is pending: flushProxyTrafficLocked returns nil at once. *)
FlushNothing(by) ==
  /\ by \in Flusher /\ ~Flushing /\ NothingPending
  /\ JobAfterFlush(by, TRUE)
  /\ UNCHANGED <<meter, gate, shutdownStarted, instance, flight,
                 now, faults, database, history>>

SwapOut_KeepsBytes == UNCHANGED bytes /\ pendingRequests' = 0 /\ pendingMinute' = NoMinutes
SwapOut == bytes' = NoBytes /\ pendingRequests' = 0 /\ pendingMinute' = NoMinutes

(* trafficMu taken, counters and buckets swapped out. *)
FlushSwap(by) ==
  /\ by \in Flusher /\ ~Flushing /\ ~NothingPending
  /\ flight' = [by |-> by, bytes |-> bytes, requests |-> pendingRequests,
                minutes |-> WithResidual]
  /\ SwapOut
  /\ UNCHANGED <<meter, control, persistedBytes, persistedTraffic, siteUsed,
                 siteDir, now, faults, database, history>>

(* addTrafficMinuteBuckets commits its one transaction. *)
CommitBuckets ==
  /\ logs' = [k \in Kind |-> logs[k] + (IF k \in Direction THEN flight.bytes[k]
                                        ELSE RequestsIn(flight.minutes))]
  /\ minuteLogs' = PlusMinutes(minuteLogs, flight.minutes)
  /\ rowUsed' = rowUsed + (flight.bytes["in"] + flight.bytes["out"])
  /\ rowDir' = [d \in Direction |-> rowDir[d] + flight.bytes[d]]

(* The transaction commits, then the persisted baseline moves. *)
FlushCommit ==
  /\ Flushing
  /\ CommitBuckets
  /\ persistedTraffic' = persistedTraffic + (flight.bytes["in"] + flight.bytes["out"])
  /\ siteUsed' = siteUsed + (flight.bytes["in"] + flight.bytes["out"])
  /\ persistedBytes' = [d \in Direction |-> persistedBytes[d] + flight.bytes[d]]
  /\ siteDir' = [d \in Direction |-> siteDir[d] + flight.bytes[d]]
  /\ JobAfterFlush(flight.by, TRUE)
  /\ flight' = NoFlight
  /\ UNCHANGED <<meter, gate, shutdownStarted, bytes, pendingRequests,
                 pendingMinute, now, faults, history>>

(* Every counter is put back on top of what arrived during the flush, the  *)
(* residual requests staying in their bucket.                              *)
Restore_Overwrites == /\ bytes' = flight.bytes
                      /\ pendingRequests' = pendingRequests + flight.requests
                      /\ pendingMinute' = PlusMinutes(pendingMinute, flight.minutes)
Restore_BytesOnly == /\ bytes' = Plus(bytes, flight.bytes)
                     /\ UNCHANGED <<pendingRequests, pendingMinute>>
Restore == /\ bytes' = Plus(bytes, flight.bytes)
           /\ pendingRequests' = pendingRequests + flight.requests
           /\ pendingMinute' = PlusMinutes(pendingMinute, flight.minutes)

(* The transaction fails and is rolled back. *)
FlushFail ==
  /\ Flushing /\ faults < MaxFault
  /\ faults' = faults + 1
  /\ Restore
  /\ JobAfterFlush(flight.by, FALSE)
  /\ flight' = NoFlight
  /\ UNCHANGED <<meter, gate, shutdownStarted, persistedBytes,
                 persistedTraffic, siteUsed, siteDir, now, database, history>>

-----------------------------------------------------------------------------
(* Lifecycle calls                                                         *)

(* StopSite on an installed instance: it checks persistence first. *)
StopSite ==
  /\ job.kind = "none" /\ gate # "absent"
  /\ job' = [kind |-> "stop", at |-> "first", row |-> NoRow]
  /\ UNCHANGED <<meter, gate, shutdownStarted, instance, flight, now,
                 faults, database, history>>

(* GetSite reads the row, then StartSite runs with that copy. *)
StartSite ==
  /\ job.kind = "none" /\ ~shutdownStarted
  /\ job' = [kind |-> "start", at |-> IF gate = "absent" THEN "leave" ELSE "first",
             row |-> [used |-> rowUsed, dir |-> rowDir]]
  /\ UNCHANGED <<meter, gate, shutdownStarted, instance, flight, now, faults,
                 database, history>>

(* GracefulShutdown: no instance may start any more; the gates close       *)
(* without a flush before.                                                 *)
GracefulShutdown ==
  /\ job.kind = "none"
  /\ shutdownStarted' = TRUE
  /\ job' = IF gate = "absent" THEN NoJob ELSE [kind |-> "shutdown", at |-> "close", row |-> NoRow]
  /\ UNCHANGED <<meter, gate, instance, flight, now, faults, database,
                 history>>

(* inst.shutdown closes the request gate and waits for activeRequests. *)
CloseGate ==
  /\ job.at = "close"
  /\ gate' = "closed" /\ job' = [job EXCEPT !.at = "drain"]
  /\ UNCHANGED <<meter, shutdownStarted, instance, flight, now, faults,
                 database, history>>

Drained ==
  /\ job.at = "drain" /\ Active = {}
  /\ job' = [job EXCEPT !.at = "final"]
  /\ UNCHANGED <<meter, gate, shutdownStarted, instance, flight, now,
                 faults, database, history>>

(* The drain deadline passes first.  StartSite gives up; StopSite and      *)
(* GracefulShutdown still flush, and keep the instance.                    *)
DrainTimeout ==
  /\ job.at = "drain"
  /\ job' = IF job.kind = "start" THEN NoJob ELSE [job EXCEPT !.at = "late"]
  /\ UNCHANGED <<meter, gate, shutdownStarted, instance, flight, now,
                 faults, database, history>>

(* A fresh or missing instance has zero counters. *)
ZeroPending == bytes' = NoBytes /\ pendingRequests' = 0 /\ pendingMinute' = NoMinutes

(* delete(pm.proxies, id): the instance and its counters are gone. *)
Remove ==
  /\ job.at = "leave" /\ job.kind \in {"stop", "shutdown"}
  /\ gate' = "absent" /\ job' = NoJob
  /\ ZeroPending
  /\ persistedBytes' = NoBytes /\ persistedTraffic' = 0
  /\ siteUsed' = 0 /\ siteDir' = NoBytes
  /\ UNCHANGED <<meter, shutdownStarted, flight, now, faults, database,
                 history>>

Newer_Ignored == FALSE
Newer == gate # "absent" /\ siteUsed > job.row.used

(* pm.proxies[id] = inst.  A replaced instance that flushed more than the  *)
(* caller's row shows hands its baseline over.                             *)
Install ==
  /\ job.at = "leave" /\ job.kind = "start"
  /\ persistedTraffic' = IF Newer THEN siteUsed ELSE job.row.used
  /\ persistedBytes' = IF Newer THEN siteDir ELSE job.row.dir
  /\ siteUsed' = IF Newer THEN siteUsed ELSE job.row.used
  /\ siteDir' = job.row.dir
  /\ ZeroPending
  /\ gate' = "open" /\ job' = NoJob
  /\ UNCHANGED <<meter, shutdownStarted, flight, now, faults, database,
                 history>>

(* The process exits or crashes; SQLite keeps what was committed.  The     *)
(* next process starts the enabled sites from their rows (StartSite).      *)
Exit ==
  /\ gate # "absent" \/ shutdownStarted
  /\ faults < MaxFault
  /\ faults' = faults + 1
  /\ lost' = [d \in Direction |-> lost[d] + bytes[d] + flight.bytes[d]]
  /\ lostMinute' = [d \in Direction |-> lostMinute[d]
                      + SumFunction([m \in Minute |-> pendingMinute[m][d] + flight.minutes[m][d]])
                      + SumFunction([r \in Request |-> meter[r].local[d]])]
  /\ lostRequests' = lostRequests + RequestsIn(flight.minutes)
                       + PendingTotal
  /\ meter' = [r \in Request |-> IF r \in Active THEN [NoMeter EXCEPT !.at = "cut"] ELSE meter[r]]
  /\ gate' = "absent" /\ job' = NoJob /\ shutdownStarted' = FALSE
  /\ ZeroPending
  /\ persistedBytes' = NoBytes /\ persistedTraffic' = 0
  /\ siteUsed' = 0 /\ siteDir' = NoBytes
  /\ flight' = NoFlight
  /\ UNCHANGED <<now, database, served>>

Tick ==
  /\ now < MaxMinute /\ now' = now + 1
  /\ UNCHANGED <<meter, control, instance, flight, faults, database, history>>

-----------------------------------------------------------------------------
Metering == \E r \in Request :
               \/ Admit(r) \/ NewMeter(r) \/ DeferFinish(r)
               \/ Promote(r) \/ FinishBucket(r) \/ FinishCount(r)
               \/ \E d \in Direction, n \in Payload : AddFast(r, d, n) \/ AddStreaming(r, d, n)
Flush == \/ \E by \in {"ticker"} \cup JobFlush : FlushNothing(by) \/ FlushSwap(by)
         \/ FlushCommit \/ FlushFail
Lifecycle == \/ StopSite \/ StartSite \/ GracefulShutdown \/ CloseGate
             \/ Drained \/ DrainTimeout \/ Remove \/ Install

Next == Metering \/ Flush \/ Lifecycle \/ Exit \/ Tick

Spec == Init /\ [][Next]_vars

(* The 60 s ticker flushes until main cancels it, right before             *)
(* GracefulShutdown; a transaction ends: it commits or runs into its       *)
(* timeout.                                                                *)
Fairness == /\ WF_vars(FlushSwap("ticker") /\ ~shutdownStarted)
            /\ WF_vars(FlushCommit)

FairSpec == Spec /\ Fairness

-----------------------------------------------------------------------------
(* Properties                                                              *)

DeltaTypeOK(delta) == delta \in [Kind -> Nat]

TypeOK ==
  /\ meter \in [Request -> [at: {"idle", "admitted", "metered", "open", "adding",
                                 "counting", "done", "cut"},
                            started: Minute, due: Minute, streaming: BOOLEAN,
                            local: [Direction -> Nat]]]
  /\ gate \in {"absent", "open", "closed"}
  /\ bytes \in [Direction -> Nat]
  /\ pendingRequests \in Nat
  /\ pendingMinute \in [Minute -> [Kind -> Nat]]
  /\ persistedBytes \in [Direction -> Nat]
  /\ persistedTraffic \in Nat
  /\ siteUsed \in Nat
  /\ siteDir \in [Direction -> Nat]
  /\ flight \in [by: {"none", "ticker"} \cup JobFlush, bytes: [Direction -> Nat],
                 requests: Nat, minutes: [Minute -> [Kind -> Nat]]]
  /\ job \in [kind: {"none", "stop", "start", "shutdown"},
              at: {"idle", "close", "drain", "leave"} \cup JobFlush,
              row: [used: Nat, dir: [Direction -> Nat]]]
  /\ shutdownStarted \in BOOLEAN
  /\ now \in Minute
  /\ faults \in 0..MaxFault
  /\ rowUsed \in Nat
  /\ rowDir \in [Direction -> Nat]
  /\ logs \in [Kind -> Nat]
  /\ minuteLogs \in [Minute -> [Kind -> Nat]]
  /\ served \in [Direction -> Nat]
  /\ lost \in [Direction -> Nat]
  /\ lostMinute \in [Direction -> Nat]
  /\ lostRequests \in Nat

(* Whatever interleaving of meters, flushes that commit or fail, stops and *)
(* replacements: every byte counted is in exactly one of the pending       *)
(* counters, the flush in flight, the sites row, or was lost by an exit.   *)
Conservation ==
  \A d \in Direction :
     served[d] = bytes[d] + flight.bytes[d] + rowDir[d] + lost[d]

(* The three views SQLite keeps of the bytes, moved by one transaction,    *)
(* never disagree, and the per-minute timeline never shows a byte the      *)
(* totals do not have: while a request is in its first minute its bytes    *)
(* may be flushed before its bucket exists, never the other way round.     *)
TotalsAgree ==
  /\ rowUsed = rowDir["in"] + rowDir["out"]
  /\ \A d \in Direction :
        /\ logs[d] = rowDir[d]
        /\ SumFunction([m \in Minute |-> minuteLogs[m][d]]) <= rowDir[d]

(* The timeline misses no byte either: what it does not show yet is in a   *)
(* bucket waiting for a flush or still local to a meter.                   *)
TimelineComplete ==
  \A d \in Direction :
     served[d] = SumFunction([m \in Minute |-> pendingMinute[m][d] + flight.minutes[m][d]
                                                  + minuteLogs[m][d]])
                 + SumFunction([r \in Request |-> meter[r].local[d]])
                 + lostMinute[d]

(* finish moves two counters that a flush can separate; whatever the       *)
(* interleaving, the logs with what is pending miss no finished request.   *)
NoRequestMissed ==
  Cardinality({r \in Request : meter[r].at = "done"})
    <= logs["requests"] + RequestsIn(flight.minutes) + lostRequests
       + PendingTotal

(* What the database shows by site, by hour and by minute is consistent at *)
(* every moment and complete but for what is still on its way to it.       *)
ViewsAgree == TotalsAgree /\ TimelineComplete /\ NoRequestMissed

(* The in-memory baseline of an installed instance is the sites row:       *)
(* restarts and replacements, whose row copy may predate the last flush,   *)
(* neither drop nor double a flushed byte.                                 *)
BaselineIsRow ==
  gate # "absent" => persistedTraffic = rowUsed /\ siteUsed = rowUsed

(* An instance is removed or replaced only when no request is inside it    *)
(* and nothing it counted is still pending.                                *)
LeavesNothingBehind ==
  job.at = "leave" => NothingPending /\ ~Flushing /\ Active = {}

(* Bytes counted do not stay in memory while the process serves, whatever  *)
(* flush fails and whichever instance is stopped or replaced meanwhile.    *)
(* Once it shuts down there is no ticker: what a request counts after the  *)
(* last pass, its drain having timed out, is lost when the process exits.  *)
EventuallyPersisted ==
  \A d \in Direction : []<>(shutdownStarted \/ served[d] = rowDir[d] + lost[d])

Ledger == INSTANCE TrafficLedger WITH persisted <- rowDir

(* The accounting implements the abstract ledger.                          *)
ImplementsLedger == Ledger!Spec
=============================================================================
