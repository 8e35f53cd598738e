---------------------------- MODULE TrafficQuota ----------------------------
(***************************************************************************)
(* Enforcement of one site's traffic quota: the usage gate at the start of *)
(* a request, the reservation each metered read or write takes and settles *)
(* (trafficQuotaState), the usage cache of the instance, the flush that    *)
(* advances it, and what moves underneath them: the billing mode an        *)
(* administrator saves and the reset boundary of the billing cycle.        *)
(*                                                                         *)
(* Atomicity.  reserve reads the settings before it takes q.mu, and, when  *)
(* it has to reload, once more before it waits for trafficMu; settle and   *)
(* meter are two steps.  The generation counter only ever tells a          *)
(* reservation whether the state was reloaded since: the reservation keeps *)
(* that fact, and q whether it was reloaded at all.                        *)
(***************************************************************************)
EXTENDS Naturals, FiniteSets, Functions

CONSTANTS Writer,       \* requests in progress on the instance
          Quota,        \* site.TrafficQuota, positive
          Size,         \* bytes one read or write may ask for
          MaxBytes,     \* bound: bytes delivered
          MaxCycle,     \* bound: reset boundaries passed
          MaxSave,      \* bound: saves that change the billing mode
          MaxFault      \* bound: failed transactions and queries

ASSUME WriterAssumption == IsFiniteSet(Writer)
ASSUME QuotaAssumption == /\ Quota \in Nat \ {0}
                          /\ Size \subseteq Nat \ {0}
                          /\ MaxBytes \in Nat /\ MaxCycle \in Nat
                          /\ MaxSave \in Nat /\ MaxFault \in Nat

Direction == {"in", "out"}
Mode == {"bidirectional", "outbound"}
Cycle == 0..MaxCycle

VARIABLES
  mode,         \* systemSettings.TrafficBillingMode
  cycle,        \* the billing cycle the clock is in
  logs,         \* traffic_logs of the site, by the cycle of recorded_at
  bytes,        \* bytesIn, bytesOut
  flight,       \* the flush holding trafficMu
  cache,        \* trafficCycleStart, trafficCycleMode, trafficCycleUsage
  q,            \* the trafficQuotaState
  writer,       \* each request, and the reservation of its current write
  slipped,      \* history: billable bytes settled but not metered when q was reloaded
  saves, faults

vars == <<mode, cycle, logs, bytes, flight, cache, q, writer, slipped, saves, faults>>

NoBytes == [d \in Direction |-> 0]
NoFlight == [on |-> FALSE, bytes |-> NoBytes, cycle |-> 0]
NoCache == [mode |-> "none", cycle |-> 0, usage |-> 0]
FreshQ == [mode |-> "none", cycle |-> 0, usage |-> 0, reloaded |-> FALSE]
NoWrite == [at |-> "idle", dir |-> "in", size |-> 0, mode |-> "none", cycle |-> 0,
            fresh |-> "none", reserved |-> 0, charged |-> FALSE, same |-> FALSE,
            actual |-> 0]

(* trafficBillableBytes. *)
Bills(m, d) == d = "out" \/ m # "outbound"
Billable(m, b) == SumFunction([d \in Direction |-> IF Bills(m, d) THEN b[d] ELSE 0])

(* SumTrafficSinceForSite. *)
SumSince(c, m) == SumFunction([k \in c..MaxCycle |-> Billable(m, logs[k])])

Init ==
  /\ mode \in Mode /\ cycle = 0
  /\ logs = [c \in Cycle |-> NoBytes]
  /\ bytes = NoBytes /\ flight = NoFlight
  /\ cache = NoCache /\ q = FreshQ
  /\ writer = [w \in Writer |-> NoWrite]
  /\ slipped = 0 /\ saves = 0 /\ faults = 0

Fault == faults < MaxFault /\ faults' = faults + 1

-----------------------------------------------------------------------------
(* currentTrafficCycleUsage(inst, now), under trafficMu.  The settings and *)
(* the clock were read before that mutex, as m and c.                      *)

Reloaded(m, c) == IF cache.mode = m /\ cache.cycle = c THEN cache
                  ELSE [mode |-> m, cycle |-> c, usage |-> SumSince(c, m)]
CurrentUsage(m, c) == Reloaded(m, c).usage + Billable(m, bytes)

Unlocked == ~flight.on

-----------------------------------------------------------------------------
(* Requests                                                                *)

(* The gate at the start of a request reads clock and settings. *)
Arrive(w) ==
  /\ writer[w].at = "idle"
  /\ writer' = [writer EXCEPT ![w].at = "gate", ![w].mode = mode, ![w].cycle = cycle]
  /\ UNCHANGED <<mode, cycle, logs, bytes, flight, cache, q, slipped, saves, faults>>

(* A site at its quota answers 403; a failed query lets the request pass.  *)
Gate(w) ==
  LET r == writer[w]
  IN  /\ r.at = "gate" /\ Unlocked
      /\ \/ /\ cache' = Reloaded(r.mode, r.cycle) /\ UNCHANGED faults
            /\ writer' = [writer EXCEPT ![w] = IF CurrentUsage(r.mode, r.cycle) < Quota
                                               THEN [NoWrite EXCEPT !.at = "ready"] ELSE NoWrite]
         \/ /\ cache.mode # r.mode \/ cache.cycle # r.cycle
            /\ Fault /\ UNCHANGED cache
            /\ writer' = [writer EXCEPT ![w] = [NoWrite EXCEPT !.at = "ready"]]
      /\ UNCHANGED <<mode, cycle, logs, bytes, flight, q, slipped, saves>>

(* reserve, before q.mu: clock and settings, for the write of n bytes. *)
ReadSettings(w, d, n) ==
  /\ writer[w].at = "ready"
  /\ writer' = [writer EXCEPT ![w] = [NoWrite EXCEPT !.at = "reserving", !.dir = d,
                                        !.size = n, !.mode = mode, !.cycle = cycle]]
  /\ UNCHANGED <<mode, cycle, logs, bytes, flight, cache, q, slipped, saves, faults>>

(* q.mu is held across a reload. *)
Reloading(w) == writer[w].at = "reloading"
QFree == \A w \in Writer : ~Reloading(w)

Stale(w) == q.mode # writer[w].mode \/ q.cycle # writer[w].cycle

(* Under q.mu, the cycle or mode changed: the reload reads settings again. *)
EnterReload(w) ==
  /\ writer[w].at = "reserving" /\ QFree /\ Stale(w)
  /\ writer' = [writer EXCEPT ![w].at = "reloading", ![w].fresh = mode]
  /\ UNCHANGED <<mode, cycle, logs, bytes, flight, cache, q, slipped, saves, faults>>

(* Billable bytes settled on a request but not yet in bytesIn, bytesOut. *)
Unmetered(m) == SumFunction([w \in Writer |->
                   IF writer[w].at = "settled" /\ Bills(m, writer[w].dir)
                   THEN writer[w].actual ELSE 0])

(* What reserve grants, given the usage it found or reloaded. *)
Uncharged(r) == r.dir = "in" /\ r.mode = "outbound"
Allowed(usage, r) ==
  LET remaining == IF usage < Quota THEN Quota - usage ELSE 0
  IN  IF Uncharged(r) \/ r.size <= remaining THEN r.size ELSE remaining
Charge_UntilSettled(usage, r) == usage
Charge(usage, r) == IF Uncharged(r) THEN usage ELSE usage + Allowed(usage, r)

(* The rest of reserve; nothing left ends the request.                     *)
Granted(writers, w, usage) ==
  IF Allowed(usage, writer[w]) = 0 THEN [writers EXCEPT ![w] = NoWrite]
  ELSE [writers EXCEPT ![w] = [NoWrite EXCEPT !.at = "writing", !.dir = writer[w].dir,
          !.reserved = Allowed(usage, writer[w]), !.charged = ~Uncharged(writer[w]),
          !.same = TRUE]]

Reserve(w) ==
  /\ writer[w].at = "reserving" /\ QFree /\ ~Stale(w)
  /\ q' = [q EXCEPT !.usage = Charge(@, writer[w])]
  /\ writer' = Granted(writer, w, q.usage)
  /\ UNCHANGED <<mode, cycle, logs, bytes, flight, cache, slipped, saves, faults>>

(* The reload starts a new generation: the reservations still open are no  *)
(* longer q's.                                                             *)
Reload(w) ==
  LET r == writer[w]
      usage == CurrentUsage(r.fresh, r.cycle)
      outdated == [x \in Writer |-> [writer[x] EXCEPT !.same = FALSE]]
  IN  /\ Reloading(w) /\ Unlocked
      /\ cache' = Reloaded(r.fresh, r.cycle)
      /\ q' = [mode |-> r.mode, cycle |-> r.cycle, usage |-> Charge(usage, r),
               reloaded |-> q.mode # "none"]
      /\ slipped' = Unmetered(r.mode)
      /\ writer' = Granted(outdated, w, usage)
      /\ UNCHANGED <<mode, cycle, logs, bytes, flight, saves, faults>>

(* The query of a reload fails: the write does, and the request ends. *)
ReloadFails(w) ==
  /\ Reloading(w) /\ Unlocked /\ Fault
  /\ cache.mode # writer[w].fresh \/ cache.cycle # writer[w].cycle
  /\ writer' = [writer EXCEPT ![w] = NoWrite]
  /\ UNCHANGED <<mode, cycle, logs, bytes, flight, cache, q, slipped, saves>>

(* Bytes counted on the way to the client so far. *)
Delivered == SumFunction([c \in Cycle |-> Billable("bidirectional", logs[c])])
               + Billable("bidirectional", bytes) + Billable("bidirectional", flight.bytes)
               + SumFunction([w \in Writer |-> writer[w].actual])

(* settle: the unused part is refunded; after a reload the whole is added, *)
(* if the mode q has now bills it.                                         *)
Refunded(usage, refund) == IF refund >= usage THEN 0 ELSE usage - refund
UsageAfter_NoReadd(r, actual) ==
  IF r.same /\ r.charged THEN Refunded(q.usage, r.reserved - actual) ELSE q.usage
UsageAfter(r, actual) ==
  IF r.same THEN IF r.charged THEN Refunded(q.usage, r.reserved - actual) ELSE q.usage
  ELSE IF Bills(q.mode, r.dir) THEN q.usage + actual ELSE q.usage

(* The read or write moves some of what was granted; then it settles. *)
Settle(w, actual) ==
  /\ writer[w].at = "writing" /\ QFree /\ actual <= writer[w].reserved
  /\ Delivered + actual <= MaxBytes
  /\ q' = [q EXCEPT !.usage = UsageAfter(writer[w], actual)]
  /\ writer' = [writer EXCEPT ![w] = [NoWrite EXCEPT !.at = "settled", !.dir = writer[w].dir,
                                        !.actual = actual]]
  /\ UNCHANGED <<mode, cycle, logs, bytes, flight, cache, slipped, saves, faults>>

(* The meter counts it; the request goes on or ends. *)
Meter(w) ==
  /\ writer[w].at = "settled"
  /\ bytes' = [bytes EXCEPT ![writer[w].dir] = @ + writer[w].actual]
  /\ \E next \in {"idle", "ready"} : writer' = [writer EXCEPT ![w] = [NoWrite EXCEPT !.at = next]]
  /\ UNCHANGED <<mode, cycle, logs, flight, cache, q, slipped, saves, faults>>

-----------------------------------------------------------------------------
(* Flush, settings, clock                                                  *)

FlushSwap ==
  /\ ~flight.on /\ bytes # NoBytes
  /\ flight' = [on |-> TRUE, bytes |-> bytes, cycle |-> cycle]
  /\ bytes' = NoBytes
  /\ UNCHANGED <<mode, cycle, logs, cache, q, writer, slipped, saves, faults>>

(* A cache of the current cycle and mode advances with the flush. *)
Advanced_AllBytes ==
  IF cache.mode = mode /\ cache.cycle = cycle
  THEN [cache EXCEPT !.usage = @ + Billable("bidirectional", flight.bytes)] ELSE cache
Advanced ==
  IF cache.mode = mode /\ cache.cycle = cycle
  THEN [cache EXCEPT !.usage = @ + Billable(mode, flight.bytes)] ELSE cache

FlushCommit ==
  /\ flight.on
  /\ logs' = [logs EXCEPT ![flight.cycle] = [d \in Direction |-> @[d] + flight.bytes[d]]]
  /\ cache' = Advanced
  /\ flight' = NoFlight
  /\ UNCHANGED <<mode, cycle, bytes, q, writer, slipped, saves, faults>>

FlushFail ==
  /\ flight.on /\ Fault
  /\ bytes' = [d \in Direction |-> bytes[d] + flight.bytes[d]]
  /\ flight' = NoFlight
  /\ UNCHANGED <<mode, cycle, logs, cache, q, writer, slipped, saves>>

(* saveSystemSettings: the new billing mode is stored for every reader. *)
SaveMode ==
  /\ saves < MaxSave /\ saves' = saves + 1
  /\ mode' \in Mode \ {mode}
  /\ UNCHANGED <<cycle, logs, bytes, flight, cache, q, writer, slipped, faults>>

(* trafficCycleStart moves to the next reset boundary. *)
NextCycle ==
  /\ cycle < MaxCycle /\ cycle' = cycle + 1
  /\ UNCHANGED <<mode, logs, bytes, flight, cache, q, writer, slipped, saves, faults>>

Next ==
  \/ \E w \in Writer : \/ Arrive(w) \/ Gate(w) \/ EnterReload(w) \/ Reload(w)
                       \/ ReloadFails(w) \/ Reserve(w) \/ Meter(w)
                       \/ \E d \in Direction, n \in Size : ReadSettings(w, d, n)
                       \/ \E n \in 0..MaxBytes : Settle(w, n)
  \/ FlushSwap \/ FlushCommit \/ FlushFail \/ SaveMode \/ NextCycle

Spec == Init /\ [][Next]_vars

-----------------------------------------------------------------------------
(* Properties                                                              *)

TypeOK ==
  /\ mode \in Mode /\ cycle \in Cycle
  /\ logs \in [Cycle -> [Direction -> Nat]]
  /\ bytes \in [Direction -> Nat]
  /\ flight \in [on: BOOLEAN, bytes: [Direction -> Nat], cycle: Cycle]
  /\ cache \in [mode: Mode \cup {"none"}, cycle: Cycle, usage: Nat]
  /\ q \in [mode: Mode \cup {"none"}, cycle: Cycle, usage: Nat, reloaded: BOOLEAN]
  /\ writer \in [Writer -> [at: {"idle", "gate", "ready", "reserving", "reloading",
                                 "writing", "settled"},
                            dir: Direction, size: Size \cup {0}, mode: Mode \cup {"none"},
                            cycle: Cycle, fresh: Mode \cup {"none"},
                            reserved: Nat, charged: BOOLEAN, same: BOOLEAN, actual: 0..MaxBytes]]
  /\ slipped \in Nat /\ saves \in 0..MaxSave /\ faults \in 0..MaxFault

(* q describes the cycle and the mode in force. *)
Current == q.mode = mode /\ q.cycle = cycle

(* Billable traffic of the running cycle, wherever it is. *)
Traffic == SumSince(cycle, mode)
             + (IF flight.cycle = cycle THEN Billable(mode, flight.bytes) ELSE 0)
             + Billable(mode, bytes) + Unmetered(mode)

(* Granted to writes that have not settled. *)
Reserved == SumFunction([w \in Writer |->
              IF writer[w].at = "writing" /\ writer[w].same /\ writer[w].charged
              THEN writer[w].reserved ELSE 0])

(* The billing mode was changed, and changed again.  Cache and q are       *)
(* recognised by their mode and cycle alone, so those of a mode that       *)
(* returns pass for current without what was flushed under the other.      *)
SwitchedBack == saves > 1

(* Through concurrent writes, partial writes, flushes that fail, a change  *)
(* of mode or cycle in mid-write: the usage a reservation is checked       *)
(* against is the traffic plus what is granted -- nothing charged twice,   *)
(* no refund lost -- except for bytes that were between settle and meter   *)
(* when the state was reloaded.                                            *)
UsageIsExact == ~SwitchedBack /\ Current => q.usage + slipped = Traffic + Reserved

(* Concurrent writers never deliver more than the quota between them while *)
(* neither the mode nor the cycle changes.                                 *)
QuotaHeld == Current /\ ~q.reloaded => Traffic <= Quota

(* The usage cache of the gate is what a query of the logs would return.   *)
CacheCurrent == cache.mode = mode /\ cache.cycle = cycle
CacheMatchesLogs ==
  ~SwitchedBack /\ CacheCurrent => cache.usage = SumSince(cycle, mode)

(* The same whatever was saved before, as the comment of                   *)
(* currentTrafficCycleUsage has it.                                        *)
CacheAlwaysMatchesLogs == CacheCurrent => cache.usage = SumSince(cycle, mode)
=============================================================================
