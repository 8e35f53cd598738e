-------------------------- MODULE ProgressCoalescer --------------------------
(***************************************************************************)
(* The progress coalescer of one instance: playback progress reports of a  *)
(* key (session, play session, item, credential) wait in a batch that the  *)
(* latest report replaces, a Stopped report is a barrier behind them, and  *)
(* drain and close are called by the shutdown of the instance.             *)
(*                                                                         *)
(* Atomicity.  c.mu makes each action one critical section; the upstream   *)
(* round trips, the wait of a handler for its outcome and a timer callback *)
(* waiting for c.mu are between two of them.  Limits shared with other     *)
(* sites, and a body that cannot be read or parsed, may refuse a request   *)
(* at any time.                                                            *)
(***************************************************************************)
EXTENDS Naturals, FiniteSets, Sequences, SequencesExt

CONSTANTS Request,      \* identities of Progress and Stopped requests
          Key,
          Debounce, MaxDelay,   \* debounce, maxDispatchDelay
          MaxWaiters,   \* maxWaitersPerKey
          MaxTime,      \* bound: the clock
          MaxDrain,     \* bound: calls of Drain
          MaxFail       \* bound: upstream dispatches that fail

ASSUME IdentitiesAssumption == IsFiniteSet(Request) /\ IsFiniteSet(Key) /\ Key # {}
ASSUME CoalescerAssumption ==
  /\ Debounce \in Nat \ {0} /\ MaxDelay \in Nat /\ Debounce <= MaxDelay
  /\ MaxWaiters \in Nat \ {0}
  /\ MaxTime \in Nat /\ MaxDrain \in Nat /\ MaxFail \in Nat

VARIABLES
  req,          \* the handler of each request, its waiter or barrier
  entry,        \* c.entries; the fields count, sent and last are history: the
                \* reports numbered, the last that the queue and that anyone sent
  state,        \* c.state
  cycle,        \* the drain cycle of the caller: running while c.drain is set
  drainErr,     \* c.drain.err
  stop,         \* inst.shutdown: before, in and after drainProgress
  globalKeys, globalWaiters,    \* what this coalescer holds of c.global
  now,
  drains, fails,
  failedInDrain \* history: a dispatch ended in failure since the drain began

clock == <<now, drains>>
vars == <<req, entry, state, cycle, drainErr, stop, globalKeys, globalWaiters,
          now, drains, fails, failedInDrain>>

NoWork == [kind |-> "none", req |-> 0, waiters |-> {}, first |-> 0, due |-> 0,
           ready |-> "no", gen |-> 0, timers |-> {}]
NoEntry == [there |-> FALSE, queue |-> <<>>, act |-> NoWork, waiters |-> 0,
            count |-> 0, sent |-> 0, last |-> 0]
NoRequest == [at |-> "idle", key |-> CHOOSE k \in Key : TRUE, held |-> FALSE, live |-> FALSE,
              order |-> 0, answer |-> 0]

IsBatch(w) == w.kind = "batch"
Busy(e) == e.act # NoWork
Idle(e) == e.queue = <<>> /\ ~Busy(e)

Init ==
  /\ req = [r \in Request |-> NoRequest]
  /\ entry = [k \in Key |-> NoEntry]
  /\ state = "open" /\ cycle = "none" /\ drainErr = FALSE /\ stop = "serving"
  /\ globalKeys = 0 /\ globalWaiters = 0
  /\ now = 0 /\ drains = 0 /\ fails = 0 /\ failedInDrain = FALSE

-----------------------------------------------------------------------------
(* Entries                                                                 *)

(* advanceEntryLocked: the batch at the head of the queue goes upstream,   *)
(* the barrier at its head is granted.                                     *)
SentUpTo(e, n) == [e EXCEPT !.sent = n, !.last = n]
Waits(e) == e.queue # <<>> /\ IsBatch(Head(e.queue)) /\ Head(e.queue).ready = "no"
Activated(e) == [e EXCEPT !.queue = Tail(@), !.act = Head(e.queue)]
Advance(e) ==
  IF Busy(e) \/ e.queue = <<>> \/ Waits(e) THEN e
  ELSE IF IsBatch(Head(e.queue)) THEN SentUpTo(Activated(e), Head(e.queue).req)
  ELSE Activated(e)

(* forceQueuedBatchesLocked. *)
Forced(w) == IF IsBatch(w) /\ w.ready = "no"
             THEN [w EXCEPT !.ready = "forced", !.gen = @ + 1, !.timers = {}] ELSE w
ForceBatches(e) == [e EXCEPT !.queue = [i \in DOMAIN @ |-> Forced(@[i])]]

(* scheduleBatchLocked.  Stopping a timer that already fired does not stop *)
(* its callback, which may be waiting for c.mu.  The callbacks of a batch  *)
(* that is ready do nothing and are left out.                              *)
EarlierOf(a, b) == IF a <= b THEN a ELSE b
Schedule_NotRearmed(b) ==
  IF b.ready # "no" THEN b
  ELSE IF b.timers = {} THEN [b EXCEPT !.gen = @ + 1, !.due = now + Debounce,
                                       !.timers = {[gen |-> b.gen + 1, at |-> now + Debounce]}]
  ELSE [b EXCEPT !.gen = @ + 1]
Schedule(b) ==
  LET deadline == EarlierOf(now + Debounce, b.first + MaxDelay)
  IN  IF b.ready # "no" THEN b
      ELSE IF deadline <= now THEN [b EXCEPT !.ready = "due", !.due = deadline, !.timers = {}]
      ELSE [b EXCEPT !.gen = @ + 1, !.due = deadline,
                     !.timers = {t \in @ : t.at <= now} \cup {[gen |-> b.gen + 1, at |-> deadline]}]

(* A report joins the batch that ends the queue, in which it replaces the  *)
(* request to send, or starts a new one.                                   *)
JoinsAt(e) ==
  IF e.queue # <<>> /\ IsBatch(Last(e.queue)) THEN Len(e.queue) ELSE 0

NewBatch == [NoWork EXCEPT !.kind = "batch", !.first = now]
Joined(b, n, r) == Schedule([b EXCEPT !.req = n, !.waiters = @ \cup {r}])
WithUpdate(e, r) ==
  LET n == e.count + 1
      at == JoinsAt(e)
  IN  [e EXCEPT !.count = n,
                !.queue = IF at = 0 THEN Append(@, Joined(NewBatch, n, r))
                          ELSE [@ EXCEPT ![at] = Joined(e.queue[at], n, r)]]

NewBarrier(n, r) == [NoWork EXCEPT !.kind = "barrier", !.req = n, !.waiters = {r}]
WithBarrier_AtFront(e, r) ==
  [e EXCEPT !.count = @ + 1, !.queue = <<NewBarrier(e.count + 1, r)>> \o @]
WithBarrier(e, r) ==
  [ForceBatches(e) EXCEPT !.count = @ + 1,
                          !.queue = Append(@, NewBarrier(e.count + 1, r))]

-----------------------------------------------------------------------------
(* Drain                                                                   *)

(* completeDrainLocked, for the entries e and state s that a step leaves.  *)
CompleteDrain(e, s, err, held) ==
  IF s = "draining" /\ cycle = "running" /\ held = {} /\ \A k \in Key : Idle(e[k])
  THEN /\ entry' = e
       /\ cycle' = IF err THEN "failed" ELSE "ok"
       /\ state' = IF err THEN "open" ELSE "drained"
  ELSE entry' = e /\ state' = s /\ UNCHANGED cycle

Held == {r \in Request : req[r].held}

(* endProgressIngress of request r: advanceDrainLocked. *)
EndIngress(r) ==
  IF state = "quiescing" /\ cycle = "running" /\ Held = {r}
  THEN CompleteDrain([k \in Key |-> Advance(ForceBatches(entry[k]))], "draining", drainErr, {})
  ELSE UNCHANGED <<entry, state, cycle>>

(* A step that changes one entry, with what c.mu's holder does at its end. *)
Change(k, e, err) == CompleteDrain([entry EXCEPT ![k] = e], state, err, Held)
Pushed(e) == Advance(IF state = "draining" THEN ForceBatches(e) ELSE e)

-----------------------------------------------------------------------------
(* Requests                                                                *)

(* beginProgressIngress; 503 unless the coalescer is open. *)
BeginIngress(r) ==
  /\ req[r].at = "idle" /\ state # "closed"
  /\ req' = [req EXCEPT ![r] = IF state = "open" THEN [@ EXCEPT !.at = "admitted", !.held = TRUE]
                               ELSE [@ EXCEPT !.at = "done"]]
  /\ UNCHANGED <<entry, state, cycle, drainErr, stop, globalKeys, globalWaiters, clock,
                 fails, failedInDrain>>

MayEnqueue(r, k) ==
  /\ req[r].at = "admitted" /\ state \in {"open", "quiescing"}
  /\ entry[k].waiters < MaxWaiters
  /\ now + Debounce <= MaxTime
ReserveWaiter(k) ==
  /\ globalKeys' = IF entry[k].there THEN globalKeys ELSE globalKeys + 1
  /\ globalWaiters' = globalWaiters + 1

Entered(e) == [e EXCEPT !.there = TRUE, !.waiters = @ + 1]
Enqueue(r, k, label, e) ==
  /\ MayEnqueue(r, k) /\ ReserveWaiter(k)
  /\ req' = [req EXCEPT ![r] = [@ EXCEPT !.at = label, !.key = k, !.live = TRUE,
                                         !.order = e.count]]
  /\ entry' = [entry EXCEPT ![k] = Advance(Entered(e))]
  /\ UNCHANGED <<state, cycle, drainErr, stop, clock, fails, failedInDrain>>

EnqueueUpdate(r, k) == Enqueue(r, k, "update", WithUpdate(entry[k], r))
EnqueueBarrier(r, k) == Enqueue(r, k, "barrier", WithBarrier(entry[k], r))

(* serveProgressFallback: the ordinary proxy while the coalescer is open,  *)
(* 503 otherwise; the admission is kept meanwhile.  k is the key the       *)
(* report is of, whether the coalescer could tell it or not: the report is *)
(* sent at once, past what waits in the queue of its key.                  *)
PassedQueue(e) == [e EXCEPT !.count = @ + 1, !.last = e.count + 1]
Fallback(r, k) ==
  /\ req[r].at = "admitted"
  /\ req' = [req EXCEPT ![r].at = IF state = "open" THEN "fallback" ELSE "refused"]
  /\ entry' = IF state = "open" THEN [entry EXCEPT ![k] = PassedQueue(@)] ELSE entry
  /\ UNCHANGED <<state, cycle, drainErr, stop, globalKeys, globalWaiters, clock,
                 fails, failedInDrain>>

ReleaseAdmission(r) ==
  /\ req[r].held /\ req[r].at # "admitted"
  /\ req' = [req EXCEPT ![r].held = FALSE,
                        ![r].at = IF @ \in {"fallback", "refused"} THEN "done" ELSE @]
  /\ EndIngress(r)
  /\ UNCHANGED <<drainErr, stop, globalKeys, globalWaiters, clock, fails, failedInDrain>>

(* The outcome was published. *)
Receive(r) ==
  /\ req[r].at = "update" /\ ~req[r].held /\ ~req[r].live
  /\ req' = [req EXCEPT ![r].at = "done"]
  /\ UNCHANGED <<entry, state, cycle, drainErr, stop, globalKeys, globalWaiters, clock,
                 fails, failedInDrain>>

(* resolveCanceledWaiter: the client is gone, its report stays. *)
Without(w, r) == [w EXCEPT !.waiters = @ \ {r}]
WithoutWaiter_NorBatch(e, r) ==
  [e EXCEPT !.queue = SelectSeq(@, LAMBDA w : w.waiters # {r}),
            !.act = Without(@, r), !.waiters = @ - 1]
WithoutWaiter_StaysInBatch(e, r) == [e EXCEPT !.waiters = @ - 1]
WithoutWaiter(e, r) ==
  [e EXCEPT !.queue = [i \in DOMAIN @ |-> Without(@[i], r)],
            !.act = Without(@, r), !.waiters = @ - 1]

CancelUpdate(r) ==
  /\ req[r].at = "update" /\ ~req[r].held /\ req[r].live
  /\ req' = [req EXCEPT ![r].at = "done", ![r].live = FALSE]
  /\ entry' = [entry EXCEPT ![req[r].key] = WithoutWaiter(@, r)]
  /\ globalWaiters' = globalWaiters - 1
  /\ UNCHANGED <<state, cycle, drainErr, stop, globalKeys, clock, fails, failedInDrain>>

IsActiveBarrier(r) == entry[req[r].key].act.kind = "barrier" /\ entry[req[r].key].act.waiters = {r}

(* The Stopped request goes through the ordinary proxy. *)
Granted(r) ==
  /\ req[r].at = "barrier" /\ ~req[r].held /\ IsActiveBarrier(r)
  /\ req' = [req EXCEPT ![r].at = "stopping"]
  /\ entry' = [entry EXCEPT ![req[r].key] = SentUpTo(@, @.act.req)]
  /\ UNCHANGED <<state, cycle, drainErr, stop, globalKeys, globalWaiters, clock,
                 fails, failedInDrain>>

(* Canceled before it was granted: removeBarrierLocked. *)
Removed(e, i) == [e EXCEPT !.queue = RemoveAt(@, i), !.waiters = @ - 1]
CancelBarrier(r) ==
  /\ req[r].at = "barrier" /\ ~req[r].held /\ ~IsActiveBarrier(r)
  /\ req' = [req EXCEPT ![r].at = "done", ![r].live = FALSE, ![r].order = 0]
  /\ LET e == entry[req[r].key]
     IN  \E i \in DOMAIN e.queue :
           /\ ~IsBatch(e.queue[i]) /\ e.queue[i].waiters = {r}
           /\ Change(req[r].key, Advance(Removed(e, i)), drainErr)
  /\ globalWaiters' = globalWaiters - 1
  /\ UNCHANGED <<drainErr, stop, globalKeys, clock, fails, failedInDrain>>

(* The active work is over, and n requests no longer wait. *)
Freed(e, n) == [e EXCEPT !.act = NoWork, !.waiters = @ - n]

(* Granted to a client that is gone: released, and never sent. *)
DiscardBarrier(r) ==
  /\ req[r].at = "barrier" /\ ~req[r].held /\ IsActiveBarrier(r)
  /\ req' = [req EXCEPT ![r].at = "done", ![r].live = FALSE, ![r].order = 0]
  /\ Change(req[r].key, Pushed(Freed(entry[req[r].key], 1)), drainErr)
  /\ globalWaiters' = globalWaiters - 1
  /\ UNCHANGED <<drainErr, stop, globalKeys, clock, fails, failedInDrain>>

ReleaseBarrier(r) ==
  /\ req[r].at = "stopping"
  /\ req' = [req EXCEPT ![r].at = "done", ![r].live = FALSE]
  /\ Change(req[r].key, Pushed(Freed(entry[req[r].key], 1)), drainErr)
  /\ globalWaiters' = globalWaiters - 1
  /\ UNCHANGED <<drainErr, stop, globalKeys, clock, fails, failedInDrain>>

-----------------------------------------------------------------------------
(* Timers and dispatch                                                     *)

(* markBatchReady, unless a later schedule replaced the timer. *)
Current(b, t) == t.gen = b.gen
Elapsed(b) == [b EXCEPT !.ready = "due", !.timers = {}]
Spent(b, t) == [b EXCEPT !.timers = @ \ {t}]
Fire(k, i, t) ==
  LET e == entry[k]
      b == e.queue[i]
  IN  /\ t \in b.timers /\ t.at <= now
      /\ entry' = [entry EXCEPT ![k] = IF Current(b, t)
                                       THEN Advance([e EXCEPT !.queue[i] = Elapsed(b)])
                                       ELSE [e EXCEPT !.queue[i] = Spent(b, t)]]
      /\ UNCHANGED <<req, state, cycle, drainErr, stop, globalKeys, globalWaiters, clock,
                     fails, failedInDrain>>

(* A failed dispatch is recorded in the drain in progress. *)
Records_DrainingOnly == state = "draining"
Records == cycle = "running" /\ state \in {"quiescing", "draining"}

(* Waiters that dispatchBatch answers. *)
Answered_Key(k) == {r \in Request : req[r].key = k /\ req[r].at = "update" /\ req[r].live}
Answered(k) == entry[k].act.waiters
Told(x, n) == [x EXCEPT !.live = FALSE, !.answer = n]

(* The end of dispatchBatch. *)
DispatchDone(k, ok) ==
  LET e == entry[k]
      err == drainErr \/ (~ok /\ Records)
  IN  /\ IsBatch(e.act)
      /\ ok \/ fails < MaxFail
      /\ fails' = IF ok THEN fails ELSE fails + 1
      /\ failedInDrain' = (failedInDrain \/ (~ok /\ cycle = "running"))
      /\ drainErr' = err
      /\ req' = [r \in Request |-> IF r \in Answered(k) THEN Told(req[r], e.act.req) ELSE req[r]]
      /\ globalWaiters' = globalWaiters - Cardinality(Answered(k))
      /\ Change(k, Pushed(Freed(e, Cardinality(Answered(k)))), err)
      /\ UNCHANGED <<stop, globalKeys, clock>>

(* cleanupIdle, once the entry has been idle for idleExpiry. *)
CleanupIdle(k) ==
  /\ entry[k].there /\ Idle(entry[k]) /\ entry[k].waiters = 0
  /\ entry' = [entry EXCEPT ![k].there = FALSE]
  /\ globalKeys' = globalKeys - 1
  /\ UNCHANGED <<req, state, cycle, drainErr, stop, globalWaiters, clock, fails, failedInDrain>>

-----------------------------------------------------------------------------
(* inst.shutdown                                                           *)

(* Drain: a drained coalescer answers at once. *)
Drain ==
  /\ stop = "serving" /\ drains < MaxDrain /\ drains' = drains + 1
  /\ IF state = "drained"
     THEN stop' = "closing" /\ UNCHANGED <<entry, state, cycle, drainErr, failedInDrain>>
     ELSE /\ stop' = "draining" /\ drainErr' = FALSE /\ failedInDrain' = FALSE
          /\ LET forced == [k \in Key |-> Advance(ForceBatches(entry[k]))]
             IN  IF Held # {}
                 THEN state' = "quiescing" /\ cycle' = "running" /\ UNCHANGED entry
                 ELSE /\ entry' = forced
                      /\ IF \A k \in Key : Idle(forced[k])
                         THEN state' = "drained" /\ cycle' = "ok"
                         ELSE state' = "draining" /\ cycle' = "running"
  /\ UNCHANGED <<req, globalKeys, globalWaiters, now, fails>>

(* The cycle is done. *)
DrainReturns ==
  /\ stop = "draining" /\ cycle \in {"ok", "failed"}
  /\ stop' = IF cycle = "ok" THEN "closing" ELSE "serving"
  /\ cycle' = "none"
  /\ UNCHANGED <<req, entry, state, drainErr, globalKeys, globalWaiters, clock, fails,
                 failedInDrain>>

(* The deadline passed: the coalescer reopens unless the cycle is done     *)
(* already, in which case select may take either.                          *)
DrainTimeout ==
  /\ stop = "draining" /\ stop' = "serving"
  /\ state' = IF cycle = "running" THEN "open" ELSE state
  /\ cycle' = "none"
  /\ UNCHANGED <<req, entry, drainErr, globalKeys, globalWaiters, clock, fails, failedInDrain>>

(* Close, once activeRequests have ended. *)
Emptied(e) == [NoEntry EXCEPT !.count = e.count, !.sent = e.sent, !.last = e.last]
Close ==
  /\ stop = "closing" /\ \A r \in Request : req[r].at \in {"idle", "done"}
  /\ stop' = "closed" /\ state' = "closed"
  /\ globalKeys' = globalKeys - Cardinality({k \in Key : entry[k].there})
  /\ entry' = [k \in Key |-> Emptied(entry[k])]
  /\ UNCHANGED <<req, cycle, drainErr, globalWaiters, clock, fails, failedInDrain>>

Tick ==
  /\ now < MaxTime /\ now' = now + 1
  /\ UNCHANGED <<req, entry, state, cycle, drainErr, stop, globalKeys, globalWaiters, drains,
                 fails, failedInDrain>>

-----------------------------------------------------------------------------
Arrivals == \E r \in Request :
              \/ BeginIngress(r)
              \/ \E k \in Key : Fallback(r, k) \/ EnqueueUpdate(r, k) \/ EnqueueBarrier(r, k)
Progress == \E r \in Request : \/ ReleaseAdmission(r) \/ Receive(r) \/ Granted(r)
                               \/ ReleaseBarrier(r)
Cancels == \E r \in Request : CancelUpdate(r) \/ CancelBarrier(r) \/ DiscardBarrier(r)
Timers == \E k \in Key : \E i \in DOMAIN entry[k].queue : \E t \in entry[k].queue[i].timers :
            Fire(k, i, t)
Dispatches == \E k \in Key, ok \in BOOLEAN : DispatchDone(k, ok)
Stops == Drain \/ DrainReturns \/ DrainTimeout \/ Close

Next == Arrivals \/ Progress \/ Cancels \/ Timers \/ Dispatches \/ Stops \/ Tick
          \/ \E k \in Key : CleanupIdle(k)

Spec == Init /\ [][Next]_vars

(* Time passes, callbacks run, handlers go on, and the upstream answers or *)
(* its transport gives up.                                                 *)
Fairness == WF_vars(Tick) /\ WF_vars(Timers) /\ WF_vars(Dispatches) /\ WF_vars(Progress)

FairSpec == Spec /\ Fairness

-----------------------------------------------------------------------------
(* Properties                                                              *)

Work == [kind: {"none", "batch", "barrier"}, req: Nat, waiters: SUBSET Request,
         first: Nat, due: Nat, ready: {"no", "due", "forced"}, gen: Nat,
         timers: SUBSET [gen: Nat, at: Nat]]
Entry == [there: BOOLEAN, queue: Seq(Work), act: Work, waiters: 0..MaxWaiters,
          count: Nat, sent: Nat, last: Nat]
Handler == [at: {"idle", "admitted", "fallback", "refused", "update", "barrier",
                 "stopping", "done"},
            key: Key, held: BOOLEAN, live: BOOLEAN, order: Nat, answer: Nat]

TypeOK ==
  /\ req \in [Request -> Handler]
  /\ entry \in [Key -> Entry]
  /\ state \in {"open", "quiescing", "draining", "drained", "closed"}
  /\ cycle \in {"none", "running", "ok", "failed"}
  /\ stop \in {"serving", "draining", "closing", "closed"}
  /\ drainErr \in BOOLEAN /\ failedInDrain \in BOOLEAN
  /\ globalKeys \in 0..Cardinality(Key) /\ globalWaiters \in Nat
  /\ now \in 0..MaxTime /\ drains \in 0..MaxDrain /\ fails \in 0..MaxFail

(* What the queue of a key sends goes in the order it was accepted:        *)
(* neither a debounced batch, nor a forced one, nor a Stopped that waited  *)
(* is overtaken by another.  The server is left on an older report than    *)
(* one it had already only by a report that passed the queue, at a limit   *)
(* or unread, while an older one waited.                                   *)
NeverBackwards ==
  [][\A k \in Key : /\ entry'[k].sent >= entry[k].sent
                    /\ entry'[k].last >= entry[k].last \/ entry[k].last > entry[k].sent]_vars

(* A report that was accepted goes upstream, or a later one accepted for   *)
(* its key does in its place, whether or not its client still waits; only  *)
(* a Stopped whose client is gone before it is sent is given up, and it    *)
(* takes no other report with it.                                          *)
Carrying(w, r) == w.req >= req[r].order /\ (IsBatch(w) \/ w.waiters = {r})
NothingDropped ==
  state # "closed" =>
    \A r \in Request : req[r].order > 0 =>
      LET e == entry[req[r].key]
      IN  \/ e.sent >= req[r].order \/ Carrying(e.act, r)
          \/ \E i \in DOMAIN e.queue : Carrying(e.queue[i], r)

(* The outcome a client receives is that of its own report or of a later   *)
(* one, never of one sent before its own.                                  *)
AnsweredByOwnOrLater == \A r \in Request : req[r].answer > 0 => req[r].answer >= req[r].order

(* A drain that succeeded found every report delivered and every handler   *)
(* past the coalescer, and nothing is accepted after it; a report that     *)
(* failed meanwhile fails the drain.                                       *)
DrainedMeansDelivered ==
  state = "drained" =>
    /\ ~failedInDrain
    /\ \A k \in Key : Idle(entry[k])
    /\ \A r \in Request : ~req[r].held /\ ~req[r].live /\ req[r].at # "stopping"

(* Every waiter reserved is released once, whoever comes first of its      *)
(* outcome, its cancellation and the release of its barrier, and so is     *)
(* every key; closing leaves nothing reserved for the other sites.         *)
LimitsBalanced ==
  /\ \A k \in Key : entry[k].waiters = Cardinality({r \in Request : req[r].live /\ req[r].key = k})
  /\ globalWaiters = Cardinality({r \in Request : req[r].live})
  /\ globalKeys = Cardinality({k \in Key : entry[k].there})
  /\ state = "closed" => globalKeys = 0 /\ globalWaiters = 0

(* A client that waits is answered, a Stopped is granted, without waiting  *)
(* for further reports, for a drain or for a slow body.                    *)
WaitersAnswered ==
  \A r \in Request : req[r].at \in {"update", "barrier"} ~> req[r].at \notin {"update", "barrier"}
=============================================================================
