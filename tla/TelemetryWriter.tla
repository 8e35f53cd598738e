--------------------------- MODULE TelemetryWriter ---------------------------
(* The telemetry writer of the database: playback requests offer redirect    *)
(* observations and request logs to one bounded queue and never wait; panel  *)
(* calls send control commands through the same queue and wait for their     *)
(* answer; one goroutine drains the queue in batches; Close shuts it down.   *)
(*                                                                           *)
(* Rows are not modelled beyond the events they stand for: retention never   *)
(* bites here, and a batch whose transaction fails has stored nothing.       *)
EXTENDS Naturals, Sequences, FiniteSets

CONSTANTS
  Observation, RequestLog,   \* the events that may be offered
  Caller,                    \* panel calls that send a control command
  CommandOf,                 \* the command each of them sends
  Capacity,                  \* capacity of dynamicObservationQueue
  BatchSize,                 \* events written in one transaction
  LogRetryCount,             \* repeated attempts at a batch of request logs
  MaxFailedPrunes            \* bound on the failing maintenance ticks

Control == {"flush", "clear observation", "clear log"}

ASSUME BoundsAssumption ==
  /\ Capacity \in Nat \ {0}
  /\ BatchSize \in Nat \ {0}
  /\ LogRetryCount \in Nat
  /\ MaxFailedPrunes \in Nat
ASSUME CallersAssumption == CommandOf \in [Caller -> Control]
ASSUME EventsAssumption ==
  /\ IsFiniteSet(Observation) /\ IsFiniteSet(RequestLog)
  /\ Observation \cap RequestLog = {}

Event == Observation \union RequestLog
EventKind == {"observation", "log"}
KindOf(e) == IF e \in Observation THEN "observation" ELSE "log"
EventsOf(kind) == IF kind = "observation" THEN Observation ELSE RequestLog

\* The kind of events a clear deletes.
ClearedBy(c) == IF CommandOf[c] = "clear observation" THEN "observation" ELSE "log"

VARIABLES
  queue,     \* dynamicObservationQueue
  pending,   \* the command that ended a batch, kept for the next round
  writer,    \* the writer goroutine: where it is, its batch, its attempts
  caller,    \* per panel call: where it is, what was accepted before it
  closer,    \* DB.Close, and with it the gate's write lock
  fate,      \* per event: where it is or what became of it
  dropped    \* the counters droppedDynamicObservations and droppedRequestLogs

\* failed maintenance ticks, which the code adds to the same counters
VARIABLE failedPrunes

telemetryVars == <<queue, pending, writer, caller, closer, fate, dropped, failedPrunes>>

-----------------------------------------------------------------------------
\* A command of the queue: an event, a panel call's command, or the stop.
EventCommand(e) == [kind |-> KindOf(e), of |-> {e}, from |-> {}]
ControlCommand(c) == [kind |-> CommandOf[c], of |-> {}, from |-> {c}]
StopCommand == [kind |-> "stop", of |-> {}, from |-> {}]

Resting == [at |-> "select", kind |-> "log", batch |-> {}, attempts |-> 0]

TelemetryInit ==
  /\ queue = <<>>
  /\ pending = <<>>
  /\ writer = Resting
  /\ caller = [c \in Caller |-> [at |-> "idle", before |-> {}]]
  /\ closer = "open"
  /\ fate = [e \in Event |-> "new"]
  /\ dropped = [k \in EventKind |-> 0]
  /\ failedPrunes = [k \in EventKind |-> 0]

Closed == closer \in {"stopping", "waiting", "closed"}
\* Lock keeps new readers out from the moment it is called.
GateOpen == closer # "locking"
HoldsRLock(c) == caller[c].at = "sending"

Room == Len(queue) < Capacity

Lose(events, kind) ==
  /\ fate' = [e \in Event |-> IF e \in events THEN "lost" ELSE fate[e]]
  /\ dropped' = [dropped EXCEPT ![kind] = @ + Cardinality(events)]

-----------------------------------------------------------------------------
(* Playback requests.                                                        *)

\* An event that fails validation, finds the gate taken or closed or the queue
\* full is counted and gone; the request never waits.
EnqueueEvent(e, valid) ==
  /\ fate[e] = "new"
  /\ IF valid /\ GateOpen /\ ~Closed /\ Room
       THEN /\ queue' = Append(queue, EventCommand(e))
            /\ fate' = [fate EXCEPT ![e] = "accepted"]
            /\ UNCHANGED dropped
       ELSE Lose({e}, KindOf(e)) /\ UNCHANGED queue
  /\ UNCHANGED <<pending, writer, caller, closer, failedPrunes>>

-----------------------------------------------------------------------------
(* Panel calls: sendDynamicObservationControl.                               *)

\* The events a call speaks of.
Concerned(c) == IF CommandOf[c] = "flush" THEN Event ELSE EventsOf(ClearedBy(c))

Move(c, at) == caller' = [caller EXCEPT ![c].at = at]

Call(c) ==
  /\ caller[c].at = "idle"
  /\ caller' = [caller EXCEPT ![c] =
       [at |-> "locking", before |-> {e \in Concerned(c) : fate[e] = "accepted"}]]
  /\ UNCHANGED <<queue, pending, writer, closer, fate, dropped, failedPrunes>>

EnterGate(c) ==
  /\ caller[c].at = "locking"
  /\ GateOpen
  /\ Move(c, IF Closed THEN "refused" ELSE "sending")
  /\ UNCHANGED <<queue, pending, writer, closer, fate, dropped, failedPrunes>>

\* Mutant: a control command overtakes the events before it.
Send_Overtakes(c) ==
  /\ caller[c].at = "sending"
  /\ Room
  /\ queue' = <<ControlCommand(c)>> \o queue
  /\ Move(c, "waiting")
  /\ UNCHANGED <<pending, writer, closer, fate, dropped, failedPrunes>>

\* The send waits for room with the read lock held, and then releases it.
Send(c) ==
  /\ caller[c].at = "sending"
  /\ Room
  /\ queue' = Append(queue, ControlCommand(c))
  /\ Move(c, "waiting")
  /\ UNCHANGED <<pending, writer, closer, fate, dropped, failedPrunes>>

-----------------------------------------------------------------------------
(* The writer goroutine.                                                     *)

\* The pending command goes first.
Upcoming == IF pending # <<>> THEN pending ELSE queue

ReceiveCommand(command) ==
  /\ writer.at = "select"
  /\ Upcoming # <<>>
  /\ command = Head(Upcoming)
  /\ pending' = <<>>
  /\ queue' = IF pending # <<>> THEN queue ELSE Tail(queue)

Begin ==
  /\ \E e \in Event :
       /\ ReceiveCommand(EventCommand(e))
       /\ writer' = [at |-> "filling", kind |-> KindOf(e), batch |-> {e}, attempts |-> 0]
  /\ UNCHANGED <<caller, closer, fate, dropped, failedPrunes>>

MayFill == Cardinality(writer.batch) < BatchSize /\ queue # <<>>

\* A batch takes what is in the queue until a command of another kind, which
\* is kept for the next round.
Fill ==
  /\ writer.at = "filling"
  /\ MayFill
  /\ queue' = Tail(queue)
  /\ LET next == Head(queue)
     IN IF next.kind = writer.kind
          THEN /\ writer' = [writer EXCEPT !.batch = @ \union next.of]
               /\ UNCHANGED pending
          ELSE /\ writer' = [writer EXCEPT !.at = "writing"]
               /\ pending' = <<next>>
  /\ UNCHANGED <<caller, closer, fate, dropped, failedPrunes>>

EndFill ==
  /\ writer.at = "filling"
  /\ ~MayFill
  /\ writer' = [writer EXCEPT !.at = "writing"]
  /\ UNCHANGED <<queue, pending, caller, closer, fate, dropped, failedPrunes>>

\* Mutant: skipped events are not counted.
Commit_SkipsSilently(skipped) ==
  /\ writer.at = "writing"
  /\ skipped \subseteq writer.batch
  /\ fate' = [e \in Event |->
       IF e \in skipped THEN "lost" ELSE IF e \in writer.batch THEN "stored" ELSE fate[e]]
  /\ writer' = Resting
  /\ UNCHANGED <<queue, pending, caller, closer, dropped, failedPrunes>>

\* Committed: events of sites that are gone are skipped and counted.
Commit(skipped) ==
  /\ writer.at = "writing"
  /\ skipped \subseteq writer.batch
  /\ fate' = [e \in Event |->
       IF e \in skipped THEN "lost" ELSE IF e \in writer.batch THEN "stored" ELSE fate[e]]
  /\ dropped' = [dropped EXCEPT ![writer.kind] = @ + Cardinality(skipped)]
  /\ writer' = Resting
  /\ UNCHANGED <<queue, pending, caller, closer, failedPrunes>>

\* Request logs are tried again, observations are not.
Retry ==
  /\ writer.at = "writing"
  /\ writer.kind = "log"
  /\ writer.attempts < LogRetryCount
  /\ writer' = [writer EXCEPT !.attempts = @ + 1]
  /\ UNCHANGED <<queue, pending, caller, closer, fate, dropped, failedPrunes>>

GiveUp ==
  /\ writer.at = "writing"
  /\ writer.kind = "log" => writer.attempts = LogRetryCount
  /\ Lose(writer.batch, writer.kind)
  /\ writer' = Resting
  /\ UNCHANGED <<queue, pending, caller, closer, failedPrunes>>

Flush ==
  /\ \E c \in Caller :
       /\ CommandOf[c] = "flush"
       /\ ReceiveCommand(ControlCommand(c))
       /\ Move(c, "answered")
  /\ UNCHANGED <<writer, closer, fate, dropped, failedPrunes>>

\* Mutant: a clear that fails is not answered.
Clear_SilentOnError(deleted) ==
  /\ \E c \in Caller :
       /\ CommandOf[c] # "flush"
       /\ ReceiveCommand(ControlCommand(c))
       /\ IF deleted THEN Move(c, "answered") ELSE UNCHANGED caller
       /\ fate' = [e \in Event |->
            IF deleted /\ fate[e] = "stored" /\ e \in EventsOf(ClearedBy(c))
              THEN "cleared" ELSE fate[e]]
  /\ UNCHANGED <<writer, closer, dropped, failedPrunes>>

\* The DELETE may fail, and then says so.
Clear(deleted) ==
  /\ \E c \in Caller :
       /\ CommandOf[c] # "flush"
       /\ ReceiveCommand(ControlCommand(c))
       /\ Move(c, IF deleted THEN "answered" ELSE "errored")
       /\ fate' = [e \in Event |->
            IF deleted /\ fate[e] = "stored" /\ e \in EventsOf(ClearedBy(c))
              THEN "cleared" ELSE fate[e]]
  /\ UNCHANGED <<writer, closer, dropped, failedPrunes>>

Stop ==
  /\ ReceiveCommand(StopCommand)
  /\ writer' = [Resting EXCEPT !.at = "stopped"]
  /\ UNCHANGED <<caller, closer, fate, dropped, failedPrunes>>

\* The maintenance tick, only looked at when no command is pending.  Its
\* failure is counted as if something had been dropped.
PruneFails(kinds) ==
  /\ writer.at = "select"
  /\ pending = <<>>
  /\ failedPrunes["observation"] + failedPrunes["log"] + Cardinality(kinds) <= MaxFailedPrunes
  /\ failedPrunes' = [k \in EventKind |-> failedPrunes[k] + (IF k \in kinds THEN 1 ELSE 0)]
  /\ dropped' = [k \in EventKind |-> dropped[k] + (IF k \in kinds THEN 1 ELSE 0)]
  /\ UNCHANGED <<queue, pending, writer, caller, closer, fate>>

-----------------------------------------------------------------------------
(* DB.Close.                                                                 *)

CloseTo(from, to) == closer = from /\ closer' = to

Lock ==
  /\ CloseTo("open", "locking")
  /\ UNCHANGED <<queue, pending, writer, caller, fate, dropped, failedPrunes>>

\* Mutant: closed is set without the gate.
SetClosed_WithoutGate ==
  /\ CloseTo("locking", "stopping")
  /\ UNCHANGED <<queue, pending, writer, caller, fate, dropped, failedPrunes>>

\* The lock is granted once every reader has left; closed is set under it, and
\* whoever enters the gate from then on is turned away.
SetClosed ==
  /\ CloseTo("locking", "stopping")
  /\ \A c \in Caller : ~HoldsRLock(c)
  /\ UNCHANGED <<queue, pending, writer, caller, fate, dropped, failedPrunes>>

SendStop ==
  /\ CloseTo("stopping", "waiting")
  /\ Room
  /\ queue' = Append(queue, StopCommand)
  /\ UNCHANGED <<pending, writer, caller, fate, dropped, failedPrunes>>

CloseDatabase ==
  /\ CloseTo("waiting", "closed")
  /\ writer.at = "stopped"
  /\ UNCHANGED <<queue, pending, writer, caller, fate, dropped, failedPrunes>>

-----------------------------------------------------------------------------
CallerStep(c) == EnterGate(c) \/ Send(c)
WriterStep ==
  \/ Begin \/ Fill \/ EndFill
  \/ (\E skipped \in SUBSET writer.batch : Commit(skipped)) \/ Retry \/ GiveUp
  \/ Flush \/ (\E deleted \in BOOLEAN : Clear(deleted)) \/ Stop
CloserStep == SetClosed \/ SendStop \/ CloseDatabase

TelemetryNext ==
  \/ \E e \in Event, valid \in BOOLEAN : EnqueueEvent(e, valid)
  \/ \E c \in Caller : Call(c) \/ CallerStep(c)
  \/ WriterStep
  \/ \E kinds \in (SUBSET EventKind) \ {{}} : PruneFails(kinds)
  \/ Lock
  \/ CloserStep

TelemetrySpec == TelemetryInit /\ [][TelemetryNext]_telemetryVars

\* The goroutines that are runnable run; nobody has to call, offer or close.
TelemetryFairSpec ==
  /\ TelemetrySpec
  /\ WF_telemetryVars(WriterStep)
  /\ WF_telemetryVars(CloserStep)
  /\ \A c \in Caller : WF_telemetryVars(CallerStep(c))

-----------------------------------------------------------------------------
Command == {EventCommand(e) : e \in Event} \union {StopCommand} \union
           [kind : Control, of : {{}}, from : {{c} : c \in Caller}]

\* The queue, the writer, the callers, the closer and the counters.
TelemetryTypeOK ==
  /\ queue \in Seq(Command) /\ Len(queue) <= Capacity
  /\ pending \in Seq(Command) /\ Len(pending) <= 1
  /\ writer \in [at : {"select", "filling", "writing", "stopped"}, kind : EventKind,
                 batch : SUBSET Event, attempts : 0..LogRetryCount]
  /\ Cardinality(writer.batch) <= BatchSize
  /\ caller \in [Caller -> [at : {"idle", "locking", "sending", "waiting",
                                  "answered", "errored", "refused"},
                            before : SUBSET Event]]
  /\ closer \in {"open", "locking", "stopping", "waiting", "closed"}
  /\ fate \in [Event -> {"new", "accepted", "stored", "cleared", "lost"}]
  /\ dropped \in [EventKind -> Nat]
  /\ failedPrunes \in [EventKind -> 0..MaxFailedPrunes]

Commands == pending \o queue
Queued == UNION {Commands[i].of : i \in DOMAIN Commands}

\* No event disappears without being counted, and none is written twice:
\* an accepted event is in the writer's hands exactly once, and the dropped
\* counters are the events that were lost and the maintenance that failed
\* (EnqueueRequestLog, EnqueueDynamicObservation, the batch error paths).
LossIsCounted ==
  /\ {e \in Event : fate[e] = "accepted"} = Queued \union writer.batch
  /\ Queued \cap writer.batch = {}
  /\ \A i, j \in DOMAIN Commands : i # j => Commands[i].of \cap Commands[j].of = {}
  /\ \A k \in EventKind :
       dropped[k] = failedPrunes[k] + Cardinality({e \in EventsOf(k) : fate[e] = "lost"})

\* dynamic_observations.go:300: the flush is an ordered barrier.  When it
\* returns, every event accepted before the call has been written or given up.
FlushIsBarrier ==
  \A c \in Caller : caller[c].at = "answered" =>
    \A e \in caller[c].before : fate[e] # "accepted"

\* What was accepted before a clear that succeeded never turns up again, however
\* the batches around it were cut (the pending command of the writer).
ClearIsFinal ==
  \A c \in Caller : caller[c].at = "answered" /\ CommandOf[c] # "flush" =>
    \A e \in caller[c].before : fate[e] # "stored"

\* The order of the queue is kept by what the panel waits for: flushes and
\* clears are neither overtaken nor overtake (the pending command of run).
BarriersHold == FlushIsBarrier /\ ClearIsFinal

\* The database is closed under nobody: when the writer has stopped, no event
\* is left unwritten and no panel call is left waiting for an answer that
\* nobody will send (Close takes the gate before it stops the writer).
StoppedMeansDrained ==
  writer.at = "stopped" =>
    /\ Commands = <<>>
    /\ \A e \in Event : fate[e] # "accepted"
    /\ \A c \in Caller : caller[c].at \notin {"sending", "waiting"}

Underway ==
  \/ \E c \in Caller : caller[c].at \in {"locking", "sending", "waiting"}
  \/ closer \notin {"open", "closed"}

\* With a full queue, failing writes and a Close in the middle, every panel
\* call gets its answer and Close returns.
EveryoneReturns == Underway ~> ~Underway
=============================================================================
