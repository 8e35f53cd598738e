---------------------------- MODULE QueueProofs -----------------------------
(* Proofs about the two queues behind a playback request: that of the        *)
(* telemetry writer (TelemetryWriter), for any events, any panel calls, any  *)
(* capacity of the queue and any batch size, and those of the progress       *)
(* coalescer (ProgressCoalescer), for any requests, keys, delays, limits and *)
(* numbers of drains and failures.  The two share no state.                  *)
EXTENDS TelemetryWriter, ProgressCoalescer, FiniteSetTheorems, SequenceTheorems, TLAPS

-----------------------------------------------------------------------------
(* The telemetry writer.  The argument is about Commands, the kept command   *)
(* followed by the queue: every step leaves it alone, adds a command behind  *)
(* it or takes the first one.  What the invariants say is kept by each of    *)
(* the three.                                                                *)

-----------------------------------------------------------------------------
(* The inductive invariant.                                                  *)

Places == DOMAIN Commands

\* A batch is filled only while no command is kept, and holds one kind.
BatchIsOfItsKind ==
  /\ writer.at = "filling" => pending = <<>>
  /\ writer.at \in {"select", "stopped"} => writer.batch = {}
  /\ writer.batch \subseteq EventsOf(writer.kind)

\* An accepted event is in exactly one place: the batch or one command.
OnePlace ==
  /\ \A e \in Event : fate[e] = "accepted" <=>
       e \in writer.batch \/ \E i \in Places : e \in Commands[i].of
  /\ \A i \in Places : Commands[i].of \cap writer.batch = {}
  /\ \A i, j \in Places : i # j => Commands[i].of \cap Commands[j].of = {}

LostEvents(k) == {e \in EventsOf(k) : fate[e] = "lost"}

\* The dropped counters.
Counted == \A k \in EventKind : dropped[k] = failedPrunes[k] + Cardinality(LostEvents(k))

\* A panel call waits exactly as long as its one command is in Commands.
WaitingForItsCommand ==
  /\ \A c \in Caller : caller[c].at = "waiting" <=> \E i \in Places : c \in Commands[i].from
  /\ \A i, j \in Places : i # j => Commands[i].from \cap Commands[j].from = {}

\* The stop is the last command there ever is.
StopIsLast ==
  /\ Closed => \A c \in Caller : ~HoldsRLock(c)
  /\ \A i \in Places : Commands[i].kind = "stop" => i = Len(Commands) /\ closer = "waiting"
  /\ closer = "closed" => writer.at = "stopped"
  /\ writer.at = "stopped" => Commands = <<>> /\ closer \in {"waiting", "closed"}

\* Nothing accepted before a call is behind its command, and what a call
\* concerns was offered before it.
NothingBehind ==
  /\ \A c \in Caller : \A e \in caller[c].before : e \in Concerned(c) /\ fate[e] # "new"
  /\ \A i, j \in Places : \A c \in Commands[i].from :
       i < j => Commands[j].of \cap caller[c].before = {}

TelemetryInv ==
  /\ TelemetryTypeOK
  /\ BatchIsOfItsKind
  /\ OnePlace
  /\ Counted
  /\ WaitingForItsCommand
  /\ StopIsLast
  /\ NothingBehind
  /\ BarriersHold

-----------------------------------------------------------------------------
(* The commands.                                                             *)

LEMMA NoEventIsOfBothKinds ==
  /\ EventsOf("observation") \cap EventsOf("log") = {}
  /\ \A k \in EventKind : EventsOf(k) \subseteq Event
  /\ \A e \in Event : KindOf(e) \in EventKind /\ e \in EventsOf(KindOf(e))
BY EventsAssumption DEF EventsOf, EventKind, KindOf, Event

LEMMA KindsDiffer ==
  /\ \A k \in EventKind : k \notin Control /\ k # "stop"
  /\ \A k \in Control : k # "stop"
BY DEF EventKind, Control

\* What a command carries and who waits for it, by its kind.
LEMMA CommandFacts ==
  ASSUME NEW x \in Command
  PROVE  /\ x.of \subseteq Event /\ x.from \subseteq Caller
         /\ x.kind \in EventKind \union Control \union {"stop"}
         /\ x.kind \in EventKind <=> \E e \in Event : x = EventCommand(e)
         /\ x.kind = "stop" <=> x = StopCommand
         /\ x.kind \notin EventKind => x.of = {}
         /\ x.kind \notin Control => x.from = {}
<1>1. CASE x \in {EventCommand(e) : e \in Event}
  <2>1. PICK e \in Event : x = EventCommand(e) BY <1>1
  <2>2. x.kind = KindOf(e) /\ x.of = {e} /\ x.from = {} BY <2>1 DEF EventCommand
  <2>3. x.kind \in EventKind BY <2>2, NoEventIsOfBothKinds
  <2>4. x.kind \notin Control /\ x.kind # "stop" BY <2>3, KindsDiffer
  <2>5. x # StopCommand BY <2>4 DEF StopCommand
  <2> QED BY <2>1, <2>2, <2>3, <2>4, <2>5
<1>2. CASE x = StopCommand
  <2>1. x.kind = "stop" /\ x.of = {} /\ x.from = {} BY <1>2 DEF StopCommand
  <2>2. x.kind \notin EventKind /\ x.kind \notin Control BY <2>1, KindsDiffer
  <2>3. \A e \in Event : EventCommand(e).kind \in EventKind
    BY NoEventIsOfBothKinds DEF EventCommand
  <2> QED BY <1>2, <2>1, <2>2, <2>3
<1>3. CASE x \in [kind : Control, of : {{}}, from : {{c} : c \in Caller}]
  <2>1. x.kind \in Control /\ x.of = {} /\ x.from \subseteq Caller BY <1>3
  <2>2. x.kind \notin EventKind /\ x.kind # "stop" BY <2>1, KindsDiffer
  <2>3. \A e \in Event : EventCommand(e).kind \in EventKind
    BY NoEventIsOfBothKinds DEF EventCommand
  <2>4. x # StopCommand BY <2>2 DEF StopCommand
  <2> QED BY <2>1, <2>2, <2>3, <2>4
<1> QED BY <1>1, <1>2, <1>3 DEF Command

LEMMA CommandsMade ==
  /\ \A e \in Event : EventCommand(e) \in Command
  /\ \A c \in Caller : ControlCommand(c) \in Command
  /\ StopCommand \in Command
BY CallersAssumption DEF Command, EventCommand, ControlCommand, StopCommand, Control

LEMMA CommandsFacts ==
  ASSUME TelemetryTypeOK
  PROVE  /\ queue \in Seq(Command) /\ Len(queue) \in 0..Capacity
         /\ pending \in Seq(Command) /\ Len(pending) \in {0, 1}
         /\ Commands \in Seq(Command) /\ Len(Commands) \in Nat
         /\ Places = 1..Len(Commands)
         /\ \A i \in Places : Commands[i] \in Command
<1>1. /\ queue \in Seq(Command) /\ Len(queue) <= Capacity
      /\ pending \in Seq(Command) /\ Len(pending) <= 1
  BY DEF TelemetryTypeOK
<1>2. Len(pending) \in Nat /\ Len(queue) \in Nat BY <1>1, LenProperties
<1>3. Commands \in Seq(Command) BY <1>1, ConcatProperties DEF Commands
<1>4. Len(Commands) \in Nat /\ Places = 1..Len(Commands)
  BY <1>3, LenProperties DEF Places
<1>5. \A i \in Places : Commands[i] \in Command BY <1>3, <1>4, ElementOfSeq
<1>6. Len(queue) \in 0..Capacity BY <1>1, <1>2, BoundsAssumption
<1>7. Len(pending) \in {0, 1}
  <2>1. \A n \in Nat : n <= 1 => n \in {0, 1} OBVIOUS
  <2> QED BY <1>1, <1>2, <2>1
<1> QED BY <1>1, <1>3, <1>4, <1>5, <1>6, <1>7

\* A command is sent: it goes behind all others (enqueue, the control send,
\* Close).
Sent(x) == queue' = Append(queue, x) /\ pending' = pending

LEMMA SentGoesLast ==
  ASSUME TelemetryTypeOK, NEW x \in Command, Sent(x)
  PROVE  /\ queue' \in Seq(Command) /\ Len(queue') = Len(queue) + 1
         /\ Commands' \in Seq(Command)
         /\ Len(Commands') = Len(Commands) + 1
         /\ Places' = Places \union {Len(Commands) + 1}
         /\ Len(Commands) + 1 \notin Places
         /\ \A i \in Places : Commands'[i] = Commands[i]
         /\ Commands'[Len(Commands) + 1] = x
<1>1. queue \in Seq(Command) /\ pending \in Seq(Command) BY DEF TelemetryTypeOK
<1>2. queue' \in Seq(Command) /\ Len(queue') = Len(queue) + 1
  BY <1>1, AppendProperties DEF Sent
<1>3. Commands' = pending \o Append(queue, x) BY DEF Sent, Commands
<1>4. Append(queue, x) = queue \o <<x>> BY <1>1, AppendIsConcat
<1>5. <<x>> \in Seq(Command) /\ Len(<<x>>) = 1 /\ <<x>>[1] = x OBVIOUS
<1>6. Commands' = Commands \o <<x>>
  BY <1>1, <1>3, <1>4, <1>5, ConcatAssociative DEF Commands
<1>7. Commands' = Append(Commands, x) BY <1>6, CommandsFacts, AppendIsConcat
<1>8. /\ Commands' \in Seq(Command) /\ Len(Commands') = Len(Commands) + 1
      /\ \A i \in 1..Len(Commands) : Commands'[i] = Commands[i]
      /\ Commands'[Len(Commands) + 1] = x
  BY <1>7, CommandsFacts, AppendProperties
<1>9. Places' = 1..Len(Commands) + 1 BY <1>8, LenProperties DEF Places
<1> QED BY <1>2, <1>8, <1>9, CommandsFacts

\* The first command is taken (nextCommand, the batch loop).
LEMMA ReceivedWasFirst ==
  ASSUME TelemetryTypeOK, Upcoming # <<>>, pending' = <<>>,
         queue' = IF pending # <<>> THEN queue ELSE Tail(queue)
  PROVE  /\ queue' \in Seq(Command) /\ Len(queue') <= Len(queue)
         /\ Head(Upcoming) \in Command
         /\ 1 \in Places /\ Commands[1] = Head(Upcoming)
         /\ Commands' \in Seq(Command) /\ Len(Commands') = Len(Commands) - 1
         /\ Places' = 1..(Len(Commands) - 1)
         /\ \A i \in Places' : i + 1 \in Places /\ Commands'[i] = Commands[i + 1]
<1>1. /\ queue \in Seq(Command) /\ Len(queue) \in Nat
      /\ pending \in Seq(Command) /\ Len(pending) \in {0, 1}
  BY CommandsFacts, BoundsAssumption
<1>2. Upcoming \in Seq(Command) /\ Upcoming # <<>> BY <1>1 DEF Upcoming
<1>3. queue' \in Seq(Command) /\ Len(queue') <= Len(queue)
  BY <1>1, HeadTailProperties, LenProperties DEF Upcoming
<1>4. Commands' = queue' BY <1>3, ConcatEmptySeq DEF Commands
<1>5. Commands = Upcoming \o (IF pending # <<>> THEN queue ELSE <<>>)
  BY <1>1, ConcatEmptySeq DEF Commands, Upcoming
<1>6. CASE pending # <<>>
  <2>1. Len(pending) = 1 /\ Upcoming = pending /\ Head(Upcoming) = pending[1]
    BY <1>1, <1>6 DEF Upcoming
  <2> QED BY <1>1, <1>3, <1>4, <1>6, <2>1, ConcatProperties, LenProperties, ElementOfSeq
       DEF Commands, Places
<1>7. CASE pending = <<>>
  <2>1. Commands = queue /\ Upcoming = queue
    BY <1>1, <1>7, ConcatEmptySeq DEF Commands, Upcoming
  <2>2. /\ Len(Tail(queue)) = Len(queue) - 1
        /\ \A i \in 1..(Len(queue) - 1) : Tail(queue)[i] = queue[i + 1]
    BY <1>1, <1>2, <2>1, HeadTailProperties
  <2> QED BY <1>1, <1>2, <1>3, <1>4, <1>7, <2>1, <2>2, LenProperties, ElementOfSeq
       DEF Places
<1> QED BY <1>6, <1>7

-----------------------------------------------------------------------------
(* What more than one step needs.                                            *)

LEMMA EventsAreFinite ==
  /\ IsFiniteSet(Event)
  /\ \A S \in SUBSET Event : IsFiniteSet(S) /\ Cardinality(S) \in Nat
<1>1. IsFiniteSet(Event) BY EventsAssumption, FS_Union DEF Event
<1>2. \A S \in SUBSET Event : IsFiniteSet(S) BY <1>1, FS_Subset
<1> QED BY <1>1, <1>2, FS_CardinalityType

\* Events of one kind that are lost and added to its counter keep the account
\* (drop, and the skipped events of a batch).
LEMMA LossesAreCounted ==
  ASSUME TelemetryTypeOK, Counted, NEW k \in EventKind, NEW S \in SUBSET EventsOf(k),
         \A e \in S : fate[e] # "lost",
         \A e \in Event : fate'[e] = "lost" <=> fate[e] = "lost" \/ e \in S,
         dropped' = [dropped EXCEPT ![k] = @ + Cardinality(S)],
         failedPrunes' = failedPrunes
  PROVE  Counted' /\ dropped' \in [EventKind -> Nat]
<1>1. S \subseteq Event /\ Cardinality(S) \in Nat
  BY NoEventIsOfBothKinds, EventsAreFinite
<1>2. ASSUME NEW j \in EventKind
      PROVE  dropped'[j] = failedPrunes'[j] + Cardinality(LostEvents(j)')
  <2>1. LostEvents(j) \subseteq Event /\ Cardinality(LostEvents(j)) \in Nat
    BY NoEventIsOfBothKinds, EventsAreFinite DEF LostEvents
  <2>2. dropped[j] = failedPrunes[j] + Cardinality(LostEvents(j)) BY DEF Counted
  <2>3. failedPrunes[j] \in Nat /\ dropped[j] \in Nat BY DEF TelemetryTypeOK
  <2>4. CASE j = k
    <3>1. LostEvents(k)' = LostEvents(k) \union S
      BY NoEventIsOfBothKinds DEF LostEvents
    <3>2. LostEvents(k) \cap S = {} BY DEF LostEvents
    <3>3. Cardinality(LostEvents(k)') = Cardinality(LostEvents(k)) + Cardinality(S)
      <4>1. IsFiniteSet(S) /\ IsFiniteSet(LostEvents(k)) /\ Cardinality(LostEvents(k)) \in Nat
        BY <1>1, <2>1, <2>4, EventsAreFinite
      <4>2. Cardinality(LostEvents(k) \union S) = Cardinality(LostEvents(k)) + Cardinality(S) - 0
        BY <3>2, <4>1, FS_Union, FS_EmptySet, ZenonT(60)
      <4> QED BY <1>1, <3>1, <4>1, <4>2
    <3>4. dropped'[k] = dropped[k] + Cardinality(S) BY DEF TelemetryTypeOK
    <3> QED BY <1>1, <2>1, <2>2, <2>3, <2>4, <3>3, <3>4
  <2>5. CASE j # k
    <3>1. EventsOf(j) \cap EventsOf(k) = {}
      BY <2>5, NoEventIsOfBothKinds DEF EventKind
    <3>2. LostEvents(j)' = LostEvents(j)
      BY <3>1, NoEventIsOfBothKinds DEF LostEvents
    <3>3. dropped'[j] = dropped[j] BY <2>5 DEF TelemetryTypeOK
    <3> QED BY <2>2, <3>2, <3>3
  <2> QED BY <2>4, <2>5
<1>3. dropped' \in [EventKind -> Nat] BY <1>1 DEF TelemetryTypeOK
<1> QED BY <1>2, <1>3 DEF Counted

\* Nothing is lost and nothing counted.
LEMMA NothingLost ==
  ASSUME TelemetryTypeOK, Counted, UNCHANGED <<dropped, failedPrunes>>,
         \A e \in Event : fate'[e] = "lost" <=> fate[e] = "lost"
  PROVE  Counted' /\ dropped' \in [EventKind -> Nat]
<1>1. \A k \in EventKind : LostEvents(k)' = LostEvents(k)
  BY NoEventIsOfBothKinds DEF LostEvents
<1> QED BY <1>1 DEF Counted, TelemetryTypeOK

\* A step that moves no command leaves the places as they are.
LEMMA QueueUntouched ==
  ASSUME UNCHANGED <<queue, pending>>
  PROVE  Commands' = Commands /\ Places' = Places
BY DEF Commands, Places

-----------------------------------------------------------------------------
(* Playback requests.                                                        *)

\* An event that is taken goes behind everything that was called before it.
LEMMA EventAcceptKeeps ==
  ASSUME TelemetryInv, NEW e \in Event, fate[e] = "new", ~Closed, Room,
         Sent(EventCommand(e)), fate' = [fate EXCEPT ![e] = "accepted"],
         UNCHANGED <<writer, caller, closer, dropped, failedPrunes>>
  PROVE  TelemetryInv'
<1> USE DEF TelemetryInv
<1> DEFINE x == EventCommand(e)  n == Len(Commands) + 1
<1>1. x \in Command /\ x.of = {e} /\ x.from = {} /\ x.kind \in EventKind
  BY CommandsMade, NoEventIsOfBothKinds DEF EventCommand
<1>2. /\ queue' \in Seq(Command) /\ Len(queue') = Len(queue) + 1
      /\ Places' = Places \union {n} /\ n \notin Places
      /\ \A i \in Places : Commands'[i] = Commands[i] /\ Commands[i] \in Command
      /\ Commands'[n] = x /\ Len(Commands') = n
      /\ Places = 1..Len(Commands) /\ Len(Commands) \in Nat
  BY <1>1, SentGoesLast, CommandsFacts
<1> HIDE DEF x, n
<1>3. Counted' /\ dropped' \in [EventKind -> Nat]
  BY NothingLost DEF TelemetryTypeOK
<1>4. Len(queue') <= Capacity
  BY <1>2, CommandsFacts, BoundsAssumption DEF Room
<1>5. TelemetryTypeOK'
  BY <1>2, <1>3, <1>4 DEF TelemetryTypeOK, Sent
<1>6. BatchIsOfItsKind' BY DEF BatchIsOfItsKind, Sent
<1>7. \A i \in Places : e \notin Commands[i].of
  BY DEF OnePlace
<1>8. e \notin writer.batch BY DEF OnePlace
<1>9. OnePlace'
  <2>1. \A d \in Event : fate'[d] = "accepted" <=> fate[d] = "accepted" \/ d = e
    BY DEF TelemetryTypeOK
  <2> QED BY SMTT(60), <1>1, <1>2, <1>7, <1>8, <2>1 DEF OnePlace
<1>10. WaitingForItsCommand'
  BY SMTT(60), <1>1, <1>2 DEF WaitingForItsCommand
<1>11. StopIsLast'
  <2>1. \A i \in Places' : Commands'[i].kind # "stop"
    BY <1>1, <1>2, KindsDiffer DEF StopIsLast, Closed
  <2>2. writer.at # "stopped" BY DEF StopIsLast, Closed
  <2> QED BY <2>1, <2>2 DEF StopIsLast, Closed, HoldsRLock
<1>12. \A c \in Caller : e \notin caller[c].before BY DEF NothingBehind
<1>13. NothingBehind'
  <2>1. \A c \in Caller : \A d \in caller[c].before : d \in Concerned(c) /\ fate'[d] # "new"
    BY <1>12 DEF NothingBehind, TelemetryTypeOK
  <2>2. ASSUME NEW i \in Places', NEW j \in Places', NEW c \in Commands'[i].from, i < j
        PROVE  Commands'[j].of \cap caller[c].before = {}
    <3>1. i \in Places BY <1>1, <1>2, <2>2
    <3>2. c \in Caller /\ c \in Commands[i].from BY <1>2, <2>2, <3>1, CommandFacts
    <3>3. CASE j = n BY <1>1, <1>2, <1>12, <3>2, <3>3
    <3>4. CASE j \in Places BY <1>2, <2>2, <3>1, <3>2, <3>4 DEF NothingBehind
    <3> QED BY <1>2, <3>3, <3>4
  <2> QED BY <2>1, <2>2 DEF NothingBehind, Concerned
<1>14. BarriersHold'
  BY <1>12 DEF BarriersHold, FlushIsBarrier, ClearIsFinal, TelemetryTypeOK
<1> QED BY <1>3, <1>5, <1>6, <1>9, <1>10, <1>11, <1>13, <1>14

\* An event that is turned away was never anywhere (drop).
LEMMA RefuseKeeps ==
  ASSUME TelemetryInv, NEW e \in Event, fate[e] = "new", Lose({e}, KindOf(e)),
         UNCHANGED <<queue, pending, writer, caller, closer, failedPrunes>>
  PROVE  TelemetryInv'
<1> USE DEF TelemetryInv
<1>1. Commands' = Commands /\ Places' = Places BY QueueUntouched
<1>2. /\ fate' \in [Event -> {"new", "accepted", "stored", "cleared", "lost"}]
      /\ \A d \in Event : fate'[d] = IF d = e THEN "lost" ELSE fate[d]
  BY DEF Lose, TelemetryTypeOK
<1>3. Counted' /\ dropped' \in [EventKind -> Nat]
  <2>1. KindOf(e) \in EventKind /\ {e} \in SUBSET EventsOf(KindOf(e))
    BY NoEventIsOfBothKinds
  <2>2. dropped' = [dropped EXCEPT ![KindOf(e)] = @ + Cardinality({e})] BY DEF Lose
  <2> QED BY <1>2, <2>1, <2>2, LossesAreCounted
<1>4. TelemetryTypeOK' BY <1>2, <1>3 DEF TelemetryTypeOK
<1>5. BatchIsOfItsKind' BY DEF BatchIsOfItsKind
<1>6. OnePlace' BY <1>1, <1>2 DEF OnePlace
<1>7. WaitingForItsCommand' BY <1>1 DEF WaitingForItsCommand
<1>8. StopIsLast' BY <1>1 DEF StopIsLast, Closed, HoldsRLock
<1>9. NothingBehind'
  <2>1. \A c \in Caller : caller[c].before \subseteq Event BY DEF TelemetryTypeOK
  <2>2. \A c \in Caller : \A d \in caller[c].before : d \in Concerned(c) /\ fate'[d] # "new"
    BY <1>2, <2>1 DEF NothingBehind
  <2> QED BY <1>1, <2>2 DEF NothingBehind, Concerned
<1>10. BarriersHold'
  BY <1>2 DEF BarriersHold, FlushIsBarrier, ClearIsFinal, TelemetryTypeOK
<1> QED BY <1>3, <1>4, <1>5, <1>6, <1>7, <1>8, <1>9, <1>10

LEMMA EnqueueEventKeeps ==
  ASSUME TelemetryInv, NEW e \in Event, NEW valid \in BOOLEAN, EnqueueEvent(e, valid)
  PROVE  TelemetryInv'
<1>1. CASE valid /\ GateOpen /\ ~Closed /\ Room
  BY <1>1, EventAcceptKeeps DEF EnqueueEvent, Sent
<1>2. CASE ~(valid /\ GateOpen /\ ~Closed /\ Room)
  BY <1>2, RefuseKeeps DEF EnqueueEvent
<1> QED BY <1>1, <1>2

-----------------------------------------------------------------------------
(* Panel calls.                                                              *)

\* A call notes what was accepted before it.
LEMMA CallKeeps ==
  ASSUME TelemetryInv, NEW c \in Caller, Call(c)
  PROVE  TelemetryInv'
<1> USE DEF TelemetryInv, Call
<1> DEFINE before == {e \in Concerned(c) : fate[e] = "accepted"}
<1>1. Commands' = Commands /\ Places' = Places BY QueueUntouched
<1>2. before \subseteq Event
  BY NoEventIsOfBothKinds, CallersAssumption DEF Concerned, ClearedBy, EventKind
<1>3. /\ caller'[c].at = "locking" /\ caller'[c].before = before
      /\ \A d \in Caller \ {c} : caller'[d] = caller[d]
  BY DEF TelemetryTypeOK
<1>4. TelemetryTypeOK' BY <1>2 DEF TelemetryTypeOK
<1>5. Counted' BY NothingLost
<1>6. \A i \in Places : c \notin Commands[i].from BY DEF WaitingForItsCommand
<1>7. WaitingForItsCommand' BY <1>1, <1>3 DEF WaitingForItsCommand
<1>8. StopIsLast' BY <1>1, <1>3 DEF StopIsLast, Closed, HoldsRLock
<1>9. NothingBehind'
  <2>1. \A i \in Places : Commands[i].from \subseteq Caller
    BY CommandsFacts, CommandFacts
  <2>2. \A d \in Caller : \A e \in caller'[d].before : e \in Concerned(d) /\ fate[e] # "new"
    BY <1>3 DEF NothingBehind
  <2> QED BY <1>1, <1>3, <1>6, <2>1, <2>2 DEF NothingBehind, Concerned
<1>10. BatchIsOfItsKind' /\ OnePlace' BY <1>1 DEF BatchIsOfItsKind, OnePlace
<1>11. BarriersHold' BY <1>3 DEF BarriersHold, FlushIsBarrier, ClearIsFinal
<1> QED BY <1>4, <1>5, <1>7, <1>8, <1>9, <1>10, <1>11

\* The gate is entered before closed is looked at.
LEMMA EnterGateKeeps ==
  ASSUME TelemetryInv, NEW c \in Caller, EnterGate(c)
  PROVE  TelemetryInv'
<1> USE DEF TelemetryInv, EnterGate, Move
<1>1. Commands' = Commands /\ Places' = Places BY QueueUntouched
<1>2. /\ caller'[c].at = IF Closed THEN "refused" ELSE "sending"
      /\ caller'[c].before = caller[c].before
      /\ \A d \in Caller \ {c} : caller'[d] = caller[d]
  BY DEF TelemetryTypeOK
<1>3. TelemetryTypeOK' BY ZenonT(60) DEF TelemetryTypeOK
<1>4. Counted' BY NothingLost
<1>5. WaitingForItsCommand' BY <1>1, <1>2 DEF WaitingForItsCommand
<1>6. StopIsLast' BY <1>1, <1>2 DEF StopIsLast, Closed, HoldsRLock
<1>7. NothingBehind'
  <2>1. \A d \in Caller : caller'[d].before = caller[d].before BY <1>2
  <2>2. \A i \in Places : Commands[i].from \subseteq Caller
    BY CommandsFacts, CommandFacts
  <2> QED BY <1>1, <2>1, <2>2 DEF NothingBehind, Concerned
<1>8. BatchIsOfItsKind' /\ OnePlace' BY <1>1 DEF BatchIsOfItsKind, OnePlace
<1>9. BarriersHold' BY <1>2 DEF BarriersHold, FlushIsBarrier, ClearIsFinal
<1> QED BY <1>3, <1>4, <1>5, <1>6, <1>7, <1>8, <1>9

\* A command goes behind everything that was accepted before its call.
LEMMA SendKeeps ==
  ASSUME TelemetryInv, NEW c \in Caller, Send(c)
  PROVE  TelemetryInv'
<1> USE DEF TelemetryInv, Send, Move
<1> DEFINE x == ControlCommand(c)  n == Len(Commands) + 1
<1>1. x \in Command /\ x.of = {} /\ x.from = {c} /\ x.kind \in Control
  BY CommandsMade, CallersAssumption DEF ControlCommand
<1>2. /\ queue' \in Seq(Command) /\ Len(queue') = Len(queue) + 1
      /\ Places' = Places \union {n} /\ n \notin Places
      /\ \A i \in Places : Commands'[i] = Commands[i] /\ Commands[i] \in Command
      /\ Commands'[n] = x /\ Len(Commands') = n
      /\ Places = 1..Len(Commands) /\ Len(Commands) \in Nat
  BY <1>1, SentGoesLast, CommandsFacts DEF Sent
<1> HIDE DEF x, n
<1>3. /\ caller'[c].at = "waiting" /\ caller'[c].before = caller[c].before
      /\ \A d \in Caller \ {c} : caller'[d] = caller[d]
  BY DEF TelemetryTypeOK
<1>4. Len(queue') <= Capacity
  BY <1>2, CommandsFacts, BoundsAssumption DEF Room
<1>5. TelemetryTypeOK'
  <2>1. caller' \in [Caller -> [at : {"idle", "locking", "sending", "waiting",
                                  "answered", "errored", "refused"}, before : SUBSET Event]]
    BY ZenonT(60) DEF TelemetryTypeOK
  <2> QED BY <1>2, <1>4, <2>1 DEF TelemetryTypeOK
<1>6. Counted' BY NothingLost
<1>7. BatchIsOfItsKind' BY DEF BatchIsOfItsKind
<1>8. OnePlace' BY SMTT(60), <1>1, <1>2 DEF OnePlace
<1>9. \A i \in Places : c \notin Commands[i].from BY DEF WaitingForItsCommand
<1>10. WaitingForItsCommand'
  <2>1. \A i \in Places : Commands'[i].from = Commands[i].from /\ c \notin Commands[i].from
    BY <1>2, <1>9
  <2>2. Commands'[n].from = {c} BY <1>1, <1>2
  <2>3. \A d \in Caller : caller'[d].at = "waiting" <=> caller[d].at = "waiting" \/ d = c
    BY <1>3
  <2>4. \A d \in Caller : caller'[d].at = "waiting" <=> \E i \in Places' : d \in Commands'[i].from
    BY <1>2, <2>1, <2>2, <2>3 DEF WaitingForItsCommand
  <2>5. \A i, j \in Places' : i # j => Commands'[i].from \cap Commands'[j].from = {}
    BY SMTT(60), <1>2, <2>1, <2>2 DEF WaitingForItsCommand
  <2> QED BY <2>4, <2>5 DEF WaitingForItsCommand
<1>11. StopIsLast'
  <2>1. ~Closed BY DEF StopIsLast, HoldsRLock
  <2>2. \A i \in Places' : Commands'[i].kind # "stop"
    BY <1>1, <1>2, <2>1, KindsDiffer DEF StopIsLast, Closed
  <2>3. writer.at # "stopped" BY <2>1 DEF StopIsLast, Closed
  <2> QED BY <2>1, <2>2, <2>3 DEF StopIsLast, Closed
<1>12. NothingBehind'
  <2>1. \A d \in Caller : caller'[d].before = caller[d].before BY <1>3
  <2>2. ASSUME NEW i \in Places', NEW j \in Places', NEW d \in Commands'[i].from, i < j
        PROVE  Commands'[j].of \cap caller'[d].before = {}
    <3>1. i \in Places BY <1>2, <2>2 DEF n
    <3>2. d \in Caller /\ d \in Commands[i].from BY <1>2, <2>2, <3>1, CommandFacts
    <3>3. CASE j = n BY <1>1, <1>2, <3>3
    <3>4. CASE j \in Places BY <1>2, <2>1, <2>2, <3>1, <3>2, <3>4 DEF NothingBehind
    <3> QED BY <1>2, <3>3, <3>4
  <2> QED BY <2>1, <2>2 DEF NothingBehind, Concerned
<1>13. BarriersHold' BY <1>3 DEF BarriersHold, FlushIsBarrier, ClearIsFinal
<1> QED BY <1>5, <1>6, <1>7, <1>8, <1>10, <1>11, <1>12, <1>13

-----------------------------------------------------------------------------
(* The writer goroutine.                                                     *)

WriterState == [at : {"select", "filling", "writing", "stopped"}, kind : EventKind,
                batch : SUBSET Event, attempts : 0..LogRetryCount]

\* The first command is an event of the batch's kind: it moves into the batch.
LEMMA TakeKeeps ==
  ASSUME TelemetryInv, NEW e \in Event, Upcoming # <<>>, Head(Upcoming) = EventCommand(e),
         pending' = <<>>, queue' = IF pending # <<>> THEN queue ELSE Tail(queue),
         writer.at # "stopped",
         writer' \in WriterState, writer'.at = "filling", writer'.kind = KindOf(e),
         writer'.batch = writer.batch \union {e},
         writer.batch \subseteq EventsOf(KindOf(e)),
         Cardinality(writer.batch \union {e}) <= BatchSize,
         UNCHANGED <<caller, closer, fate, dropped, failedPrunes>>
  PROVE  TelemetryInv'
<1> USE DEF TelemetryInv
<1>1. EventCommand(e).of = {e} /\ EventCommand(e).from = {} /\ EventCommand(e).kind \in EventKind
  BY NoEventIsOfBothKinds DEF EventCommand
<1>2. /\ queue' \in Seq(Command) /\ Len(queue') <= Len(queue)
      /\ 1 \in Places /\ Commands[1] = EventCommand(e)
      /\ Len(Commands') = Len(Commands) - 1
      /\ Places' = 1..(Len(Commands) - 1)
      /\ \A i \in Places' : i + 1 \in Places /\ Commands'[i] = Commands[i + 1]
      /\ Len(queue) \in 0..Capacity /\ Len(queue') \in Nat
      /\ Places = 1..Len(Commands) /\ Len(Commands) \in Nat
      /\ \A i \in Places : Commands[i] \in Command
  BY ReceivedWasFirst, CommandsFacts, LenProperties
<1>3. TelemetryTypeOK'
  <2>1. Len(queue') <= Capacity BY <1>2, BoundsAssumption
  <2>2. pending' \in Seq(Command) /\ Len(pending') <= 1 OBVIOUS
  <2> QED BY <1>2, <2>1, <2>2 DEF TelemetryTypeOK, WriterState
<1>4. Counted' BY NothingLost
<1>5. BatchIsOfItsKind'
  BY NoEventIsOfBothKinds DEF BatchIsOfItsKind, EventsOf
<1>6. \A i \in Places : i # 1 => e \notin Commands[i].of
  BY <1>1, <1>2 DEF OnePlace
<1>7. OnePlace'
  <2>1. \A i \in Places' : Commands'[i].of = Commands[i + 1].of /\ i + 1 # 1
    BY <1>2
  <2>2. \A d \in Event :
          (\E i \in Places : d \in Commands[i].of) <=>
            d = e \/ \E i \in Places' : d \in Commands'[i].of
    <3>1. \A i \in Places : i = 1 \/ (i - 1 \in Places' /\ Commands'[i - 1] = Commands[i])
      BY <1>2
    <3>2. ASSUME NEW d \in Event, NEW i \in Places, d \in Commands[i].of
          PROVE  d = e \/ \E j \in Places' : d \in Commands'[j].of
      BY <1>1, <1>2, <3>1, <3>2
    <3>3. ASSUME NEW d \in Event, NEW j \in Places', d \in Commands'[j].of
          PROVE  \E i \in Places : d \in Commands[i].of
      BY <1>2, <3>3
    <3>4. \E i \in Places : e \in Commands[i].of BY <1>1, <1>2
    <3> QED BY <3>2, <3>3, <3>4
  <2>3. \A d \in Event : fate'[d] = "accepted" <=>
          d \in writer'.batch \/ \E i \in Places' : d \in Commands'[i].of
    BY <2>2 DEF OnePlace
  <2>4. \A i \in Places' : Commands'[i].of \cap writer'.batch = {}
    BY SMTT(60), <1>2, <1>6, <2>1 DEF OnePlace
  <2>5. \A i, j \in Places' : i # j => Commands'[i].of \cap Commands'[j].of = {}
    <3>1. ASSUME NEW i \in Places', NEW j \in Places', i # j
          PROVE  i + 1 # j + 1
      BY <1>2, <3>1
    <3> QED BY SMTT(60), <1>2, <2>1, <3>1 DEF OnePlace
  <2> QED BY <2>3, <2>4, <2>5 DEF OnePlace
<1>8. WaitingForItsCommand'
  <2>1. \A d \in Caller :
          (\E i \in Places : d \in Commands[i].from) <=> \E i \in Places' : d \in Commands'[i].from
    <3>1. \A i \in Places : i = 1 \/ (i - 1 \in Places' /\ Commands'[i - 1] = Commands[i])
      BY <1>2
    <3> QED BY <1>1, <1>2, <3>1
  <2>2. \A i, j \in Places' : i # j => Commands'[i].from \cap Commands'[j].from = {}
    <3>1. ASSUME NEW i \in Places', NEW j \in Places', i # j
          PROVE  i + 1 # j + 1
      BY <1>2, <3>1
    <3> QED BY SMTT(60), <1>2, <3>1 DEF WaitingForItsCommand
  <2> QED BY <2>1, <2>2 DEF WaitingForItsCommand
<1>9. StopIsLast'
  <2>1. \A i \in Places' : Commands'[i].kind = "stop" => i = Len(Commands') /\ closer = "waiting"
    BY SMTT(60), <1>2 DEF StopIsLast
  <2>2. closer # "closed" BY DEF StopIsLast
  <2> QED BY <2>1, <2>2 DEF StopIsLast, Closed, HoldsRLock
<1>10. NothingBehind'
  <2>1. ASSUME NEW i \in Places', NEW j \in Places', NEW c \in Commands'[i].from, i < j
        PROVE  Commands'[j].of \cap caller[c].before = {}
    <3>1. i + 1 \in Places /\ j + 1 \in Places /\ i + 1 < j + 1 BY <1>2, <2>1
    <3> QED BY ZenonT(60), <1>2, <2>1, <3>1 DEF NothingBehind
  <2> QED BY <2>1 DEF NothingBehind, Concerned
<1>11. BarriersHold' BY DEF BarriersHold, FlushIsBarrier, ClearIsFinal
<1> QED BY <1>3, <1>4, <1>5, <1>7, <1>8, <1>9, <1>10, <1>11

LEMMA BeginKeeps == ASSUME TelemetryInv, Begin PROVE TelemetryInv'
<1> USE DEF TelemetryInv
<1>1. PICK e \in Event :
        /\ ReceiveCommand(EventCommand(e))
        /\ writer' = [at |-> "filling", kind |-> KindOf(e), batch |-> {e}, attempts |-> 0]
  BY DEF Begin
<1>2. writer.at = "select" /\ writer.batch = {} BY <1>1 DEF ReceiveCommand, BatchIsOfItsKind
<1>3. writer' \in WriterState
  BY <1>1, NoEventIsOfBothKinds, BoundsAssumption DEF WriterState
<1>4. Cardinality(writer.batch \union {e}) <= BatchSize
  BY SMTT(60), <1>2, FS_Singleton, BoundsAssumption
<1> QED BY <1>1, <1>2, <1>3, <1>4, TakeKeeps DEF Begin, ReceiveCommand

\* A command of another kind ends the batch and is kept.
LEMMA KeepBackKeeps ==
  ASSUME TelemetryInv, writer.at = "filling", queue # <<>>,
         queue' = Tail(queue), pending' = <<Head(queue)>>,
         writer' = [writer EXCEPT !.at = "writing"],
         UNCHANGED <<caller, closer, fate, dropped, failedPrunes>>
  PROVE  TelemetryInv'
<1> USE DEF TelemetryInv
<1>1. pending = <<>> BY DEF BatchIsOfItsKind
<1>2. /\ queue \in Seq(Command) /\ Head(queue) \in Command /\ Tail(queue) \in Seq(Command)
      /\ Len(Tail(queue)) = Len(queue) - 1 /\ Len(queue) \in 0..Capacity
  BY CommandsFacts, HeadTailProperties
<1>3. Commands' = Commands /\ Places' = Places
  <2>1. Commands = queue BY <1>1, <1>2, ConcatEmptySeq DEF Commands
  <2>2. queue = <<Head(queue)>> \o Tail(queue) BY <1>2
  <2> QED BY <2>1, <2>2 DEF Commands, Places
<1>4. TelemetryTypeOK'
  <2>1. Len(queue') <= Capacity BY <1>2, BoundsAssumption
  <2>2. pending' \in Seq(Command) /\ Len(pending') <= 1 BY <1>2
  <2> QED BY <1>2, <2>1, <2>2 DEF TelemetryTypeOK
<1>5. Counted' BY NothingLost
<1>6. BatchIsOfItsKind' /\ OnePlace' /\ WaitingForItsCommand'
  BY <1>3 DEF BatchIsOfItsKind, OnePlace, WaitingForItsCommand, TelemetryTypeOK
<1>7. StopIsLast' /\ NothingBehind' /\ BarriersHold'
  BY <1>3 DEF StopIsLast, Closed, HoldsRLock, NothingBehind, Concerned,
              BarriersHold, FlushIsBarrier, ClearIsFinal, TelemetryTypeOK
<1> QED BY <1>4, <1>5, <1>6, <1>7

LEMMA FillKeeps == ASSUME TelemetryInv, Fill PROVE TelemetryInv'
<1> USE DEF TelemetryInv, Fill
<1> DEFINE next == Head(queue)
<1>1. /\ pending = <<>> /\ queue # <<>> /\ Upcoming = queue
      /\ next \in Command /\ writer.batch \subseteq Event
      /\ writer.kind \in EventKind /\ Cardinality(writer.batch) < BatchSize
  BY CommandsFacts, HeadTailProperties DEF BatchIsOfItsKind, MayFill, Upcoming, TelemetryTypeOK
<1>2. CASE next.kind = writer.kind
  <2>1. PICK e \in Event : next = EventCommand(e) BY <1>1, <1>2, CommandFacts
  <2>2. writer.kind = KindOf(e) /\ next.of = {e} BY <1>2, <2>1 DEF EventCommand
  <2>3. writer' = [writer EXCEPT !.batch = @ \union {e}] BY <1>2, <2>2
  <2>4. writer' \in WriterState /\ writer'.batch = writer.batch \union {e}
    BY <1>1, <2>3 DEF TelemetryTypeOK, WriterState
  <2>5. IsFiniteSet(writer.batch) /\ Cardinality(writer.batch) \in Nat
    BY <1>1, EventsAreFinite
  <2>6. Cardinality(writer.batch \union {e}) <= BatchSize
    <3>1. Cardinality(writer.batch \union {e}) \in
            {Cardinality(writer.batch), Cardinality(writer.batch) + 1}
      BY <2>5, FS_AddElement
    <3> QED BY <1>1, <2>5, <3>1, BoundsAssumption
  <2>7. writer'.at = "filling" /\ writer'.kind = KindOf(e) BY <2>2, <2>3 DEF TelemetryTypeOK
  <2>8. writer.batch \subseteq EventsOf(KindOf(e)) BY <2>2 DEF BatchIsOfItsKind
  <2>9. pending' = <<>> /\ queue' = IF pending # <<>> THEN queue ELSE Tail(queue)
    BY <1>1, <1>2
  <2> QED BY <1>1, <2>1, <2>4, <2>6, <2>7, <2>8, <2>9, TakeKeeps
<1>3. CASE next.kind # writer.kind
  BY <1>1, <1>3, KeepBackKeeps
<1> QED BY <1>2, <1>3

\* The batch is complete, or its transaction is tried again.
LEMMA SameBatchKeeps ==
  ASSUME TelemetryInv, EndFill \/ Retry
  PROVE  TelemetryInv'
<1> USE DEF TelemetryInv, EndFill, Retry
<1>1. Commands' = Commands /\ Places' = Places BY QueueUntouched
<1>2. /\ writer'.at = "writing" /\ writer.at \in {"filling", "writing"}
      /\ writer'.batch = writer.batch /\ writer'.kind = writer.kind
      /\ writer' \in WriterState
  <2>1. writer \in WriterState BY DEF TelemetryTypeOK, WriterState
  <2>2. CASE EndFill BY <2>1, <2>2 DEF WriterState
  <2>3. CASE Retry
    <3>1. writer.attempts + 1 \in 0..LogRetryCount
      BY <2>1, <2>3, BoundsAssumption DEF WriterState
    <3> QED BY <2>1, <2>3, <3>1 DEF WriterState
  <2> QED BY <2>2, <2>3
<1>3. TelemetryTypeOK' BY <1>2 DEF TelemetryTypeOK, WriterState
<1>4. Counted' BY NothingLost
<1>5. BatchIsOfItsKind' BY <1>2 DEF BatchIsOfItsKind
<1>6. OnePlace' /\ WaitingForItsCommand' BY <1>1, <1>2 DEF OnePlace, WaitingForItsCommand
<1>7. StopIsLast' BY <1>1, <1>2 DEF StopIsLast, Closed, HoldsRLock
<1>8. NothingBehind' /\ BarriersHold'
  BY <1>1 DEF NothingBehind, Concerned, BarriersHold, FlushIsBarrier, ClearIsFinal
<1> QED BY <1>3, <1>4, <1>5, <1>6, <1>7, <1>8

\* The batch is settled: every event of it is stored, or lost and counted.
LEMMA SettleKeeps ==
  ASSUME TelemetryInv, NEW skipped \in SUBSET writer.batch, writer.at = "writing",
         fate' = [e \in Event |-> IF e \in skipped THEN "lost"
                                  ELSE IF e \in writer.batch THEN "stored" ELSE fate[e]],
         dropped' = [dropped EXCEPT ![writer.kind] = @ + Cardinality(skipped)],
         writer' = Resting,
         UNCHANGED <<queue, pending, caller, closer, failedPrunes>>
  PROVE  TelemetryInv'
<1> USE DEF TelemetryInv
<1>1. Commands' = Commands /\ Places' = Places BY QueueUntouched
<1>2. writer.batch \subseteq Event /\ writer.kind \in EventKind BY DEF TelemetryTypeOK
<1>3. \A e \in writer.batch : fate[e] = "accepted" BY <1>2 DEF OnePlace
<1>4. fate' \in [Event -> {"new", "accepted", "stored", "cleared", "lost"}]
  BY DEF TelemetryTypeOK
<1>5. Counted' /\ dropped' \in [EventKind -> Nat]
  <2>1. skipped \in SUBSET EventsOf(writer.kind) BY DEF BatchIsOfItsKind
  <2>2. \A e \in skipped : fate[e] # "lost" BY <1>3
  <2>3. \A e \in Event : fate'[e] = "lost" <=> fate[e] = "lost" \/ e \in skipped
    BY <1>3 DEF TelemetryTypeOK
  <2> QED BY <1>2, <2>1, <2>2, <2>3, LossesAreCounted
<1>6. writer' \in WriterState /\ writer'.at = "select" /\ writer'.batch = {}
  BY BoundsAssumption DEF Resting, WriterState, EventKind
<1>7. TelemetryTypeOK'
  BY SMTT(60), <1>4, <1>5, <1>6, FS_EmptySet, BoundsAssumption DEF TelemetryTypeOK, WriterState
<1>8. BatchIsOfItsKind' BY <1>6 DEF BatchIsOfItsKind
<1>9. OnePlace'
  <2>1. \A e \in Event : fate'[e] = "accepted" <=> fate[e] = "accepted" /\ e \notin writer.batch
    OBVIOUS
  <2>2. \A i \in Places : Commands[i].of \cap writer.batch = {} BY DEF OnePlace
  <2> QED BY <1>1, <1>6, <2>1, <2>2 DEF OnePlace
<1>10. WaitingForItsCommand' BY <1>1 DEF WaitingForItsCommand
<1>11. StopIsLast' BY <1>1, <1>6 DEF StopIsLast, Closed, HoldsRLock
<1>12. \A c \in Caller : caller[c].before \subseteq Event BY DEF TelemetryTypeOK
<1>13. NothingBehind'
  <2>1. \A c \in Caller : \A d \in caller[c].before : d \in Concerned(c) /\ fate'[d] # "new"
    BY <1>12 DEF NothingBehind
  <2> QED BY <1>1, <2>1 DEF NothingBehind, Concerned
<1>14. BarriersHold'
  BY <1>3, <1>12 DEF BarriersHold, FlushIsBarrier, ClearIsFinal
<1> QED BY <1>5, <1>7, <1>8, <1>9, <1>10, <1>11, <1>13, <1>14

LEMMA CommitKeeps ==
  ASSUME TelemetryInv, NEW skipped \in SUBSET writer.batch, Commit(skipped)
  PROVE  TelemetryInv'
BY SettleKeeps DEF Commit

LEMMA GiveUpKeeps == ASSUME TelemetryInv, GiveUp PROVE TelemetryInv'
<1>1. fate' = [e \in Event |-> IF e \in writer.batch THEN "lost"
                               ELSE IF e \in writer.batch THEN "stored" ELSE fate[e]]
  BY DEF GiveUp, Lose
<1> QED BY <1>1, SettleKeeps DEF GiveUp, Lose

\* The first command is taken by a writer at rest: all others move up by one.
LEMMA FirstTaken ==
  ASSUME TelemetryInv, NEW x, ReceiveCommand(x)
  PROVE  /\ x \in Command /\ 1 \in Places /\ Commands[1] = x
         /\ writer.at = "select" /\ writer.batch = {}
         /\ queue' \in Seq(Command) /\ Len(queue') <= Capacity
         /\ pending' \in Seq(Command) /\ Len(pending') <= 1
         /\ Len(Commands') = Len(Commands) - 1 /\ Len(Commands) \in Nat
         /\ Commands' \in Seq(Command)
         /\ Places' = 1..(Len(Commands) - 1)
         /\ \A i \in Places' : /\ i + 1 \in Places /\ i + 1 # 1
                               /\ Commands'[i] = Commands[i + 1]
         /\ \A i \in Places : i = 1 \/ (i - 1 \in Places' /\ Commands'[i - 1] = Commands[i])
<1> USE DEF TelemetryInv, ReceiveCommand
<1>1. /\ queue' \in Seq(Command) /\ Len(queue') <= Len(queue)
      /\ Len(queue) \in 0..Capacity /\ Len(queue') \in Nat
      /\ 1 \in Places /\ Commands[1] = x /\ x \in Command
      /\ Len(Commands') = Len(Commands) - 1 /\ Commands' \in Seq(Command)
      /\ Places' = 1..(Len(Commands) - 1)
      /\ \A i \in Places' : i + 1 \in Places /\ Commands'[i] = Commands[i + 1]
      /\ Places = 1..Len(Commands) /\ Len(Commands) \in Nat
  BY ReceivedWasFirst, CommandsFacts, LenProperties
<1>2. Len(queue') <= Capacity BY <1>1, BoundsAssumption
<1>3. \A i \in Places' : i + 1 # 1 BY <1>1
<1>4. \A i \in Places : i = 1 \/ (i - 1 \in Places' /\ Commands'[i - 1] = Commands[i])
  BY <1>1
<1>5. pending' \in Seq(Command) /\ Len(pending') <= 1 OBVIOUS
<1>6. writer.at = "select" /\ writer.batch = {} BY DEF BatchIsOfItsKind
<1> QED BY <1>1, <1>2, <1>3, <1>4, <1>5, <1>6

\* What holds of every two places still does when all have moved up.
LEMMA MovedUp ==
  ASSUME TelemetryInv, NEW x, ReceiveCommand(x)
  PROVE  /\ \A i, j \in Places' : i # j => Commands'[i].of \cap Commands'[j].of = {}
         /\ \A i, j \in Places' : i # j => Commands'[i].from \cap Commands'[j].from = {}
         /\ \A i, j \in Places' : \A c \in Commands'[i].from :
              i < j => Commands'[j].of \cap caller[c].before = {}
         /\ \A i \in Places' :
              Commands'[i].kind = "stop" => i = Len(Commands') /\ closer = "waiting"
<1> USE DEF TelemetryInv
<1>1. ASSUME NEW i \in Places', NEW j \in Places'
      PROVE  /\ i + 1 \in Places /\ j + 1 \in Places
             /\ Commands'[i] = Commands[i + 1] /\ Commands'[j] = Commands[j + 1]
             /\ (i # j => i + 1 # j + 1) /\ (i < j => i + 1 < j + 1)
  BY FirstTaken
<1>2. \A i, j \in Places' : i # j => Commands'[i].of \cap Commands'[j].of = {}
  BY <1>1 DEF OnePlace
<1>3. \A i, j \in Places' : i # j => Commands'[i].from \cap Commands'[j].from = {}
  BY <1>1 DEF WaitingForItsCommand
<1>4. \A i, j \in Places' : \A c \in Commands'[i].from :
         i < j => Commands'[j].of \cap caller[c].before = {}
  BY <1>1 DEF NothingBehind
<1>5. \A i \in Places' :
         Commands'[i].kind = "stop" => i = Len(Commands') /\ closer = "waiting"
  <2>1. Len(Commands') = Len(Commands) - 1 /\ Len(Commands) \in Nat
        /\ \A i \in Places' : i \in Nat
    BY FirstTaken
  <2>2. ASSUME NEW i \in Places', Commands'[i].kind = "stop"
        PROVE  i + 1 = Len(Commands) /\ closer = "waiting"
    BY <1>1, <2>2 DEF StopIsLast
  <2> QED BY <2>1, <2>2
<1> QED BY <1>2, <1>3, <1>4, <1>5

\* A panel call is answered: its command was the first, so what was accepted
\* before it is in no command, and a writer that answers has no batch.
LEMMA AnswerKeeps ==
  ASSUME TelemetryInv, NEW c \in Caller, NEW at \in {"answered", "errored"},
         ReceiveCommand(ControlCommand(c)), Move(c, at),
         fate' \in [Event -> {"new", "accepted", "stored", "cleared", "lost"}],
         \A e \in Event : fate'[e] = fate[e] \/ (fate[e] = "stored" /\ fate'[e] = "cleared"),
         at = "answered" /\ CommandOf[c] # "flush" =>
           \A e \in caller[c].before : fate'[e] # "stored",
         UNCHANGED <<writer, closer, dropped, failedPrunes>>
  PROVE  TelemetryInv'
<1> USE DEF TelemetryInv
<1>1. ControlCommand(c).from = {c} /\ ControlCommand(c).of = {} BY DEF ControlCommand
<1>2. /\ Commands[1] = ControlCommand(c) /\ 1 \in Places
      /\ writer.at = "select" /\ writer.batch = {}
      /\ \A i \in Places' : i + 1 \in Places /\ i + 1 # 1 /\ Commands'[i] = Commands[i + 1]
      /\ \A i \in Places : i = 1 \/ (i - 1 \in Places' /\ Commands'[i - 1] = Commands[i])
  BY FirstTaken
<1>3. /\ caller'[c].at = at
      /\ \A d \in Caller : caller'[d].before = caller[d].before
      /\ \A d \in Caller \ {c} : caller'[d].at = caller[d].at
      /\ caller' \in [Caller -> [at : {"idle", "locking", "sending", "waiting",
                                      "answered", "errored", "refused"}, before : SUBSET Event]]
  BY ZenonT(60) DEF Move, TelemetryTypeOK
<1>4. \A d \in Caller : caller[d].before \subseteq Event BY DEF TelemetryTypeOK
<1>5. \A e \in Event : fate'[e] = "accepted" <=> fate[e] = "accepted" OBVIOUS
<1>6. Counted' /\ dropped' \in [EventKind -> Nat] BY NothingLost
<1>7. TelemetryTypeOK' BY <1>3, <1>6, FirstTaken DEF TelemetryTypeOK
<1>8. BatchIsOfItsKind' BY <1>2 DEF BatchIsOfItsKind
<1>9. OnePlace'
  <2>1. ASSUME NEW e \in Event
        PROVE  (\E i \in Places : e \in Commands[i].of) <=> \E i \in Places' : e \in Commands'[i].of
    BY <1>1, <1>2
  <2> QED BY <1>2, <1>5, <2>1, MovedUp DEF OnePlace
<1>10. WaitingForItsCommand'
  <2>1. \A i \in Places' : c \notin Commands'[i].from
    BY <1>1, <1>2 DEF WaitingForItsCommand
  <2>2. ASSUME NEW d \in Caller, d # c
        PROVE  (\E i \in Places : d \in Commands[i].from) <=> \E i \in Places' : d \in Commands'[i].from
    BY <1>1, <1>2, <2>2
  <2>3. at # "waiting" OBVIOUS
  <2>4. \A d \in Caller : caller'[d].at = "waiting" <=> \E i \in Places' : d \in Commands'[i].from
    BY <1>3, <2>1, <2>2, <2>3 DEF WaitingForItsCommand
  <2> QED BY <2>4, MovedUp DEF WaitingForItsCommand
<1>11. StopIsLast'
  <2>1. closer # "closed" /\ writer'.at # "stopped" BY <1>2 DEF StopIsLast
  <2>2. Closed' => \A d \in Caller : ~HoldsRLock(d)'
    BY <1>3 DEF StopIsLast, Closed, HoldsRLock
  <2> QED BY <2>1, <2>2, MovedUp DEF StopIsLast
<1>12. NothingBehind'
  <2>1. \A d \in Caller : \A e \in caller'[d].before : e \in Concerned(d) /\ fate'[e] # "new"
    BY <1>3, <1>4 DEF NothingBehind
  <2>2. \A i \in Places' : Commands'[i].from \subseteq Caller
    BY FirstTaken, ElementOfSeq, CommandFacts, LenProperties DEF Places
  <2> QED BY <1>3, <2>1, <2>2, MovedUp DEF NothingBehind, Concerned
<1>13. FlushIsBarrier'
  <2>1. ASSUME NEW e \in caller[c].before PROVE fate[e] # "accepted"
    <3>1. \A j \in Places : e \notin Commands[j].of
      <4>1. ASSUME NEW j \in Places, j # 1 PROVE e \notin Commands[j].of
        <5>1. 1 < j BY <4>1, CommandsFacts
        <5> QED BY <1>1, <1>2, <5>1 DEF NothingBehind
      <4> QED BY <1>1, <1>2, <4>1
    <3> QED BY <1>2, <1>4, <3>1 DEF OnePlace
  <2> QED BY <1>3, <1>4, <1>5, <2>1 DEF BarriersHold, FlushIsBarrier
<1>14. ClearIsFinal'
  BY <1>3, <1>4 DEF BarriersHold, ClearIsFinal
<1> QED BY <1>6, <1>7, <1>8, <1>9, <1>10, <1>11, <1>12, <1>13, <1>14 DEF BarriersHold

LEMMA FlushKeeps == ASSUME TelemetryInv, Flush PROVE TelemetryInv'
<1>1. PICK c \in Caller : /\ CommandOf[c] = "flush"
                          /\ ReceiveCommand(ControlCommand(c))
                          /\ Move(c, "answered")
  BY DEF Flush
<1>2. /\ fate' \in [Event -> {"new", "accepted", "stored", "cleared", "lost"}]
      /\ fate' = fate /\ UNCHANGED <<writer, closer, dropped, failedPrunes>>
  BY DEF Flush, TelemetryInv, TelemetryTypeOK
<1> QED BY <1>1, <1>2, AnswerKeeps

\* A clear that succeeds deletes what was stored of what it concerns.
LEMMA ClearKeeps ==
  ASSUME TelemetryInv, NEW deleted \in BOOLEAN, Clear(deleted)
  PROVE  TelemetryInv'
<1> DEFINE cleared(c, e) == deleted /\ fate[e] = "stored" /\ e \in EventsOf(ClearedBy(c))
<1>1. PICK c \in Caller :
        /\ CommandOf[c] # "flush"
        /\ ReceiveCommand(ControlCommand(c))
        /\ Move(c, IF deleted THEN "answered" ELSE "errored")
        /\ fate' = [e \in Event |-> IF cleared(c, e) THEN "cleared" ELSE fate[e]]
  BY DEF Clear
<1> DEFINE at == IF deleted THEN "answered" ELSE "errored"
<1>2. at \in {"answered", "errored"} OBVIOUS
<1>3. /\ fate' \in [Event -> {"new", "accepted", "stored", "cleared", "lost"}]
      /\ \A e \in Event : fate'[e] = fate[e] \/ (fate[e] = "stored" /\ fate'[e] = "cleared")
  BY <1>1 DEF TelemetryInv, TelemetryTypeOK
<1>4. at = "answered" => \A e \in caller[c].before : fate'[e] # "stored"
  <2>1. caller[c].before \subseteq Event /\ caller[c].before \subseteq EventsOf(ClearedBy(c))
    BY <1>1 DEF TelemetryInv, TelemetryTypeOK, NothingBehind, Concerned
  <2> QED BY <1>1, <2>1
<1>5. UNCHANGED <<writer, closer, dropped, failedPrunes>> BY DEF Clear
<1> QED BY <1>1, <1>2, <1>3, <1>4, <1>5, AnswerKeeps

\* The stop was the last command: nothing is left when the writer is gone.
LEMMA StopKeeps == ASSUME TelemetryInv, Stop PROVE TelemetryInv'
<1> USE DEF TelemetryInv, Stop
<1>1. /\ Commands[1] = StopCommand /\ 1 \in Places
      /\ writer.at = "select" /\ writer.batch = {}
      /\ Len(Commands) \in Nat /\ Len(Commands') = Len(Commands) - 1
      /\ Commands' \in Seq(Command) /\ Places' = 1..(Len(Commands) - 1)
  BY FirstTaken
<1>2. /\ StopCommand.kind = "stop" /\ StopCommand.of = {} /\ StopCommand.from = {}
  BY DEF StopCommand
<1>3. Len(Commands) = 1 /\ closer = "waiting" BY <1>1, <1>2 DEF StopIsLast
<1>4. Places' = {} /\ Commands' = <<>> /\ Places = {1}
  <2>1. Places = 1..Len(Commands) BY CommandsFacts
  <2> QED BY <1>1, <1>3, <2>1, EmptySeq
<1>5. writer' \in WriterState /\ writer'.at = "stopped" /\ writer'.batch = {}
  BY BoundsAssumption DEF Resting, WriterState, EventKind
<1>6. Counted' /\ dropped' \in [EventKind -> Nat] BY NothingLost
<1>7. TelemetryTypeOK'
  BY <1>5, <1>6, FirstTaken, FS_EmptySet, BoundsAssumption DEF TelemetryTypeOK, WriterState
<1>8. BatchIsOfItsKind' BY <1>5 DEF BatchIsOfItsKind
<1>9. OnePlace' BY <1>1, <1>2, <1>4, <1>5 DEF OnePlace
<1>10. WaitingForItsCommand' BY <1>1, <1>2, <1>4 DEF WaitingForItsCommand
<1>11. StopIsLast' BY <1>3, <1>4, <1>5 DEF StopIsLast, Closed, HoldsRLock
<1>12. NothingBehind' BY <1>4 DEF NothingBehind, Concerned
<1>13. BarriersHold' BY DEF BarriersHold, FlushIsBarrier, ClearIsFinal
<1> QED BY <1>6, <1>7, <1>8, <1>9, <1>10, <1>11, <1>12, <1>13

\* A failed maintenance tick is counted as such.
LEMMA PruneFailsKeeps ==
  ASSUME TelemetryInv, NEW kinds \in (SUBSET EventKind) \ {{}}, PruneFails(kinds)
  PROVE  TelemetryInv'
<1> USE DEF TelemetryInv, PruneFails
<1>1. Commands' = Commands /\ Places' = Places BY QueueUntouched
<1>2. IsFiniteSet(kinds) /\ Cardinality(kinds) \in Nat \ {0}
  <2>1. IsFiniteSet(EventKind)
    <3>1. IsFiniteSet({"observation"} \union {"log"}) BY FS_Singleton, FS_AddElement
    <3>2. EventKind = {"observation"} \union {"log"} BY DEF EventKind
    <3> QED BY <3>1, <3>2
  <2>2. kinds \in SUBSET EventKind /\ kinds # {} OBVIOUS
  <2>3. IsFiniteSet(kinds) BY <2>1, <2>2, FS_Subset
  <2>4. Cardinality(kinds) \in Nat BY <2>3, FS_CardinalityType
  <2>5. Cardinality(kinds) # 0 BY <2>2, <2>3, FS_EmptySet
  <2> QED BY <2>3, <2>4, <2>5
<1>3. failedPrunes' \in [EventKind -> 0..MaxFailedPrunes]
  <2>1. failedPrunes["observation"] \in Nat /\ failedPrunes["log"] \in Nat
    BY DEF TelemetryTypeOK, EventKind
  <2>2. ASSUME NEW k \in EventKind
        PROVE  failedPrunes[k] + (IF k \in kinds THEN 1 ELSE 0) \in 0..MaxFailedPrunes
    BY <1>2, <2>1, BoundsAssumption DEF EventKind
  <2> QED BY <2>2
<1>4. dropped' \in [EventKind -> Nat] BY SMTT(60) DEF TelemetryTypeOK
<1>5. Counted'
  <2>1. \A k \in EventKind : LostEvents(k)' = LostEvents(k) BY DEF LostEvents
  <2>2. \A k \in EventKind : Cardinality(LostEvents(k)) \in Nat
    BY NoEventIsOfBothKinds, EventsAreFinite DEF LostEvents
  <2>3. \A k \in EventKind : failedPrunes[k] \in Nat /\ dropped[k] \in Nat
    BY DEF TelemetryTypeOK
  <2>4. ASSUME NEW k \in EventKind
        PROVE  dropped'[k] = failedPrunes'[k] + Cardinality(LostEvents(k)')
    BY <2>1, <2>2, <2>3 DEF Counted
  <2> QED BY <2>4 DEF Counted
<1>6. TelemetryTypeOK' BY <1>3, <1>4 DEF TelemetryTypeOK
<1>7. BatchIsOfItsKind' /\ OnePlace' BY <1>1 DEF BatchIsOfItsKind, OnePlace
<1>8. WaitingForItsCommand' BY <1>1 DEF WaitingForItsCommand
<1>9. StopIsLast' /\ NothingBehind'
  BY <1>1 DEF StopIsLast, Closed, HoldsRLock, NothingBehind, Concerned
<1>10. BarriersHold' BY DEF BarriersHold, FlushIsBarrier, ClearIsFinal
<1> QED BY <1>5, <1>6, <1>7, <1>8, <1>9, <1>10

-----------------------------------------------------------------------------
(* DB.Close.                                                                 *)

\* Close moves on without touching the queue: closed is set when no reader is
\* left in the gate, and the database goes when the writer has.
LEMMA CloserKeeps ==
  ASSUME TelemetryInv, Lock \/ SetClosed \/ CloseDatabase
  PROVE  TelemetryInv'
<1> USE DEF TelemetryInv, Lock, SetClosed, CloseDatabase, CloseTo
<1>1. Commands' = Commands /\ Places' = Places BY QueueUntouched
<1>2. TelemetryTypeOK' BY DEF TelemetryTypeOK
<1>3. Counted' BY NothingLost
<1>4. BatchIsOfItsKind' /\ OnePlace' BY <1>1 DEF BatchIsOfItsKind, OnePlace
<1>5. WaitingForItsCommand' BY <1>1 DEF WaitingForItsCommand
<1>6. StopIsLast'
  <2>1. CASE Lock BY <1>1, <2>1 DEF StopIsLast, Closed, HoldsRLock
  <2>2. CASE SetClosed BY <1>1, <2>2 DEF StopIsLast, Closed, HoldsRLock
  <2>3. CASE CloseDatabase
    <3>1. Places = {} BY <2>3, CommandsFacts, EmptySeq DEF StopIsLast
    <3> QED BY <1>1, <2>3, <3>1 DEF StopIsLast, Closed, HoldsRLock
  <2> QED BY <2>1, <2>2, <2>3
<1>7. NothingBehind' BY <1>1 DEF NothingBehind, Concerned
<1>8. BarriersHold' BY DEF BarriersHold, FlushIsBarrier, ClearIsFinal
<1> QED BY <1>2, <1>3, <1>4, <1>5, <1>6, <1>7, <1>8

\* The stop goes behind every command, and nothing will follow it.
LEMMA SendStopKeeps == ASSUME TelemetryInv, SendStop PROVE TelemetryInv'
<1> USE DEF TelemetryInv, SendStop, CloseTo
<1> DEFINE x == StopCommand  n == Len(Commands) + 1
<1>1. x \in Command /\ x.of = {} /\ x.from = {} /\ x.kind = "stop"
  BY CommandsMade DEF StopCommand
<1>2. /\ queue' \in Seq(Command) /\ Len(queue') = Len(queue) + 1
      /\ Places' = Places \union {n} /\ n \notin Places
      /\ \A i \in Places : Commands'[i] = Commands[i] /\ Commands[i] \in Command
      /\ Commands'[n] = x /\ Len(Commands') = n
      /\ Places = 1..Len(Commands) /\ Len(Commands) \in Nat
  BY <1>1, SentGoesLast, CommandsFacts DEF Sent
<1> HIDE DEF x, n
<1>3. Len(queue') <= Capacity
  BY <1>2, CommandsFacts, BoundsAssumption DEF Room
<1>4. TelemetryTypeOK' BY <1>2, <1>3 DEF TelemetryTypeOK
<1>5. Counted' BY NothingLost
<1>6. BatchIsOfItsKind' BY DEF BatchIsOfItsKind
<1>7. OnePlace'
  <2>1. \A e : (\E i \in Places' : e \in Commands'[i].of) <=> (\E i \in Places : e \in Commands[i].of)
    BY ONLY <1>1, <1>2
  <2>2. \A i \in Places' : Commands'[i].of = {} \/ (i \in Places /\ Commands'[i].of = Commands[i].of)
    BY ONLY <1>1, <1>2
  <2>3. writer' = writer /\ fate' = fate OBVIOUS
  <2>4. OnePlace BY DEF TelemetryInv
  <2> QED BY ONLY <2>1, <2>2, <2>3, <2>4 DEF OnePlace
<1>8. WaitingForItsCommand'
  <2>1. \A c : (\E i \in Places' : c \in Commands'[i].from) <=> (\E i \in Places : c \in Commands[i].from)
    BY ONLY <1>1, <1>2
  <2>2. \A i \in Places' : Commands'[i].from = {} \/ (i \in Places /\ Commands'[i].from = Commands[i].from)
    BY ONLY <1>1, <1>2
  <2>3. caller' = caller OBVIOUS
  <2>4. WaitingForItsCommand BY DEF TelemetryInv
  <2> QED BY ONLY <2>1, <2>2, <2>3, <2>4 DEF WaitingForItsCommand
<1>9. StopIsLast'
  <2>1. \A i \in Places : Commands[i].kind # "stop" BY DEF StopIsLast
  <2>2. writer.at # "stopped" BY DEF StopIsLast
  <2> QED BY <1>1, <1>2, <2>1, <2>2 DEF StopIsLast, Closed, HoldsRLock
<1>10. NothingBehind'
  <2>1. ASSUME NEW i \in Places', NEW j \in Places', NEW c \in Commands'[i].from, i < j
        PROVE  Commands'[j].of \cap caller[c].before = {}
    <3>1. i \in Places /\ c \in Commands[i].from BY <1>1, <1>2, <2>1
    <3>2. CASE j = n BY <1>1, <1>2, <3>2
    <3>3. CASE j \in Places BY <1>2, <2>1, <3>1, <3>3 DEF NothingBehind
    <3> QED BY <1>2, <3>2, <3>3
  <2> QED BY <2>1 DEF NothingBehind, Concerned
<1>11. BarriersHold' BY DEF BarriersHold, FlushIsBarrier, ClearIsFinal
<1> QED BY <1>4, <1>5, <1>6, <1>7, <1>8, <1>9, <1>10, <1>11

-----------------------------------------------------------------------------
(* The invariance proof.                                                     *)

LEMMA InitHolds == TelemetryInit => TelemetryInv
<1> SUFFICES ASSUME TelemetryInit PROVE TelemetryInv OBVIOUS
<1> USE DEF TelemetryInit
<1>1. Commands = <<>> /\ Places = {}
  BY ConcatEmptySeq, EmptySeq DEF Commands, Places
<1>2. TelemetryTypeOK
  <2>1. writer \in WriterState BY BoundsAssumption DEF Resting, WriterState, EventKind
  <2>2. queue \in Seq(Command) /\ Len(queue) = 0 /\ pending \in Seq(Command) /\ Len(pending) = 0
    BY EmptySeq
  <2>3. Cardinality(writer.batch) <= BatchSize
    BY FS_EmptySet, BoundsAssumption DEF Resting
  <2> QED BY <2>1, <2>2, <2>3, BoundsAssumption DEF TelemetryTypeOK, WriterState
<1>3. BatchIsOfItsKind BY DEF BatchIsOfItsKind, Resting
<1>4. OnePlace BY <1>1 DEF OnePlace, Resting
<1>5. Counted
  <2>1. \A k \in EventKind : LostEvents(k) = {}
    BY NoEventIsOfBothKinds DEF LostEvents
  <2>2. \A k \in EventKind : Cardinality(LostEvents(k)) = 0 BY <2>1, FS_EmptySet
  <2>3. \A k \in EventKind : dropped[k] = 0 /\ failedPrunes[k] = 0 OBVIOUS
  <2> QED BY <2>2, <2>3 DEF Counted
<1>6. WaitingForItsCommand BY <1>1 DEF WaitingForItsCommand
<1>7. StopIsLast BY <1>1 DEF StopIsLast, Closed, Resting
<1>8. NothingBehind BY <1>1 DEF NothingBehind
<1>9. BarriersHold BY DEF BarriersHold, FlushIsBarrier, ClearIsFinal
<1> QED BY <1>2, <1>3, <1>4, <1>5, <1>6, <1>7, <1>8, <1>9 DEF TelemetryInv

LEMMA StutterHolds == TelemetryInv /\ UNCHANGED telemetryVars => TelemetryInv'
<1> SUFFICES ASSUME TelemetryInv, UNCHANGED telemetryVars PROVE TelemetryInv' OBVIOUS
<1> USE DEF telemetryVars, TelemetryInv
<1>1. Commands' = Commands /\ Places' = Places BY QueueUntouched
<1>2. TelemetryTypeOK' /\ BatchIsOfItsKind' BY DEF TelemetryTypeOK, BatchIsOfItsKind
<1>3. OnePlace' BY <1>1 DEF OnePlace
<1>4. Counted' BY NothingLost
<1>5. WaitingForItsCommand' BY <1>1 DEF WaitingForItsCommand
<1>6. StopIsLast' /\ NothingBehind'
  BY <1>1 DEF StopIsLast, Closed, HoldsRLock, NothingBehind, Concerned
<1>7. BarriersHold' BY DEF BarriersHold, FlushIsBarrier, ClearIsFinal
<1> QED BY <1>2, <1>3, <1>4, <1>5, <1>6, <1>7

LEMMA StepHolds == TelemetryInv /\ [TelemetryNext]_telemetryVars => TelemetryInv'
<1> SUFFICES ASSUME TelemetryInv, [TelemetryNext]_telemetryVars PROVE TelemetryInv' OBVIOUS
<1>1. ASSUME NEW e \in Event, NEW valid \in BOOLEAN, EnqueueEvent(e, valid) PROVE TelemetryInv'
  BY <1>1, EnqueueEventKeeps
<1>2. ASSUME NEW c \in Caller, Call(c) \/ CallerStep(c) PROVE TelemetryInv'
  BY <1>2, CallKeeps, EnterGateKeeps, SendKeeps DEF CallerStep
<1>3. CASE WriterStep
  BY <1>3, BeginKeeps, FillKeeps, SameBatchKeeps, CommitKeeps, GiveUpKeeps, FlushKeeps,
     ClearKeeps, StopKeeps DEF WriterStep
<1>4. ASSUME NEW kinds \in (SUBSET EventKind) \ {{}}, PruneFails(kinds) PROVE TelemetryInv'
  BY <1>4, PruneFailsKeeps
<1>5. CASE Lock \/ CloserStep
  BY <1>5, CloserKeeps, SendStopKeeps DEF CloserStep
<1>6. CASE UNCHANGED telemetryVars BY <1>6, StutterHolds
<1> QED BY <1>1, <1>2, <1>3, <1>4, <1>5, <1>6 DEF TelemetryNext

\* The queue, the batch, the calls and the counters stay well formed, the
\* queue within its capacity and the batch within its size
\* (dynamicObservationQueue, the batch loop of run).
THEOREM TelemetryTypeCorrect == TelemetrySpec => []TelemetryTypeOK
<1>1. TelemetryInv => TelemetryTypeOK BY DEF TelemetryInv
<1> QED BY <1>1, InitHolds, StepHolds, PTL DEF TelemetrySpec

\* An accepted event is in the writer's hands exactly once, and everything that
\* is lost is counted (EnqueueRequestLog, EnqueueDynamicObservation, the error
\* paths of a batch).
THEOREM LossIsAlwaysCounted == TelemetrySpec => []LossIsCounted
<1>1. TelemetryInv => LossIsCounted
  <2> SUFFICES ASSUME TelemetryInv PROVE LossIsCounted OBVIOUS
  <2> USE DEF TelemetryInv
  <2>1. Queued \subseteq Event /\ writer.batch \subseteq Event
    BY CommandsFacts, CommandFacts DEF Queued, Places, TelemetryTypeOK
  <2>2. \A e \in Event : e \in Queued <=> \E i \in Places : e \in Commands[i].of
    BY DEF Queued, Places
  <2>3. {e \in Event : fate[e] = "accepted"} = Queued \union writer.batch
    BY <2>1, <2>2 DEF OnePlace
  <2>4. Queued \cap writer.batch = {} BY <2>1, <2>2 DEF OnePlace
  <2> QED BY <2>3, <2>4 DEF LossIsCounted, OnePlace, Places, Counted, LostEvents
<1> QED BY <1>1, InitHolds, StepHolds, PTL DEF TelemetrySpec

\* A flush that returns has everything before it written or given up, and what
\* was accepted before a clear never turns up again (FlushDynamicObservations,
\* clearDynamicObservations, the kept command of run).
THEOREM BarriersAlwaysHold == TelemetrySpec => []BarriersHold
<1>1. TelemetryInv => BarriersHold BY DEF TelemetryInv
<1> QED BY <1>1, InitHolds, StepHolds, PTL DEF TelemetrySpec

\* A stopped writer leaves no event unwritten and no panel call waiting
\* (closeDynamicObservationWriter).
THEOREM StoppedIsDrained == TelemetrySpec => []StoppedMeansDrained
<1>1. TelemetryInv => StoppedMeansDrained
  <2> SUFFICES ASSUME TelemetryInv, writer.at = "stopped" PROVE StoppedMeansDrained
    BY DEF StoppedMeansDrained
  <2> USE DEF TelemetryInv
  <2>1. Commands = <<>> /\ Places = {} /\ Closed /\ writer.batch = {}
    BY CommandsFacts, EmptySeq DEF StopIsLast, BatchIsOfItsKind, Closed
  <2>2. \A e \in Event : fate[e] # "accepted" BY <2>1 DEF OnePlace
  <2>3. \A c \in Caller : caller[c].at \notin {"sending", "waiting"}
    BY <2>1 DEF StopIsLast, HoldsRLock, WaitingForItsCommand
  <2> QED BY <2>1, <2>2, <2>3 DEF StoppedMeansDrained
<1> QED BY <1>1, InitHolds, StepHolds, PTL DEF TelemetrySpec

-----------------------------------------------------------------------------
(* The progress coalescer.  The argument is first about one key: what holds  *)
(* between its entry and the requests (KeyInv) is kept by every operation on *)
(* an entry, whatever state the coalescer is in.  Then about the drain: what *)
(* its state says of all entries and of the admissions.                      *)

-----------------------------------------------------------------------------
(* One entry.                                                                *)

EntryShape == [there: BOOLEAN, queue: Seq(Work), act: Work, waiters: Int,
               count: Nat, sent: Nat, last: Nat]

\* A batch upstream is the last that the queue sent; the queue is in the order
\* of acceptance, behind what was sent and behind the active work.
Ordered(e) ==
  /\ e.sent <= e.count /\ e.sent <= e.last /\ e.act.req <= e.count
  /\ \A i \in DOMAIN e.queue : /\ e.queue[i].kind # "none" /\ e.sent < e.queue[i].req
                               /\ e.act.req < e.queue[i].req /\ e.queue[i].req <= e.count
  /\ \A i, j \in DOMAIN e.queue : i < j => e.queue[i].req < e.queue[j].req
  /\ e.act = NoWork \/ (e.act.kind # "none" /\ e.act.req >= e.sent)
  /\ e.act.kind = "batch" => e.act.req = e.sent

\* What the queue sent does not go back, and what was sent last only where it
\* had passed the queue.
Onward(e, f) == f.sent >= e.sent /\ (f.last >= e.last \/ e.last > e.sent)

\* No request waits in two works.
OneWork(e) ==
  /\ \A i \in DOMAIN e.queue : e.queue[i].waiters \cap e.act.waiters = {}
  /\ \A i, j \in DOMAIN e.queue : i # j => e.queue[i].waiters \cap e.queue[j].waiters = {}

WaitsIn(e, r) == r \in e.act.waiters \/ \E i \in DOMAIN e.queue : r \in e.queue[i].waiters

-----------------------------------------------------------------------------
(* One entry and the requests h of its key.                                  *)

LiveOf(h, k) == {r \in Request : h[r].live /\ h[r].key = k}

\* A batch is sent for reports no later than its own, a barrier for the one
\* Stopped that waits for it.
Fits(w, h) ==
  /\ w.kind = "batch" => \A r \in w.waiters : h[r].at = "update" /\ h[r].order <= w.req
  /\ w.kind = "barrier" =>
       \E r \in Request : w.waiters = {r} /\ h[r].at \in {"barrier", "stopping"} /\ h[r].order = w.req
  /\ w.kind = "none" => w.waiters = {}

\* The work that will bring a request upstream, or a later one in its place.
Carries(w, h, r) == w.req >= h[r].order /\ (w.kind = "batch" \/ w.waiters = {r})
Covered(e, h, r) ==
  \/ e.sent >= h[r].order \/ Carries(e.act, h, r)
  \/ \E i \in DOMAIN e.queue : Carries(e.queue[i], h, r)

KeyInv(e, h, k) ==
  /\ e \in EntryShape /\ Ordered(e) /\ OneWork(e)
  /\ \A r \in Request : h[r].live /\ h[r].key = k <=> WaitsIn(e, r)
  /\ Fits(e.act, h) /\ \A i \in DOMAIN e.queue : Fits(e.queue[i], h)
  /\ \A r \in Request : h[r].at = "stopping" /\ h[r].key = k =>
       e.act.kind = "barrier" /\ e.act.waiters = {r} /\ e.act.req = e.sent
  /\ \A r \in Request : h[r].key = k /\ h[r].order > 0 => Covered(e, h, r)
  /\ e.waiters = Cardinality(LiveOf(h, k))

-----------------------------------------------------------------------------
(* The whole.                                                                *)

HandlerOK(x) ==
  /\ x.live => x.at \in {"update", "barrier", "stopping"} /\ x.answer = 0
  /\ x.at \in {"barrier", "stopping"} => x.live
  /\ x.at \in {"idle", "admitted", "fallback", "refused"} => x.order = 0 /\ x.answer = 0
  /\ x.at = "admitted" => x.held
HandlersOK == \A r \in Request : HandlerOK(req[r])

Counts ==
  /\ globalWaiters = Cardinality({r \in Request : req[r].live})
  /\ globalKeys = Cardinality({k \in Key : entry[k].there})

\* What the state of the drain says of the admissions and of the entries.
DrainState ==
  /\ stop = "serving" => cycle = "none" /\ state \in {"open", "drained"}
  /\ stop = "draining" => \/ cycle = "running" /\ state \in {"quiescing", "draining"}
                          \/ cycle = "ok" /\ state = "drained"
                          \/ cycle = "failed" /\ state = "open"
  /\ stop = "closing" => cycle = "none" /\ state = "drained"
  /\ stop = "closed" <=> state = "closed"
  /\ stop = "closed" => cycle = "none"
  /\ state \in {"draining", "drained", "closed"} => Held = {}
  /\ state \in {"drained", "closed"} => \A k \in Key : Idle(entry[k])
  /\ state = "closed" => \A k \in Key : ~entry[k].there
  /\ cycle = "running" => failedInDrain = drainErr
  /\ state = "drained" => ~failedInDrain

IInv ==
  /\ TypeOK
  /\ \A k \in Key : KeyInv(entry[k], req, k)
  /\ HandlersOK
  /\ Counts
  /\ DrainState
  /\ AnsweredByOwnOrLater

-----------------------------------------------------------------------------
(* Works and queues.                                                         *)

LEMMA NoWorkFacts ==
  NoWork \in Work /\ NoWork.kind = "none" /\ NoWork.waiters = {} /\ NoWork.req = 0
BY DEF NoWork, Work

LEMMA NoWorkUnchanged == [NoWork EXCEPT !.waiters = {}] = NoWork
BY SMT DEF NoWork

LEMMA ShapeFacts ==
  ASSUME NEW e \in EntryShape
  PROVE  /\ e.queue \in Seq(Work) /\ Len(e.queue) \in Nat
         /\ DOMAIN e.queue = 1..Len(e.queue)
         /\ \A i \in DOMAIN e.queue : e.queue[i] \in Work
         /\ e.act \in Work /\ e.waiters \in Int /\ e.count \in Nat /\ e.sent \in Nat
         /\ e.last \in Nat
<1>1. e.queue \in Seq(Work) BY DEF EntryShape
<1> QED BY <1>1, LenProperties, ElementOfSeq DEF EntryShape

\* The two entries hold the same works for the same requests.
SameWork(v, w) == v.kind = w.kind /\ v.req = w.req /\ v.waiters = w.waiters
Alike(e, f) ==
  /\ f \in EntryShape
  /\ f.act = e.act /\ f.waiters = e.waiters /\ f.count = e.count /\ f.sent = e.sent
  /\ f.last = e.last
  /\ DOMAIN f.queue = DOMAIN e.queue
  /\ \A i \in DOMAIN e.queue : SameWork(f.queue[i], e.queue[i])

LEMMA AlikeKeeps ==
  ASSUME NEW e, NEW f, NEW h, NEW k, KeyInv(e, h, k), Alike(e, f)
  PROVE  KeyInv(f, h, k)
<1> USE DEF Alike, SameWork
<1>1. f \in EntryShape OBVIOUS
<1>2. Ordered(f) BY DEF KeyInv, Ordered
<1>3. OneWork(f) BY DEF KeyInv, OneWork
<1>4. \A r \in Request : h[r].live /\ h[r].key = k <=> WaitsIn(f, r)
  <2>1. \A r \in Request : WaitsIn(f, r) <=> WaitsIn(e, r) BY DEF WaitsIn
  <2> QED BY <2>1 DEF KeyInv
<1>5. Fits(f.act, h) BY DEF KeyInv
<1>6. ASSUME NEW i \in DOMAIN f.queue PROVE Fits(f.queue[i], h)
  <2>1. Fits(e.queue[i], h) BY DEF KeyInv
  <2> QED BY <2>1 DEF Fits
<1>7. ASSUME NEW r \in Request, h[r].key = k, h[r].order > 0
      PROVE  Covered(f, h, r)
  <2>1. Covered(e, h, r) BY <1>7 DEF KeyInv
  <2> QED BY <2>1 DEF Covered, Carries
<1> QED BY <1>1, <1>2, <1>3, <1>4, <1>5, <1>6, <1>7 DEF KeyInv

\* Forcing only touches readiness, generations and timers
\* (forceQueuedBatchesLocked).
LEMMA ForceIsAlike ==
  ASSUME NEW e \in EntryShape
  PROVE  Alike(e, ForceBatches(e)) /\ ForceBatches(e).there = e.there
<1> DEFINE q == [i \in DOMAIN e.queue |-> Forced(e.queue[i])]
           f == ForceBatches(e)
<1>1. \A w \in Work : Forced(w) \in Work /\ SameWork(Forced(w), w)
  <2> SUFFICES ASSUME NEW w \in Work PROVE Forced(w) \in Work /\ SameWork(Forced(w), w)
    OBVIOUS
  <2>1. CASE IsBatch(w) /\ w.ready = "no"
    <3>1. Forced(w) = [w EXCEPT !.ready = "forced", !.gen = w.gen + 1, !.timers = {}]
      BY <2>1 DEF Forced
    <3>2. w.gen + 1 \in Nat BY DEF Work
    <3> QED BY <3>1, <3>2 DEF Work, SameWork
  <2>2. CASE ~(IsBatch(w) /\ w.ready = "no") BY <2>2 DEF Forced, SameWork
  <2> QED BY <2>1, <2>2
<1>2. q \in Seq(Work) /\ DOMAIN q = DOMAIN e.queue
  BY <1>1, ShapeFacts
<1>3. f = [e EXCEPT !.queue = q] BY DEF ForceBatches
<1>4. /\ f \in EntryShape /\ f.queue = q /\ f.act = e.act /\ f.waiters = e.waiters
      /\ f.count = e.count /\ f.sent = e.sent /\ f.last = e.last /\ f.there = e.there
  BY <1>2, <1>3 DEF EntryShape
<1>5. \A i \in DOMAIN e.queue : SameWork(f.queue[i], e.queue[i])
  BY <1>1, <1>4, ShapeFacts
<1> QED BY <1>2, <1>4, <1>5 DEF Alike

\* The head of the queue becomes the active work (advanceEntryLocked).
LEMMA ActivatedKeeps ==
  ASSUME NEW e, NEW h \in [Request -> Handler], NEW k, KeyInv(e, h, k),
         ~Busy(e), e.queue # <<>>
  PROVE  LET f == Activated(e)  w == Head(e.queue)
         IN  /\ f \in EntryShape /\ OneWork(f) /\ f.act = w /\ w \in Work
             /\ f.there = e.there /\ f.waiters = e.waiters
             /\ f.count = e.count /\ f.sent = e.sent /\ f.last = e.last
             /\ e.sent < w.req /\ w.req <= e.count /\ w.kind # "none"
             /\ \A i \in DOMAIN f.queue : /\ f.queue[i].kind # "none" /\ w.req < f.queue[i].req
                                          /\ f.queue[i].req <= e.count
             /\ \A i, j \in DOMAIN f.queue : i < j => f.queue[i].req < f.queue[j].req
             /\ \A r \in Request : h[r].live /\ h[r].key = k <=> WaitsIn(f, r)
             /\ Fits(w, h) /\ \A i \in DOMAIN f.queue : Fits(f.queue[i], h)
             /\ \A r \in Request : ~(h[r].at = "stopping" /\ h[r].key = k)
             /\ \A r \in Request : h[r].key = k /\ h[r].order > 0 => Covered(f, h, r)
             /\ f.waiters = Cardinality(LiveOf(h, k))
<1> DEFINE w == Head(e.queue)  f == Activated(e)
<1>0. e \in EntryShape BY DEF KeyInv
<1>2. /\ e.act = NoWork /\ 1 \in DOMAIN e.queue /\ w = e.queue[1] /\ w \in Work
      /\ Tail(e.queue) \in Seq(Work) /\ Len(Tail(e.queue)) = Len(e.queue) - 1
      /\ \A i \in 1..(Len(e.queue) - 1) : Tail(e.queue)[i] = e.queue[i + 1]
  <2>1. e.queue # <<>> /\ e.queue \in Seq(Work) BY <1>0, ShapeFacts
  <2>2. Len(e.queue) >= 1 BY <2>1, EmptySeq
  <2> QED BY <1>0, <2>1, <2>2, ShapeFacts, HeadTailProperties DEF Busy
<1>3. /\ f \in EntryShape /\ f.queue = Tail(e.queue) /\ f.act = w
      /\ f.sent = e.sent /\ f.last = e.last
      /\ f.waiters = e.waiters /\ f.count = e.count /\ f.there = e.there
  <2> DEFINE g == [e EXCEPT !.queue = Tail(e.queue)]
  <2>1. /\ g \in EntryShape /\ g.queue = Tail(e.queue) /\ g.sent = e.sent /\ g.last = e.last
        /\ g.waiters = e.waiters /\ g.count = e.count /\ g.there = e.there
    BY <1>0, <1>2 DEF EntryShape
  <2>2. f = [g EXCEPT !.act = w] BY DEF Activated
  <2> HIDE DEF f, g, w
  <2> QED BY <1>2, <2>1, <2>2 DEF EntryShape
<1>4. /\ DOMAIN f.queue = 1..(Len(e.queue) - 1) /\ Len(e.queue) \in Nat
      /\ DOMAIN e.queue = 1..Len(e.queue)
      /\ \A i \in DOMAIN f.queue : i + 1 \in DOMAIN e.queue /\ f.queue[i] = e.queue[i + 1]
      /\ \A i \in DOMAIN e.queue : i = 1 \/ (i - 1 \in DOMAIN f.queue /\ f.queue[i - 1] = e.queue[i])
  <2>1. f.queue \in Seq(Work) /\ Len(f.queue) = Len(e.queue) - 1 BY <1>2, <1>3
  <2>2. DOMAIN f.queue = 1..(Len(e.queue) - 1) BY <2>1, LenProperties
  <2> HIDE DEF f, w
  <2> QED BY <1>0, <1>2, <1>3, <2>2, ShapeFacts
<1> HIDE DEF f, w
<1>5. /\ w.kind # "none" /\ e.sent < w.req /\ w.req <= e.count
      /\ e.sent \in Nat /\ e.last \in Nat /\ w.req \in Nat /\ e.count \in Nat
  BY <1>0, <1>2, ShapeFacts DEF KeyInv, Ordered, Work
<1>6. ASSUME NEW i \in DOMAIN f.queue
      PROVE  /\ f.queue[i].kind # "none" /\ w.req < f.queue[i].req /\ f.queue[i].req <= e.count
  <2>1. 1 < i + 1 /\ i + 1 \in DOMAIN e.queue BY <1>4
  <2>2. /\ e.queue[i + 1].kind # "none" /\ e.queue[1].req < e.queue[i + 1].req
        /\ e.queue[i + 1].req <= e.count
    BY <1>2, <2>1 DEF KeyInv, Ordered
  <2> QED BY <1>2, <1>4, <2>2
<1>7. ASSUME NEW i \in DOMAIN f.queue, NEW j \in DOMAIN f.queue, i < j
      PROVE  f.queue[i].req < f.queue[j].req
  <2>1. i + 1 < j + 1 BY <1>4, <1>7
  <2> QED BY <1>4, <2>1 DEF KeyInv, Ordered
<1>8. OneWork(f)
  <2>1. ASSUME NEW i \in DOMAIN f.queue PROVE f.queue[i].waiters \cap f.act.waiters = {}
    <3>1. i + 1 # 1 /\ i + 1 \in DOMAIN e.queue BY <1>4
    <3>2. e.queue[i + 1].waiters \cap e.queue[1].waiters = {}
      BY <1>2, <3>1 DEF KeyInv, OneWork
    <3> QED BY <1>2, <1>3, <1>4, <3>2
  <2>2. ASSUME NEW i \in DOMAIN f.queue, NEW j \in DOMAIN f.queue, i # j
        PROVE  f.queue[i].waiters \cap f.queue[j].waiters = {}
    <3>1. i + 1 # j + 1 /\ i + 1 \in DOMAIN e.queue /\ j + 1 \in DOMAIN e.queue
      BY <1>4, <2>2
    <3>2. e.queue[i + 1].waiters \cap e.queue[j + 1].waiters = {}
      BY <3>1 DEF KeyInv, OneWork
    <3> QED BY <1>4, <3>2
  <2> QED BY <2>1, <2>2 DEF OneWork
<1>9. \A r \in Request : h[r].live /\ h[r].key = k <=> WaitsIn(f, r)
  <2>1. ASSUME NEW r \in Request PROVE WaitsIn(e, r) <=> WaitsIn(f, r)
    <3>1. WaitsIn(e, r) => WaitsIn(f, r)
      BY <1>2, <1>3, <1>4, NoWorkFacts DEF WaitsIn
    <3>2. WaitsIn(f, r) => WaitsIn(e, r)
      BY <1>2, <1>3, <1>4 DEF WaitsIn
    <3> QED BY <3>1, <3>2
  <2> QED BY <2>1 DEF KeyInv
<1>10. Fits(w, h) /\ \A i \in DOMAIN f.queue : Fits(f.queue[i], h)
  BY <1>2, <1>3, <1>4 DEF KeyInv
<1>11. \A r \in Request : ~(h[r].at = "stopping" /\ h[r].key = k)
  BY <1>2, NoWorkFacts DEF KeyInv
<1>12. ASSUME NEW r \in Request, h[r].key = k, h[r].order > 0
       PROVE  Covered(f, h, r)
  <2>1. Covered(e, h, r) BY <1>12 DEF KeyInv
  <2>2. CASE e.sent >= h[r].order BY <1>3, <2>2 DEF Covered
  <2>3. CASE Carries(e.act, h, r)
    <3>1. h[r].order \in Nat BY DEF Handler
    <3> QED BY <1>2, <1>12, <2>3, <3>1, NoWorkFacts DEF Carries
  <2>4. ASSUME NEW i \in DOMAIN e.queue, Carries(e.queue[i], h, r)
        PROVE  Covered(f, h, r)
    <3>1. CASE i = 1 BY <1>2, <1>3, <2>4, <3>1 DEF Covered
    <3>2. CASE i # 1 BY <1>4, <2>4, <3>2 DEF Covered
    <3> QED BY <3>1, <3>2
  <2> QED BY <2>1, <2>2, <2>3, <2>4 DEF Covered
<1>13. f.waiters = Cardinality(LiveOf(h, k)) BY <1>3 DEF KeyInv
<1> QED BY <1>2, <1>3, <1>5, <1>6, <1>7, <1>8, <1>9, <1>10, <1>11, <1>12, <1>13 DEF f, w

\* What e sends next, as the last of its queue.
LEMMA SentUpToShape ==
  ASSUME NEW e \in EntryShape, NEW n \in Nat
  PROVE  LET f == SentUpTo(e, n)
         IN  /\ f \in EntryShape /\ f.sent = n /\ f.last = n
             /\ f.there = e.there /\ f.queue = e.queue /\ f.act = e.act
             /\ f.waiters = e.waiters /\ f.count = e.count
<1> DEFINE g == [e EXCEPT !.sent = n]
<1>1. /\ g \in EntryShape /\ g.sent = n /\ g.there = e.there /\ g.queue = e.queue
      /\ g.act = e.act /\ g.waiters = e.waiters /\ g.count = e.count
  BY DEF EntryShape
<1>2. SentUpTo(e, n) = [g EXCEPT !.last = n] BY DEF SentUpTo
<1> HIDE DEF g
<1> QED BY <1>1, <1>2 DEF EntryShape

\* A batch that becomes active is sent (advanceEntryLocked), a granted Stopped
\* is.
LEMMA SentKeeps ==
  ASSUME NEW e \in EntryShape, NEW h \in [Request -> Handler], NEW r \in Request,
         Covered(e, h, r), e.sent <= e.act.req
  PROVE  Covered(SentUpTo(e, e.act.req), h, r)
<1> DEFINE f == SentUpTo(e, e.act.req)
<1>1. e.act.req \in Nat /\ e.sent \in Nat /\ h[r].order \in Nat
  BY ShapeFacts DEF Work, Handler
<1>2. f.sent = e.act.req /\ f.queue = e.queue /\ f.act = e.act BY <1>1, SentUpToShape
<1> HIDE DEF f
<1>3. Covered(f, h, r) BY <1>1, <1>2 DEF Covered
<1> QED BY <1>3 DEF f

\* The head of the queue goes upstream, or is granted when it is a barrier
\* (advanceEntryLocked).
LEMMA AdvanceKeeps ==
  ASSUME NEW e, NEW h \in [Request -> Handler], NEW k, KeyInv(e, h, k)
  PROVE  /\ KeyInv(Advance(e), h, k)
         /\ Advance(e).there = e.there /\ Advance(e).waiters = e.waiters
         /\ Onward(e, Advance(e))
<1> DEFINE w == Head(e.queue)  f == Activated(e)  g == SentUpTo(f, w.req)
<1>0. /\ e \in EntryShape /\ e.sent \in Nat /\ e.last \in Nat /\ e.count \in Nat
      /\ e.sent <= e.last
  BY ShapeFacts DEF KeyInv, Ordered
<1>1. CASE Busy(e) \/ e.queue = <<>> \/ Waits(e)
  <2>1. Advance(e) = e BY <1>1 DEF Advance
  <2> QED BY <1>0, <2>1 DEF Onward
<1>2. CASE ~(Busy(e) \/ e.queue = <<>> \/ Waits(e))
  <2>1. /\ f \in EntryShape /\ OneWork(f) /\ f.act = w /\ w \in Work
        /\ f.there = e.there /\ f.waiters = e.waiters
        /\ f.count = e.count /\ f.sent = e.sent /\ f.last = e.last
        /\ e.sent < w.req /\ w.req <= e.count /\ w.kind # "none"
        /\ \A i \in DOMAIN f.queue : /\ f.queue[i].kind # "none" /\ w.req < f.queue[i].req
                                     /\ f.queue[i].req <= e.count
        /\ \A i, j \in DOMAIN f.queue : i < j => f.queue[i].req < f.queue[j].req
        /\ \A r \in Request : h[r].live /\ h[r].key = k <=> WaitsIn(f, r)
        /\ Fits(w, h) /\ \A i \in DOMAIN f.queue : Fits(f.queue[i], h)
        /\ \A r \in Request : ~(h[r].at = "stopping" /\ h[r].key = k)
        /\ \A r \in Request : h[r].key = k /\ h[r].order > 0 => Covered(f, h, r)
        /\ f.waiters = Cardinality(LiveOf(h, k))
    BY <1>2, ActivatedKeeps
  <2>2. w.req \in Nat BY <2>1 DEF Work
  <2>3. Advance(e) = IF IsBatch(w) THEN g ELSE f BY <1>2 DEF Advance
  <2>4. CASE IsBatch(w)
    <3>1. /\ g \in EntryShape /\ g.sent = w.req /\ g.last = w.req
          /\ g.there = f.there /\ g.queue = f.queue /\ g.act = f.act
          /\ g.waiters = f.waiters /\ g.count = f.count
      BY <2>1, <2>2, SentUpToShape
    <3>2. ASSUME NEW r \in Request, h[r].key = k, h[r].order > 0 PROVE Covered(g, h, r)
      <4>1. Covered(f, h, r) /\ f.sent <= f.act.req BY <1>0, <2>1, <2>2, <3>2
      <4>2. Covered(SentUpTo(f, f.act.req), h, r) BY <2>1, <4>1, SentKeeps
      <4> QED BY <2>1, <4>2
    <3> HIDE DEF w, f, g
    <3>3. Ordered(g) BY <1>0, <2>1, <2>2, <3>1 DEF Ordered
    <3>4. OneWork(g) BY <2>1, <3>1 DEF OneWork
    <3>5. \A r \in Request : h[r].live /\ h[r].key = k <=> WaitsIn(g, r)
      BY <2>1, <3>1 DEF WaitsIn
    <3>6. KeyInv(g, h, k) BY <2>1, <3>1, <3>2, <3>3, <3>4, <3>5 DEF KeyInv
    <3>7. Onward(e, g) BY <1>0, <2>1, <2>2, <3>1 DEF Onward
    <3> QED BY <2>1, <2>3, <2>4, <3>1, <3>6, <3>7
  <2>5. CASE ~IsBatch(w)
    <3> HIDE DEF w, f, g
    <3>1. Ordered(f)
      <4>1. \A i \in DOMAIN f.queue : f.queue[i].req \in Nat BY <2>1, ShapeFacts DEF Work
      <4>2. \A i \in DOMAIN f.queue : f.sent < f.queue[i].req BY <1>0, <2>1, <2>2, <4>1
      <4> QED BY <1>0, <2>1, <2>2, <2>5, <4>2 DEF Ordered, IsBatch
    <3>2. KeyInv(f, h, k) BY <2>1, <3>1 DEF KeyInv
    <3>3. Onward(e, f) BY <1>0, <2>1 DEF Onward
    <3> QED BY <2>1, <2>3, <2>5, <3>2, <3>3
  <2> QED BY <2>4, <2>5
<1> QED BY <1>1, <1>2

-----------------------------------------------------------------------------
(* Requests that come and go.                                                *)

LEMMA CountsAreNumbers ==
  \A S \in SUBSET Request : IsFiniteSet(S) /\ Cardinality(S) \in Nat
BY IdentitiesAssumption, FS_Subset, FS_CardinalityType

LEMMA OneMore ==
  ASSUME NEW S \in SUBSET Request, NEW r \in Request \ S
  PROVE  Cardinality(S \union {r}) = Cardinality(S) + 1
BY CountsAreNumbers, FS_AddElement

LEMMA SomeLess ==
  ASSUME NEW S \in SUBSET Request, NEW T \in SUBSET S
  PROVE  Cardinality(S \ T) = Cardinality(S) - Cardinality(T)
<1>1. /\ IsFiniteSet(S \ T) /\ IsFiniteSet(T)
      /\ Cardinality(S \ T) \in Nat /\ Cardinality(T) \in Nat
  BY CountsAreNumbers
<1>2. Cardinality((S \ T) \union T) =
        Cardinality(S \ T) + Cardinality(T) - Cardinality((S \ T) \cap T)
  BY <1>1, FS_Union
<1>3. (S \ T) \union T = S /\ (S \ T) \cap T = {} OBVIOUS
<1>4. Cardinality((S \ T) \cap T) = 0 BY <1>3, FS_EmptySet
<1> QED BY <1>1, <1>2, <1>3, <1>4

\* Handlers that concern an entry as before, or neither before nor after.
SameConcern(h, g, r) ==
  /\ g[r].key = h[r].key /\ g[r].live = h[r].live /\ g[r].order = h[r].order
  /\ h[r].live => g[r].at = h[r].at
  /\ g[r].at = "stopping" => h[r].at = "stopping"
Unconcerned(h, r, k) ==
  h[r].key = k => ~h[r].live /\ h[r].order = 0 /\ h[r].at # "stopping"

SameFor(h, g, k) ==
  \A r \in Request : SameConcern(h, g, r) \/ (Unconcerned(h, r, k) /\ Unconcerned(g, r, k))

LEMMA OthersKeep ==
  ASSUME NEW e, NEW h \in [Request -> Handler], NEW g \in [Request -> Handler], NEW k,
         KeyInv(e, h, k), SameFor(h, g, k)
  PROVE  KeyInv(e, g, k)
<1> USE DEF SameConcern, Unconcerned, SameFor
<1>1. \A r \in Request : h[r].live /\ h[r].key = k <=> g[r].live /\ g[r].key = k
  OBVIOUS
<1>2. e \in EntryShape /\ Ordered(e) /\ OneWork(e) BY DEF KeyInv
<1>3. \A r \in Request : g[r].live /\ g[r].key = k <=> WaitsIn(e, r)
  BY <1>1 DEF KeyInv
<1>4. ASSUME NEW r \in Request, WaitsIn(e, r)
      PROVE  g[r].at = h[r].at /\ g[r].order = h[r].order
  BY <1>4 DEF KeyInv
<1>5. Fits(e.act, g)
  <2>1. Fits(e.act, h) /\ e.act.waiters \subseteq Request
    BY <1>2, ShapeFacts DEF KeyInv, Work
  <2>2. \A r \in e.act.waiters : g[r].at = h[r].at /\ g[r].order = h[r].order
    BY <1>4, <2>1 DEF WaitsIn
  <2> QED BY <2>1, <2>2 DEF Fits
<1>6. ASSUME NEW i \in DOMAIN e.queue PROVE Fits(e.queue[i], g)
  <2>1. Fits(e.queue[i], h) /\ e.queue[i].waiters \subseteq Request
    BY <1>2, ShapeFacts DEF KeyInv, Work
  <2>2. \A r \in e.queue[i].waiters : g[r].at = h[r].at /\ g[r].order = h[r].order
    BY <1>4, <2>1 DEF WaitsIn
  <2> QED BY <2>1, <2>2 DEF Fits
<1>7. \A r \in Request : g[r].at = "stopping" /\ g[r].key = k =>
         e.act.kind = "barrier" /\ e.act.waiters = {r} /\ e.act.req = e.sent
  BY DEF KeyInv
<1>8. ASSUME NEW r \in Request, g[r].key = k, g[r].order > 0
      PROVE  Covered(e, g, r)
  <2>1. h[r].key = k /\ h[r].order = g[r].order BY <1>8
  <2>2. Covered(e, h, r) BY <1>8, <2>1 DEF KeyInv
  <2> QED BY <2>1, <2>2 DEF Covered, Carries
<1>9. e.waiters = Cardinality(LiveOf(g, k))
  <2>1. LiveOf(g, k) = LiveOf(h, k) BY <1>1 DEF LiveOf
  <2> QED BY <2>1 DEF KeyInv
<1> QED BY <1>2, <1>3, <1>5, <1>6, <1>7, <1>8, <1>9 DEF KeyInv

\* A request is accepted into the work that ends the queue, in its own or in
\* the place of the reports before it (enqueueUpdate, enqueueBarrier).
Accept(e, f, h, g, r, k, l) ==
  /\ ~h[r].live /\ h[r].order = 0 /\ h[r].at # "stopping"
  /\ \A q \in Request \ {r} : g[q] = h[q]
  /\ g[r].live /\ g[r].key = k /\ g[r].order = e.count + 1
  /\ f.act = e.act /\ f.sent = e.sent /\ f.last = e.last /\ f.count = e.count + 1
  /\ f.waiters = e.waiters + 1
  /\ l = Len(f.queue) /\ l \in DOMAIN f.queue /\ DOMAIN f.queue = DOMAIN e.queue \union {l}
  /\ \A i \in DOMAIN f.queue \ {l} : SameWork(f.queue[i], e.queue[i])
  /\ f.queue[l].req = e.count + 1
  /\ \/ /\ l \notin DOMAIN e.queue /\ f.queue[l].waiters = {r}
        /\ \/ f.queue[l].kind = "batch" /\ g[r].at = "update"
           \/ f.queue[l].kind = "barrier" /\ g[r].at = "barrier"
     \/ /\ l \in DOMAIN e.queue /\ f.queue[l].waiters = e.queue[l].waiters \union {r}
        /\ e.queue[l].kind = "batch" /\ f.queue[l].kind = "batch" /\ g[r].at = "update"

LEMMA AcceptKeeps ==
  ASSUME NEW e, NEW h \in [Request -> Handler], NEW g \in [Request -> Handler],
         NEW k \in Key, KeyInv(e, h, k), NEW r \in Request, NEW f \in EntryShape,
         NEW l, Accept(e, f, h, g, r, k, l)
  PROVE  KeyInv(f, g, k)
<1> DEFINE n == e.count + 1
<1> USE DEF Accept
<1>1. e \in EntryShape BY DEF KeyInv
<1>2. \A q \in Request \ {r} : g[q] = h[q] OBVIOUS
<1>3. /\ e.count \in Nat /\ e.sent \in Nat /\ e.last \in Nat /\ e.act.req \in Nat
      /\ e.sent <= e.count /\ e.act.req <= e.count
      /\ Len(f.queue) \in Nat /\ DOMAIN f.queue = 1..Len(f.queue)
      /\ \A i \in DOMAIN f.queue : f.queue[i] \in Work
      /\ \A i \in DOMAIN e.queue : e.queue[i] \in Work
      /\ \A i \in DOMAIN f.queue : i <= l
  <2>1. e.act.req \in Nat BY <1>1, ShapeFacts DEF Work
  <2> QED BY <1>1, <2>1, ShapeFacts DEF KeyInv, Ordered
<1>4. \A i \in DOMAIN f.queue \ {l} : i \in DOMAIN e.queue OBVIOUS
<1>5. ~WaitsIn(e, r) BY DEF KeyInv
<1>6. Ordered(f)
  <2>1. ASSUME NEW i \in DOMAIN f.queue
        PROVE  /\ f.queue[i].kind # "none" /\ f.sent < f.queue[i].req
               /\ f.act.req < f.queue[i].req /\ f.queue[i].req <= f.count
    <3>1. CASE i = l BY <1>3, <3>1
    <3>2. CASE i # l
      <4>1. /\ e.queue[i].kind # "none" /\ e.sent < e.queue[i].req
            /\ e.act.req < e.queue[i].req /\ e.queue[i].req <= e.count
        BY <1>4, <3>2 DEF KeyInv, Ordered
      <4>2. e.queue[i].req \in Nat BY <1>3, <1>4, <3>2 DEF Work
      <4> QED BY <1>3, <3>2, <4>1, <4>2 DEF SameWork
    <3> QED BY <3>1, <3>2
  <2>2. ASSUME NEW i \in DOMAIN f.queue, NEW j \in DOMAIN f.queue, i < j
        PROVE  f.queue[i].req < f.queue[j].req
    <3>1. i # l BY <1>3, <2>2
    <3>2. i \in DOMAIN e.queue /\ f.queue[i].req = e.queue[i].req BY <1>4, <3>1 DEF SameWork
    <3>3. e.queue[i].req <= e.count /\ e.queue[i].req \in Nat
      BY <1>3, <3>2 DEF KeyInv, Ordered, Work
    <3>4. CASE j = l BY <1>3, <3>2, <3>3, <3>4
    <3>5. CASE j # l
      BY <1>4, <2>2, <3>2, <3>5 DEF KeyInv, Ordered, SameWork
    <3> QED BY <3>4, <3>5
  <2> QED BY <1>3, <2>1, <2>2 DEF KeyInv, Ordered
<1>7. \A i \in DOMAIN f.queue : f.queue[i].waiters =
         (IF i \in DOMAIN e.queue THEN e.queue[i].waiters ELSE {}) \union (IF i = l THEN {r} ELSE {})
  BY <1>4 DEF SameWork
<1>8. \A i \in DOMAIN e.queue : r \notin e.queue[i].waiters BY <1>5 DEF WaitsIn
<1>9. r \notin e.act.waiters BY <1>5 DEF WaitsIn
<1>10. OneWork(f)
  <2>1. OneWork(e) BY DEF KeyInv
  <2>2. \A i \in DOMAIN f.queue : f.queue[i].waiters \cap f.act.waiters = {}
    BY <1>7, <1>9, <2>1 DEF OneWork
  <2>3. \A i, j \in DOMAIN f.queue : i # j => f.queue[i].waiters \cap f.queue[j].waiters = {}
    BY <1>7, <1>8, <2>1 DEF OneWork
  <2> QED BY <2>2, <2>3 DEF OneWork
<1>11. \A q \in Request : g[q].live /\ g[q].key = k <=> WaitsIn(f, q)
  <2>1. \A q \in Request : WaitsIn(f, q) <=> WaitsIn(e, q) \/ q = r
    BY <1>7 DEF WaitsIn
  <2>2. \A q \in Request : h[q].live /\ h[q].key = k <=> WaitsIn(e, q) BY DEF KeyInv
  <2> QED BY <1>2, <2>1, <2>2
<1>12. ASSUME NEW w \in Work, Fits(w, h), r \notin w.waiters PROVE Fits(w, g)
  BY <1>2, <1>12 DEF Fits, Work
<1>13. Fits(f.act, g)
  BY <1>1, <1>9, <1>12, ShapeFacts DEF KeyInv
<1>14. ASSUME NEW i \in DOMAIN f.queue PROVE Fits(f.queue[i], g)
  <2>1. CASE i # l
    <3>1. e.queue[i] \in Work /\ Fits(e.queue[i], h) /\ r \notin e.queue[i].waiters
      BY <1>3, <1>4, <1>8, <2>1 DEF KeyInv
    <3>2. Fits(e.queue[i], g) BY <1>12, <3>1
    <3> QED BY <2>1, <3>2 DEF Fits, SameWork
  <2>2. CASE i = l /\ l \notin DOMAIN e.queue
    <3>1. g[r].order = f.queue[l].req /\ f.queue[l].req \in Nat BY <1>2, <1>3
    <3> QED BY <1>2, <2>2, <3>1 DEF Fits
  <2>3. CASE i = l /\ l \in DOMAIN e.queue
    <3>1. /\ Fits(e.queue[l], h) /\ e.queue[l].kind = "batch" /\ e.queue[l].req <= e.count
          /\ e.queue[l].req \in Nat /\ e.queue[l].waiters \subseteq Request
      BY <1>3, <2>3 DEF KeyInv, Ordered, Work
    <3>2. \A q \in e.queue[l].waiters : h[q].at = "update" /\ h[q].order <= e.queue[l].req
                                         /\ h[q].order \in Nat
      BY <3>1 DEF Fits, Handler
    <3>3. ASSUME NEW q \in f.queue[l].waiters
          PROVE  g[q].at = "update" /\ g[q].order <= f.queue[l].req
      <4>1. CASE q = r BY <1>2, <1>3, <2>3, <4>1
      <4>2. CASE q # r
        <5>1. q \in e.queue[l].waiters BY <2>3, <3>3, <4>2
        <5> QED BY <1>2, <1>3, <3>1, <3>2, <4>2, <5>1
      <4> QED BY <4>1, <4>2
    <3> QED BY <2>3, <3>3 DEF Fits
  <2> QED BY <2>1, <2>2, <2>3
<1>15. \A q \in Request : g[q].at = "stopping" /\ g[q].key = k =>
          f.act.kind = "barrier" /\ f.act.waiters = {q} /\ f.act.req = f.sent
  BY <1>2 DEF KeyInv
<1>16. ASSUME NEW q \in Request, g[q].key = k, g[q].order > 0
       PROVE  Covered(f, g, q)
  <2>1. CASE q = r
    <3>1. Carries(f.queue[l], g, r) BY <1>2, <1>3 DEF Carries
    <3> QED BY <2>1, <3>1 DEF Covered
  <2>2. CASE q # r
    <3>1. g[q] = h[q] BY <1>2, <2>2
    <3>2. Covered(e, h, q) BY <1>16, <3>1 DEF KeyInv
    <3>3. ASSUME NEW i \in DOMAIN e.queue, Carries(e.queue[i], h, q)
          PROVE  Carries(f.queue[i], g, q)
      <4>1. CASE i # l BY <3>1, <3>3, <4>1 DEF Carries, SameWork
      <4>2. CASE i = l
        <5>1. e.queue[l].req <= e.count /\ e.queue[l].req \in Nat /\ h[q].order \in Nat
          BY <1>3, <3>3, <4>2 DEF KeyInv, Ordered, Work, Handler
        <5> QED BY <1>3, <3>1, <3>3, <4>2, <5>1 DEF Carries
      <4> QED BY <4>1, <4>2
    <3>4. CASE \E i \in DOMAIN e.queue : Carries(e.queue[i], h, q)
      BY <3>3, <3>4 DEF Covered
    <3> QED BY <3>1, <3>2, <3>4 DEF Covered, Carries
  <2> QED BY <2>1, <2>2
<1>17. f.waiters = Cardinality(LiveOf(g, k))
  <2>1. LiveOf(g, k) = LiveOf(h, k) \union {r} /\ r \notin LiveOf(h, k)
    BY <1>2 DEF LiveOf
  <2>2. LiveOf(h, k) \in SUBSET Request BY DEF LiveOf
  <2> QED BY <2>1, <2>2, OneMore DEF KeyInv
<1> QED BY <1>6, <1>10, <1>11, <1>13, <1>14, <1>15, <1>16, <1>17 DEF KeyInv

\* Requests S stop waiting: their outcome is published, their client is gone,
\* or their barrier is released with the active work (dispatchBatch,
\* resolveCanceledWaiter, releaseBarrier).  Where the active work is over, it
\* was sent, or it was the barrier of one that gives up.
Leave(e, f, h, g, S) ==
  /\ \A r \in S : /\ WaitsIn(e, r) /\ ~g[r].live /\ g[r].at # "stopping"
                  /\ g[r].key = h[r].key /\ g[r].order \in {0, h[r].order}
  /\ \A r \in Request \ S : g[r] = h[r]
  /\ f.sent = e.sent /\ f.last = e.last /\ f.count = e.count
  /\ f.waiters = e.waiters - Cardinality(S)
  /\ DOMAIN f.queue = DOMAIN e.queue
  /\ \A i \in DOMAIN e.queue :
       /\ f.queue[i].kind = e.queue[i].kind /\ f.queue[i].req = e.queue[i].req
       /\ f.queue[i].waiters = e.queue[i].waiters \ S
       /\ e.queue[i].kind = "barrier" => e.queue[i].waiters \cap S = {}
  /\ \/ /\ f.act = NoWork /\ e.act.waiters \subseteq S
        /\ e.act.kind = "batch" \/ \A r \in S : g[r].order = 0 \/ e.sent >= h[r].order
     \/ /\ f.act = [e.act EXCEPT !.waiters = e.act.waiters \ S]
        /\ e.act.kind = "barrier" => e.act.waiters \cap S = {}

LEMMA LeaveKeeps ==
  ASSUME NEW e, NEW h \in [Request -> Handler], NEW g \in [Request -> Handler],
         NEW k \in Key, KeyInv(e, h, k),
         NEW S \in SUBSET Request, NEW f \in EntryShape, Leave(e, f, h, g, S)
  PROVE  KeyInv(f, g, k)
<1> USE DEF Leave
<1>1. e \in EntryShape BY DEF KeyInv
<1>2. /\ e.act \in Work /\ f.act \in Work /\ e.sent \in Nat /\ e.last \in Nat
      /\ \A i \in DOMAIN e.queue : e.queue[i] \in Work
      /\ \A i \in DOMAIN f.queue : f.queue[i] \in Work
  BY <1>1, ShapeFacts
<1>3. f.act.waiters = e.act.waiters \ S
  BY <1>2, NoWorkFacts DEF Work
<1>4. f.act = NoWork \/ (f.act.kind = e.act.kind /\ f.act.req = e.act.req)
  BY <1>2 DEF Work
<1>5. Ordered(f)
  <2>1. /\ f.act = NoWork \/ (f.act.kind # "none" /\ f.act.req >= f.sent)
        /\ f.act.kind = "batch" => f.act.req = f.sent
    <3>1. CASE e.act = NoWork
      <4>1. e.act.waiters \ S = {} BY <3>1, NoWorkFacts
      <4>2. [e.act EXCEPT !.waiters = @ \ S] = [NoWork EXCEPT !.waiters = {}] BY <3>1, <4>1
      <4>3. f.act = NoWork BY <4>2, NoWorkUnchanged
      <4> QED BY <4>3, NoWorkFacts
    <3>2. CASE e.act # NoWork BY <1>4, <3>2, NoWorkFacts DEF KeyInv, Ordered
    <3> QED BY <3>1, <3>2
  <2>2. f.act.req <= e.count /\ \A i \in DOMAIN e.queue : f.act.req < e.queue[i].req
    <3>1. CASE f.act = NoWork
      <4>1. \A i \in DOMAIN e.queue : e.queue[i].req \in Nat /\ e.sent < e.queue[i].req
        BY <1>2 DEF KeyInv, Ordered, Work
      <4> QED BY <1>1, <1>2, <3>1, <4>1, NoWorkFacts, ShapeFacts
    <3>2. CASE f.act.req = e.act.req BY <3>2 DEF KeyInv, Ordered
    <3> QED BY <1>4, <3>1, <3>2
  <2> QED BY <2>1, <2>2 DEF KeyInv, Ordered
<1>6. OneWork(f) BY <1>3 DEF KeyInv, OneWork
<1>7. \A r \in Request : WaitsIn(f, r) <=> WaitsIn(e, r) /\ r \notin S
  BY <1>3 DEF WaitsIn
<1>8. \A r \in Request : g[r].live /\ g[r].key = k <=> WaitsIn(f, r)
  <2>1. \A r \in Request : h[r].live /\ h[r].key = k <=> WaitsIn(e, r) BY DEF KeyInv
  <2> QED BY <1>7, <2>1
<1>9. ASSUME NEW v \in Work, NEW w \in Work, Fits(v, h), w.kind = v.kind, w.req = v.req,
             w.waiters = v.waiters \ S, v.kind = "barrier" => v.waiters \cap S = {}
      PROVE  Fits(w, g)
  <2>1. CASE w.kind = "batch"
    <3>1. \A r \in w.waiters : r \in Request \ S BY <1>9 DEF Work
    <3> QED BY <1>9, <2>1, <3>1 DEF Fits
  <2>2. CASE w.kind = "barrier"
    <3>1. w.waiters = v.waiters BY <1>9, <2>2
    <3> QED BY <1>9, <2>2, <3>1 DEF Fits
  <2>3. CASE w.kind = "none" BY <1>9, <2>3 DEF Fits
  <2> QED BY <2>1, <2>2, <2>3 DEF Work
<1>10. Fits(f.act, g)
  <2>1. CASE f.act = NoWork BY <2>1, NoWorkFacts DEF Fits
  <2>2. CASE f.act = [e.act EXCEPT !.waiters = @ \ S]
             /\ (e.act.kind = "barrier" => e.act.waiters \cap S = {})
    <3>1. f.act.kind = e.act.kind /\ f.act.req = e.act.req BY <1>2, <2>2 DEF Work
    <3> QED BY <1>2, <1>3, <1>9, <2>2, <3>1 DEF KeyInv
  <2> QED BY <2>1, <2>2
<1>11. ASSUME NEW i \in DOMAIN f.queue PROVE Fits(f.queue[i], g)
  BY <1>2, <1>9 DEF KeyInv
<1>12. ASSUME NEW r \in Request, g[r].at = "stopping", g[r].key = k
       PROVE  f.act.kind = "barrier" /\ f.act.waiters = {r} /\ f.act.req = f.sent
  <2>1. r \notin S /\ g[r] = h[r] BY <1>12
  <2>2. e.act.kind = "barrier" /\ e.act.waiters = {r} /\ e.act.req = e.sent
    BY <1>12, <2>1 DEF KeyInv
  <2>3. f.act = [e.act EXCEPT !.waiters = @ \ S] BY <2>1, <2>2
  <2> QED BY <1>2, <1>3, <2>1, <2>2, <2>3 DEF Work
<1>13. ASSUME NEW r \in Request, g[r].key = k, g[r].order > 0
       PROVE  Covered(f, g, r)
  <2>1. h[r].key = k /\ h[r].order = g[r].order BY <1>13
  <2>2. Covered(e, h, r) BY <1>13, <2>1 DEF KeyInv
  <2>3. ASSUME NEW i \in DOMAIN e.queue, Carries(e.queue[i], h, r)
        PROVE  Carries(f.queue[i], g, r)
    <3>1. CASE e.queue[i].kind = "batch" BY <2>1, <2>3, <3>1 DEF Carries
    <3>2. CASE e.queue[i].kind # "batch"
      <4>1. e.queue[i].kind = "barrier" /\ e.queue[i].waiters = {r}
        BY <1>2, <2>3, <3>2 DEF Carries, KeyInv, Ordered, Work
      <4>2. f.queue[i].waiters = {r} BY <4>1
      <4> QED BY <2>1, <2>3, <4>2 DEF Carries
    <3> QED BY <3>1, <3>2
  <2>4. CASE \E i \in DOMAIN e.queue : Carries(e.queue[i], h, r)
    BY <2>3, <2>4 DEF Covered
  <2>5. CASE Carries(e.act, h, r) /\ e.act.kind = "batch"
    <3>1. e.act.req = e.sent BY <2>5 DEF KeyInv, Ordered
    <3> QED BY <2>1, <2>5, <3>1 DEF Covered, Carries
  <2>6. CASE Carries(e.act, h, r) /\ e.act.kind # "batch"
    <3>1. e.act.waiters = {r} BY <2>6 DEF Carries
    <3>2. CASE f.act = NoWork
      <4>2. CASE e.act.waiters \subseteq S
        <5>1. r \in S BY <3>1, <4>2
        <5>2. e.act.kind # "none"
          <6>1. e.act = NoWork => e.act.waiters = {} BY NoWorkFacts
          <6> QED BY <3>1, <6>1 DEF KeyInv, Ordered
        <5>3. e.act.kind = "barrier" BY <1>2, <2>6, <5>2 DEF Work
        <5>4. g[r].order = 0 \/ e.sent >= h[r].order BY <2>6, <3>1, <5>1, <5>3
        <5> QED BY <1>13, <2>1, <5>4 DEF Covered
      <4>3. CASE ~(e.act.waiters \subseteq S)
        <5>1. f.act.waiters # {} BY <1>3, <4>3
        <5> QED BY <3>2, <5>1, NoWorkFacts
      <4> QED BY <4>2, <4>3
    <3>3. CASE f.act # NoWork
      <4>1. f.act.req = e.act.req BY <1>4, <3>3
      <4>2. e.act.kind = "barrier"
        <5>1. e.act = NoWork => e.act.waiters = {} BY NoWorkFacts
        <5>2. e.act.kind # "none" BY <3>1, <5>1 DEF KeyInv, Ordered
        <5> QED BY <1>2, <2>6, <5>2 DEF Work
      <4>3. f.act.waiters = {r} BY <1>3, <3>1, <3>3, <4>2
      <4> QED BY <2>1, <2>6, <4>1, <4>3 DEF Covered, Carries
    <3> QED BY <3>2, <3>3
  <2>7. CASE e.sent >= h[r].order BY <2>1, <2>7 DEF Covered
  <2> QED BY <2>2, <2>4, <2>5, <2>6, <2>7 DEF Covered
<1>14. f.waiters = Cardinality(LiveOf(g, k))
  <2>1. \A r \in S : h[r].live /\ h[r].key = k BY DEF KeyInv
  <2>2. LiveOf(g, k) = LiveOf(h, k) \ S BY <2>1 DEF LiveOf
  <2>3. LiveOf(h, k) \in SUBSET Request /\ S \in SUBSET LiveOf(h, k) BY <2>1 DEF LiveOf
  <2> QED BY <2>2, <2>3, SomeLess DEF KeyInv
<1> QED BY <1>5, <1>6, <1>8, <1>10, <1>11, <1>12, <1>13, <1>14 DEF KeyInv

LEMMA RemoveAtFacts ==
  \A s \in Seq(Work) : \A i \in 1..Len(s) :
    /\ RemoveAt(s, i) \in Seq(Work) /\ Len(RemoveAt(s, i)) = Len(s) - 1
    /\ \A j \in 1..(Len(s) - 1) : RemoveAt(s, i)[j] = s[IF j < i THEN j ELSE j + 1]
<1> TAKE s \in Seq(Work)
<1> TAKE i \in 1..Len(s)
<1> DEFINE T == Work
<1> HIDE DEF T
<1>0. s \in Seq(T) BY DEF T
<1> DEFINE n == Len(s)  a == SubSeq(s, 1, i - 1)  b == SubSeq(s, i + 1, n)
<1>1. n \in Nat /\ i \in 1..n /\ \A j \in 1..n : s[j] \in T
  BY <1>0, LenProperties, ElementOfSeq
<1>2. a \in Seq(T) /\ Len(a) = i - 1 /\ \A j \in 1..(i - 1) : a[j] = s[j]
  BY <1>0, <1>1, SubSeqProperties
<1>3. b \in Seq(T) /\ Len(b) = n - i /\ \A j \in 1..(n - i) : b[j] = s[i + j]
  BY <1>0, <1>1, SubSeqProperties
<1>4. RemoveAt(s, i) = a \o b BY DEF RemoveAt
<1> HIDE DEF a, b, n
<1>5. /\ a \o b \in Seq(T) /\ Len(a \o b) = (i - 1) + (n - i)
      /\ \A j \in 1..((i - 1) + (n - i)) :
           (a \o b)[j] = IF j <= i - 1 THEN a[j] ELSE b[j - (i - 1)]
  <2>1. /\ a \o b \in Seq(T) /\ Len(a \o b) = Len(a) + Len(b)
        /\ \A j \in 1..(Len(a) + Len(b)) :
             (a \o b)[j] = IF j <= Len(a) THEN a[j] ELSE b[j - Len(a)]
    BY <1>2, <1>3, ConcatProperties
  <2> QED BY <1>2, <1>3, <2>1
<1>6. (i - 1) + (n - i) = n - 1 BY <1>1
<1>7. ASSUME NEW j \in 1..(n - 1) PROVE (a \o b)[j] = s[IF j < i THEN j ELSE j + 1]
  <2>1. CASE j < i BY <1>1, <1>2, <1>5, <1>6, <2>1
  <2>2. CASE ~(j < i)
    <3>1. j - (i - 1) \in 1..(n - i) /\ i + (j - (i - 1)) = j + 1 /\ ~(j <= i - 1)
      BY <1>1, <2>2
    <3> QED BY <1>3, <1>5, <1>6, <2>2, <3>1
  <2> QED BY <2>1, <2>2
<1> QED BY <1>4, <1>5, <1>6, <1>7 DEF n, T

Requeued(e, q, n) == [e EXCEPT !.queue = q, !.waiters = n]

LEMMA RequeuedShape ==
  ASSUME NEW e \in EntryShape, NEW q \in Seq(Work), NEW n \in Int
  PROVE  /\ Requeued(e, q, n) \in EntryShape
         /\ Requeued(e, q, n).queue = q /\ Requeued(e, q, n).waiters = n
         /\ Requeued(e, q, n).act = e.act /\ Requeued(e, q, n).sent = e.sent
         /\ Requeued(e, q, n).last = e.last
         /\ Requeued(e, q, n).count = e.count /\ Requeued(e, q, n).there = e.there
<1> DEFINE f == [e EXCEPT !.queue = q]
<1>1. /\ f \in EntryShape /\ f.queue = q /\ f.act = e.act /\ f.sent = e.sent /\ f.last = e.last
      /\ f.count = e.count /\ f.there = e.there
  BY DEF EntryShape
<1>2. Requeued(e, q, n) = [f EXCEPT !.waiters = n] BY DEF Requeued
<1> HIDE DEF f
<1> QED BY <1>1, <1>2 DEF EntryShape

\* The barrier at place i goes, with the Stopped that waited for it; all others
\* keep their order (removeBarrierLocked).
LEMMA RemoveKeeps ==
  ASSUME NEW e, NEW h \in [Request -> Handler], NEW g \in [Request -> Handler],
         NEW k \in Key, KeyInv(e, h, k), NEW r \in Request,
         ~g[r].live, g[r].order = 0, g[r].at # "stopping", g[r].key = k,
         \A p \in Request \ {r} : g[p] = h[p],
         NEW i \in DOMAIN e.queue, e.queue[i].kind # "batch", e.queue[i].waiters = {r}
  PROVE  /\ KeyInv(Removed(e, i), g, k)
         /\ Removed(e, i).sent = e.sent /\ Removed(e, i).last = e.last
         /\ Removed(e, i).there = e.there
         /\ Removed(e, i).waiters = e.waiters - 1
<1> DEFINE q == RemoveAt(e.queue, i)
           f == Removed(e, i)
           n == Len(e.queue)
           old(j) == IF j < i THEN j ELSE j + 1
<1>1. /\ e \in EntryShape /\ e.queue \in Seq(Work) /\ n \in Nat /\ DOMAIN e.queue = 1..n
      /\ \A j \in DOMAIN e.queue : e.queue[j] \in Work
      /\ i \in 1..n /\ e.waiters \in Int /\ e.act \in Work
  BY ShapeFacts DEF KeyInv
<1>2. /\ q \in Seq(Work) /\ Len(q) = n - 1
      /\ \A j \in 1..(n - 1) : q[j] = e.queue[old(j)]
  <2>1. i \in 1..Len(e.queue) /\ e.queue \in Seq(Work) BY <1>1
  <2>2. /\ RemoveAt(e.queue, i) \in Seq(Work) /\ Len(RemoveAt(e.queue, i)) = Len(e.queue) - 1
        /\ \A j \in 1..(Len(e.queue) - 1) :
             RemoveAt(e.queue, i)[j] = e.queue[IF j < i THEN j ELSE j + 1]
    BY <2>1, RemoveAtFacts
  <2> QED BY <2>2
<1>3. /\ f \in EntryShape /\ f.queue = q /\ f.act = e.act /\ f.sent = e.sent /\ f.last = e.last
      /\ f.count = e.count /\ f.there = e.there /\ f.waiters = e.waiters - 1
  <2> DEFINE m == e.waiters - 1
  <2>1. m \in Int /\ e \in EntryShape /\ q \in Seq(Work) BY <1>1, <1>2
  <2>2. f = Requeued(e, q, m) BY DEF Removed, Requeued
  <2>3. m = e.waiters - 1 OBVIOUS
  <2> HIDE DEF f, q, m
  <2> QED BY <2>1, <2>2, <2>3, RequeuedShape
<1>4. /\ DOMAIN f.queue = 1..(n - 1)
      /\ \A j \in DOMAIN f.queue : f.queue[j] = e.queue[old(j)]
      /\ \A j \in DOMAIN f.queue : old(j) \in DOMAIN e.queue /\ old(j) # i
      /\ \A j, l \in DOMAIN f.queue : (j < l => old(j) < old(l)) /\ (j # l => old(j) # old(l))
      /\ \A j \in DOMAIN e.queue \ {i} : \E l \in DOMAIN f.queue : old(l) = j
  <2>1. DOMAIN f.queue = 1..(n - 1)
    <3>1. DOMAIN q = 1..Len(q) BY <1>2, LenProperties
    <3> QED BY <1>2, <1>3, <3>1
  <2>2. \A j \in DOMAIN e.queue \ {i} : \E l \in DOMAIN f.queue : old(l) = j
    <3> TAKE j \in DOMAIN e.queue \ {i}
    <3>1. CASE j < i BY <1>1, <2>1, <3>1
    <3>2. CASE j > i
      <4>1. j - 1 \in DOMAIN f.queue /\ old(j - 1) = j BY <1>1, <2>1, <3>2
      <4> QED BY <4>1
    <3> QED BY <1>1, <3>1, <3>2
  <2>3. \A j \in DOMAIN f.queue : f.queue[j] = e.queue[old(j)] BY <1>2, <1>3, <2>1
  <2>4. \A j \in DOMAIN f.queue : old(j) \in DOMAIN e.queue /\ old(j) # i BY <1>1, <2>1
  <2>5. \A j, l \in DOMAIN f.queue : (j < l => old(j) < old(l)) /\ (j # l => old(j) # old(l))
    BY <1>1, <2>1
  <2> QED BY <2>1, <2>2, <2>3, <2>4, <2>5
<1>5. ~g[r].live /\ g[r].order = 0 /\ g[r].at # "stopping" /\ \A p \in Request \ {r} : g[p] = h[p]
  OBVIOUS
<1> HIDE DEF f, q, n, old
<1>6. Ordered(f) BY <1>3, <1>4 DEF KeyInv, Ordered
<1>7. OneWork(f) BY <1>3, <1>4 DEF KeyInv, OneWork
<1>8. ASSUME NEW p \in Request PROVE WaitsIn(f, p) <=> WaitsIn(e, p) /\ p # r
  <2>1. r \notin e.act.waiters /\ \A j \in DOMAIN e.queue \ {i} : r \notin e.queue[j].waiters
    BY DEF KeyInv, OneWork
  <2>2. ASSUME WaitsIn(f, p) PROVE WaitsIn(e, p) /\ p # r
    BY <1>3, <1>4, <2>1, <2>2 DEF WaitsIn
  <2>3. ASSUME WaitsIn(e, p), p # r PROVE WaitsIn(f, p)
    <3>1. CASE p \in e.act.waiters BY <1>3, <3>1 DEF WaitsIn
    <3>2. ASSUME NEW j \in DOMAIN e.queue, p \in e.queue[j].waiters PROVE WaitsIn(f, p)
      <4>1. j # i BY <2>3, <3>2
      <4>2. PICK l \in DOMAIN f.queue : old(l) = j BY <1>4, <4>1
      <4> QED BY <1>4, <3>2, <4>2 DEF WaitsIn
    <3> QED BY <2>3, <3>1, <3>2 DEF WaitsIn
  <2> QED BY <2>2, <2>3
<1>9. \A p \in Request : g[p].live /\ g[p].key = k <=> WaitsIn(f, p)
  <2>1. \A p \in Request : h[p].live /\ h[p].key = k <=> WaitsIn(e, p) BY DEF KeyInv
  <2> QED BY <1>5, <1>8, <2>1
<1>10. ASSUME NEW w \in Work, Fits(w, h), r \notin w.waiters PROVE Fits(w, g)
  BY <1>5, <1>10 DEF Fits, Work
<1>11. Fits(f.act, g)
  BY <1>1, <1>3, <1>10 DEF KeyInv, OneWork
<1>12. ASSUME NEW j \in DOMAIN f.queue PROVE Fits(f.queue[j], g)
  <2>1. r \notin e.queue[old(j)].waiters BY <1>4 DEF KeyInv, OneWork
  <2>2. Fits(e.queue[old(j)], h) BY <1>4 DEF KeyInv
  <2> QED BY <1>1, <1>4, <1>10, <2>1, <2>2
<1>13. \A p \in Request : g[p].at = "stopping" /\ g[p].key = k =>
          f.act.kind = "barrier" /\ f.act.waiters = {p} /\ f.act.req = f.sent
  BY <1>3, <1>5 DEF KeyInv
<1>14. ASSUME NEW p \in Request, g[p].key = k, g[p].order > 0
       PROVE  Covered(f, g, p)
  <2>1. p # r /\ g[p] = h[p] BY <1>5, <1>14
  <2>2. Covered(e, h, p) BY <1>14, <2>1 DEF KeyInv
  <2>3. ASSUME NEW j \in DOMAIN e.queue, Carries(e.queue[j], h, p)
        PROVE  \E l \in DOMAIN f.queue : Carries(f.queue[l], g, p)
    <3>1. j # i BY <2>1, <2>3 DEF Carries
    <3>2. PICK l \in DOMAIN f.queue : old(l) = j BY <1>4, <3>1
    <3>3. Carries(f.queue[l], g, p) BY <1>4, <2>1, <2>3, <3>2 DEF Carries
    <3> QED BY <3>3
  <2>4. CASE \E j \in DOMAIN e.queue : Carries(e.queue[j], h, p)
    BY <2>3, <2>4 DEF Covered
  <2> QED BY <1>3, <2>1, <2>2, <2>4 DEF Covered, Carries
<1>15. f.waiters = Cardinality(LiveOf(g, k))
  <2>1. h[r].live /\ h[r].key = k BY DEF KeyInv, WaitsIn
  <2>2. LiveOf(g, k) = LiveOf(h, k) \ {r} BY <1>5 DEF LiveOf
  <2>3. LiveOf(h, k) \in SUBSET Request /\ {r} \in SUBSET LiveOf(h, k) BY <2>1 DEF LiveOf
  <2>4. Cardinality({r}) = 1 BY FS_Singleton
  <2>5. e.waiters = Cardinality(LiveOf(h, k)) BY DEF KeyInv
  <2>6. Cardinality(LiveOf(h, k) \ {r}) = Cardinality(LiveOf(h, k)) - Cardinality({r})
    BY <2>3, SomeLess
  <2> QED BY <1>3, <2>2, <2>4, <2>5, <2>6
<1>16. KeyInv(f, g, k)
  BY <1>3, <1>6, <1>7, <1>9, <1>11, <1>12, <1>13, <1>14, <1>15 DEF KeyInv
<1> QED BY <1>3, <1>16 DEF f
-----------------------------------------------------------------------------
(* Putting a step together.                                                  *)

Scalars ==
  /\ state \in {"open", "quiescing", "draining", "drained", "closed"}
  /\ cycle \in {"none", "running", "ok", "failed"}
  /\ stop \in {"serving", "draining", "closing", "closed"}
  /\ drainErr \in BOOLEAN /\ failedInDrain \in BOOLEAN
  /\ now \in 0..MaxTime /\ drains \in 0..MaxDrain /\ fails \in 0..MaxFail

Entries(E, h) ==
  /\ E = [k \in Key |-> E[k]]
  /\ \A k \in Key : KeyInv(E[k], h, k) /\ E[k].waiters <= MaxWaiters

Forward == \A k \in Key : Onward(entry[k], entry'[k])

LEMMA EntriesTyped ==
  ASSUME NEW E, NEW h, Entries(E, h)
  PROVE  E \in [Key -> Entry]
<1> SUFFICES ASSUME NEW k \in Key PROVE E[k] \in Entry BY DEF Entries
<1>1. E[k] \in EntryShape /\ E[k].waiters = Cardinality(LiveOf(h, k)) /\ E[k].waiters <= MaxWaiters
  BY DEF Entries, KeyInv
<1>2. LiveOf(h, k) \in SUBSET Request BY DEF LiveOf
<1>3. E[k].waiters \in Nat /\ MaxWaiters \in Nat BY <1>1, <1>2, CountsAreNumbers, CoalescerAssumption
<1>4. E[k].waiters \in 0..MaxWaiters BY <1>1, <1>3
<1> QED BY <1>1, <1>4 DEF EntryShape, Entry

LEMMA Parts ==
  ASSUME IInv
  PROVE  /\ req \in [Request -> Handler] /\ entry \in [Key -> Entry] /\ Entries(entry, req)
         /\ Scalars
         /\ \A k \in Key : entry[k] \in EntryShape /\ KeyInv(entry[k], req, k)
<1>1. req \in [Request -> Handler] /\ entry \in [Key -> Entry] /\ Scalars
  BY DEF IInv, TypeOK, Scalars
<1>2. \A k \in Key : KeyInv(entry[k], req, k) BY DEF IInv
<1>3. ASSUME NEW k \in Key PROVE entry[k].waiters <= MaxWaiters
  <2>1. entry[k] \in Entry BY <1>1
  <2>2. entry[k].waiters \in 0..MaxWaiters BY <2>1 DEF Entry
  <2> QED BY <2>2, CoalescerAssumption
<1>4. entry = [k \in Key |-> entry[k]] BY <1>1
<1> QED BY <1>1, <1>2, <1>3, <1>4 DEF Entries, KeyInv

LEMMA Assembled ==
  ASSUME req' \in [Request -> Handler], Entries(entry', req'), Scalars', HandlersOK', Counts',
         DrainState', AnsweredByOwnOrLater'
  PROVE  IInv'
<1>1. entry' \in [Key -> Entry] BY EntriesTyped
<1>2. globalWaiters' \in Nat
  <2>1. {r \in Request : req'[r].live} \in SUBSET Request OBVIOUS
  <2> QED BY <2>1, CountsAreNumbers DEF Counts
<1>3. globalKeys' \in 0..Cardinality(Key)
  <2> DEFINE S == {k \in Key : entry'[k].there}
  <2>1. S \subseteq Key OBVIOUS
  <2>2. IsFiniteSet(S) /\ Cardinality(S) <= Cardinality(Key)
    BY <2>1, IdentitiesAssumption, FS_Subset
  <2>3. Cardinality(S) \in Nat /\ Cardinality(Key) \in Nat
    BY <2>2, IdentitiesAssumption, FS_CardinalityType
  <2>4. globalKeys' = Cardinality(S) BY DEF Counts
  <2> HIDE DEF S
  <2> QED BY <2>2, <2>3, <2>4
<1>4. TypeOK' BY <1>1, <1>2, <1>3 DEF TypeOK, Scalars
<1>5. \A k \in Key : KeyInv(entry'[k], req', k) BY DEF Entries
<1> QED BY <1>4, <1>5 DEF IInv

\* A step that changes one entry, and of the requests only those of its key.
LEMMA OneEntry ==
  ASSUME NEW h \in [Request -> Handler], NEW g \in [Request -> Handler], NEW E, Entries(E, h),
         NEW k \in Key, NEW e, KeyInv(e, g, k), e.waiters <= MaxWaiters, Onward(E[k], e),
         NEW F, F = [E EXCEPT ![k] = e],
         \A j \in Key \ {k} : SameFor(h, g, j)
  PROVE  Entries(F, g) /\ \A j \in Key : Onward(E[j], F[j])
<1>1. F[k] = e /\ (\A j \in Key \ {k} : F[j] = E[j]) /\ F = [j \in Key |-> F[j]]
  BY DEF Entries
<1>2. ASSUME NEW j \in Key \ {k}
      PROVE  KeyInv(F[j], g, j) /\ F[j].waiters <= MaxWaiters /\ Onward(E[j], F[j])
  <2>1. F[j] = E[j] /\ KeyInv(E[j], h, j) /\ E[j].waiters <= MaxWaiters BY <1>1 DEF Entries
  <2>2. KeyInv(E[j], g, j) BY <2>1, OthersKeep
  <2>3. E[j].sent \in Nat /\ E[j].last \in Nat BY <2>1, ShapeFacts DEF KeyInv
  <2> QED BY <2>1, <2>2, <2>3 DEF Onward
<1> QED BY <1>1, <1>2 DEF Entries

\* A step that changes no entry.
LEMMA NoEntryChanges ==
  ASSUME NEW h \in [Request -> Handler], NEW g \in [Request -> Handler], NEW E, Entries(E, h),
         \A j \in Key : SameFor(h, g, j)
  PROVE  Entries(E, g) /\ \A j \in Key : Onward(E[j], E[j])
<1>1. ASSUME NEW j \in Key PROVE KeyInv(E[j], g, j) /\ Onward(E[j], E[j])
  <2>1. KeyInv(E[j], h, j) BY DEF Entries
  <2>2. KeyInv(E[j], g, j) BY <2>1, OthersKeep
  <2>3. E[j].sent \in Nat /\ E[j].last \in Nat BY <2>1, ShapeFacts DEF KeyInv
  <2> QED BY <2>2, <2>3 DEF Onward
<1> QED BY <1>1 DEF Entries

LEMMA SameDrain ==
  ASSUME IInv, UNCHANGED <<state, cycle, stop, drainErr, failedInDrain>>,
         state \in {"draining", "drained", "closed"} => Held' = {},
         state \in {"drained", "closed"} => \A k \in Key : Idle(entry'[k]),
         state = "closed" => \A k \in Key : ~entry'[k].there
  PROVE  DrainState'
BY DEF IInv, DrainState, Held, Idle, Busy

LEMMA ChangedDrain ==
  ASSUME IInv, NEW E, NEW s, NEW err \in BOOLEAN, NEW held, CompleteDrain(E, s, err, held),
         s = state \/ (s = "draining" /\ state = "quiescing"),
         state \notin {"drained", "closed"}, s = "draining" => Held' = {},
         cycle = "running" => failedInDrain' = err, drainErr' = err, stop' = stop
  PROVE  /\ DrainState' /\ entry' = E
         /\ state' \in {"open", "quiescing", "draining", "drained", "closed"}
         /\ cycle' \in {"none", "running", "ok", "failed"}
<1>1. Scalars /\ DrainState BY Parts DEF IInv
<1>2. CASE s = "draining" /\ cycle = "running" /\ held = {} /\ \A k \in Key : Idle(E[k])
  <2>1. /\ entry' = E /\ cycle' = (IF err THEN "failed" ELSE "ok")
        /\ state' = (IF err THEN "open" ELSE "drained")
    BY <1>2 DEF CompleteDrain
  <2>2. stop = "draining" BY <1>1, <1>2 DEF DrainState, Scalars
  <2>3. \A k \in Key : Idle(entry'[k]) BY <1>2, <2>1
  <2> QED BY <1>1, <1>2, <2>1, <2>2, <2>3 DEF DrainState, Held, Idle, Busy
<1>3. CASE ~(s = "draining" /\ cycle = "running" /\ held = {} /\ \A k \in Key : Idle(E[k]))
  <2>1. entry' = E /\ state' = s /\ cycle' = cycle BY <1>3 DEF CompleteDrain
  <2> QED BY <1>1, <2>1 DEF DrainState, Scalars, Held, Idle, Busy
<1> QED BY <1>2, <1>3

-----------------------------------------------------------------------------
(* The operations: each keeps the invariant, and what went upstream for a    *)
(* key never goes back.                                                      *)

Kept == IInv' /\ Forward

\* The handler of r goes on, and no work comes or goes.
LEMMA HandlerMoves ==
  ASSUME IInv, NEW r \in Request, NEW x \in Handler, req' = [req EXCEPT ![r] = x],
         UNCHANGED <<state, cycle, drainErr, stop, globalKeys, globalWaiters, now,
                     drains, fails, failedInDrain>>,
         HandlerOK(x), x.live = req[r].live, x.order = req[r].order, x.answer = req[r].answer,
         x.held => req[r].held \/ state = "open",
         Entries(entry', req'), Forward,
         \A k \in Key : /\ entry'[k].there = entry[k].there /\ entry'[k].act = entry[k].act
                        /\ entry'[k].queue = entry[k].queue
  PROVE  Kept
<1>1. /\ req \in [Request -> Handler] /\ Scalars
      /\ HandlersOK /\ Counts /\ DrainState /\ AnsweredByOwnOrLater
  BY Parts DEF IInv
<1>2. req' \in [Request -> Handler] /\ req'[r] = x /\ \A q \in Request \ {r} : req'[q] = req[q]
  BY <1>1
<1>3. HandlersOK' BY <1>1, <1>2 DEF HandlersOK
<1>4. Counts'
  <2>1. {q \in Request : req'[q].live} = {q \in Request : req[q].live} BY <1>2
  <2>2. {k \in Key : entry'[k].there} = {k \in Key : entry[k].there} OBVIOUS
  <2> QED BY <1>1, <2>1, <2>2 DEF Counts
<1>5. DrainState'
  <2>1. state \in {"draining", "drained", "closed"} => Held' = {}
    <3>1. Held' \subseteq Held \/ state = "open" BY <1>2 DEF Held
    <3> QED BY <1>1, <3>1 DEF DrainState
  <2> QED BY <1>1, <2>1, SameDrain DEF DrainState, Idle, Busy
<1>6. AnsweredByOwnOrLater'
  BY <1>1, <1>2 DEF AnsweredByOwnOrLater
<1>7. Scalars' BY <1>1 DEF Scalars
<1> QED BY <1>2, <1>3, <1>4, <1>5, <1>6, <1>7, Assembled DEF Kept

\* The handler of r goes on, which changes no entry.
LEMMA HandlerStep ==
  ASSUME IInv, NEW r \in Request, NEW x \in Handler, req' = [req EXCEPT ![r] = x],
         UNCHANGED <<entry, state, cycle, drainErr, stop, globalKeys, globalWaiters, now,
                     drains, fails, failedInDrain>>,
         HandlerOK(x), SameConcern(req, req', r), x.answer = req[r].answer,
         x.held => req[r].held \/ state = "open"
  PROVE  Kept
<1>1. req \in [Request -> Handler] /\ Entries(entry, req) BY Parts
<1>2. req' \in [Request -> Handler] /\ req'[r] = x /\ \A q \in Request \ {r} : req'[q] = req[q]
  BY <1>1
<1>3. \A j \in Key : SameFor(req, req', j)
  <2>1. \A q \in Request : SameConcern(req, req', q) BY <1>2 DEF SameConcern
  <2> QED BY <2>1 DEF SameFor
<1>4. Entries(entry', req') /\ Forward
  BY <1>1, <1>2, <1>3, NoEntryChanges DEF Forward
<1>5. x.live = req[r].live /\ x.order = req[r].order BY <1>2 DEF SameConcern
<1> QED BY <1>4, <1>5, HandlerMoves

LEMMA BeginIngressKeeps ==
  ASSUME IInv, NEW r \in Request, BeginIngress(r)
  PROVE  Kept
<1> DEFINE x == IF state = "open" THEN [req[r] EXCEPT !.at = "admitted", !.held = TRUE]
                ELSE [req[r] EXCEPT !.at = "done"]
<1>1. req[r] \in Handler /\ HandlerOK(req[r]) /\ req[r].at = "idle"
  BY Parts DEF IInv, HandlersOK, BeginIngress
<1>2. req' = [req EXCEPT ![r] = x] BY DEF BeginIngress
<1>3. CASE state = "open"
  <2>1. /\ x \in Handler /\ x.at = "admitted" /\ x.held /\ x.live = req[r].live
        /\ x.key = req[r].key /\ x.order = req[r].order /\ x.answer = req[r].answer
    BY <1>1, <1>3 DEF Handler
  <2> HIDE DEF x
  <2>2. req'[r] = x BY <1>2, Parts
  <2>3. HandlerOK(x) /\ SameConcern(req, req', r)
    BY <1>1, <2>1, <2>2 DEF HandlerOK, SameConcern
  <2> QED BY <1>2, <1>3, <2>1, <2>3, HandlerStep DEF BeginIngress, clock
<1>4. CASE state # "open"
  <2>1. /\ x \in Handler /\ x.at = "done" /\ x.held = req[r].held /\ x.live = req[r].live
        /\ x.key = req[r].key /\ x.order = req[r].order /\ x.answer = req[r].answer
    BY <1>1, <1>4 DEF Handler
  <2> HIDE DEF x
  <2>2. req'[r] = x BY <1>2, Parts
  <2>3. HandlerOK(x) /\ SameConcern(req, req', r)
    BY <1>1, <2>1, <2>2 DEF HandlerOK, SameConcern
  <2> QED BY <1>2, <2>1, <2>3, HandlerStep DEF BeginIngress, clock
<1> QED BY <1>3, <1>4

\* What passes the queue of its key leaves the queue as it is
\* (serveProgressFallback).
LEMMA PassedKeeps ==
  ASSUME NEW e, NEW h, NEW k, KeyInv(e, h, k)
  PROVE  LET f == PassedQueue(e)
         IN  /\ KeyInv(f, h, k) /\ f.there = e.there /\ f.waiters = e.waiters
             /\ f.queue = e.queue /\ f.act = e.act /\ Onward(e, f)
<1> DEFINE n == e.count + 1  g == [e EXCEPT !.count = n]  f == PassedQueue(e)
<1>1. /\ e \in EntryShape /\ e.count \in Nat /\ e.sent \in Nat /\ e.last \in Nat
      /\ e.act.req \in Nat /\ \A i \in DOMAIN e.queue : e.queue[i].req \in Nat
  BY ShapeFacts DEF KeyInv, Work
<1>2. n \in Nat /\ n = e.count + 1 BY <1>1
<1>3. f = [g EXCEPT !.last = n] BY DEF PassedQueue
<1> HIDE DEF f, n
<1>4. /\ g \in EntryShape /\ g.count = n /\ g.queue = e.queue /\ g.act = e.act
      /\ g.sent = e.sent /\ g.waiters = e.waiters /\ g.there = e.there
  BY <1>1, <1>2 DEF EntryShape
<1> HIDE DEF g
<1>5. /\ f \in EntryShape /\ f.count = n /\ f.last = n /\ f.queue = e.queue /\ f.act = e.act
      /\ f.sent = e.sent /\ f.waiters = e.waiters /\ f.there = e.there
  BY <1>2, <1>3, <1>4 DEF EntryShape
<1>6. Ordered(f)
  <2>1. Ordered(e) BY DEF KeyInv
  <2>2. \A i \in DOMAIN e.queue : e.queue[i].req <= n BY <1>1, <1>2, <2>1 DEF Ordered
  <2>3. e.sent <= n /\ e.act.req <= n BY <1>1, <1>2, <2>1 DEF Ordered
  <2> QED BY <1>5, <2>1, <2>2, <2>3 DEF Ordered
<1>7. OneWork(f) BY <1>5 DEF KeyInv, OneWork
<1>8. \A r \in Request : h[r].live /\ h[r].key = k <=> WaitsIn(f, r)
  BY <1>5 DEF KeyInv, WaitsIn
<1>9. \A r \in Request : h[r].key = k /\ h[r].order > 0 => Covered(f, h, r)
  BY <1>5 DEF KeyInv, Covered
<1>10. KeyInv(f, h, k) BY <1>5, <1>6, <1>7, <1>8, <1>9 DEF KeyInv
<1>11. Onward(e, f)
  <2>1. e.last <= n \/ e.last > e.sent BY <1>1, <1>2 DEF KeyInv, Ordered
  <2> QED BY <1>1, <1>2, <1>5, <2>1 DEF Onward
<1> QED BY <1>5, <1>10, <1>11 DEF f

LEMMA FallbackKeeps ==
  ASSUME IInv, NEW r \in Request, NEW k \in Key, Fallback(r, k)
  PROVE  Kept
<1> DEFINE a == IF state = "open" THEN "fallback" ELSE "refused"
           x == [req[r] EXCEPT !.at = a]
<1>1. /\ req[r] \in Handler /\ HandlerOK(req[r]) /\ req[r].at = "admitted"
      /\ req \in [Request -> Handler] /\ Entries(entry, req)
  BY Parts DEF IInv, HandlersOK, Fallback
<1>2. req' = [req EXCEPT ![r] = x] BY DEF Fallback
<1>3. a \in {"fallback", "refused"} OBVIOUS
<1> HIDE DEF a
<1>4. /\ x \in Handler /\ x.at = a /\ x.held = req[r].held /\ x.live = req[r].live
      /\ x.key = req[r].key /\ x.order = req[r].order /\ x.answer = req[r].answer
  BY <1>1, <1>3 DEF Handler
<1> HIDE DEF x
<1>5. /\ req'[r] = x /\ (\A q \in Request \ {r} : req'[q] = req[q])
      /\ req' \in [Request -> Handler]
  BY <1>1, <1>2, <1>4
<1>6. HandlerOK(x) /\ SameConcern(req, req', r)
  BY <1>1, <1>3, <1>4, <1>5 DEF HandlerOK, SameConcern
<1>7. UNCHANGED <<state, cycle, drainErr, stop, globalKeys, globalWaiters, now, drains, fails,
                  failedInDrain>>
  BY DEF Fallback, clock
<1>8. CASE state = "open"
  <2> DEFINE e == entry[k]  f == PassedQueue(e)
  <2>1. KeyInv(e, req, k) /\ e.waiters <= MaxWaiters BY <1>1 DEF Entries
  <2>2. e = entry[k] /\ entry' = [entry EXCEPT ![k] = f] BY <1>8 DEF Fallback
  <2> HIDE DEF e
  <2>3. /\ KeyInv(f, req, k) /\ f.there = e.there /\ f.waiters = e.waiters
        /\ f.queue = e.queue /\ f.act = e.act /\ Onward(e, f)
    BY <2>1, PassedKeeps
  <2> HIDE DEF f
  <2>4. \A j \in Key : SameFor(req, req', j)
    <3>1. \A q \in Request : SameConcern(req, req', q) BY <1>5, <1>6 DEF SameConcern
    <3> QED BY <3>1 DEF SameFor
  <2>5. KeyInv(f, req', k) BY <1>1, <1>5, <2>3, <2>4, OthersKeep
  <2>6. Entries(entry', req') /\ Forward
    BY <1>1, <1>5, <2>1, <2>2, <2>3, <2>4, <2>5, OneEntry DEF Forward
  <2>7. \A j \in Key : /\ entry'[j].there = entry[j].there /\ entry'[j].act = entry[j].act
                       /\ entry'[j].queue = entry[j].queue
    BY <1>1, <2>2, <2>3 DEF Entries
  <2> QED BY <1>2, <1>4, <1>6, <1>7, <2>6, <2>7, HandlerMoves
<1>9. CASE state # "open"
  <2>1. entry' = entry BY <1>9 DEF Fallback
  <2> QED BY <1>2, <1>4, <1>6, <1>7, <2>1, HandlerStep
<1> QED BY <1>8, <1>9

LEMMA ReceiveKeeps ==
  ASSUME IInv, NEW r \in Request, Receive(r)
  PROVE  Kept
<1> DEFINE x == [req[r] EXCEPT !.at = "done"]
<1>1. req[r] \in Handler /\ HandlerOK(req[r]) /\ req[r].at = "update" /\ ~req[r].live
  BY Parts DEF IInv, HandlersOK, Receive
<1>2. req' = [req EXCEPT ![r] = x] BY DEF Receive
<1>3. /\ x \in Handler /\ x.at = "done" /\ x.held = req[r].held /\ x.live = req[r].live
      /\ x.key = req[r].key /\ x.order = req[r].order /\ x.answer = req[r].answer
  BY <1>1 DEF Handler
<1> HIDE DEF x
<1>4. req'[r] = x BY <1>2, Parts
<1>5. HandlerOK(x) /\ SameConcern(req, req', r)
  BY <1>1, <1>3, <1>4 DEF HandlerOK, SameConcern
<1> QED BY <1>2, <1>3, <1>5, HandlerStep DEF Receive, clock

\* A granted Stopped is sent (ServeHTTP).
LEMMA GrantedKeeps ==
  ASSUME IInv, NEW r \in Request, Granted(r)
  PROVE  Kept
<1> DEFINE x == [req[r] EXCEPT !.at = "stopping"]
           k == req[r].key
           e == entry[k]
           f == SentUpTo(e, e.act.req)
<1>1. /\ req[r] \in Handler /\ HandlerOK(req[r]) /\ req[r].at = "barrier" /\ req[r].key = k
      /\ e.act.kind = "barrier" /\ e.act.waiters = {r} /\ req \in [Request -> Handler]
      /\ Entries(entry, req) /\ k \in Key
  BY Parts DEF IInv, HandlersOK, Granted, Handler, IsActiveBarrier
<1>2. req' = [req EXCEPT ![r] = x] /\ e = entry[k] /\ entry' = [entry EXCEPT ![k] = f]
  BY DEF Granted
<1>3. /\ x \in Handler /\ x.at = "stopping" /\ x.held = req[r].held /\ x.live = req[r].live
      /\ x.key = req[r].key /\ x.order = req[r].order /\ x.answer = req[r].answer
  BY <1>1 DEF Handler
<1> HIDE DEF x, k, e
<1>4. req'[r] = x /\ (\A q \in Request \ {r} : req'[q] = req[q]) /\ req' \in [Request -> Handler]
  BY <1>1, <1>2, <1>3
<1>5. UNCHANGED <<state, cycle, drainErr, stop, globalKeys, globalWaiters, now,
                  drains, fails, failedInDrain>>
  BY DEF Granted, clock
<1>6. KeyInv(e, req, k) /\ e.waiters <= MaxWaiters BY <1>1, <1>2 DEF Entries
<1>7. /\ e \in EntryShape /\ Ordered(e) /\ OneWork(e) /\ e.act.req \in Nat /\ e.sent \in Nat
      /\ e.last \in Nat /\ e.sent <= e.act.req /\ e.act.req <= e.count
  <2>1. e.act # NoWork BY <1>1, NoWorkFacts
  <2> QED BY <1>6, <2>1, ShapeFacts DEF KeyInv, Ordered, Work
<1>8. /\ f \in EntryShape /\ f.sent = e.act.req /\ f.last = e.act.req /\ f.there = e.there
      /\ f.queue = e.queue /\ f.act = e.act /\ f.waiters = e.waiters /\ f.count = e.count
  BY <1>7, SentUpToShape
<1>9. \A q \in Request : req'[q].live = req[q].live /\ req'[q].key = req[q].key
                          /\ req'[q].order = req[q].order
  BY <1>3, <1>4
<1>10. ASSUME NEW q \in Request, req'[q].key = k, req'[q].order > 0 PROVE Covered(f, req', q)
  <2>1. Covered(e, req, q) BY <1>6, <1>9, <1>10 DEF KeyInv
  <2>2. Covered(e, req', q) BY <1>9, <2>1 DEF Covered, Carries
  <2> QED BY <1>4, <1>7, <2>2, SentKeeps
<1> HIDE DEF f
<1>11. Ordered(f) BY <1>1, <1>7, <1>8 DEF Ordered
<1>12. OneWork(f) BY <1>7, <1>8 DEF OneWork
<1>13. \A q \in Request : req'[q].live /\ req'[q].key = k <=> WaitsIn(f, q)
  BY <1>6, <1>8, <1>9 DEF KeyInv, WaitsIn
<1>14. Fits(f.act, req')
  <2>1. Fits(e.act, req) BY <1>6 DEF KeyInv
  <2>2. req[r].order = e.act.req BY <1>1, <2>1 DEF Fits
  <2> QED BY <1>1, <1>3, <1>4, <1>8, <2>2 DEF Fits
<1>15. ASSUME NEW i \in DOMAIN f.queue PROVE Fits(f.queue[i], req')
  <2>1. i \in DOMAIN e.queue /\ f.queue[i] = e.queue[i] BY <1>8, <1>15
  <2>2. r \notin e.queue[i].waiters BY <1>1, <1>7, <2>1 DEF OneWork
  <2>3. Fits(e.queue[i], req) /\ e.queue[i].waiters \subseteq Request
    BY <1>6, <1>7, <2>1, ShapeFacts DEF KeyInv, Work
  <2> QED BY <1>4, <2>1, <2>2, <2>3 DEF Fits
<1>16. \A q \in Request : req'[q].at = "stopping" /\ req'[q].key = k =>
          f.act.kind = "barrier" /\ f.act.waiters = {q} /\ f.act.req = f.sent
  BY <1>1, <1>4, <1>6, <1>8 DEF KeyInv
<1>17. f.waiters = Cardinality(LiveOf(req', k))
  <2>1. LiveOf(req', k) = LiveOf(req, k) BY <1>9 DEF LiveOf
  <2> QED BY <1>6, <1>8, <2>1 DEF KeyInv
<1>18. KeyInv(f, req', k)
  BY <1>8, <1>10, <1>11, <1>12, <1>13, <1>14, <1>15, <1>16, <1>17 DEF KeyInv
<1>19. Onward(e, f) BY <1>7, <1>8 DEF Onward
<1>20. ASSUME NEW j \in Key \ {k} PROVE SameFor(req, req', j)
  <2>1. \A q \in Request : SameConcern(req, req', q)
                             \/ (Unconcerned(req, q, j) /\ Unconcerned(req', q, j))
    BY <1>1, <1>4, <1>9 DEF SameConcern, Unconcerned
  <2> QED BY <2>1 DEF SameFor
<1>21. Entries(entry', req') /\ Forward
  BY <1>1, <1>2, <1>4, <1>6, <1>8, <1>18, <1>19, <1>20, OneEntry DEF Forward
<1>22. \A j \in Key : /\ entry'[j].there = entry[j].there /\ entry'[j].act = entry[j].act
                      /\ entry'[j].queue = entry[j].queue
  BY <1>1, <1>2, <1>8 DEF Entries
<1>23. HandlerOK(x) BY <1>1, <1>3 DEF HandlerOK
<1> QED BY <1>2, <1>3, <1>5, <1>21, <1>22, <1>23, HandlerMoves

\* Requests S of one key leave its entry.
LEMMA LeaveStep ==
  ASSUME IInv, NEW k \in Key, NEW e, NEW S \in SUBSET Request,
         req' \in [Request -> Handler],
         \A r \in S : /\ req[r].live /\ req[r].key = k /\ ~req'[r].live /\ req'[r].key = k
                      /\ HandlerOK(req'[r])
                      /\ req'[r].answer > 0 => req'[r].answer >= req'[r].order,
         \A r \in Request \ S : req'[r] = req[r],
         KeyInv(e, req', k), e.waiters = entry[k].waiters - Cardinality(S),
         Onward(entry[k], e), e.there = entry[k].there,
         entry' = [entry EXCEPT ![k] = e],
         globalWaiters' = globalWaiters - Cardinality(S), globalKeys' = globalKeys,
         DrainState', Scalars'
  PROVE  Kept
<1>1. /\ req \in [Request -> Handler] /\ Entries(entry, req) /\ Scalars
      /\ HandlersOK /\ Counts /\ AnsweredByOwnOrLater /\ entry[k] \in EntryShape
  BY Parts DEF IInv
<1>2. e.waiters <= MaxWaiters
  <2>1. entry[k].waiters <= MaxWaiters /\ entry[k].waiters \in Int /\ MaxWaiters \in Nat
    BY <1>1, ShapeFacts, CoalescerAssumption DEF Entries
  <2>2. Cardinality(S) \in Nat BY CountsAreNumbers
  <2> QED BY <2>1, <2>2
<1>3. ASSUME NEW j \in Key \ {k} PROVE SameFor(req, req', j)
  <2>1. \A r \in S : Unconcerned(req, r, j) /\ Unconcerned(req', r, j) BY DEF Unconcerned
  <2>2. \A r \in Request \ S : SameConcern(req, req', r) BY DEF SameConcern
  <2> QED BY <2>1, <2>2 DEF SameFor
<1>4. Entries(entry', req') /\ Forward
  BY <1>1, <1>2, <1>3, OneEntry DEF Forward
<1>5. HandlersOK' BY <1>1 DEF HandlersOK
<1>6. Counts'
  <2> DEFINE L == {r \in Request : req[r].live}
  <2>1. {r \in Request : req'[r].live} = L \ S OBVIOUS
  <2>2. L \in SUBSET Request /\ S \in SUBSET L OBVIOUS
  <2>3. Cardinality(L \ S) = Cardinality(L) - Cardinality(S) BY <2>2, SomeLess
  <2>4. {j \in Key : entry'[j].there} = {j \in Key : entry[j].there} BY <1>1 DEF Entries
  <2> HIDE DEF L
  <2>5. globalWaiters = Cardinality(L) BY <1>1 DEF Counts, L
  <2> QED BY <1>1, <2>1, <2>3, <2>4, <2>5 DEF Counts
<1>7. AnsweredByOwnOrLater' BY <1>1 DEF AnsweredByOwnOrLater
<1> QED BY <1>4, <1>5, <1>6, <1>7, Assembled DEF Kept

LEMMA PushedKeeps ==
  ASSUME NEW e, NEW h \in [Request -> Handler], NEW k, KeyInv(e, h, k)
  PROVE  /\ KeyInv(Pushed(e), h, k)
         /\ Pushed(e).there = e.there /\ Pushed(e).waiters = e.waiters
         /\ Onward(e, Pushed(e))
<1>1. CASE state = "draining"
  <2> DEFINE f == ForceBatches(e)
  <2>1. e \in EntryShape BY DEF KeyInv
  <2>2. Alike(e, f) /\ f.there = e.there BY <2>1, ForceIsAlike
  <2>3. Pushed(e) = Advance(f) BY <1>1 DEF Pushed
  <2> HIDE DEF f
  <2>4. KeyInv(f, h, k) /\ f.waiters = e.waiters /\ f.sent = e.sent /\ f.last = e.last
    BY <2>2, AlikeKeeps DEF Alike
  <2> QED BY <2>2, <2>3, <2>4, AdvanceKeeps DEF Onward
<1>2. CASE state # "draining"
  <2>1. Pushed(e) = Advance(e) BY <1>2 DEF Pushed
  <2> QED BY <2>1, AdvanceKeeps
<1> QED BY <1>1, <1>2

\* A work of the queue changes its readiness or its timers.
Replaced(e, i, w) == [e EXCEPT !.queue = [e.queue EXCEPT ![i] = w]]

LEMMA ReplacedIsAlike ==
  ASSUME NEW e \in EntryShape, NEW i \in DOMAIN e.queue, NEW w \in Work,
         SameWork(w, e.queue[i])
  PROVE  /\ Alike(e, Replaced(e, i, w)) /\ Replaced(e, i, w).there = e.there
         /\ Replaced(e, i, w).queue[i] = w
<1> DEFINE q == [e.queue EXCEPT ![i] = w]  f == Replaced(e, i, w)
<1>1. q \in Seq(Work) /\ DOMAIN q = DOMAIN e.queue /\ q[i] = w
      /\ \A j \in DOMAIN e.queue \ {i} : q[j] = e.queue[j]
  BY ShapeFacts
<1>2. f = [e EXCEPT !.queue = q] BY DEF Replaced
<1> HIDE DEF q, f
<1>3. /\ f \in EntryShape /\ f.queue = q /\ f.act = e.act /\ f.waiters = e.waiters
      /\ f.count = e.count /\ f.sent = e.sent /\ f.last = e.last /\ f.there = e.there
  BY <1>1, <1>2 DEF EntryShape
<1>4. Alike(e, f) BY <1>1, <1>3 DEF Alike, SameWork
<1> QED BY <1>1, <1>3, <1>4 DEF f

\* No report waits, and none is on its way, once drained or closed.
LEMMA IdleIsEmpty ==
  ASSUME IInv, state \in {"drained", "closed"}
  PROVE  /\ \A k \in Key : entry[k].queue = <<>> /\ entry[k].act = NoWork
         /\ \A r \in Request : ~req[r].live
<1>1. \A k \in Key : entry[k].queue = <<>> /\ entry[k].act = NoWork
  BY DEF IInv, DrainState, Idle, Busy
<1>2. ASSUME NEW r \in Request PROVE ~req[r].live
  <2>1. req[r].key \in Key BY Parts DEF Handler
  <2>2. KeyInv(entry[req[r].key], req, req[r].key) BY <2>1, Parts
  <2>3. ~WaitsIn(entry[req[r].key], r) BY <1>1, <2>1, NoWorkFacts DEF WaitsIn
  <2> QED BY <2>2, <2>3 DEF KeyInv
<1> QED BY <1>1, <1>2

LEMMA FireKeeps ==
  ASSUME IInv, NEW k \in Key, NEW i \in DOMAIN entry[k].queue, NEW t \in entry[k].queue[i].timers,
         Fire(k, i, t)
  PROVE  Kept
<1> DEFINE e == entry[k]
           b == e.queue[i]
           due == [e EXCEPT !.queue[i] = Elapsed(b)]
           spent == [e EXCEPT !.queue[i] = Spent(b, t)]
           f == IF Current(b, t) THEN Advance(due) ELSE spent
<1>1. /\ e \in EntryShape /\ KeyInv(e, req, k) /\ b \in Work /\ req \in [Request -> Handler]
      /\ Scalars /\ e.sent \in Nat /\ e.last \in Nat /\ e.waiters \in Int /\ i \in DOMAIN e.queue
  BY Parts, ShapeFacts
<1>2. Alike(e, due) /\ due.there = e.there
  <2>1. Elapsed(b) \in Work /\ SameWork(Elapsed(b), b) BY <1>1 DEF Work, SameWork, Elapsed
  <2>2. due = Replaced(e, i, Elapsed(b)) BY DEF Replaced
  <2> HIDE DEF due
  <2> QED BY <1>1, <2>1, <2>2, ReplacedIsAlike
<1>3. Alike(e, spent) /\ spent.there = e.there
  <2>1. Spent(b, t) \in Work /\ SameWork(Spent(b, t), b) BY <1>1 DEF Work, SameWork, Spent
  <2>2. spent = Replaced(e, i, Spent(b, t)) BY DEF Replaced
  <2> HIDE DEF spent
  <2> QED BY <1>1, <2>1, <2>2, ReplacedIsAlike
<1>4. entry' = [entry EXCEPT ![k] = f] BY Zenon DEF Fire
<1> HIDE DEF due, spent
<1>5. KeyInv(f, req, k) /\ f.there = e.there /\ f.waiters = e.waiters /\ Onward(e, f)
  <2>1. CASE Current(b, t)
    <3>1. KeyInv(due, req, k) /\ due.waiters = e.waiters /\ due.sent = e.sent /\ due.last = e.last
      BY <1>1, <1>2, AlikeKeeps DEF Alike
    <3> QED BY <1>1, <1>2, <2>1, <3>1, AdvanceKeeps DEF Onward
  <2>2. CASE ~Current(b, t)
    <3>1. /\ KeyInv(spent, req, k) /\ spent.waiters = e.waiters /\ spent.sent = e.sent
          /\ spent.last = e.last
      BY <1>1, <1>3, AlikeKeeps DEF Alike
    <3> QED BY <1>1, <1>3, <2>2, <3>1 DEF Onward
  <2> QED BY <2>1, <2>2
<1> HIDE DEF f
<1>6. Cardinality({}) = 0 BY FS_EmptySet
<1>7. /\ UNCHANGED <<req, state, cycle, drainErr, stop, globalKeys, globalWaiters, now, drains,
                     fails, failedInDrain>>
  BY DEF Fire, clock
<1>8. globalWaiters' = globalWaiters - Cardinality({}) /\ f.waiters = e.waiters - Cardinality({})
  <2>1. globalWaiters \in Nat BY DEF IInv, TypeOK
  <2> QED BY <1>1, <1>5, <1>6, <1>7, <2>1
<1>9. DrainState'
  <2>1. state \notin {"drained", "closed"}
    <3>1. e.queue # <<>> BY <1>1
    <3> QED BY <3>1, IdleIsEmpty
  <2>2. state = "draining" => Held' = {} BY <1>7 DEF IInv, DrainState, Held
  <2> QED BY <1>7, <2>1, <2>2, SameDrain
<1>10. Scalars' BY <1>1, <1>7 DEF Scalars
<1>11. {} \in SUBSET Request OBVIOUS
<1> HIDE DEF e
<1>12. e = entry[k] BY DEF e
<1> QED BY <1>1, <1>4, <1>5, <1>7, <1>8, <1>9, <1>10, <1>11, <1>12, LeaveStep

LEMMA FreedShape ==
  ASSUME NEW e \in EntryShape, NEW n \in Int
  PROVE  /\ Freed(e, n) \in EntryShape /\ Freed(e, n).queue = e.queue
         /\ Freed(e, n).act = NoWork /\ Freed(e, n).waiters = e.waiters - n
         /\ Freed(e, n).sent = e.sent /\ Freed(e, n).last = e.last
         /\ Freed(e, n).count = e.count /\ Freed(e, n).there = e.there
<1> DEFINE f == [e EXCEPT !.act = NoWork]
<1>1. /\ f \in EntryShape /\ f.queue = e.queue /\ f.act = NoWork /\ f.sent = e.sent
      /\ f.last = e.last
      /\ f.count = e.count /\ f.there = e.there
  BY NoWorkFacts DEF EntryShape
<1> DEFINE m == e.waiters - n
<1>2. Freed(e, n) = [f EXCEPT !.waiters = m] BY DEF Freed
<1>3. m \in Int BY ShapeFacts
<1> HIDE DEF f, m
<1>4. /\ Freed(e, n) \in EntryShape /\ Freed(e, n).queue = e.queue
      /\ Freed(e, n).act = NoWork /\ Freed(e, n).waiters = m
      /\ Freed(e, n).sent = e.sent /\ Freed(e, n).last = e.last
      /\ Freed(e, n).count = e.count /\ Freed(e, n).there = e.there
  BY <1>1, <1>2, <1>3 DEF EntryShape
<1> QED BY <1>4 DEF m

\* Those who waited for the active work leave with it: they were sent, or they
\* give up.
LEMMA FreedKeeps ==
  ASSUME NEW e, NEW h \in [Request -> Handler], NEW g \in [Request -> Handler],
         NEW k \in Key, KeyInv(e, h, k), NEW S, S = e.act.waiters,
         \A r \in S : /\ ~g[r].live /\ g[r].at # "stopping"
                      /\ g[r].key = h[r].key /\ g[r].order \in {0, h[r].order},
         e.act.kind = "batch" \/ \A r \in S : g[r].order = 0 \/ e.sent >= h[r].order,
         \A r \in Request \ S : g[r] = h[r]
  PROVE  KeyInv(Freed(e, Cardinality(S)), g, k)
<1> DEFINE n == Cardinality(S)
           f == Freed(e, n)
<1>1. e \in EntryShape BY DEF KeyInv
<1>2. e.act \in Work /\ e.waiters \in Int /\ DOMAIN e.queue = 1..Len(e.queue)
      /\ \A i \in DOMAIN e.queue : e.queue[i] \in Work
  BY <1>1, ShapeFacts
<1>3. S \in SUBSET Request BY <1>2 DEF Work
<1>4. n \in Int BY <1>2, <1>3, CountsAreNumbers
<1>5. n = Cardinality(S) OBVIOUS
<1> HIDE DEF n
<1>6. /\ f \in EntryShape /\ f.queue = e.queue /\ f.act = NoWork /\ f.waiters = e.waiters - n
      /\ f.sent = e.sent /\ f.last = e.last /\ f.count = e.count
  BY <1>1, <1>4, FreedShape
<1> HIDE DEF f
<1>7. \A i \in DOMAIN e.queue : e.queue[i].waiters \cap S = {}
  BY DEF KeyInv, OneWork
<1>8. \A i \in DOMAIN e.queue :
         /\ f.queue[i].kind = e.queue[i].kind /\ f.queue[i].req = e.queue[i].req
         /\ f.queue[i].waiters = e.queue[i].waiters \ S
         /\ e.queue[i].kind = "barrier" => e.queue[i].waiters \cap S = {}
  BY <1>6, <1>7
<1>9. \A r \in S : WaitsIn(e, r) BY DEF WaitsIn
<1>10. KeyInv(f, g, k)
  <2>1. Leave(e, f, h, g, S) BY <1>5, <1>6, <1>8, <1>9 DEF Leave
  <2> QED BY <1>3, <1>6, <2>1, LeaveKeeps
<1> QED BY <1>5, <1>10 DEF f

LEMMA ReleaseBarrierKeeps ==
  ASSUME IInv, NEW r \in Request, ReleaseBarrier(r)
  PROVE  Kept
<1> DEFINE x == [req[r] EXCEPT !.at = "done", !.live = FALSE]
           k == req[r].key
           e == entry[k]
           f == Freed(e, 1)
<1>1. /\ req[r] \in Handler /\ HandlerOK(req[r]) /\ req[r].at = "stopping" /\ req[r].live
      /\ req \in [Request -> Handler] /\ Scalars /\ k \in Key /\ DrainState
      /\ AnsweredByOwnOrLater
  BY Parts DEF IInv, HandlersOK, HandlerOK, ReleaseBarrier, Handler
<1>2. KeyInv(e, req, k) /\ e \in EntryShape /\ e.waiters \in Int /\ e.sent \in Nat /\ e.last \in Nat
  BY <1>1, Parts, ShapeFacts
<1>3. req' = [req EXCEPT ![r] = x] BY DEF ReleaseBarrier
<1>4. /\ x \in Handler /\ x.at = "done" /\ ~x.live /\ x.key = k /\ x.held = req[r].held
      /\ x.order = req[r].order /\ x.answer = req[r].answer
  BY <1>1 DEF Handler
<1>6. Change(k, Pushed(f), drainErr) BY DEF ReleaseBarrier
<1>7. /\ globalWaiters' = globalWaiters - 1
      /\ UNCHANGED <<drainErr, stop, globalKeys, now, drains, fails, failedInDrain>>
  BY DEF ReleaseBarrier, clock
<1> HIDE DEF x
<1>8. req'[r] = x /\ (\A q \in Request \ {r} : req'[q] = req[q]) /\ req' \in [Request -> Handler]
  BY <1>1, <1>3, <1>4
<1>9. e.act.waiters = {r} /\ req[r].key = k /\ e.sent >= req[r].order
  <2>1. e.act.waiters = {r} /\ e.act.kind = "barrier" /\ e.act.req = e.sent
    BY <1>1, <1>2 DEF KeyInv
  <2>2. e.act.req = req[r].order BY <1>2, <2>1 DEF KeyInv, Fits
  <2> QED BY <1>2, <2>1, <2>2
<1> HIDE DEF e, k
<1>10. Cardinality({r}) = 1 BY FS_Singleton
<1>11. KeyInv(f, req', k)
  <2>1. /\ \A q \in {r} : /\ ~req'[q].live /\ req'[q].at # "stopping"
                          /\ req'[q].key = req[q].key /\ req'[q].order \in {0, req[q].order}
        /\ \A q \in {r} : req'[q].order = 0 \/ e.sent >= req[q].order
        /\ \A q \in Request \ {r} : req'[q] = req[q]
    BY <1>4, <1>8, <1>9
  <2>2. KeyInv(Freed(e, Cardinality({r})), req', k)
    BY <1>1, <1>2, <1>8, <1>9, <2>1, FreedKeeps
  <2> QED BY <1>10, <2>2
<1>12. f.sent = e.sent /\ f.last = e.last /\ f.there = e.there /\ f.waiters = e.waiters - 1
  <2>1. 1 \in Int OBVIOUS
  <2> QED BY <1>2, <2>1, FreedShape
<1> HIDE DEF f
<1> DEFINE p == Pushed(f)
<1>13. KeyInv(p, req', k) /\ p.there = e.there /\ p.waiters = e.waiters - 1 /\ Onward(e, p)
  BY <1>8, <1>11, <1>12, PushedKeeps DEF Onward
<1> HIDE DEF p
<1>14. Held' = Held BY <1>4, <1>8 DEF Held
<1>15. /\ DrainState' /\ entry' = [entry EXCEPT ![k] = p]
       /\ state' \in {"open", "quiescing", "draining", "drained", "closed"}
       /\ cycle' \in {"none", "running", "ok", "failed"}
  <2>1. state \notin {"drained", "closed"} BY <1>1, IdleIsEmpty
  <2>2. CompleteDrain([entry EXCEPT ![k] = p], state, drainErr, Held)
    BY <1>6 DEF Change, p
  <2>3. state = "draining" => Held' = {} BY <1>1, <1>14 DEF DrainState
  <2>4. cycle = "running" => failedInDrain' = drainErr BY <1>1, <1>7 DEF DrainState
  <2> QED BY <1>1, <1>7, <2>1, <2>2, <2>3, <2>4, ChangedDrain DEF Scalars
<1>16. Scalars' BY <1>1, <1>7, <1>15 DEF Scalars
<1>17. /\ req[r].live /\ req[r].key = k /\ ~req'[r].live /\ req'[r].key = k
       /\ HandlerOK(req'[r])
       /\ req'[r].answer > 0 => req'[r].answer >= req'[r].order
  BY <1>1, <1>4, <1>8, <1>9 DEF HandlerOK, AnsweredByOwnOrLater
<1>18. /\ \A q \in {r} :
            /\ req[q].live /\ req[q].key = k /\ ~req'[q].live /\ req'[q].key = k
            /\ HandlerOK(req'[q])
            /\ req'[q].answer > 0 => req'[q].answer >= req'[q].order
       /\ {r} \in SUBSET Request
       /\ p.waiters = e.waiters - Cardinality({r})
       /\ globalWaiters' = globalWaiters - Cardinality({r})
  BY <1>7, <1>10, <1>13, <1>17
<1>19. e = entry[k] BY DEF e
<1> QED BY <1>1, <1>7, <1>8, <1>13, <1>15, <1>16, <1>18, <1>19, LeaveStep

\* A Stopped whose client is gone is given up when it is granted
\* (waitForBarrier, releaseBarrier).
LEMMA DiscardBarrierKeeps ==
  ASSUME IInv, NEW r \in Request, DiscardBarrier(r)
  PROVE  Kept
<1> DEFINE x == [req[r] EXCEPT !.at = "done", !.live = FALSE, !.order = 0]
           k == req[r].key
           e == entry[k]
           f == Freed(e, 1)
<1>1. /\ req[r] \in Handler /\ HandlerOK(req[r]) /\ req[r].at = "barrier" /\ req[r].live
      /\ req \in [Request -> Handler] /\ Scalars /\ k \in Key /\ DrainState
      /\ AnsweredByOwnOrLater
  BY Parts DEF IInv, HandlersOK, HandlerOK, DiscardBarrier, Handler
<1>2. KeyInv(e, req, k) /\ e \in EntryShape /\ e.waiters \in Int /\ e.sent \in Nat /\ e.last \in Nat
  BY <1>1, Parts, ShapeFacts
<1>3. req' = [req EXCEPT ![r] = x] BY DEF DiscardBarrier
<1>4. /\ x \in Handler /\ x.at = "done" /\ ~x.live /\ x.key = k /\ x.held = req[r].held
      /\ x.order = 0 /\ x.answer = req[r].answer
  BY <1>1 DEF Handler
<1>6. Change(k, Pushed(f), drainErr) BY DEF DiscardBarrier
<1>7. /\ globalWaiters' = globalWaiters - 1
      /\ UNCHANGED <<drainErr, stop, globalKeys, now, drains, fails, failedInDrain>>
  BY DEF DiscardBarrier, clock
<1> HIDE DEF x
<1>8. req'[r] = x /\ (\A q \in Request \ {r} : req'[q] = req[q]) /\ req' \in [Request -> Handler]
  BY <1>1, <1>3, <1>4
<1>9. e.act.waiters = {r} /\ req[r].key = k BY DEF DiscardBarrier, IsActiveBarrier
<1> HIDE DEF e, k
<1>10. Cardinality({r}) = 1 BY FS_Singleton
<1>11. KeyInv(f, req', k)
  <2>1. /\ \A q \in {r} : /\ ~req'[q].live /\ req'[q].at # "stopping"
                          /\ req'[q].key = req[q].key /\ req'[q].order \in {0, req[q].order}
        /\ \A q \in {r} : req'[q].order = 0 \/ e.sent >= req[q].order
        /\ \A q \in Request \ {r} : req'[q] = req[q]
    BY <1>4, <1>8, <1>9
  <2>2. KeyInv(Freed(e, Cardinality({r})), req', k)
    BY <1>1, <1>2, <1>8, <1>9, <2>1, FreedKeeps
  <2> QED BY <1>10, <2>2
<1>12. f.sent = e.sent /\ f.last = e.last /\ f.there = e.there /\ f.waiters = e.waiters - 1
  <2>1. 1 \in Int OBVIOUS
  <2> QED BY <1>2, <2>1, FreedShape
<1> HIDE DEF f
<1> DEFINE p == Pushed(f)
<1>13. KeyInv(p, req', k) /\ p.there = e.there /\ p.waiters = e.waiters - 1 /\ Onward(e, p)
  BY <1>8, <1>11, <1>12, PushedKeeps DEF Onward
<1> HIDE DEF p
<1>14. Held' = Held BY <1>4, <1>8 DEF Held
<1>15. /\ DrainState' /\ entry' = [entry EXCEPT ![k] = p]
       /\ state' \in {"open", "quiescing", "draining", "drained", "closed"}
       /\ cycle' \in {"none", "running", "ok", "failed"}
  <2>1. state \notin {"drained", "closed"} BY <1>1, IdleIsEmpty
  <2>2. CompleteDrain([entry EXCEPT ![k] = p], state, drainErr, Held)
    BY <1>6 DEF Change, p
  <2>3. state = "draining" => Held' = {} BY <1>1, <1>14 DEF DrainState
  <2>4. cycle = "running" => failedInDrain' = drainErr BY <1>1, <1>7 DEF DrainState
  <2> QED BY <1>1, <1>7, <2>1, <2>2, <2>3, <2>4, ChangedDrain DEF Scalars
<1>16. Scalars' BY <1>1, <1>7, <1>15 DEF Scalars
<1>17. /\ req[r].live /\ req[r].key = k /\ ~req'[r].live /\ req'[r].key = k
       /\ HandlerOK(req'[r])
       /\ req'[r].answer > 0 => req'[r].answer >= req'[r].order
  BY <1>1, <1>4, <1>8, <1>9 DEF HandlerOK, AnsweredByOwnOrLater
<1>18. /\ \A q \in {r} :
            /\ req[q].live /\ req[q].key = k /\ ~req'[q].live /\ req'[q].key = k
            /\ HandlerOK(req'[q])
            /\ req'[q].answer > 0 => req'[q].answer >= req'[q].order
       /\ {r} \in SUBSET Request
       /\ p.waiters = e.waiters - Cardinality({r})
       /\ globalWaiters' = globalWaiters - Cardinality({r})
  BY <1>7, <1>10, <1>13, <1>17
<1>19. e = entry[k] BY DEF e
<1> QED BY <1>1, <1>7, <1>8, <1>13, <1>15, <1>16, <1>18, <1>19, LeaveStep

LEMMA WithoutFacts ==
  ASSUME NEW w \in Work, NEW r
  PROVE  /\ Without(w, r) \in Work /\ Without(w, r).waiters = w.waiters \ {r}
         /\ Without(w, r).kind = w.kind /\ Without(w, r).req = w.req
BY DEF Without, Work

LEMMA WithoutWaiterShape ==
  ASSUME NEW e \in EntryShape, NEW r
  PROVE  /\ WithoutWaiter(e, r) \in EntryShape
         /\ DOMAIN WithoutWaiter(e, r).queue = DOMAIN e.queue
         /\ \A i \in DOMAIN e.queue : WithoutWaiter(e, r).queue[i] = Without(e.queue[i], r)
         /\ WithoutWaiter(e, r).act = Without(e.act, r)
         /\ WithoutWaiter(e, r).waiters = e.waiters - 1
         /\ WithoutWaiter(e, r).sent = e.sent /\ WithoutWaiter(e, r).last = e.last
         /\ WithoutWaiter(e, r).there = e.there
         /\ WithoutWaiter(e, r).count = e.count
<1> DEFINE q == [i \in DOMAIN e.queue |-> Without(e.queue[i], r)]
           f1 == [e EXCEPT !.queue = q]
           f2 == [f1 EXCEPT !.act = Without(e.act, r)]
           n == e.waiters - 1
           f3 == [f2 EXCEPT !.waiters = n]
<1>1. /\ e.act \in Work /\ e.waiters \in Int /\ DOMAIN e.queue = 1..Len(e.queue)
      /\ Len(e.queue) \in Nat /\ \A i \in DOMAIN e.queue : e.queue[i] \in Work
  BY ShapeFacts
<1>2. \A i \in DOMAIN e.queue : Without(e.queue[i], r) \in Work BY <1>1, WithoutFacts
<1>3. q \in Seq(Work) /\ DOMAIN q = DOMAIN e.queue
      /\ \A i \in DOMAIN e.queue : q[i] = Without(e.queue[i], r)
  BY <1>1, <1>2
<1>4. n \in Int /\ Without(e.act, r) \in Work BY <1>1, WithoutFacts
<1>5. WithoutWaiter(e, r) = f3 BY DEF WithoutWaiter
<1> HIDE DEF q, n
<1>6. /\ f1 \in EntryShape /\ f1.queue = q /\ f1.act = e.act /\ f1.waiters = e.waiters
      /\ f1.sent = e.sent /\ f1.last = e.last /\ f1.count = e.count /\ f1.there = e.there
  BY <1>3 DEF EntryShape
<1> HIDE DEF f1
<1>7. /\ f2 \in EntryShape /\ f2.queue = q /\ f2.act = Without(e.act, r)
      /\ f2.sent = e.sent /\ f2.last = e.last /\ f2.count = e.count /\ f2.there = e.there
  BY <1>4, <1>6 DEF EntryShape
<1> HIDE DEF f2
<1>8. /\ f3 \in EntryShape /\ f3.queue = q /\ f3.act = Without(e.act, r) /\ f3.waiters = n
      /\ f3.sent = e.sent /\ f3.last = e.last /\ f3.count = e.count /\ f3.there = e.there
  BY <1>4, <1>7 DEF EntryShape
<1> HIDE DEF f3
<1> QED BY <1>3, <1>5, <1>8 DEF n

LEMMA CancelUpdateKeeps ==
  ASSUME IInv, NEW r \in Request, CancelUpdate(r)
  PROVE  Kept
<1> DEFINE x == [req[r] EXCEPT !.at = "done", !.live = FALSE]
           k == req[r].key
           e == entry[k]
           f == WithoutWaiter(e, r)
<1>1. /\ req[r] \in Handler /\ HandlerOK(req[r]) /\ req[r].at = "update" /\ req[r].live
      /\ req \in [Request -> Handler] /\ Scalars /\ k \in Key /\ DrainState
      /\ AnsweredByOwnOrLater
  BY Parts DEF IInv, HandlersOK, HandlerOK, CancelUpdate, Handler
<1>2. KeyInv(e, req, k) /\ e \in EntryShape /\ e.waiters \in Int /\ e.sent \in Nat /\ e.last \in Nat
  BY <1>1, Parts, ShapeFacts
<1>3. req' = [req EXCEPT ![r] = x] /\ entry' = [entry EXCEPT ![k] = f]
  BY DEF CancelUpdate
<1>4. /\ x \in Handler /\ x.at = "done" /\ ~x.live /\ x.key = k /\ x.held = req[r].held
      /\ x.order = req[r].order /\ x.answer = req[r].answer
  BY <1>1 DEF Handler
<1>5. /\ globalWaiters' = globalWaiters - 1
      /\ UNCHANGED <<state, cycle, drainErr, stop, globalKeys, now, drains, fails, failedInDrain>>
  BY DEF CancelUpdate, clock
<1>6. req[r].key = k /\ e = entry[k] OBVIOUS
<1> HIDE DEF x, e, k
<1>7. req'[r] = x /\ (\A q \in Request \ {r} : req'[q] = req[q]) /\ req' \in [Request -> Handler]
  BY <1>1, <1>3, <1>4
<1>8. Cardinality({r}) = 1 BY FS_Singleton
<1>9. /\ f \in EntryShape /\ DOMAIN f.queue = DOMAIN e.queue
      /\ \A i \in DOMAIN e.queue : f.queue[i] = Without(e.queue[i], r)
      /\ f.act = Without(e.act, r) /\ f.waiters = e.waiters - 1
      /\ f.sent = e.sent /\ f.last = e.last /\ f.there = e.there /\ f.count = e.count
  BY <1>2, WithoutWaiterShape
<1> HIDE DEF f
<1>10. KeyInv(f, req', k)
  <2>1. WaitsIn(e, r) BY <1>1, <1>2, <1>6 DEF KeyInv
  <2>2. /\ e.act \in Work /\ \A i \in DOMAIN e.queue : e.queue[i] \in Work BY <1>2, ShapeFacts
  <2>3. ASSUME NEW w \in Work, Fits(w, req), w.kind = "barrier"
        PROVE  w.waiters \cap {r} = {}
    BY <1>1, <2>3 DEF Fits
  <2>4. ASSUME NEW i \in DOMAIN e.queue
        PROVE  /\ f.queue[i].kind = e.queue[i].kind /\ f.queue[i].req = e.queue[i].req
               /\ f.queue[i].waiters = e.queue[i].waiters \ {r}
               /\ e.queue[i].kind = "barrier" => e.queue[i].waiters \cap {r} = {}
    BY <1>2, <1>9, <2>2, <2>3, WithoutFacts DEF KeyInv
  <2>5. /\ f.act = [e.act EXCEPT !.waiters = e.act.waiters \ {r}]
        /\ e.act.kind = "barrier" => e.act.waiters \cap {r} = {}
    <3>1. f.act = [e.act EXCEPT !.waiters = e.act.waiters \ {r}] BY <1>9 DEF Without
    <3>2. e.act.kind = "barrier" => e.act.waiters \cap {r} = {}
      BY <1>2, <2>2, <2>3 DEF KeyInv
    <3> QED BY <3>1, <3>2
  <2>6. Leave(e, f, req, req', {r})
    BY <1>4, <1>6, <1>7, <1>8, <1>9, <2>1, <2>4, <2>5 DEF Leave
  <2> QED BY <1>1, <1>2, <1>7, <1>9, <2>6, LeaveKeeps
<1>11. DrainState'
  <2>1. state \notin {"drained", "closed"} BY <1>1, IdleIsEmpty
  <2>2. Held' = Held BY <1>4, <1>7 DEF Held
  <2> QED BY <1>1, <1>5, <2>1, <2>2, SameDrain DEF DrainState
<1>12. Scalars' BY <1>1, <1>5 DEF Scalars
<1>13. /\ req[r].live /\ req[r].key = k /\ ~req'[r].live /\ req'[r].key = k
       /\ HandlerOK(req'[r])
       /\ req'[r].answer > 0 => req'[r].answer >= req'[r].order
  BY <1>1, <1>4, <1>6, <1>7 DEF HandlerOK, AnsweredByOwnOrLater
<1>14. /\ \A q \in {r} :
            /\ req[q].live /\ req[q].key = k /\ ~req'[q].live /\ req'[q].key = k
            /\ HandlerOK(req'[q])
            /\ req'[q].answer > 0 => req'[q].answer >= req'[q].order
       /\ {r} \in SUBSET Request
       /\ f.waiters = e.waiters - Cardinality({r})
       /\ globalWaiters' = globalWaiters - Cardinality({r})
       /\ Onward(e, f)
  BY <1>2, <1>5, <1>8, <1>9, <1>13 DEF Onward
<1>15. /\ f.waiters = entry[k].waiters - Cardinality({r})
       /\ Onward(entry[k], f) /\ f.there = entry[k].there
       /\ globalKeys' = globalKeys /\ req' \in [Request -> Handler] /\ k \in Key
       /\ entry' = [entry EXCEPT ![k] = f]
       /\ \A q \in Request \ {r} : req'[q] = req[q]
  BY <1>1, <1>3, <1>5, <1>6, <1>7, <1>9, <1>14
<1> QED BY <1>10, <1>11, <1>12, <1>14, <1>15, LeaveStep

LEMMA DispatchDoneKeeps ==
  ASSUME IInv, NEW k \in Key, NEW ok \in BOOLEAN, DispatchDone(k, ok)
  PROVE  Kept
<1> DEFINE e == entry[k]
           S == e.act.waiters
           err == drainErr \/ (~ok /\ Records)
           f == Freed(e, Cardinality(S))
           p == Pushed(f)
<1>1. /\ req \in [Request -> Handler] /\ Scalars /\ DrainState /\ HandlersOK
      /\ KeyInv(e, req, k) /\ e \in EntryShape /\ e.waiters \in Int /\ e.sent \in Nat
      /\ e.last \in Nat
      /\ e.act \in Work
  BY Parts, ShapeFacts DEF IInv
<1>2. /\ IsBatch(e.act) /\ (ok \/ fails < MaxFail)
      /\ fails' = (IF ok THEN fails ELSE fails + 1)
      /\ failedInDrain' = (failedInDrain \/ (~ok /\ cycle = "running"))
      /\ drainErr' = err
      /\ globalWaiters' = globalWaiters - Cardinality(S)
      /\ UNCHANGED <<stop, globalKeys, now, drains>>
  BY DEF DispatchDone, Answered, clock
<1>3. Change(k, p, err)
  BY DEF DispatchDone, Answered
<1>4. req' = [r \in Request |-> IF r \in S THEN Told(req[r], e.act.req) ELSE req[r]]
  BY DEF DispatchDone, Answered
<1>5. e = entry[k] /\ S = e.act.waiters /\ err \in BOOLEAN
  BY <1>1 DEF Scalars, Records
<1>6. failedInDrain' = (failedInDrain \/ (~ok /\ cycle = "running"))
      /\ (cycle = "running" => failedInDrain' = err)
  <2>1. cycle = "running" => state \in {"quiescing", "draining"}
    BY <1>1 DEF DrainState, Scalars
  <2>2. cycle = "running" => failedInDrain = drainErr BY <1>1 DEF DrainState
  <2> QED BY <1>2, <2>1, <2>2 DEF Records
<1> HIDE DEF err, e, S
<1>7. S \in SUBSET Request /\ e.act.req \in Nat BY <1>1, <1>5 DEF Work
<1>8. Fits(e.act, req) /\ \A r \in S : WaitsIn(e, r) BY <1>1, <1>5 DEF KeyInv, WaitsIn
<1>9. ASSUME NEW r \in S
      PROVE  /\ req'[r] \in Handler /\ ~req'[r].live /\ req'[r].answer = e.act.req
             /\ req'[r].at = "update" /\ req'[r].key = k /\ req'[r].order = req[r].order
             /\ req'[r].held = req[r].held /\ req[r].live /\ req[r].key = k
             /\ req'[r].order <= req'[r].answer
  <2>1. req[r] \in Handler /\ r \in Request BY <1>1, <1>7
  <2>2. req'[r] = Told(req[r], e.act.req) BY <1>4, <2>1
  <2>3. req[r].at = "update" /\ req[r].order <= e.act.req
    BY <1>2, <1>5, <1>8 DEF Fits, IsBatch
  <2>4. req[r].live /\ req[r].key = k BY <1>1, <1>8, <2>1 DEF KeyInv
  <2>5. /\ req'[r] \in Handler /\ ~req'[r].live /\ req'[r].answer = e.act.req
        /\ req'[r].at = req[r].at /\ req'[r].key = req[r].key /\ req'[r].order = req[r].order
        /\ req'[r].held = req[r].held
    BY <1>7, <2>1, <2>2 DEF Handler, Told
  <2> QED BY <2>3, <2>4, <2>5
<1>10. (\A r \in Request \ S : req'[r] = req[r]) /\ req' \in [Request -> Handler]
  <2>1. \A r \in Request \ S : req'[r] = req[r] BY <1>4
  <2>2. \A r \in Request : req'[r] \in Handler BY <1>1, <1>9, <2>1
  <2>3. req' = [r \in Request |-> req'[r]] BY <1>4
  <2> QED BY <2>1, <2>2, <2>3
<1>11. KeyInv(f, req', k)
  <2>1. \A r \in S : /\ ~req'[r].live /\ req'[r].at # "stopping"
                     /\ req'[r].key = req[r].key /\ req'[r].order \in {0, req[r].order}
    BY <1>9
  <2>2. entry[k].act.kind = "batch" BY DEF DispatchDone, IsBatch
  <2> QED BY <1>1, <1>5, <1>10, <2>1, <2>2, FreedKeeps
<1>12. /\ f.sent = e.sent /\ f.last = e.last /\ f.there = e.there
       /\ f.waiters = e.waiters - Cardinality(S)
  <2>1. Cardinality(S) \in Int BY <1>7, CountsAreNumbers
  <2> QED BY <1>1, <2>1, FreedShape
<1> HIDE DEF f
<1>13. /\ KeyInv(p, req', k) /\ p.there = entry[k].there
       /\ p.waiters = entry[k].waiters - Cardinality(S) /\ Onward(entry[k], p)
  BY <1>5, <1>10, <1>11, <1>12, PushedKeeps DEF Onward
<1> HIDE DEF p
<1>14. Held' = Held
  <2>1. \A r \in Request : req'[r].held = req[r].held BY <1>9, <1>10
  <2> QED BY <2>1 DEF Held
<1>15. /\ DrainState' /\ entry' = [entry EXCEPT ![k] = p]
       /\ state' \in {"open", "quiescing", "draining", "drained", "closed"}
       /\ cycle' \in {"none", "running", "ok", "failed"}
  <2>1. state \notin {"drained", "closed"}
    <3>1. e.act # NoWork BY <1>2, NoWorkFacts DEF IsBatch
    <3> QED BY <1>5, <3>1, IdleIsEmpty
  <2>2. CompleteDrain([entry EXCEPT ![k] = p], state, err, Held) BY <1>3 DEF Change
  <2>3. state = "draining" => Held' = {} BY <1>1, <1>14 DEF DrainState
  <2> QED BY <1>2, <1>5, <1>6, <2>1, <2>2, <2>3, ChangedDrain
<1>16. Scalars'
  <2>1. failedInDrain' \in BOOLEAN /\ drainErr' \in BOOLEAN BY <1>1, <1>2, <1>5 DEF Scalars
  <2>2. fails' \in 0..MaxFail BY <1>1, <1>2, CoalescerAssumption DEF Scalars
  <2> QED BY <1>1, <1>2, <1>15, <2>1, <2>2 DEF Scalars
<1>17. \A r \in S :
          /\ req[r].live /\ req[r].key = k /\ ~req'[r].live /\ req'[r].key = k
          /\ HandlerOK(req'[r])
          /\ req'[r].answer > 0 => req'[r].answer >= req'[r].order
  <2> SUFFICES ASSUME NEW r \in S
               PROVE  /\ req[r].live /\ req[r].key = k /\ ~req'[r].live /\ req'[r].key = k
                      /\ HandlerOK(req'[r])
                      /\ req'[r].answer > 0 => req'[r].answer >= req'[r].order
    OBVIOUS
  <2>1. req'[r] \in Handler BY <1>9
  <2>2. req'[r].answer \in Nat /\ req'[r].order \in Nat BY <2>1 DEF Handler
  <2> QED BY <1>9, <2>2 DEF HandlerOK
<1>18. globalKeys' = globalKeys /\ globalWaiters' = globalWaiters - Cardinality(S) BY <1>2
<1> QED BY <1>7, <1>10, <1>13, <1>15, <1>16, <1>17, <1>18, LeaveStep

LEMMA CancelBarrierKeeps ==
  ASSUME IInv, NEW r \in Request, CancelBarrier(r)
  PROVE  Kept
<1> DEFINE x == [req[r] EXCEPT !.at = "done", !.live = FALSE, !.order = 0]
           k == req[r].key
           e == entry[k]
<1>1. /\ req[r] \in Handler /\ HandlerOK(req[r]) /\ req[r].at = "barrier" /\ req[r].live
      /\ req \in [Request -> Handler] /\ Scalars /\ k \in Key /\ DrainState
  BY Parts DEF IInv, HandlersOK, HandlerOK, CancelBarrier, Handler
<1>2. /\ KeyInv(e, req, k) /\ e \in EntryShape /\ e.waiters \in Int /\ e.sent \in Nat
      /\ e.last \in Nat
      /\ \A i \in DOMAIN e.queue : e.queue[i] \in Work
  BY <1>1, Parts, ShapeFacts
<1>3. req' = [req EXCEPT ![r] = x] BY DEF CancelBarrier
<1>4. /\ x \in Handler /\ x.at = "done" /\ ~x.live /\ x.key = k /\ x.held = req[r].held
      /\ x.order = 0 /\ x.answer = req[r].answer
  BY <1>1 DEF Handler
<1>5. PICK i \in DOMAIN e.queue :
         /\ ~IsBatch(e.queue[i]) /\ e.queue[i].waiters = {r}
         /\ Change(k, Advance(Removed(e, i)), drainErr)
  BY Zenon DEF CancelBarrier
<1> DEFINE f == Removed(e, i)
           p == Advance(f)
<1>6. /\ globalWaiters' = globalWaiters - 1
      /\ UNCHANGED <<drainErr, stop, globalKeys, now, drains, fails, failedInDrain>>
  BY DEF CancelBarrier, clock
<1> HIDE DEF x
<1>7. req'[r] = x /\ (\A q \in Request \ {r} : req'[q] = req[q]) /\ req' \in [Request -> Handler]
  BY <1>1, <1>3, <1>4
<1>8. req[r].key = k /\ e = entry[k] OBVIOUS
<1>9. Cardinality({r}) = 1 BY FS_Singleton
<1> HIDE DEF e, k
<1>10. /\ KeyInv(f, req', k)
       /\ f.sent = e.sent /\ f.last = e.last /\ f.there = e.there /\ f.waiters = e.waiters - 1
  <2>1. e.queue[i].kind # "batch" BY <1>5 DEF IsBatch
  <2>2. ~req'[r].live /\ req'[r].order = 0 /\ req'[r].at # "stopping" /\ req'[r].key = k
    BY <1>4, <1>7
  <2> QED BY <1>1, <1>2, <1>5, <1>7, <2>1, <2>2, RemoveKeeps
<1>11. Change(k, p, drainErr) BY <1>5
<1> HIDE DEF f
<1>12. /\ KeyInv(p, req', k) /\ p.there = entry[k].there
       /\ p.waiters = entry[k].waiters - Cardinality({r}) /\ Onward(entry[k], p)
  BY <1>7, <1>8, <1>9, <1>10, AdvanceKeeps DEF Onward
<1> HIDE DEF p
<1>13. Held' = Held BY <1>4, <1>7 DEF Held
<1>14. /\ DrainState' /\ entry' = [entry EXCEPT ![k] = p]
       /\ state' \in {"open", "quiescing", "draining", "drained", "closed"}
       /\ cycle' \in {"none", "running", "ok", "failed"}
  <2>1. state \notin {"drained", "closed"} BY <1>1, IdleIsEmpty
  <2>2. CompleteDrain([entry EXCEPT ![k] = p], state, drainErr, Held) BY <1>11 DEF Change
  <2>3. state = "draining" => Held' = {} BY <1>1, <1>13 DEF DrainState
  <2>4. cycle = "running" => failedInDrain' = drainErr BY <1>1, <1>6 DEF DrainState
  <2> QED BY <1>1, <1>6, <2>1, <2>2, <2>3, <2>4, ChangedDrain DEF Scalars
<1>15. Scalars' BY <1>1, <1>6, <1>14 DEF Scalars
<1>16. \A q \in {r} :
          /\ req[q].live /\ req[q].key = k /\ ~req'[q].live /\ req'[q].key = k
          /\ HandlerOK(req'[q])
          /\ req'[q].answer > 0 => req'[q].answer >= req'[q].order
  BY <1>1, <1>4, <1>7, <1>8 DEF HandlerOK
<1>17. /\ globalKeys' = globalKeys /\ globalWaiters' = globalWaiters - Cardinality({r})
       /\ {r} \in SUBSET Request
  BY <1>6, <1>9
<1> QED BY <1>1, <1>7, <1>12, <1>14, <1>15, <1>16, <1>17, LeaveStep

LEMMA CleanupIdleKeeps ==
  ASSUME IInv, NEW k \in Key, CleanupIdle(k)
  PROVE  Kept
<1> DEFINE e == entry[k]
           f == [e EXCEPT !.there = FALSE]
<1>1. /\ req \in [Request -> Handler] /\ Scalars /\ DrainState /\ HandlersOK /\ Counts
      /\ AnsweredByOwnOrLater /\ Entries(entry, req) /\ entry \in [Key -> Entry]
      /\ KeyInv(e, req, k) /\ e \in EntryShape /\ e.sent \in Nat /\ e.last \in Nat /\ e.there
  BY Parts, ShapeFacts DEF IInv, CleanupIdle
<1>2. /\ f \in EntryShape /\ f.queue = e.queue /\ f.act = e.act /\ f.waiters = e.waiters
      /\ f.sent = e.sent /\ f.last = e.last /\ f.count = e.count /\ ~f.there
  BY <1>1 DEF EntryShape
<1>3. entry' = [entry EXCEPT ![k] = f] BY DEF CleanupIdle
<1>4. /\ globalKeys' = globalKeys - 1
      /\ UNCHANGED <<req, state, cycle, drainErr, stop, globalWaiters, now, drains, fails,
                     failedInDrain>>
  BY DEF CleanupIdle, clock
<1>5. e = entry[k] OBVIOUS
<1> HIDE DEF e, f
<1>6. KeyInv(f, req, k)
  <2>1. Alike(e, f) BY <1>2 DEF Alike, SameWork
  <2> QED BY <1>1, <2>1, AlikeKeeps
<1>7. Entries(entry', req') /\ Forward
  <2>1. \A j \in Key \ {k} : SameFor(req, req, j) BY DEF SameFor, SameConcern
  <2>2. f.waiters <= MaxWaiters BY <1>1, <1>2, <1>5 DEF Entries
  <2>3. Onward(entry[k], f) BY <1>1, <1>2, <1>5 DEF Onward
  <2>4. Entries(entry', req) /\ \A j \in Key : Onward(entry[j], entry'[j])
    BY <1>1, <1>3, <1>6, <2>1, <2>2, <2>3, OneEntry
  <2> QED BY <1>4, <2>4 DEF Forward
<1>8. entry'[k] = f /\ \A j \in Key \ {k} : entry'[j] = entry[j] BY <1>1, <1>3
<1>9. Counts'
  <2> DEFINE S == {j \in Key : entry[j].there}
  <2>1. S \in SUBSET Key /\ IsFiniteSet(S) /\ k \in S
    BY <1>1, <1>5, IdentitiesAssumption, FS_Subset
  <2>2. {j \in Key : entry'[j].there} = S \ {k} BY <1>2, <1>8
  <2>3. Cardinality(S \ {k}) = Cardinality(S) - 1 BY <2>1, FS_RemoveElement
  <2>4. globalKeys = Cardinality(S) BY <1>1 DEF Counts
  <2> HIDE DEF S
  <2> QED BY <1>1, <1>4, <2>2, <2>3, <2>4 DEF Counts
<1>10. DrainState'
  <2>1. state \in {"drained", "closed"} => \A j \in Key : Idle(entry'[j])
    BY <1>1, <1>2, <1>5, <1>8 DEF DrainState, Idle, Busy
  <2>2. state # "closed" BY <1>1, <1>5 DEF DrainState
  <2>3. Held' = Held BY <1>4 DEF Held
  <2> QED BY <1>1, <1>4, <2>1, <2>2, <2>3, SameDrain DEF DrainState
<1>11. HandlersOK' /\ AnsweredByOwnOrLater' /\ Scalars'
  BY <1>1, <1>4 DEF HandlersOK, AnsweredByOwnOrLater, Scalars
<1> QED BY <1>1, <1>4, <1>7, <1>9, <1>10, <1>11, Assembled DEF Kept

\* Every batch is forced and every head goes upstream (advanceDrainLocked).
AllForced == [k \in Key |-> Advance(ForceBatches(entry[k]))]

LEMMA AllForcedKeeps ==
  ASSUME IInv, NEW g \in [Request -> Handler], \A j \in Key : SameFor(req, g, j)
  PROVE  /\ Entries(AllForced, g)
         /\ \A j \in Key : Onward(entry[j], AllForced[j]) /\ AllForced[j].there = entry[j].there
<1>1. req \in [Request -> Handler] /\ Entries(entry, req) BY Parts
<1>2. ASSUME NEW j \in Key
      PROVE  /\ KeyInv(AllForced[j], g, j) /\ AllForced[j].waiters <= MaxWaiters
             /\ Onward(entry[j], AllForced[j]) /\ AllForced[j].there = entry[j].there
  <2> DEFINE e == entry[j]
             f == ForceBatches(e)
  <2>1. KeyInv(e, req, j) /\ e \in EntryShape /\ e.waiters <= MaxWaiters BY <1>1, Parts DEF Entries
  <2>2. KeyInv(e, g, j) BY <1>1, <2>1, OthersKeep
  <2>3. AllForced[j] = Advance(f) BY DEF AllForced
  <2>4. e = entry[j] OBVIOUS
  <2> HIDE DEF e
  <2>5. Alike(e, f) /\ f.there = e.there BY <2>1, ForceIsAlike
  <2> HIDE DEF f
  <2>6. KeyInv(f, g, j) /\ f.waiters = e.waiters /\ f.sent = e.sent /\ f.last = e.last
    BY <2>2, <2>5, AlikeKeeps DEF Alike
  <2>7. /\ KeyInv(Advance(f), g, j) /\ Advance(f).waiters = f.waiters
        /\ Advance(f).there = f.there /\ Onward(f, Advance(f))
    BY <2>6, AdvanceKeeps
  <2> QED BY <2>1, <2>3, <2>4, <2>5, <2>6, <2>7 DEF Onward
<1>3. AllForced = [j \in Key |-> AllForced[j]] BY DEF AllForced
<1> QED BY <1>2, <1>3 DEF Entries

LEMMA ReleaseAdmissionKeeps ==
  ASSUME IInv, NEW r \in Request, ReleaseAdmission(r)
  PROVE  Kept
<1> DEFINE a == IF req[r].at \in {"fallback", "refused"} THEN "done" ELSE req[r].at
           y == [req[r] EXCEPT !.held = FALSE]
           x == [y EXCEPT !.at = a]
<1>1. /\ req[r] \in Handler /\ HandlerOK(req[r]) /\ req[r].at # "admitted" /\ req[r].held
      /\ req \in [Request -> Handler] /\ Scalars /\ DrainState /\ HandlersOK /\ Counts
      /\ AnsweredByOwnOrLater /\ Entries(entry, req)
  BY Parts DEF IInv, HandlersOK, ReleaseAdmission
<1>2. req' = [req EXCEPT ![r] = x] BY <1>1 DEF ReleaseAdmission
<1>3. EndIngress(r)
      /\ UNCHANGED <<drainErr, stop, globalKeys, globalWaiters, now, drains, fails, failedInDrain>>
  BY DEF ReleaseAdmission, clock
<1>4. /\ y \in Handler /\ y.at = req[r].at /\ ~y.held /\ y.live = req[r].live
      /\ y.key = req[r].key /\ y.order = req[r].order /\ y.answer = req[r].answer
  BY <1>1 DEF Handler
<1>5. /\ a \in {"idle", "admitted", "fallback", "refused", "update", "barrier", "stopping", "done"}
      /\ a = req[r].at \/ (a = "done" /\ req[r].at \in {"fallback", "refused"})
  BY <1>1 DEF Handler
<1> HIDE DEF a, y
<1>6. /\ x \in Handler /\ x.at = a /\ ~x.held /\ x.live = req[r].live
      /\ x.key = req[r].key /\ x.order = req[r].order /\ x.answer = req[r].answer
  BY <1>4, <1>5 DEF Handler
<1> HIDE DEF x
<1>7. req'[r] = x /\ (\A q \in Request \ {r} : req'[q] = req[q]) /\ req' \in [Request -> Handler]
  BY <1>1, <1>2, <1>6
<1>8. HandlerOK(x) /\ SameConcern(req, req', r)
  BY <1>1, <1>5, <1>6, <1>7 DEF HandlerOK, SameConcern
<1>9. \A j \in Key : SameFor(req, req', j)
  <2>1. \A q \in Request : SameConcern(req, req', q) BY <1>7, <1>8 DEF SameConcern
  <2> QED BY <2>1 DEF SameFor
<1>10. Held' = Held \ {r} BY <1>6, <1>7 DEF Held
<1>11. r \in Held /\ state \notin {"draining", "drained", "closed"}
  <2>1. r \in Held BY <1>1 DEF Held
  <2> QED BY <1>1, <2>1 DEF DrainState
<1>12. Entries(entry', req') /\ Forward /\ DrainState'
       /\ (\A j \in Key : entry'[j].there = entry[j].there)
       /\ state' \in {"open", "quiescing", "draining", "drained", "closed"}
       /\ cycle' \in {"none", "running", "ok", "failed"}
  <2>1. CASE state = "quiescing" /\ cycle = "running" /\ Held = {r}
    <3>1. CompleteDrain(AllForced, "draining", drainErr, {})
      BY <1>3, <2>1 DEF EndIngress, AllForced
    <3>2. Held' = {} BY <1>10, <2>1
    <3>3. cycle = "running" => failedInDrain' = drainErr BY <1>1, <1>3 DEF DrainState
    <3>4. /\ DrainState' /\ entry' = AllForced
          /\ state' \in {"open", "quiescing", "draining", "drained", "closed"}
          /\ cycle' \in {"none", "running", "ok", "failed"}
      BY <1>1, <1>3, <1>11, <2>1, <3>1, <3>2, <3>3, ChangedDrain DEF Scalars
    <3> QED BY <1>7, <1>9, <3>4, AllForcedKeeps DEF Forward
  <2>2. CASE ~(state = "quiescing" /\ cycle = "running" /\ Held = {r})
    <3>1. UNCHANGED <<entry, state, cycle>> BY <1>3, <2>2 DEF EndIngress
    <3>2. Entries(entry, req') /\ \A j \in Key : Onward(entry[j], entry[j])
      BY <1>1, <1>7, <1>9, NoEntryChanges
    <3>3. DrainState' BY <1>3, <1>11, <3>1, SameDrain
    <3> QED BY <1>1, <3>1, <3>2, <3>3 DEF Forward, Scalars
  <2> QED BY <2>1, <2>2
<1>13. Counts'
  <2>1. {q \in Request : req'[q].live} = {q \in Request : req[q].live} BY <1>6, <1>7
  <2>2. {j \in Key : entry'[j].there} = {j \in Key : entry[j].there} BY <1>12
  <2> QED BY <1>1, <1>3, <2>1, <2>2 DEF Counts
<1>14. HandlersOK' BY <1>1, <1>7, <1>8 DEF HandlersOK
<1>15. AnsweredByOwnOrLater' BY <1>1, <1>6, <1>7 DEF AnsweredByOwnOrLater
<1>16. Scalars' BY <1>1, <1>3, <1>12 DEF Scalars
<1> QED BY <1>7, <1>12, <1>13, <1>14, <1>15, <1>16, Assembled DEF Kept

\* The requests and what they hold stay; the entries keep their places.
LEMMA NoHandlerStep ==
  ASSUME IInv, UNCHANGED <<req, globalKeys, globalWaiters>>,
         Entries(entry', req), Forward, \A k \in Key : entry'[k].there = entry[k].there,
         DrainState', Scalars'
  PROVE  Kept
<1>1. /\ req \in [Request -> Handler] /\ HandlersOK /\ Counts /\ AnsweredByOwnOrLater
  BY Parts DEF IInv
<1>2. Counts'
  <2>1. {k \in Key : entry'[k].there} = {k \in Key : entry[k].there} OBVIOUS
  <2> QED BY <1>1, <2>1 DEF Counts
<1>3. HandlersOK' /\ AnsweredByOwnOrLater' BY <1>1 DEF HandlersOK, AnsweredByOwnOrLater
<1> QED BY <1>1, <1>2, <1>3, Assembled DEF Kept

LEMMA EntriesStay ==
  ASSUME IInv, entry' = entry
  PROVE  Entries(entry', req) /\ Forward /\ \A k \in Key : entry'[k].there = entry[k].there
<1>1. Entries(entry, req) /\ \A k \in Key : entry[k] \in EntryShape BY Parts
<1>2. \A k \in Key : entry[k].sent \in Nat /\ entry[k].last \in Nat BY <1>1, ShapeFacts
<1> QED BY <1>1, <1>2 DEF Forward, Onward

LEMMA DrainKeeps ==
  ASSUME IInv, Drain
  PROVE  Kept
<1>1. Scalars /\ DrainState /\ MaxDrain \in Nat BY Parts, CoalescerAssumption DEF IInv
<1>2. /\ stop = "serving" /\ drains < MaxDrain /\ drains' = drains + 1
      /\ UNCHANGED <<req, globalKeys, globalWaiters, now, fails>>
  BY DEF Drain
<1>3. cycle = "none" /\ state \in {"open", "drained"} BY <1>1, <1>2 DEF DrainState
<1>4. Held' = Held BY <1>2 DEF Held
<1>5. drains' \in 0..MaxDrain BY <1>1, <1>2 DEF Scalars
<1>6. CASE state = "drained"
  <2>1. stop' = "closing" /\ UNCHANGED <<entry, state, cycle, drainErr, failedInDrain>>
    BY <1>6 DEF Drain
  <2>2. DrainState' BY <1>1, <1>3, <1>4, <1>6, <2>1 DEF DrainState, Idle, Busy
  <2>3. Scalars' BY <1>1, <1>2, <1>5, <2>1 DEF Scalars
  <2> QED BY <1>2, <2>1, <2>2, <2>3, EntriesStay, NoHandlerStep
<1>7. CASE state # "drained"
  <2>1. /\ stop' = "draining" /\ drainErr' = FALSE /\ failedInDrain' = FALSE
        /\ IF Held # {}
           THEN state' = "quiescing" /\ cycle' = "running" /\ UNCHANGED entry
           ELSE /\ entry' = AllForced
                /\ IF \A k \in Key : Idle(AllForced[k])
                   THEN state' = "drained" /\ cycle' = "ok"
                   ELSE state' = "draining" /\ cycle' = "running"
    BY <1>7 DEF Drain, AllForced
  <2>2. CASE Held # {}
    <3>1. DrainState' BY <1>1, <1>4, <2>1, <2>2 DEF DrainState
    <3>2. Scalars' BY <1>1, <1>2, <1>5, <2>1, <2>2 DEF Scalars
    <3> QED BY <1>2, <2>1, <2>2, <3>1, <3>2, EntriesStay, NoHandlerStep
  <2>3. CASE Held = {}
    <3>1. entry' = AllForced BY <2>1, <2>3
    <3>2. \A k \in Key : SameFor(req, req, k) BY DEF SameFor, SameConcern
    <3>3. /\ Entries(entry', req) /\ Forward
          /\ \A k \in Key : entry'[k].there = entry[k].there
      BY <3>1, <3>2, Parts, AllForcedKeeps DEF Forward
    <3>4. \/ state' = "drained" /\ cycle' = "ok" /\ \A k \in Key : Idle(entry'[k])
          \/ state' = "draining" /\ cycle' = "running"
      BY <2>1, <2>3, <3>1
    <3>5. DrainState' BY <1>4, <2>1, <2>3, <3>4 DEF DrainState, Idle, Busy
    <3>6. Scalars' BY <1>1, <1>2, <1>5, <2>1, <3>4 DEF Scalars
    <3> QED BY <1>2, <3>3, <3>5, <3>6, NoHandlerStep
  <2> QED BY <2>2, <2>3
<1> QED BY <1>6, <1>7

LEMMA DrainReturnsKeeps ==
  ASSUME IInv, DrainReturns
  PROVE  Kept
<1>1. Scalars /\ DrainState BY Parts DEF IInv
<1>2. /\ stop = "draining" /\ cycle \in {"ok", "failed"} /\ cycle' = "none"
      /\ stop' = (IF cycle = "ok" THEN "closing" ELSE "serving")
      /\ UNCHANGED <<req, entry, state, drainErr, globalKeys, globalWaiters, now, drains,
                     fails, failedInDrain>>
  BY DEF DrainReturns, clock
<1>3. DrainState' BY <1>1, <1>2 DEF DrainState, Held, Idle, Busy
<1>4. Scalars' BY <1>1, <1>2 DEF Scalars
<1> QED BY <1>2, <1>3, <1>4, EntriesStay, NoHandlerStep

LEMMA DrainTimeoutKeeps ==
  ASSUME IInv, DrainTimeout
  PROVE  Kept
<1>1. Scalars /\ DrainState BY Parts DEF IInv
<1>2. /\ stop = "draining" /\ cycle' = "none" /\ stop' = "serving"
      /\ state' = (IF cycle = "running" THEN "open" ELSE state)
      /\ UNCHANGED <<req, entry, drainErr, globalKeys, globalWaiters, now, drains,
                     fails, failedInDrain>>
  BY DEF DrainTimeout, clock
<1>3. DrainState' BY <1>1, <1>2 DEF DrainState, Held, Idle, Busy
<1>4. Scalars' BY <1>1, <1>2 DEF Scalars
<1> QED BY <1>2, <1>3, <1>4, EntriesStay, NoHandlerStep

LEMMA TickKeeps ==
  ASSUME IInv, Tick
  PROVE  Kept
<1>1. Scalars /\ DrainState /\ MaxTime \in Nat BY Parts, CoalescerAssumption DEF IInv
<1>2. /\ now < MaxTime /\ now' = now + 1
      /\ UNCHANGED <<req, entry, state, cycle, drainErr, stop, globalKeys, globalWaiters,
                     drains, fails, failedInDrain>>
  BY DEF Tick
<1>3. DrainState' BY <1>1, <1>2 DEF DrainState, Held, Idle, Busy
<1>4. Scalars' BY <1>1, <1>2 DEF Scalars
<1> QED BY <1>2, <1>3, <1>4, EntriesStay, NoHandlerStep

LEMMA EmptiedShape ==
  ASSUME NEW e \in EntryShape
  PROVE  /\ Emptied(e) \in EntryShape /\ Emptied(e).queue = <<>> /\ Emptied(e).act = NoWork
         /\ Emptied(e).waiters = 0 /\ Emptied(e).count = e.count
         /\ ~Emptied(e).there /\ Emptied(e).sent = e.sent /\ Emptied(e).last = e.last
<1>1. e.count \in Nat /\ e.sent \in Nat /\ e.last \in Nat /\ <<>> \in Seq(Work) BY ShapeFacts
<1>2. /\ NoEntry \in EntryShape /\ NoEntry.queue = <<>> /\ NoEntry.act = NoWork
      /\ NoEntry.waiters = 0 /\ ~NoEntry.there
  BY <1>1, NoWorkFacts DEF EntryShape, NoEntry
<1> DEFINE y == [NoEntry EXCEPT !.count = e.count]
<1>3. /\ y \in EntryShape /\ y.queue = <<>> /\ y.act = NoWork
      /\ y.waiters = 0 /\ ~y.there /\ y.count = e.count
  BY <1>1, <1>2 DEF EntryShape
<1> DEFINE z == [y EXCEPT !.sent = e.sent]
<1>4. Emptied(e) = [z EXCEPT !.last = e.last] BY DEF Emptied
<1> HIDE DEF y
<1>5. /\ z \in EntryShape /\ z.queue = <<>> /\ z.act = NoWork /\ z.waiters = 0
      /\ ~z.there /\ z.count = e.count /\ z.sent = e.sent
  BY <1>1, <1>3 DEF EntryShape
<1> HIDE DEF z
<1> QED BY <1>1, <1>4, <1>5 DEF EntryShape

LEMMA CloseKeeps ==
  ASSUME IInv, Close
  PROVE  Kept
<1>1. /\ req \in [Request -> Handler] /\ Scalars /\ DrainState /\ HandlersOK /\ Counts
      /\ AnsweredByOwnOrLater /\ Entries(entry, req)
      /\ \A k \in Key : entry[k] \in EntryShape /\ KeyInv(entry[k], req, k)
  BY Parts DEF IInv
<1>2. /\ stop = "closing" /\ stop' = "closed" /\ state' = "closed"
      /\ globalKeys' = globalKeys - Cardinality({k \in Key : entry[k].there})
      /\ entry' = [k \in Key |-> Emptied(entry[k])]
      /\ UNCHANGED <<req, cycle, drainErr, globalWaiters, now, drains, fails, failedInDrain>>
  BY DEF Close, clock
<1>3. state = "drained" /\ cycle = "none" /\ Held = {} BY <1>1, <1>2 DEF DrainState
<1>4. /\ \A k \in Key : entry[k].queue = <<>> /\ entry[k].act = NoWork
      /\ \A r \in Request : ~req[r].live
  BY <1>3, IdleIsEmpty
<1>5. ASSUME NEW k \in Key
      PROVE  /\ Alike(entry[k], entry'[k]) /\ ~entry'[k].there
             /\ entry'[k].waiters <= MaxWaiters /\ Onward(entry[k], entry'[k])
             /\ entry'[k].queue = <<>> /\ entry'[k].act = NoWork
  <2> DEFINE e == entry[k]  f == entry'[k]
  <2>1. e.count \in Nat /\ e.sent \in Nat /\ e.last \in Nat /\ MaxWaiters \in Nat
    BY <1>1, ShapeFacts, CoalescerAssumption
  <2>2. f = Emptied(e) BY <1>2
  <2>3. e.waiters = 0
    <3>1. LiveOf(req, k) = {} BY <1>4 DEF LiveOf
    <3> QED BY <1>1, <3>1, FS_EmptySet DEF KeyInv
  <2>4. e.queue = <<>> /\ e.act = NoWork BY <1>4
  <2>5. e \in EntryShape BY <1>1
  <2> HIDE DEF f, e
  <2>7. /\ f \in EntryShape /\ f.queue = <<>> /\ f.act = NoWork /\ f.waiters = 0
        /\ f.count = e.count /\ ~f.there /\ f.sent = e.sent /\ f.last = e.last
    BY <2>2, <2>5, EmptiedShape
  <2>8. Alike(e, f) BY <2>3, <2>4, <2>7 DEF Alike, SameWork
  <2>9. f.waiters <= MaxWaiters /\ Onward(e, f) BY <2>1, <2>7 DEF Onward
  <2> QED BY <2>7, <2>8, <2>9 DEF e, f
<1>6. Entries(entry', req) /\ Forward
  <2>1. \A k \in Key : KeyInv(entry'[k], req, k) BY <1>1, <1>5, AlikeKeeps
  <2>2. entry' = [k \in Key |-> entry'[k]] BY <1>2
  <2> QED BY <1>5, <2>1, <2>2 DEF Entries, Forward
<1>7. Counts'
  <2>1. {k \in Key : entry'[k].there} = {} BY <1>5
  <2>2. globalKeys' = 0
    <3> DEFINE c == Cardinality({k \in Key : entry[k].there})
    <3>1. globalKeys = c /\ globalKeys' = globalKeys - c BY <1>1, <1>2 DEF Counts
    <3>2. globalKeys \in Int BY IdentitiesAssumption, FS_CardinalityType DEF IInv, TypeOK
    <3> HIDE DEF c
    <3> QED BY <3>1, <3>2
  <2>3. globalWaiters' = Cardinality({r \in Request : req'[r].live}) BY <1>1, <1>2 DEF Counts
  <2> QED BY <2>1, <2>2, <2>3, FS_EmptySet DEF Counts
<1>8. DrainState'
  <2>1. \A k \in Key : Idle(entry'[k]) BY <1>5 DEF Idle, Busy
  <2>2. Held' = {} BY <1>2, <1>3 DEF Held
  <2> QED BY <1>2, <1>3, <1>5, <2>1, <2>2 DEF DrainState
<1>9. HandlersOK' /\ AnsweredByOwnOrLater' BY <1>1, <1>2 DEF HandlersOK, AnsweredByOwnOrLater
<1>10. Scalars' BY <1>1, <1>2 DEF Scalars
<1> QED BY <1>1, <1>2, <1>6, <1>7, <1>8, <1>9, <1>10, Assembled DEF Kept

\* The entry f is e with one more request r, in the work at the end l of the
\* queue: a new one, or the batch that was there.
Extended(e, f, r, l, label) ==
  /\ f \in EntryShape /\ f.act = e.act /\ f.sent = e.sent /\ f.last = e.last
  /\ f.count = e.count + 1
  /\ f.waiters = e.waiters
  /\ l = Len(f.queue) /\ l \in DOMAIN f.queue /\ DOMAIN f.queue = DOMAIN e.queue \union {l}
  /\ \A i \in DOMAIN f.queue \ {l} : SameWork(f.queue[i], e.queue[i])
  /\ f.queue[l].req = e.count + 1
  /\ \/ /\ l \notin DOMAIN e.queue /\ f.queue[l].waiters = {r}
        /\ \/ f.queue[l].kind = "batch" /\ label = "update"
           \/ f.queue[l].kind = "barrier" /\ label = "barrier"
     \/ /\ l \in DOMAIN e.queue /\ f.queue[l].waiters = e.queue[l].waiters \union {r}
        /\ e.queue[l].kind = "batch" /\ f.queue[l].kind = "batch" /\ label = "update"

LEMMA EnteredShape ==
  ASSUME NEW e \in EntryShape
  PROVE  /\ Entered(e) \in EntryShape /\ Entered(e).queue = e.queue /\ Entered(e).act = e.act
         /\ Entered(e).waiters = e.waiters + 1 /\ Entered(e).count = e.count
         /\ Entered(e).there /\ Entered(e).sent = e.sent /\ Entered(e).last = e.last
<1> DEFINE y == [e EXCEPT !.there = TRUE]  n == e.waiters + 1
<1>1. /\ y \in EntryShape /\ y.queue = e.queue /\ y.act = e.act /\ y.there
      /\ y.count = e.count /\ y.sent = e.sent /\ y.last = e.last
  BY DEF EntryShape
<1>2. n \in Int BY ShapeFacts
<1>3. Entered(e) = [y EXCEPT !.waiters = n] BY DEF Entered
<1> HIDE DEF y, n
<1>4. /\ Entered(e) \in EntryShape /\ Entered(e).queue = e.queue /\ Entered(e).act = e.act
      /\ Entered(e).waiters = n /\ Entered(e).count = e.count
      /\ Entered(e).there /\ Entered(e).sent = e.sent /\ Entered(e).last = e.last
  BY <1>1, <1>2, <1>3 DEF EntryShape
<1> QED BY <1>4 DEF n

LEMMA EnqueueKeeps ==
  ASSUME IInv, NEW r \in Request, NEW k \in Key, NEW label \in {"update", "barrier"}, NEW e,
         NEW l, Enqueue(r, k, label, e), Extended(entry[k], e, r, l, label)
  PROVE  Kept
<1> DEFINE x == [req[r] EXCEPT !.at = label, !.key = k, !.live = TRUE, !.order = e.count]
           f == Entered(e)
           p == Advance(f)
<1>1. /\ req[r] \in Handler /\ HandlerOK(req[r]) /\ req[r].at = "admitted"
      /\ req \in [Request -> Handler] /\ Entries(entry, req) /\ Scalars /\ DrainState
      /\ HandlersOK /\ Counts /\ AnsweredByOwnOrLater
      /\ state \in {"open", "quiescing"} /\ entry[k].waiters < MaxWaiters
  BY Parts DEF IInv, HandlersOK, Enqueue, MayEnqueue
<1>2. ~req[r].live /\ req[r].order = 0 /\ req[r].answer = 0 BY <1>1 DEF HandlerOK
<1>3. /\ KeyInv(entry[k], req, k) /\ entry[k] \in EntryShape /\ entry[k].waiters \in Int
      /\ entry[k].count \in Nat /\ entry[k].sent \in Nat /\ entry[k].last \in Nat
      /\ MaxWaiters \in Nat
  BY Parts, ShapeFacts, CoalescerAssumption
<1>4. e \in EntryShape /\ e.count = entry[k].count + 1 /\ e.waiters = entry[k].waiters
      /\ e.sent = entry[k].sent /\ e.last = entry[k].last
  BY DEF Extended
<1>5. req' = [req EXCEPT ![r] = x] BY DEF Enqueue
<1>6. /\ x \in Handler /\ x.at = label /\ x.key = k /\ x.live /\ x.order = e.count
      /\ x.held = req[r].held /\ x.answer = req[r].answer
  <2> DEFINE y == [req[r] EXCEPT !.at = label, !.key = k]
             z == [y EXCEPT !.live = TRUE]
  <2>1. /\ y \in Handler /\ y.at = label /\ y.key = k
        /\ y.held = req[r].held /\ y.answer = req[r].answer
    BY <1>1 DEF Handler
  <2>2. x = [z EXCEPT !.order = e.count] OBVIOUS
  <2> HIDE DEF x, y
  <2>3. /\ z \in Handler /\ z.at = label /\ z.key = k /\ z.live
        /\ z.held = req[r].held /\ z.answer = req[r].answer
    BY <2>1 DEF Handler
  <2> HIDE DEF z
  <2>4. e.count \in Nat BY <1>3, <1>4
  <2> QED BY <2>2, <2>3, <2>4 DEF Handler
<1> HIDE DEF x
<1>7. req'[r] = x /\ (\A q \in Request \ {r} : req'[q] = req[q]) /\ req' \in [Request -> Handler]
  BY <1>1, <1>5, <1>6
<1>8. /\ f \in EntryShape /\ f.queue = e.queue /\ f.act = e.act
      /\ f.waiters = e.waiters + 1 /\ f.count = e.count /\ f.there /\ f.sent = e.sent
      /\ f.last = e.last
  BY <1>4, EnteredShape
<1>9. entry' = [entry EXCEPT ![k] = p]
      /\ globalKeys' = (IF entry[k].there THEN globalKeys ELSE globalKeys + 1)
      /\ globalWaiters' = globalWaiters + 1
      /\ UNCHANGED <<state, cycle, drainErr, stop, now, drains, fails, failedInDrain>>
  BY DEF Enqueue, ReserveWaiter, clock
<1> HIDE DEF f
<1>10. KeyInv(f, req', k)
  <2>1. Accept(entry[k], f, req, req', r, k, l)
    BY <1>1, <1>2, <1>4, <1>6, <1>7, <1>8 DEF Extended, Accept
  <2> QED BY <1>1, <1>3, <1>7, <1>8, <2>1, AcceptKeeps
<1>11. KeyInv(p, req', k) /\ p.there /\ p.waiters = f.waiters /\ Onward(f, p)
  BY <1>7, <1>8, <1>10, AdvanceKeeps
<1> HIDE DEF p
<1>12. Entries(entry', req') /\ Forward
  <2>1. ASSUME NEW j \in Key \ {k} PROVE SameFor(req, req', j)
    <3>1. Unconcerned(req, r, j) /\ Unconcerned(req', r, j)
      BY <1>1, <1>2, <1>6, <1>7 DEF Unconcerned
    <3>2. \A q \in Request \ {r} : SameConcern(req, req', q) BY <1>7 DEF SameConcern
    <3> QED BY <3>1, <3>2 DEF SameFor
  <2>2. p.waiters <= MaxWaiters /\ Onward(entry[k], p)
    BY <1>1, <1>3, <1>4, <1>8, <1>11 DEF Onward
  <2>3. Entries(entry', req') /\ \A j \in Key : Onward(entry[j], entry'[j])
    BY <1>1, <1>7, <1>9, <1>11, <2>1, <2>2, OneEntry
  <2> QED BY <2>3 DEF Forward
<1>13. entry'[k] = p /\ \A j \in Key \ {k} : entry'[j] = entry[j]
  BY <1>1, <1>9 DEF Entries
<1>14. globalWaiters' = Cardinality({q \in Request : req'[q].live})
  <2> DEFINE L == {q \in Request : req[q].live}
  <2>1. {q \in Request : req'[q].live} = L \union {r} BY <1>6, <1>7
  <2>2. L \in SUBSET Request /\ r \in Request \ L BY <1>2
  <2>3. globalWaiters = Cardinality(L) BY <1>1 DEF Counts
  <2> HIDE DEF L
  <2> QED BY <1>9, <2>1, <2>2, <2>3, OneMore
<1>15. globalKeys' = Cardinality({j \in Key : entry'[j].there})
  <2> DEFINE S == {j \in Key : entry[j].there}
  <2>1. {j \in Key : entry'[j].there} = S \union {k} BY <1>11, <1>13
  <2>2. globalKeys = Cardinality(S) BY <1>1 DEF Counts
  <2>3. IsFiniteSet(S) BY IdentitiesAssumption, FS_Subset
  <2>4. k \in S <=> entry[k].there OBVIOUS
  <2> HIDE DEF S
  <2>5. CASE entry[k].there
    <3>1. S \union {k} = S BY <2>4, <2>5
    <3> QED BY <1>9, <2>1, <2>2, <2>5, <3>1
  <2>6. CASE ~entry[k].there
    <3>1. Cardinality(S \union {k}) = Cardinality(S) + 1 BY <2>3, <2>4, <2>6, FS_AddElement
    <3> QED BY <1>9, <2>1, <2>2, <2>6, <3>1
  <2> QED BY <2>5, <2>6
<1>16. Counts' BY <1>14, <1>15 DEF Counts
<1>17. DrainState' BY <1>1, <1>9, SameDrain
<1>18. HandlersOK' BY <1>1, <1>2, <1>6, <1>7 DEF HandlersOK, HandlerOK
<1>19. AnsweredByOwnOrLater' BY <1>1, <1>2, <1>6, <1>7 DEF AnsweredByOwnOrLater
<1>20. Scalars' BY <1>1, <1>9 DEF Scalars
<1> QED BY <1>7, <1>12, <1>16, <1>17, <1>18, <1>19, <1>20, Assembled DEF Kept

LEMMA NewFacts ==
  ASSUME NEW n \in Nat, NEW r \in Request, now \in Nat
  PROVE  /\ NewBatch \in Work /\ NewBatch.kind = "batch" /\ NewBatch.waiters = {}
         /\ NewBarrier(n, r) \in Work /\ NewBarrier(n, r).kind = "barrier"
         /\ NewBarrier(n, r).req = n /\ NewBarrier(n, r).waiters = {r}
<1>1. NewBatch \in Work /\ NewBatch.kind = "batch" /\ NewBatch.waiters = {}
  BY NoWorkFacts DEF NewBatch, Work
<1> DEFINE y == [NoWork EXCEPT !.kind = "barrier", !.req = n]
<1>2. y \in Work /\ y.kind = "barrier" /\ y.req = n BY NoWorkFacts DEF Work
<1>3. NewBarrier(n, r) = [y EXCEPT !.waiters = {r}] BY DEF NewBarrier
<1> HIDE DEF y
<1>4. /\ NewBarrier(n, r) \in Work /\ NewBarrier(n, r).kind = "barrier"
      /\ NewBarrier(n, r).req = n /\ NewBarrier(n, r).waiters = {r}
  BY <1>2, <1>3 DEF Work
<1> QED BY <1>1, <1>4

\* Scheduling sets the timer, or marks the batch ready: it stays the same work
\* (scheduleBatchLocked).
LEMMA ScheduleFacts ==
  ASSUME NEW b \in Work, now \in Nat
  PROVE  Schedule(b) \in Work /\ SameWork(Schedule(b), b)
<1> DEFINE d == EarlierOf(now + Debounce, b.first + MaxDelay)
<1>1. /\ b.first \in Nat /\ b.gen \in Nat /\ b.timers \in SUBSET [gen: Nat, at: Nat]
      /\ b.gen + 1 \in Nat
  BY DEF Work
<1>2. d \in Nat BY <1>1, CoalescerAssumption DEF EarlierOf
<1> HIDE DEF d
<1>3. CASE b.ready # "no" BY <1>3 DEF Schedule, SameWork
<1>4. CASE b.ready = "no" /\ d <= now
  <2> DEFINE y == [b EXCEPT !.ready = "due", !.due = d]
  <2>1. Schedule(b) = [y EXCEPT !.timers = {}] BY <1>4 DEF Schedule, d
  <2>2. y \in Work /\ SameWork(y, b) BY <1>2 DEF Work, SameWork
  <2> HIDE DEF y
  <2> QED BY <2>1, <2>2 DEF Work, SameWork
<1>5. CASE b.ready = "no" /\ ~(d <= now)
  <2> DEFINE y == [b EXCEPT !.gen = b.gen + 1, !.due = d]
             T == {t \in b.timers : t.at <= now} \cup {[gen |-> b.gen + 1, at |-> d]}
  <2>1. Schedule(b) = [y EXCEPT !.timers = T] BY <1>5 DEF Schedule, d
  <2>2. y \in Work /\ SameWork(y, b) BY <1>1, <1>2 DEF Work, SameWork
  <2>3. T \in SUBSET [gen: Nat, at: Nat]
    <3>1. [gen |-> b.gen + 1, at |-> d] \in [gen: Nat, at: Nat] BY <1>1, <1>2
    <3> QED BY <1>1, <3>1
  <2> HIDE DEF y, T
  <2> QED BY <2>1, <2>2, <2>3 DEF Work, SameWork
<1> QED BY <1>3, <1>4, <1>5

LEMMA JoinedFacts ==
  ASSUME NEW b \in Work, NEW n \in Nat, NEW r \in Request, now \in Nat
  PROVE  /\ Joined(b, n, r) \in Work /\ Joined(b, n, r).kind = b.kind
         /\ Joined(b, n, r).req = n /\ Joined(b, n, r).waiters = b.waiters \union {r}
<1> DEFINE w == b.waiters \union {r}
           y == [b EXCEPT !.req = n]
           z == [y EXCEPT !.waiters = w]
<1>1. w \in SUBSET Request BY DEF Work
<1>2. Joined(b, n, r) = Schedule(z) BY DEF Joined
<1>3. w = b.waiters \union {r} OBVIOUS
<1>4. y \in Work /\ y.kind = b.kind /\ y.req = n BY DEF Work
<1> HIDE DEF w, y
<1>5. z \in Work /\ z.kind = b.kind /\ z.req = n /\ z.waiters = w BY <1>1, <1>4 DEF Work
<1> HIDE DEF z
<1> QED BY <1>2, <1>3, <1>5, ScheduleFacts DEF SameWork

\* An entry whose queue and count of reports are replaced.
Requeue(e, n, q) == [e EXCEPT !.count = n, !.queue = q]

LEMMA RequeueShape ==
  ASSUME NEW e \in EntryShape, NEW n \in Nat, NEW q \in Seq(Work)
  PROVE  /\ Requeue(e, n, q) \in EntryShape /\ Requeue(e, n, q).queue = q
         /\ Requeue(e, n, q).count = n /\ Requeue(e, n, q).act = e.act
         /\ Requeue(e, n, q).sent = e.sent /\ Requeue(e, n, q).last = e.last
         /\ Requeue(e, n, q).waiters = e.waiters
<1> DEFINE y == [e EXCEPT !.count = n]
<1>1. /\ y \in EntryShape /\ y.act = e.act /\ y.waiters = e.waiters
      /\ y.count = n /\ y.sent = e.sent /\ y.last = e.last
  BY DEF EntryShape
<1>2. Requeue(e, n, q) = [y EXCEPT !.queue = q] BY DEF Requeue
<1> HIDE DEF y
<1> QED BY <1>1, <1>2 DEF EntryShape

\* A work at the end of the queue.
LEMMA AppendExtends ==
  ASSUME NEW e \in EntryShape, NEW f \in EntryShape, NEW w \in Work, NEW r \in Request,
         NEW label, f.queue \in Seq(Work), DOMAIN f.queue = DOMAIN e.queue,
         \A i \in DOMAIN e.queue : SameWork(f.queue[i], e.queue[i]),
         f.act = e.act, f.sent = e.sent, f.last = e.last, f.waiters = e.waiters,
         f.count = e.count,
         w.req = e.count + 1, w.waiters = {r},
         (w.kind = "batch" /\ label = "update") \/ (w.kind = "barrier" /\ label = "barrier")
  PROVE  Extended(e, Requeue(f, e.count + 1, Append(f.queue, w)), r, Len(e.queue) + 1, label)
<1> DEFINE q == Append(f.queue, w)  n == e.count + 1  g == Requeue(f, n, q)
           l == Len(e.queue) + 1
<1>1. /\ Len(e.queue) \in Nat /\ DOMAIN e.queue = 1..Len(e.queue)
      /\ Len(f.queue) \in Nat /\ DOMAIN f.queue = 1..Len(f.queue)
  BY ShapeFacts
<1>2. Len(f.queue) = Len(e.queue) BY <1>1
<1>3. /\ q \in Seq(Work) /\ Len(q) = Len(e.queue) + 1 /\ DOMAIN q = 1..(Len(e.queue) + 1)
      /\ \A i \in 1..Len(e.queue) : q[i] = f.queue[i]
      /\ q[Len(e.queue) + 1] = w
  <2>1. /\ q \in Seq(Work) /\ Len(q) = Len(f.queue) + 1
        /\ \A i \in 1..Len(f.queue) : q[i] = f.queue[i]
        /\ q[Len(f.queue) + 1] = w
    BY AppendProperties
  <2>2. DOMAIN q = 1..Len(q) BY <2>1, LenProperties
  <2> QED BY <1>2, <2>1, <2>2
<1>4. n \in Nat /\ n = e.count + 1 BY ShapeFacts
<1> HIDE DEF q, n
<1>5. /\ g \in EntryShape /\ g.queue = q /\ g.count = n /\ g.act = e.act
      /\ g.sent = e.sent /\ g.last = e.last /\ g.waiters = e.waiters
  <2>1. f \in EntryShape /\ n \in Nat /\ q \in Seq(Work) BY <1>3, <1>4
  <2>2. /\ g \in EntryShape /\ g.queue = q /\ g.count = n /\ g.act = f.act
        /\ g.sent = f.sent /\ g.last = f.last /\ g.waiters = f.waiters
    BY ONLY <2>1, RequeueShape
  <2> HIDE DEF g
  <2> QED BY <2>2
<1> HIDE DEF g
<1>6. /\ l = Len(g.queue) /\ l \in DOMAIN g.queue /\ DOMAIN g.queue = DOMAIN e.queue \union {l}
      /\ l \notin DOMAIN e.queue
      /\ \A i \in DOMAIN g.queue \ {l} : i \in DOMAIN e.queue
  BY <1>1, <1>3, <1>5
<1>7. \A i \in DOMAIN g.queue \ {l} : SameWork(g.queue[i], e.queue[i])
  BY <1>1, <1>3, <1>5, <1>6
<1>8. g.queue[l] = w BY <1>3, <1>5
<1>9. Extended(e, g, r, l, label)
  BY <1>4, <1>5, <1>6, <1>7, <1>8 DEF Extended
<1> QED BY <1>4, <1>9 DEF g, q, n

LEMMA EnqueueBarrierKeeps ==
  ASSUME IInv, NEW r \in Request, NEW k \in Key, EnqueueBarrier(r, k)
  PROVE  Kept
<1> DEFINE e == entry[k]
           f == ForceBatches(e)
           n == e.count + 1
           w == NewBarrier(n, r)
<1>1. /\ e \in EntryShape /\ e.count \in Nat /\ now \in Nat
  <2>1. e \in EntryShape /\ now \in 0..MaxTime /\ MaxTime \in Nat
    BY Parts, CoalescerAssumption DEF Scalars
  <2> QED BY <2>1, ShapeFacts
<1>2. Alike(e, f) BY <1>1, ForceIsAlike
<1>3. WithBarrier(e, r) = Requeue(f, e.count + 1, Append(f.queue, w))
  <2>1. f.count = e.count BY <1>2 DEF Alike
  <2> QED BY <2>1 DEF WithBarrier, Requeue
<1>4. e = entry[k] /\ n \in Nat /\ n = e.count + 1 BY <1>1
<1> HIDE DEF e, f, n
<1>5. w \in Work /\ w.req = n /\ w.kind = "barrier" /\ w.waiters = {r}
  BY <1>1, <1>4, NewFacts
<1> HIDE DEF w
<1>6. f.queue \in Seq(Work) BY <1>2, ShapeFacts DEF Alike
<1>7. Extended(e, WithBarrier(e, r), r, Len(e.queue) + 1, "barrier")
  BY <1>1, <1>2, <1>3, <1>4, <1>5, <1>6, AppendExtends DEF Alike
<1>8. Enqueue(r, k, "barrier", WithBarrier(e, r)) BY <1>4 DEF EnqueueBarrier
<1>9. "barrier" \in {"update", "barrier"} OBVIOUS
<1> QED BY <1>4, <1>7, <1>8, <1>9, EnqueueKeeps

LEMMA EnqueueUpdateKeeps ==
  ASSUME IInv, NEW r \in Request, NEW k \in Key, EnqueueUpdate(r, k)
  PROVE  Kept
<1> DEFINE e == entry[k]
           n == e.count + 1
           at == JoinsAt(e)
           f == WithUpdate(e, r)
<1>1. /\ e \in EntryShape /\ e.count \in Nat /\ now \in Nat
      /\ e.queue \in Seq(Work) /\ DOMAIN e.queue = 1..Len(e.queue) /\ Len(e.queue) \in Nat
      /\ \A i \in DOMAIN e.queue : e.queue[i] \in Work
  <2>1. e \in EntryShape /\ now \in 0..MaxTime /\ MaxTime \in Nat
    BY Parts, CoalescerAssumption DEF Scalars
  <2> QED BY <2>1, ShapeFacts
<1>2. e = entry[k] /\ n \in Nat /\ n = e.count + 1 BY <1>1
<1>3. Enqueue(r, k, "update", f) BY DEF EnqueueUpdate
<1>4. \/ at = 0
      \/ at = Len(e.queue) /\ at \in DOMAIN e.queue /\ e.queue[at].kind = "batch"
  <2>1. CASE e.queue # <<>> /\ IsBatch(Last(e.queue))
    <3>1. Len(e.queue) >= 1 BY <1>1, <2>1, EmptySeq
    <3>2. Last(e.queue) = e.queue[Len(e.queue)] BY DEF Last
    <3> QED BY <1>1, <2>1, <3>1, <3>2 DEF JoinsAt, IsBatch
  <2>2. CASE ~(e.queue # <<>> /\ IsBatch(Last(e.queue))) BY <2>2 DEF JoinsAt
  <2> QED BY <2>1, <2>2
<1>5. "update" \in {"update", "barrier"} OBVIOUS
<1>6. CASE at = 0
  <2> DEFINE w == Joined(NewBatch, n, r)
  <2>1. f = Requeue(e, e.count + 1, Append(e.queue, w))
    BY <1>6 DEF WithUpdate, Requeue
  <2> HIDE DEF f, e, n, at
  <2>2. w \in Work /\ w.req = n /\ w.kind = "batch" /\ w.waiters = {r}
    <3>1. NewBatch \in Work /\ NewBatch.kind = "batch" /\ NewBatch.waiters = {}
      BY <1>1, <1>2, NewFacts
    <3>2. /\ w \in Work /\ w.kind = NewBatch.kind /\ w.req = n
          /\ w.waiters = NewBatch.waiters \union {r}
      <4>1. NewBatch \in Work /\ n \in Nat /\ r \in Request /\ now \in Nat BY <1>1, <1>2, <3>1
      <4> QED BY ONLY <4>1, JoinedFacts
    <3> QED BY <3>1, <3>2
  <2> HIDE DEF w
  <2>3. \A i \in DOMAIN e.queue : SameWork(e.queue[i], e.queue[i]) BY DEF SameWork
  <2>4. Extended(e, Requeue(e, e.count + 1, Append(e.queue, w)), r, Len(e.queue) + 1, "update")
    BY <1>1, <1>2, <2>2, <2>3, AppendExtends
  <2>5. Extended(entry[k], f, r, Len(e.queue) + 1, "update") BY <1>2, <2>1, <2>4
  <2> QED BY <1>3, <1>5, <2>5, EnqueueKeeps
<1>7. CASE at = Len(e.queue) /\ at \in DOMAIN e.queue /\ e.queue[at].kind = "batch"
  <2> DEFINE w == Joined(e.queue[at], n, r)
             q == [e.queue EXCEPT ![at] = w]
  <2>1. at # 0 BY <1>1, <1>7
  <2>2. f = Requeue(e, n, q)
    BY <2>1 DEF WithUpdate, Requeue
  <2> HIDE DEF f, e, n, at
  <2>3. e.queue[at] \in Work BY <1>1, <1>7
  <2>4. w \in Work /\ w.req = n /\ w.kind = "batch" /\ w.waiters = e.queue[at].waiters \union {r}
    <3> DEFINE b == e.queue[at]
    <3>1. b \in Work /\ n \in Nat /\ r \in Request /\ now \in Nat BY <1>1, <1>2, <2>3
    <3>2. w = Joined(b, n, r) /\ b = e.queue[at] /\ b.kind = "batch" BY <1>7
    <3> HIDE DEF w, b
    <3>3. w \in Work /\ w.kind = b.kind /\ w.req = n /\ w.waiters = b.waiters \union {r}
      BY ONLY <3>1, <3>2, JoinedFacts
    <3> QED BY <3>2, <3>3
  <2> HIDE DEF w
  <2>5. /\ q \in Seq(Work) /\ DOMAIN q = DOMAIN e.queue /\ Len(q) = Len(e.queue) /\ q[at] = w
        /\ \A i \in DOMAIN e.queue \ {at} : q[i] = e.queue[i]
    <3>1. /\ DOMAIN q = DOMAIN e.queue /\ q[at] = w
          /\ \A i \in DOMAIN e.queue \ {at} : q[i] = e.queue[i]
      BY <1>1, <1>7
    <3>2. q \in Seq(Work) BY <1>1, <1>7, <2>4
    <3>3. DOMAIN q = 1..Len(q) /\ Len(q) \in Nat BY <3>2, LenProperties
    <3>4. \A a, b \in Nat : 1..a = 1..b => a = b
      <4> SUFFICES ASSUME NEW a \in Nat, NEW b \in Nat, 1..a = 1..b PROVE a = b
        OBVIOUS
      <4>1. (a = 0 \/ a \in 1..b) /\ (b = 0 \/ b \in 1..a) OBVIOUS
      <4>2. a # 0 => 1 \in 1..b OBVIOUS
      <4>3. b # 0 => 1 \in 1..a OBVIOUS
      <4> QED BY <4>1, <4>2, <4>3
    <3> QED BY <1>1, <3>1, <3>2, <3>3, <3>4
  <2> HIDE DEF q
  <2>6. /\ f \in EntryShape /\ f.queue = q /\ f.count = n /\ f.act = e.act
        /\ f.sent = e.sent /\ f.last = e.last /\ f.waiters = e.waiters
    <3>1. e \in EntryShape /\ n \in Nat /\ q \in Seq(Work) BY <1>1, <1>2, <2>5
    <3> QED BY ONLY <2>2, <3>1, RequeueShape
  <2>7. Extended(e, f, r, at, "update")
    BY <1>2, <1>7, <2>4, <2>5, <2>6 DEF Extended, SameWork
  <2>8. Extended(entry[k], f, r, at, "update") BY <1>2, <2>7
  <2> QED BY <1>3, <1>5, <2>8, EnqueueKeeps
<1> QED BY <1>4, <1>6, <1>7

-----------------------------------------------------------------------------
(* The specification.                                                        *)

LEMMA InitOK == Init => IInv
<1> SUFFICES ASSUME Init PROVE IInv OBVIOUS
<1> USE DEF Init
<1>1. NoRequest \in Handler /\ NoRequest.at = "idle" /\ ~NoRequest.held /\ ~NoRequest.live
      /\ NoRequest.order = 0 /\ NoRequest.answer = 0
  <2>1. (CHOOSE k \in Key : TRUE) \in Key BY IdentitiesAssumption
  <2> QED BY <2>1 DEF NoRequest, Handler
<1>2. req \in [Request -> Handler] /\ \A r \in Request : req[r] = NoRequest BY <1>1
<1>3. /\ NoEntry \in EntryShape /\ NoEntry.queue = <<>> /\ NoEntry.act = NoWork
      /\ NoEntry.waiters = 0 /\ ~NoEntry.there
      /\ NoEntry.count = 0 /\ NoEntry.sent = 0 /\ NoEntry.last = 0
  <2>1. <<>> \in Seq(Work) OBVIOUS
  <2> QED BY <2>1, NoWorkFacts DEF EntryShape, NoEntry
<1>4. \A k \in Key : entry[k] = NoEntry OBVIOUS
<1>5. MaxWaiters \in Nat /\ MaxTime \in Nat /\ MaxDrain \in Nat /\ MaxFail \in Nat
  BY CoalescerAssumption
<1>6. ASSUME NEW k \in Key PROVE KeyInv(NoEntry, req, k)
  <2>1. DOMAIN NoEntry.queue = {} BY <1>3
  <2>2. Ordered(NoEntry) /\ OneWork(NoEntry)
    BY <1>3, <2>1, NoWorkFacts DEF Ordered, OneWork
  <2>3. \A r \in Request : ~WaitsIn(NoEntry, r) BY <1>3, <2>1, NoWorkFacts DEF WaitsIn
  <2>4. Fits(NoEntry.act, req) BY <1>3, NoWorkFacts DEF Fits
  <2>5. LiveOf(req, k) = {} BY <1>1, <1>2 DEF LiveOf
  <2>6. NoEntry.waiters = Cardinality(LiveOf(req, k)) BY <1>3, <2>5, FS_EmptySet
  <2> QED BY <1>1, <1>2, <1>3, <2>1, <2>2, <2>3, <2>4, <2>6 DEF KeyInv
<1>7. Entries(entry, req)
  <2>1. entry = [k \in Key |-> entry[k]] OBVIOUS
  <2> QED BY <1>3, <1>4, <1>5, <1>6, <2>1 DEF Entries
<1>8. entry \in [Key -> Entry] BY <1>7, EntriesTyped
<1>9. Counts
  <2>1. {r \in Request : req[r].live} = {} BY <1>1, <1>2
  <2>2. {k \in Key : entry[k].there} = {} BY <1>3, <1>4
  <2> QED BY <2>1, <2>2, FS_EmptySet DEF Counts
<1>10. TypeOK
  <2>1. Cardinality(Key) \in Nat BY IdentitiesAssumption, FS_CardinalityType
  <2>2. globalKeys \in 0..Cardinality(Key) BY <2>1
  <2>3. 0 \in 0..MaxTime /\ 0 \in 0..MaxDrain /\ 0 \in 0..MaxFail BY <1>5
  <2>4. now \in 0..MaxTime /\ drains \in 0..MaxDrain /\ fails \in 0..MaxFail BY <2>3
  <2>5. globalWaiters \in Nat /\ drainErr \in BOOLEAN /\ failedInDrain \in BOOLEAN OBVIOUS
  <2>6. /\ state \in {"open", "quiescing", "draining", "drained", "closed"}
        /\ cycle \in {"none", "running", "ok", "failed"}
        /\ stop \in {"serving", "draining", "closing", "closed"}
    OBVIOUS
  <2> HIDE DEF Init
  <2> QED BY ONLY <1>2, <1>8, <2>2, <2>4, <2>5, <2>6 DEF TypeOK
<1>11. HandlersOK BY <1>1, <1>2 DEF HandlersOK, HandlerOK
<1>12. DrainState BY DEF DrainState
<1>13. AnsweredByOwnOrLater BY <1>1, <1>2 DEF AnsweredByOwnOrLater
<1> QED BY <1>7, <1>9, <1>10, <1>11, <1>12, <1>13 DEF IInv, Entries

LEMMA NextKeeps == IInv /\ [Next]_vars => Kept
<1> SUFFICES ASSUME IInv, [Next]_vars PROVE Kept OBVIOUS
<1>1. ASSUME NEW r \in Request, BeginIngress(r) PROVE Kept BY <1>1, BeginIngressKeeps
<1>2. ASSUME NEW r \in Request, NEW k \in Key, Fallback(r, k) PROVE Kept
  BY <1>2, FallbackKeeps
<1>3. ASSUME NEW r \in Request, NEW k \in Key, EnqueueUpdate(r, k) PROVE Kept
  BY <1>3, EnqueueUpdateKeeps
<1>4. ASSUME NEW r \in Request, NEW k \in Key, EnqueueBarrier(r, k) PROVE Kept
  BY <1>4, EnqueueBarrierKeeps
<1>5. ASSUME NEW r \in Request, ReleaseAdmission(r) PROVE Kept BY <1>5, ReleaseAdmissionKeeps
<1>6. ASSUME NEW r \in Request, Receive(r) PROVE Kept BY <1>6, ReceiveKeeps
<1>7. ASSUME NEW r \in Request, Granted(r) PROVE Kept BY <1>7, GrantedKeeps
<1>8. ASSUME NEW r \in Request, ReleaseBarrier(r) PROVE Kept BY <1>8, ReleaseBarrierKeeps
<1>9. ASSUME NEW r \in Request, CancelUpdate(r) PROVE Kept BY <1>9, CancelUpdateKeeps
<1>10. ASSUME NEW r \in Request, CancelBarrier(r) PROVE Kept BY <1>10, CancelBarrierKeeps
<1>11. ASSUME NEW r \in Request, DiscardBarrier(r) PROVE Kept BY <1>11, DiscardBarrierKeeps
<1>12. ASSUME NEW k \in Key, NEW i \in DOMAIN entry[k].queue,
              NEW t \in entry[k].queue[i].timers, Fire(k, i, t)
       PROVE  Kept
  BY <1>12, FireKeeps
<1>13. ASSUME NEW k \in Key, NEW ok \in BOOLEAN, DispatchDone(k, ok) PROVE Kept
  BY <1>13, DispatchDoneKeeps
<1>14. ASSUME NEW k \in Key, CleanupIdle(k) PROVE Kept BY <1>14, CleanupIdleKeeps
<1>15. CASE Drain BY <1>15, DrainKeeps
<1>16. CASE DrainReturns BY <1>16, DrainReturnsKeeps
<1>17. CASE DrainTimeout BY <1>17, DrainTimeoutKeeps
<1>18. CASE Close BY <1>18, CloseKeeps
<1>19. CASE Tick BY <1>19, TickKeeps
<1>20. CASE UNCHANGED vars
  <2>1. UNCHANGED <<req, entry, state, cycle, drainErr, stop, globalKeys, globalWaiters,
                    now, drains, fails, failedInDrain>>
    BY <1>20 DEF vars
  <2>2. DrainState /\ Scalars BY Parts DEF IInv
  <2>3. DrainState' BY <2>1, <2>2 DEF DrainState, Held, Idle, Busy
  <2>4. Scalars' BY <2>1, <2>2 DEF Scalars
  <2> QED BY <2>1, <2>3, <2>4, EntriesStay, NoHandlerStep
<1>21. CASE Arrivals BY <1>1, <1>2, <1>3, <1>4, <1>21 DEF Arrivals
<1>22. CASE Progress BY <1>5, <1>6, <1>7, <1>8, <1>22 DEF Progress
<1>23. CASE Cancels BY <1>9, <1>10, <1>23, <1>11 DEF Cancels
<1>24. CASE Timers BY <1>12, <1>24 DEF Timers
<1>25. CASE Dispatches BY <1>13, <1>25 DEF Dispatches
<1>26. CASE Stops BY <1>15, <1>16, <1>17, <1>18, <1>26 DEF Stops
<1> QED
  BY <1>14, <1>19, <1>20, <1>21, <1>22, <1>23, <1>24, <1>25, <1>26 DEF Next

LEMMA Invariant == Spec => []IInv
<1>1. IInv /\ [Next]_vars => IInv' BY NextKeeps DEF Kept
<1> QED BY InitOK, <1>1, PTL DEF Spec

\* Types: a waiter count never passes the limit of its key, the held share of
\* the global limit never passes the number of keys.
THEOREM TypeCorrect == Spec => []TypeOK
<1>1. IInv => TypeOK BY DEF IInv
<1> QED BY Invariant, <1>1, PTL

\* What the queue of a key sends goes in the order it was accepted, and a later
\* report is followed by an earlier one only where it had passed the queue
\* (advanceEntryLocked takes the head; enqueueUpdate and enqueueBarrier append;
\* serveProgressFallback sends at once).
THEOREM UpstreamNeverGoesBack == Spec => NeverBackwards
<1> DEFINE Step == \A k \in Key :
                     /\ entry'[k].sent >= entry[k].sent
                     /\ entry'[k].last >= entry[k].last \/ entry[k].last > entry[k].sent
<1>1. IInv /\ [Next]_vars => Forward BY NextKeeps DEF Kept
<1>2. Forward => Step BY DEF Forward, Onward
<1>3. IInv /\ [Next]_vars => [Step]_vars BY <1>1, <1>2
<1> QED BY Invariant, <1>3, PTL DEF Spec, NeverBackwards

\* A report that was accepted goes upstream, or a later one of its key in its
\* place, whether or not its client still waits (resolveCanceledWaiter leaves
\* the batch); only a Stopped that is not yet sent goes with its client, and
\* alone (removeBarrierLocked, ServeHTTP).
THEOREM NothingIsDropped == Spec => []NothingDropped
<1>1. IInv => NothingDropped
  <2> SUFFICES ASSUME IInv, NEW r \in Request, req[r].order > 0
               PROVE  LET e == entry[req[r].key]
                      IN  \/ e.sent >= req[r].order \/ Carrying(e.act, r)
                          \/ \E i \in DOMAIN e.queue : Carrying(e.queue[i], r)
    BY DEF NothingDropped
  <2> DEFINE k == req[r].key
  <2>1. k \in Key BY Parts DEF Handler
  <2>2. Covered(entry[k], req, r) BY <2>1, Parts DEF KeyInv
  <2> QED BY <2>2 DEF Covered, Carries, Carrying, IsBatch
<1> QED BY Invariant, <1>1, PTL

\* A client is told the outcome of its own report or of a later one
\* (dispatchBatch answers the waiters of the batch it sent).
THEOREM AnswersAreOwnOrLater == Spec => []AnsweredByOwnOrLater
<1>1. IInv => AnsweredByOwnOrLater BY DEF IInv
<1> QED BY Invariant, <1>1, PTL

\* A drain that succeeded found every report delivered and every handler past
\* the coalescer (completeDrainLocked).
THEOREM DrainedIsDelivered == Spec => []DrainedMeansDelivered
<1>1. IInv => DrainedMeansDelivered
  <2> SUFFICES ASSUME IInv, state = "drained"
               PROVE  /\ ~failedInDrain /\ \A k \in Key : Idle(entry[k])
                      /\ \A r \in Request : ~req[r].held /\ ~req[r].live /\ req[r].at # "stopping"
    BY DEF DrainedMeansDelivered
  <2>1. ~failedInDrain /\ (\A k \in Key : Idle(entry[k])) /\ Held = {}
    BY DEF IInv, DrainState
  <2>2. \A r \in Request : ~req[r].live BY IdleIsEmpty
  <2>3. \A r \in Request : req[r].at # "stopping" BY <2>2 DEF IInv, HandlersOK, HandlerOK
  <2> QED BY <2>1, <2>2, <2>3 DEF Held
<1> QED BY Invariant, <1>1, PTL

\* Every waiter and every key reserved of the global limit is released once,
\* and closing leaves nothing reserved (reserveWaiter, releaseWaiter, Close).
THEOREM LimitsStayBalanced == Spec => []LimitsBalanced
<1>1. IInv => LimitsBalanced
  <2> SUFFICES ASSUME IInv PROVE LimitsBalanced OBVIOUS
  <2>1. \A k \in Key : entry[k].waiters = Cardinality({r \in Request : req[r].live /\ req[r].key = k})
    BY Parts DEF KeyInv, LiveOf
  <2>2. Counts BY DEF IInv
  <2>3. ASSUME state = "closed" PROVE globalKeys = 0 /\ globalWaiters = 0
    <3>1. {k \in Key : entry[k].there} = {} BY <2>3 DEF IInv, DrainState
    <3>2. {r \in Request : req[r].live} = {} BY <2>3, IdleIsEmpty
    <3> QED BY <2>2, <3>1, <3>2, FS_EmptySet DEF Counts
  <2> QED BY <2>1, <2>2, <2>3 DEF LimitsBalanced, Counts
<1> QED BY Invariant, <1>1, PTL

=============================================================================
