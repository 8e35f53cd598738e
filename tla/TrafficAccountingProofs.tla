---------------------- MODULE TrafficAccountingProofs ----------------------
(***************************************************************************)
(* Proofs about TrafficAccounting, for any finite set of requests, any     *)
(* payload sizes and any bounds: first the byte counters and the lifecycle *)
(* (IInv), then what the database shows by minute and by request           *)
(* (ViewInv), whose sums over minutes and over meters rest on the laws of  *)
(* SumTheorems.                                                            *)
(***************************************************************************)
EXTENDS TrafficAccounting, SumTheorems, TLAPS

BytesTyped ==
  /\ bytes \in [Direction -> Nat]
  /\ flight.bytes \in [Direction -> Nat]
  /\ persistedTraffic \in Nat
  /\ siteUsed \in Nat
  /\ rowUsed \in Nat
  /\ rowDir \in [Direction -> Nat]
  /\ served \in [Direction -> Nat]
  /\ served["in"] + served["out"] <= MaxServed
  /\ lost \in [Direction -> Nat]

(* Where a lifecycle call is tells what it has already made sure of. *)
JobShape ==
  /\ gate \in {"absent", "open", "closed"}
  /\ job \in [kind: {"none", "stop", "start", "shutdown"},
              at: {"idle", "close", "drain", "leave"} \cup JobFlush,
              row: [used: Nat, dir: [Direction -> Nat]]]
  /\ job.kind = "none" <=> job.at = "idle"
  /\ job.at \in {"first", "close"} => gate # "absent"
  /\ job.at \in {"drain", "final", "late"} => gate = "closed"
  /\ job.at = "leave" => gate = "closed" \/ (gate = "absent" /\ job.kind = "start")
  /\ job.at \in {"final", "leave"} => Active = {}

(* A flush belongs to the ticker or to the lifecycle call that waits for   *)
(* it, and only to an installed instance.                                  *)
FlightShape ==
  /\ flight.by \in {"none", "ticker"} \cup JobFlush
  /\ flight.by = "none" => flight.bytes = NoBytes
  /\ flight.by # "none" => gate # "absent"
  /\ flight.by \in JobFlush => job.at = flight.by
  /\ flight.by = "final" => NothingPending

AbsentIsClean == gate = "absent" => NothingPending /\ Active = {}

(* The row copy a start was called with can only be behind the row, and is *)
(* the row itself when there is no instance to flush.                      *)
RowCopy ==
  job.kind = "start" => /\ job.row.used <= rowUsed
                        /\ gate = "absent" => job.row.used = rowUsed

IInv == /\ BytesTyped
        /\ JobShape
        /\ FlightShape
        /\ AbsentIsClean
        /\ LeavesNothingBehind
        /\ RowCopy
        /\ Conservation
        /\ BaselineIsRow

-----------------------------------------------------------------------------
LEMMA InitInvariant == Init => IInv
  BY BoundAssumption
     DEF Init, IInv, BytesTyped, JobShape, FlightShape, AbsentIsClean, RowCopy,
         LeavesNothingBehind, Conservation, BaselineIsRow, NothingPending, Flushing,
         Active, Direction, NoBytes, NoFlight, NoJob, NoRow, NoMeter, NoMinutes,
         JobFlush

(***************************************************************************)
(* One lemma per action: the step keeps the inductive invariant.           *)
(***************************************************************************)
LEMMA AdmitInvariant ==
  ASSUME IInv, NEW r \in Request, Admit(r)
  PROVE  IInv'
<1> USE DEF IInv, Admit, control, instance, database, history
<1>1. BytesTyped' /\ Conservation'
  BY DEF BytesTyped, Conservation
<1>2. JobShape'
  BY DEF JobShape, Active, JobFlush
<1>3. FlightShape'
  BY DEF FlightShape, JobShape, NothingPending, Active, JobFlush
<1>4. AbsentIsClean' /\ LeavesNothingBehind'
  BY DEF AbsentIsClean, LeavesNothingBehind, JobShape, FlightShape, NothingPending,
         Active, Flushing, JobFlush
<1>5. RowCopy' /\ BaselineIsRow'
  BY DEF BytesTyped, JobShape, FlightShape, RowCopy, BaselineIsRow, Direction
<1> QED
  BY <1>1, <1>2, <1>3, <1>4, <1>5

LEMMA NewMeterInvariant ==
  ASSUME IInv, NEW r \in Request, NewMeter(r)
  PROVE  IInv'
<1> USE DEF IInv, NewMeter, control, instance, database, history
<1>1. BytesTyped' /\ Conservation'
  BY DEF BytesTyped, Conservation
<1>2. JobShape'
  BY DEF JobShape, Active, JobFlush
<1>3. FlightShape'
  BY DEF FlightShape, JobShape, NothingPending, Active, JobFlush
<1>4. AbsentIsClean' /\ LeavesNothingBehind'
  BY DEF AbsentIsClean, LeavesNothingBehind, JobShape, FlightShape, NothingPending,
         Active, Flushing, JobFlush
<1>5. RowCopy' /\ BaselineIsRow'
  BY DEF BytesTyped, JobShape, FlightShape, RowCopy, BaselineIsRow, Direction
<1> QED
  BY <1>1, <1>2, <1>3, <1>4, <1>5

LEMMA DeferFinishInvariant ==
  ASSUME IInv, NEW r \in Request, DeferFinish(r)
  PROVE  IInv'
<1> USE DEF IInv, DeferFinish, control, instance, database, history
<1>1. BytesTyped' /\ Conservation'
  BY DEF BytesTyped, Conservation
<1>2. JobShape'
  BY DEF JobShape, Active, JobFlush
<1>3. FlightShape'
  BY DEF FlightShape, JobShape, NothingPending, Active, JobFlush
<1>4. AbsentIsClean' /\ LeavesNothingBehind'
  BY DEF AbsentIsClean, LeavesNothingBehind, JobShape, FlightShape, NothingPending,
         Active, Flushing, JobFlush
<1>5. RowCopy' /\ BaselineIsRow'
  BY DEF BytesTyped, JobShape, FlightShape, RowCopy, BaselineIsRow, Direction
<1> QED
  BY <1>1, <1>2, <1>3, <1>4, <1>5

LEMMA AddFastInvariant ==
  ASSUME IInv, NEW r \in Request, NEW d \in Direction, NEW n \in Payload,
         AddFast(r, d, n)
  PROVE  IInv'
<1> USE DEF IInv, AddFast, CountBytes, control, instance, database, history
<1>1. BytesTyped' /\ Conservation'
  BY BoundAssumption, PayloadAssumption DEF BytesTyped, Conservation, Direction
<1>2. JobShape'
  BY DEF JobShape, Active, JobFlush
<1>3. FlightShape'
  BY DEF FlightShape, JobShape, NothingPending, Active, JobFlush
<1>4. AbsentIsClean' /\ LeavesNothingBehind'
  BY DEF AbsentIsClean, LeavesNothingBehind, JobShape, FlightShape, NothingPending,
         Active, Flushing, JobFlush
<1>5. RowCopy' /\ BaselineIsRow'
  BY DEF BytesTyped, JobShape, FlightShape, RowCopy, BaselineIsRow, Direction
<1> QED
  BY <1>1, <1>2, <1>3, <1>4, <1>5

LEMMA PromoteInvariant ==
  ASSUME IInv, NEW r \in Request, Promote(r)
  PROVE  IInv'
<1> USE DEF IInv, Promote, AddMinute, Flushing, control, instance, database, history
<1>1. BytesTyped' /\ Conservation'
  BY DEF BytesTyped, Conservation
<1>2. JobShape'
  BY DEF JobShape, Active, JobFlush
<1>3. FlightShape'
  BY DEF FlightShape, JobShape, NothingPending, Active, JobFlush
<1>4. AbsentIsClean' /\ LeavesNothingBehind'
  BY DEF AbsentIsClean, LeavesNothingBehind, JobShape, FlightShape, NothingPending,
         Active, Flushing, JobFlush
<1>5. RowCopy' /\ BaselineIsRow'
  BY DEF BytesTyped, JobShape, FlightShape, RowCopy, BaselineIsRow, Direction
<1> QED
  BY <1>1, <1>2, <1>3, <1>4, <1>5

LEMMA AddStreamingInvariant ==
  ASSUME IInv, NEW r \in Request, NEW d \in Direction, NEW n \in Payload,
         AddStreaming(r, d, n)
  PROVE  IInv'
<1> USE DEF IInv, AddStreaming, CountBytes, AddMinute, Flushing, control, instance, database, history
<1>1. BytesTyped' /\ Conservation'
  BY BoundAssumption, PayloadAssumption DEF BytesTyped, Conservation, Direction
<1>2. JobShape'
  BY DEF JobShape, Active, JobFlush
<1>3. FlightShape'
  BY DEF FlightShape, JobShape, NothingPending, Active, JobFlush
<1>4. AbsentIsClean' /\ LeavesNothingBehind'
  BY DEF AbsentIsClean, LeavesNothingBehind, JobShape, FlightShape, NothingPending,
         Active, Flushing, JobFlush
<1>5. RowCopy' /\ BaselineIsRow'
  BY DEF BytesTyped, JobShape, FlightShape, RowCopy, BaselineIsRow, Direction
<1> QED
  BY <1>1, <1>2, <1>3, <1>4, <1>5

LEMMA FinishBucketInvariant ==
  ASSUME IInv, NEW r \in Request, FinishBucket(r)
  PROVE  IInv'
<1> USE DEF IInv, FinishBucket, AddMinute, Flushing, control, instance, database, history
<1>1. BytesTyped' /\ Conservation'
  BY DEF BytesTyped, Conservation
<1>2. JobShape'
  BY DEF JobShape, Active, JobFlush
<1>3. FlightShape'
  BY DEF FlightShape, JobShape, NothingPending, Active, JobFlush
<1>4. AbsentIsClean' /\ LeavesNothingBehind'
  BY DEF AbsentIsClean, LeavesNothingBehind, JobShape, FlightShape, NothingPending,
         Active, Flushing, JobFlush
<1>5. RowCopy' /\ BaselineIsRow'
  BY DEF BytesTyped, JobShape, FlightShape, RowCopy, BaselineIsRow, Direction
<1> QED
  BY <1>1, <1>2, <1>3, <1>4, <1>5

LEMMA FinishCountInvariant ==
  ASSUME IInv, NEW r \in Request, FinishCount(r)
  PROVE  IInv'
<1> USE DEF IInv, FinishCount, control, instance, database, history
<1>1. BytesTyped' /\ Conservation'
  BY DEF BytesTyped, Conservation
<1>2. JobShape'
  BY DEF JobShape, Active, JobFlush
<1>3. FlightShape'
  BY DEF FlightShape, JobShape, NothingPending, Active, JobFlush
<1>4. AbsentIsClean' /\ LeavesNothingBehind'
  BY DEF AbsentIsClean, LeavesNothingBehind, JobShape, FlightShape, NothingPending,
         Active, Flushing, JobFlush
<1>5. RowCopy' /\ BaselineIsRow'
  BY DEF BytesTyped, JobShape, FlightShape, RowCopy, BaselineIsRow, Direction
<1> QED
  BY <1>1, <1>2, <1>3, <1>4, <1>5

LEMMA FlushNothingInvariant ==
  ASSUME IInv, NEW by \in {"ticker"} \cup JobFlush, FlushNothing(by)
  PROVE  IInv'
<1> USE DEF IInv, FlushNothing, JobAfterFlush, Flusher, Flushing, control, instance, database, history
<1>1. BytesTyped' /\ Conservation'
  BY DEF BytesTyped, Conservation
<1>2. JobShape'
  BY DEF JobShape, Active, JobFlush, NoJob, NoRow, NoBytes, Direction
<1>3. FlightShape'
  BY DEF FlightShape, JobShape, NothingPending, Active, JobFlush, NoJob
<1>4. AbsentIsClean' /\ LeavesNothingBehind'
  BY DEF AbsentIsClean, LeavesNothingBehind, JobShape, FlightShape, NothingPending,
         Active, Flushing, JobFlush
<1>5. RowCopy' /\ BaselineIsRow'
  BY DEF BytesTyped, JobShape, FlightShape, RowCopy, BaselineIsRow, NoJob
<1> QED
  BY <1>1, <1>2, <1>3, <1>4, <1>5

LEMMA FlushSwapInvariant ==
  ASSUME IInv, NEW by \in {"ticker"} \cup JobFlush, FlushSwap(by)
  PROVE  IInv'
<1> USE DEF IInv, FlushSwap, SwapOut, Flusher, Flushing, control, instance, database, history
<1>1. BytesTyped' /\ Conservation'
  BY DEF BytesTyped, Conservation, FlightShape, NoBytes, Direction
<1>2. JobShape'
  BY DEF JobShape, Active, JobFlush
<1>3. FlightShape'
  BY DEF FlightShape, JobShape, NothingPending, Active, JobFlush, NoBytes
<1>4. AbsentIsClean' /\ LeavesNothingBehind'
  BY DEF AbsentIsClean, LeavesNothingBehind, JobShape, FlightShape, NothingPending,
         Active, Flushing, JobFlush
<1>5. RowCopy' /\ BaselineIsRow'
  BY DEF BytesTyped, JobShape, FlightShape, RowCopy, BaselineIsRow, Direction
<1> QED
  BY <1>1, <1>2, <1>3, <1>4, <1>5

LEMMA FlushCommitInvariant ==
  ASSUME IInv, FlushCommit
  PROVE  IInv'
<1> USE DEF IInv, FlushCommit, CommitBuckets, JobAfterFlush, NoFlight, Flushing, control, instance, database, history
<1>1. BytesTyped' /\ Conservation'
  BY DEF BytesTyped, Conservation, NoBytes, Direction
<1>2. JobShape'
  BY DEF JobShape, Active, JobFlush, NoJob, NoRow, NoBytes, Direction, FlightShape
<1>3. FlightShape'
  BY DEF FlightShape, JobShape, NothingPending, Active, JobFlush, NoJob
<1>4. AbsentIsClean' /\ LeavesNothingBehind'
  BY DEF AbsentIsClean, LeavesNothingBehind, JobShape, FlightShape, NothingPending,
         Active, Flushing, JobFlush, NoJob
<1>5. RowCopy' /\ BaselineIsRow'
  BY DEF BytesTyped, JobShape, FlightShape, RowCopy, BaselineIsRow, Direction,
         NoJob
<1> QED
  BY <1>1, <1>2, <1>3, <1>4, <1>5

LEMMA FlushFailInvariant ==
  ASSUME IInv, FlushFail
  PROVE  IInv'
<1> USE DEF IInv, FlushFail, Restore, Plus, JobAfterFlush, NoFlight, Flushing, control, instance, database, history
<1>1. BytesTyped' /\ Conservation'
  BY DEF BytesTyped, Conservation, NoBytes, Direction
<1>2. JobShape'
  BY DEF JobShape, Active, JobFlush, NoJob, NoRow, NoBytes, Direction, FlightShape
<1>3. FlightShape'
  BY DEF FlightShape, JobShape, NothingPending, Active, JobFlush, NoJob
<1>4. AbsentIsClean' /\ LeavesNothingBehind'
  BY DEF AbsentIsClean, LeavesNothingBehind, JobShape, FlightShape, NothingPending,
         Active, Flushing, JobFlush, NoJob
<1>5. RowCopy' /\ BaselineIsRow'
  BY DEF BytesTyped, JobShape, FlightShape, RowCopy, BaselineIsRow, Direction,
         NoJob
<1> QED
  BY <1>1, <1>2, <1>3, <1>4, <1>5

LEMMA StopSiteInvariant ==
  ASSUME IInv, StopSite
  PROVE  IInv'
<1> USE DEF IInv, StopSite, NoJob, control, instance, database, history
<1>1. BytesTyped' /\ Conservation'
  BY DEF BytesTyped, Conservation
<1>2. JobShape'
  BY DEF JobShape, Active, JobFlush, NoRow, NoBytes, Direction, BytesTyped, AbsentIsClean, FlightShape
<1>3. FlightShape'
  BY DEF FlightShape, JobShape, NothingPending, Active, JobFlush, NoRow
<1>4. AbsentIsClean' /\ LeavesNothingBehind'
  BY DEF AbsentIsClean, LeavesNothingBehind, JobShape, FlightShape, NothingPending,
         Active, Flushing, JobFlush
<1>5. RowCopy' /\ BaselineIsRow'
  BY DEF BytesTyped, JobShape, FlightShape, RowCopy, BaselineIsRow, Direction
<1> QED
  BY <1>1, <1>2, <1>3, <1>4, <1>5

LEMMA StartSiteInvariant ==
  ASSUME IInv, StartSite
  PROVE  IInv'
<1> USE DEF IInv, StartSite, NoJob, control, instance, database, history
<1>1. BytesTyped' /\ Conservation'
  BY DEF BytesTyped, Conservation
<1>2. JobShape'
  BY DEF JobShape, Active, JobFlush, NoRow, NoBytes, Direction, BytesTyped, AbsentIsClean, FlightShape
<1>3. FlightShape'
  BY DEF FlightShape, JobShape, NothingPending, Active, JobFlush, NoRow
<1>4. AbsentIsClean' /\ LeavesNothingBehind'
  BY DEF AbsentIsClean, LeavesNothingBehind, JobShape, FlightShape, NothingPending,
         Active, Flushing, JobFlush
<1>5. RowCopy' /\ BaselineIsRow'
  BY DEF BytesTyped, JobShape, FlightShape, RowCopy, BaselineIsRow, Direction
<1> QED
  BY <1>1, <1>2, <1>3, <1>4, <1>5

LEMMA GracefulShutdownInvariant ==
  ASSUME IInv, GracefulShutdown
  PROVE  IInv'
<1> USE DEF IInv, GracefulShutdown, NoJob, control, instance, database, history
<1>1. BytesTyped' /\ Conservation'
  BY DEF BytesTyped, Conservation
<1>2. JobShape'
  BY DEF JobShape, Active, JobFlush, NoRow, NoBytes, Direction, BytesTyped, AbsentIsClean, FlightShape
<1>3. FlightShape'
  BY DEF FlightShape, JobShape, NothingPending, Active, JobFlush, NoRow
<1>4. AbsentIsClean' /\ LeavesNothingBehind'
  BY DEF AbsentIsClean, LeavesNothingBehind, JobShape, FlightShape, NothingPending,
         Active, Flushing, JobFlush
<1>5. RowCopy' /\ BaselineIsRow'
  BY DEF BytesTyped, JobShape, FlightShape, RowCopy, BaselineIsRow, Direction
<1> QED
  BY <1>1, <1>2, <1>3, <1>4, <1>5

LEMMA CloseGateInvariant ==
  ASSUME IInv, CloseGate
  PROVE  IInv'
<1> USE DEF IInv, CloseGate, NoJob, control, instance, database, history
<1>1. BytesTyped' /\ Conservation'
  BY DEF BytesTyped, Conservation
<1>2. JobShape'
  BY DEF JobShape, Active, JobFlush, NoRow, NoBytes, Direction, BytesTyped, AbsentIsClean, FlightShape
<1>3. FlightShape'
  BY DEF FlightShape, JobShape, NothingPending, Active, JobFlush, NoRow
<1>4. AbsentIsClean' /\ LeavesNothingBehind'
  BY DEF AbsentIsClean, LeavesNothingBehind, JobShape, FlightShape, NothingPending,
         Active, Flushing, JobFlush
<1>5. RowCopy' /\ BaselineIsRow'
  BY DEF BytesTyped, JobShape, FlightShape, RowCopy, BaselineIsRow, Direction
<1> QED
  BY <1>1, <1>2, <1>3, <1>4, <1>5

LEMMA DrainedInvariant ==
  ASSUME IInv, Drained
  PROVE  IInv'
<1> USE DEF IInv, Drained, NoJob, control, instance, database, history
<1>1. BytesTyped' /\ Conservation'
  BY DEF BytesTyped, Conservation
<1>2. JobShape'
  BY DEF JobShape, Active, JobFlush, NoRow, NoBytes, Direction, BytesTyped, AbsentIsClean, FlightShape
<1>3. FlightShape'
  BY DEF FlightShape, JobShape, NothingPending, Active, JobFlush, NoRow
<1>4. AbsentIsClean' /\ LeavesNothingBehind'
  BY DEF AbsentIsClean, LeavesNothingBehind, JobShape, FlightShape, NothingPending,
         Active, Flushing, JobFlush
<1>5. RowCopy' /\ BaselineIsRow'
  BY DEF BytesTyped, JobShape, FlightShape, RowCopy, BaselineIsRow, Direction
<1> QED
  BY <1>1, <1>2, <1>3, <1>4, <1>5

LEMMA DrainTimeoutInvariant ==
  ASSUME IInv, DrainTimeout
  PROVE  IInv'
<1> USE DEF IInv, DrainTimeout, NoJob, control, instance, database, history
<1>1. BytesTyped' /\ Conservation'
  BY DEF BytesTyped, Conservation
<1>2. JobShape'
  BY DEF JobShape, Active, JobFlush, NoRow, NoBytes, Direction, BytesTyped, AbsentIsClean, FlightShape
<1>3. FlightShape'
  BY DEF FlightShape, JobShape, NothingPending, Active, JobFlush, NoRow
<1>4. AbsentIsClean' /\ LeavesNothingBehind'
  BY DEF AbsentIsClean, LeavesNothingBehind, JobShape, FlightShape, NothingPending,
         Active, Flushing, JobFlush
<1>5. RowCopy' /\ BaselineIsRow'
  BY DEF BytesTyped, JobShape, FlightShape, RowCopy, BaselineIsRow, Direction
<1> QED
  BY <1>1, <1>2, <1>3, <1>4, <1>5

LEMMA RemoveInvariant ==
  ASSUME IInv, Remove
  PROVE  IInv'
<1> USE DEF IInv, Remove, ZeroPending, NoJob, control, instance, database, history
<1>1. BytesTyped' /\ Conservation'
  BY DEF BytesTyped, Conservation, FlightShape, JobShape, LeavesNothingBehind, NothingPending, Flushing, NoBytes, Direction
<1>2. JobShape'
  BY DEF JobShape, Active, JobFlush, NoRow, NoBytes, Direction, LeavesNothingBehind
<1>3. FlightShape'
  BY DEF FlightShape, JobShape, NothingPending, Active, JobFlush, LeavesNothingBehind, Flushing
<1>4. AbsentIsClean' /\ LeavesNothingBehind'
  BY DEF AbsentIsClean, LeavesNothingBehind, JobShape, FlightShape, NothingPending,
         Active, Flushing, JobFlush
<1>5. RowCopy' /\ BaselineIsRow'
  BY DEF BytesTyped, JobShape, FlightShape, RowCopy, BaselineIsRow, Direction
<1> QED
  BY <1>1, <1>2, <1>3, <1>4, <1>5

LEMMA InstallInvariant ==
  ASSUME IInv, Install
  PROVE  IInv'
<1> USE DEF IInv, Install, Newer, ZeroPending, NoJob, control, instance, database, history
<1>1. BytesTyped' /\ Conservation'
  BY DEF BytesTyped, Conservation, FlightShape, JobShape, LeavesNothingBehind, NothingPending, Flushing, NoBytes, Direction
<1>2. JobShape'
  BY DEF JobShape, Active, JobFlush, NoRow, NoBytes, Direction, LeavesNothingBehind
<1>3. FlightShape'
  BY DEF FlightShape, JobShape, NothingPending, Active, JobFlush, LeavesNothingBehind, Flushing
<1>4. AbsentIsClean' /\ LeavesNothingBehind'
  BY DEF AbsentIsClean, LeavesNothingBehind, JobShape, FlightShape, NothingPending,
         Active, Flushing, JobFlush
<1>5. RowCopy' /\ BaselineIsRow'
  BY DEF BytesTyped, JobShape, FlightShape, RowCopy, BaselineIsRow, Direction
<1> QED
  BY <1>1, <1>2, <1>3, <1>4, <1>5

LEMMA ExitInvariant ==
  ASSUME IInv, Exit
  PROVE  IInv'
<1> USE DEF IInv, Exit, NoFlight, NoMeter, ZeroPending, NoJob, control, instance, database, history
<1>1. BytesTyped' /\ Conservation'
  BY DEF BytesTyped, Conservation, NoBytes, Direction
<1>2. JobShape'
  BY DEF JobShape, Active, JobFlush, NoRow, NoBytes, Direction
<1>3. FlightShape'
  BY DEF FlightShape, JobShape, NothingPending, Active, JobFlush, NoBytes
<1>4. AbsentIsClean' /\ LeavesNothingBehind'
  BY DEF AbsentIsClean, LeavesNothingBehind, JobShape, FlightShape, NothingPending,
         Active, Flushing, JobFlush
<1>5. RowCopy' /\ BaselineIsRow'
  BY DEF BytesTyped, JobShape, FlightShape, RowCopy, BaselineIsRow, Direction
<1> QED
  BY <1>1, <1>2, <1>3, <1>4, <1>5

LEMMA TickInvariant ==
  ASSUME IInv, Tick
  PROVE  IInv'
<1> USE DEF IInv, Tick, control, instance, database, history
<1>1. BytesTyped' /\ Conservation'
  BY DEF BytesTyped, Conservation
<1>2. JobShape'
  BY DEF JobShape, Active, JobFlush
<1>3. FlightShape'
  BY DEF FlightShape, JobShape, NothingPending, Active, JobFlush
<1>4. AbsentIsClean' /\ LeavesNothingBehind'
  BY DEF AbsentIsClean, LeavesNothingBehind, JobShape, FlightShape, NothingPending,
         Active, Flushing, JobFlush
<1>5. RowCopy' /\ BaselineIsRow'
  BY DEF BytesTyped, JobShape, FlightShape, RowCopy, BaselineIsRow, Direction
<1> QED
  BY <1>1, <1>2, <1>3, <1>4, <1>5

LEMMA StutterInvariant ==
  ASSUME IInv, UNCHANGED vars
  PROVE  IInv'
  BY DEF IInv, vars, BytesTyped, Conservation, JobShape, FlightShape, AbsentIsClean,
         LeavesNothingBehind, RowCopy, BaselineIsRow, NothingPending, Flushing, Active

LEMMA StepInvariant == IInv /\ [Next]_vars => IInv'
<1> SUFFICES ASSUME IInv, [Next]_vars
             PROVE  IInv'
  OBVIOUS
<1>1. CASE Metering
  BY <1>1, AdmitInvariant, NewMeterInvariant, DeferFinishInvariant, PromoteInvariant,
     FinishBucketInvariant, FinishCountInvariant, AddFastInvariant,
     AddStreamingInvariant DEF Metering
<1>2. CASE Flush
  BY <1>2, FlushNothingInvariant, FlushSwapInvariant, FlushCommitInvariant,
     FlushFailInvariant DEF Flush
<1>3. CASE Lifecycle
  BY <1>3, StopSiteInvariant, StartSiteInvariant, GracefulShutdownInvariant,
     CloseGateInvariant, DrainedInvariant, DrainTimeoutInvariant, RemoveInvariant,
     InstallInvariant DEF Lifecycle
<1> QED
  BY <1>1, <1>2, <1>3, ExitInvariant, TickInvariant, StutterInvariant DEF Next

LEMMA Invariance == Spec => []IInv
  BY InitInvariant, StepInvariant, PTL DEF Spec

(***************************************************************************)
(* Every byte a meter counted is pending, in the flush in flight, in the   *)
(* sites row or lost by an exit: flushProxyTrafficLocked, its restore on   *)
(* failure, and the stop and replacement paths neither drop nor double it. *)
(***************************************************************************)
THEOREM TrafficIsConserved == Spec => []Conservation
<1>1. IInv => Conservation
  BY DEF IInv
<1> QED
  BY <1>1, Invariance, PTL

(***************************************************************************)
(* The baseline an instance adds its pending bytes to is the sites row,    *)
(* also after StartSite replaced an instance that flushed after the row    *)
(* was read.                                                               *)
(***************************************************************************)
THEOREM BaselineIsTheRow == Spec => []BaselineIsRow
<1>1. IInv => BaselineIsRow
  BY DEF IInv
<1> QED
  BY <1>1, Invariance, PTL

(***************************************************************************)
(* StopSite, StartSite and GracefulShutdown discard an instance only when  *)
(* no request is inside it and every counter has been persisted.           *)
(***************************************************************************)
THEOREM InstancesLeaveNothingBehind == Spec => []LeavesNothingBehind
<1>1. IInv => LeavesNothingBehind
  BY DEF IInv
<1> QED
  BY <1>1, Invariance, PTL

-----------------------------------------------------------------------------
(***************************************************************************)
(* Refinement of TrafficLedger.                                            *)
(***************************************************************************)
LEMMA CountStep ==
  ASSUME IInv, NEW d \in Direction, NEW n \in Payload, CountBytes(d, n),
         UNCHANGED <<rowDir, lost>>
  PROVE  Ledger!Count
<1>1. n \in 1..MaxServed /\ served[d] + n <= MaxServed
  BY PayloadAssumption, BoundAssumption DEF IInv, BytesTyped, CountBytes, Direction
<1> QED
  BY <1>1 DEF CountBytes, Ledger!Count

LEMMA CommitStep ==
  ASSUME IInv, FlushCommit
  PROVE  Ledger!Checkpoint
<1>1. \A d \in Direction : served[d] \in 0..MaxServed
  BY BoundAssumption DEF IInv, BytesTyped, Direction
<1>2. \A d \in Direction : flight.bytes[d] <= Ledger!Outstanding(d)
  BY DEF IInv, BytesTyped, Conservation, Ledger!Outstanding
<1>3. flight.bytes \in [Direction -> 0..MaxServed]
  BY <1>1, BoundAssumption DEF IInv, BytesTyped, Conservation
<1> QED
  BY <1>2, <1>3 DEF FlushCommit, CommitBuckets, history, Ledger!Checkpoint

LEMMA ExitStep ==
  ASSUME IInv, Exit
  PROVE  Ledger!Exit
<1>1. \A d \in Direction : lost[d] + bytes[d] + flight.bytes[d]
                            = lost[d] + Ledger!Outstanding(d)
  BY DEF IInv, BytesTyped, Conservation, Ledger!Outstanding
<1> QED
  BY <1>1 DEF Exit, database, Ledger!Exit

LEMMA LedgerStep == IInv /\ [Next]_vars => [Ledger!Next]_Ledger!ledger
<1> SUFFICES ASSUME IInv, [Next]_vars
             PROVE  Ledger!Next \/ UNCHANGED <<served, rowDir, lost>>
  BY DEF Ledger!ledger
<1> USE DEF Ledger!Next
<1>1. CASE Metering
  <2>1. ASSUME NEW r \in Request, NEW d \in Direction, NEW n \in Payload,
               AddFast(r, d, n) \/ AddStreaming(r, d, n)
        PROVE  Ledger!Count
    BY <2>1, CountStep DEF AddFast, AddStreaming, database
  <2>2. ASSUME NEW r \in Request,
               \/ Admit(r) \/ NewMeter(r) \/ DeferFinish(r)
               \/ Promote(r) \/ FinishBucket(r) \/ FinishCount(r)
        PROVE  UNCHANGED <<served, rowDir, lost>>
    BY <2>2 DEF Admit, NewMeter, DeferFinish, Promote, FinishBucket, FinishCount,
                database, history
  <2> QED
    BY <1>1, <2>1, <2>2 DEF Metering
<1>2. CASE Flush
  <2>1. ASSUME NEW by, FlushNothing(by) \/ FlushSwap(by) \/ FlushFail
        PROVE  UNCHANGED <<served, rowDir, lost>>
    BY <2>1 DEF FlushNothing, FlushSwap, FlushFail, database, history
  <2> QED
    BY <1>2, <2>1, CommitStep DEF Flush
<1>3. CASE Lifecycle
  BY <1>3 DEF Lifecycle, StopSite, StartSite, GracefulShutdown, CloseGate, Drained,
              DrainTimeout, Remove, Install, database, history
<1>4. CASE Tick \/ UNCHANGED vars
  BY <1>4 DEF Tick, vars, database, history
<1> QED
  BY <1>1, <1>2, <1>3, <1>4, ExitStep DEF Next

(***************************************************************************)
(* The whole of the accounting -- meters, flushes, failed transactions,    *)
(* stops, replacements, exits -- implements the abstract ledger: bytes are *)
(* persisted at most once, in both directions at a time, and never taken   *)
(* back.                                                                   *)
(***************************************************************************)
THEOREM AccountingImplementsLedger == Spec => ImplementsLedger
<1>1. Init => Ledger!Init
  BY DEF Init, NoBytes, Ledger!Init
<1> QED
  BY <1>1, LedgerStep, Invariance, PTL DEF Spec, ImplementsLedger, Ledger!Spec

(***************************************************************************)
(* Hence no retry, replacement or restart makes the sites row charge more  *)
(* than the requests transferred.                                          *)
(***************************************************************************)
THEOREM NothingIsOvercharged == Spec => []Ledger!NeverOvercharged
<1>1. IInv => Ledger!NeverOvercharged
  BY DEF IInv, BytesTyped, Conservation, Ledger!NeverOvercharged
<1> QED
  BY <1>1, Invariance, PTL


-----------------------------------------------------------------------------
(***************************************************************************)
(* The views of the database.  First the sums they are made of: what the   *)
(* buckets of all minutes hold of one kind, and the bytes still local to   *)
(* the meters.                                                             *)
(***************************************************************************)
InBuckets(minutes, k) == SumFunction([m \in Minute |-> minutes[m][k]])
Locals(m, d) == SumFunction([r \in Request |-> m[r].local[d]])

Buckets == [Minute -> [Kind -> Nat]]

LEMMA MinutesAreFinite == IsFiniteSet(Minute)
  BY BoundAssumption, FS_Interval DEF Minute

LEMMA BucketsTyped ==
  ASSUME NEW x \in Buckets, NEW k \in Kind
  PROVE  InBuckets(x, k) \in Nat
<1> DEFINE f == [m \in Minute |-> x[m][k]]
<1>1. \A m \in Minute : f[m] \in Nat
  BY DEF Buckets
<1>2. DOMAIN f = Minute
  OBVIOUS
<1>3. InBuckets(x, k) = SumFunction(f)
  BY DEF InBuckets
<1> HIDE DEF f
<1> QED
  BY <1>1, <1>2, <1>3, MinutesAreFinite, SumIsNatural, SumOverDomain

LEMMA NoBuckets ==
  ASSUME NEW k \in Kind
  PROVE  InBuckets(NoMinutes, k) = 0
<1> DEFINE f == [m \in Minute |-> NoMinutes[m][k]]
<1>1. \A m \in Minute : f[m] = 0
  BY DEF NoMinutes, NoDelta
<1>2. DOMAIN f = Minute
  OBVIOUS
<1>3. InBuckets(NoMinutes, k) = SumFunction(f)
  BY DEF InBuckets
<1> HIDE DEF f
<1> QED
  BY <1>1, <1>2, <1>3, MinutesAreFinite, SumOfZeros, SumOverDomain

(* One bucket grows. *)
LEMMA BucketGrows ==
  ASSUME NEW x \in Buckets, NEW y \in Buckets, NEW k \in Kind, NEW mm \in Minute,
         NEW n \in Nat, y[mm][k] = x[mm][k] + n,
         \A m \in Minute \ {mm} : y[m][k] = x[m][k]
  PROVE  InBuckets(y, k) = InBuckets(x, k) + n
<1> DEFINE f == [m \in Minute |-> x[m][k]]
           g == [m \in Minute |-> y[m][k]]
<1>1. \A m \in Minute : f[m] \in Int /\ g[m] \in Int
  BY DEF Buckets
<1>2. DOMAIN f = Minute /\ DOMAIN g = Minute
  OBVIOUS
<1>3. InBuckets(x, k) = SumFunction(f) /\ InBuckets(y, k) = SumFunction(g)
  BY DEF InBuckets
<1>4. g[mm] = f[mm] + n
  OBVIOUS
<1>8. \A m \in Minute \ {mm} : g[m] = f[m]
  OBVIOUS
<1>9. mm \in Minute
  OBVIOUS
<1> HIDE DEF f, g
<1>5. SumFunctionOnSet(g, Minute) + f[mm] = SumFunctionOnSet(f, Minute) + g[mm]
  BY ONLY <1>1, <1>8, <1>9, MinutesAreFinite, SumChanges
<1>6. SumFunctionOnSet(f, Minute) \in Int /\ SumFunctionOnSet(g, Minute) \in Int
  BY <1>1, MinutesAreFinite, SumIsInteger
<1>7. f[mm] \in Int
  BY <1>1
<1>10. InBuckets(x, k) = SumFunctionOnSet(f, Minute) /\ InBuckets(y, k) = SumFunctionOnSet(g, Minute)
  BY ONLY <1>2, <1>3, SumOverDomain
<1> QED
  BY <1>10, <1>4, <1>5, <1>6, <1>7

LEMMA BucketsOfTwo ==
  ASSUME NEW x \in Buckets, NEW y \in Buckets, NEW k \in Kind
  PROVE  SumFunction([m \in Minute |-> x[m][k] + y[m][k]]) = InBuckets(x, k) + InBuckets(y, k)
<1> DEFINE f == [m \in Minute |-> x[m][k]]
           g == [m \in Minute |-> y[m][k]]
           h == [m \in Minute |-> x[m][k] + y[m][k]]
<1>1. \A m \in Minute : f[m] \in Int /\ g[m] \in Int /\ h[m] = f[m] + g[m]
  BY DEF Buckets
<1>2. DOMAIN f = Minute /\ DOMAIN g = Minute /\ DOMAIN h = Minute
  OBVIOUS
<1>3. InBuckets(x, k) = SumFunction(f) /\ InBuckets(y, k) = SumFunction(g)
  BY DEF InBuckets
<1> HIDE DEF f, g, h
<1>4. SumFunction(h) = SumFunction(f) + SumFunction(g)
  BY <1>1, <1>2, MinutesAreFinite, SumOfSums, SumOverDomain
<1> QED
  BY <1>3, <1>4 DEF h

LEMMA PlusIsTyped ==
  ASSUME NEW x \in Buckets, NEW y \in Buckets
  PROVE  /\ PlusMinutes(x, y) \in Buckets
         /\ \A m \in Minute, k \in Kind : PlusMinutes(x, y)[m][k] = x[m][k] + y[m][k]
  BY DEF Buckets, PlusMinutes, Plus

LEMMA BucketsPlus ==
  ASSUME NEW x \in Buckets, NEW y \in Buckets, NEW k \in Kind
  PROVE  InBuckets(PlusMinutes(x, y), k) = InBuckets(x, k) + InBuckets(y, k)
<1>1. [m \in Minute |-> PlusMinutes(x, y)[m][k]] = [m \in Minute |-> x[m][k] + y[m][k]]
  BY PlusIsTyped
<1> QED
  BY <1>1, BucketsOfTwo DEF InBuckets

LEMMA BucketsOfThree ==
  ASSUME NEW x \in Buckets, NEW y \in Buckets, NEW z \in Buckets, NEW k \in Kind
  PROVE  SumFunction([m \in Minute |-> x[m][k] + y[m][k] + z[m][k]])
           = InBuckets(x, k) + InBuckets(y, k) + InBuckets(z, k)
<1> DEFINE u == PlusMinutes(x, y)
<1>1. u \in Buckets /\ \A m \in Minute : u[m][k] = x[m][k] + y[m][k]
  BY PlusIsTyped
<1>2. InBuckets(u, k) = InBuckets(x, k) + InBuckets(y, k)
  BY BucketsPlus
<1> HIDE DEF u
<1>3. [m \in Minute |-> x[m][k] + y[m][k] + z[m][k]] = [m \in Minute |-> u[m][k] + z[m][k]]
  BY <1>1
<1>4. SumFunction([m \in Minute |-> u[m][k] + z[m][k]]) = InBuckets(u, k) + InBuckets(z, k)
  BY <1>1, BucketsOfTwo
<1> QED
  BY <1>2, <1>3, <1>4

LEMMA LocalsTyped ==
  ASSUME NEW x, \A r \in Request : x[r].local \in [Direction -> Nat], NEW d \in Direction
  PROVE  Locals(x, d) \in Nat
<1> DEFINE f == [r \in Request |-> x[r].local[d]]
<1>1. \A r \in Request : f[r] \in Nat
  OBVIOUS
<1>2. DOMAIN f = Request
  OBVIOUS
<1>3. Locals(x, d) = SumFunction(f)
  BY DEF Locals
<1> HIDE DEF f
<1> QED
  BY <1>1, <1>2, <1>3, RequestAssumption, SumIsNatural, SumOverDomain

LEMMA LocalsEmpty ==
  ASSUME NEW x, \A r \in Request : x[r].local = NoBytes, NEW d \in Direction
  PROVE  Locals(x, d) = 0
<1> DEFINE f == [r \in Request |-> x[r].local[d]]
<1>1. \A r \in Request : f[r] = 0
  BY DEF NoBytes
<1>2. DOMAIN f = Request
  OBVIOUS
<1>3. Locals(x, d) = SumFunction(f)
  BY DEF Locals
<1> HIDE DEF f
<1> QED
  BY <1>1, <1>2, <1>3, RequestAssumption, SumOfZeros, SumOverDomain

LEMMA LocalChanges ==
  ASSUME NEW x, \A r \in Request : x[r].local \in [Direction -> Nat],
         NEW y, \A r \in Request : y[r].local \in [Direction -> Nat],
         NEW d \in Direction, NEW q \in Request,
         \A r \in Request \ {q} : y[r].local = x[r].local
  PROVE  Locals(y, d) + x[q].local[d] = Locals(x, d) + y[q].local[d]
<1> DEFINE f == [r \in Request |-> x[r].local[d]]
           g == [r \in Request |-> y[r].local[d]]
<1>1. \A r \in Request : f[r] \in Int /\ g[r] \in Int
  OBVIOUS
<1>2. DOMAIN f = Request /\ DOMAIN g = Request
  OBVIOUS
<1>3. Locals(x, d) = SumFunction(f) /\ Locals(y, d) = SumFunction(g)
  BY DEF Locals
<1>4. f[q] = x[q].local[d] /\ g[q] = y[q].local[d]
  OBVIOUS
<1>6. \A r \in Request \ {q} : g[r] = f[r]
  OBVIOUS
<1>7. q \in Request
  OBVIOUS
<1> HIDE DEF f, g
<1>5. SumFunctionOnSet(g, Request) + f[q] = SumFunctionOnSet(f, Request) + g[q]
  BY <1>1, <1>6, <1>7, RequestAssumption, SumChanges
<1> QED
  BY <1>2, <1>3, <1>4, <1>5, SumOverDomain

LEMMA LocalsAgree ==
  ASSUME NEW x, NEW y, NEW d \in Direction, \A r \in Request : y[r].local = x[r].local
  PROVE  Locals(y, d) = Locals(x, d)
<1>1. [r \in Request |-> y[r].local[d]] = [r \in Request |-> x[r].local[d]]
  OBVIOUS
<1> QED
  BY <1>1 DEF Locals



(* addMinuteTraffic, and what a flush takes out: every kind of every bucket. *)
LEMMA MinuteAdded ==
  ASSUME TypeOK, NEW m \in Minute, NEW delta \in [Direction -> Nat], NEW n \in Nat,
         AddMinute(m, delta, n)
  PROVE  /\ pendingMinute' \in Buckets
         /\ \A d \in Direction :
               InBuckets(pendingMinute', d) = InBuckets(pendingMinute, d) + delta[d]
         /\ InBuckets(pendingMinute', "requests") = InBuckets(pendingMinute, "requests") + n
<1>1. pendingMinute \in Buckets
  BY DEF TypeOK, Buckets
<1>2. pendingMinute' \in Buckets
  BY <1>1 DEF AddMinute, Buckets, Kind
<1>3. \A k \in Kind : /\ \A mm \in Minute \ {m} : pendingMinute'[mm][k] = pendingMinute[mm][k]
                      /\ pendingMinute'[m][k] = pendingMinute[m][k]
                                                + (IF k \in Direction THEN delta[k] ELSE n)
  BY <1>1 DEF AddMinute, Buckets
<1>4. ASSUME NEW d \in Direction
      PROVE  InBuckets(pendingMinute', d) = InBuckets(pendingMinute, d) + delta[d]
  <2>1. d \in Kind /\ delta[d] \in Nat /\ pendingMinute'[m][d] = pendingMinute[m][d] + delta[d]
    BY <1>3 DEF Kind
  <2>2. \A mm \in Minute \ {m} : pendingMinute'[mm][d] = pendingMinute[mm][d]
    BY <1>3, <2>1
  <2> QED
    BY ONLY <1>1, <1>2, <2>1, <2>2, m \in Minute, BucketGrows
<1>5. InBuckets(pendingMinute', "requests") = InBuckets(pendingMinute, "requests") + n
  <2>1. "requests" \in Kind /\ pendingMinute'[m]["requests"] = pendingMinute[m]["requests"] + n
    BY <1>3 DEF Kind, Direction
  <2>2. \A mm \in Minute \ {m} : pendingMinute'[mm]["requests"] = pendingMinute[mm]["requests"]
    BY <1>3, <2>1
  <2> QED
    BY ONLY <1>1, <1>2, <2>1, <2>2, m \in Minute, n \in Nat, BucketGrows
<1> QED
  BY <1>2, <1>4, <1>5

LEMMA ResidualTyped ==
  ASSUME TypeOK
  PROVE  /\ WithResidual \in Buckets
         /\ \A d \in Direction : InBuckets(WithResidual, d) = InBuckets(pendingMinute, d)
         /\ InBuckets(WithResidual, "requests") >= InBuckets(pendingMinute, "requests")
<1>1. pendingMinute \in Buckets /\ pendingRequests \in Nat /\ now \in Minute
  BY DEF TypeOK, Buckets
<1>2. "requests" \in Kind /\ Direction \subseteq Kind /\ "requests" \notin Direction
  BY DEF Kind, Direction
<1>3. RequestsIn(pendingMinute) = InBuckets(pendingMinute, "requests")
  BY DEF RequestsIn, InBuckets
<1>4. InBuckets(pendingMinute, "requests") \in Nat
  BY <1>1, <1>2, BucketsTyped
<1>5. CASE pendingRequests > RequestsIn(pendingMinute)
  <2> DEFINE n == pendingRequests - RequestsIn(pendingMinute)
  <2>1. n \in Nat
    BY <1>1, <1>3, <1>4, <1>5
  <2>2. WithResidual = [pendingMinute EXCEPT ![now]["requests"] = @ + n]
    BY <1>5 DEF WithResidual
  <2> HIDE DEF n
  <2>3. WithResidual \in Buckets
    BY <1>1, <1>2, <2>1, <2>2 DEF Buckets
  <2>4. WithResidual[now]["requests"] = pendingMinute[now]["requests"] + n
    BY <1>1, <1>2, <2>2 DEF Buckets
  <2>5. \A mm \in Minute \ {now} : WithResidual[mm]["requests"] = pendingMinute[mm]["requests"]
    BY <1>1, <1>2, <2>2 DEF Buckets
  <2>6. \A d \in Direction, mm \in Minute : WithResidual[mm][d] = pendingMinute[mm][d]
    BY <1>1, <1>2, <2>2 DEF Buckets
  <2>7. InBuckets(WithResidual, "requests") = InBuckets(pendingMinute, "requests") + n
    BY ONLY <1>1, <1>2, <2>1, <2>3, <2>4, <2>5, BucketGrows
  <2>8. ASSUME NEW d \in Direction
        PROVE  InBuckets(WithResidual, d) = InBuckets(pendingMinute, d)
    <3>1. [mm \in Minute |-> WithResidual[mm][d]] = [mm \in Minute |-> pendingMinute[mm][d]]
      BY <2>6
    <3> QED
      BY <3>1 DEF InBuckets
  <2> QED
    BY <1>4, <2>1, <2>3, <2>7, <2>8
<1>6. CASE ~(pendingRequests > RequestsIn(pendingMinute))
  <2>1. WithResidual = pendingMinute
    BY <1>6 DEF WithResidual
  <2> QED
    BY <1>1, <1>4, <2>1
<1> QED
  BY <1>5, <1>6

(***************************************************************************)
(* Types.  A step of a meter, of a flush, of the lifecycle.                *)
(***************************************************************************)
MeterTyped == meter \in [Request -> [at: {"idle", "admitted", "metered", "open", "adding",
                                         "counting", "done", "cut"},
                                    started: Minute, due: Minute, streaming: BOOLEAN,
                                    local: [Direction -> Nat]]]

LEMMA MinutesAreTyped == 0 \in Minute /\ Minute \subseteq Nat
  BY BoundAssumption DEF Minute

LEMMA MeteringTypes ==
  ASSUME TypeOK, Metering
  PROVE  TypeOK'
<1> PICK r \in Request :
               \/ Admit(r) \/ NewMeter(r) \/ DeferFinish(r)
               \/ Promote(r) \/ FinishBucket(r) \/ FinishCount(r)
               \/ \E d \in Direction, n \in Payload : AddFast(r, d, n) \/ AddStreaming(r, d, n)
  BY DEF Metering
<1>0. MeterTyped /\ now \in Minute
  BY DEF TypeOK, MeterTyped
<1>1. CASE Admit(r)
  <2>1. MeterTyped'
    BY <1>0, <1>1 DEF Admit, MeterTyped
  <2> QED
    BY <2>1, <1>1 DEF Admit, TypeOK, MeterTyped, control, instance, database, history
<1>2. CASE NewMeter(r)
  <2>1. MeterTyped'
    BY <1>0, <1>2, ZenonT(60) DEF NewMeter, MeterTyped
  <2> QED
    BY <2>1, <1>2 DEF NewMeter, TypeOK, MeterTyped, control, instance, database, history
<1>3. CASE DeferFinish(r)
  <2>1. MeterTyped'
    BY <1>0, <1>3, ZenonT(60) DEF DeferFinish, MeterTyped
  <2> QED
    BY <2>1, <1>3 DEF DeferFinish, TypeOK, MeterTyped, control, instance, database, history
<1>4. CASE Promote(r)
  <2>1. MeterTyped'
    BY <1>0, <1>4 DEF Promote, MeterTyped, NoBytes
  <2>2. pendingMinute' \in Buckets
    BY <1>0, <1>4, MinuteAdded DEF Promote, MeterTyped
  <2> QED
    BY <2>1, <2>2, <1>4 DEF Promote, TypeOK, MeterTyped, Buckets, control, database, history
<1>5. CASE FinishBucket(r)
  <2>1. MeterTyped'
    BY <1>0, <1>5, ZenonT(60) DEF FinishBucket, MeterTyped, NoBytes
  <2>2. (IF meter[r].streaming THEN NoBytes ELSE meter[r].local) \in [Direction -> Nat]
    BY <1>0 DEF MeterTyped, NoBytes
  <2>3. pendingMinute' \in Buckets
    BY <1>0, <2>2, <1>5, MinuteAdded DEF FinishBucket, MeterTyped
  <2> QED
    BY <2>1, <2>3, <1>5 DEF FinishBucket, TypeOK, MeterTyped, Buckets, control, database, history
<1>6. CASE FinishCount(r)
  <2>1. MeterTyped'
    BY <1>0, <1>6, MinutesAreTyped DEF FinishCount, MeterTyped, NoMeter, NoBytes
  <2>2. /\ pendingRequests' \in Nat
        /\ UNCHANGED <<gate, job, shutdownStarted, bytes, pendingMinute, persistedBytes,
                       persistedTraffic, siteUsed, siteDir, flight, now, faults>>
        /\ UNCHANGED <<rowUsed, rowDir, logs, minuteLogs, served, lost, lostMinute, lostRequests>>
    BY <1>6 DEF FinishCount, TypeOK, control, database, history
  <2> QED
    BY <2>1, <2>2 DEF TypeOK, MeterTyped
<1>7. CASE \E d \in Direction, n \in Payload : AddFast(r, d, n) \/ AddStreaming(r, d, n)
  <2> PICK d \in Direction, n \in Payload : AddFast(r, d, n) \/ AddStreaming(r, d, n)
    BY <1>7
  <2>1. n \in Nat
    BY PayloadAssumption
  <2>2. ASSUME CountBytes(d, n)
        PROVE  bytes' \in [Direction -> Nat] /\ served' \in [Direction -> Nat]
    BY <2>1, <2>2 DEF CountBytes, TypeOK
  <2>3. CASE AddFast(r, d, n)
    <3>1. MeterTyped'
      BY <1>0, <2>1, <2>3, SMTT(60) DEF AddFast, MeterTyped
    <3> QED
      BY <3>1, <2>2, <2>3, ZenonT(60) DEF AddFast, TypeOK, MeterTyped, control, database
  <2>4. CASE AddStreaming(r, d, n)
    <3>1. MeterTyped'
      BY <1>0, <2>4 DEF AddStreaming, MeterTyped
    <3>2. [NoBytes EXCEPT ![d] = n] \in [Direction -> Nat]
      BY <2>1 DEF NoBytes
    <3>3. pendingMinute' \in Buckets
      BY <1>0, <3>2, <2>4, MinuteAdded DEF AddStreaming
    <3> QED
      BY <3>1, <3>3, <2>2, <2>4, ZenonT(60) DEF AddStreaming, TypeOK, MeterTyped, Buckets, control, database
  <2> QED
    BY <2>3, <2>4
<1> QED
  BY <1>1, <1>2, <1>3, <1>4, <1>5, <1>6, <1>7

LEMMA EmptyIsTyped ==
  /\ NoBytes \in [Direction -> Nat]
  /\ NoMinutes \in Buckets
  /\ NoFlight \in [by: {"none", "ticker"} \cup JobFlush, bytes: [Direction -> Nat],
                   requests: Nat, minutes: Buckets]
  BY DEF NoBytes, NoMinutes, NoDelta, NoFlight, Buckets

FlightTyped == flight \in [by: {"none", "ticker"} \cup JobFlush, bytes: [Direction -> Nat],
                          requests: Nat, minutes: Buckets]
JobTyped == job \in [kind: {"none", "stop", "start", "shutdown"},
                    at: {"idle", "close", "drain", "leave"} \cup JobFlush,
                    row: [used: Nat, dir: [Direction -> Nat]]]

LEMMA JobMovesTyped ==
  ASSUME JobTyped, NEW by, NEW ok, JobAfterFlush(by, ok)
  PROVE  JobTyped'
  BY DEF JobTyped, JobAfterFlush, NoJob, NoRow, NoBytes, JobFlush

LEMMA FlushTypes ==
  ASSUME TypeOK, Flush
  PROVE  TypeOK'
<1>0. FlightTyped /\ JobTyped /\ pendingMinute \in Buckets /\ minuteLogs \in Buckets
  BY DEF TypeOK, FlightTyped, JobTyped, Buckets
<1>1. ASSUME NEW by \in {"ticker"} \cup JobFlush, FlushNothing(by)
      PROVE  TypeOK'
  <2>1. JobTyped'
    BY <1>0, <1>1, JobMovesTyped DEF FlushNothing
  <2> QED
    BY <1>1, <2>1 DEF FlushNothing, JobTyped, TypeOK, instance, database, history
<1>2. ASSUME NEW by \in {"ticker"} \cup JobFlush, FlushSwap(by)
      PROVE  TypeOK'
  <2>1. FlightTyped'
    BY <1>2, ResidualTyped DEF FlushSwap, FlightTyped, TypeOK
  <2>2. bytes' \in [Direction -> Nat] /\ pendingMinute' \in Buckets /\ pendingRequests' \in Nat
    BY <1>2, EmptyIsTyped DEF FlushSwap, SwapOut
  <2> QED
    BY <1>2, <2>1, <2>2 DEF FlushSwap, FlightTyped, Buckets, TypeOK, control, database, history
<1>3. CASE FlushCommit
  <2>1. JobTyped' /\ FlightTyped'
    BY <1>0, <1>3, JobMovesTyped, EmptyIsTyped DEF FlushCommit, FlightTyped
  <2>2. minuteLogs' \in Buckets
    BY <1>0, <1>3, PlusIsTyped DEF FlushCommit, CommitBuckets, FlightTyped
  <2>3. flight.bytes \in [Direction -> Nat] /\ "in" \in Direction /\ "out" \in Direction
    BY <1>0 DEF FlightTyped, Direction
  <2>4. RequestsIn(flight.minutes) \in Nat
    <3>1. flight.minutes \in Buckets /\ "requests" \in Kind
      BY <1>0 DEF FlightTyped, Kind
    <3>2. RequestsIn(flight.minutes) = InBuckets(flight.minutes, "requests")
      BY DEF RequestsIn, InBuckets
    <3> QED
      BY <3>1, <3>2, BucketsTyped
  <2>5. logs' \in [Kind -> Nat]
    BY <1>3, <2>3, <2>4 DEF FlushCommit, CommitBuckets, TypeOK
  <2>6. /\ rowUsed' \in Nat /\ persistedTraffic' \in Nat /\ siteUsed' \in Nat
        /\ rowDir' \in [Direction -> Nat]
        /\ persistedBytes' \in [Direction -> Nat] /\ siteDir' \in [Direction -> Nat]
    BY <1>3, <2>3 DEF FlushCommit, CommitBuckets, TypeOK
  <2> QED
    BY <1>3, <2>1, <2>2, <2>5, <2>6 DEF FlushCommit, JobTyped, FlightTyped, Buckets, TypeOK, history
<1>4. CASE FlushFail
  <2>1. JobTyped' /\ FlightTyped'
    BY <1>0, <1>4, JobMovesTyped, EmptyIsTyped DEF FlushFail, FlightTyped
  <2>2. pendingMinute' \in Buckets
    BY <1>0, <1>4, PlusIsTyped DEF FlushFail, Restore, FlightTyped
  <2>3. bytes' \in [Direction -> Nat] /\ pendingRequests' \in Nat
    BY <1>0, <1>4 DEF FlushFail, Restore, Plus, FlightTyped, TypeOK
  <2>4. faults' \in 0..MaxFault
    BY <1>4, BoundAssumption DEF FlushFail, TypeOK
  <2> QED
    BY <1>4, <2>1, <2>2, <2>3, <2>4 DEF FlushFail, JobTyped, FlightTyped, Buckets, TypeOK, database, history
<1> QED
  BY <1>1, <1>2, <1>3, <1>4 DEF Flush

LEMMA LifecycleTypes ==
  ASSUME TypeOK, Lifecycle
  PROVE  TypeOK'
<1>0. JobTyped /\ siteUsed \in Nat /\ siteDir \in [Direction -> Nat]
  BY DEF TypeOK, JobTyped
<1>1. NoBytes \in [Direction -> Nat] /\ NoMinutes \in [Minute -> [Kind -> Nat]]
  BY DEF NoBytes, NoMinutes, NoDelta
<1>2. NoRow \in [used: Nat, dir: [Direction -> Nat]]
  BY <1>1 DEF NoRow
<1>3. CASE StopSite
  <2>1. JobTyped'
    BY <1>0, <1>2, <1>3 DEF StopSite, JobTyped, NoJob, JobFlush, TypeOK
  <2> QED
    BY <2>1, <1>1, <1>3 DEF StopSite, JobTyped, TypeOK, instance, database, history
<1>4. CASE StartSite
  <2>1. JobTyped'
    BY <1>0, <1>2, <1>4 DEF StartSite, JobTyped, NoJob, JobFlush, TypeOK
  <2> QED
    BY <2>1, <1>1, <1>4 DEF StartSite, JobTyped, TypeOK, instance, database, history
<1>5. CASE GracefulShutdown
  <2>1. JobTyped'
    BY <1>0, <1>2, <1>5 DEF GracefulShutdown, JobTyped, NoJob, JobFlush, TypeOK
  <2> QED
    BY <2>1, <1>1, <1>5 DEF GracefulShutdown, JobTyped, TypeOK, instance, database, history
<1>6. CASE CloseGate
  <2>1. JobTyped'
    BY <1>0, <1>2, <1>6 DEF CloseGate, JobTyped, NoJob, JobFlush, TypeOK
  <2> QED
    BY <2>1, <1>1, <1>6 DEF CloseGate, JobTyped, TypeOK, instance, database, history
<1>7. CASE Drained
  <2>1. JobTyped'
    BY <1>0, <1>2, <1>7 DEF Drained, JobTyped, NoJob, JobFlush, TypeOK
  <2> QED
    BY <2>1, <1>1, <1>7 DEF Drained, JobTyped, TypeOK, instance, database, history
<1>8. CASE DrainTimeout
  <2>1. JobTyped'
    BY <1>0, <1>2, <1>8 DEF DrainTimeout, JobTyped, NoJob, JobFlush, TypeOK
  <2> QED
    BY <2>1, <1>1, <1>8 DEF DrainTimeout, JobTyped, TypeOK, instance, database, history
<1>9. CASE Remove
  <2>1. JobTyped'
    BY <1>0, <1>2, <1>9 DEF Remove, JobTyped, NoJob, JobFlush, TypeOK
  <2> QED
    BY <2>1, <1>1, <1>9 DEF Remove, ZeroPending, JobTyped, TypeOK, database, history
<1>10. CASE Install
  <2>1. JobTyped'
    BY <1>0, <1>2, <1>10 DEF Install, JobTyped, NoJob, JobFlush, TypeOK
  <2>2. /\ persistedTraffic' \in Nat /\ siteUsed' \in Nat
        /\ persistedBytes' \in [Direction -> Nat] /\ siteDir' \in [Direction -> Nat]
    BY <1>0, <1>10 DEF Install, JobTyped
  <2> QED
    BY <2>1, <2>2, <1>1, <1>10 DEF Install, ZeroPending, JobTyped, TypeOK, database, history
<1> QED
  BY <1>3, <1>4, <1>5, <1>6, <1>7, <1>8, <1>9, <1>10 DEF Lifecycle

LEMMA ExitSums ==
  ASSUME TypeOK, Exit
  PROVE  /\ \A d \in Direction :
               lostMinute'[d] = lostMinute[d] + InBuckets(pendingMinute, d)
                                  + InBuckets(flight.minutes, d) + Locals(meter, d)
         /\ lostMinute' \in [Direction -> Nat]
         /\ lostRequests' = lostRequests + InBuckets(flight.minutes, "requests")
                                         + InBuckets(WithResidual, "requests")
         /\ lostRequests' \in Nat
<1>1. pendingMinute \in Buckets /\ flight.minutes \in Buckets /\ WithResidual \in Buckets
  BY ResidualTyped DEF TypeOK, Buckets
<1>2. lostMinute \in [Direction -> Nat] /\ lostRequests \in Nat
      /\ \A r \in Request : meter[r].local \in [Direction -> Nat]
  BY DEF TypeOK
<1>3. ASSUME NEW d \in Direction
      PROVE  /\ lostMinute'[d] = lostMinute[d] + InBuckets(pendingMinute, d)
                                   + InBuckets(flight.minutes, d) + Locals(meter, d)
             /\ lostMinute'[d] \in Nat
  <2>1. d \in Kind
    BY DEF Kind
  <2>2. InBuckets(pendingMinute, d) \in Nat /\ InBuckets(flight.minutes, d) \in Nat
    BY <1>1, <2>1, BucketsTyped
  <2>3. Locals(meter, d) \in Nat
    BY <1>2, LocalsTyped
  <2>4. SumFunction([m \in Minute |-> pendingMinute[m][d] + flight.minutes[m][d]])
          = InBuckets(pendingMinute, d) + InBuckets(flight.minutes, d)
    BY <1>1, <2>1, BucketsOfTwo
  <2>5. lostMinute'[d] = lostMinute[d]
             + SumFunction([m \in Minute |-> pendingMinute[m][d] + flight.minutes[m][d]])
             + SumFunction([r \in Request |-> meter[r].local[d]])
    BY DEF Exit
  <2>6. SumFunction([r \in Request |-> meter[r].local[d]]) = Locals(meter, d)
    BY DEF Locals
  <2>7. lostMinute[d] \in Nat
    BY <1>2
  <2> QED
    BY <2>2, <2>3, <2>4, <2>5, <2>6, <2>7
<1>4. DOMAIN lostMinute' = Direction /\ lostMinute' = [d \in Direction |-> lostMinute'[d]]
  BY DEF Exit
<1>5. "requests" \in Kind
  BY DEF Kind
<1>6. InBuckets(flight.minutes, "requests") \in Nat /\ InBuckets(WithResidual, "requests") \in Nat
  BY <1>1, <1>5, BucketsTyped
<1>7. lostRequests' = lostRequests + InBuckets(flight.minutes, "requests")
                                   + InBuckets(WithResidual, "requests")
  BY DEF Exit, PendingTotal, RequestsIn, InBuckets
<1> QED
  BY <1>2, <1>3, <1>4, <1>6, <1>7

LEMMA ExitTypes ==
  ASSUME TypeOK, Exit
  PROVE  TypeOK'
<1>1. MeterTyped'
  BY MinutesAreTyped DEF Exit, TypeOK, MeterTyped, NoMeter, NoBytes
<1>2. FlightTyped' /\ pendingMinute' \in Buckets /\ bytes' \in [Direction -> Nat]
  BY EmptyIsTyped DEF Exit, ZeroPending, FlightTyped
<1>3. JobTyped'
  BY DEF Exit, JobTyped, NoJob, NoRow, NoBytes
<1>4. faults' \in 0..MaxFault
  BY BoundAssumption DEF Exit, TypeOK
<1>5. lost' \in [Direction -> Nat]
  BY DEF Exit, TypeOK
<1>6. /\ persistedBytes' \in [Direction -> Nat] /\ persistedTraffic' \in Nat
      /\ siteUsed' \in Nat /\ siteDir' \in [Direction -> Nat]
  BY EmptyIsTyped DEF Exit
<1> QED
  BY <1>1, <1>2, <1>3, <1>4, <1>5, <1>6, ExitSums
     DEF Exit, ZeroPending, MeterTyped, FlightTyped, JobTyped, Buckets, TypeOK, database

LEMMA TypeStep ==
  ASSUME TypeOK, [Next]_vars
  PROVE  TypeOK'
<1>1. CASE Tick
  <2>1. now' \in Minute
    BY <1>1, BoundAssumption DEF Tick, TypeOK, Minute
  <2> QED
    BY <1>1, <2>1 DEF Tick, TypeOK, control, instance, database, history
<1>2. CASE UNCHANGED vars
  BY <1>2 DEF vars, TypeOK
<1> QED
  BY <1>1, <1>2, MeteringTypes, FlushTypes, LifecycleTypes, ExitTypes DEF Next

LEMMA InitTypes == ASSUME Init PROVE TypeOK
<1>1. MeterTyped
  BY MinutesAreTyped, EmptyIsTyped DEF Init, MeterTyped, NoMeter
<1>2. FlightTyped /\ pendingMinute \in Buckets /\ minuteLogs \in Buckets
  BY EmptyIsTyped DEF Init, FlightTyped
<1>3. JobTyped
  BY EmptyIsTyped DEF Init, JobTyped, NoJob, NoRow
<1>4. logs \in [Kind -> Nat] /\ faults \in 0..MaxFault
  BY BoundAssumption DEF Init, NoDelta
<1> QED
  BY <1>1, <1>2, <1>3, <1>4, EmptyIsTyped, MinutesAreTyped
     DEF Init, MeterTyped, FlightTyped, JobTyped, Buckets, TypeOK

(* Everything the accounting keeps is of its kind: no counter ever goes    *)
(* below zero.                                                             *)
THEOREM TypeCorrect == Spec => []TypeOK
<1>1. Init => TypeOK
  BY InitTypes
<1>2. TypeOK /\ [Next]_vars => TypeOK'
  BY TypeStep
<1> QED
  BY <1>1, <1>2, PTL DEF Spec

-----------------------------------------------------------------------------
(***************************************************************************)
(* What the database shows.  The timeline is followed minute by minute,    *)
(* the requests from the moment their bucket has them.                     *)
(***************************************************************************)
Finished == {r \in Request : meter[r].at \in {"counting", "done"}}

OneTransaction == /\ rowUsed = rowDir["in"] + rowDir["out"]
                  /\ \A d \in Direction : logs[d] = rowDir[d]

Timeline ==
  \A d \in Direction :
     served[d] = InBuckets(pendingMinute, d) + InBuckets(flight.minutes, d)
                 + InBuckets(minuteLogs, d) + Locals(meter, d) + lostMinute[d]

(* The bytes of a bucket never move before those of the totals.            *)
NeverAhead ==
  \A d \in Direction :
     /\ InBuckets(minuteLogs, d) <= rowDir[d]
     /\ InBuckets(minuteLogs, d) + InBuckets(flight.minutes, d) <= rowDir[d] + flight.bytes[d]
     /\ lost[d] <= lostMinute[d]

MeterShape ==
  \A r \in Request : meter[r].at # "open" \/ meter[r].streaming => meter[r].local = NoBytes

NoFlightIsEmpty == ~Flushing => flight = NoFlight

Bucketed ==
  Cardinality(Finished) <= logs["requests"] + InBuckets(flight.minutes, "requests")
                           + lostRequests + InBuckets(pendingMinute, "requests")

ViewInv == /\ TypeOK
           /\ OneTransaction
           /\ Timeline
           /\ NeverAhead
           /\ MeterShape
           /\ NoFlightIsEmpty
           /\ Bucketed

(* The sums are naturals, which the prover has to be told.                 *)
LEMMA ViewsTyped ==
  ASSUME TypeOK
  PROVE  /\ \A k \in Kind : /\ InBuckets(pendingMinute, k) \in Nat
                            /\ InBuckets(flight.minutes, k) \in Nat
                            /\ InBuckets(minuteLogs, k) \in Nat
                            /\ logs[k] \in Nat
         /\ \A d \in Direction : /\ Locals(meter, d) \in Nat
                                 /\ served[d] \in Nat /\ lostMinute[d] \in Nat /\ lost[d] \in Nat
                                 /\ rowDir[d] \in Nat /\ flight.bytes[d] \in Nat /\ bytes[d] \in Nat
         /\ IsFiniteSet(Finished) /\ Cardinality(Finished) \in Nat
         /\ lostRequests \in Nat
<1>1. /\ pendingMinute \in Buckets /\ flight.minutes \in Buckets /\ minuteLogs \in Buckets
      /\ \A r \in Request : meter[r].local \in [Direction -> Nat]
  BY DEF TypeOK, Buckets
<1>2. \A k \in Kind : /\ InBuckets(pendingMinute, k) \in Nat
                      /\ InBuckets(flight.minutes, k) \in Nat
                      /\ InBuckets(minuteLogs, k) \in Nat
  BY <1>1, BucketsTyped
<1>3. \A d \in Direction : Locals(meter, d) \in Nat
  BY <1>1, LocalsTyped
<1>4. IsFiniteSet(Finished) /\ Cardinality(Finished) \in Nat
  BY RequestAssumption, FS_Subset, FS_CardinalityType DEF Finished
<1> QED
  BY <1>2, <1>3, <1>4 DEF TypeOK

LEMMA KindsAre == Direction \subseteq Kind /\ "requests" \in Kind
                  /\ "in" \in Direction /\ "out" \in Direction
  BY DEF Kind, Direction

(* A step the views do not see.                                            *)
LEMMA QuietStep ==
  ASSUME ViewInv, TypeOK', MeterShape',
         \A r \in Request : meter'[r].local = meter[r].local,
         \A r \in Request : meter'[r].at \in {"counting", "done"}
                              <=> meter[r].at \in {"counting", "done"},
         UNCHANGED <<pendingMinute, flight, rowUsed, rowDir, logs, minuteLogs>>,
         UNCHANGED <<served, lost, lostMinute, lostRequests>>
  PROVE  ViewInv'
<1>1. \A d \in Direction : Locals(meter', d) = Locals(meter, d)
  BY LocalsAgree
<1>2. Finished' = Finished
  BY DEF Finished
<1>3. Timeline'
  BY <1>1 DEF ViewInv, Timeline
<1>4. Bucketed'
  BY <1>2 DEF ViewInv, Bucketed
<1> QED
  BY <1>3, <1>4 DEF ViewInv, OneTransaction, NeverAhead, NoFlightIsEmpty, Flushing

(* A step of one meter: n bytes arrive, b of those it knows of move to a   *)
(* bucket, and so do q requests.                                           *)
LEMMA BytesMove ==
  ASSUME ViewInv, TypeOK', MeterShape',
         NEW r \in Request, NEW n \in [Direction -> Nat], NEW b \in [Direction -> Nat], NEW q \in Nat,
         \A s \in Request \ {r} : meter'[s].local = meter[s].local,
         \A d \in Direction :
            /\ served'[d] = served[d] + n[d]
            /\ InBuckets(pendingMinute', d) = InBuckets(pendingMinute, d) + b[d]
            /\ meter'[r].local[d] + b[d] = meter[r].local[d] + n[d],
         InBuckets(pendingMinute', "requests") = InBuckets(pendingMinute, "requests") + q,
         Cardinality(Finished') <= Cardinality(Finished) + q,
         UNCHANGED <<flight, rowUsed, rowDir, logs, minuteLogs>>,
         UNCHANGED <<lost, lostMinute, lostRequests>>
  PROVE  ViewInv'
<1>1. /\ TypeOK
      /\ \A s \in Request : meter[s].local \in [Direction -> Nat] /\ meter'[s].local \in [Direction -> Nat]
  BY DEF ViewInv, TypeOK
<1>2. ASSUME NEW d \in Direction
      PROVE  Locals(meter', d) + b[d] = Locals(meter, d) + n[d]
  <2>1. Locals(meter', d) + meter[r].local[d] = Locals(meter, d) + meter'[r].local[d]
    <3>1. r \in Request /\ d \in Direction
      OBVIOUS
    <3>2. \A s \in Request \ {r} : meter'[s].local = meter[s].local
      OBVIOUS
    <3> QED
      BY ONLY <1>1, <3>1, <3>2, LocalChanges, SMTT(60)
  <2>2. Locals(meter', d) \in Nat /\ Locals(meter, d) \in Nat
    BY <1>1, LocalsTyped
  <2>3. meter[r].local[d] \in Nat /\ meter'[r].local[d] \in Nat /\ b[d] \in Nat /\ n[d] \in Nat
    BY <1>1
  <2> QED
    BY <2>1, <2>2, <2>3
<1>3. Timeline'
  <2> SUFFICES ASSUME NEW d \in Direction
               PROVE  served'[d] = InBuckets(pendingMinute', d) + InBuckets(flight'.minutes, d)
                                   + InBuckets(minuteLogs', d) + Locals(meter', d) + lostMinute'[d]
    BY DEF Timeline
  <2>1. served[d] = InBuckets(pendingMinute, d) + InBuckets(flight.minutes, d)
                    + InBuckets(minuteLogs, d) + Locals(meter, d) + lostMinute[d]
    BY DEF ViewInv, Timeline
  <2>2. Locals(meter', d) \in Nat
    BY <1>1, LocalsTyped
  <2>3. n[d] \in Nat /\ b[d] \in Nat
    OBVIOUS
  <2>4. d \in Kind
    BY KindsAre
  <2>5. /\ InBuckets(pendingMinute, d) \in Nat /\ InBuckets(flight.minutes, d) \in Nat
        /\ InBuckets(minuteLogs, d) \in Nat /\ Locals(meter, d) \in Nat
        /\ served[d] \in Nat /\ lostMinute[d] \in Nat
    BY <1>1, <2>4, ViewsTyped
  <2>6. /\ InBuckets(flight'.minutes, d) = InBuckets(flight.minutes, d)
        /\ InBuckets(minuteLogs', d) = InBuckets(minuteLogs, d)
        /\ lostMinute'[d] = lostMinute[d]
    OBVIOUS
  <2>7. /\ served'[d] = served[d] + n[d]
        /\ InBuckets(pendingMinute', d) = InBuckets(pendingMinute, d) + b[d]
    OBVIOUS
  <2> QED
    BY ONLY <1>2, <2>1, <2>2, <2>3, <2>5, <2>6, <2>7
<1>4. Bucketed'
  <2>1. Cardinality(Finished)' = Cardinality(Finished')
    OBVIOUS
  <2>2. Cardinality(Finished') \in Nat
    BY RequestAssumption, FS_Subset, FS_CardinalityType DEF Finished
  <2> QED
    BY <1>1, <2>1, <2>2, ViewsTyped, KindsAre DEF ViewInv, Bucketed
<1> QED
  BY <1>3, <1>4 DEF ViewInv, OneTransaction, NeverAhead, NoFlightIsEmpty, Flushing

LEMMA MeteringKeepsViews ==
  ASSUME ViewInv, Metering
  PROVE  ViewInv'
<1>0. TypeOK /\ TypeOK' /\ MeterShape /\ MeterTyped /\ now \in Minute
  BY MeteringTypes DEF ViewInv, TypeOK, MeterTyped
<1> PICK r \in Request :
               \/ Admit(r) \/ NewMeter(r) \/ DeferFinish(r)
               \/ Promote(r) \/ FinishBucket(r) \/ FinishCount(r)
               \/ \E d \in Direction, n \in Payload : AddFast(r, d, n) \/ AddStreaming(r, d, n)
  BY DEF Metering
<1> DEFINE Nothing == [d \in Direction |-> 0]
<1>00. Nothing \in [Direction -> Nat] /\ NoBytes \in [Direction -> Nat]
       /\ \A d \in Direction : Nothing[d] = 0 /\ NoBytes[d] = 0
  BY DEF NoBytes
<1> HIDE DEF Nothing
<1>1. CASE Admit(r)
  <2>1. MeterShape' /\ \A s \in Request : meter'[s].local = meter[s].local
    BY <1>0, <1>1 DEF Admit, MeterShape, MeterTyped
  <2>2. \A s \in Request : meter'[s].at \in {"counting", "done"} <=> meter[s].at \in {"counting", "done"}
    BY <1>0, <1>1 DEF Admit, MeterTyped
  <2>3. UNCHANGED <<pendingMinute, flight, rowUsed, rowDir, logs, minuteLogs>>
        /\ UNCHANGED <<served, lost, lostMinute, lostRequests>>
    BY <1>1 DEF Admit, instance, database, history
  <2> QED
    BY <1>0, <2>1, <2>2, <2>3, QuietStep
<1>2. CASE NewMeter(r)
  <2>1. MeterShape' /\ \A s \in Request : meter'[s].local = meter[s].local
    BY <1>0, <1>2 DEF NewMeter, MeterShape, MeterTyped
  <2>2. \A s \in Request : meter'[s].at \in {"counting", "done"} <=> meter[s].at \in {"counting", "done"}
    BY <1>0, <1>2 DEF NewMeter, MeterTyped
  <2>3. UNCHANGED <<pendingMinute, flight, rowUsed, rowDir, logs, minuteLogs>>
        /\ UNCHANGED <<served, lost, lostMinute, lostRequests>>
    BY <1>2 DEF NewMeter, instance, database, history
  <2> QED
    BY <1>0, <2>1, <2>2, <2>3, QuietStep
<1>3. CASE DeferFinish(r)
  <2>1. MeterShape' /\ \A s \in Request : meter'[s].local = meter[s].local
    BY <1>0, <1>3 DEF DeferFinish, MeterShape, MeterTyped
  <2>2. \A s \in Request : meter'[s].at \in {"counting", "done"} <=> meter[s].at \in {"counting", "done"}
    BY <1>0, <1>3 DEF DeferFinish, MeterTyped
  <2>3. UNCHANGED <<pendingMinute, flight, rowUsed, rowDir, logs, minuteLogs>>
        /\ UNCHANGED <<served, lost, lostMinute, lostRequests>>
    BY <1>3 DEF DeferFinish, instance, database, history
  <2> QED
    BY <1>0, <2>1, <2>2, <2>3, QuietStep
<1>4. CASE FinishCount(r)
  <2>1. MeterShape' /\ \A s \in Request : meter'[s].local = meter[s].local
    BY <1>0, <1>4 DEF FinishCount, NoMeter, MeterShape, MeterTyped
  <2>2. \A s \in Request : meter'[s].at \in {"counting", "done"} <=> meter[s].at \in {"counting", "done"}
    BY <1>0, <1>4 DEF FinishCount, NoMeter, MeterTyped
  <2>3. UNCHANGED <<pendingMinute, flight, rowUsed, rowDir, logs, minuteLogs>>
        /\ UNCHANGED <<served, lost, lostMinute, lostRequests>>
    BY <1>4 DEF FinishCount, instance, database, history
  <2> QED
    BY <1>0, <2>1, <2>2, <2>3, QuietStep
<1>5. CASE Promote(r)
  <2>1. MeterShape' /\ \A s \in Request \ {r} : meter'[s].local = meter[s].local
    BY <1>0, <1>5 DEF Promote, MeterShape, MeterTyped
  <2>2. Finished' = Finished
    BY <1>0, <1>5 DEF Promote, Finished, MeterTyped
  <2>3. UNCHANGED <<flight, rowUsed, rowDir, logs, minuteLogs>> /\ UNCHANGED <<served, lost, lostMinute, lostRequests>>
    BY <1>5 DEF Promote, database, history
  <2>4. meter[r].local \in [Direction -> Nat] /\ meter[r].started \in Minute /\ AddMinute(meter[r].started, meter[r].local, 0)
    BY <1>0, <1>5 DEF Promote, MeterTyped
  <2>5. /\ InBuckets(pendingMinute', "requests") = InBuckets(pendingMinute, "requests") + 0
        /\ \A d \in Direction :
              InBuckets(pendingMinute', d) = InBuckets(pendingMinute, d) + meter[r].local[d]
    BY <1>0, <2>4, MinuteAdded
  <2>6. meter'[r].local = NoBytes
    BY <1>0, <1>5 DEF Promote, MeterTyped
  <2>7. \A d \in Direction : /\ served'[d] = served[d] + Nothing[d]
                             /\ meter'[r].local[d] + meter[r].local[d] = meter[r].local[d] + Nothing[d]
    BY <1>0, <1>00, <2>3, <2>4, <2>6, ViewsTyped
  <2>8. Cardinality(Finished') <= Cardinality(Finished) + 0
    BY <1>0, <2>2, ViewsTyped
  <2> QED
    BY <1>0, <1>00, <2>1, <2>3, <2>4, <2>5, <2>7, <2>8, BytesMove
<1>6. CASE FinishBucket(r)
  <2> DEFINE b == IF meter[r].streaming THEN NoBytes ELSE meter[r].local
  <2>1. MeterShape' /\ \A s \in Request \ {r} : meter'[s].local = meter[s].local
    BY <1>0, <1>6 DEF FinishBucket, MeterShape, MeterTyped
  <2>2. Finished' = Finished \cup {r}
    BY <1>0, <1>6 DEF FinishBucket, Finished, MeterTyped
  <2>3. UNCHANGED <<flight, rowUsed, rowDir, logs, minuteLogs>> /\ UNCHANGED <<served, lost, lostMinute, lostRequests>>
    BY <1>6 DEF FinishBucket, database, history
  <2>4. b \in [Direction -> Nat] /\ meter[r].due \in Minute /\ AddMinute(meter[r].due, b, 1)
    BY <1>0, <1>00, <1>6 DEF FinishBucket, MeterTyped
  <2>5. b = meter[r].local
    BY <1>0, <1>6 DEF FinishBucket, MeterShape
  <2>6. meter'[r].local = NoBytes
    BY <1>0, <1>6 DEF FinishBucket, MeterTyped
  <2> HIDE DEF b
  <2>7. /\ InBuckets(pendingMinute', "requests") = InBuckets(pendingMinute, "requests") + 1
        /\ \A d \in Direction : InBuckets(pendingMinute', d) = InBuckets(pendingMinute, d) + b[d]
    BY <1>0, <2>4, MinuteAdded
  <2>8. \A d \in Direction : /\ served'[d] = served[d] + Nothing[d]
                             /\ meter'[r].local[d] + b[d] = meter[r].local[d] + Nothing[d]
    BY <1>0, <1>00, <2>3, <2>4, <2>5, <2>6, ViewsTyped
  <2>9. Cardinality(Finished') <= Cardinality(Finished) + 1
    <3>1. IsFiniteSet(Finished) /\ Cardinality(Finished) \in Nat
      BY <1>0, ViewsTyped
    <3>2. Cardinality(Finished \cup {r}) = IF r \in Finished THEN Cardinality(Finished)
                                             ELSE Cardinality(Finished) + 1
      BY <3>1, FS_AddElement
    <3>3. Cardinality(Finished') = Cardinality(Finished \cup {r})
      BY <2>2
    <3> QED
      BY ONLY <3>1, <3>2, <3>3
  <2> QED
    BY <1>0, <1>00, <2>1, <2>3, <2>4, <2>7, <2>8, <2>9, BytesMove
<1>7. CASE \E d \in Direction, n \in Payload : AddFast(r, d, n) \/ AddStreaming(r, d, n)
  <2> PICK e \in Direction, n \in Payload : AddFast(r, e, n) \/ AddStreaming(r, e, n)
    BY <1>7
  <2> DEFINE new == [NoBytes EXCEPT ![e] = n]
  <2>1. n \in Nat
    BY PayloadAssumption
  <2>2. new \in [Direction -> Nat] /\ \A d \in Direction : new[d] = IF d = e THEN n ELSE 0
    BY <2>1 DEF NoBytes
  <2>3. ASSUME CountBytes(e, n)
        PROVE  \A d \in Direction : served'[d] = served[d] + new[d]
    BY <1>0, <2>1, <2>2, <2>3 DEF CountBytes, TypeOK
  <2>4. CASE AddFast(r, e, n)
    <3> HIDE DEF new
    <3>1. MeterShape' /\ \A s \in Request \ {r} : meter'[s].local = meter[s].local
      BY <1>0, <2>4 DEF AddFast, MeterShape, MeterTyped
    <3>2. Finished' = Finished
      BY <1>0, <2>4 DEF AddFast, Finished, MeterTyped
    <3>3. UNCHANGED <<flight, rowUsed, rowDir, logs, minuteLogs, pendingMinute>> /\ UNCHANGED <<lost, lostMinute, lostRequests>>
      BY <2>4 DEF AddFast, database
    <3>4. \A d \in Direction : meter'[r].local[d] = meter[r].local[d] + (IF d = e THEN n ELSE 0)
      BY <1>0, <2>1, <2>4 DEF AddFast, MeterTyped
    <3>5. \A d \in Direction : meter[r].local[d] \in Nat
      BY <1>0 DEF MeterTyped
    <3>6. \A d \in Direction : meter'[r].local[d] + Nothing[d] = meter[r].local[d] + new[d]
      BY <1>00, <2>1, <2>2, <3>4, <3>5
    <3>7. \A d \in Direction : served'[d] = served[d] + new[d]
      BY <2>3, <2>4 DEF AddFast
    <3>8. /\ InBuckets(pendingMinute', "requests") = InBuckets(pendingMinute, "requests") + 0
          /\ \A d \in Direction : InBuckets(pendingMinute', d) = InBuckets(pendingMinute, d) + Nothing[d]
      BY <1>0, <1>00, <3>3, ViewsTyped, KindsAre
    <3>9. Cardinality(Finished') <= Cardinality(Finished) + 0
      BY <1>0, <3>2, ViewsTyped
    <3> QED
      BY <1>0, <1>00, <2>2, <3>1, <3>3, <3>6, <3>7, <3>8, <3>9, BytesMove
  <2>5. CASE AddStreaming(r, e, n)
    <3>1. AddMinute(now, new, 0)
      BY <2>5 DEF AddStreaming
    <3> HIDE DEF new
    <3>2. MeterShape' /\ \A s \in Request : meter'[s].local = meter[s].local
      BY <1>0, <2>5 DEF AddStreaming, MeterShape, MeterTyped
    <3>3. Finished' = Finished
      BY <1>0, <2>5 DEF AddStreaming, Finished, MeterTyped
    <3>4. UNCHANGED <<flight, rowUsed, rowDir, logs, minuteLogs>> /\ UNCHANGED <<lost, lostMinute, lostRequests>>
      BY <2>5 DEF AddStreaming, database
    <3>5. /\ InBuckets(pendingMinute', "requests") = InBuckets(pendingMinute, "requests") + 0
          /\ \A d \in Direction : InBuckets(pendingMinute', d) = InBuckets(pendingMinute, d) + new[d]
      BY <1>0, <2>2, <3>1, MinuteAdded
    <3>6. \A d \in Direction : meter'[r].local[d] + new[d] = meter[r].local[d] + new[d]
      BY <3>2
    <3>7. \A d \in Direction : served'[d] = served[d] + new[d]
      BY <2>3, <2>5 DEF AddStreaming
    <3>8. Cardinality(Finished') <= Cardinality(Finished) + 0
      BY <1>0, <3>3, ViewsTyped
    <3> QED
      BY <1>0, <2>2, <3>2, <3>4, <3>5, <3>6, <3>7, <3>8, BytesMove
  <2> QED
    BY <2>4, <2>5
<1> QED
  BY <1>1, <1>2, <1>3, <1>4, <1>5, <1>6, <1>7

LEMMA FlushKeepsViews ==
  ASSUME ViewInv, IInv, Flush
  PROVE  ViewInv'
<1>0. TypeOK /\ TypeOK' /\ MeterShape /\ pendingMinute \in Buckets /\ minuteLogs \in Buckets
      /\ flight.minutes \in Buckets
  BY FlushTypes DEF ViewInv, TypeOK, Buckets
<1>1. ASSUME NEW by \in {"ticker"} \cup JobFlush, FlushNothing(by)
      PROVE  ViewInv'
  <2>1. UNCHANGED meter /\ UNCHANGED <<pendingMinute, flight, rowUsed, rowDir, logs, minuteLogs>>
        /\ UNCHANGED <<served, lost, lostMinute, lostRequests>>
    BY <1>1 DEF FlushNothing, instance, database, history
  <2>2. MeterShape'
    BY <1>0, <2>1 DEF MeterShape
  <2> QED
    BY <1>0, <2>1, <2>2, QuietStep
<1>2. ASSUME NEW by \in {"ticker"} \cup JobFlush, FlushSwap(by)
      PROVE  ViewInv'
  <2>1. /\ UNCHANGED meter /\ UNCHANGED <<rowUsed, rowDir, logs, minuteLogs>>
        /\ UNCHANGED <<served, lost, lostMinute, lostRequests>>
        /\ pendingMinute' = NoMinutes /\ flight'.minutes = WithResidual /\ flight'.bytes = bytes
        /\ flight'.by = by /\ ~Flushing
    BY <1>2 DEF FlushSwap, SwapOut, database, history
  <2>2. flight = NoFlight
    BY <2>1 DEF ViewInv, NoFlightIsEmpty
  <2>3. \A k \in Kind : InBuckets(flight.minutes, k) = 0 /\ InBuckets(pendingMinute', k) = 0
    BY <2>1, <2>2, NoBuckets DEF NoFlight
  <2>4. /\ \A d \in Direction : InBuckets(flight'.minutes, d) = InBuckets(pendingMinute, d)
        /\ InBuckets(flight'.minutes, "requests") \in Nat
        /\ InBuckets(flight'.minutes, "requests") >= InBuckets(pendingMinute, "requests")
    BY <1>0, <2>1, ResidualTyped, BucketsTyped, KindsAre
  <2>5. MeterShape' /\ Finished' = Finished
    BY <1>0, <2>1 DEF MeterShape, Finished
  <2>6. Timeline'
    <3> SUFFICES ASSUME NEW d \in Direction
                 PROVE  served[d] = InBuckets(pendingMinute', d) + InBuckets(flight'.minutes, d)
                                   + InBuckets(minuteLogs, d) + Locals(meter, d) + lostMinute[d]
      BY <2>1 DEF Timeline
    <3>1. served[d] = InBuckets(pendingMinute, d) + InBuckets(flight.minutes, d)
                      + InBuckets(minuteLogs, d) + Locals(meter, d) + lostMinute[d]
      BY DEF ViewInv, Timeline
    <3> QED
      BY <1>0, <2>3, <2>4, <3>1, ViewsTyped, KindsAre
  <2>7. NeverAhead'
    <3> SUFFICES ASSUME NEW d \in Direction
                 PROVE  InBuckets(minuteLogs, d) + InBuckets(flight'.minutes, d)
                          <= rowDir[d] + flight'.bytes[d]
      BY <2>1 DEF NeverAhead, ViewInv
    <3>1. /\ served[d] = InBuckets(pendingMinute, d) + InBuckets(flight.minutes, d)
                         + InBuckets(minuteLogs, d) + Locals(meter, d) + lostMinute[d]
          /\ lost[d] <= lostMinute[d]
      BY DEF ViewInv, Timeline, NeverAhead
    <3>2. served[d] = bytes[d] + flight.bytes[d] + rowDir[d] + lost[d] /\ flight.bytes[d] = 0
      BY <2>2 DEF IInv, Conservation, NoFlight, NoBytes
    <3>3. /\ InBuckets(pendingMinute, d) \in Nat /\ InBuckets(minuteLogs, d) \in Nat
          /\ Locals(meter, d) \in Nat /\ served[d] \in Nat /\ lostMinute[d] \in Nat
          /\ lost[d] \in Nat /\ rowDir[d] \in Nat /\ bytes[d] \in Nat
      BY <1>0, ViewsTyped, KindsAre
    <3>4. InBuckets(flight.minutes, d) = 0 /\ InBuckets(flight'.minutes, d) = InBuckets(pendingMinute, d)
          /\ flight'.bytes[d] = bytes[d]
      BY <2>1, <2>3, <2>4, KindsAre
    <3> QED
      BY ONLY <3>1, <3>2, <3>3, <3>4
  <2>8. Bucketed'
    <3>1. Cardinality(Finished) <= logs["requests"] + InBuckets(flight.minutes, "requests")
                           + lostRequests + InBuckets(pendingMinute, "requests")
      BY DEF ViewInv, Bucketed
    <3>2. Cardinality(Finished) <= logs["requests"] + InBuckets(flight'.minutes, "requests")
                           + lostRequests + InBuckets(pendingMinute', "requests")
      BY <1>0, <2>3, <2>4, <3>1, ViewsTyped, KindsAre
    <3> QED
      BY <2>1, <2>5, <3>2 DEF Bucketed
  <2>9. NoFlightIsEmpty'
    BY <2>1 DEF NoFlightIsEmpty, Flushing, JobFlush
  <2> QED
    BY <1>0, <2>1, <2>5, <2>6, <2>7, <2>8, <2>9 DEF ViewInv, OneTransaction
<1>3. CASE FlushCommit
  <2>1. /\ UNCHANGED <<meter, pendingMinute>> /\ UNCHANGED <<served, lost, lostMinute, lostRequests>>
        /\ minuteLogs' = PlusMinutes(minuteLogs, flight.minutes) /\ flight' = NoFlight
        /\ rowUsed' = rowUsed + (flight.bytes["in"] + flight.bytes["out"])
        /\ rowDir' = [d \in Direction |-> rowDir[d] + flight.bytes[d]]
        /\ logs' = [k \in Kind |-> logs[k] + (IF k \in Direction THEN flight.bytes[k]
                                              ELSE RequestsIn(flight.minutes))]
    BY <1>3 DEF FlushCommit, CommitBuckets, history
  <2>2. \A k \in Kind : InBuckets(flight'.minutes, k) = 0
                        /\ InBuckets(minuteLogs', k) = InBuckets(minuteLogs, k) + InBuckets(flight.minutes, k)
    BY <1>0, <2>1, NoBuckets, BucketsPlus DEF NoFlight
  <2>3. MeterShape' /\ Finished' = Finished
    BY <1>0, <2>1 DEF MeterShape, Finished
  <2>4. \A d \in Direction : logs'[d] = logs[d] + flight.bytes[d] /\ rowDir'[d] = rowDir[d] + flight.bytes[d]
    BY <2>1, KindsAre
  <2>5. logs'["requests"] = logs["requests"] + InBuckets(flight.minutes, "requests")
    BY <2>1, KindsAre DEF RequestsIn, InBuckets, Direction
  <2>6. OneTransaction'
    BY <1>0, <2>1, <2>4, ViewsTyped, KindsAre DEF OneTransaction, ViewInv, TypeOK
  <2>7. Timeline'
    <3> SUFFICES ASSUME NEW d \in Direction
                 PROVE  served[d] = InBuckets(pendingMinute, d) + InBuckets(flight'.minutes, d)
                                   + InBuckets(minuteLogs', d) + Locals(meter, d) + lostMinute[d]
      BY <2>1 DEF Timeline
    <3>1. served[d] = InBuckets(pendingMinute, d) + InBuckets(flight.minutes, d)
                      + InBuckets(minuteLogs, d) + Locals(meter, d) + lostMinute[d]
      BY DEF ViewInv, Timeline
    <3> QED
      BY <1>0, <2>2, <3>1, ViewsTyped, KindsAre
  <2>8. NeverAhead'
    <3> SUFFICES ASSUME NEW d \in Direction
                 PROVE  /\ InBuckets(minuteLogs', d) <= rowDir'[d]
                        /\ InBuckets(minuteLogs', d) + InBuckets(flight'.minutes, d) <= rowDir'[d] + flight'.bytes[d]
      BY <2>1 DEF NeverAhead, ViewInv
    <3>1. InBuckets(minuteLogs, d) + InBuckets(flight.minutes, d) <= rowDir[d] + flight.bytes[d]
      BY DEF ViewInv, NeverAhead
    <3>2. flight'.bytes[d] = 0
      BY <2>1 DEF NoFlight, NoBytes
    <3>3. /\ InBuckets(flight'.minutes, d) = 0
          /\ InBuckets(minuteLogs', d) = InBuckets(minuteLogs, d) + InBuckets(flight.minutes, d)
          /\ rowDir'[d] = rowDir[d] + flight.bytes[d]
      BY <2>2, <2>4, KindsAre
    <3>4. /\ InBuckets(minuteLogs, d) \in Nat /\ InBuckets(flight.minutes, d) \in Nat
          /\ rowDir[d] \in Nat /\ flight.bytes[d] \in Nat
      BY <1>0, ViewsTyped, KindsAre
    <3> QED
      BY ONLY <3>1, <3>2, <3>3, <3>4
  <2>9. Bucketed'
    <3>1. Cardinality(Finished) <= logs["requests"] + InBuckets(flight.minutes, "requests")
                           + lostRequests + InBuckets(pendingMinute, "requests")
      BY DEF ViewInv, Bucketed
    <3>2. Cardinality(Finished) <= logs'["requests"] + InBuckets(flight'.minutes, "requests")
                           + lostRequests + InBuckets(pendingMinute, "requests")
      BY <1>0, <2>2, <2>5, <3>1, ViewsTyped, KindsAre
    <3> QED
      BY <2>1, <2>3, <3>2 DEF Bucketed
  <2>10. NoFlightIsEmpty'
    BY <2>1 DEF NoFlightIsEmpty
  <2> QED
    BY <1>0, <2>3, <2>6, <2>7, <2>8, <2>9, <2>10 DEF ViewInv
<1>4. CASE FlushFail
  <2>1. /\ UNCHANGED meter /\ UNCHANGED <<served, lost, lostMinute, lostRequests>>
        /\ UNCHANGED <<rowUsed, rowDir, logs, minuteLogs>>
        /\ pendingMinute' = PlusMinutes(pendingMinute, flight.minutes) /\ flight' = NoFlight
    BY <1>4 DEF FlushFail, Restore, database, history
  <2>2. \A k \in Kind : InBuckets(flight'.minutes, k) = 0
                        /\ InBuckets(pendingMinute', k) = InBuckets(pendingMinute, k) + InBuckets(flight.minutes, k)
    BY <1>0, <2>1, NoBuckets, BucketsPlus DEF NoFlight
  <2>3. MeterShape' /\ Finished' = Finished
    BY <1>0, <2>1 DEF MeterShape, Finished
  <2>4. Timeline'
    <3> SUFFICES ASSUME NEW d \in Direction
                 PROVE  served[d] = InBuckets(pendingMinute', d) + InBuckets(flight'.minutes, d)
                                   + InBuckets(minuteLogs, d) + Locals(meter, d) + lostMinute[d]
      BY <2>1 DEF Timeline
    <3>1. served[d] = InBuckets(pendingMinute, d) + InBuckets(flight.minutes, d)
                      + InBuckets(minuteLogs, d) + Locals(meter, d) + lostMinute[d]
      BY DEF ViewInv, Timeline
    <3> QED
      BY <1>0, <2>2, <3>1, ViewsTyped, KindsAre
  <2>5. NeverAhead'
    <3> SUFFICES ASSUME NEW d \in Direction
                 PROVE  InBuckets(minuteLogs, d) + InBuckets(flight'.minutes, d) <= rowDir[d] + flight'.bytes[d]
      BY <2>1 DEF NeverAhead, ViewInv
    <3>1. InBuckets(minuteLogs, d) <= rowDir[d]
      BY DEF ViewInv, NeverAhead
    <3>2. flight'.bytes[d] = 0 /\ InBuckets(flight'.minutes, d) = 0
      BY <2>1, <2>2, KindsAre DEF NoFlight, NoBytes
    <3> QED
      BY <1>0, <3>1, <3>2, ViewsTyped, KindsAre
  <2>6. Bucketed'
    <3>1. Cardinality(Finished) <= logs["requests"] + InBuckets(flight.minutes, "requests")
                           + lostRequests + InBuckets(pendingMinute, "requests")
      BY DEF ViewInv, Bucketed
    <3>2. Cardinality(Finished) <= logs["requests"] + InBuckets(flight'.minutes, "requests")
                           + lostRequests + InBuckets(pendingMinute', "requests")
      BY <1>0, <2>2, <3>1, ViewsTyped, KindsAre
    <3> QED
      BY <2>1, <2>3, <3>2 DEF Bucketed
  <2>7. NoFlightIsEmpty'
    BY <2>1 DEF NoFlightIsEmpty
  <2> QED
    BY <1>0, <2>1, <2>3, <2>4, <2>5, <2>6, <2>7 DEF ViewInv, OneTransaction
<1> QED
  BY <1>1, <1>2, <1>3, <1>4 DEF Flush

LEMMA LifecycleKeepsViews ==
  ASSUME ViewInv, IInv, Lifecycle
  PROVE  ViewInv'
<1>1. UNCHANGED meter /\ UNCHANGED <<flight, rowUsed, rowDir, logs, minuteLogs>>
      /\ UNCHANGED <<served, lost, lostMinute, lostRequests>>
  BY DEF Lifecycle, StopSite, StartSite, GracefulShutdown, CloseGate, Drained, DrainTimeout,
         Remove, Install, instance, database, history
<1>2. UNCHANGED pendingMinute
  <2>1. CASE Remove \/ Install
    BY <2>1 DEF Remove, Install, ZeroPending, IInv, LeavesNothingBehind, NothingPending
  <2>2. CASE StopSite \/ StartSite \/ GracefulShutdown \/ CloseGate \/ Drained \/ DrainTimeout
    BY <2>2 DEF StopSite, StartSite, GracefulShutdown, CloseGate, Drained, DrainTimeout, instance
  <2> QED
    BY <2>1, <2>2 DEF Lifecycle
<1>3. MeterShape' /\ TypeOK'
  BY <1>1, LifecycleTypes DEF ViewInv, MeterShape
<1> QED
  BY <1>1, <1>2, <1>3, QuietStep

LEMMA ExitKeepsViews ==
  ASSUME ViewInv, IInv, Exit
  PROVE  ViewInv'
<1>0. TypeOK /\ TypeOK' /\ MeterShape
  BY ExitTypes DEF ViewInv
<1>1. /\ UNCHANGED <<rowUsed, rowDir, logs, minuteLogs>> /\ UNCHANGED served
      /\ pendingMinute' = NoMinutes /\ flight' = NoFlight
      /\ meter' = [r \in Request |-> IF r \in Active THEN [NoMeter EXCEPT !.at = "cut"] ELSE meter[r]]
      /\ \A d \in Direction : lost'[d] = lost[d] + bytes[d] + flight.bytes[d]
  BY DEF Exit, ZeroPending, database
<1>2. \A k \in Kind : InBuckets(pendingMinute', k) = 0 /\ InBuckets(flight'.minutes, k) = 0
  BY <1>1, NoBuckets DEF NoFlight
<1>3. \A r \in Request : meter'[r].local = NoBytes
  BY <1>0, <1>1 DEF Active, NoMeter, MeterShape
<1>4. MeterShape'
  BY <1>3 DEF MeterShape
<1>5. \A d \in Direction : Locals(meter', d) = 0
  BY <1>3, LocalsEmpty
<1>6. Finished' \subseteq Finished
  BY <1>0, <1>1 DEF Finished, Active, NoMeter, TypeOK
<1>7. Timeline'
  <2> SUFFICES ASSUME NEW d \in Direction
               PROVE  served[d] = InBuckets(pendingMinute', d) + InBuckets(flight'.minutes, d)
                                 + InBuckets(minuteLogs, d) + Locals(meter', d) + lostMinute'[d]
    BY <1>1 DEF Timeline
  <2>1. served[d] = InBuckets(pendingMinute, d) + InBuckets(flight.minutes, d)
                    + InBuckets(minuteLogs, d) + Locals(meter, d) + lostMinute[d]
    BY DEF ViewInv, Timeline
  <2> QED
    BY <1>0, <1>2, <1>5, <2>1, ViewsTyped, KindsAre, ExitSums
<1>8. NeverAhead'
  <2> SUFFICES ASSUME NEW d \in Direction
               PROVE  /\ InBuckets(minuteLogs, d) + InBuckets(flight'.minutes, d) <= rowDir[d] + flight'.bytes[d]
                      /\ lost'[d] <= lostMinute'[d]
    BY <1>1 DEF NeverAhead, ViewInv
  <2>1. /\ served[d] = InBuckets(pendingMinute, d) + InBuckets(flight.minutes, d)
                       + InBuckets(minuteLogs, d) + Locals(meter, d) + lostMinute[d]
        /\ InBuckets(minuteLogs, d) <= rowDir[d]
    BY DEF ViewInv, Timeline, NeverAhead
  <2>2. served[d] = bytes[d] + flight.bytes[d] + rowDir[d] + lost[d]
    BY DEF IInv, Conservation
  <2>3. /\ InBuckets(pendingMinute, d) \in Nat /\ InBuckets(minuteLogs, d) \in Nat
        /\ InBuckets(flight.minutes, d) \in Nat
        /\ Locals(meter, d) \in Nat /\ served[d] \in Nat /\ lostMinute[d] \in Nat
        /\ lost[d] \in Nat /\ rowDir[d] \in Nat /\ bytes[d] \in Nat /\ flight.bytes[d] \in Nat
    BY <1>0, ViewsTyped, KindsAre
  <2>4. lostMinute'[d] = lostMinute[d] + InBuckets(pendingMinute, d)
                         + InBuckets(flight.minutes, d) + Locals(meter, d)
    BY <1>0, ExitSums
  <2>5. lost'[d] = lost[d] + bytes[d] + flight.bytes[d]
    BY <1>1
  <2>6. InBuckets(flight'.minutes, d) = 0 /\ flight'.bytes[d] = 0
    BY <1>1, <1>2, KindsAre DEF NoFlight, NoBytes
  <2> QED
    BY ONLY <2>1, <2>2, <2>3, <2>4, <2>5, <2>6
<1>9. Bucketed'
  <2>1. Cardinality(Finished') \in Nat /\ Cardinality(Finished') <= Cardinality(Finished)
    BY <1>0, <1>6, ViewsTyped, FS_Subset, FS_CardinalityType
  <2>2. Cardinality(Finished) <= logs["requests"] + InBuckets(flight.minutes, "requests")
                         + lostRequests + InBuckets(pendingMinute, "requests")
    BY DEF ViewInv, Bucketed
  <2>3. /\ logs["requests"] \in Nat /\ InBuckets(flight.minutes, "requests") \in Nat
        /\ lostRequests \in Nat /\ InBuckets(pendingMinute, "requests") \in Nat
        /\ Cardinality(Finished) \in Nat
    BY <1>0, ViewsTyped, KindsAre
  <2>4. InBuckets(WithResidual, "requests") \in Nat
        /\ InBuckets(WithResidual, "requests") >= InBuckets(pendingMinute, "requests")
    BY <1>0, ResidualTyped, BucketsTyped, KindsAre
  <2>5. lostRequests' = lostRequests + InBuckets(flight.minutes, "requests") + InBuckets(WithResidual, "requests")
    BY <1>0, ExitSums
  <2>6. Cardinality(Finished') <= logs["requests"] + 0 + lostRequests' + 0
    BY ONLY <2>1, <2>2, <2>3, <2>4, <2>5
  <2> QED
    BY <1>1, <1>2, <2>6, KindsAre DEF Bucketed
<1>10. NoFlightIsEmpty'
  BY <1>1 DEF NoFlightIsEmpty
<1> QED
  BY <1>0, <1>1, <1>4, <1>7, <1>8, <1>9, <1>10 DEF ViewInv, OneTransaction

LEMMA ViewStep ==
  ASSUME ViewInv, IInv, [Next]_vars
  PROVE  ViewInv'
<1>1. CASE Tick
  <2>1. UNCHANGED meter /\ UNCHANGED <<pendingMinute, flight, rowUsed, rowDir, logs, minuteLogs>>
        /\ UNCHANGED <<served, lost, lostMinute, lostRequests>>
    BY <1>1 DEF Tick, instance, database, history
  <2>2. MeterShape' /\ TypeOK'
    BY <1>1, <2>1, TypeStep DEF Next, ViewInv, MeterShape
  <2> QED
    BY <2>1, <2>2, QuietStep
<1>2. CASE UNCHANGED vars
  BY <1>2 DEF vars, ViewInv, TypeOK, OneTransaction, Timeline, NeverAhead, MeterShape,
              NoFlightIsEmpty, Flushing, Bucketed, Finished
<1> QED
  BY <1>1, <1>2, MeteringKeepsViews, FlushKeepsViews, LifecycleKeepsViews, ExitKeepsViews DEF Next

LEMMA InitViews == Init => ViewInv
<1> SUFFICES ASSUME Init PROVE ViewInv
  OBVIOUS
<1>1. TypeOK
  BY InitTypes
<1>2. \A k \in Kind : /\ InBuckets(pendingMinute, k) = 0 /\ InBuckets(flight.minutes, k) = 0
                      /\ InBuckets(minuteLogs, k) = 0
  BY NoBuckets DEF Init, NoFlight
<1>3. \A d \in Direction : Locals(meter, d) = 0
  BY LocalsEmpty DEF Init, NoMeter
<1>4. MeterShape /\ NoFlightIsEmpty
  BY DEF Init, MeterShape, NoMeter, NoFlightIsEmpty
<1>5. OneTransaction
  BY KindsAre DEF Init, OneTransaction, NoBytes, NoDelta
<1>6. Timeline /\ NeverAhead
  BY <1>2, <1>3, KindsAre DEF Init, Timeline, NeverAhead, NoBytes, NoFlight
<1>7. Bucketed
  <2>1. Finished = {}
    BY DEF Init, Finished, NoMeter
  <2>2. logs["requests"] = 0 /\ lostRequests = 0
    BY KindsAre DEF Init, NoDelta
  <2> QED
    BY <1>2, <2>1, <2>2, KindsAre, FS_EmptySet DEF Bucketed
<1> QED
  BY <1>1, <1>4, <1>5, <1>6, <1>7 DEF ViewInv

LEMMA ViewsFollow == ASSUME ViewInv PROVE ViewsAgree
<1>1. TypeOK /\ pendingMinute \in Buckets /\ minuteLogs \in Buckets /\ flight.minutes \in Buckets
  BY DEF ViewInv, TypeOK, Buckets
<1>2. TotalsAgree
  BY DEF ViewInv, OneTransaction, NeverAhead, TotalsAgree, InBuckets
<1>3. TimelineComplete
  <2> SUFFICES ASSUME NEW d \in Direction
               PROVE  served[d] = SumFunction([m \in Minute |-> pendingMinute[m][d] + flight.minutes[m][d]
                                                  + minuteLogs[m][d]])
                                 + SumFunction([r \in Request |-> meter[r].local[d]])
                                 + lostMinute[d]
    BY DEF TimelineComplete
  <2>1. SumFunction([m \in Minute |-> pendingMinute[m][d] + flight.minutes[m][d] + minuteLogs[m][d]])
          = InBuckets(pendingMinute, d) + InBuckets(flight.minutes, d) + InBuckets(minuteLogs, d)
    BY <1>1, BucketsOfThree, KindsAre
  <2>2. SumFunction([r \in Request |-> meter[r].local[d]]) = Locals(meter, d)
    BY DEF Locals
  <2>3. served[d] = InBuckets(pendingMinute, d) + InBuckets(flight.minutes, d)
                    + InBuckets(minuteLogs, d) + Locals(meter, d) + lostMinute[d]
    BY DEF ViewInv, Timeline
  <2> QED
    BY <2>1, <2>2, <2>3
<1>4. NoRequestMissed
  <2> DEFINE done == {r \in Request : meter[r].at = "done"}
  <2>1. done \subseteq Finished
    BY DEF Finished
  <2>2. IsFiniteSet(Finished) /\ Cardinality(Finished) \in Nat
    BY <1>1, ViewsTyped
  <2> HIDE DEF done
  <2>3. Cardinality(done) \in Nat /\ Cardinality(done) <= Cardinality(Finished)
    BY <2>1, <2>2, FS_Subset, FS_CardinalityType
  <2>4. PendingTotal = InBuckets(WithResidual, "requests")
        /\ RequestsIn(flight.minutes) = InBuckets(flight.minutes, "requests")
    BY DEF PendingTotal, RequestsIn, InBuckets
  <2>5. InBuckets(WithResidual, "requests") \in Nat
        /\ InBuckets(WithResidual, "requests") >= InBuckets(pendingMinute, "requests")
    BY <1>1, ResidualTyped, BucketsTyped, KindsAre
  <2>6. Cardinality(Finished) <= logs["requests"] + InBuckets(flight.minutes, "requests")
                         + lostRequests + InBuckets(pendingMinute, "requests")
    BY DEF ViewInv, Bucketed
  <2>7. /\ logs["requests"] \in Nat /\ InBuckets(flight.minutes, "requests") \in Nat
        /\ lostRequests \in Nat /\ InBuckets(pendingMinute, "requests") \in Nat
    BY <1>1, ViewsTyped, KindsAre
  <2>8. Cardinality(done) <= logs["requests"] + RequestsIn(flight.minutes) + lostRequests + PendingTotal
    BY ONLY <2>2, <2>3, <2>4, <2>5, <2>6, <2>7
  <2> QED
    BY <2>8 DEF NoRequestMissed, done
<1> QED
  BY <1>2, <1>3, <1>4 DEF ViewsAgree

(* ViewsAgree: the hourly log, the per-minute log and the site's row, all  *)
(* written by addTrafficMinuteBuckets, never disagree, and whatever flush, *)
(* failure, restart or late meter comes in between, they miss no byte and  *)
(* no finished request but for what is on its way or died with a process.  *)
THEOREM ViewsAlwaysAgree == Spec => []ViewsAgree
<1>1. ViewInv /\ IInv /\ [Next]_vars => ViewInv'
  BY ViewStep
<1> QED
  BY <1>1, InitViews, Invariance, ViewsFollow, PTL DEF Spec
=============================================================================
