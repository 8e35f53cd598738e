--------------------------- MODULE TrafficLedger ---------------------------
(***************************************************************************)
(* What the panel promises about the payload bytes of one site: every      *)
(* byte counted is, per direction, still in memory, in the database, or    *)
(* was in memory when the process died -- and is in exactly one of these   *)
(* places.  Nothing is ever taken back out of the database.                *)
(***************************************************************************)
EXTENDS Naturals

CONSTANTS Direction,    \* the payload directions, {"in", "out"}
          MaxServed     \* bound on the bytes counted per direction

VARIABLES served,       \* bytes counted, per direction
          persisted,    \* bytes in the sites row
          lost          \* bytes that were only in memory at a process exit

ledger == <<served, persisted, lost>>

Outstanding(d) == served[d] - (persisted[d] + lost[d])

(* Each byte is persisted or lost at most once: no flush or retry charges  *)
(* a site for more than it transferred.                                    *)
NeverOvercharged == \A d \in Direction : persisted[d] + lost[d] <= served[d]

Init == /\ served = [d \in Direction |-> 0]
        /\ persisted = [d \in Direction |-> 0]
        /\ lost = [d \in Direction |-> 0]

Count == \E d \in Direction, n \in 1..MaxServed :
            /\ served[d] + n <= MaxServed
            /\ served' = [served EXCEPT ![d] = @ + n]
            /\ UNCHANGED <<persisted, lost>>

(* One checkpoint moves, atomically for both directions, some of the       *)
(* outstanding bytes into the database.                                    *)
Checkpoint == \E batch \in [Direction -> 0..MaxServed] :
                 /\ \A d \in Direction : batch[d] <= Outstanding(d)
                 /\ persisted' = [d \in Direction |-> persisted[d] + batch[d]]
                 /\ UNCHANGED <<served, lost>>

(* The process dies with everything that was only in memory. *)
Exit == /\ lost' = [d \in Direction |-> lost[d] + Outstanding(d)]
        /\ UNCHANGED <<served, persisted>>

Next == Count \/ Checkpoint \/ Exit

Spec == Init /\ [][Next]_ledger
=============================================================================
