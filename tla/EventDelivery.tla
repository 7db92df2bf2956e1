--------------------------- MODULE EventDelivery ---------------------------
(***************************************************************************)
(* What the event worker promises of the domain topics, with no word on    *)
(* workers, batches, retries or rebalances: records get settled (stored in *)
(* processed_event, as an event or as a dead letter), some may be lost,    *)
(* and the committed offsets move forward over records that were settled   *)
(* or lost, never over others.                                             *)
(***************************************************************************)
EXTENDS Naturals

CONSTANTS Partition,  \* partitions of the domain topics
          Rec         \* records, each a pair <<partition, offset>>

VARIABLES settled,    \* the records processed_event accounts for
          lost,       \* the records given up
          committed   \* committed[p]: next offset the group reads from p

vars == <<settled, lost, committed>>

Init ==
    /\ settled = {}
    /\ lost = {}
    /\ committed = [p \in Partition |-> 1]

\* Records are settled or lost; neither is ever taken back.
Handle ==
    /\ settled \subseteq settled' /\ settled' \subseteq Rec
    /\ lost \subseteq lost' /\ lost' \subseteq Rec
    /\ UNCHANGED committed

\* Offsets advance over what has been handled.
Commit ==
    /\ committed' \in [Partition -> Nat]
    /\ \A p \in Partition : committed'[p] >= committed[p]
    /\ \A r \in Rec : r[2] < committed'[r[1]] => r \in settled \cup lost
    /\ UNCHANGED <<settled, lost>>

Next == Handle \/ Commit

Spec == Init /\ [][Next]_vars
=============================================================================
