--------------------------- MODULE QueueDelivery ---------------------------
(***************************************************************************)
(* What a consumer of the SQS queue promises, with no word on receipts,    *)
(* visibility timeouts or receive counts: a message leaves the queue only  *)
(* when processed_event accounts for it or it moves to the dead-letter     *)
(* queue, and nothing stored or dead-lettered is taken back.               *)
(***************************************************************************)
CONSTANT Message    \* messages producers may send

VARIABLES waiting,  \* messages in the queue, in flight included
          stored,   \* messages processed_event accounts for
          dead      \* messages in the dead-letter queue

vars == <<waiting, stored, dead>>

Init == waiting = {} /\ stored = {} /\ dead = {}

Arrive(m) == /\ m \notin waiting \cup stored \cup dead
             /\ waiting' = waiting \cup {m}
             /\ UNCHANGED <<stored, dead>>

Store(m) == /\ m \in waiting \cup dead
            /\ stored' = stored \cup {m}
            /\ UNCHANGED <<waiting, dead>>

Remove(m) == /\ m \in waiting \cap stored
             /\ waiting' = waiting \ {m}
             /\ UNCHANGED <<stored, dead>>

DeadLetter(m) == /\ m \in waiting
                 /\ waiting' = waiting \ {m}
                 /\ dead' = dead \cup {m}
                 /\ UNCHANGED stored

Next == \E m \in Message : Arrive(m) \/ Store(m) \/ Remove(m) \/ DeadLetter(m)

Spec == Init /\ [][Next]_vars
=============================================================================
