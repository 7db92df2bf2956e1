-------------------------- MODULE SqsEventWorker ---------------------------
(***************************************************************************)
(* EventWorker of services/event_worker/app/main.py, the consumer that     *)
(* runs when EVENT_BUS names no Kafka, over an SQS standard queue: a       *)
(* message received is hidden for the visibility timeout, comes back when  *)
(* it was not deleted, and moves to the dead-letter queue instead of being *)
(* received once more than maxReceiveCount times.                          *)
(*                                                                         *)
(* A worker handles the messages of one receive one after the other while  *)
(* the timeout of all of them runs, so another worker may receive what the *)
(* first one has not reached yet.  The queue promises no order: a batch is *)
(* a set of receipts <<message, number of the receive>>.                   *)
(***************************************************************************)
EXTENDS EventPublisher, Naturals, FiniteSets

CONSTANTS
    Worker,      \* worker processes (pods)
    Legacy,      \* messages of older producers: no producer, no event_id
    Malformed,   \* messages whose body is no event envelope
    MaxReceive,  \* maxReceiveCount of the redrive policy
    BatchSize,   \* MaxNumberOfMessages of a receive
    FaultLimit,  \* bound: crashes and failing calls
    NoReceipt    \* nothing in hand

Message == Event \cup Legacy \cup Malformed
Receipt == Message \X (1..MaxReceive)

ASSUME QueueAssumption ==
    /\ MaxReceive \in Nat \ {0}
    /\ BatchSize \in Nat \ {0}
    /\ FaultLimit \in Nat
    /\ NoReceipt \notin Receipt
    /\ IsFiniteSet(Worker)
    /\ (Event \cup Legacy) \cap Malformed = {}

VARIABLES
    queue,     \* queue[m]: where message m is
    receives,  \* receives[m]: ApproximateReceiveCount
    pc,        \* pc[w]: the call worker w is about to make
    batch,     \* batch[w]: receipts of the last receive not handled yet
    hand,      \* hand[w]: the receipt being handled
    seen,      \* seen[w]: the version read by a put under way
    version,   \* version[m]: version of m's processed_event item, 0 if absent
    faults     \* faults so far

sqs    == <<queue, receives>>
worker == <<pc, batch, hand, seen>>
vars   == <<publisher, sqs, worker, version, faults>>

InHand(w)   == hand[w][1]
Held(w)     == batch[w] \cup ({hand[w]} \ {NoReceipt})
Envelope(m) == m \notin Malformed

Init ==
    /\ PublisherInit
    /\ queue = [m \in Message |-> "absent"]
    /\ receives = [m \in Message |-> 0]
    /\ pc = [w \in Worker |-> "down"]
    /\ batch = [w \in Worker |-> {}]
    /\ hand = [w \in Worker |-> NoReceipt]
    /\ seen = [w \in Worker |-> 0]
    /\ version = [m \in Message |-> 0]
    /\ faults = 0

Fault == faults < FaultLimit /\ faults' = faults + 1

-----------------------------------------------------------------------------
(* The queue.                                                              *)

Enqueue(m) == /\ queue[m] = "absent"
              /\ queue' = [queue EXCEPT ![m] = "visible"]

\* send_message, by publish and by older producers; a call that fails may
\* have been carried out.
Send(e) ==
    /\ QueueAccepts(e) /\ Enqueue(e)
    /\ UNCHANGED <<receives, worker, version, faults>>

SendFails(e) ==
    /\ QueueFails(e)
    /\ Enqueue(e) \/ UNCHANGED queue
    /\ UNCHANGED <<receives, worker, version, faults>>

SendForeign(m) ==
    /\ m \notin Event /\ Enqueue(m)
    /\ UNCHANGED <<publisher, receives, worker, version, faults>>

\* The visibility timeout of m runs out.
Expire(m) ==
    /\ queue[m] = "inflight"
    /\ queue' = [queue EXCEPT ![m] = "visible"]
    /\ UNCHANGED <<publisher, receives, worker, version, faults>>

\* A receive finds m received maxReceiveCount times and moves it.
Redrive(m) ==
    /\ queue[m] = "visible" /\ receives[m] = MaxReceive
    /\ \E w \in Worker : pc[w] = "loop" /\ batch[w] = {}
    /\ queue' = [queue EXCEPT ![m] = "dead"]
    /\ UNCHANGED <<publisher, receives, worker, version, faults>>

-----------------------------------------------------------------------------
(* The steps of _poll and process_message.                                 *)

\* start(): EventWorker is the worker only without Kafka.
Start(w) ==
    /\ ~ToKafka
    /\ pc[w] = "down"
    /\ pc' = [pc EXCEPT ![w] = "loop"]
    /\ UNCHANGED <<publisher, sqs, batch, hand, seen, version, faults>>

\* receive_message returns some of the visible messages, each with a receipt.
ReceiveForever(w) == \* defect: the queue has no redrive policy
    /\ pc[w] = "loop" /\ batch[w] = {}
    /\ \E m \in Message :
        /\ queue[m] = "visible"
        /\ queue' = [queue EXCEPT ![m] = "inflight"]
        /\ receives' = [receives EXCEPT ![m] = @ + 1]
        /\ batch' = [batch EXCEPT ![w] = {<<m, receives[m] + 1>>}]
    /\ UNCHANGED <<publisher, pc, hand, seen, version, faults>>

Receive(w) ==
    /\ pc[w] = "loop" /\ batch[w] = {}
    /\ \E ms \in SUBSET {m \in Message : queue[m] = "visible" /\ receives[m] < MaxReceive} :
        /\ ms # {} /\ Cardinality(ms) <= BatchSize
        /\ queue' = [m \in Message |-> IF m \in ms THEN "inflight" ELSE queue[m]]
        /\ receives' = [m \in Message |-> IF m \in ms THEN receives[m] + 1 ELSE receives[m]]
        /\ batch' = [batch EXCEPT ![w] = {<<m, receives[m] + 1>> : m \in ms}]
    /\ UNCHANGED <<publisher, pc, hand, seen, version, faults>>

\* ... or none, when the long poll is over.
ReceiveNothing(w) ==
    /\ pc[w] = "loop" /\ batch[w] = {}
    /\ \A m \in Message : queue[m] # "visible"
    /\ UNCHANGED vars

\* process_message parses the next message: an event, whatever its type ...
Take(w, r) ==
    /\ pc[w] = "loop" /\ r \in batch[w]
    /\ Envelope(r[1])
    /\ pc' = [pc EXCEPT ![w] = "read"]
    /\ hand' = [hand EXCEPT ![w] = r]
    /\ batch' = [batch EXCEPT ![w] = @ \ {r}]
    /\ UNCHANGED <<publisher, sqs, seen, version, faults>>

\* ... or ValueError: rejected, and left for the queue to bring again.
RejectByDeleting(w, r) == \* defect: a message that cannot be parsed is deleted
    /\ pc[w] = "loop" /\ r \in batch[w]
    /\ ~Envelope(r[1])
    /\ batch' = [batch EXCEPT ![w] = @ \ {r}]
    /\ queue' = [queue EXCEPT ![r[1]] = "removed"]
    /\ UNCHANGED <<publisher, receives, pc, hand, seen, version, faults>>

RejectEndsBatch(w, r) == \* defect: the ValueError leaves the loop over the messages
    /\ pc[w] = "loop" /\ r \in batch[w]
    /\ ~Envelope(r[1])
    /\ batch' = [batch EXCEPT ![w] = {}]
    /\ UNCHANGED <<publisher, sqs, pc, hand, seen, version, faults>>

Reject(w, r) ==
    /\ pc[w] = "loop" /\ r \in batch[w]
    /\ ~Envelope(r[1])
    /\ batch' = [batch EXCEPT ![w] = @ \ {r}]
    /\ UNCHANGED <<publisher, sqs, pc, hand, seen, version, faults>>

\* process_message is over, returned or raised: on to the next message.
NextMessage(w) ==
    /\ pc' = [pc EXCEPT ![w] = "loop"]
    /\ hand' = [hand EXCEPT ![w] = NoReceipt]
    /\ seen' = [seen EXCEPT ![w] = 0]
    /\ UNCHANGED batch

\* DynamoRepository.put reads the version it will compare against,
PutRead(w) ==
    /\ pc[w] = "read"
    /\ pc' = [pc EXCEPT ![w] = "write"]
    /\ seen' = [seen EXCEPT ![w] = version[InHand(w)]]
    /\ UNCHANGED <<publisher, sqs, batch, hand, version, faults>>

Write(w) == /\ version[InHand(w)] = seen[w]
            /\ version' = [version EXCEPT ![InHand(w)] = seen[w] + 1]

\* and writes if that version is still the current one.
PutWrite(w) ==
    /\ pc[w] = "write"
    /\ Write(w)
    /\ pc' = [pc EXCEPT ![w] = "delete"]
    /\ UNCHANGED <<publisher, sqs, batch, hand, seen, faults>>

\* ConcurrentUpdateError: the message is left for retry.
PutConflict(w) ==
    /\ pc[w] = "write" /\ version[InHand(w)] # seen[w]
    /\ NextMessage(w)
    /\ UNCHANGED <<publisher, sqs, version, faults>>

\* delete_message with the receipt in hand: the last receipt removes the
\* message, also after its timeout; an older one may leave it in place.
Removed(w) ==
    LET m == InHand(w) IN
    \/ /\ queue[m] \in {"visible", "inflight"}
       /\ queue' = [queue EXCEPT ![m] = "removed"]
    \/ /\ queue[m] \in {"visible", "inflight"} => hand[w][2] < receives[m]
       /\ UNCHANGED queue

Delete(w) ==
    /\ pc[w] = "delete"
    /\ Removed(w)
    /\ NextMessage(w)
    /\ UNCHANGED <<publisher, receives, version, faults>>

-----------------------------------------------------------------------------
(* Faults: the exception ends process_message; the call may have been      *)
(* carried out.                                                            *)

StoreFault(w) ==
    /\ pc[w] \in {"read", "write"} /\ Fault
    /\ UNCHANGED version \/ (pc[w] = "write" /\ Write(w))
    /\ NextMessage(w)
    /\ UNCHANGED <<publisher, sqs>>

DeleteFault(w) ==
    /\ pc[w] = "delete" /\ Fault
    /\ UNCHANGED queue \/ Removed(w)
    /\ NextMessage(w)
    /\ UNCHANGED <<publisher, receives, version>>

\* The process dies, or stop() cancels _poll.
Crash(w) ==
    /\ pc[w] # "down" /\ Fault
    /\ pc' = [pc EXCEPT ![w] = "down"]
    /\ batch' = [batch EXCEPT ![w] = {}]
    /\ hand' = [hand EXCEPT ![w] = NoReceipt]
    /\ seen' = [seen EXCEPT ![w] = 0]
    /\ UNCHANGED <<publisher, sqs, version>>

-----------------------------------------------------------------------------
Work(w) ==
    \/ Receive(w) \/ ReceiveNothing(w)
    \/ \E r \in batch[w] : Take(w, r) \/ Reject(w, r)
    \/ PutRead(w) \/ PutWrite(w) \/ PutConflict(w) \/ Delete(w)

Produce ==
    \/ \E e \in Event : Send(e) \/ SendFails(e)
    \/ \E e \in Event : Broadcast(e) /\ UNCHANGED <<sqs, worker, version, faults>>
    \/ \E m \in Message : SendForeign(m)

\* EVENT_BUS names Kafka: the worker is KafkaEventWorker, nobody reads the queue.
ReadsElsewhere == ToKafka /\ UNCHANGED vars

Next ==
    \/ Produce
    \/ \E m \in Message : Expire(m) \/ Redrive(m)
    \/ \E w \in Worker : Start(w) \/ Work(w)
                            \/ StoreFault(w) \/ DeleteFault(w) \/ Crash(w)
    \/ ReadsElsewhere

\* A live worker keeps polling, Kubernetes restarts a dead one, SQS keeps its
\* timeouts and its redrive policy.
Fairness ==
    /\ \A w \in Worker : WF_vars(Start(w)) /\ WF_vars(Work(w))
    /\ \A m \in Message : WF_vars(Expire(m)) /\ WF_vars(Redrive(m))

Spec == Init /\ [][Next]_vars
LiveSpec == Spec /\ Fairness

-----------------------------------------------------------------------------
\* Every variable has its type.
TypeOK ==
    /\ PublisherTypeOK
    /\ queue \in [Message -> {"absent", "visible", "inflight", "removed", "dead"}]
    /\ receives \in [Message -> 0..MaxReceive]
    /\ pc \in [Worker -> {"down", "loop", "read", "write", "delete"}]
    /\ batch \in [Worker -> SUBSET Receipt]
    /\ hand \in [Worker -> Receipt \cup {NoReceipt}]
    /\ seen \in [Worker -> Nat]
    /\ version \in [Message -> Nat]
    /\ faults \in Nat

\* An event that is not stored yet has as many receipts with the workers as
\* receives that no fault ended: a message rejected, a conflict or a slow batch
\* next to it never makes the worker forget one.
ReceiveIsAccountedFor ==
    \A m \in Message : Envelope(m) /\ version[m] = 0 =>
        receives[m] <= faults + Cardinality({w \in Worker : \E r \in Held(w) : r[1] = m})

\* What reached the queue or the alert topic of a deployment with Kafka is on
\* the Kafka topic, whatever failed in publish.
CopiesFollowTopic ==
    ToKafka => \A e \in Event : queue[e] # "absent" \/ e \in alerted => e \in topic

\* A message leaves the queue only stored or dead-lettered, and stays so.
Waiting == {m \in Message : queue[m] \in {"visible", "inflight"}}
Stored  == {m \in Message : version[m] > 0}
Dead    == {m \in Message : queue[m] = "dead"}

Delivery == INSTANCE QueueDelivery
                WITH waiting <- Waiting, stored <- Stored, dead <- Dead

ImplementsQueue == Delivery!Spec

\* Where the queue is the bus, an event publish reported, or that is in the
\* queue all the same, is stored in the end if fewer faults strike than it has
\* receives; a malformed message ends in the dead-letter queue.
Sent(m) == queue[m] # "absent" \/ (bus = "sqs" /\ m \in Event /\ pub[m] = "ok")

QueueDrains ==
    FaultLimit < MaxReceive => \A m \in Message :
        (~ToKafka /\ Sent(m)) ~> IF Envelope(m) THEN version[m] > 0 ELSE queue[m] = "dead"
=============================================================================
