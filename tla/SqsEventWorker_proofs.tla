----------------------- MODULE SqsEventWorker_proofs -----------------------
(***************************************************************************)
(* What the SQS consumer and the publisher guarantee for any number of     *)
(* workers, messages, receives and faults.                                 *)
(***************************************************************************)
EXTENDS SqsEventWorker, FiniteSetTheorems, TLAPS

\* A worker that handles a message holds its receipt, and has stored it before
\* it deletes it; every receipt is one of a message that was sent.
Handles(w) ==
    /\ pc[w] \in {"read", "write", "delete"} => hand[w] # NoReceipt
    /\ pc[w] = "delete" => version[InHand(w)] > 0
    /\ \A r \in Held(w) : queue[r[1]] # "absent"

\* What the queue and processed_event say of a message fits together.
StoredWasSent   == \A m \in Message : version[m] > 0 => queue[m] # "absent"
RemovedIsStored == \A m \in Message : queue[m] = "removed" => version[m] > 0

WorkerInv ==
    /\ TypeOK
    /\ StoredWasSent
    /\ RemovedIsStored
    /\ \A w \in Worker : Handles(w)

\* CopiesFollowTopic, and the calls publish is about to make after Kafka.
TopicInv ==
    ToKafka => \A e \in Event :
        pub[e] \in {"sqs", "sns"} \/ queue[e] # "absent" \/ e \in alerted => e \in topic

\* ReceiveIsAccountedFor, and why no step of a worker loses a receipt of a
\* message that is not stored: a worker between two messages has none in hand,
\* and a put never read a version that is not there any more.
Holding(m) == {w \in Worker : \E r \in Held(w) : r[1] = m}

Accounts(w) ==
    /\ pc[w] \in {"down", "loop"} => hand[w] = NoReceipt
    /\ pc[w] = "write" => seen[w] <= version[InHand(w)]

CountInv ==
    /\ WorkerInv
    /\ \A w \in Worker : Accounts(w)
    /\ \A m \in Message : Envelope(m) /\ version[m] = 0 =>
            receives[m] <= faults + Cardinality(Holding(m))

-----------------------------------------------------------------------------
(* Typing.                                                                 *)

LEMMA TypeInit == Init => TypeOK
  BY QueueAssumption DEF Init, TypeOK, PublisherInit, PublisherTypeOK, QueueAssumption

\* Publish and the queue's own steps.
LEMMA TypeProduce ==
    ASSUME TypeOK, Produce \/ ReadsElsewhere \/ \E m \in Message : Expire(m) \/ Redrive(m)
    PROVE  TypeOK'
  <1>1. ASSUME NEW e \in Event, Send(e) \/ SendFails(e) PROVE TypeOK'
    BY <1>1 DEF TypeOK, PublisherTypeOK, Send, SendFails, QueueAccepts, QueueFails, Step,
                AfterQueue, Enqueue, worker
  <1>2. ASSUME NEW e \in Event, Broadcast(e), UNCHANGED <<sqs, worker, version, faults>>
        PROVE  TypeOK'
    <2>1. PublisherTypeOK'
      BY <1>2 DEF TypeOK, PublisherTypeOK, Broadcast, Publish, KafkaAcknowledges, KafkaFails,
                  BackgroundSend, Alert, AlertFails, Step, AfterQueue, AfterKafka, ToKafka, ToQueue
    <2> QED BY <2>1, <1>2 DEF TypeOK, sqs, worker
  <1>3. ASSUME NEW m \in Message, SendForeign(m) \/ Expire(m) \/ Redrive(m) PROVE TypeOK'
    BY <1>3 DEF TypeOK, PublisherTypeOK, publisher, SendForeign, Expire, Redrive, Enqueue, worker
  <1>4. CASE ReadsElsewhere
    BY <1>4 DEF TypeOK, PublisherTypeOK, ReadsElsewhere, vars, publisher, sqs, worker
  <1> QED BY <1>1, <1>2, <1>3, <1>4 DEF Produce

\* The steps of a worker.
LEMMA TypeWork ==
    ASSUME TypeOK, NEW w \in Worker, Handles(w),
           Start(w) \/ Work(w) \/ StoreFault(w) \/ DeleteFault(w) \/ Crash(w)
    PROVE  TypeOK'
  <1> USE QueueAssumption DEF QueueAssumption
  <1>1. CASE Start(w)
    BY <1>1 DEF TypeOK, PublisherTypeOK, publisher, sqs, Start
  <1>2. CASE Receive(w)
    <2>1. PICK ms \in SUBSET {m \in Message : queue[m] = "visible" /\ receives[m] < MaxReceive} :
            /\ queue' = [m \in Message |-> IF m \in ms THEN "inflight" ELSE queue[m]]
            /\ receives' = [m \in Message |-> IF m \in ms THEN receives[m] + 1 ELSE receives[m]]
            /\ batch' = [batch EXCEPT ![w] = {<<m, receives[m] + 1>> : m \in ms}]
      BY <1>2 DEF Receive
    <2>2. \A m \in ms : m \in Message /\ receives[m] + 1 \in 1..MaxReceive
      BY <2>1 DEF TypeOK
    <2>3. {<<m, receives[m] + 1>> : m \in ms} \in SUBSET Receipt
      BY <2>2 DEF Receipt
    <2>4. receives' \in [Message -> 0..MaxReceive]
      BY <2>1, <2>2 DEF TypeOK
    <2>5. batch' \in [Worker -> SUBSET Receipt]
      BY <2>1, <2>3 DEF TypeOK
    <2>6. queue' \in [Message -> {"absent", "visible", "inflight", "removed", "dead"}]
      BY <2>1 DEF TypeOK
    <2> QED BY <1>2, <2>4, <2>5, <2>6 DEF TypeOK, PublisherTypeOK, publisher, Receive
  <1>3. CASE ReceiveNothing(w)
    BY <1>3 DEF TypeOK, PublisherTypeOK, ReceiveNothing, vars, publisher, sqs, worker
  <1>4. ASSUME NEW r \in batch[w], Take(w, r) \/ Reject(w, r) PROVE TypeOK'
    <2>1. r \in Receipt /\ batch[w] \ {r} \in SUBSET Receipt
      BY DEF TypeOK
    <2> QED BY <1>4, <2>1 DEF TypeOK, PublisherTypeOK, publisher, sqs, Take, Reject
  <1>0. pc[w] \in {"read", "write", "delete"} => InHand(w) \in Message /\ version[InHand(w)] \in Nat
    BY DEF TypeOK, Handles, InHand, Receipt
  <1> DEFINE Over == NextMessage(w)
  <1>5. ASSUME Over
        PROVE  /\ pc' \in [Worker -> {"down", "loop", "read", "write", "delete"}]
               /\ batch' \in [Worker -> SUBSET Receipt]
               /\ hand' \in [Worker -> Receipt \cup {NoReceipt}]
               /\ seen' \in [Worker -> Nat]
    BY <1>5 DEF NextMessage, TypeOK
  <1>6. ASSUME Write(w), InHand(w) \in Message PROVE version' \in [Message -> Nat]
    BY <1>6 DEF Write, TypeOK
  <1>7. ASSUME Removed(w)
        PROVE  queue' \in [Message -> {"absent", "visible", "inflight", "removed", "dead"}]
    BY <1>7 DEF Removed, TypeOK
  <1> HIDE DEF Over
  <1>8. CASE PutRead(w)
    <2>1. seen' \in [Worker -> Nat]
      BY <1>8, <1>0 DEF PutRead, TypeOK
    <2> QED BY <1>8, <2>1 DEF TypeOK, PublisherTypeOK, publisher, sqs, PutRead
  <1>9. CASE PutWrite(w)
    BY <1>9, <1>0, <1>6 DEF TypeOK, PublisherTypeOK, publisher, sqs, PutWrite
  <1>10. CASE PutConflict(w)
    BY <1>10, <1>5 DEF TypeOK, PublisherTypeOK, publisher, sqs, PutConflict, Over
  <1>11. CASE Delete(w)
    BY <1>11, <1>5, <1>7 DEF TypeOK, PublisherTypeOK, publisher, Delete, Over
  <1>12. CASE StoreFault(w)
    BY <1>12, <1>0, <1>5, <1>6 DEF TypeOK, PublisherTypeOK, publisher, sqs, StoreFault, Fault, Over
  <1>13. CASE DeleteFault(w)
    BY <1>13, <1>5, <1>7 DEF TypeOK, PublisherTypeOK, publisher, DeleteFault, Fault, Over
  <1>14. CASE Crash(w)
    BY <1>14 DEF TypeOK, PublisherTypeOK, publisher, sqs, Crash, Fault
  <1> QED BY <1>1, <1>2, <1>3, <1>4, <1>8, <1>9, <1>10, <1>11, <1>12, <1>13, <1>14 DEF Work

-----------------------------------------------------------------------------
(* What handling a message rests on.                                       *)

\* No step takes a message back to before it was sent, or a version to 0.
Keeps ==
    \A m \in Message : /\ queue[m] # "absent" => queue'[m] # "absent"
                       /\ version[m] > 0 => version'[m] > 0

\* A worker that takes no part in a step goes on handling what it handled.
LEMMA OthersHandle ==
    ASSUME TypeOK, NEW w \in Worker, Handles(w), Keeps,
           pc'[w] = pc[w], batch'[w] = batch[w], hand'[w] = hand[w]
    PROVE  Handles(w)'
  <1>1. Held(w)' = Held(w) /\ InHand(w)' = InHand(w)
    BY DEF Held, InHand
  <1>2. \A r \in Held(w) : r[1] \in Message
    BY DEF TypeOK, Held, Receipt
  <1>3. pc[w] = "delete" => InHand(w) \in Message
    BY DEF TypeOK, Handles, InHand, Receipt
  <1> QED BY <1>1, <1>2, <1>3 DEF Handles, Keeps

\* The invariant over the steps of producers and queue.
LEMMA ProduceStep ==
    ASSUME WorkerInv, Produce \/ ReadsElsewhere \/ \E m \in Message : Expire(m) \/ Redrive(m)
    PROVE  WorkerInv'
  <1>1. TypeOK'
    BY TypeProduce DEF WorkerInv
  <1>2. /\ UNCHANGED <<worker, version>>
        /\ \/ UNCHANGED queue
           \/ \E m \in Message, to \in {"visible", "dead"} :
                 queue' = [queue EXCEPT ![m] = to]
    BY DEF Produce, Send, SendFails, SendForeign, Broadcast, Expire, Redrive, Enqueue,
           ReadsElsewhere, vars, sqs, Message
  <1>3. Keeps /\ StoredWasSent' /\ RemovedIsStored'
    BY <1>2 DEF WorkerInv, TypeOK, Keeps, StoredWasSent, RemovedIsStored
  <1>4. \A w \in Worker : Handles(w)'
    BY <1>2, <1>3, OthersHandle DEF WorkerInv, worker
  <1> QED BY <1>1, <1>3, <1>4 DEF WorkerInv

\* How a worker's step changes the store and the queue: it stores what it has
\* in hand, and removes only what is stored.
LEMMA WorkKeeps ==
    ASSUME WorkerInv, NEW w \in Worker,
           Start(w) \/ Work(w) \/ StoreFault(w) \/ DeleteFault(w) \/ Crash(w)
    PROVE  Keeps /\ StoredWasSent' /\ RemovedIsStored'
  <1> USE DEF WorkerInv
  <1>1. pc[w] \in {"read", "write", "delete"} =>
            InHand(w) \in Message /\ queue[InHand(w)] # "absent"
    BY DEF TypeOK, Handles, InHand, Held, Receipt
  <1>2. CASE UNCHANGED <<queue, version>>
    BY <1>2 DEF Keeps, StoredWasSent, RemovedIsStored
  <1>3. CASE Receive(w)
    <2>1. UNCHANGED version /\ \A m \in Message :
            queue'[m] = queue[m] \/ (queue[m] = "visible" /\ queue'[m] = "inflight")
      BY <1>3 DEF Receive, TypeOK
    <2> QED BY <2>1 DEF Keeps, StoredWasSent, RemovedIsStored, TypeOK
  <1>4. CASE UNCHANGED queue /\ Write(w) /\ pc[w] = "write"
    <2>1. version'[InHand(w)] = seen[w] + 1 /\ seen[w] \in Nat
      BY <1>1, <1>4 DEF Write, TypeOK
    <2>2. \A m \in Message : m # InHand(w) => version'[m] = version[m]
      BY <1>4 DEF Write, TypeOK
    <2> QED BY <1>1, <1>4, <2>1, <2>2 DEF Keeps, StoredWasSent, RemovedIsStored
  <1>5. CASE UNCHANGED version /\ Removed(w) /\ pc[w] = "delete"
    <2>1. version[InHand(w)] > 0
      BY <1>5 DEF Handles
    <2> QED BY <1>1, <1>5, <2>1 DEF Removed, Keeps, StoredWasSent, RemovedIsStored, TypeOK
  <1>6. UNCHANGED <<queue, version>> \/ Receive(w)
            \/ (UNCHANGED queue /\ Write(w) /\ pc[w] = "write")
            \/ (UNCHANGED version /\ Removed(w) /\ pc[w] = "delete")
    BY DEF Start, Work, ReceiveNothing, Take, Reject, PutRead, PutWrite, PutConflict, Delete,
           StoreFault, DeleteFault, Crash, NextMessage, vars, sqs
  <1> QED BY <1>2, <1>3, <1>4, <1>5, <1>6

\* The invariant over the steps of a worker.
LEMMA WorkStep ==
    ASSUME WorkerInv, NEW w \in Worker,
           Start(w) \/ Work(w) \/ StoreFault(w) \/ DeleteFault(w) \/ Crash(w)
    PROVE  WorkerInv'
  <1> USE DEF WorkerInv
  <1>1. TypeOK'
    BY TypeWork
  <1>2. Keeps /\ StoredWasSent' /\ RemovedIsStored'
    BY WorkKeeps
  <1>3. ASSUME NEW v \in Worker, v # w PROVE Handles(v)'
    <2>1. pc'[v] = pc[v] /\ batch'[v] = batch[v] /\ hand'[v] = hand[v]
      BY <1>3 DEF Start, Work, Receive, ReceiveNothing, Take, Reject, PutRead, PutWrite,
                  PutConflict, Delete, StoreFault, DeleteFault, Crash, NextMessage, vars,
                  worker, TypeOK
    <2> QED BY <1>2, <2>1, OthersHandle
  <1>4. Handles(w)'
    <2>1. \A r \in Held(w) : r[1] \in Message /\ queue'[r[1]] # "absent"
      BY <1>2 DEF TypeOK, Held, Receipt, Handles, Keeps
    <2>2. CASE Start(w) \/ Crash(w)
      BY <2>1, <2>2 DEF Start, Crash, Handles, Held, TypeOK
    <2>3. CASE Receive(w)
      <3>1. PICK ms \in SUBSET {m \in Message : queue[m] = "visible" /\ receives[m] < MaxReceive} :
              batch' = [batch EXCEPT ![w] = {<<m, receives[m] + 1>> : m \in ms}]
        BY <2>3 DEF Receive
      <3>2. \A r \in batch'[w] : \E m \in ms : r = <<m, receives[m] + 1>>
        BY <3>1 DEF TypeOK
      <3>3. \A r \in batch'[w] : queue'[r[1]] # "absent"
        BY <1>2, <3>2 DEF Keeps
      <3> QED BY <2>1, <2>3, <3>3 DEF Receive, Handles, Held, TypeOK
    <2>4. CASE ReceiveNothing(w)
      BY <2>4 DEF ReceiveNothing, vars, worker, sqs, Handles, Held, InHand
    <2>5. ASSUME NEW r \in batch[w], Take(w, r) PROVE Handles(w)'
      <3>1. r # NoReceipt /\ r \in Held(w)
        BY QueueAssumption DEF QueueAssumption, TypeOK, Held
      <3> QED BY <2>1, <2>5, <3>1 DEF Take, Handles, Held, TypeOK
    <2>6. ASSUME NEW r \in batch[w], Reject(w, r) PROVE Handles(w)'
      BY <2>1, <2>6 DEF Reject, Handles, Held, TypeOK
    <2>7. CASE PutRead(w)
      BY <2>1, <2>7 DEF PutRead, Handles, Held, TypeOK
    <2>8. CASE PutWrite(w)
      <3>1. version'[InHand(w)] > 0
        BY <2>8 DEF PutWrite, Write, TypeOK, Handles, InHand, Receipt
      <3> QED BY <2>1, <2>8, <3>1 DEF PutWrite, Handles, Held, InHand, TypeOK
    <2>9. CASE NextMessage(w)
      BY <2>1, <2>9 DEF NextMessage, Handles, Held, TypeOK
    <2> QED BY <2>2, <2>3, <2>4, <2>5, <2>6, <2>7, <2>8, <2>9
            DEF Work, PutConflict, Delete, StoreFault, DeleteFault
  <1> QED BY <1>1, <1>2, <1>3, <1>4

LEMMA WorkerInvStutter == WorkerInv /\ UNCHANGED vars => WorkerInv'
  BY DEF WorkerInv, TypeOK, PublisherTypeOK, StoredWasSent, RemovedIsStored, Handles, Held,
         InHand, vars, publisher, sqs, worker

LEMMA WorkerInvStep == WorkerInv /\ [Next]_vars => WorkerInv'
  BY ProduceStep, WorkStep, WorkerInvStutter DEF Next

LEMMA WorkerInvInit == Init => WorkerInv
  <1> SUFFICES ASSUME Init PROVE WorkerInv
    OBVIOUS
  <1>1. TypeOK
    BY TypeInit
  <1> QED BY <1>1 DEF WorkerInv, Init, StoredWasSent, RemovedIsStored, Handles, Held

\* A message is gone from the queue only when processed_event accounts for it:
\* process_message deletes after the put, whoever else handles the message.
THEOREM RemovedIsStoredAlways == Spec => [](TypeOK /\ RemovedIsStored)
  <1>1. WorkerInv => TypeOK /\ RemovedIsStored
    BY DEF WorkerInv
  <1> QED BY WorkerInvInit, WorkerInvStep, <1>1, PTL DEF Spec

\* Every variable keeps its type.
THEOREM SqsTypeCorrect == Spec => []TypeOK
  <1>1. WorkerInv => TypeOK
    BY DEF WorkerInv
  <1> QED BY WorkerInvInit, WorkerInvStep, <1>1, PTL DEF Spec

-----------------------------------------------------------------------------
(* Receives and receipts.                                                  *)

\* Counting the holders of a message.
LEMMA HoldersFinite ==
    ASSUME NEW S \in SUBSET Worker, NEW T \in SUBSET Worker
    PROVE  /\ Cardinality(S) \in Nat
           /\ S \subseteq T => Cardinality(S) <= Cardinality(T)
           /\ \A w : S \subseteq T \cup {w} => Cardinality(S) <= Cardinality(T) + 1
           /\ \A w : w \notin S /\ S \cup {w} \subseteq T => Cardinality(S) + 1 <= Cardinality(T)
  <1>1. IsFiniteSet(S) /\ IsFiniteSet(T)
    BY QueueAssumption, FS_Subset DEF QueueAssumption
  <1>2. Cardinality(S) \in Nat /\ Cardinality(T) \in Nat
    BY <1>1, FS_CardinalityType
  <1>3. S \subseteq T => Cardinality(S) <= Cardinality(T)
    BY <1>1, FS_Subset
  <1>4. ASSUME NEW w, S \subseteq T \cup {w} PROVE Cardinality(S) <= Cardinality(T) + 1
    <2>1. IsFiniteSet(T \cup {w}) /\ Cardinality(T \cup {w}) <= Cardinality(T) + 1
      <3>1. /\ IsFiniteSet(T \cup {w})
            /\ Cardinality(T \cup {w}) \in {Cardinality(T), Cardinality(T) + 1}
        BY <1>1, FS_AddElement
      <3> QED BY <1>2, <3>1
    <2>2. Cardinality(S) <= Cardinality(T \cup {w})
      BY <1>4, <2>1, FS_Subset
    <2>3. Cardinality(T \cup {w}) \in Nat
      BY <2>1, FS_CardinalityType
    <2> QED BY <1>2, <2>1, <2>2, <2>3
  <1>5. ASSUME NEW w, w \notin S, S \cup {w} \subseteq T PROVE Cardinality(S) + 1 <= Cardinality(T)
    <2>1. Cardinality(S \cup {w}) = Cardinality(S) + 1
      BY <1>1, <1>5, FS_AddElement
    <2>2. Cardinality(S \cup {w}) <= Cardinality(T)
      BY <1>1, <1>5, FS_Subset
    <2> QED BY <2>1, <2>2
  <1> QED BY <1>2, <1>3, <1>4, <1>5

\* Only the worker that takes a step changes what it holds.
LEMMA OthersHold ==
    ASSUME WorkerInv, NEW w \in Worker,
           Start(w) \/ Work(w) \/ StoreFault(w) \/ DeleteFault(w) \/ Crash(w)
    PROVE  /\ \A v \in Worker \ {w} : /\ pc'[v] = pc[v] /\ hand'[v] = hand[v]
                                      /\ seen'[v] = seen[v] /\ Held(v)' = Held(v)
           /\ \A m \in Message : version'[m] >= version[m]
  <1> USE DEF WorkerInv
  <1>1. ASSUME NEW v \in Worker \ {w}
        PROVE  pc'[v] = pc[v] /\ batch'[v] = batch[v] /\ hand'[v] = hand[v] /\ seen'[v] = seen[v]
    BY <1>1 DEF Start, Work, Receive, ReceiveNothing, Take, Reject, PutRead, PutWrite,
                PutConflict, Delete, StoreFault, DeleteFault, Crash, NextMessage, vars, worker,
                TypeOK
  <1>2. UNCHANGED version \/ (Write(w) /\ pc[w] = "write")
    BY DEF Start, Work, Receive, ReceiveNothing, Take, Reject, PutRead, PutWrite, PutConflict,
           Delete, StoreFault, DeleteFault, Crash, vars
  <1>3. Write(w) => \A m \in Message : version'[m] >= version[m]
    BY DEF Write, TypeOK
  <1>4. \A m \in Message : version[m] \in Nat
    BY DEF TypeOK
  <1> QED BY <1>1, <1>2, <1>3, <1>4 DEF Held

\* A worker's step keeps what its puts rest on.
LEMMA AccountsStep ==
    ASSUME CountInv, NEW w \in Worker,
           Start(w) \/ Work(w) \/ StoreFault(w) \/ DeleteFault(w) \/ Crash(w)
    PROVE  \A v \in Worker : Accounts(v)'
  <1> USE DEF CountInv, WorkerInv
  <1>1. ASSUME NEW v \in Worker \ {w} PROVE Accounts(v)'
    <2>1. pc[v] = "write" => InHand(v) \in Message /\ InHand(v)' = InHand(v)
      BY OthersHold DEF TypeOK, Handles, InHand, Receipt
    <2>2. pc[v] = "write" => /\ seen[v] \in Nat /\ version[InHand(v)] \in Nat
                             /\ version'[InHand(v)] \in Nat
                             /\ version'[InHand(v)] >= version[InHand(v)]
      BY <2>1, OthersHold, WorkStep DEF TypeOK
    <2> QED BY <2>1, <2>2, OthersHold DEF Accounts
  <1>2. Accounts(w)'
    <2>1. CASE Start(w) \/ Receive(w) \/ ReceiveNothing(w)
               \/ \E r \in batch[w] : Reject(w, r)
      BY <2>1 DEF Start, Receive, ReceiveNothing, Reject, Accounts, InHand, vars, worker, TypeOK
    <2>2. CASE NextMessage(w)
      BY <2>2 DEF NextMessage, Accounts, TypeOK
    <2>3. CASE Crash(w)
      BY <2>3 DEF Crash, Accounts, TypeOK
    <2>4. CASE PutRead(w)
      <3>1. InHand(w) \in Message /\ version[InHand(w)] \in Nat
        BY <2>4 DEF PutRead, TypeOK, Handles, InHand, Receipt
      <3> QED BY <2>4, <3>1 DEF PutRead, Accounts, InHand, TypeOK
    <2>5. CASE PutWrite(w) \/ \E r \in batch[w] : Take(w, r)
      BY <2>5 DEF PutWrite, Take, Accounts, TypeOK
    <2> QED BY <2>1, <2>2, <2>3, <2>4, <2>5 DEF Work, PutConflict, Delete, StoreFault, DeleteFault
  <1> QED BY <1>1, <1>2

\* What a worker's step without a fault does to the receipts of a message that
\* is still not stored: it brings one more receipt with every receive, and
\* drops none.
LEMMA ReceiptsKept ==
    ASSUME CountInv, NEW w \in Worker, Start(w) \/ Work(w),
           NEW m \in Message, Envelope(m), version[m] = 0
    PROVE  \/ receives'[m] = receives[m] /\ (w \in Holding(m) => w \in Holding(m)')
           \/ receives'[m] = receives[m] + 1 /\ w \notin Holding(m) /\ w \in Holding(m)'
  <1> USE DEF CountInv, WorkerInv
  <1>1. CASE Receive(w)
    <2>1. PICK ms \in SUBSET {n \in Message : queue[n] = "visible" /\ receives[n] < MaxReceive} :
            /\ receives' = [n \in Message |-> IF n \in ms THEN receives[n] + 1 ELSE receives[n]]
            /\ batch' = [batch EXCEPT ![w] = {<<n, receives[n] + 1>> : n \in ms}]
      BY <1>1 DEF Receive
    <2>2. batch[w] = {} /\ hand[w] = NoReceipt /\ w \notin Holding(m)
      BY <1>1 DEF Receive, Accounts, Holding, Held
    <2>3. m \in ms => <<m, receives[m] + 1>> \in Held(w)'
      BY <2>1 DEF TypeOK, Held
    <2>4. m \in ms => w \in Holding(m)'
      BY <2>3 DEF Holding
    <2> QED BY <2>1, <2>2, <2>4
  <1>2. ASSUME UNCHANGED receives, w \in Holding(m), Start(w) \/ Work(w), ~Receive(w)
        PROVE  w \in Holding(m)'
    <2>1. PICK r \in Held(w) : r[1] = m
      BY <1>2 DEF Holding
    <2>2. CASE UNCHANGED <<batch, hand>>
      BY <1>2, <2>2 DEF Holding, Held
    <2>3. ASSUME NEW q \in batch[w], Take(w, q) PROVE w \in Holding(m)'
      <3>1. pc[w] = "loop" /\ hand[w] = NoReceipt /\ r \in batch[w]
        BY <2>1, <2>3 DEF Take, Accounts, Held
      <3>2. r # NoReceipt /\ hand'[w] = q /\ batch'[w] = batch[w] \ {q}
        BY <2>3, <3>1, QueueAssumption DEF Take, TypeOK, QueueAssumption
      <3> QED BY <2>1, <3>1, <3>2 DEF Holding, Held
    <2>4. ASSUME NEW q \in batch[w], Reject(w, q) PROVE w \in Holding(m)'
      <3>1. r # q
        BY <2>1, <2>4 DEF Reject
      <3> QED BY <2>1, <2>4, <3>1 DEF Reject, Holding, Held, TypeOK
    <2>5. ASSUME NextMessage(w), version[InHand(w)] # 0 PROVE w \in Holding(m)'
      <3>1. r \in batch[w]
        BY <2>1, <2>5 DEF Held, InHand
      <3> QED BY <2>1, <2>5, <3>1, QueueAssumption
              DEF NextMessage, Holding, Held, TypeOK, QueueAssumption
    <2>6. CASE PutConflict(w)
      <3>1. InHand(w) \in Message /\ seen[w] \in Nat /\ version[InHand(w)] \in Nat
        BY <2>6 DEF PutConflict, TypeOK, Handles, InHand, Receipt
      <3>2. version[InHand(w)] # 0
        BY <2>6, <3>1 DEF PutConflict, Accounts
      <3> QED BY <2>5, <2>6, <3>2 DEF PutConflict
    <2>7. CASE Delete(w)
      BY <2>5, <2>7 DEF Delete, Handles
    <2> QED BY <1>2, <2>2, <2>3, <2>4, <2>6, <2>7
            DEF Start, Work, ReceiveNothing, PutRead, PutWrite, vars, worker
  <1>3. Receive(w) \/ UNCHANGED receives
    BY DEF Start, Work, ReceiveNothing, Take, Reject, PutRead, PutWrite, PutConflict, Delete,
           vars, sqs
  <1> QED BY <1>1, <1>2, <1>3

LEMMA CountStep == CountInv /\ [Next]_vars => CountInv'
  <1> SUFFICES ASSUME CountInv, [Next]_vars PROVE CountInv'
    OBVIOUS
  <1> USE DEF CountInv
  <1>1. WorkerInv'
    BY WorkerInvStep
  <1>2. \A m \in Message : /\ Cardinality(Holding(m)) \in Nat /\ Cardinality(Holding(m)') \in Nat
                           /\ receives[m] \in Nat /\ receives'[m] \in Nat
                           /\ faults \in Nat /\ faults' \in Nat
    <2>1. \A m \in Message : Holding(m) \in SUBSET Worker /\ Holding(m)' \in SUBSET Worker
      BY DEF Holding
    <2> QED BY <1>1, <2>1, HoldersFinite, QueueAssumption DEF WorkerInv, TypeOK, QueueAssumption
  <1>3. ASSUME UNCHANGED <<worker, receives, version, faults>> PROVE CountInv'
    <2>1. \A w \in Worker : Accounts(w)'
      BY <1>3 DEF Accounts, InHand, worker
    <2>2. \A m \in Message : Holding(m)' = Holding(m)
      BY <1>3 DEF Holding, Held, worker
    <2> QED BY <1>1, <1>3, <2>1, <2>2
  <1>4. ASSUME NEW w \in Worker,
               Start(w) \/ Work(w) \/ StoreFault(w) \/ DeleteFault(w) \/ Crash(w)
        PROVE  CountInv'
    <2>1. \A v \in Worker : Accounts(v)'
      BY <1>4, AccountsStep
    <2>2. ASSUME NEW m \in Message, Envelope(m), version'[m] = 0
          PROVE  receives'[m] <= faults' + Cardinality(Holding(m)')
      <3>1. version[m] = 0 /\ receives[m] <= faults + Cardinality(Holding(m))
        BY <1>4, <2>2, OthersHold DEF WorkerInv, TypeOK
      <3>2. \A v \in Worker \ {w} : v \in Holding(m) <=> v \in Holding(m)'
        BY <1>4, OthersHold DEF Holding
      <3>3. Holding(m) \in SUBSET Worker /\ Holding(m)' \in SUBSET Worker
        BY DEF Holding
      <3>4. CASE Start(w) \/ Work(w)
        <4>1. faults' = faults
          BY <3>4 DEF Start, Work, Receive, ReceiveNothing, Take, Reject, PutRead, PutWrite,
                      PutConflict, Delete, vars
        <4>2. CASE receives'[m] = receives[m] /\ (w \in Holding(m) => w \in Holding(m)')
          <5>1. Holding(m) \subseteq Holding(m)'
            BY <3>2, <3>3, <4>2
          <5>2. Cardinality(Holding(m)) <= Cardinality(Holding(m)')
            BY <3>3, <5>1, HoldersFinite
          <5> QED BY <1>2, <3>1, <4>1, <4>2, <5>2
        <4>3. CASE receives'[m] = receives[m] + 1 /\ w \notin Holding(m) /\ w \in Holding(m)'
          <5>1. Holding(m) \cup {w} \subseteq Holding(m)'
            BY <3>2, <3>3, <4>3
          <5>2. Cardinality(Holding(m)) + 1 <= Cardinality(Holding(m)')
            BY <3>3, <4>3, <5>1, HoldersFinite
          <5> QED BY <1>2, <3>1, <4>1, <4>3, <5>2
        <4> QED BY <2>2, <3>1, <3>4, <4>2, <4>3, ReceiptsKept
      <3>5. CASE StoreFault(w) \/ DeleteFault(w) \/ Crash(w)
        <4>1. faults' = faults + 1 /\ UNCHANGED receives
          BY <3>5 DEF StoreFault, DeleteFault, Crash, Fault, sqs
        <4>2. Holding(m) \subseteq Holding(m)' \cup {w}
          BY <3>2, <3>3
        <4>3. Cardinality(Holding(m)) <= Cardinality(Holding(m)') + 1
          BY <3>3, <4>2, HoldersFinite
        <4> QED BY <1>2, <3>1, <4>1, <4>3
      <3> QED BY <1>4, <3>4, <3>5
    <2> QED BY <1>1, <2>1, <2>2
  <1>5. UNCHANGED <<worker, receives, version, faults>>
        \/ \E w \in Worker :
                Start(w) \/ Work(w) \/ StoreFault(w) \/ DeleteFault(w) \/ Crash(w)
    BY DEF Next, Produce, Send, SendFails, SendForeign, Expire, Redrive, ReadsElsewhere, vars, sqs
  <1> QED BY <1>3, <1>4, <1>5

LEMMA CountInit == Init => CountInv
  <1> SUFFICES ASSUME Init PROVE CountInv
    OBVIOUS
  <1>1. \A m \in Message : Cardinality(Holding(m)) \in Nat
    <2>1. \A m \in Message : Holding(m) \in SUBSET Worker
      BY DEF Holding
    <2> QED BY <2>1, HoldersFinite
  <1>2. \A w \in Worker : Accounts(w)
    BY DEF Init, Accounts
  <1>3. \A m \in Message : receives[m] = 0 /\ faults = 0
    BY DEF Init
  <1> QED BY <1>1, <1>2, <1>3, WorkerInvInit DEF CountInv

\* A receive is used up only by a fault: until a message is stored, each of its
\* receives is a receipt some worker still has or a fault that struck, whatever
\* is rejected, put twice or delayed next to it.
THEOREM ReceivesAccountedFor == Spec => []ReceiveIsAccountedFor
  <1>1. CountInv => ReceiveIsAccountedFor
    BY DEF CountInv, ReceiveIsAccountedFor, Holding
  <1> QED BY <1>1, CountInit, CountStep, PTL DEF Spec

-----------------------------------------------------------------------------
(* publish in a deployment with Kafka.                                     *)

LEMMA TopicInvInit == Init => TopicInv
  BY DEF Init, PublisherInit, TopicInv, Message

\* No worker runs next to Kafka: only producers and the queue's timeouts move.
LEMMA TopicInvStep == TypeOK /\ TopicInv /\ [Next]_vars => TopicInv'
  <1> SUFFICES ASSUME TypeOK, TopicInv, [Next]_vars PROVE TopicInv'
    OBVIOUS
  <1>1. ASSUME NEW e \in Event, Send(e) \/ SendFails(e) PROVE TopicInv'
    BY <1>1 DEF Send, SendFails, QueueAccepts, QueueFails, Step, AfterQueue, Enqueue, TopicInv,
                TypeOK, PublisherTypeOK, ToKafka, Message
  <1>2. ASSUME NEW e \in Event, Broadcast(e), UNCHANGED <<sqs, worker, version, faults>>
        PROVE  TopicInv'
    BY <1>2 DEF Broadcast, Publish, KafkaAcknowledges, KafkaFails, BackgroundSend, Alert,
                AlertFails, Step, AfterQueue, AfterKafka, TopicInv, TypeOK, PublisherTypeOK,
                ToKafka, ToQueue, sqs
  <1>3. ASSUME NEW m \in Message, SendForeign(m) \/ Expire(m) \/ Redrive(m) PROVE TopicInv'
    BY <1>3 DEF SendForeign, Expire, Redrive, Enqueue, publisher, TopicInv, TypeOK, ToKafka,
                Message
  <1>4. ASSUME NEW w \in Worker,
               Start(w) \/ Work(w) \/ StoreFault(w) \/ DeleteFault(w) \/ Crash(w)
        PROVE  TopicInv'
    <2>1. UNCHANGED publisher
      BY <1>4 DEF Start, Work, Receive, ReceiveNothing, Take, Reject, PutRead, PutWrite,
                  PutConflict, Delete, StoreFault, DeleteFault, Crash, vars
    <2>2. \A m \in Message : queue'[m] # "absent" => queue[m] # "absent"
      BY <1>4 DEF Start, Work, Receive, ReceiveNothing, Take, Reject, PutRead, PutWrite,
                  PutConflict, Delete, StoreFault, DeleteFault, Crash, Removed, vars, sqs, TypeOK
    <2> QED BY <2>1, <2>2 DEF publisher, TopicInv, ToKafka, Message
  <1>5. CASE UNCHANGED vars
    BY <1>5 DEF vars, publisher, sqs, TopicInv, ToKafka
  <1> QED BY <1>1, <1>2, <1>3, <1>4, <1>5 DEF Next, Produce, ReadsElsewhere

\* In a deployment with Kafka whatever reached the queue or the alert topic is
\* on the Kafka topic: publish stops at the first call that fails.
THEOREM CopiesFollowTopicAlways == Spec => []CopiesFollowTopic
  <1>1. TopicInv => CopiesFollowTopic
    BY DEF TopicInv, CopiesFollowTopic
  <1>2. Spec => []TypeOK
    BY SqsTypeCorrect
  <1> QED BY TopicInvInit, TopicInvStep, <1>1, <1>2, PTL DEF Spec

-----------------------------------------------------------------------------
(* The queue, as its consumers may rely on it.                             *)

LEMMA DeliveryInit == Init => Delivery!Init
  BY DEF Init, Delivery!Init, Waiting, Stored, Dead

\* Every step is a step of QueueDelivery, or none.
LEMMA DeliveryStep == WorkerInv /\ [Next]_vars => [Delivery!Next]_(Delivery!vars)
  <1> SUFFICES ASSUME WorkerInv, [Next]_vars PROVE [Delivery!Next]_(Delivery!vars)
    OBVIOUS
  <1> USE DEF WorkerInv
  <1>0. Waiting \subseteq Message /\ Stored \subseteq Message /\ Dead \subseteq Message
        /\ (Waiting \subseteq Message)' /\ (Dead \subseteq Message)'
    BY DEF Waiting, Stored, Dead
  <1>1. CASE UNCHANGED <<queue, version>>
    BY <1>1 DEF Waiting, Stored, Dead, Delivery!vars
  <1>2. ASSUME NEW m \in Message, Enqueue(m), UNCHANGED version
        PROVE  [Delivery!Next]_(Delivery!vars)
    <2>1. m \notin Waiting \cup Stored \cup Dead
      BY <1>2 DEF Enqueue, Waiting, Stored, Dead, StoredWasSent, TypeOK
    <2>2. Stored' = Stored /\ Dead' = Dead /\ Waiting' = Waiting \cup {m}
      BY <1>2, <2>1 DEF Enqueue, Waiting, Stored, Dead, TypeOK
    <2> QED BY <2>1, <2>2 DEF Delivery!Next, Delivery!Arrive
  <1>3. ASSUME NEW m \in Message, Expire(m) PROVE UNCHANGED Delivery!vars
    BY <1>3 DEF Expire, Waiting, Stored, Dead, Delivery!vars, TypeOK
  <1>4. ASSUME NEW m \in Message, Redrive(m) PROVE Delivery!Next
    <2>1. m \in Waiting
      BY <1>4 DEF Redrive, Waiting
    <2>2. Stored' = Stored /\ Waiting' = Waiting \ {m} /\ Dead' = Dead \cup {m}
      BY <1>4 DEF Redrive, Waiting, Stored, Dead, TypeOK
    <2> QED BY <2>1, <2>2 DEF Delivery!Next, Delivery!DeadLetter
  <1>5. ASSUME NEW w \in Worker, Receive(w) PROVE UNCHANGED Delivery!vars
    <2>1. UNCHANGED version /\ \A m \in Message :
            queue'[m] = queue[m] \/ (queue[m] = "visible" /\ queue'[m] = "inflight")
      BY <1>5 DEF Receive, TypeOK
    <2> QED BY <2>1 DEF Waiting, Stored, Dead, Delivery!vars
  <1>6. ASSUME NEW w \in Worker, Write(w), pc[w] = "write", UNCHANGED queue
        PROVE  [Delivery!Next]_(Delivery!vars)
    <2>1. /\ InHand(w) \in Message /\ queue[InHand(w)] # "absent"
          /\ seen[w] \in Nat
      BY <1>6 DEF TypeOK, Handles, InHand, Held, Receipt
    <2>2. /\ version'[InHand(w)] > 0
          /\ \A m \in Message : m # InHand(w) => version'[m] = version[m]
      BY <1>6, <2>1 DEF Write, TypeOK
    <2>3. Stored' = Stored \cup {InHand(w)} /\ Waiting' = Waiting /\ Dead' = Dead
      BY <1>6, <2>1, <2>2 DEF Stored, Waiting, Dead
    <2>4. InHand(w) \in Waiting \cup Dead \/ InHand(w) \in Stored
      BY <2>1 DEF TypeOK, RemovedIsStored, Waiting, Dead, Stored
    <2> QED BY <2>1, <2>3, <2>4 DEF Delivery!Next, Delivery!Store, Delivery!vars
  <1>7. ASSUME NEW w \in Worker, Removed(w), pc[w] = "delete", UNCHANGED version
        PROVE  [Delivery!Next]_(Delivery!vars)
    <2>1. CASE UNCHANGED queue
      BY <1>1, <1>7, <2>1
    <2>2. CASE ~UNCHANGED queue
      <3>1. /\ InHand(w) \in Waiting \cap Stored
            /\ queue' = [queue EXCEPT ![InHand(w)] = "removed"]
        BY <1>7, <2>2 DEF Removed, Waiting, Stored, Handles, TypeOK, InHand, Receipt
      <3>2. Stored' = Stored /\ Dead' = Dead /\ Waiting' = Waiting \ {InHand(w)}
        BY <1>7, <3>1 DEF Waiting, Stored, Dead, TypeOK
      <3> QED BY <1>0, <3>1, <3>2 DEF Delivery!Next, Delivery!Remove
    <2> QED BY <2>1, <2>2
  <1>8. \/ UNCHANGED <<queue, version>>
        \/ \E m \in Message : \/ Enqueue(m) /\ UNCHANGED version
                              \/ Expire(m) \/ Redrive(m)
        \/ \E w \in Worker : \/ Receive(w)
                             \/ Write(w) /\ pc[w] = "write" /\ UNCHANGED queue
                             \/ Removed(w) /\ pc[w] = "delete" /\ UNCHANGED version
    BY DEF Next, Produce, Send, SendFails, SendForeign, Broadcast, ReadsElsewhere, Message,
           Start, Work, ReceiveNothing, Take, Reject, PutRead, PutWrite, PutConflict, Delete,
           StoreFault, DeleteFault, Crash, vars, sqs
  <1> QED BY <1>1, <1>2, <1>3, <1>4, <1>5, <1>6, <1>7, <1>8

\* SqsEventWorker keeps the promise of QueueDelivery: no crash, conflict, slow
\* batch or repeated receive lets a message leave the queue unaccounted for.
THEOREM SqsImplementsQueue == Spec => ImplementsQueue
  <1>1. Spec => []WorkerInv
    BY WorkerInvInit, WorkerInvStep, PTL DEF Spec
  <1> QED BY <1>1, DeliveryInit, DeliveryStep, PTL DEF Spec, ImplementsQueue, Delivery!Spec
=============================================================================
