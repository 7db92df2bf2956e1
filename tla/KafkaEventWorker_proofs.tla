----------------------- MODULE KafkaEventWorker_proofs -----------------------
(***************************************************************************)
(* Theorems about the Kafka consumer, for every set of workers, every      *)
(* partition log and every number of faults.                               *)
(***************************************************************************)
EXTENDS KafkaEventWorker, SequenceTheorems, FiniteSetTheorems, TLAPS

\* A record is a partition of the consumer with an offset of its log.
LEMMA RecordIsPair ==
    /\ \A r \in Rec : /\ r = <<r[1], r[2]>>
                      /\ r[1] \in Partition
                      /\ r[2] \in 1..Len(Log[r[1]])
    /\ \A p \in Partition : \A o \in 1..Len(Log[p]) : <<p, o>> \in Rec
    BY DEF Rec

\* The content of a record is an event_id and what the consumer makes of it.
LEMMA LogContent ==
    /\ \A p \in Partition : Len(Log[p]) \in Nat
    /\ \A r \in Rec : Log[r[1]][r[2]] \in [event : EventId, kind : Kind]
    <1>1. \A p \in Partition : Log[p] \in Seq([event : EventId, kind : Kind])
        BY KafkaAssumption
    <1>2. \A p \in Partition : Len(Log[p]) \in Nat
        BY <1>1, LenProperties
    <1>3. ASSUME NEW r \in Rec
          PROVE  Log[r[1]][r[2]] \in [event : EventId, kind : Kind]
        BY <1>1, RecordIsPair, ElementOfSeq
    <1> QED BY <1>2, <1>3

\* Positions are offsets.
LEMMA PositionIsOffset == Position \subseteq Nat \ {0}
    BY LogContent DEF Position

\* An update of one entry of a table of tables keeps its type.
LEMMA UpdateAt ==
    ASSUME NEW A, NEW B, NEW C, NEW f \in [A -> [B -> C]], NEW a \in A,
           NEW b, NEW c, b \in B => c \in C
    PROVE  [f EXCEPT ![a][b] = c] \in [A -> [B -> C]]
    OBVIOUS

-----------------------------------------------------------------------------
(* Types and bounds.                                                       *)

\* pc while process_record_with_retry works on a record.
Busy == {"lookup", "read", "write", "publish", "deadRead", "deadWrite"}

\* Offsets stay within the logs, and a record in hand is one that was polled.
Bounds ==
    /\ \A p \in Partition : committed[p] <= Len(Log[p]) + 1
    /\ \A w \in Worker : \A p \in Partition : position[w][p] <= Len(Log[p]) + 1
    /\ \A w \in Worker : pc[w] \in Busy => More(w, part[w])

\* The record in hand is a record, and its ids are ids of items.
LEMMA InHandIsRecord ==
    ASSUME TypeOK, Bounds, NEW w \in Worker, pc[w] \in Busy
    PROVE  /\ InHand(w) \in Rec
           /\ Content(w) \in [event : EventId, kind : Kind]
           /\ PutKey(w) \in Key
  <1>1. /\ part[w] \in Partition
        /\ Here(w) \in Nat \ {0}
        /\ position[w][part[w]] \in Nat
        /\ Here(w) < position[w][part[w]]
        /\ position[w][part[w]] <= Len(Log[part[w]]) + 1
      BY DEF TypeOK, Bounds, More, Here
  <1>2. Here(w) \in 1..Len(Log[part[w]])
      BY <1>1, LogContent
  <1>3. InHand(w) \in Rec
      BY <1>1, <1>2, RecordIsPair DEF InHand
  <1>4. Content(w) \in [event : EventId, kind : Kind]
    <2>1. /\ InHand(w)[1] = part[w]
          /\ InHand(w)[2] = Here(w)
        BY DEF InHand
    <2> QED BY <1>3, <2>1, LogContent DEF Content
  <1>5. PutKey(w) \in Key
      BY <1>3, <1>4 DEF PutKey, Key
  <1> QED BY <1>3, <1>4, <1>5

\* A put left behind is one.
LEMMA LeftBehindIsCall ==
    ASSUME TypeOK, Bounds, NEW w \in Worker, Putting(w), NEW k \in FaultKind
    PROVE  LeftBehind(w, k) \in Call
  <1>1. PutKey(w) \in Key
      BY InHandIsRecord DEF Putting, Busy
  <1>2. seen[w] \in Nat /\ <<k, faults[k]>> \in FaultKind \X Nat
      BY DEF TypeOK
  <1> QED BY <1>1, <1>2 DEF LeftBehind, Call

\* What may have become of a put nobody waited for to the end.
LEMMA AppliedOrLateTypes ==
    ASSUME TypeOK, Bounds, NEW w \in Worker, Putting(w), NEW k \in FaultKind,
           AppliedOrLate(w, k)
    PROVE  version' \in [Key -> Nat] /\ late' \subseteq Call
  <1>1. /\ version \in [Key -> Nat] /\ seen[w] + 1 \in Nat
        /\ late \subseteq Call
      BY DEF TypeOK
  <1>2. LeftBehind(w, k) \in Call
      BY LeftBehindIsCall
  <1>3. CASE late' = late \cup {LeftBehind(w, k)} /\ version' = version
      BY <1>1, <1>2, <1>3
  <1>4. CASE version' = [version EXCEPT ![PutKey(w)] = seen[w] + 1] /\ late' = late
      BY <1>1, <1>4
  <1> QED BY <1>3, <1>4 DEF AppliedOrLate

\* TypeOK holds initially: in every state of __init__ the variables have
\* their types.
LEMMA TypeInit == Init => TypeOK /\ Bounds
  <1> SUFFICES ASSUME Init PROVE TypeOK /\ Bounds
      OBVIOUS
  <1>1. TypeOK
      BY KafkaAssumption DEF Init, TypeOK
  <1>2. Bounds
      BY LogContent DEF Init, Bounds, Busy
  <1> QED BY <1>1, <1>2

\* Each step of a worker, of the coordinator or of a fault keeps the types.
LEMMA TypeStep == TypeOK /\ Bounds /\ [Next]_vars => TypeOK'
  <1> SUFFICES ASSUME TypeOK, Bounds, [Next]_vars PROVE TypeOK'
      OBVIOUS
  <1>0. ASSUME NEW w \in Worker, FailedAttempt(w), version' \in [Key -> Nat], late' \subseteq Call,
               dlq' \in [Rec -> Nat], faults' \in [FaultKind -> Nat]
        PROVE TypeOK'
    <2>1. attempts' \in [Worker -> [Rec -> Nat]]
      <3> DEFINE n == attempts[w][InHand(w)] + 1
      <3>1. InHand(w) \in Rec => n \in Nat
          BY DEF TypeOK
      <3>2. attempts' = [attempts EXCEPT ![w][InHand(w)] = n]
          BY <1>0 DEF FailedAttempt
      <3>3. attempts \in [Worker -> [Rec -> Nat]]
          BY DEF TypeOK
      <3> HIDE DEF n
      <3>4. [attempts EXCEPT ![w][InHand(w)] = n] \in [Worker -> [Rec -> Nat]]
          BY <3>1, <3>3, UpdateAt
      <3> QED BY <3>2, <3>4
    <2>2. position' \in [Worker -> [Partition -> Nat \ {0}]]
      <3>1. Here(w) \in Nat \ {0}
          BY DEF TypeOK, Here
      <3>2. \/ position' = [position EXCEPT ![w][part[w]] = Here(w)]
            \/ position' = position
          BY <1>0 DEF FailedAttempt, RetryLater, GiveUp
      <3>3. position \in [Worker -> [Partition -> Nat \ {0}]]
          BY DEF TypeOK
      <3>4. [position EXCEPT ![w][part[w]] = Here(w)]
                \in [Worker -> [Partition -> Nat \ {0}]]
          BY <3>1, <3>3, UpdateAt
      <3> QED BY <3>2, <3>3, <3>4
    <2>3. failed' \in [Worker -> BOOLEAN]
        BY <1>0 DEF FailedAttempt, RetryLater, GiveUp, TypeOK
    <2>4. pc' \in [Worker -> {"down", "poll", "batch", "lookup", "read", "write",
                          "publish", "deadRead", "deadWrite", "commit"}]
        BY <1>0 DEF FailedAttempt, RetryLater, GiveUp, TypeOK
    <2>5. seen' \in [Worker -> Nat]
        BY <1>0 DEF FailedAttempt, TypeOK
    <2> QED
        BY <1>0, <2>1, <2>2, <2>3, <2>4, <2>5 DEF FailedAttempt, TypeOK, group
  <1>1. ASSUME NEW w \in Worker, Escape(w), version' \in [Key -> Nat], late' \subseteq Call,
               dlq' \in [Rec -> Nat], faults' \in [FaultKind -> Nat]
        PROVE TypeOK'
      BY <1>1 DEF Escape, TypeOK, group, Remaining
  <1>2. ASSUME NEW k \in FaultKind, Fault(k) PROVE faults' \in [FaultKind -> Nat]
      BY <1>2 DEF Fault, TypeOK
  <1>3. ASSUME NEW w \in Worker, NEW k,
               version' = [version EXCEPT ![k] = seen[w] + 1]
        PROVE version' \in [Key -> Nat]
    <2>1. version \in [Key -> Nat] /\ seen[w] + 1 \in Nat
        BY DEF TypeOK
    <2> QED BY <1>3, <2>1
  <1>4. ASSUME NEW w \in Worker, Handled(w), version' \in [Key -> Nat],
               dlq' = dlq, seen' \in [Worker -> Nat],
               UNCHANGED <<group, late, faults, abandoned>>
        PROVE TypeOK'
    <2>1. attempts' \in [Worker -> [Rec -> Nat]]
      <3>1. attempts \in [Worker -> [Rec -> Nat]]
          BY DEF TypeOK
      <3>2. attempts' = [attempts EXCEPT ![w][InHand(w)] = 0]
          BY <1>4 DEF Handled
      <3> QED BY <3>1, <3>2
    <2>2. cursor' \in [Worker -> [Partition -> Nat \ {0}]]
      <3> DEFINE n == Here(w) + 1
      <3>1. n \in Nat \ {0}
          BY DEF TypeOK, Here
      <3>2. cursor' = [cursor EXCEPT ![w][part[w]] = n]
          BY <1>4 DEF Handled, Here
      <3>3. cursor \in [Worker -> [Partition -> Nat \ {0}]]
          BY DEF TypeOK
      <3> HIDE DEF n
      <3>4. [cursor EXCEPT ![w][part[w]] = n] \in [Worker -> [Partition -> Nat \ {0}]]
          BY <3>1, <3>3, UpdateAt
      <3> QED BY <3>2, <3>4
    <2> QED BY <1>4, <2>1, <2>2 DEF Handled, TypeOK, group
  <1>5. CASE UNCHANGED vars
      BY <1>5 DEF vars, group, store, batch, memory, TypeOK
  <1>6. CASE Rebalance
      BY <1>6 DEF Rebalance, TypeOK, store, memory
  <1>7. ASSUME NEW w \in Worker, Step(w) PROVE TypeOK'
    <2>1. CASE Poll(w)
      <3>1. PICK next \in Fetchable(w) : position' = [position EXCEPT ![w] = next]
          BY <2>1 DEF Poll
      <3>2. next \in [Partition -> Nat \ {0}]
          BY PositionIsOffset DEF Fetchable
      <3> QED BY <2>1, <3>1, <3>2 DEF Poll, Goto, TypeOK, group, store, memory
    <2>2. CASE PollIdle(w)
        BY <1>5, <2>2 DEF PollIdle
    <2>3. CASE EndBatch(w)
        BY <2>3 DEF EndBatch, TypeOK, group, store, memory
    <2>4. CASE Commit(w)
        BY <2>4 DEF Commit, Goto, TypeOK, store, batch, memory
    <2>5. CASE CommitFenced(w)
        BY <2>5 DEF CommitFenced, Goto, TypeOK, group, store, batch, memory
    <2>6. ASSUME NEW p \in Partition, TakeRecord(w, p) PROVE TypeOK'
        BY <2>6 DEF TakeRecord, Goto, TypeOK, group, store, batch
    <2>7. CASE RejectInvalid(w)
        BY <1>0, <2>7 DEF RejectInvalid, store, TypeOK
    <2>8. CASE LookupFound(w)
        BY <1>4, <2>8 DEF LookupFound, store, TypeOK
    <2>9. CASE LookupAbsent(w)
        BY <2>9 DEF LookupAbsent, Goto, TypeOK, group, store, batch, memory
    <2>10. CASE PutRead(w)
      <3>1. version[PutKey(w)] \in Nat
          BY <2>10, InHandIsRecord DEF PutRead, Goto, Busy, TypeOK
      <3> QED BY <2>10, <3>1 DEF PutRead, Goto, TypeOK, group, store, batch
    <2>11. CASE PutWrite(w)
        BY <1>3, <1>4, <2>11 DEF PutWrite, TypeOK
    <2>12. CASE PutConflict(w)
        BY <1>0, <2>12 DEF PutConflict, store, TypeOK
    <2>13. CASE PublishDeadLetter(w)
      <3>1. dlq' \in [Rec -> Nat]
        <4>1. InHand(w) \in Rec
            BY <2>13, InHandIsRecord DEF PublishDeadLetter, Goto, Busy
        <4> QED BY <2>13, <4>1 DEF PublishDeadLetter, TypeOK
      <3> QED BY <2>13, <3>1 DEF PublishDeadLetter, Goto, TypeOK, group, batch, memory
    <2>14. CASE DeadLetterConflict(w)
        BY <1>1, <2>14 DEF DeadLetterConflict, store, TypeOK
    <2>15. CASE DeadLetterInvalid(w)
        BY <1>1, <2>15 DEF DeadLetterInvalid, store, TypeOK
    <2> QED BY <1>7, <2>1, <2>2, <2>3, <2>4, <2>5, <2>6, <2>7, <2>8, <2>9, <2>10,
               <2>11, <2>12, <2>13, <2>14, <2>15 DEF Step
  <1>8. ASSUME NEW w \in Worker, Start(w) PROVE TypeOK'
      BY <1>8 DEF Start, Goto, TypeOK, group, store, batch, memory
  <1>9. ASSUME NEW w \in Worker, Disturb(w) PROVE TypeOK'
    <2>1. CASE StoreFault(w)
      <3>1. version' \in [Key -> Nat] /\ late' \subseteq Call
        <4>1. CASE UNCHANGED <<version, late>>
            BY <4>1 DEF TypeOK
        <4>2. CASE pc[w] = "write" /\ AppliedOrLate(w, "store")
            BY <4>2, AppliedOrLateTypes DEF Putting, FaultKind
        <4> QED BY <2>1, <4>1, <4>2 DEF StoreFault
      <3> QED BY <1>0, <1>2, <2>1, <3>1 DEF StoreFault, TypeOK, FaultKind
    <2>2. CASE DeadLetterFault(w)
      <3>1. version' \in [Key -> Nat] /\ late' \subseteq Call
        <4>1. CASE UNCHANGED <<version, late>>
            BY <4>1 DEF TypeOK
        <4>2. CASE pc[w] = "deadWrite" /\ AppliedOrLate(w, "deadLetter")
            BY <4>2, AppliedOrLateTypes DEF Putting, FaultKind
        <4> QED BY <2>2, <4>1, <4>2 DEF DeadLetterFault, store
      <3>2. dlq' \in [Rec -> Nat]
        <4>1. InHand(w) \in Rec
            BY <2>2, InHandIsRecord DEF DeadLetterFault, Busy
        <4>2. /\ dlq \in [Rec -> Nat]
              /\ dlq[InHand(w)] + 1 \in Nat
            BY <4>1 DEF TypeOK
        <4>3. \/ dlq' = dlq
              \/ dlq' = [dlq EXCEPT ![InHand(w)] = dlq[InHand(w)] + 1]
            BY <2>2 DEF DeadLetterFault, store
        <4> QED BY <4>2, <4>3
      <3> QED BY <1>1, <1>2, <2>2, <3>1, <3>2 DEF DeadLetterFault, FaultKind
    <2>3. CASE CommitFault(w)
        BY <1>2, <2>3 DEF CommitFault, Goto, TypeOK, FaultKind, group, store, batch, memory
    <2>4. CASE Crash(w) \/ Stop(w)
      <3>1. late' \subseteq Call
        <4>1. late \subseteq Call
            BY DEF TypeOK
        <4>2. Putting(w) => LeftBehind(w, "stop") \in Call
            BY LeftBehindIsCall DEF FaultKind
        <4> QED BY <2>4, <4>1, <4>2 DEF Crash, Stop
      <3>2. faults' \in [FaultKind -> Nat] /\ Down(w)
          BY <1>2, <2>4 DEF Crash, Stop, FaultKind
      <3> QED BY <3>1, <3>2 DEF Down, TypeOK
    <2>5. CASE Evict(w)
        BY <1>2, <2>5 DEF Evict, TypeOK, FaultKind, store, batch, memory
    <2> QED BY <1>9, <2>1, <2>2, <2>3, <2>4, <2>5 DEF Disturb
  <1>10. ASSUME NEW c \in late, LateRead(c) \/ LateWrite(c) PROVE TypeOK'
    <2>1. /\ c \in Call /\ c.key \in Key /\ version \in [Key -> Nat]
          /\ late \subseteq Call
        BY DEF TypeOK, Call
    <2>2. late' \subseteq Call /\ version' \in [Key -> Nat]
      <3>1. CASE LateRead(c)
        <4>1. [c EXCEPT !.at = "write", !.seen = version[c.key]] \in Call
            BY <2>1 DEF Call
        <4> QED BY <2>1, <3>1, <4>1 DEF LateRead
      <3>2. CASE LateWrite(c)
          BY <2>1, <3>2 DEF LateWrite
      <3> QED BY <1>10, <3>1, <3>2
    <2>3. UNCHANGED <<group, dlq, batch, memory, pc, faults, abandoned>>
        BY <1>10 DEF LateRead, LateWrite
    <2> QED BY <2>2, <2>3 DEF group, batch, memory, TypeOK
  <1> QED BY <1>5, <1>6, <1>7, <1>8, <1>9, <1>10 DEF Next

\* Each step keeps the bounds.
LEMMA BoundsStep == TypeOK /\ Bounds /\ [Next]_vars => Bounds'
  <1> SUFFICES ASSUME TypeOK, Bounds, [Next]_vars PROVE Bounds'
      OBVIOUS
  <1>0. ASSUME NEW w \in Worker, pc[w] \in Busy, FailedAttempt(w) PROVE Bounds'
    <2>1. /\ Here(w) <= Len(Log[part[w]]) + 1
          /\ part[w] \in Partition
        BY <1>0, LogContent DEF TypeOK, Bounds, More, Here
    <2>2. CASE GiveUp(w)
        BY <1>0, <2>2 DEF FailedAttempt, GiveUp, TypeOK, Bounds, group, More
    <2>3. CASE RetryLater(w)
        BY <1>0, <2>1, <2>3 DEF FailedAttempt, RetryLater, TypeOK, Bounds, group, More, Busy
    <2> QED BY <1>0, <2>2, <2>3 DEF FailedAttempt
  <1>1. ASSUME NEW w \in Worker, Escape(w) PROVE Bounds'
      BY <1>1 DEF Escape, TypeOK, Bounds, group, More, Busy
  <1>2. ASSUME NEW w \in Worker, Handled(w), UNCHANGED group PROVE Bounds'
      BY <1>2 DEF Handled, TypeOK, Bounds, group, More, Busy
  <1>5. CASE UNCHANGED vars
      BY <1>5 DEF vars, group, store, batch, memory, Bounds, More
  <1>6. CASE Rebalance
      BY <1>6 DEF Rebalance, TypeOK, memory, Bounds, More, Busy
  <1>7. ASSUME NEW w \in Worker, Step(w) PROVE Bounds'
    <2>1. CASE Poll(w)
      <3>1. PICK next \in Fetchable(w) : position' = [position EXCEPT ![w] = next]
          BY <2>1 DEF Poll
      <3>2. \A p \in Partition : next[p] <= Len(Log[p]) + 1
          BY LogContent DEF Fetchable, TypeOK
      <3> QED BY <2>1, <3>1, <3>2 DEF Poll, Goto, TypeOK, group, memory, Bounds, More, Busy
    <2>2. CASE PollIdle(w)
        BY <1>5, <2>2 DEF PollIdle
    <2>3. CASE EndBatch(w)
        BY <2>3 DEF EndBatch, TypeOK, group, memory, Bounds, More, Busy
    <2>4. CASE Commit(w)
        BY <2>4 DEF Commit, Goto, TypeOK, batch, memory, Bounds, More, Busy
    <2>5. CASE CommitFenced(w)
        BY <2>5 DEF CommitFenced, Goto, TypeOK, group, batch, memory, Bounds, More, Busy
    <2>6. ASSUME NEW p \in Partition, TakeRecord(w, p) PROVE Bounds'
        BY <2>6 DEF TakeRecord, Goto, TypeOK, group, batch, Bounds, More
    <2>7. CASE RejectInvalid(w)
        BY <1>0, <2>7 DEF RejectInvalid, Busy
    <2>8. CASE LookupFound(w)
        BY <1>2, <2>8 DEF LookupFound
    <2>9. CASE LookupAbsent(w)
        BY <2>9 DEF LookupAbsent, Goto, TypeOK, group, batch, memory, Bounds, More, Busy
    <2>10. CASE PutRead(w)
        BY <2>10 DEF PutRead, Goto, TypeOK, group, batch, Bounds, More, Busy
    <2>11. CASE PutWrite(w)
        BY <1>2, <2>11 DEF PutWrite
    <2>12. CASE PutConflict(w)
        BY <1>0, <2>12 DEF PutConflict, Busy
    <2>13. CASE PublishDeadLetter(w)
        BY <2>13 DEF PublishDeadLetter, Goto, TypeOK, group, batch, memory, Bounds, More, Busy
    <2>14. CASE DeadLetterConflict(w) \/ DeadLetterInvalid(w)
        BY <1>1, <2>14 DEF DeadLetterConflict, DeadLetterInvalid
    <2> QED BY <1>7, <2>1, <2>2, <2>3, <2>4, <2>5, <2>6, <2>7, <2>8, <2>9, <2>10,
               <2>11, <2>12, <2>13, <2>14 DEF Step
  <1>8. ASSUME NEW w \in Worker, Start(w) PROVE Bounds'
      BY <1>8 DEF Start, Goto, TypeOK, group, batch, memory, Bounds, More, Busy
  <1>9. ASSUME NEW w \in Worker, Disturb(w) PROVE Bounds'
    <2>1. CASE StoreFault(w)
        BY <1>0, <2>1 DEF StoreFault, Busy
    <2>2. CASE DeadLetterFault(w)
        BY <1>1, <2>2 DEF DeadLetterFault
    <2>3. CASE CommitFault(w)
        BY <2>3 DEF CommitFault, Goto, TypeOK, group, batch, memory, Bounds, More, Busy
    <2>4. CASE Crash(w) \/ Stop(w)
      <3>1. \A v \in Worker : /\ pc'[v] = IF v = w THEN "down" ELSE pc[v]
                              /\ cursor'[v] = IF v = w THEN [p \in Partition |-> 1]
                                                       ELSE cursor[v]
                              /\ position'[v] = IF v = w THEN [p \in Partition |-> 1]
                                                         ELSE position[v]
          BY <2>4 DEF Crash, Stop, Down, TypeOK
      <3>2. UNCHANGED <<committed, part>>
          BY <2>4 DEF Crash, Stop, Down
      <3>3. \A p \in Partition : 1 <= Len(Log[p]) + 1
          BY LogContent
      <3>4. \A v \in Worker : \A p \in Partition : position'[v][p] <= Len(Log[p]) + 1
          BY <3>1, <3>3 DEF Bounds
      <3>5. \A v \in Worker : pc'[v] \in Busy => More(v, part[v])'
          BY <3>1, <3>2 DEF Bounds, More, Busy
      <3> QED BY <3>2, <3>4, <3>5 DEF Bounds
    <2>5. CASE Evict(w)
        BY <2>5 DEF Evict, TypeOK, batch, memory, Bounds, More
    <2> QED BY <1>9, <2>1, <2>2, <2>3, <2>4, <2>5 DEF Disturb
  <1>10. ASSUME NEW c \in late, LateRead(c) \/ LateWrite(c) PROVE Bounds'
      BY <1>10 DEF LateRead, LateWrite, group, batch, memory, Bounds, More
  <1> QED BY <1>5, <1>6, <1>7, <1>8, <1>9, <1>10 DEF Next

\* Every behaviour of the consumer keeps its types: no offset, version or
\* counter leaves its range whatever the workers and the faults do.
THEOREM TypeCorrect == Spec => []TypeOK
  <1>1. TypeOK /\ Bounds /\ [Next]_vars => (TypeOK /\ Bounds)'
      BY TypeStep, BoundsStep
  <1> QED BY TypeInit, <1>1, PTL DEF Spec
-----------------------------------------------------------------------------
(* Committed offsets account for what is below them.                       *)

Accounted(r) == Settled(r) \/ r \in abandoned

\* What makes CommittedIsAccountedFor inductive: everything before a cursor is
\* accounted for, only a valid event is about to be stored as such, and where
\* the loop polls or commits no polled record is left.
CursorInv ==
    /\ \A w \in Worker : \A r \in Rec : r[2] < cursor[w][r[1]] => Accounted(r)
    /\ \A w \in Worker : pc[w] \in {"read", "write"} => Content(w).kind = "valid"
    /\ \A w \in Worker : pc[w] \in {"down", "poll", "commit"} => cursor[w] = position[w]
    /\ \A w \in Worker : \A p \in Partition : cursor[w][p] <= position[w][p]

\* Who writes which item.
LEMMA Writes ==
    ASSUME TypeOK, NEW w \in Worker, Step(w) \/ Start(w) \/ Disturb(w)
    PROVE  \/ version' = version
           \/ /\ pc[w] \in {"write", "deadWrite"} /\ pc'[w] \notin {"read", "write"}
              /\ late' = late
              /\ version[PutKey(w)] = seen[w]
              /\ version' = [version EXCEPT ![PutKey(w)] = seen[w] + 1]
  <1>1. CASE Step(w)
      BY <1>1 DEF Step, Poll, PollIdle, EndBatch, Commit, CommitFenced, TakeRecord,
            RejectInvalid, LookupFound, LookupAbsent, PutRead, PutWrite, PutConflict, Handled,
            PublishDeadLetter, DeadLetterInvalid, DeadLetterConflict, store, vars, TypeOK
  <1>2. CASE Start(w) \/ Disturb(w)
    <2>1. FailedAttempt(w) => pc'[w] \notin {"read", "write"}
        BY DEF FailedAttempt, RetryLater, GiveUp, TypeOK
    <2> QED BY <1>2, <2>1 DEF Start, Disturb, StoreFault, DeadLetterFault, AppliedOrLate,
            CommitFault, Crash, Stop, Down, Evict, Escape, store, TypeOK
  <1> QED BY <1>1, <1>2

\* No step removes an item of processed_event or forgets what was abandoned.
LEMMA AccountedStays ==
    ASSUME TypeOK, Bounds, [Next]_vars
    PROVE  /\ abandoned \subseteq abandoned'
           /\ \A r \in Rec : Settled(r) => Settled(r)'
           /\ \A r \in Rec : Accounted(r) => Accounted(r)'
  <1>1. \A k \in Key : version[k] > 0 => version'[k] > 0
    <2>1. \/ version' = version
          \/ \E k \in Key : \E n \in Nat : version' = [version EXCEPT ![k] = n + 1]
      <3>1. ASSUME NEW w \in Worker,
                   version' = [version EXCEPT ![PutKey(w)] = seen[w] + 1],
                   pc[w] \in Busy
            PROVE \E k \in Key : \E n \in Nat : version' = [version EXCEPT ![k] = n + 1]
        <4>1. PutKey(w) \in Key /\ seen[w] \in Nat
            BY <3>1, InHandIsRecord DEF TypeOK
        <4> QED BY <3>1, <4>1
      <3>2. ASSUME NEW w \in Worker, Step(w) \/ Start(w) \/ Disturb(w)
            PROVE  \/ version' = version
                   \/ /\ version' = [version EXCEPT ![PutKey(w)] = seen[w] + 1]
                      /\ pc[w] \in Busy
          BY <3>2, Writes DEF Busy
      <3>3. ASSUME NEW c \in late, LateRead(c) \/ LateWrite(c)
            PROVE  \/ version' = version
                   \/ \E k \in Key : \E n \in Nat : version' = [version EXCEPT ![k] = n + 1]
        <4>1. c.key \in Key /\ version \in [Key -> Nat]
            BY DEF TypeOK, Call
        <4>2. \/ version' = version
              \/ version' = [version EXCEPT ![c.key] = version[c.key] + 1]
            BY <3>3, <4>1 DEF LateRead, LateWrite
        <4> QED BY <4>1, <4>2
      <3>4. CASE Rebalance
          BY <3>4 DEF Rebalance, store
      <3>5. CASE UNCHANGED vars
          BY <3>5 DEF vars, store
      <3> QED BY <3>1, <3>2, <3>3, <3>4, <3>5 DEF Next
    <2>2. version \in [Key -> Nat]
        BY DEF TypeOK
    <2>3. ASSUME NEW k \in Key, NEW n \in Nat, version' = [version EXCEPT ![k] = n + 1]
          PROVE  \A j \in Key : version[j] > 0 => version'[j] > 0
        BY <2>2, <2>3
    <2> QED BY <2>1, <2>3
  <1>2. abandoned \subseteq abandoned'
    <2>1. ASSUME NEW w \in Worker, Step(w) PROVE abandoned \subseteq abandoned'
        BY <2>1 DEF Step, Poll, PollIdle, EndBatch, Commit, CommitFenced, TakeRecord,
              RejectInvalid, LookupFound, LookupAbsent, PutRead, PutWrite, PutConflict,
              PublishDeadLetter, DeadLetterInvalid, DeadLetterConflict, FailedAttempt, Escape, vars
    <2>2. ASSUME NEW w \in Worker, Disturb(w) PROVE abandoned \subseteq abandoned'
        BY <2>2 DEF Disturb, StoreFault, DeadLetterFault, CommitFault, Crash, Stop, Down, Evict,
              FailedAttempt, Escape
    <2> QED BY <2>1, <2>2 DEF Next, Start, Rebalance, LateRead, LateWrite, vars
  <1>3. \A r \in Rec : r \in Key /\ Log[r[1]][r[2]].event \in Key
      BY LogContent DEF Key
  <1>4. \A r \in Rec : Settled(r) => Settled(r)'
      BY <1>1, <1>3 DEF Settled
  <1> QED BY <1>2, <1>4 DEF Accounted

\* CursorInv holds before anything was polled.
LEMMA CursorInit == Init => CursorInv /\ CommittedIsAccountedFor
    BY RecordIsPair DEF Init, CursorInv, CommittedIsAccountedFor

\* Steps that move neither a cursor nor a position, start no write of an invalid
\* event, and leave a batch only when it is done.
QuietStep ==
    /\ UNCHANGED <<cursor, position, part>>
    /\ \A v \in Worker :
        \/ pc'[v] = pc[v]
        \/ pc'[v] \in Busy \ {"read", "write"}
        \/ pc[v] = "read" /\ pc'[v] = "write"
        \/ pc[v] = "lookup" /\ pc'[v] = "read" /\ Content(v).kind = "valid"
        \/ cursor[v] = position[v] /\ pc'[v] \in {"poll", "commit"}

\* Each step keeps CursorInv.
LEMMA CursorStep ==
    TypeOK /\ Bounds /\ CursorInv /\ CommittedIsAccountedFor /\ [Next]_vars => CursorInv'
  <1> SUFFICES ASSUME TypeOK, Bounds, CursorInv, CommittedIsAccountedFor, [Next]_vars
               PROVE  CursorInv'
      OBVIOUS
  <1>a. \A r \in Rec : Accounted(r) => Accounted(r)'
      BY AccountedStays
  <1>b. \A v \in Worker : \A p \in Partition : /\ cursor[v][p] \in Nat
                                               /\ position[v][p] \in Nat
      BY DEF TypeOK
  <1>0. ASSUME NEW w \in Worker, pc[w] \in Busy, FailedAttempt(w) PROVE CursorInv'
    <2>1. UNCHANGED <<cursor, part>>
        BY <1>0 DEF FailedAttempt
    <2>2. /\ pc' = [pc EXCEPT ![w] = pc'[w]]
          /\ pc'[w] \in {"batch", "publish"}
        BY <1>0 DEF FailedAttempt, RetryLater, GiveUp, TypeOK
    <2>3. \A v \in Worker : v # w => position'[v] = position[v]
        BY <1>0 DEF FailedAttempt, RetryLater, GiveUp, TypeOK
    <2>4. \A p \in Partition : position'[w][p] \in {position[w][p], cursor[w][p]}
        BY <1>0 DEF FailedAttempt, RetryLater, GiveUp, TypeOK, Here
    <2>5. \A v \in Worker : \A p \in Partition : cursor'[v][p] <= position'[v][p]
        BY <1>b, <2>1, <2>3, <2>4 DEF CursorInv
    <2> QED BY <1>a, <2>1, <2>2, <2>3, <2>5 DEF CursorInv, TypeOK, Content, Here
  <1>1. ASSUME NEW w \in Worker, pc[w] \in Busy, Escape(w) PROVE CursorInv'
    <2>1. \A r \in Rec : r[2] < position[w][r[1]] => Accounted(r)'
      <3> SUFFICES ASSUME NEW r \in Rec, r[2] < position[w][r[1]] PROVE Accounted(r)'
          OBVIOUS
      <3>1. CASE r[2] < cursor[w][r[1]]
          BY <1>a, <3>1 DEF CursorInv
      <3>2. CASE ~(r[2] < cursor[w][r[1]])
        <4>1. r[2] \in Nat /\ cursor[w][r[1]] \in Nat
            BY RecordIsPair, LogContent DEF TypeOK
        <4>2. r \in Remaining(w)
            BY <3>2, <4>1 DEF Remaining
        <4> QED BY <1>1, <4>2 DEF Escape, Accounted
      <3> QED BY <3>1, <3>2
    <2>2. \A v \in Worker :
             /\ pc'[v] = IF v = w THEN "poll" ELSE pc[v]
             /\ cursor'[v] = IF v = w THEN position[w] ELSE cursor[v]
        BY <1>1 DEF Escape, TypeOK
    <2>3. UNCHANGED <<position, part>>
        BY <1>1 DEF Escape
    <2>4. \A v \in Worker : \A r \in Rec : r[2] < cursor'[v][r[1]] => Accounted(r)'
        BY <1>a, <2>1, <2>2 DEF CursorInv
    <2>5. \A v \in Worker : pc'[v] \in {"read", "write"} => Content(v)'.kind = "valid"
        BY <2>2, <2>3 DEF CursorInv, Content, Here
    <2>6. \A v \in Worker : pc'[v] \in {"down", "poll", "commit"} => cursor'[v] = position'[v]
        BY <2>2, <2>3 DEF CursorInv
    <2>7. \A v \in Worker : \A p \in Partition : cursor'[v][p] <= position'[v][p]
        BY <1>b, <2>2, <2>3 DEF CursorInv
    <2> QED BY <2>4, <2>5, <2>6, <2>7 DEF CursorInv
  <1>2. ASSUME NEW w \in Worker, pc[w] \in Busy, Handled(w), NEW h, h = InHand(w), Settled(h)'
        PROVE CursorInv'
    <2>1. \A v \in Worker :
             /\ pc'[v] = IF v = w THEN "batch" ELSE pc[v]
             /\ v # w => cursor'[v] = cursor[v]
        BY <1>2 DEF Handled, TypeOK
    <2>2. \A p \in Partition : cursor'[w][p] = IF p = part[w] THEN Here(w) + 1
                                                            ELSE cursor[w][p]
        BY <1>2 DEF Handled, TypeOK, Here
    <2>3. UNCHANGED <<position, part>>
        BY <1>2 DEF Handled
    <2>4. ASSUME NEW r \in Rec, r[2] < cursor'[w][r[1]] PROVE Accounted(r)'
      <3>1. /\ r = <<r[1], r[2]>> /\ r[1] \in Partition /\ r[2] \in Nat
            /\ cursor[w][r[1]] \in Nat
          BY RecordIsPair, LogContent DEF TypeOK
      <3>2. CASE r[2] < cursor[w][r[1]]
          BY <1>a, <3>2 DEF CursorInv
      <3>3. CASE ~(r[2] < cursor[w][r[1]])
        <4>1. r[1] = part[w] /\ r[2] = Here(w)
            BY <2>2, <2>4, <3>1, <3>3 DEF Here
        <4>2. r = h
            BY <1>2, <3>1, <4>1 DEF InHand
        <4> QED BY <1>2, <4>2 DEF Accounted
      <3> QED BY <3>2, <3>3
    <2>5. \A v \in Worker : \A r \in Rec : r[2] < cursor'[v][r[1]] => Accounted(r)'
        BY <1>a, <2>1, <2>4 DEF CursorInv
    <2>6. \A v \in Worker : pc'[v] \in {"read", "write"} => Content(v)'.kind = "valid"
        BY <2>1, <2>3 DEF CursorInv, Content, Here
    <2>7. \A v \in Worker : pc'[v] \in {"down", "poll", "commit"} => cursor'[v] = position'[v]
        BY <2>1, <2>3 DEF CursorInv
    <2>8. \A p \in Partition : cursor'[w][p] <= position[w][p]
      <3>1. Here(w) < position[w][part[w]] /\ part[w] \in Partition
          BY <1>2 DEF Bounds, More, Here, TypeOK
      <3> QED BY <1>b, <2>2, <3>1 DEF CursorInv, Here
    <2>9. \A v \in Worker : \A p \in Partition : cursor'[v][p] <= position'[v][p]
        BY <2>1, <2>3, <2>8 DEF CursorInv
    <2> QED BY <2>5, <2>6, <2>7, <2>9 DEF CursorInv
  <1>3. ASSUME QuietStep PROVE CursorInv'
    <2>1. \A v \in Worker : \A r \in Rec : r[2] < cursor'[v][r[1]] => Accounted(r)'
        BY <1>3, <1>a DEF QuietStep, CursorInv
    <2>2. \A v \in Worker : pc'[v] \in {"read", "write"} => Content(v)'.kind = "valid"
      <3>1. \A v \in Worker : Content(v)' = Content(v)
          BY <1>3 DEF QuietStep, Content, Here
      <3> QED BY <1>3, <3>1 DEF QuietStep, CursorInv
    <2>3. \A v \in Worker : pc'[v] \in {"down", "poll", "commit"} => cursor'[v] = position'[v]
        BY <1>3 DEF QuietStep, CursorInv, Busy
    <2>4. \A v \in Worker : \A p \in Partition : cursor'[v][p] <= position'[v][p]
        BY <1>3 DEF QuietStep, CursorInv
    <2> QED BY <2>1, <2>2, <2>3, <2>4 DEF CursorInv
  <1>4. CASE UNCHANGED vars
    <2>1. QuietStep
        BY <1>4 DEF QuietStep, vars, batch, memory
    <2> QED BY <1>3, <2>1
  <1>5. CASE Rebalance
    <2>1. \A v \in Worker :
             \/ pc[v] = "poll" /\ cursor'[v] = committed /\ position'[v] = committed
             \/ pc[v] # "poll" /\ cursor'[v] = cursor[v] /\ position'[v] = position[v]
        BY <1>5 DEF Rebalance
    <2>2. UNCHANGED <<pc, part>>
        BY <1>5 DEF Rebalance, memory
    <2>3. \A r \in Rec : r[2] < committed[r[1]] => Accounted(r)'
        BY <1>a DEF CommittedIsAccountedFor, Accounted
    <2>4. \A p \in Partition : committed[p] <= committed[p]
        BY DEF TypeOK
    <2> QED BY <1>a, <2>1, <2>2, <2>3, <2>4 DEF CursorInv, Content, Here
  <1>6. ASSUME NEW w \in Worker, Poll(w) PROVE CursorInv'
    <2>1. PICK next \in Fetchable(w) : position' = [position EXCEPT ![w] = next]
        BY <1>6 DEF Poll
    <2>2. \A p \in Partition : position[w][p] <= next[p]
      <3>1. \A p \in Partition : next[p] \in position[w][p]..(Len(Log[p]) + 1)
          BY DEF Fetchable
      <3> QED BY <1>b, <3>1, LogContent
    <2>3. \A v \in Worker : /\ position'[v] = IF v = w THEN next ELSE position[v]
                            /\ pc'[v] = IF v = w THEN "batch" ELSE pc[v]
        BY <1>6, <2>1 DEF Poll, Goto, TypeOK
    <2>4. UNCHANGED <<cursor, part>>
        BY <1>6 DEF Poll, memory
    <2>5. \A p \in Partition : next[p] \in Nat
        BY PositionIsOffset DEF Fetchable
    <2>6. \A v \in Worker : \A p \in Partition : cursor'[v][p] <= position'[v][p]
        BY <1>b, <2>2, <2>3, <2>4, <2>5 DEF CursorInv
    <2> QED BY <1>a, <2>3, <2>4, <2>6 DEF CursorInv, Content, Here
  <1>7. ASSUME NEW w \in Worker, Step(w) PROVE CursorInv'
    <2>1. CASE Poll(w)
        BY <1>6, <2>1
    <2>2. CASE PollIdle(w)
        BY <1>4, <2>2 DEF PollIdle
    <2>3. CASE EndBatch(w)
      <3>1. cursor[w] = position[w]
        <4>1. \A p \in Partition : cursor[w][p] >= position[w][p]
            BY <1>b, <2>3 DEF EndBatch, More
        <4>2. \A p \in Partition : cursor[w][p] = position[w][p]
            BY <1>b, <4>1 DEF CursorInv
        <4> QED BY <4>2 DEF TypeOK
      <3>2. \A v \in Worker : v # w => pc'[v] = pc[v]
          BY <2>3 DEF EndBatch, TypeOK
      <3>3. pc'[w] \in {"commit", "poll"}
          BY <2>3 DEF EndBatch, TypeOK
      <3>4. QuietStep
          BY <2>3, <3>1, <3>2, <3>3 DEF QuietStep, EndBatch, memory
      <3> QED BY <1>3, <3>4
    <2>4. CASE Commit(w)
      <3>1. QuietStep
          BY <2>4 DEF QuietStep, Commit, Goto, TypeOK, batch, memory, CursorInv
      <3> QED BY <1>3, <3>1
    <2>5. CASE CommitFenced(w)
      <3>1. QuietStep
          BY <2>5 DEF QuietStep, CommitFenced, Goto, TypeOK, batch, memory, CursorInv
      <3> QED BY <1>3, <3>1
    <2>6. ASSUME NEW p \in Partition, TakeRecord(w, p) PROVE CursorInv'
      <3>1. UNCHANGED <<cursor, position>>
          BY <2>6 DEF TakeRecord, batch
      <3>2. \A v \in Worker : /\ pc'[v] = IF v = w THEN "lookup" ELSE pc[v]
                              /\ v # w => part'[v] = part[v]
          BY <2>6 DEF TakeRecord, Goto, TypeOK
      <3> QED BY <1>a, <3>1, <3>2 DEF CursorInv, Content, Here
    <2>7. CASE RejectInvalid(w)
        BY <1>0, <2>7 DEF RejectInvalid, Busy
    <2>8. CASE LookupFound(w)
      <3>1. pc[w] \in Busy /\ InHand(w) \in Rec
          BY <2>8, InHandIsRecord DEF LookupFound, Busy
      <3>2. Settled(InHand(w))
          BY <2>8 DEF LookupFound, Settled, InHand, Content, PutKey
      <3>3. version' = version
          BY <2>8 DEF LookupFound, store
      <3>4. PICK h \in Rec : h = InHand(w)
          BY <3>1
      <3>5. Settled(h)'
          BY <3>2, <3>3, <3>4 DEF Settled
      <3> QED BY <1>2, <2>8, <3>1, <3>4, <3>5 DEF LookupFound
    <2>9. CASE LookupAbsent(w)
      <3>1. QuietStep
          BY <2>9 DEF QuietStep, LookupAbsent, Goto, TypeOK, batch, memory
      <3> QED BY <1>3, <3>1
    <2>10. CASE PutRead(w)
      <3>1. QuietStep
          BY <2>10 DEF QuietStep, PutRead, Goto, TypeOK, batch, Busy
      <3> QED BY <1>3, <3>1
    <2>11. CASE PutWrite(w)
      <3>1. /\ pc[w] \in Busy /\ InHand(w) \in Rec /\ PutKey(w) \in Key
          BY <2>11, InHandIsRecord DEF PutWrite, Busy
      <3>2. PICK h \in Rec : h = InHand(w)
          BY <3>1
      <3>3. version'[PutKey(w)] > 0
          BY <2>11, <3>1 DEF PutWrite, TypeOK
      <3>4. \/ PutKey(w) = h
            \/ /\ PutKey(w) = Log[h[1]][h[2]].event
               /\ Log[h[1]][h[2]].kind = "valid"
        <4>1. h[1] = part[w] /\ h[2] = Here(w)
            BY <3>2 DEF InHand
        <4>2. pc[w] = "write" => Content(w).kind = "valid"
            BY DEF CursorInv
        <4> QED BY <2>11, <3>2, <4>1, <4>2 DEF PutWrite, PutKey, Content
      <3>5. Settled(h)'
          BY <3>3, <3>4 DEF Settled
      <3> QED BY <1>2, <2>11, <3>1, <3>2, <3>5 DEF PutWrite
    <2>12. CASE PutConflict(w)
        BY <1>0, <2>12 DEF PutConflict, Busy
    <2>13. CASE PublishDeadLetter(w)
      <3>1. QuietStep
          BY <2>13 DEF QuietStep, PublishDeadLetter, Goto, TypeOK, batch, memory, Busy
      <3> QED BY <1>3, <3>1
    <2>14. CASE DeadLetterConflict(w) \/ DeadLetterInvalid(w)
        BY <1>1, <2>14 DEF DeadLetterConflict, DeadLetterInvalid, Busy
    <2> QED BY <1>7, <2>1, <2>2, <2>3, <2>4, <2>5, <2>6, <2>7, <2>8, <2>9, <2>10,
               <2>11, <2>12, <2>13, <2>14 DEF Step
  <1>8. ASSUME NEW w \in Worker, Start(w) PROVE CursorInv'
    <2>1. QuietStep
        BY <1>8 DEF QuietStep, Start, Goto, TypeOK, batch, memory, CursorInv
    <2> QED BY <1>3, <2>1
  <1>9. ASSUME NEW w \in Worker, Disturb(w) PROVE CursorInv'
    <2>1. CASE StoreFault(w)
        BY <1>0, <2>1 DEF StoreFault, Busy
    <2>2. CASE DeadLetterFault(w)
        BY <1>1, <2>2 DEF DeadLetterFault, Busy
    <2>3. CASE CommitFault(w)
      <3>1. QuietStep
          BY <2>3 DEF QuietStep, CommitFault, Goto, TypeOK, batch, memory, CursorInv
      <3> QED BY <1>3, <3>1
    <2>4. CASE Crash(w) \/ Stop(w)
      <3>1. \A v \in Worker : /\ pc'[v] = IF v = w THEN "down" ELSE pc[v]
                              /\ cursor'[v] = IF v = w THEN [p \in Partition |-> 1]
                                                       ELSE cursor[v]
                              /\ position'[v] = IF v = w THEN [p \in Partition |-> 1]
                                                         ELSE position[v]
          BY <2>4 DEF Crash, Stop, Down, TypeOK
      <3>2. part' = part
          BY <2>4 DEF Crash, Stop, Down
      <3>3. \A r \in Rec : r[1] \in Partition /\ ~(r[2] < 1)
          BY RecordIsPair, LogContent
      <3>4. \A v \in Worker : \A r \in Rec : r[2] < cursor'[v][r[1]] => Accounted(r)'
          BY <1>a, <3>1, <3>3 DEF CursorInv
      <3>5. \A v \in Worker : pc'[v] \in {"read", "write"} => Content(v)'.kind = "valid"
          BY <3>1, <3>2 DEF CursorInv, Content, Here
      <3>6. \A v \in Worker : pc'[v] \in {"down", "poll", "commit"} => cursor'[v] = position'[v]
          BY <3>1 DEF CursorInv
      <3>7. \A v \in Worker : \A p \in Partition : cursor'[v][p] <= position'[v][p]
          BY <3>1 DEF CursorInv
      <3> QED BY <3>4, <3>5, <3>6, <3>7 DEF CursorInv
    <2>5. CASE Evict(w)
      <3>1. QuietStep
          BY <2>5 DEF QuietStep, Evict, batch, memory
      <3> QED BY <1>3, <3>1
    <2> QED BY <1>9, <2>1, <2>2, <2>3, <2>4, <2>5 DEF Disturb
  <1>10. ASSUME NEW c \in late, LateRead(c) \/ LateWrite(c) PROVE CursorInv'
    <2>1. QuietStep
        BY <1>10 DEF QuietStep, LateRead, LateWrite, batch, memory
    <2> QED BY <1>3, <2>1
  <1> QED BY <1>4, <1>5, <1>7, <1>8, <1>9, <1>10 DEF Next
-----------------------------------------------------------------------------
(* Commits never go back.                                                  *)

\* A member of the current generation reads on from what the group committed:
\* this is why a late commit cannot move an offset back.
Fresh ==
    \A w \in Worker : \A p \in Partition :
        joined[w] /\ owner[p] = w => committed[p] <= cursor[w][p]

\* Only consumer.commit() moves the committed offsets.
LEMMA OnlyCommitCommits ==
    ASSUME [Next]_vars
    PROVE  UNCHANGED committed \/ \E w \in Worker : Commit(w)
  <1>1. ASSUME NEW w \in Worker, Step(w), ~Commit(w) PROVE UNCHANGED committed
      BY <1>1 DEF Step, Poll, PollIdle, EndBatch, CommitFenced, TakeRecord,
            RejectInvalid, LookupFound, LookupAbsent, PutRead, PutWrite, PutConflict,
            PublishDeadLetter, DeadLetterInvalid, DeadLetterConflict, FailedAttempt, Escape, vars, group
  <1>2. ASSUME NEW w \in Worker, Disturb(w) PROVE UNCHANGED committed
      BY <1>2 DEF Disturb, StoreFault, DeadLetterFault, CommitFault, Crash, Stop, Down, Evict,
            FailedAttempt, Escape, group
  <1> QED BY <1>1, <1>2 DEF Next, Start, Rebalance, LateRead, LateWrite, vars, group

\* Each step keeps what is committed accounted for.
LEMMA CommittedStep ==
    TypeOK /\ Bounds /\ CursorInv /\ CommittedIsAccountedFor /\ [Next]_vars
        => CommittedIsAccountedFor'
  <1> SUFFICES ASSUME TypeOK, Bounds, CursorInv, CommittedIsAccountedFor, [Next]_vars
               PROVE  CommittedIsAccountedFor'
      OBVIOUS
  <1>1. \A r \in Rec : Accounted(r) => Accounted(r)'
      BY AccountedStays
  <1>2. CASE UNCHANGED committed
      BY <1>1, <1>2 DEF CommittedIsAccountedFor, Accounted
  <1>3. ASSUME NEW w \in Worker, Commit(w) PROVE CommittedIsAccountedFor'
    <2> SUFFICES ASSUME NEW r \in Rec, r[2] < committed'[r[1]] PROVE Accounted(r)'
        BY DEF CommittedIsAccountedFor, Accounted
    <2>1. r[1] \in Partition
        BY RecordIsPair
    <2>2. committed'[r[1]] = IF owner[r[1]] = w THEN position[w][r[1]] ELSE committed[r[1]]
        BY <1>3, <2>1 DEF Commit
    <2>3. position[w] = cursor[w]
        BY <1>3 DEF Commit, Goto, CursorInv
    <2>4. Accounted(r)
        BY <2>2, <2>3 DEF CursorInv, CommittedIsAccountedFor, Accounted
    <2> QED BY <1>1, <2>4
  <1> QED BY <1>2, <1>3, OnlyCommitCommits

\* A step moves the cursor of a worker that stays a member forward, unless it
\* is a rebalance.
LEMMA CursorForward ==
    ASSUME TypeOK, CursorInv, [Next]_vars, ~Rebalance, NEW w \in Worker, joined'[w]
    PROVE  /\ joined[w]
           /\ \A p \in Partition : cursor[w][p] <= cursor'[w][p]
  <1>a. \A v \in Worker : \A p \in Partition : /\ cursor[v][p] \in Nat
                                               /\ position[v][p] \in Nat
      BY DEF TypeOK
  <1>1. CASE UNCHANGED <<joined, cursor>>
      BY <1>a, <1>1
  <1>2. ASSUME NEW v \in Worker, Escape(v)
        PROVE  joined[w] /\ \A p \in Partition : cursor[w][p] <= cursor'[w][p]
    <2>1. cursor'[w] = IF w = v THEN position[w] ELSE cursor[w]
        BY <1>2 DEF Escape, TypeOK
    <2>2. joined' = joined
        BY <1>2 DEF Escape, group
    <2> QED BY <1>a, <2>1, <2>2 DEF CursorInv
  <1>3. ASSUME NEW v \in Worker, Handled(v), UNCHANGED group
        PROVE  joined[w] /\ \A p \in Partition : cursor[w][p] <= cursor'[w][p]
    <2>1. \A p \in Partition : \/ cursor'[w][p] = cursor[w][p]
                              \/ cursor'[w][p] = cursor[w][p] + 1
        BY <1>3 DEF Handled, TypeOK
    <2>2. joined' = joined
        BY <1>3 DEF group
    <2> QED BY <1>a, <2>1, <2>2
  <1>4. ASSUME NEW v \in Worker, Down(v) \/ Evict(v)
        PROVE  joined[w] /\ UNCHANGED <<cursor[w]>>
      BY <1>4 DEF Down, Evict, TypeOK, batch
  <1>5. ASSUME NEW v \in Worker, Step(v)
        PROVE  \/ UNCHANGED <<joined, cursor>>
               \/ Escape(v)
               \/ Handled(v) /\ UNCHANGED group
      BY <1>5 DEF Step, Poll, PollIdle, EndBatch, Commit, CommitFenced, TakeRecord,
            RejectInvalid, LookupFound, LookupAbsent, PutRead, PutWrite, PutConflict,
            PublishDeadLetter, DeadLetterInvalid, DeadLetterConflict, FailedAttempt, vars, group, batch
  <1>6. ASSUME NEW v \in Worker, Disturb(v)
        PROVE  \/ UNCHANGED <<joined, cursor>>
               \/ Escape(v)
               \/ Down(v) \/ Evict(v)
      BY <1>6 DEF Disturb, StoreFault, DeadLetterFault, CommitFault, Crash, Stop, FailedAttempt,
            group, batch
  <1>7. ASSUME NEW v \in Worker, Start(v) PROVE UNCHANGED <<joined, cursor>>
      BY <1>7 DEF Start, group, batch
  <1>8. CASE UNCHANGED vars
      BY <1>1, <1>8 DEF vars, group, batch
  <1>9. ASSUME NEW c \in late, LateRead(c) \/ LateWrite(c) PROVE UNCHANGED <<joined, cursor>>
      BY <1>9 DEF LateRead, LateWrite, group, batch
  <1> QED BY <1>a, <1>1, <1>2, <1>3, <1>4, <1>5, <1>6, <1>7, <1>8, <1>9 DEF Next

\* Only a rebalance assigns partitions.
LEMMA OnlyRebalanceAssigns ==
    ASSUME [Next]_vars, ~Rebalance PROVE UNCHANGED owner
  <1>1. ASSUME NEW w \in Worker, Step(w) PROVE UNCHANGED owner
      BY <1>1 DEF Step, Poll, PollIdle, EndBatch, Commit, CommitFenced, TakeRecord,
            RejectInvalid, LookupFound, LookupAbsent, PutRead, PutWrite, PutConflict,
            PublishDeadLetter, DeadLetterInvalid, DeadLetterConflict, FailedAttempt, Escape, vars, group
  <1>2. ASSUME NEW w \in Worker, Disturb(w) PROVE UNCHANGED owner
      BY <1>2 DEF Disturb, StoreFault, DeadLetterFault, CommitFault, Crash, Stop, Down, Evict,
            FailedAttempt, Escape, group
  <1> QED BY <1>1, <1>2 DEF Next, Start, LateRead, LateWrite, vars, group

\* Each step keeps members reading on from the committed offsets.
LEMMA FreshStep ==
    TypeOK /\ Bounds /\ CursorInv /\ Fresh /\ [Next]_vars => Fresh'
  <1> SUFFICES ASSUME TypeOK, Bounds, CursorInv, Fresh, [Next]_vars,
                      NEW w \in Worker, NEW p \in Partition,
                      joined'[w], owner'[p] = w
               PROVE  committed'[p] <= cursor'[w][p]
      BY DEF Fresh
  <1>a. /\ committed[p] \in Nat
        /\ cursor[w][p] \in Nat /\ cursor'[w][p] \in Nat
      BY TypeStep DEF TypeOK
  <1>1. CASE Rebalance
    <2>1. w \in {v \in Worker : pc[v] = "poll"}
        BY <1>1 DEF Rebalance
    <2>2. cursor'[w] = committed /\ committed' = committed
        BY <1>1, <2>1 DEF Rebalance
    <2> QED BY <1>a, <2>2
  <1>2. CASE ~Rebalance
    <2>1. joined[w] /\ owner[p] = w /\ cursor[w][p] <= cursor'[w][p]
        BY <1>2, CursorForward, OnlyRebalanceAssigns
    <2>2. committed[p] <= cursor[w][p]
        BY <2>1 DEF Fresh
    <2>3. CASE UNCHANGED committed
        BY <1>a, <2>1, <2>2, <2>3
    <2>4. ASSUME NEW v \in Worker, Commit(v) PROVE committed'[p] <= cursor'[w][p]
      <3>1. committed'[p] = IF w = v THEN position[w][p] ELSE committed[p]
          BY <2>1, <2>4 DEF Commit
      <3>2. w = v => position[w] = cursor[w]
          BY <2>4 DEF Commit, Goto, CursorInv
      <3> QED BY <1>a, <2>1, <2>2, <3>1, <3>2
    <2> QED BY <2>3, <2>4, OnlyCommitCommits
  <1> QED BY <1>1, <1>2
-----------------------------------------------------------------------------
(* The theorems.                                                           *)

\* The inductive invariant of the consumer.
IInv == TypeOK /\ Bounds /\ CursorInv /\ Fresh /\ CommittedIsAccountedFor

\* The consumer starts in it and no step leaves it.
THEOREM Inductive == Spec => []IInv
  <1>1. Init => IInv
    <2>1. Init => Fresh
        BY DEF Init, Fresh
    <2> QED BY <2>1, TypeInit, CursorInit DEF IInv
  <1>2. IInv /\ [Next]_vars => IInv'
      BY TypeStep, BoundsStep, CursorStep, FreshStep, CommittedStep DEF IInv
  <1> QED BY <1>1, <1>2, PTL DEF Spec

\* Whatever is below a committed offset was stored in processed_event or was in
\* a batch that an exception of _dead_letter ended: _poll's seeks, its break on
\* a failure and the commit after the batch leave no other gap.
THEOREM CommittedAccounted == Spec => []CommittedIsAccountedFor
  <1>1. IInv => CommittedIsAccountedFor
      BY DEF IInv
  <1> QED BY <1>1, Inductive, PTL

\* Records of a partition are worked on in order: while _poll holds one, every
\* earlier one is accounted for.
THEOREM OrderKept == Spec => []PartitionOrder
  <1>1. IInv => PartitionOrder
    <2> SUFFICES ASSUME IInv, NEW w \in Worker, NEW r \in Rec,
                        r[1] = part[w], r[2] < Here(w)
                 PROVE  Accounted(r)
        BY DEF PartitionOrder, Accounted
    <2> QED BY DEF IInv, CursorInv, Here
  <1> QED BY <1>1, Inductive, PTL

\* A step moves no committed offset back.
LEMMA CommittedForward ==
    ASSUME IInv, [Next]_vars
    PROVE  \A p \in Partition : committed'[p] >= committed[p]
  <1> SUFFICES ASSUME NEW p \in Partition PROVE committed'[p] >= committed[p]
      OBVIOUS
  <1>1. committed[p] \in Nat
      BY DEF IInv, TypeOK
  <1>2. ASSUME NEW w \in Worker, Commit(w) PROVE committed'[p] >= committed[p]
    <2>1. committed'[p] = IF owner[p] = w THEN position[w][p] ELSE committed[p]
        BY <1>2 DEF Commit
    <2>2. position[w] = cursor[w]
        BY <1>2 DEF Commit, Goto, IInv, CursorInv
    <2>3. owner[p] = w => committed[p] <= cursor[w][p]
        BY <1>2 DEF Commit, IInv, Fresh
    <2>4. cursor[w][p] \in Nat
        BY DEF IInv, TypeOK
    <2> QED BY <1>1, <2>1, <2>2, <2>3, <2>4
  <1> QED BY <1>1, <1>2, OnlyCommitCommits

\* No commit moves the group's offset of a partition back, whichever worker
\* sends it and whatever it was doing when it was evicted or restarted.
THEOREM CommitsNeverGoBack == Spec => CommitMonotone
  <1>1. IInv /\ [Next]_vars => [\A p \in Partition : committed'[p] >= committed[p]]_vars
      BY CommittedForward
  <1> QED BY <1>1, Inductive, PTL DEF Spec, CommitMonotone

\* The consumer with its batches, retries, seeks, rebalances and crashes is an
\* implementation of the delivery contract.
THEOREM DeliveryImplemented == Spec => ImplementsDelivery
  <1> DEFINE done == {r \in Rec : Settled(r)}
  <1>1. Init => Delivery!Init
    <2> SUFFICES ASSUME Init PROVE Delivery!Init
        OBVIOUS
    <2>1. \A r \in Rec : ~Settled(r)
      <3> SUFFICES ASSUME NEW r \in Rec PROVE ~Settled(r)
          OBVIOUS
      <3>1. r \in Key /\ Log[r[1]][r[2]].event \in Key
          BY LogContent DEF Key
      <3> QED BY <3>1 DEF Init, Settled
    <2> QED BY <2>1 DEF Init, Delivery!Init
  <1>2. IInv /\ IInv' /\ [Next]_vars => [Delivery!Next]_Delivery!vars
    <2> SUFFICES ASSUME IInv, IInv', [Next]_vars PROVE [Delivery!Next]_Delivery!vars
        OBVIOUS
    <2>1. /\ done \subseteq done' /\ done' \subseteq Rec
          /\ abandoned \subseteq abandoned' /\ abandoned' \subseteq Rec
        BY AccountedStays DEF IInv, TypeOK
    <2>2. CASE UNCHANGED committed
        BY <2>1, <2>2 DEF Delivery!Next, Delivery!Handle
    <2>3. ASSUME NEW w \in Worker, Commit(w) PROVE Delivery!Commit
      <3>1. committed' \in [Partition -> Nat]
          BY DEF IInv, TypeOK
      <3>2. \A p \in Partition : committed'[p] >= committed[p]
          BY CommittedForward
      <3>3. \A r \in Rec : r[2] < committed'[r[1]] => r \in done' \cup abandoned'
          BY DEF IInv, CommittedIsAccountedFor
      <3>4. UNCHANGED <<done, abandoned>>
          BY <2>3 DEF Commit, store, Settled
      <3> QED BY <3>1, <3>2, <3>3, <3>4 DEF Delivery!Commit
    <2> QED BY <2>2, <2>3, OnlyCommitCommits DEF Delivery!Next
  <1> QED BY <1>1, <1>2, Inductive, PTL DEF Spec, ImplementsDelivery, Delivery!Spec
-----------------------------------------------------------------------------
(* What a step leaves alone, and the two promises of process_record and      *)
(* process_record_with_retry.                                                *)

\* The loop and the memory of worker v as they were.
Untouched(v) ==
    /\ pc'[v] = pc[v] /\ joined'[v] = joined[v] /\ part'[v] = part[v]
    /\ cursor'[v] = cursor[v] /\ position'[v] = position[v]
    /\ attempts'[v] = attempts[v] /\ seen'[v] = seen[v]

\* A worker's step is in its own process.
LEMMA OthersUntouched ==
    ASSUME TypeOK, NEW w \in Worker, Step(w) \/ Start(w) \/ Disturb(w), NEW v \in Worker \ {w}
    PROVE  Untouched(v)
  <1>1. ASSUME FailedAttempt(w) PROVE Untouched(v)
      BY <1>1 DEF FailedAttempt, RetryLater, GiveUp, Untouched, TypeOK, group
  <1>2. ASSUME Escape(w) PROVE Untouched(v)
      BY <1>2 DEF Escape, Untouched, TypeOK, group
  <1>3. ASSUME Handled(w), UNCHANGED group, seen' = seen \/ seen' = [seen EXCEPT ![w] = 0]
        PROVE  Untouched(v)
      BY <1>3 DEF Handled, Untouched, TypeOK, group
  <1>4. CASE Step(w)
    <2>1. CASE Poll(w) \/ PollIdle(w) \/ EndBatch(w) \/ Commit(w) \/ CommitFenced(w)
        BY <2>1 DEF Poll, PollIdle, EndBatch, Commit, CommitFenced, Goto, Untouched, TypeOK,
                    vars, group, batch, memory
    <2>2. CASE (\E p \in Partition : TakeRecord(w, p)) \/ LookupAbsent(w) \/ PutRead(w)
               \/ PublishDeadLetter(w)
        BY <2>2 DEF TakeRecord, LookupAbsent, PutRead, PublishDeadLetter, Goto, Untouched,
                    TypeOK, group, batch, memory
    <2>3. CASE LookupFound(w) \/ PutWrite(w)
        BY <1>3, <2>3 DEF LookupFound, PutWrite
    <2>4. CASE RejectInvalid(w) \/ PutConflict(w) \/ DeadLetterConflict(w) \/ DeadLetterInvalid(w)
        BY <1>1, <1>2, <2>4 DEF RejectInvalid, PutConflict, DeadLetterConflict, DeadLetterInvalid
    <2> QED BY <1>4, <2>1, <2>2, <2>3, <2>4 DEF Step
  <1>5. CASE Start(w)
      BY <1>5 DEF Start, Goto, Untouched, TypeOK, group, batch, memory
  <1>6. CASE Disturb(w)
    <2>1. CASE StoreFault(w) \/ DeadLetterFault(w)
        BY <1>1, <1>2, <2>1 DEF StoreFault, DeadLetterFault
    <2>2. CASE CommitFault(w) \/ Crash(w) \/ Stop(w) \/ Evict(w)
        BY <2>2 DEF CommitFault, Crash, Stop, Down, Evict, Goto, Untouched, TypeOK, group, batch, memory
    <2> QED BY <1>6, <2>1, <2>2 DEF Disturb
  <1> QED BY <1>4, <1>5, <1>6

\* A record on its way to the DLQ has its failures counted.
Counted ==
    \A w \in Worker : pc[w] = "publish" => attempts[w][InHand(w)] >= MaxAttempts

LEMMA CountedStep == TypeOK /\ Bounds /\ Counted /\ [Next]_vars => Counted'
  <1> SUFFICES ASSUME TypeOK, Bounds, Counted, [Next]_vars, NEW v \in Worker, pc'[v] = "publish"
               PROVE  (attempts[v][InHand(v)] >= MaxAttempts)'
      BY DEF Counted
  <1>1. ASSUME Untouched(v) PROVE (attempts[v][InHand(v)] >= MaxAttempts)'
      BY <1>1 DEF Untouched, Counted, InHand, Here
  <1>2. CASE Rebalance
    <2>1. pc[v] = "publish" /\ v \notin {w \in Worker : pc[w] = "poll"}
        BY <1>2 DEF Rebalance
    <2>2. UNCHANGED <<attempts, part>> /\ cursor'[v] = cursor[v]
        BY <1>2, <2>1 DEF Rebalance, memory
    <2> QED BY <2>1, <2>2 DEF Counted, InHand, Here
  <1>3. CASE UNCHANGED vars
      BY <1>1, <1>3 DEF vars, group, batch, memory, Untouched
  <1>4. ASSUME NEW w \in Worker, v # w, Step(w) \/ Start(w) \/ Disturb(w)
        PROVE  (attempts[v][InHand(v)] >= MaxAttempts)'
      BY <1>1, <1>4, OthersUntouched
  <1>5. ASSUME pc[v] \in Busy, FailedAttempt(v)
        PROVE  (attempts[v][InHand(v)] >= MaxAttempts)'
    <2>1. GiveUp(v)
        BY <1>5 DEF FailedAttempt, RetryLater, TypeOK
    <2>2. InHand(v)' = InHand(v) /\ InHand(v) \in Rec
        BY <1>5, InHandIsRecord DEF FailedAttempt, InHand, Here
    <2>3. attempts'[v][InHand(v)] = attempts[v][InHand(v)] + 1
        BY <1>5, <2>2 DEF FailedAttempt, TypeOK
    <2>4. attempts[v][InHand(v)] + 1 >= MaxAttempts
        BY <2>1 DEF GiveUp
    <2> QED BY <2>2, <2>3, <2>4
  <1>6. CASE RejectInvalid(v) \/ PutConflict(v) \/ StoreFault(v)
      BY <1>5, <1>6 DEF RejectInvalid, PutConflict, StoreFault, Busy
  <1>7. CASE Evict(v)
      BY <1>7 DEF Evict, Counted, InHand, Here, memory, batch
  <1>8. ASSUME Step(v) \/ Start(v) \/ Disturb(v)
        PROVE  RejectInvalid(v) \/ PutConflict(v) \/ StoreFault(v) \/ Evict(v)
    <2>1. CASE Step(v)
        BY <2>1 DEF Step, Poll, PollIdle, EndBatch, Commit, CommitFenced, TakeRecord,
              LookupFound, LookupAbsent, PutRead, PutWrite, PublishDeadLetter,
              DeadLetterInvalid, DeadLetterConflict, Escape, Handled, Goto, TypeOK, vars
    <2>2. CASE Start(v) \/ Disturb(v)
        BY <2>2 DEF Start, Goto, Disturb, DeadLetterFault, CommitFault, Crash, Stop, Down, Escape, TypeOK
    <2> QED BY <1>8, <2>1, <2>2
  <1>9. ASSUME NEW c \in late, LateRead(c) \/ LateWrite(c)
        PROVE  (attempts[v][InHand(v)] >= MaxAttempts)'
      BY <1>1, <1>9 DEF LateRead, LateWrite, group, batch, memory, Untouched
  <1> QED BY <1>2, <1>3, <1>4, <1>5, <1>6, <1>7, <1>8, <1>9 DEF Next

\* A message reaches the DLQ only after MaxAttempts failures in the worker that
\* sends it: retries, seeks and rebalances neither lose a failure nor skip one.
THEOREM DeadLettersAreEarned == Spec => DeadLetterAfterMaxAttempts
  <1>1. Init => Counted
      BY DEF Init, Counted
  <1>2. IInv /\ Counted /\ [Next]_vars =>
            [\A r \in Rec : dlq'[r] > dlq[r] => \E w \in Worker : attempts[w][r] >= MaxAttempts]_vars
    <2> SUFFICES ASSUME IInv, Counted, [Next]_vars, NEW r \in Rec, dlq'[r] > dlq[r]
                 PROVE  \E w \in Worker : attempts[w][r] >= MaxAttempts
        OBVIOUS
    <2>1. dlq' # dlq
      <3>1. dlq[r] \in Nat
          BY DEF IInv, TypeOK
      <3> QED BY <3>1
    <2>2. PICK w \in Worker : pc[w] = "publish" /\ dlq' = [dlq EXCEPT ![InHand(w)] = @ + 1]
      <3>1. ASSUME NEW w \in Worker, Step(w) PROVE PublishDeadLetter(w)
          BY <2>1, <3>1 DEF Step, Poll, PollIdle, EndBatch, Commit, CommitFenced, TakeRecord,
                RejectInvalid, LookupFound, LookupAbsent, PutRead, PutWrite, PutConflict,
                DeadLetterInvalid, DeadLetterConflict, store, vars
      <3>2. ASSUME NEW w \in Worker, Disturb(w)
            PROVE  pc[w] = "publish" /\ dlq' = [dlq EXCEPT ![InHand(w)] = @ + 1]
          BY <2>1, <3>2 DEF Disturb, StoreFault, DeadLetterFault, CommitFault, Crash, Stop, Down, Evict, store
      <3> QED BY <2>1, <3>1, <3>2 DEF Next, Rebalance, Start, LateRead, LateWrite,
            PublishDeadLetter, Goto, store, vars
    <2>3. InHand(w) = r
        BY <2>1, <2>2 DEF IInv, TypeOK
    <2> QED BY <2>2, <2>3 DEF Counted
  <1>3. IInv /\ Counted /\ [Next]_vars => Counted'
      BY CountedStep DEF IInv
  <1> QED BY <1>1, <1>2, <1>3, Inductive, PTL DEF Spec, DeadLetterAfterMaxAttempts

-----------------------------------------------------------------------------
(* Who may write what.                                                       *)

\* A member of the group is at work only on partitions it owns.
AtHome ==
    \A w \in Worker : joined[w] =>
        \A p \in Partition : More(w, p) => owner[p] = w

\* Workers in the middle of a batch that are no members any more.
Outside == {w \in Worker : ~joined[w] /\ pc[w] \notin {"down", "poll"}}

\* The puts of event e under way: by a worker that waits, and left behind.
Putters(e) == {w \in Worker : pc[w] \in {"read", "write"} /\ Content(w).event = e}
LateFor(e) == {c \in late : c.key = e}

\* Those left behind of any event.
LateEvents == {c \in late : c.key \in EventId}

\* A rebalance is the only way in, and what a member polls is its own.
LEMMA AtHomeStep ==
    ASSUME IInv, AtHome, [Next]_vars PROVE AtHome'
  <1> SUFFICES ASSUME NEW v \in Worker, joined'[v], NEW p \in Partition, More(v, p)'
               PROVE  owner'[p] = v
      BY DEF AtHome
  <1>a. /\ cursor[v][p] \in Nat /\ position[v][p] \in Nat
        /\ cursor'[v][p] \in Nat /\ position'[v][p] \in Nat
      BY TypeStep DEF IInv, TypeOK
  <1>1. CASE Rebalance
    <2>1. v \in {w \in Worker : pc[w] = "poll"}
        BY <1>1 DEF Rebalance
    <2>2. cursor'[v] = committed /\ position'[v] = committed
        BY <1>1, <2>1 DEF Rebalance
    <2> QED BY <1>a, <2>2 DEF More
  <1>2. CASE ~Rebalance
    <2>1. UNCHANGED owner
        BY <1>2, OnlyRebalanceAssigns
    <2>2. joined[v] /\ cursor[v][p] <= cursor'[v][p]
        BY <1>2, CursorForward DEF IInv
    <2>3. CASE position'[v][p] <= position[v][p]
      <3>1. More(v, p)
          BY <1>a, <2>2, <2>3 DEF More
      <3> QED BY <2>1, <2>2, <3>1 DEF AtHome
    <2>4. CASE ~(position'[v][p] <= position[v][p])
      <3>1. PICK w \in Worker : Step(w) \/ Start(w) \/ Disturb(w)
        <4>1. ~(UNCHANGED vars)
            BY <1>a, <2>4 DEF vars, batch
        <4>2. \A c \in late : ~(LateRead(c) \/ LateWrite(c))
            BY <1>a, <2>4 DEF LateRead, LateWrite, batch
        <4> QED BY <1>2, <4>1, <4>2 DEF Next
      <3>2. w = v
          BY <1>a, <2>4, <3>1, OthersUntouched DEF IInv, Untouched
      <3>3. ASSUME FailedAttempt(v) PROVE FALSE
        <4>1. position'[v][p] \in {position[v][p], cursor[v][p]}
            BY <3>3 DEF FailedAttempt, RetryLater, GiveUp, IInv, TypeOK, Here
        <4> QED BY <1>a, <2>4, <4>1 DEF IInv, CursorInv
      <3>4. Poll(v)
        <4>1. ASSUME ~Poll(v), Step(v) PROVE position' = position
            BY <3>3, <4>1 DEF Step, PollIdle, EndBatch, Commit, CommitFenced, TakeRecord,
                  RejectInvalid, LookupFound, LookupAbsent, PutRead, PutWrite, PutConflict, Handled,
                  PublishDeadLetter, DeadLetterInvalid, DeadLetterConflict, Escape, batch, vars
        <4>2. ASSUME Start(v) \/ Disturb(v), ~Down(v) PROVE position' = position
            BY <3>3, <4>2 DEF Start, Disturb, StoreFault, DeadLetterFault, CommitFault, Crash, Stop,
                  Evict, Escape, batch
        <4>3. ~Down(v)
            BY DEF Down, IInv, TypeOK
        <4> QED BY <1>a, <2>4, <3>1, <3>2, <4>1, <4>2, <4>3
      <3>5. PICK next \in Fetchable(v) : position' = [position EXCEPT ![v] = next]
          BY <3>4 DEF Poll
      <3>6. position'[v] = next
          BY <3>5 DEF IInv, TypeOK
      <3>7. owner[p] = v \/ next[p] = position[v][p]
          BY DEF Fetchable
      <3> QED BY <1>a, <2>1, <2>4, <3>6, <3>7
    <2> QED BY <2>3, <2>4
  <1> QED BY <1>1, <1>2

\* Faults are only counted up.
LEMMA FaultsGrow ==
    ASSUME TypeOK, [Next]_vars, NEW k \in FaultKind
    PROVE  faults[k] \in Nat /\ faults'[k] \in Nat /\ faults'[k] >= faults[k]
  <1>1. faults \in [FaultKind -> Nat]
      BY DEF TypeOK
  <1>2. ASSUME NEW j, Fault(j) PROVE faults'[k] = faults[k] \/ faults'[k] = faults[k] + 1
      BY <1>1, <1>2 DEF Fault
  <1>3. ASSUME NEW w \in Worker, Step(w) PROVE UNCHANGED faults
      BY <1>3 DEF Step, Poll, PollIdle, EndBatch, Commit, CommitFenced, TakeRecord,
            RejectInvalid, LookupFound, LookupAbsent, PutRead, PutWrite, PutConflict,
            PublishDeadLetter, DeadLetterInvalid, DeadLetterConflict, vars
  <1>4. ASSUME NEW w \in Worker, Disturb(w) PROVE \E j : Fault(j)
      BY <1>4 DEF Disturb, StoreFault, DeadLetterFault, CommitFault, Crash, Stop, Evict
  <1>5. UNCHANGED faults \/ \E j : Fault(j)
      BY <1>3, <1>4 DEF Next, Rebalance, Start, LateRead, LateWrite, vars
  <1> QED BY <1>1, <1>2, <1>5

\* What becomes of the puts nobody waits for when a worker takes a step.
LEMMA LeavesBehind ==
    ASSUME TypeOK, NEW w \in Worker, Step(w) \/ Start(w) \/ Disturb(w)
    PROVE  \/ late' = late
           \/ \E k \in {"stop", "store", "deadLetter"} :
                /\ Putting(w) /\ pc'[w] \notin {"read", "write"}
                /\ late' = late \cup {LeftBehind(w, k)} /\ version' = version
                /\ Fault(k)
                /\ k = "store" => pc[w] = "write"
                /\ k = "deadLetter" => pc[w] = "deadWrite"
  <1>1. CASE Step(w)
      BY <1>1 DEF Step, Poll, PollIdle, EndBatch, Commit, CommitFenced, TakeRecord,
            RejectInvalid, LookupFound, LookupAbsent, PutRead, PutWrite, PutConflict,
            PublishDeadLetter, DeadLetterInvalid, DeadLetterConflict, store, vars
  <1>2. CASE StoreFault(w)
    <2>1. pc'[w] \notin {"read", "write"}
        BY <1>2 DEF StoreFault, FailedAttempt, RetryLater, GiveUp, TypeOK
    <2> QED BY <1>2, <2>1 DEF StoreFault, AppliedOrLate, Putting
  <1>3. CASE DeadLetterFault(w)
    <2>1. pc'[w] \notin {"read", "write"}
        BY <1>3 DEF DeadLetterFault, Escape, TypeOK
    <2> QED BY <1>3, <2>1 DEF DeadLetterFault, AppliedOrLate, Putting, store
  <1>4. CASE Stop(w)
      BY <1>4 DEF Stop, Down, TypeOK
  <1>5. CASE Start(w) \/ CommitFault(w) \/ Crash(w) \/ Evict(w)
      BY <1>5 DEF Start, CommitFault, Crash, Evict, store
  <1> QED BY <1>1, <1>2, <1>3, <1>4, <1>5 DEF Disturb

\* Only a lookup that found nothing starts a put of an event.
LEMMA PuttersStep ==
    ASSUME IInv, NEW w \in Worker, Step(w) \/ Start(w) \/ Disturb(w), NEW e, NEW v \in Worker,
           v \in Putters(e)'
    PROVE  \/ v \in Putters(e)
           \/ v = w /\ LookupAbsent(w) /\ version[e] = 0 /\ version' = version
  <1>0. pc'[v] \in {"read", "write"} /\ Content(v)'.event = e
      BY DEF Putters
  <1>1. CASE v # w
    <2>1. Untouched(v)
        BY <1>1, OthersUntouched DEF IInv
    <2>2. Content(v)' = Content(v) /\ pc'[v] = pc[v]
        BY <2>1 DEF Untouched, Content, Here
    <2> QED BY <1>0, <2>2 DEF Putters
  <1>2. CASE v = w
    <2>1. ~FailedAttempt(w) /\ ~Handled(w) /\ ~Escape(w) /\ ~Down(w)
        BY <1>0, <1>2 DEF FailedAttempt, RetryLater, GiveUp, Handled, Escape, Down, IInv, TypeOK
    <2>2. LookupAbsent(w) \/ PutRead(w) \/ Evict(w)
      <3>1. CASE Step(w)
          BY <1>0, <1>2, <2>1, <3>1 DEF Step, Poll, PollIdle, EndBatch, Commit, CommitFenced,
                TakeRecord, RejectInvalid, LookupFound, PutWrite, PutConflict, PublishDeadLetter,
                DeadLetterInvalid, DeadLetterConflict, Goto, IInv, TypeOK, vars
      <3>2. CASE Start(w) \/ Disturb(w)
          BY <1>0, <1>2, <2>1, <3>2 DEF Start, Disturb, StoreFault, DeadLetterFault, CommitFault,
                Crash, Stop, Goto, IInv, TypeOK
      <3> QED BY <3>1, <3>2
    <2>3. CASE LookupAbsent(w)
      <3>1. Content(w)' = Content(w) /\ PutKey(w) = Content(w).event /\ version' = version
          BY <2>3 DEF LookupAbsent, Goto, PutKey, Content, Here, store, batch, memory
      <3> QED BY <1>0, <1>2, <2>3, <3>1 DEF LookupAbsent
    <2>4. CASE PutRead(w)
      <3>1. Content(w)' = Content(w)
          BY <2>4 DEF PutRead, Content, Here, batch
      <3>2. pc[w] = "read"
          BY <1>0, <1>2, <2>4 DEF PutRead, Goto, IInv, TypeOK
      <3> QED BY <1>0, <1>2, <3>1, <3>2 DEF Putters
    <2>5. CASE Evict(w)
      <3>1. Content(w)' = Content(w) /\ pc' = pc
          BY <2>5 DEF Evict, Content, Here, batch, memory
      <3> QED BY <1>0, <1>2, <3>1 DEF Putters
    <2> QED BY <2>2, <2>3, <2>4, <2>5
  <1> QED BY <1>1, <1>2

-----------------------------------------------------------------------------
(* Writes are paid for.                                                      *)

\* What a fault can have caused is counted: evictions put workers outside, and
\* stop() and failed calls leave puts of events behind.
Counts ==
    /\ IsFiniteSet(late)
    /\ Cardinality(Outside) <= faults["evict"]
    /\ Cardinality(LateEvents) <= faults["stop"] + faults["store"]

\* What an event of one partition may cost: the writes so far and the puts that
\* may still become writes.
Budget == 1 + faults["evict"] + faults["stop"] + faults["store"]
Cost(e) == version[e] + Cardinality(Putters(e)) + Cardinality(LateFor(e))
Afforded == \A e \in EventId : OneHome(e) => Cost(e) <= Budget

\* An event that is not stored can still be afforded.
Frugal == \A e \in EventId : OneHome(e) /\ version[e] = 0 => Cost(e) <= Budget

\* What these sums add up.
Countable == \A e \in EventId : Cardinality(Putters(e)) \in Nat /\ Cardinality(LateFor(e)) \in Nat

\* Cardinalities are numbers.
LEMMA FiniteCounts ==
    ASSUME IsFiniteSet(late), NEW e
    PROVE  /\ IsFiniteSet(Outside) /\ Cardinality(Outside) \in Nat
           /\ IsFiniteSet(Putters(e)) /\ Cardinality(Putters(e)) \in Nat
           /\ IsFiniteSet(LateFor(e)) /\ Cardinality(LateFor(e)) \in Nat
           /\ IsFiniteSet(LateEvents) /\ Cardinality(LateEvents) \in Nat
  <1>1. IsFiniteSet(Worker)
      BY KafkaAssumption
  <1>2. Outside \in SUBSET Worker /\ Putters(e) \in SUBSET Worker
      BY DEF Outside, Putters
  <1>3. LateFor(e) \in SUBSET late /\ LateEvents \in SUBSET late
      BY DEF LateFor, LateEvents
  <1>4. /\ IsFiniteSet(Outside) /\ IsFiniteSet(Putters(e))
        /\ IsFiniteSet(LateFor(e)) /\ IsFiniteSet(LateEvents)
      BY <1>1, <1>2, <1>3, FS_Subset
  <1> QED BY <1>4, FS_CardinalityType

\* A set that gains one element at most is at most one larger.
LEMMA OneMore ==
    ASSUME NEW A, NEW B, NEW x, IsFiniteSet(B), A \subseteq B \cup {x}
    PROVE  /\ IsFiniteSet(A) /\ Cardinality(A) \in Nat /\ Cardinality(B) \in Nat
           /\ Cardinality(A) <= Cardinality(B) + 1
  <1>1. /\ IsFiniteSet(B \cup {x}) /\ Cardinality(B) \in Nat
        /\ Cardinality(B \cup {x}) \in Nat
        /\ Cardinality(B \cup {x}) <= Cardinality(B) + 1
      BY FS_AddElement, FS_CardinalityType
  <1>2. IsFiniteSet(A) /\ Cardinality(A) <= Cardinality(B \cup {x})
      BY <1>1, FS_Subset
  <1>3. Cardinality(A) \in Nat
      BY <1>2, FS_CardinalityType
  <1> QED BY <1>1, <1>2, <1>3

\* A set without one of the elements of another is smaller.
LEMMA OneLess ==
    ASSUME NEW A, NEW B, NEW x \in B, IsFiniteSet(B), A \subseteq B \ {x}
    PROVE  /\ Cardinality(A) \in Nat /\ Cardinality(B) \in Nat
           /\ Cardinality(A) + 1 <= Cardinality(B)
  <1>1. /\ IsFiniteSet(B \ {x}) /\ Cardinality(B) \in Nat
        /\ Cardinality(B \ {x}) = Cardinality(B) - 1
      BY FS_RemoveElement, FS_CardinalityType
  <1>2. IsFiniteSet(A) /\ Cardinality(A) <= Cardinality(B \ {x})
      BY <1>1, FS_Subset
  <1>3. Cardinality(A) \in Nat
      BY <1>2, FS_CardinalityType
  <1> QED BY <1>1, <1>2, <1>3

\* An event of one partition that is not stored is being put by the worker that
\* owns the partition, by workers outside the group, and by nobody else.
LEMMA Unwritten ==
    IInv /\ AtHome /\ Counts => Frugal
  <1> SUFFICES ASSUME IInv, AtHome, Counts, NEW e \in EventId, OneHome(e), version[e] = 0
               PROVE  Cost(e) <= Budget
      BY DEF Frugal
  <1>1. /\ IsFiniteSet(late)
        /\ Cardinality(Outside) <= faults["evict"]
        /\ Cardinality(LateEvents) <= faults["stop"] + faults["store"]
      BY DEF Counts
  <1>2. \A v, w \in Putters(e) \ Outside : v = w
    <2> SUFFICES ASSUME NEW v \in Putters(e) \ Outside, NEW w \in Putters(e) \ Outside
                 PROVE  v = w
        OBVIOUS
    <2>1. ASSUME NEW u \in Putters(e) \ Outside
          PROVE  /\ u \in Worker /\ part[u] \in Homes(e)
                 /\ owner[part[u]] = u
      <3>1. /\ u \in Worker /\ pc[u] \in {"read", "write"} /\ Content(u).event = e
            /\ joined[u]
          BY DEF Putters, Outside
      <3>2. More(u, part[u]) /\ part[u] \in Partition
          BY <3>1 DEF IInv, TypeOK, Bounds, Busy
      <3>3. Content(u).kind = "valid"
          BY <3>1 DEF IInv, CursorInv
      <3>4. Here(u) \in 1..Len(Log[part[u]])
        <4>1. InHand(u) \in Rec
            BY <3>1, InHandIsRecord DEF IInv, Busy
        <4>2. InHand(u)[1] = part[u] /\ InHand(u)[2] = Here(u)
            BY DEF InHand
        <4> QED BY <4>1, <4>2, RecordIsPair
      <3>5. part[u] \in Homes(e)
          BY <3>1, <3>2, <3>3, <3>4 DEF Homes, Content
      <3> QED BY <3>1, <3>2, <3>5 DEF AtHome
    <2>2. part[v] = part[w]
        BY <2>1 DEF OneHome
    <2> QED BY <2>1, <2>2
  <1>3. Cardinality(Putters(e)) <= Cardinality(Outside) + 1
    <2>1. IsFiniteSet(Outside) /\ Cardinality(Outside) \in Nat
        BY <1>1, FiniteCounts
    <2>2. CASE Putters(e) \subseteq Outside
        BY <2>1, <2>2, OneMore
    <2>3. CASE ~(Putters(e) \subseteq Outside)
      <3>1. PICK v \in Putters(e) : v \notin Outside
          BY <2>3
      <3>2. Putters(e) \subseteq Outside \cup {v}
          BY <1>2, <3>1
      <3> QED BY <2>1, <3>2, OneMore
    <2> QED BY <2>2, <2>3
  <1>4. Cardinality(LateFor(e)) <= Cardinality(LateEvents)
    <2>1. LateFor(e) \in SUBSET LateEvents
        BY DEF LateFor, LateEvents
    <2> QED BY <1>1, <2>1, FiniteCounts, FS_Subset
  <1>5. /\ Cardinality(Putters(e)) \in Nat /\ Cardinality(LateFor(e)) \in Nat
        /\ Cardinality(Outside) \in Nat /\ Cardinality(LateEvents) \in Nat
      BY <1>1, FiniteCounts
  <1>6. faults["evict"] \in Nat /\ faults["stop"] \in Nat /\ faults["store"] \in Nat
      BY DEF IInv, TypeOK, FaultKind
  <1> QED BY <1>1, <1>3, <1>4, <1>5, <1>6 DEF Cost, Budget

\* A worker leaves the group in the middle of a batch by an eviction only.
LEMMA OutsideStep ==
    ASSUME IInv, Counts, [Next]_vars
    PROVE  Cardinality(Outside') <= faults'["evict"]
  <1>a. /\ IsFiniteSet(Outside) /\ Cardinality(Outside) \in Nat
        /\ Cardinality(Outside) <= faults["evict"]
      BY FiniteCounts DEF Counts
  <1>b. /\ faults["evict"] \in Nat /\ faults'["evict"] \in Nat
        /\ faults'["evict"] >= faults["evict"]
      BY FaultsGrow DEF IInv, FaultKind
  <1>1. ASSUME Outside' \subseteq Outside PROVE Cardinality(Outside') <= faults'["evict"]
    <2>1. IsFiniteSet(Outside') /\ Cardinality(Outside') <= Cardinality(Outside)
        BY <1>a, <1>1, FS_Subset
    <2>2. Cardinality(Outside') \in Nat
        BY <2>1, FS_CardinalityType
    <2> QED BY <1>a, <1>b, <2>1, <2>2
  <1>2. ASSUME NEW w \in Worker, Evict(w) PROVE Cardinality(Outside') <= faults'["evict"]
    <2>1. Outside' \subseteq Outside \cup {w}
        BY <1>2 DEF Evict, Outside, IInv, TypeOK
    <2>2. faults'["evict"] = faults["evict"] + 1
        BY <1>2 DEF Evict, Fault, IInv, TypeOK, FaultKind
    <2>3. Cardinality(Outside') \in Nat /\ Cardinality(Outside') <= Cardinality(Outside) + 1
        BY <1>a, <2>1, OneMore
    <2> QED BY <1>a, <1>b, <2>2, <2>3
  <1>3. CASE Rebalance
    <2>1. ASSUME NEW v \in Worker, ~joined'[v], pc'[v] \notin {"down", "poll"}
          PROVE  ~joined[v] /\ pc[v] = pc'[v]
        BY <1>3, <2>1 DEF Rebalance
    <2>2. Outside' \subseteq Outside
        BY <2>1 DEF Outside
    <2> QED BY <1>1, <2>2
  <1>4. ASSUME NEW w \in Worker, Step(w) \/ Start(w) \/ Disturb(w), ~Evict(w)
        PROVE  Outside' \subseteq Outside
    <2> SUFFICES ASSUME NEW v \in Worker, ~joined'[v], pc'[v] \notin {"down", "poll"}
                 PROVE  ~joined[v] /\ pc[v] \notin {"down", "poll"}
        BY DEF Outside
    <2>1. CASE v # w
      <3>1. Untouched(v)
          BY <1>4, <2>1, OthersUntouched DEF IInv
      <3> QED BY <3>1 DEF Untouched
    <2>2. CASE v = w
      <3>1. ~Escape(w) /\ ~Down(w)
          BY <2>2 DEF Escape, Down, IInv, TypeOK
      <3>2. ~Start(w)
          BY <2>2 DEF Start, Goto, IInv, TypeOK
      <3>3. joined' = joined
          BY <1>4, <3>1, <3>2 DEF Step, Poll, PollIdle, EndBatch, Commit, CommitFenced, TakeRecord,
                RejectInvalid, LookupFound, LookupAbsent, PutRead, PutWrite, PutConflict, Handled,
                PublishDeadLetter, DeadLetterInvalid, DeadLetterConflict, FailedAttempt, group, vars,
                Disturb, StoreFault, DeadLetterFault, CommitFault, Crash, Stop
      <3>4. ~Poll(w)
          BY <2>2, <3>3 DEF Poll
      <3>5. pc[w] \notin {"down", "poll"}
        <4>1. CASE Step(w)
            BY <2>2, <3>1, <3>4, <4>1 DEF Step, PollIdle, EndBatch, Commit, CommitFenced, TakeRecord,
                  RejectInvalid, LookupFound, LookupAbsent, PutRead, PutWrite, PutConflict,
                  PublishDeadLetter, DeadLetterInvalid, DeadLetterConflict, Goto, vars
        <4>2. CASE Disturb(w)
            BY <1>4, <2>2, <3>1, <4>2 DEF Disturb, StoreFault, DeadLetterFault, CommitFault, Crash,
                  Stop, Goto
        <4> QED BY <1>4, <3>2, <4>1, <4>2
      <3> QED BY <2>2, <3>3, <3>5
    <2> QED BY <2>1, <2>2
  <1>5. CASE UNCHANGED vars
    <2>1. Outside' = Outside
        BY <1>5 DEF Outside, vars, group
    <2> QED BY <1>1, <2>1
  <1>6. ASSUME NEW c \in late, LateRead(c) \/ LateWrite(c) PROVE Outside' \subseteq Outside
      BY <1>6 DEF LateRead, LateWrite, Outside, group
  <1> QED BY <1>1, <1>2, <1>3, <1>4, <1>5, <1>6 DEF Next

\* The puts left behind, each with the fault that left it.
LEMMA LateStep ==
    ASSUME IInv, Counts, [Next]_vars
    PROVE  /\ IsFiniteSet(late')
           /\ Cardinality(LateEvents') <= faults'["stop"] + faults'["store"]
  <1>a. /\ IsFiniteSet(late) /\ IsFiniteSet(LateEvents) /\ Cardinality(LateEvents) \in Nat
        /\ Cardinality(LateEvents) <= faults["stop"] + faults["store"]
      BY FiniteCounts DEF Counts
  <1>b. /\ faults["stop"] \in Nat /\ faults'["stop"] \in Nat
        /\ faults["store"] \in Nat /\ faults'["store"] \in Nat
        /\ faults'["stop"] >= faults["stop"] /\ faults'["store"] >= faults["store"]
      BY FaultsGrow DEF IInv, FaultKind
  <1>1. ASSUME LateEvents' \subseteq LateEvents
        PROVE  Cardinality(LateEvents') <= faults'["stop"] + faults'["store"]
    <2>1. IsFiniteSet(LateEvents') /\ Cardinality(LateEvents') <= Cardinality(LateEvents)
        BY <1>a, <1>1, FS_Subset
    <2>2. Cardinality(LateEvents') \in Nat
        BY <2>1, FS_CardinalityType
    <2> QED BY <1>a, <1>b, <2>1, <2>2
  <1>2. ASSUME late' = late
        PROVE  /\ IsFiniteSet(late')
               /\ Cardinality(LateEvents') <= faults'["stop"] + faults'["store"]
    <2>1. LateEvents' = LateEvents
        BY <1>2 DEF LateEvents
    <2> QED BY <1>1, <1>2, <1>a, <2>1
  <1>3. ASSUME NEW w \in Worker, NEW k \in {"stop", "store", "deadLetter"},
               Putting(w), late' = late \cup {LeftBehind(w, k)}, Fault(k),
               k = "deadLetter" => pc[w] = "deadWrite"
        PROVE  /\ IsFiniteSet(late')
               /\ Cardinality(LateEvents') <= faults'["stop"] + faults'["store"]
    <2>1. IsFiniteSet(late')
        BY <1>a, <1>3, FS_AddElement
    <2>2. CASE k = "deadLetter"
      <3>1. InHand(w) \in Rec
          BY <1>3, <2>2, InHandIsRecord DEF IInv, Busy
      <3>2. LeftBehind(w, k).key \notin EventId
          BY <1>3, <2>2, <3>1, DistinctKeys DEF LeftBehind, PutKey
      <3>3. LateEvents' \subseteq LateEvents
          BY <1>3, <3>2 DEF LateEvents
      <3> QED BY <1>1, <2>1, <3>3
    <2>3. CASE k # "deadLetter"
      <3>1. LateEvents' \subseteq LateEvents \cup {LeftBehind(w, k)}
          BY <1>3 DEF LateEvents
      <3>2. Cardinality(LateEvents') \in Nat /\ Cardinality(LateEvents') <= Cardinality(LateEvents) + 1
          BY <1>a, <3>1, OneMore
      <3>3. k \in FaultKind /\ faults'[k] = faults[k] + 1
          BY <1>3 DEF Fault, IInv, TypeOK, FaultKind
      <3>4. CASE k = "stop"
          BY <1>a, <1>b, <3>2, <3>3, <3>4, <2>1
      <3>5. CASE k = "store"
          BY <1>a, <1>b, <3>2, <3>3, <3>5, <2>1
      <3> QED BY <2>3, <3>4, <3>5
    <2> QED BY <2>2, <2>3
  <1>4. ASSUME NEW w \in Worker, Step(w) \/ Start(w) \/ Disturb(w)
        PROVE  /\ IsFiniteSet(late')
               /\ Cardinality(LateEvents') <= faults'["stop"] + faults'["store"]
      BY <1>2, <1>3, <1>4, LeavesBehind DEF IInv
  <1>5. ASSUME NEW c \in late, LateRead(c)
        PROVE  /\ IsFiniteSet(late')
               /\ Cardinality(LateEvents') <= faults'["stop"] + faults'["store"]
    <2> DEFINE d == [c EXCEPT !.at = "write", !.seen = version[c.key]]
    <2>1. c \in Call
        BY DEF IInv, TypeOK
    <2>2. d.key = c.key
        BY <2>1 DEF Call
    <2>3. late' = (late \ {c}) \cup {d}
        BY <1>5 DEF LateRead
    <2> HIDE DEF d
    <2>4. IsFiniteSet(late')
        BY <1>a, <2>3, FS_AddElement, FS_RemoveElement
    <2>5. CASE c.key \notin EventId
      <3>1. LateEvents' \subseteq LateEvents
          BY <2>2, <2>3, <2>5 DEF LateEvents
      <3> QED BY <1>1, <2>4, <3>1
    <2>6. CASE c.key \in EventId
      <3>1. c \in LateEvents
          BY <2>6 DEF LateEvents
      <3>2. LateEvents' \subseteq (LateEvents \ {c}) \cup {d}
          BY <2>3 DEF LateEvents
      <3>3. IsFiniteSet(LateEvents \ {c}) /\ Cardinality(LateEvents \ {c}) = Cardinality(LateEvents) - 1
          BY <1>a, <3>1, FS_RemoveElement
      <3>4. /\ Cardinality(LateEvents') \in Nat
            /\ Cardinality(LateEvents') <= Cardinality(LateEvents \ {c}) + 1
          BY <3>2, <3>3, OneMore
      <3> QED BY <1>a, <1>b, <2>4, <3>3, <3>4
    <2> QED BY <2>5, <2>6
  <1>6. ASSUME NEW c \in late, LateWrite(c)
        PROVE  /\ IsFiniteSet(late')
               /\ Cardinality(LateEvents') <= faults'["stop"] + faults'["store"]
    <2>1. IsFiniteSet(late')
        BY <1>a, <1>6, FS_RemoveElement DEF LateWrite
    <2>2. LateEvents' \subseteq LateEvents
        BY <1>6 DEF LateWrite, LateEvents
    <2> QED BY <1>1, <2>1, <2>2
  <1> QED BY <1>2, <1>4, <1>5, <1>6 DEF Next, Rebalance, store, vars

\* Once an event is stored its cost only moves from puts to writes.
LEMMA CostStep ==
    ASSUME IInv, Counts, [Next]_vars, NEW e \in EventId, version'[e] > 0
    PROVE  Cost(e)' <= Cost(e)
  <1> DEFINE P == Cardinality(Putters(e))
             L == Cardinality(LateFor(e))
  <1>a. /\ IsFiniteSet(late) /\ IsFiniteSet(Putters(e)) /\ P \in Nat
        /\ IsFiniteSet(LateFor(e)) /\ L \in Nat
      BY FiniteCounts DEF Counts
  <1>b. e \in Key /\ version[e] \in Nat /\ version \in [Key -> Nat]
      BY DEF IInv, TypeOK, Key
  <1>1. ASSUME version'[e] = version[e], Putters(e)' \subseteq Putters(e),
               LateFor(e)' \subseteq LateFor(e)
        PROVE  Cost(e)' <= Cost(e)
    <2>1. Cardinality(Putters(e)') <= P /\ IsFiniteSet(Putters(e)')
        BY <1>a, <1>1, FS_Subset
    <2>2. Cardinality(LateFor(e)') <= L /\ IsFiniteSet(LateFor(e)')
        BY <1>a, <1>1, FS_Subset
    <2>3. Cardinality(Putters(e)') \in Nat /\ Cardinality(LateFor(e)') \in Nat
        BY <2>1, <2>2, FS_CardinalityType
    <2> QED BY <1>1, <1>a, <1>b, <2>1, <2>2, <2>3 DEF Cost
  <1>2. ASSUME NEW w \in Worker, Step(w) \/ Start(w) \/ Disturb(w) PROVE Cost(e)' <= Cost(e)
    <2>1. CASE version' = version
      <3>1. Putters(e)' \subseteq Putters(e)
        <4>1. \A v \in Worker : v \in Putters(e)' => v \in Putters(e)
            BY <1>2, <1>b, <2>1, PuttersStep
        <4> QED BY <4>1 DEF Putters
      <3>2. CASE LateFor(e)' \subseteq LateFor(e)
          BY <1>1, <2>1, <3>1, <3>2
      <3>3. CASE ~(LateFor(e)' \subseteq LateFor(e))
        <4>1. late' # late
            BY <3>3 DEF LateFor
        <4>2. PICK k \in {"stop", "store", "deadLetter"} :
                    /\ Putting(w) /\ pc'[w] \notin {"read", "write"}
                    /\ late' = late \cup {LeftBehind(w, k)}
                    /\ k = "store" => pc[w] = "write"
                    /\ k = "deadLetter" => pc[w] = "deadWrite"
            BY <1>2, <4>1, LeavesBehind DEF IInv
        <4>3. PutKey(w) = e
            BY <3>3, <4>2 DEF LateFor, LeftBehind
        <4>4. pc[w] \in {"read", "write"}
          <5>1. CASE pc[w] \in {"deadRead", "deadWrite"}
            <6>1. InHand(w) \in Rec
                BY <5>1, InHandIsRecord DEF IInv, Busy
            <6> QED BY <4>3, <5>1, <6>1, DistinctKeys DEF PutKey
          <5> QED BY <4>2, <5>1 DEF Putting
        <4>5. w \in Putters(e)
            BY <4>3, <4>4 DEF Putters, PutKey
        <4>6. Putters(e)' \subseteq Putters(e) \ {w}
            BY <3>1, <4>2 DEF Putters
        <4>7. LateFor(e)' \subseteq LateFor(e) \cup {LeftBehind(w, k)}
            BY <4>2 DEF LateFor
        <4>8. Cardinality(Putters(e)') \in Nat /\ Cardinality(Putters(e)') + 1 <= P
            BY <1>a, <4>5, <4>6, OneLess
        <4>9. Cardinality(LateFor(e)') \in Nat /\ Cardinality(LateFor(e)') <= L + 1
            BY <1>a, <4>7, OneMore
        <4> QED BY <1>a, <1>b, <2>1, <4>8, <4>9 DEF Cost
      <3> QED BY <3>2, <3>3
    <2>2. CASE version' # version
      <3>1. /\ pc[w] \in {"write", "deadWrite"} /\ pc'[w] \notin {"read", "write"}
            /\ late' = late
            /\ version[PutKey(w)] = seen[w]
            /\ version' = [version EXCEPT ![PutKey(w)] = seen[w] + 1]
          BY <1>2, <2>2, Writes DEF IInv
      <3>2. Putters(e)' \subseteq Putters(e)
        <4>1. \A v \in Worker : v \in Putters(e)' => v \in Putters(e)
            BY <1>2, <2>2, PuttersStep
        <4> QED BY <4>1 DEF Putters
      <3>3. LateFor(e)' = LateFor(e)
          BY <3>1 DEF LateFor
      <3>4. CASE PutKey(w) # e
        <4>1. version'[e] = version[e]
            BY <1>b, <3>1, <3>4
        <4> QED BY <1>1, <3>2, <3>3, <4>1
      <3>5. CASE PutKey(w) = e
        <4>1. pc[w] = "write"
          <5>1. CASE pc[w] = "deadWrite"
            <6>1. InHand(w) \in Rec
                BY <5>1, InHandIsRecord DEF IInv, Busy
            <6> QED BY <3>5, <5>1, <6>1, DistinctKeys DEF PutKey
          <5> QED BY <3>1, <5>1
        <4>2. w \in Putters(e)
            BY <3>5, <4>1 DEF Putters, PutKey
        <4>3. Putters(e)' \subseteq Putters(e) \ {w}
            BY <3>1, <3>2 DEF Putters
        <4>4. Cardinality(Putters(e)') \in Nat /\ Cardinality(Putters(e)') + 1 <= P
            BY <1>a, <4>2, <4>3, OneLess
        <4>5. version'[e] = version[e] + 1
            BY <1>b, <3>1, <3>5
        <4>6. Cardinality(LateFor(e)') = L
            BY <3>3
        <4> QED BY <1>a, <1>b, <4>4, <4>5, <4>6 DEF Cost
      <3> QED BY <3>4, <3>5
    <2> QED BY <2>1, <2>2
  <1>3. ASSUME NEW c \in late, LateRead(c) PROVE Cost(e)' <= Cost(e)
    <2> DEFINE d == [c EXCEPT !.at = "write", !.seen = version[c.key]]
    <2>1. d.key = c.key
        BY DEF IInv, TypeOK, Call
    <2>2. late' = (late \ {c}) \cup {d}
        BY <1>3 DEF LateRead
    <2> HIDE DEF d
    <2>3. version' = version /\ Putters(e)' = Putters(e)
        BY <1>3 DEF LateRead, Putters, Content, Here, batch, memory
    <2>4. CASE c.key # e
      <3>1. LateFor(e)' \subseteq LateFor(e)
          BY <2>1, <2>2, <2>4 DEF LateFor
      <3> QED BY <1>1, <2>3, <3>1
    <2>5. CASE c.key = e
      <3>1. c \in LateFor(e)
          BY <2>5 DEF LateFor
      <3>2. LateFor(e)' \subseteq (LateFor(e) \ {c}) \cup {d}
          BY <2>2 DEF LateFor
      <3>3. IsFiniteSet(LateFor(e) \ {c}) /\ Cardinality(LateFor(e) \ {c}) = L - 1
          BY <1>a, <3>1, FS_RemoveElement
      <3>4. /\ Cardinality(LateFor(e)') \in Nat
            /\ Cardinality(LateFor(e)') <= Cardinality(LateFor(e) \ {c}) + 1
          BY <3>2, <3>3, OneMore
      <3>5. Cardinality(Putters(e)') = P
          BY <2>3
      <3> QED BY <1>a, <1>b, <2>3, <3>3, <3>4, <3>5 DEF Cost
    <2> QED BY <2>4, <2>5
  <1>4. ASSUME NEW c \in late, LateWrite(c) PROVE Cost(e)' <= Cost(e)
    <2>1. late' = late \ {c} /\ Putters(e)' = Putters(e)
        BY <1>4 DEF LateWrite, Putters, Content, Here, batch, memory
    <2>2. LateFor(e)' \subseteq LateFor(e)
        BY <2>1 DEF LateFor
    <2>3. CASE version'[e] = version[e]
        BY <1>1, <2>1, <2>2, <2>3
    <2>4. CASE version'[e] # version[e]
      <3>1. c.key = e /\ version'[e] = version[e] + 1
          BY <1>4, <1>b, <2>4 DEF LateWrite
      <3>2. c \in LateFor(e) /\ LateFor(e)' \subseteq LateFor(e) \ {c}
          BY <2>1, <3>1 DEF LateFor
      <3>3. Cardinality(LateFor(e)') \in Nat /\ Cardinality(LateFor(e)') + 1 <= L
          BY <1>a, <3>2, OneLess
      <3>4. Cardinality(Putters(e)') = P
          BY <2>1
      <3> QED BY <1>a, <1>b, <3>1, <3>3, <3>4 DEF Cost
    <2> QED BY <2>3, <2>4
  <1>5. CASE UNCHANGED vars \/ Rebalance
    <2>1. version' = version /\ late' = late
        BY <1>5 DEF Rebalance, store, vars
    <2>2. Putters(e)' \subseteq Putters(e)
      <3> SUFFICES ASSUME NEW v \in Worker, pc'[v] \in {"read", "write"}, Content(v)'.event = e
                   PROVE  v \in Putters(e)
          BY DEF Putters
      <3>1. pc' = pc /\ part' = part
          BY <1>5 DEF Rebalance, memory, vars
      <3>2. cursor'[v] = cursor[v]
          BY <1>5, <3>1 DEF Rebalance, batch, vars
      <3> QED BY <3>1, <3>2 DEF Putters, Content, Here
    <2>3. LateFor(e)' = LateFor(e)
        BY <2>1 DEF LateFor
    <2> QED BY <1>1, <2>1, <2>2, <2>3
  <1> QED BY <1>2, <1>3, <1>4, <1>5 DEF Next

\* The same of the next state.
LEMMA UnwrittenNext == (IInv /\ AtHome /\ Counts)' => Frugal'
    BY Unwritten, PTL

LEMMA CountableNow == Counts => Countable
    BY FiniteCounts DEF Counts, Countable

LEMMA CountableNext == Counts' => Countable'
    BY CountableNow, PTL

PaidInv == AtHome /\ Counts /\ Afforded

\* The counts hold of every behaviour.
LEMMA PaidAlways == Spec => []PaidInv
  <1>1. Init => PaidInv
    <2> SUFFICES ASSUME Init PROVE PaidInv
        OBVIOUS
    <2>1. AtHome
        BY DEF Init, AtHome
    <2>2. /\ late = {} /\ Outside = {} /\ LateEvents = {}
          /\ faults["evict"] = 0 /\ faults["stop"] = 0 /\ faults["store"] = 0
        BY DEF Init, Outside, LateEvents, FaultKind
    <2>3. Counts
        BY <2>2, FS_EmptySet DEF Counts
    <2>4. ASSUME NEW e \in EventId PROVE Cost(e) <= Budget
      <3>1. Putters(e) = {} /\ LateFor(e) = {} /\ version[e] = 0
          BY DEF Init, Putters, LateFor, Key
      <3> QED BY <2>2, <3>1, FS_EmptySet DEF Cost, Budget
    <2> QED BY <2>1, <2>3, <2>4 DEF PaidInv, Afforded
  <1>2. IInv /\ IInv' /\ PaidInv /\ [Next]_vars => PaidInv'
    <2> SUFFICES ASSUME IInv, IInv', PaidInv, [Next]_vars PROVE PaidInv'
        OBVIOUS
    <2>1. AtHome /\ Counts /\ Afforded
        BY DEF PaidInv
    <2>2. AtHome'
        BY <2>1, AtHomeStep
    <2>3. Counts'
        BY <2>1, OutsideStep, LateStep DEF Counts
    <2>4. ASSUME NEW e \in EventId, OneHome(e) PROVE Cost(e)' <= Budget'
      <3>1. CASE version'[e] = 0
        <4>1. Frugal' /\ OneHome(e)'
            BY <2>2, <2>3, <2>4, UnwrittenNext DEF OneHome, Homes
        <4> QED BY <3>1, <4>1 DEF Frugal
      <3>2. CASE version'[e] # 0
        <4>1. version'[e] > 0
            BY <3>2 DEF IInv, TypeOK, Key
        <4>2. Cost(e)' <= Cost(e)
            BY <2>1, <4>1, CostStep
        <4>3. Cost(e) <= Budget
            BY <2>1, <2>4 DEF Afforded
        <4>4. Budget \in Nat /\ Budget' \in Nat /\ Budget <= Budget'
          <5>1. \A k \in FaultKind : faults[k] \in Nat /\ faults'[k] \in Nat /\ faults'[k] >= faults[k]
              BY FaultsGrow DEF IInv
          <5> QED BY <5>1 DEF Budget, FaultKind
        <4>5. Cost(e) \in Nat /\ Cost(e)' \in Nat
          <5>1. Countable /\ Countable'
              BY <2>1, <2>3, CountableNow, CountableNext
          <5>2. version[e] \in Nat /\ version'[e] \in Nat
              BY DEF IInv, TypeOK, Key
          <5> QED BY <5>1, <5>2 DEF Countable, Cost
        <4> QED BY <4>2, <4>3, <4>4, <4>5
      <3> QED BY <3>1, <3>2
    <2>5. Afforded'
      <3>1. \A e \in EventId : OneHome(e)' => OneHome(e)
          BY DEF OneHome, Homes
      <3> QED BY <2>4, <3>1 DEF Afforded
    <2> QED BY <2>2, <2>3, <2>5 DEF PaidInv
  <1> QED BY <1>1, <1>2, Inductive, PTL DEF Spec

\* The item of an event of one partition is written once, and once more at most
\* for each eviction, each stop() and each failed call, whatever crashes, failed
\* commits, seeks and rebalances make the workers read again.
THEOREM WritesPaidFor == Spec => []WritesArePaidFor
  <1>1. IInv /\ PaidInv => WritesArePaidFor
    <2> SUFFICES ASSUME IInv, PaidInv, NEW e \in EventId, OneHome(e) PROVE version[e] <= Budget
        BY DEF WritesArePaidFor, Budget
    <2>1. Cost(e) <= Budget /\ IsFiniteSet(late)
        BY DEF PaidInv, Afforded, Counts
    <2>2. version[e] \in Nat /\ Budget \in Nat
        BY DEF IInv, TypeOK, Key, Budget, FaultKind
    <2>3. Cardinality(Putters(e)) \in Nat /\ Cardinality(LateFor(e)) \in Nat
        BY <2>1, FiniteCounts
    <2> QED BY <2>1, <2>2, <2>3 DEF Cost
  <1> QED BY <1>1, Inductive, PaidAlways, PTL

-----------------------------------------------------------------------------
(* Commits follow the store while _dead_letter does not raise.               *)

\* Nothing that could make it raise: what OrderlyCommitIsStored asks for.
Orderly ==
    /\ \A r \in Rec : Log[r[1]][r[2]].kind # "mistyped"
    /\ \A k \in {"deadLetter", "evict", "stop"} : faults[k] = 0

\* Then no batch was abandoned, no put of a dead letter was left behind, and the
\* version such a put read is still the current one when it writes.
DeadSeen ==
    /\ abandoned = {}
    /\ \A c \in late : c.key \in EventId
    /\ \A w \in Worker : pc[w] = "deadWrite" => version[InHand(w)] = seen[w]

OrderlyInv == Orderly => DeadSeen

LEMMA OrderlyBefore ==
    ASSUME IInv, [Next]_vars, Orderly'
    PROVE  /\ Orderly
           /\ \A w \in Worker : ~Stop(w) /\ ~Evict(w) /\ ~DeadLetterFault(w)
  <1>1. \A k \in {"deadLetter", "evict", "stop"} : faults[k] = 0 /\ faults'[k] = 0
    <2>1. \A k \in FaultKind : faults[k] \in Nat /\ faults'[k] >= faults[k]
        BY FaultsGrow DEF IInv
    <2> QED BY <2>1 DEF Orderly, FaultKind
  <1>2. ASSUME NEW k \in {"deadLetter", "evict", "stop"}, Fault(k) PROVE FALSE
    <2>1. faults'[k] = faults[k] + 1
        BY <1>2 DEF Fault, IInv, TypeOK, FaultKind
    <2> QED BY <1>1, <2>1
  <1>3. \A w \in Worker : ~Stop(w) /\ ~Evict(w) /\ ~DeadLetterFault(w)
      BY <1>2 DEF Stop, Evict, DeadLetterFault
  <1>4. \A r \in Rec : Log[r[1]][r[2]].kind # "mistyped"
      BY DEF Orderly
  <1> QED BY <1>1, <1>3, <1>4 DEF Orderly

\* No two workers record the same dead letter at a time.
LEMMA OneDeadLetter ==
    ASSUME IInv, AtHome, Counts, faults["evict"] = 0, NEW v \in Worker, NEW w \in Worker,
           pc[v] = "deadWrite", pc[w] = "deadWrite", InHand(v) = InHand(w)
    PROVE  v = w
  <1>1. Outside = {}
    <2>1. IsFiniteSet(Outside) /\ Cardinality(Outside) \in Nat /\ Cardinality(Outside) <= 0
        BY FiniteCounts DEF Counts
    <2>2. Cardinality(Outside) = 0
        BY <2>1
    <2> QED BY <2>1, <2>2, FS_EmptySet
  <1>2. joined[v] /\ joined[w]
      BY <1>1 DEF Outside
  <1>3. More(v, part[v]) /\ More(w, part[w]) /\ part[v] \in Partition /\ part[w] \in Partition
      BY DEF IInv, Bounds, Busy, TypeOK
  <1>4. part[v] = part[w]
      BY DEF InHand
  <1> QED BY <1>2, <1>3, <1>4 DEF AtHome

LEMMA OrderlyStep ==
    ASSUME IInv, AtHome, Counts, OrderlyInv, [Next]_vars, Orderly'
    PROVE  DeadSeen'
  <1>a. /\ Orderly /\ DeadSeen
        /\ \A w \in Worker : ~Stop(w) /\ ~Evict(w) /\ ~DeadLetterFault(w)
      BY OrderlyBefore DEF OrderlyInv
  <1>b. version \in [Key -> Nat] /\ faults["evict"] = 0
      BY <1>a DEF IInv, TypeOK, Orderly
  <1>1. ASSUME NEW w \in Worker PROVE ~DeadLetterInvalid(w) /\ ~DeadLetterConflict(w)
    <2>1. ~DeadLetterConflict(w)
        BY <1>a DEF DeadSeen, DeadLetterConflict, PutKey
    <2>2. ASSUME pc[w] = "publish" PROVE Content(w).kind # "mistyped"
      <3>1. InHand(w) \in Rec
          BY <2>2, InHandIsRecord DEF IInv, Busy
      <3>2. InHand(w)[1] = part[w] /\ InHand(w)[2] = Here(w)
          BY DEF InHand
      <3> QED BY <1>a, <3>1, <3>2 DEF Orderly, Content
    <2> QED BY <2>1, <2>2 DEF DeadLetterInvalid
  <1>2. abandoned' = {}
    <2>1. ASSUME NEW w \in Worker, Step(w) PROVE abandoned' = abandoned
        BY <1>1, <2>1 DEF Step, Poll, PollIdle, EndBatch, Commit, CommitFenced, TakeRecord,
              RejectInvalid, LookupFound, LookupAbsent, PutRead, PutWrite, PutConflict,
              PublishDeadLetter, FailedAttempt, vars
    <2>2. ASSUME NEW w \in Worker, Disturb(w) PROVE abandoned' = abandoned
        BY <1>a, <2>2 DEF Disturb, StoreFault, CommitFault, Crash, Down, FailedAttempt
    <2> QED BY <1>a, <2>1, <2>2 DEF DeadSeen, Next, Start, Rebalance, LateRead, LateWrite, vars
  <1>3. \A c \in late' : c.key \in EventId
    <2>1. ASSUME NEW w \in Worker, Step(w) \/ Start(w) \/ Disturb(w) PROVE \A c \in late' : c.key \in EventId
      <3>1. CASE late' = late
          BY <1>a, <3>1 DEF DeadSeen
      <3>2. CASE late' # late
        <4>1. PICK k \in {"stop", "store", "deadLetter"} :
                    /\ late' = late \cup {LeftBehind(w, k)} /\ Fault(k)
                    /\ k = "store" => pc[w] = "write"
            BY <2>1, <3>2, LeavesBehind DEF IInv
        <4>2. k = "store"
          <5>1. k \in FaultKind /\ faults'[k] = faults[k] + 1
              BY <4>1 DEF Fault, IInv, TypeOK, FaultKind
          <5>2. k # "store" => faults'[k] = 0 /\ faults[k] = 0
              BY <1>a DEF Orderly
          <5> QED BY <5>1, <5>2
        <4>3. LeftBehind(w, k).key \in EventId
            BY <4>1, <4>2, InHandIsRecord DEF IInv, Busy, LeftBehind, PutKey
        <4> QED BY <1>a, <4>1, <4>3 DEF DeadSeen
      <3> QED BY <3>1, <3>2
    <2>2. ASSUME NEW c \in late, LateRead(c) PROVE \A b \in late' : b.key \in EventId
      <3>1. [c EXCEPT !.at = "write", !.seen = version[c.key]].key = c.key
          BY DEF IInv, TypeOK, Call
      <3> QED BY <1>a, <2>2, <3>1 DEF LateRead, DeadSeen
    <2>3. ASSUME NEW c \in late, LateWrite(c) PROVE \A b \in late' : b.key \in EventId
        BY <1>a, <2>3 DEF LateWrite, DeadSeen
    <2> QED BY <1>a, <2>1, <2>2, <2>3 DEF DeadSeen, Next, Rebalance, store, vars
  <1>4. ASSUME NEW v \in Worker, pc'[v] = "deadWrite" PROVE version'[InHand(v)'] = seen'[v]
    <2>1. ASSUME Untouched(v), version'[InHand(v)] = version[InHand(v)]
          PROVE  version'[InHand(v)'] = seen'[v]
      <3>1. InHand(v)' = InHand(v) /\ pc[v] = "deadWrite" /\ seen'[v] = seen[v]
          BY <1>4, <2>1 DEF Untouched, InHand, Here
      <3> QED BY <1>a, <2>1, <3>1 DEF DeadSeen
    <2>2. CASE UNCHANGED vars
        BY <2>1, <2>2 DEF vars, group, store, batch, memory, Untouched
    <2>3. CASE Rebalance
      <3>1. pc[v] = "deadWrite" /\ v \notin {u \in Worker : pc[u] = "poll"}
          BY <1>4, <2>3 DEF Rebalance
      <3>2. /\ version' = version /\ seen' = seen
            /\ part' = part /\ cursor'[v] = cursor[v]
          BY <2>3, <3>1 DEF Rebalance, store, memory
      <3>3. InHand(v)' = InHand(v)
          BY <3>2 DEF InHand, Here
      <3> QED BY <1>a, <3>1, <3>2, <3>3 DEF DeadSeen
    <2>4. ASSUME NEW c \in late, LateRead(c) \/ LateWrite(c)
          PROVE  version'[InHand(v)'] = seen'[v]
      <3>1. Untouched(v) /\ InHand(v)' = InHand(v)
          BY <2>4 DEF LateRead, LateWrite, group, batch, memory, Untouched, InHand, Here
      <3>2. pc[v] = "deadWrite"
          BY <1>4, <3>1 DEF Untouched
      <3>3. InHand(v) \in Rec
          BY <3>2, InHandIsRecord DEF IInv, Busy
      <3>4. c.key # InHand(v)
          BY <1>a, <3>3, DistinctKeys DEF DeadSeen
      <3>5. version'[InHand(v)] = version[InHand(v)]
          BY <1>b, <2>4, <3>3, <3>4 DEF LateRead, LateWrite, Key
      <3> QED BY <2>1, <3>1, <3>5
    <2>5. ASSUME NEW w \in Worker, w # v, Step(w) \/ Start(w) \/ Disturb(w)
          PROVE  version'[InHand(v)'] = seen'[v]
      <3>1. Untouched(v)
          BY <2>5, OthersUntouched DEF IInv
      <3>2. pc[v] = "deadWrite" /\ InHand(v) \in Rec
          BY <1>4, <3>1, InHandIsRecord DEF Untouched, IInv, Busy
      <3>3. ASSUME pc[w] \in {"write", "deadWrite"} PROVE PutKey(w) # InHand(v)
        <4>1. CASE pc[w] = "write"
          <5>1. PutKey(w) \in EventId
              BY <4>1, InHandIsRecord DEF IInv, Busy, PutKey
          <5> QED BY <3>2, <5>1, DistinctKeys
        <4>2. CASE pc[w] = "deadWrite"
            BY <1>b, <2>5, <3>2, <4>2, OneDeadLetter DEF PutKey
        <4> QED BY <3>3, <4>1, <4>2
      <3>4. version'[InHand(v)] = version[InHand(v)]
          BY <1>b, <2>5, <3>2, <3>3, Writes DEF IInv, Key
      <3> QED BY <2>1, <3>1, <3>4
    <2>6. ASSUME Step(v) \/ Start(v) \/ Disturb(v) PROVE version'[InHand(v)'] = seen'[v]
      <3>1. ~FailedAttempt(v) /\ ~Handled(v) /\ ~Escape(v) /\ ~Down(v)
          BY <1>4 DEF FailedAttempt, RetryLater, GiveUp, Handled, Escape, Down, IInv, TypeOK
      <3>2. PutRead(v)
        <4>1. CASE Step(v)
            BY <1>4, <3>1, <4>1 DEF Step, Poll, PollIdle, EndBatch, Commit, CommitFenced,
                  TakeRecord, RejectInvalid, LookupFound, LookupAbsent, PutWrite, PutConflict,
                  PublishDeadLetter, DeadLetterInvalid, DeadLetterConflict, Goto, IInv, TypeOK, vars
        <4>2. CASE Start(v) \/ Disturb(v)
            BY <1>4, <1>a, <3>1, <4>2 DEF Start, Disturb, StoreFault, CommitFault, Crash, Goto, IInv,
                  TypeOK
        <4> QED BY <2>6, <4>1, <4>2
      <3>3. pc[v] = "deadRead"
          BY <1>4, <3>2 DEF PutRead, Goto, IInv, TypeOK
      <3>4. /\ InHand(v)' = InHand(v) /\ version' = version
            /\ seen'[v] = version[PutKey(v)] /\ PutKey(v) = InHand(v)
          BY <3>2, <3>3 DEF PutRead, PutKey, InHand, Here, store, batch, IInv, TypeOK
      <3> QED BY <3>4
    <2> QED BY <2>2, <2>3, <2>4, <2>5, <2>6 DEF Next
  <1> QED BY <1>2, <1>3, <1>4 DEF DeadSeen

\* Offsets are committed only after the processing record is stored, as
\* docs/architecture.md has it, through crashes, failing calls of process_record,
\* failing commits, seeks and rebalances, while nothing makes _dead_letter raise.
THEOREM OrderlyCommits == Spec => []OrderlyCommitIsStored
  <1>1. Init => OrderlyInv
      BY DEF Init, OrderlyInv, DeadSeen
  <1>2. IInv /\ PaidInv /\ OrderlyInv /\ [Next]_vars => OrderlyInv'
      BY OrderlyStep DEF OrderlyInv, PaidInv
  <1>3. IInv /\ OrderlyInv => OrderlyCommitIsStored
      BY DEF IInv, OrderlyInv, Orderly, DeadSeen, OrderlyCommitIsStored, CommittedIsAccountedFor,
         CommittedIsStored
  <1> QED BY <1>1, <1>2, <1>3, Inductive, PaidAlways, PTL DEF Spec
============================================================================
