-------------------------- MODULE KafkaEventWorker --------------------------
(***************************************************************************)
(* The Kafka consumer of services/event_worker/app/main.py.  Every worker  *)
(* process runs one _poll loop: it polls its partitions, processes the     *)
(* records of each partition in offset order, seeks back to a record whose *)
(* processing failed, dead-letters it after max_processing_attempts        *)
(* failures, and commits its positions when the whole batch was handled.   *)
(* A step is what happens between two calls that leave the process (the    *)
(* store, the broker); steps of different workers interleave freely.       *)
(*                                                                         *)
(* Offsets start at 1, so position, cursor and committed hold the NEXT     *)
(* offset to read.  The partition logs are constants: a poll may return    *)
(* any prefix of what is left, which covers every arrival order of the     *)
(* producers.                                                              *)
(*                                                                         *)
(* A call to the store runs in a thread of run_in_threadpool.  Whoever     *)
(* waits for it may be gone before it ends: stop() cancels the await and   *)
(* not the thread, and a request that timed out may still be on its way.   *)
(* Such puts are in "late", and take their steps whenever they like.       *)
(***************************************************************************)
EXTENDS Naturals, Sequences, FiniteSets

CONSTANTS
    Worker,       \* worker processes of the consumer group (pods)
    Partition,    \* partitions of the domain topics
    Log,          \* Log[p]: the records of p, [event |-> id, kind |-> ...]
    EventId,      \* event_ids the producers use
    MaxAttempts,  \* max_processing_attempts, at least 1
    FaultBound,   \* how often the kinds of fault may strike, one with another
    NoOne         \* owner of a partition before the first rebalance

\* What a record's value is: an event; JSON that is no EventEnvelope; the same
\* with an event_id that is neither a string nor null; or no JSON at all.
Kind  == {"valid", "invalid", "mistyped", "undecodable"}
FaultKind == {"crash", "stop", "evict", "store", "deadLetter", "commit"}

ASSUME KafkaAssumption ==
    /\ IsFiniteSet(Worker)
    /\ Partition # {}
    /\ MaxAttempts \in Nat \ {0}
    /\ Log \in [Partition -> Seq([event : EventId, kind : Kind])]
    /\ FaultBound \subseteq [FaultKind -> Nat]

\* The records, named by where they are: partition and offset.
Rec == UNION {{p} \X (1..Len(Log[p])) : p \in Partition}

\* The ids of dead letters, "dlq-topic-part-offset", are no event_ids.
ASSUME DistinctKeys == EventId \cap Rec = {}

\* The positions a consumer can hold: one past the last record included.
Position == UNION {1..(Len(Log[p]) + 1) : p \in Partition}
\* Ids of processed_event items: an event's own id, or "dlq-topic-part-offset".
Key == EventId \cup Rec
\* A put nobody waits for: the item it writes, whether it has read the version,
\* the version it read, and the fault that left it behind, which tells it apart.
Call == [key : Key, at : {"read", "write"}, seen : Nat, by : FaultKind \X Nat]

VARIABLES
    committed,  \* committed[p]: the group's committed offset
    owner,      \* owner[p]: the member p was assigned to by the last rebalance
    joined,     \* joined[w]: w is a member of the current generation
    version,    \* version[k]: version of the processed_event item k, 0 if absent
    dlq,        \* dlq[r]: how many messages about record r the DLQ topic holds
    late,       \* puts that go on although nobody waits for them
    pc,         \* pc[w]: where w's _poll loop is
    part,       \* part[w]: the partition of the batch being iterated
    cursor,     \* cursor[w][p]: next record of p in the polled batch
    position,   \* position[w][p]: the consumer's fetch position
    attempts,   \* attempts[w][r]: _attempts, in the memory of w
    progress,   \* progress[w]: processed_any
    failed,     \* failed[w]: batch_failed
    seen,       \* seen[w]: the version read by a put under way
    faults,     \* faults[k]: faults of kind k so far
    abandoned   \* records of batches an escaping exception ended (history)

group  == <<committed, owner, joined>>
store  == <<version, dlq, late>>
batch  == <<cursor, position, progress, failed>>
memory == <<part, attempts, seen>>
vars   == <<group, store, batch, memory, pc, faults, abandoned>>

-----------------------------------------------------------------------------
(* The record in hand and what surrounds it.                               *)

Here(w)    == cursor[w][part[w]]
InHand(w)  == <<part[w], Here(w)>>
Content(w) == Log[part[w]][Here(w)]
\* The item a put writes: the event's, or the one that records a dead letter.
PutKey(w)  == IF pc[w] \in {"deadRead", "deadWrite"} THEN InHand(w)
                                                     ELSE Content(w).event

\* The put w is waiting for, as it goes on when fault k ends the wait.
Putting(w) == pc[w] \in {"read", "write", "deadRead", "deadWrite"}
LeftBehind(w, k) ==
    [key |-> PutKey(w), at |-> IF pc[w] \in {"read", "deadRead"} THEN "read" ELSE "write",
     seen |-> seen[w], by |-> <<k, faults[k]>>]

\* Records polled and not handled yet; those of one partition.
Remaining(w) == {r \in Rec : cursor[w][r[1]] <= r[2] /\ r[2] < position[w][r[1]]}
More(w, p)   == cursor[w][p] < position[w][p]

\* A record is settled once an item of processed_event accounts for it.
Settled(r) == \/ version[r] > 0
              \/ /\ Log[r[1]][r[2]].kind = "valid"
                 /\ version[Log[r[1]][r[2]].event] > 0

Goto(w, from, to) == /\ pc[w] = from
                     /\ pc' = [pc EXCEPT ![w] = to]

Fault(k) == /\ faults' = [faults EXCEPT ![k] = @ + 1]
            /\ faults' \in FaultBound

Init ==
    /\ committed = [p \in Partition |-> 1]
    /\ owner = [p \in Partition |-> NoOne]
    /\ joined = [w \in Worker |-> FALSE]
    /\ version = [k \in Key |-> 0]
    /\ dlq = [r \in Rec |-> 0]
    /\ late = {}
    /\ pc = [w \in Worker |-> "down"]
    /\ part = [w \in Worker |-> CHOOSE p \in Partition : TRUE]
    /\ cursor = [w \in Worker |-> [p \in Partition |-> 1]]
    /\ position = cursor
    /\ attempts = [w \in Worker |-> [r \in Rec |-> 0]]
    /\ progress = [w \in Worker |-> FALSE]
    /\ failed = [w \in Worker |-> FALSE]
    /\ seen = [w \in Worker |-> 0]
    /\ faults = [k \in FaultKind |-> 0]
    /\ abandoned = {}

-----------------------------------------------------------------------------
(* How process_record_with_retry ends.                                     *)

\* return True: the attempts are forgotten and the batch moves on.
Handled(w) ==
    /\ pc' = [pc EXCEPT ![w] = "batch"]
    /\ attempts' = [attempts EXCEPT ![w][InHand(w)] = 0]
    /\ cursor' = [cursor EXCEPT ![w][part[w]] = @ + 1]
    /\ progress' = [progress EXCEPT ![w] = TRUE]
    /\ UNCHANGED <<position, failed, part>>

\* return False: _poll seeks to the record and leaves this partition's loop.
RetryLaterOneBack(w) == \* defect: the seek is off by one
    /\ attempts[w][InHand(w)] + 1 < MaxAttempts
    /\ pc' = [pc EXCEPT ![w] = "batch"]
    /\ position' = [position EXCEPT ![w][part[w]] = Here(w) - 1]
    /\ failed' = [failed EXCEPT ![w] = TRUE]

RetryLater(w) ==
    /\ attempts[w][InHand(w)] + 1 < MaxAttempts
    /\ pc' = [pc EXCEPT ![w] = "batch"]
    /\ position' = [position EXCEPT ![w][part[w]] = Here(w)]
    /\ failed' = [failed EXCEPT ![w] = TRUE]

\* The last attempt failed: on to _dead_letter.
GiveUpEarly(w) == \* defect: one attempt too few
    /\ attempts[w][InHand(w)] + 2 >= MaxAttempts
    /\ pc' = [pc EXCEPT ![w] = "publish"]
    /\ UNCHANGED <<position, failed>>

GiveUp(w) ==
    /\ attempts[w][InHand(w)] + 1 >= MaxAttempts
    /\ pc' = [pc EXCEPT ![w] = "publish"]
    /\ UNCHANGED <<position, failed>>

FailedAttemptSkips(w) == \* defect: a failed record is not seeked back to
    /\ attempts' = [attempts EXCEPT ![w][InHand(w)] = @ + 1]
    /\ pc' = [pc EXCEPT ![w] = "batch"]
    /\ cursor' = [cursor EXCEPT ![w][part[w]] = position[w][part[w]]]
    /\ failed' = [failed EXCEPT ![w] = TRUE]
    /\ seen' = [seen EXCEPT ![w] = 0]
    /\ UNCHANGED <<group, position, progress, part, abandoned>>

FailedAttemptUncounted(w) == \* defect: the failure is not counted
    /\ RetryLater(w) \/ GiveUp(w)
    /\ seen' = [seen EXCEPT ![w] = 0]
    /\ UNCHANGED <<group, cursor, progress, part, abandoned, attempts>>

FailedAttempt(w) ==
    /\ attempts' = [attempts EXCEPT ![w][InHand(w)] = @ + 1]
    /\ RetryLater(w) \/ GiveUp(w)
    /\ seen' = [seen EXCEPT ![w] = 0]
    /\ UNCHANGED <<group, cursor, progress, part, abandoned>>

\* _dead_letter raised: nobody seeks, _poll's except clause only sleeps, and
\* the next poll goes on from the position after the polled batch.
Escape(w) ==
    /\ pc' = [pc EXCEPT ![w] = "poll"]
    /\ cursor' = [cursor EXCEPT ![w] = position[w]]
    /\ progress' = [progress EXCEPT ![w] = FALSE]
    /\ failed' = [failed EXCEPT ![w] = FALSE]
    /\ seen' = [seen EXCEPT ![w] = 0]
    /\ abandoned' = abandoned \cup Remaining(w)
    /\ UNCHANGED <<group, position, part, attempts>>

-----------------------------------------------------------------------------
(* The steps of _poll.                                                     *)

\* The positions a poll can move w to: forward in its partitions, over records
\* whose value json.loads accepts.  A poll that meets another value raises and
\* moves nothing.
Fetchable(w) ==
    {next \in [Partition -> Position] :
        /\ next # position[w]
        /\ \A p \in Partition :
            /\ next[p] \in position[w][p]..(Len(Log[p]) + 1)
            /\ owner[p] = w \/ next[p] = position[w][p]
            /\ \A o \in position[w][p]..(next[p] - 1) :
                Log[p][o].kind # "undecodable"}

\* consumer.poll returns records.
PollAutoCommits(w) == \* defect: offsets are committed when they are polled
    /\ Goto(w, "poll", "batch")
    /\ joined[w]
    /\ \E next \in Fetchable(w) : /\ position' = [position EXCEPT ![w] = next]
                                 /\ committed' = [p \in Partition |->
                                        IF owner[p] = w THEN next[p] ELSE committed[p]]
    /\ UNCHANGED <<owner, joined, store, memory, cursor, progress, failed, faults, abandoned>>

Poll(w) ==
    /\ Goto(w, "poll", "batch")
    /\ joined[w]
    /\ \E next \in Fetchable(w) : position' = [position EXCEPT ![w] = next]
    /\ UNCHANGED <<group, store, memory, cursor, progress, failed, faults, abandoned>>

\* consumer.poll returns nothing, or raises on a value it cannot decode.
PollIdle(w) ==
    /\ pc[w] = "poll" /\ joined[w]
    /\ Fetchable(w) = {}
    /\ UNCHANGED vars

\* The next record of the partition being iterated, or the first of another one.
TakeRecord(w, p) ==
    /\ Goto(w, "batch", "lookup")
    /\ More(w, p)
    /\ p = part[w] \/ ~More(w, part[w])
    /\ part' = [part EXCEPT ![w] = p]
    /\ UNCHANGED <<group, store, batch, attempts, seen, faults, abandoned>>

\* EventEnvelope.model_validate raises.
RejectInvalid(w) ==
    /\ pc[w] = "lookup"
    /\ Content(w).kind \in {"invalid", "mistyped"}
    /\ FailedAttempt(w)
    /\ UNCHANGED <<store, faults>>

\* repository.get finds the event_id: a duplicate, nothing is written.
LookupFound(w) ==
    /\ pc[w] = "lookup"
    /\ Content(w).kind = "valid"
    /\ version[PutKey(w)] > 0
    /\ Handled(w)
    /\ UNCHANGED <<group, store, seen, faults, abandoned>>

\* repository.get finds nothing: on to repository.put.
LookupIgnored(w) == \* defect: the result of the lookup is not used
    /\ Goto(w, "lookup", "read")
    /\ Content(w).kind = "valid"
    /\ UNCHANGED <<group, store, batch, memory, faults, abandoned>>

LookupAbsent(w) ==
    /\ Goto(w, "lookup", "read")
    /\ Content(w).kind = "valid"
    /\ version[PutKey(w)] = 0
    /\ UNCHANGED <<group, store, batch, memory, faults, abandoned>>

\* DynamoRepository.put reads the version it will compare against.
PutRead(w) ==
    /\ \/ Goto(w, "read", "write")
       \/ Goto(w, "deadRead", "deadWrite")
    /\ seen' = [seen EXCEPT ![w] = version[PutKey(w)]]
    /\ UNCHANGED <<group, store, batch, part, attempts, faults, abandoned>>

\* ... and writes the item if that version is still the current one.
PutWrite(w) ==
    /\ pc[w] \in {"write", "deadWrite"}
    /\ version[PutKey(w)] = seen[w]
    /\ version' = [version EXCEPT ![PutKey(w)] = seen[w] + 1]
    /\ Handled(w)
    /\ seen' = [seen EXCEPT ![w] = 0]
    /\ UNCHANGED <<group, dlq, late, faults, abandoned>>

\* ConcurrentUpdateError while storing the event: one more failed attempt.
PutConflict(w) ==
    /\ pc[w] = "write"
    /\ version[PutKey(w)] # seen[w]
    /\ FailedAttempt(w)
    /\ UNCHANGED <<store, faults>>

\* ConcurrentUpdateError while recording a dead letter leaves _dead_letter.
DeadLetterConflict(w) ==
    /\ pc[w] = "deadWrite"
    /\ version[PutKey(w)] # seen[w]
    /\ Escape(w)
    /\ UNCHANGED <<store, faults>>

\* _publish_dead_letter: the broker acknowledges the DLQ message.
PublishDeadLetter(w) ==
    /\ Goto(w, "publish", "deadRead")
    /\ Content(w).kind # "mistyped"
    /\ dlq' = [dlq EXCEPT ![InHand(w)] = @ + 1]
    /\ UNCHANGED <<group, version, late, batch, memory, faults, abandoned>>

\* The DLQ message cannot be built: its causation_id is the record's event_id,
\* which EventEnvelope wants to be a string.  The exception leaves _dead_letter.
DeadLetterInvalid(w) ==
    /\ pc[w] = "publish"
    /\ Content(w).kind = "mistyped"
    /\ Escape(w)
    /\ UNCHANGED <<store, faults>>

\* The batch is done: commit, or sleep and poll again.
EndBatchStaleFailure(w) == \* defect: batch_failed is not reset for the next batch
    /\ pc[w] = "batch"
    /\ \A p \in Partition : ~More(w, p)
    /\ pc' = [pc EXCEPT ![w] = IF progress[w] /\ ~failed[w] THEN "commit" ELSE "poll"]
    /\ progress' = [progress EXCEPT ![w] = FALSE]
    /\ UNCHANGED <<group, store, memory, cursor, position, failed, faults, abandoned>>

EndBatch(w) ==
    /\ pc[w] = "batch"
    /\ \A p \in Partition : ~More(w, p)
    /\ pc' = [pc EXCEPT ![w] = IF progress[w] /\ ~failed[w] THEN "commit" ELSE "poll"]
    /\ progress' = [progress EXCEPT ![w] = FALSE]
    /\ failed' = [failed EXCEPT ![w] = FALSE]
    /\ UNCHANGED <<group, store, memory, cursor, position, faults, abandoned>>

\* consumer.commit() stores the positions of every partition w was assigned.
CommitUnfenced(w) == \* defect: offsets are written whatever the generation
    /\ Goto(w, "commit", "poll")
    /\ committed' = position[w]
    /\ UNCHANGED <<owner, joined, store, batch, memory, faults, abandoned>>

Commit(w) ==
    /\ Goto(w, "commit", "poll")
    /\ joined[w]
    /\ committed' = [p \in Partition |-> IF owner[p] = w THEN position[w][p]
                                                         ELSE committed[p]]
    /\ UNCHANGED <<owner, joined, store, batch, memory, faults, abandoned>>

\* The broker refuses the commit of a worker that left the generation.
CommitFenced(w) ==
    /\ Goto(w, "commit", "poll")
    /\ ~joined[w]
    /\ UNCHANGED <<group, store, batch, memory, faults, abandoned>>

-----------------------------------------------------------------------------
(* Faults, as many as FaultBound allows.                                   *)

\* The write of the put w waits for is applied, or is still on its way (where
\* it may stay for ever) when w stops waiting.
AppliedOrLate(w, k) ==
    \/ /\ version[PutKey(w)] = seen[w]
       /\ version' = [version EXCEPT ![PutKey(w)] = seen[w] + 1]
       /\ UNCHANGED late
    \/ /\ late' = late \cup {LeftBehind(w, k)}
       /\ UNCHANGED version

\* A call to the store fails or times out.
StoreFault(w) ==
    /\ pc[w] \in {"lookup", "read", "write"}
    /\ Content(w).kind = "valid"
    /\ Fault("store")
    /\ \/ pc[w] # "write" /\ UNCHANGED <<version, late>>
       \/ pc[w] = "write" /\ AppliedOrLate(w, "store")
    /\ FailedAttempt(w)
    /\ UNCHANGED dlq

\* The same for the calls of _dead_letter: the exception leaves it.  The DLQ
\* message may be in the topic all the same.
DeadLetterFault(w) ==
    /\ \/ pc[w] = "publish" /\ Content(w).kind # "mistyped"
       \/ pc[w] \in {"deadRead", "deadWrite"}
    /\ Fault("deadLetter")
    /\ \/ pc[w] # "deadWrite" /\ UNCHANGED store
       \/ /\ pc[w] = "publish"
          /\ dlq' = [dlq EXCEPT ![InHand(w)] = @ + 1]
          /\ UNCHANGED <<version, late>>
       \/ /\ pc[w] = "deadWrite" /\ AppliedOrLate(w, "deadLetter")
          /\ UNCHANGED dlq
    /\ Escape(w)

\* consumer.commit() raises; the positions stay where they are.
CommitFault(w) ==
    /\ Goto(w, "commit", "poll")
    /\ Fault("commit")
    /\ UNCHANGED <<group, store, batch, memory, abandoned>>

\* The loop of w ends: its memory and its membership are gone.
Down(w) ==
    /\ pc[w] # "down"
    /\ pc' = [pc EXCEPT ![w] = "down"]
    /\ joined' = [joined EXCEPT ![w] = FALSE]
    /\ cursor' = [cursor EXCEPT ![w] = [p \in Partition |-> 1]]
    /\ position' = [position EXCEPT ![w] = [p \in Partition |-> 1]]
    /\ attempts' = [attempts EXCEPT ![w] = [r \in Rec |-> 0]]
    /\ progress' = [progress EXCEPT ![w] = FALSE]
    /\ failed' = [failed EXCEPT ![w] = FALSE]
    /\ seen' = [seen EXCEPT ![w] = 0]
    /\ UNCHANGED <<committed, owner, version, dlq, part, abandoned>>

\* The process dies.  The coordinator notices when the session times out, long
\* after a request of the dead process was applied or lost.
Crash(w) ==
    /\ Down(w)
    /\ Fault("crash")
    /\ UNCHANGED late

\* stop() cancels the loop and closes the consumer, which leaves the group at
\* once; the thread of a put under way goes on.
Stop(w) ==
    /\ Down(w)
    /\ Fault("stop")
    /\ late' = IF Putting(w) THEN late \cup {LeftBehind(w, "stop")} ELSE late

\* start(): a new consumer and a new _poll task.
Start(w) ==
    /\ Goto(w, "down", "poll")
    /\ UNCHANGED <<group, store, batch, memory, faults, abandoned>>

\* The coordinator drops a member whose heartbeats or polls came too late; the
\* worker itself notices at its next commit or poll.
Evict(w) ==
    /\ joined[w]
    /\ Fault("evict")
    /\ joined' = [joined EXCEPT ![w] = FALSE]
    /\ UNCHANGED <<committed, owner, store, batch, memory, pc, abandoned>>

\* A new generation: it waits until every member is inside poll(), shares the
\* partitions among the workers there, and has each start from the committed
\* offsets.
Rebalance ==
    LET members == {w \in Worker : pc[w] = "poll"} IN
    /\ members # {}
    /\ \A w \in Worker : joined[w] => w \in members
    /\ \/ \E w \in members : ~joined[w]
       \/ \E p \in Partition : owner[p] \notin members
    /\ owner' \in [Partition -> members]
    /\ joined' = [w \in Worker |-> w \in members]
    /\ cursor' = [w \in Worker |-> IF w \in members THEN committed ELSE cursor[w]]
    /\ position' = [w \in Worker |-> IF w \in members THEN committed ELSE position[w]]
    /\ UNCHANGED <<committed, store, memory, pc, progress, failed, faults, abandoned>>

-----------------------------------------------------------------------------
(* The puts left behind.                                                   *)

\* One reads the version it will compare against.
LateRead(c) ==
    /\ c.at = "read"
    /\ late' = (late \ {c}) \cup {[c EXCEPT !.at = "write", !.seen = version[c.key]]}
    /\ UNCHANGED <<group, version, dlq, batch, memory, pc, faults, abandoned>>

\* ... and writes, or is refused; nobody hears of it.
LateWrite(c) ==
    /\ c.at = "write"
    /\ late' = late \ {c}
    /\ version' = [version EXCEPT ![c.key] = IF @ = c.seen THEN @ + 1 ELSE @]
    /\ UNCHANGED <<group, dlq, batch, memory, pc, faults, abandoned>>

-----------------------------------------------------------------------------
Step(w) ==
    \/ Poll(w) \/ PollIdle(w) \/ EndBatch(w) \/ Commit(w) \/ CommitFenced(w)
    \/ \E p \in Partition : TakeRecord(w, p)
    \/ RejectInvalid(w) \/ LookupFound(w) \/ LookupAbsent(w)
    \/ PutRead(w) \/ PutWrite(w) \/ PutConflict(w)
    \/ PublishDeadLetter(w) \/ DeadLetterInvalid(w) \/ DeadLetterConflict(w)

Disturb(w) ==
    StoreFault(w) \/ DeadLetterFault(w) \/ CommitFault(w) \/ Crash(w) \/ Stop(w) \/ Evict(w)

Next ==
    \/ Rebalance
    \/ \E w \in Worker : Step(w) \/ Start(w) \/ Disturb(w)
    \/ \E c \in late : LateRead(c) \/ LateWrite(c)

\* The loop of a live process keeps running, Kubernetes restarts a dead one,
\* and the coordinator completes a rebalance its members wait for.
Fairness ==
    /\ WF_vars(Rebalance)
    /\ \A w \in Worker : WF_vars(Step(w)) /\ WF_vars(Start(w))

Spec == Init /\ [][Next]_vars
LiveSpec == Spec /\ Fairness

-----------------------------------------------------------------------------
\* Every variable has its type.
TypeOK ==
    /\ committed \in [Partition -> Nat \ {0}]
    /\ owner \in [Partition -> Worker \cup {NoOne}]
    /\ joined \in [Worker -> BOOLEAN]
    /\ version \in [Key -> Nat]
    /\ dlq \in [Rec -> Nat]
    /\ late \subseteq Call
    /\ pc \in [Worker -> {"down", "poll", "batch", "lookup", "read", "write",
                          "publish", "deadRead", "deadWrite", "commit"}]
    /\ part \in [Worker -> Partition]
    /\ cursor \in [Worker -> [Partition -> Nat \ {0}]]
    /\ position \in [Worker -> [Partition -> Nat \ {0}]]
    /\ attempts \in [Worker -> [Rec -> Nat]]
    /\ progress \in [Worker -> BOOLEAN]
    /\ failed \in [Worker -> BOOLEAN]
    /\ seen \in [Worker -> Nat]
    /\ faults \in [FaultKind -> Nat]
    /\ abandoned \subseteq Rec

\* A committed offset accounts for everything below it: each record was stored
\* in processed_event (as processed or dead-lettered) before consumer.commit()
\* covered it, or it was in a batch that an exception of _dead_letter ended.
CommittedIsAccountedFor ==
    \A r \in Rec : r[2] < committed[r[1]] => Settled(r) \/ r \in abandoned

\* The promise of docs/architecture.md: offsets are committed only after the
\* processing record is stored.
CommittedIsStored ==
    \A r \in Rec : r[2] < committed[r[1]] => Settled(r)

\* What remains of that promise: it is kept through crashes, failing calls of
\* process_record, failing commits, seeks and rebalances, as long as nothing
\* makes _dead_letter raise: an event_id it cannot pass on, a call of its own
\* that fails, or (after an eviction or a stop()) another put of the same item.
OrderlyCommitIsStored ==
    /\ \A r \in Rec : Log[r[1]][r[2]].kind # "mistyped"
    /\ \A k \in {"deadLetter", "evict", "stop"} : faults[k] = 0
    => CommittedIsStored

\* The consumer keeps the order of a partition: while _poll works on a record
\* every earlier record of the partition is settled or was abandoned, whatever
\* retries, seeks and rebalances came before.
PartitionOrder ==
    \A w \in Worker : pc[w] \notin {"down", "poll", "batch", "commit"} =>
        \A r \in Rec : r[1] = part[w] /\ r[2] < Here(w) => Settled(r) \/ r \in abandoned

\* No commit moves the group's offset back, although workers that were evicted
\* or restarted still hold old positions.
CommitMonotone ==
    [][\A p \in Partition : committed'[p] >= committed[p]]_vars

\* A message reaches the DLQ only for a record whose processing failed
\* MaxAttempts times in the worker that sends it.
DeadLetterAfterMaxAttempts ==
    [][\A r \in Rec : dlq'[r] > dlq[r] =>
        \E w \in Worker : attempts[w][r] >= MaxAttempts]_vars

\* The partitions that hold event e: its producer's retries go to the same one.
Homes(e) == {p \in Partition :
                \E o \in 1..Len(Log[p]) : Log[p][o].event = e /\ Log[p][o].kind = "valid"}

OneHome(e) == \A p, q \in Homes(e) : p = q

\* A replayed event is skipped (the promise of docs/architecture.md), so that the
\* item of an event of one partition is written once: a crash, a failed commit,
\* a seek or a rebalance makes the worker read it again and never writes it
\* again.  What may write it again is a put that runs beside another one, and
\* there is one such put at most for each eviction, each stop() and each failed
\* call: put compares with whatever version it finds.
WritesArePaidFor ==
    \A e \in EventId : OneHome(e) =>
        version[e] <= 1 + faults["evict"] + faults["stop"] + faults["store"]

\* Every value of the topics is JSON.
Decodable == \A r \in Rec : Log[r[1]][r[2]].kind # "undecodable"

\* Every record is eventually settled, unless an exception of _dead_letter ended
\* its batch: a poison record, a crash, a failed call or a rebalance delays a
\* partition and never blocks it.  A value json.loads refuses does: it makes
\* every poll that meets it raise.
EveryRecordSettled ==
    Decodable => \A r \in Rec : <>(Settled(r) \/ r \in abandoned)

\* ... and the group's offsets reach the end of every partition.  They wait for
\* the next record where nothing is left to poll and the last commit failed or
\* the last batch of a partition was abandoned: _poll commits only after a batch.
EveryRecordCommitted ==
    Decodable => \A p \in Partition :
        <>(\/ committed[p] > Len(Log[p])
           \/ faults["commit"] > 0
           \/ \E q \in Partition : <<q, Len(Log[q])>> \in abandoned)

\* The detailed consumer implements the delivery contract.
Delivery == INSTANCE EventDelivery WITH
                settled <- {r \in Rec : Settled(r)},
                lost <- abandoned
ImplementsDelivery == Delivery!Spec
=============================================================================
