# AX Sentinel: specification and proofs

TLA+ modules for the AX Sentinel services (telemetry, incidents, AI analysis,
approvals, work orders, event delivery), model-checked with TLC and, where it
matters most, proved with TLAPS. Paths below are relative to the repository.

## 1. The system

| Component | State it keeps | Operations | Talks to |
| --- | --- | --- | --- |
| incident service (`services/incident`) | `incident`, `telemetry` items; per process: warning streaks, WebSocket sets, Redis listener task | ingest telemetry, simulate, list, change status, two WebSocket feeds | table, event bus, Redis |
| AI analysis (`services/ai_analysis`) | `analysis`, `expert_review`, `evaluation_case`, `evaluation_run` items | analyse, update review, evaluate | asset, knowledge (REST), model, event bus |
| work order (`services/work_order`) | `approval`, `work_order` items, photos in S3 | decide, upload evidence, complete | incident service (REST), event bus |
| metrics (`services/metrics`) | `feedback` items | record feedback, summary | AI analysis, work order (REST), event bus |
| asset, knowledge | `equipment`, `maintenance`, `document` items, documents in S3 | register, read, retrieve | event bus, Bedrock |
| event worker (`services/event_worker`) | `processed_event` items; per process: attempts, positions | Kafka loop (default) or SQS loop | Kafka or SQS, table |
| web console (`web/src/App.tsx`) | per browser: incident list, open incident, shown analysis | simulate, runAnalysis, decide, review, complete | all services, WebSocket |
| shared | - | `DynamoRepository` (versioned put), `EventPublisher`, `RedisRealtimeBus`, auth | DynamoDB, Kafka, SQS, SNS, Redis |

Services share no memory and no transaction. Every handler is a chain of calls
run in a thread pool (`await run_in_threadpool(...)`), so handlers of one
process interleave at each call, and handlers of several replicas interleave
freely. A chain that fails half way is not undone.

What is hard here, and what would make each component correct:

* **Kafka consumer.** At-least-once delivery through crashes, rebalances and
  failing calls: committed offsets must cover only records that were stored or
  dead-lettered, partitions must be handled in order, poison records must not
  block, replays must be recognised.
* **Incident status.** Read, judge, re-read the version, write: the version
  check guards less than it seems to. No stage may be skipped, and events and
  answers must match what was stored.
* **Detection.** A counter in the memory of one process, samples that overtake
  each other, a duplicate check apart from the insert, an index that lags.
* **Response.** Analysis, approval, order, completion and incident status live in
  four services; the browser and the handlers string them together.
* **SQS consumer and publisher.** The same event may go to Kafka, SQS and SNS in
  one call that can fail between them. The queue redelivers while a message is
  still being handled and dead-letters after a number of receives: nothing may be
  deleted before it is stored, and no receive may be wasted.
* **Realtime feed.** Fan-out through Redis, sockets that come and go while a
  broadcast is under way, and a page that merges messages and snapshots with no
  regard to which is newer.
* **Documents, reviews, evaluations.** A document is an object, a row and an
  event in three calls; a review is patched by whole-record puts from cards that
  may be stale; an evaluation run lists, generates, dates and stores while the
  data set and the documents change under it.

`PROJECT.json` lists the components with what is modelled of each, the hazards
with their source lines, and for every definition the lines it stands for.

## 2. The modules

| Module | Models |
| --- | --- |
| `EventDelivery` | the contract of event delivery, with no workers or batches |
| `KafkaEventWorker` | the Kafka consumer, any number of workers and partitions |
| `KafkaEventWorker_proofs` | theorems about it |
| `IncidentLifeCycle` | the statuses and `ALLOWED_TRANSITIONS` |
| `IncidentStatus` | `update_incident_status` over `DynamoRepository.put` |
| `IncidentStatus_proofs` | theorems about it |
| `TelemetryDetection` | `ingest_telemetry`, `_create_automatic_incident`, `AnomalyDetector` |
| `TelemetryDetection_proofs` | theorems about it |
| `ResponseFlow` | the sessions and handlers from analysis to completion |
| `ResponseFlow_proofs` | theorems about it |
| `EventPublisher` | `EventPublisher.publish` in the four modes of `EVENT_BUS` |
| `QueueDelivery` | the contract of the queue, with no receipts or timeouts |
| `SqsEventWorker` | the SQS consumer and its queue, fed by `EventPublisher` |
| `SqsEventWorker_proofs` | theorems about it |
| `LiveConsole` | realtime fan-out of the incident service and the page's incident list |
| `LiveConsole_proofs` | theorems about it |
| `AnalysisService` | documents, retrieval, analyses, expert reviews, evaluations, summary |
| `AnalysisService_proofs` | theorems about it |
| `MC...` | logs, fault limits and symmetry for TLC |

Definitions whose comment starts with *defect* are seeded bugs (a dropped guard,
an off-by-one, a swapped order). No specification uses them; `PROJECT.json`
pairs each with the definition it replaces and the property that must then fail,
so that every checked property is known to notice a bug.

### KafkaEventWorker

One step is what happens between two calls that leave the process. `pc[w]`
says where worker `w`'s `_poll` loop is: `poll`, `batch` (between records),
`lookup`/`read`/`write` (`process_record`: get, and the two calls of put),
`publish`/`deadRead`/`deadWrite` (`_dead_letter`), `commit`. A polled batch is
the interval from `cursor[w][p]` to `position[w][p]`; `seek` sets the position
back to the failed record, which also ends that partition's loop, as `break`
does. `attempts` is `_attempts`, `progress` and `failed` are `processed_any` and
`batch_failed`.

The record logs are constants, and a poll may return any prefix of what is left:
that covers every order of arrival and every fetch size. A record is valid, fails
`EventEnvelope.model_validate` (*invalid*), does so with an `event_id` that is
neither a string nor null (*mistyped*), or is no JSON (*undecodable*; a poll that
meets one raises). `_dead_letter` passes the `event_id` on in an `EventEnvelope`
of its own, so that a mistyped record cannot be dead-lettered, on any attempt
(`DeadLetterInvalid`). An item too large for DynamoDB, whose put fails every
time, is left out; so are the DLQ message's content, metrics and logging.

A call to the store runs in a thread of `run_in_threadpool`, and nobody need wait
for its end: `stop()` cancels the await and closes the consumer, which leaves the
group at once, while the thread goes on (`Stop`); a request that timed out may
still be on its way (`StoreFault`, `DeadLetterFault`). Such a put is in `late`; it
reads its version and writes whenever it likes (`LateRead`, `LateWrite`), also
next to the successor's. A process that dies (`Crash`) leaves no thread; the group
notices when the session times out, after ten seconds, and its last request was
applied or lost by then. A send to the DLQ topic that is cut short arrives at
once or never: nothing reads the topic, so later is no different.

External: `Rebalance` (eager protocol: it completes when every member is inside
`poll()`, then everybody starts from the committed offsets), `Evict` (missed
heartbeats or poll interval), the broker's refusal of commits from another
generation. Faults are `Crash`, `Stop`, `Evict`, `StoreFault`, `DeadLetterFault`
and `CommitFault`; `faults` counts each kind, and `FaultBound` is the set of counts
a run may reach, so that a run chooses which faults may meet.

`abandoned` is a history variable: the records of a batch ended by an exception
out of `_dead_letter`. `Escape` is that path: `_poll` catches the exception,
sleeps, and polls on from a position that is past the batch.

### IncidentStatus

`status`, `version` are the item; each handler goes `get` (read and judge the
transition), `read` (put reads the version), `write` (conditional write),
`publish`. `history` is every status ever stored. Any client may ask for any
status at any time; a call may fail with or without its effect.

### TelemetryDetection

Handlers `record` the sample (table, event and WebSocket calls as one step:
detection reads nothing they write), `evaluate` it in their replica's
memory (atomic: no await inside), `list` incidents through the index, `put` and
`alert`. `Simulate` is `simulate_incident`: an incident of the same sensor put by
hand, with no duplicate check, which the check of the others then sees.
`Restart` drops a replica's streaks and handlers. A PATCH of a status reads and
judges (`JudgePatch`), and later writes what it judged over whatever the incident
has become (`WritePatch`), or meets a conflict (`PatchConflict`): the put compares
a version it reads just before the write. All statuses before `RESOLVED` are
*open* here, so a stale write may open a resolved incident again.

A `setting` fixes the replicas, the samples in flight, the threshold, whether the
index lags, which PATCHes clients send and whether two of one incident may
overlap; it is chosen in `Init`, so that one run covers racing deployments and
orderly ones. `InOrder` names the orderly ones, which include one PATCH of an
incident at a time and no failed call, and the README's rules are stated under
it. `run`, `warned`, `alarms`, `closed` are history variables that state the rules
of the README in terms of samples as they arrived.

### ResponseFlow

A session (`pc[u]`) is a chain of calls; each call is an operator whose last
parameter is where the session goes when it is answered, so a failing call is
the same operator going to `idle`. `page` is the browser's state: the incident
as it was when opened and the analysis shown. A PATCH of the status is two steps:
`Judge` reads the incident and finds the transition allowed, `Store` writes it
over what has become of the incident. `DirectJudge` and `DirectStore` are the same
for other clients of the incident API. A session that gives up on a PATCH that
was judged leaves it in `patching`, to be written or not (`GiveUp`, `DirectStore`).
`Conflict` is the put that finds another version than it read; it is allowed to
every PATCH once two have overlapped, since which of them it hits is decided
between two calls of put that `IncidentStatus` opens up. `overlapped` and
`accepted` are history variables: a PATCH was judged while another was under way,
and the orders whose completion the incident service stored. A version conflict in
the work order table ends the session like any failing call.
The branch of `complete_work_order` for a deployment without
`INCIDENT_SERVICE_URL` is not modelled.

### EventPublisher and SqsEventWorker

`pub[e]` is the call `publish` is about to make for event `e`: Kafka, then SQS,
then SNS, as `EVENT_BUS` and `alert` ask; the first that raises ends it. A Kafka
send that timed out may still get through (`buffered`). `SqsEventWorker` extends
the module with the queue: `queue[m]` and `receives[m]` are the queue's side,
`batch[w]` and `hand[w]` the receipts a worker still has. A batch is handled one
message after the other while the visibility timeout of all of them runs, so
`Expire` may strike at any point and an old receipt may or may not delete.
`Legacy` messages carry no `event_id` and are stored under their message id, so
a message names the record it leads to. An event whose type is unknown is stored
like any other. Where `EVENT_BUS` names Kafka the worker is `KafkaEventWorker`
and nobody reads the queue (`ReadsElsewhere`).

### LiveConsole

Records of one incident are named by their version. A handler puts the incident
and announces what it put; `inbox[p]` is the Redis subscription of pod `p`,
`cast[x]` the copy of the connections a broadcast still has to serve, `wire[c]`
what is on the console's socket. A refresh asks, reads a version that may lag
behind the table, and is merged when all its requests are back. `mergeIncidents`
replaces by id (`Merged`). History variables say why a page may be behind:
`missed` (no socket when the last change was announced) and `excused` (a call
failed, two changes or a change and a refresh were under way together, or a list
lagged). `ConnectedIsCurrent` says that there is no other reason.

### AnalysisService

`task[h].at` is the call a handler is about to make. Texts are sets of words,
inclusion stands for `in`. The object store and the table are sequences in the
order of arrival, which is what a stable sort of a list by `updated_at` shows.
`list` reads the secondary index: where `setting.lags`, it may miss documents
and runs (`Shown`) and show a case as it was or not at all (`Listed`); `get` is
consistent. The knowledge base returns any documents it has ingested. A
language model answers any of `Answers` with any confidence; the mock engine
answers one cause. `reviews[r]` keeps every record stored of a review, so that
`UpdateReview` can press a button on a card rendered from any of them. Other
clients of the API send any update in `Direct`, with any status: the handler
checks no transition. Time is a counter that dates evaluation runs. In the code
`metrics_summary` compares dates as ISO strings; a date with exactly zero
microseconds is written without a fraction and sorts after the later dates of its
second, which the counter does not show. A retrieval and the look-ups next to it are
one step: they only read, and documents are never changed or removed.

## 3. The runs

| Run | Instance | Result |
| --- | --- | --- |
| `KafkaFaults` | 2 workers, 1 partition (poison, valid, not JSON), 2 attempts, any 2 faults of different kinds, or stop, eviction and store fault together | safety, order and the contract hold; further writes of an event are paid for by evictions, stops and failed calls |
| `KafkaProgress` | 2 workers, a mistyped, a poison and a valid record, crash, store and commit fault, fairness | every record settled or abandoned, every partition committed unless its last batch was abandoned |
| `KafkaEscape` | a mistyped record, no fault | `CommittedIsStored` violated |
| `SqsDelivery` | 2 workers, an event that is also an alert, a malformed message, 2 receives, batches of 2, 1 fault, each `EVENT_BUS`, fairness | contract, copies, receive counts; the queue drains |
| `IncidentRaces` | 2 handlers, 6 requests, 1 fault | stages and events consistent |
| `IncidentLostUpdate` | 2 handlers | `MovesAreAllowed` violated |
| `DetectionRaces` | 3 requests on 2 replicas, 2 in flight, lagging index, 1 fault; 3 requests with overlapping PATCHes; in order, 2 sensors with 3 requests and 1 sensor with 4 | no warning counted twice, stored incidents announced; in order, the README's rules hold |
| `DetectionDuplicate` | 2 samples in flight | `OneOpenIncident` violated |
| `ResponseRaces` | 2 managers, 2 field workers, 4 buttons, 1 fault, another client PATCHes `in_progress`, PATCHes in two steps | decisions, reviews, completions consistent |
| `ResponseStuck` | console alone | `CompletionResolves` violated |
| `LiveConsole` | 2 pods, 2 handlers, 1 console, Redis or memory, 2 versions, 2 sockets, 1 refresh, 1 fault, fairness | the page at rest is current unless one of the named reasons applies; broadcasts arrive; the page reconnects |
| `AnalysisService` | 2 handlers, 4 requests, 1 fault; local retrieval with a prompt and with a lagging index, Bedrock; 2 documents of one file name, a case with 2 data sets; API clients send a status, an assignee or a blank note alone | reviews, citations, evaluations and summary consistent |

The passing runs say what the code does guarantee, and the paired orderly and
racing runs where the guarantee stops: the same formula (`CommittedIsStored` under
the conditions of `OrderlyCommitIsStored`, `OneOpenIncident` under `InOrder`) holds
without the fault or race and fails with it.

Bounds. Two attempts instead of three, and two receives instead of three: one
failure that is retried and one that gives up. Two workers are enough for one to
hold a stale position or receipt while the other moves on, or a late put land next
to the successor's. Two faults of any two kinds let every pair meet, and the three
kinds that leave a second put about meet all at once; workers are alike
(symmetry in the safety runs); one partition is enough for every step,
since partitions share only the batch, and the theorems cover any number of them.
Six requests are one more than the longest path from *detected* to *resolved*,
so a stale write can hit each stage. Three requests with a threshold of
two allow an alarm next to a critical sample or a simulation, or a warning left
over; four allow an alarm, a resolution and a streak begun anew.
Four buttons are an analysis, a decision and two completions, or two
decisions. Two versions let one announcement overtake another, two sockets let a
page reconnect once. Of the statuses an API client may send, *pending* is
in the instance for those that open a review and *completed* alone for a missing
note; buttons send the others. Four requests are two uploads and an analysis, or a changed
data set between two evaluations and a summary of them.

`LiveConsole` runs without the deadlock check: its requests, sockets and
refreshes are bounded, so it stops when they are used up. Every other run checks
for deadlock, and those with bounded requests have an explicit step for being
done (`Rest`, `Idle`).

## 4. Findings

* `KafkaEscape`: an exception in `_dead_letter` loses the seek; the record's
  offset is committed although nothing was stored (docs/architecture.md:116). A
  record whose `event_id` is no string makes it raise every time, and is never
  dead-lettered (docs/msa-kafka-design.md:342, docs/testing-guide.md:173).
* `IncidentLostUpdate`: `put` reads the version it compares with after the
  handler has judged the transition, so a concurrent change is overwritten
  (docs/architecture.md:86).
* `DetectionDuplicate`: the duplicate check and the insert are separate calls
  (README.md:287).
* `ResponseStuck`: no code asks for `in_progress`, so a completion is refused by
  the incident service after the order was stored as resolved
  (docs/architecture.md:160).

More that follows from the models and has no run:

* A put that runs next to another one writes the event a second time, because
  `put` compares with a version it reads itself: that of a worker evicted between
  looking the event up and putting it, that of a thread which `stop()` left
  running, that of a request which timed out (drop a term of `WritesArePaidFor`;
  docs/architecture.md:117).
* A value that is not JSON blocks its partition instead of being dead-lettered
  (`Decodable` in `KafkaEventWorker`; docs/msa-kafka-design.md:342 says
  otherwise).
* With two replicas three warnings in a row may be counted as two and one (drop
  `InOrder` from `StreakIsDetected`; README.md:285).
* An analysis that was rejected can be approved afterwards and gets a work order
  (`AfterDecision` looks at no earlier decision; README.md:649,
  docs/architecture.md:170).
* A PATCH that was judged before another one was written may take a resolved
  incident back, after `work_order.completed` was published (drop `overlapped`
  from `CompletionIsAccepted`) or next to a new automatic incident of the sensor
  (drop `overlap` from `InOrder`).
* An API client can reopen an expert review that it reads as closed
  (drop `opens` from `ReopenedUnseen`): the handler checks no transition.
* With `EVENT_BUS=dual` the worker reads Kafka only: copies in SQS are never
  consumed (`ReadsElsewhere`).
* A reconnect fetches no snapshot, so what was announced while the socket was
  down stays missing until the next refresh (`missed` in `ConnectedIsCurrent`;
  docs/msa-kafka-design.md:447 plans a snapshot). The same holds when the
  listener's Redis connection breaks, and, with the memory broker, for every
  page connected to another pod.
* Chunks from Bedrock are named after the file, so that two documents of one
  name are one in `related_document_ids`, and their version is *unknown*
  (`ChunkId`, `Versions`).
* The evaluation button is disabled while the latest run counts no case
  (App.tsx:1079), so the first run of a deployment must come from the API.

## 5. Fairness

All fairness is weak, and faults are never fair but limited in number.

* `KafkaEventWorker`: the loop of a live process keeps running (`while not
  self._stopping`, and every exception is caught), a dead process is restarted
  (Kubernetes Deployment), and the coordinator completes a rebalance its members
  wait for. `EveryRecordCommitted` makes an exception for a failed commit:
  `_poll` commits only after a batch, so the last offsets may wait for the next
  record. The same holds where an exception of `_dead_letter` ended the last batch.
  `EveryRecordSettled` speaks of the records no such exception abandoned, which is
  what becomes of a mistyped one. Late puts owe nothing.
* `SqsEventWorker`: a live worker keeps polling and going through its batch, a
  dead one is restarted, SQS lets visibility timeouts run out and redrives.
  Producers owe nothing: an event may never be published. `QueueDrains` assumes
  fewer faults than receives, since each fault may cost one.
* `LiveConsole`: tasks and callbacks that can run do run (announcement, listener,
  broadcast, connect, onmessage, the answers of a refresh). A change, a refresh
  and a fault may never come, and a listener that ended is not restarted.

The other modules check safety only and state no fairness.

## 6. What is proved

Every invariant and every safety action property the passing runs check is a
theorem, for every value of the constants that satisfies the module's named
assumption. Seven modules hold the proofs.

**KafkaEventWorker**: every finite set of workers, every set of partitions, every
log, every bound on faults and attempts (`KafkaAssumption`: logs are sequences of
records, at least one attempt and one partition; `DistinctKeys`: the ids of dead
letters are no event ids).

* `TypeCorrect`, `CommittedAccounted`, `OrderKept`, `CommitsNeverGoBack`, and
  `DeliveryImplemented`: the consumer implements `EventDelivery`.
* `OrderlyCommits` (`OrderlyCommitIsStored`), `DeadLettersAreEarned`
  (`DeadLetterAfterMaxAttempts`) and `WritesPaidFor` (`WritesArePaidFor`).

The first group rests on the inductive invariant `IInv` (`Inductive`). A commit
stores `position`, so the invariant says that everything below a worker's cursor
in its own partitions is settled or abandoned, that the cursor reaches the
position of every partition of its batch when it is about to commit, and that
only a member of the current generation owns partitions whose positions count; a
worker that was evicted may hold anything. Settled records stay settled, since
versions only grow. `OrderlyCommits` pins the finding down: without a mistyped
record, a failing dead letter, an eviction or a stop nothing is ever abandoned,
because the worker at a dead letter is alone with its item (`OrderlyInv`).
`Counted` adds that a worker on its way to the DLQ has failed as often as
the code allows. `PaidInv` is an account of writes: `AtHome` says that a worker
in the middle of a batch and not evicted holds its partitions alone; `Counts` that
the workers outside their generation and the puts left behind are no more than the
faults that made them; `Afforded` that the version of an event's item, with a write
for every put that may still reach it, stays within one and those faults. The
workers are finitely many because they are counted.

**IncidentStatus**: any number of requests and failing calls, any finite set of
handlers. `StatusTypes`, `StagesKept` (`NoStageSkipped`) and
`EventsAreWritesAlways` (`EventsAreWrites`). The invariant `EarnedInv` says that
every status ever stored was reached by an allowed move from one stored before,
and that a handler past its check acts on a status the incident had: a stale read
can set an incident back but not let it skip a stage. `PairedInv` counts, for
each status, its events together with the handlers that still have to announce
it: there are no more of these than there are writes. The handlers are finitely
many (`IncidentAssumption`) because they are counted.

**ResponseFlow**: any number of sessions, requests and failing calls; the only
assumption is that managers, field workers and other clients are different
(`ResponseAssumption`). `FlowTypes`, `ResolutionEarned` (`ResolutionIsEarned`),
`OrdersApproved` (`OrderIsApproved`), `ReviewsQueued` (`ReviewIsQueued`) and
`CompletionsAccepted` (`CompletionIsAccepted`) follow from the invariant
`FlowInv`. It adds what a session holds at each call: the record it put, the
decision it announced, the order it uploaded a photo for and completed, that a
PATCH on its way to *resolved* is earned whoever still waits for it, and that a
completion that is announced was stored by the incident service. Without that
the step that resolves an incident, or stores an order, could not be told
from one that skipped its predecessors. `CompletionsAccepted` also says that the incident
stays resolved, and needs `LoneInv` for it: unless two PATCHes overlapped there is
one judged and unwritten at most, and what it judged is still the incident's
status, so that nothing is allowed out of *resolved*. `DecisionsCarriedOut`
(`DecisionsAreCarriedOut`) needs the converse, that what is not done is being
done: `CarriedInv` says that while no call has failed every analysis, decision
and order that lacks its event or its order is in the hands of a session. That
the order is the only one is `OrdersAreSingle`, and holds with failing calls too:
no two sessions are at the same approval, and none is at one that has its order.

**SqsEventWorker**: any messages, limits and modes of the bus, any finite set of
workers (`QueueAssumption`: limits are positive, malformed messages are no
events; `PublisherAssumption`: alerts are events). `SqsTypeCorrect`,
`RemovedIsStoredAlways`, `CopiesFollowTopicAlways`, `SqsImplementsQueue` and
`ReceivesAccountedFor` (`ReceiveIsAccountedFor`). The invariant says that a
worker about to delete has its message stored, that every receipt held is one of
a message that was sent, and that `publish` gets past Kafka only with the record
on the topic. The refinement `QueueDelivery` follows: a message is removed only
when stored, and a late put for a dead-lettered message still counts as stored.
`CountInv` carries the count of the holders of a message through every step.

**LiveConsole**: any pods, handlers, consoles, versions and limits
(`ConsoleAssumption`: they are typed, and no pod is a handler).
`ConsoleTypeCorrect`, `LatestComesLast` and `ConnectedAreCurrent`
(`ConnectedIsCurrent`). The property speaks of a page at rest; the invariant
`ConsoleInv` says where the latest version is before that. Unless the page is
excused, every pod listens, one change at a time is under way, the sockets a pod
serves are those the pages have, and what comes last on the way to a page, from
the announcement through inbox, broadcast and wire to what is shown, is the
latest version (`LastIs`); a refresh under way has read the same.

**AnalysisService**: any documents, cases, engines, requests in flight and index
lag (`AnalysisAssumption`: the constants have their types).
`AnalysisTypeCorrect`, `CompletedHasNoteAlways`, `ReopenedUnseenAlways`,
`CitedIsBackedAlways`, `EvaluationRepeatsAlways` and `SummaryIsCurrentAlways`.
`TypeInv` adds what an evaluation has counted so far to the type; that part is
what makes every rate a share. `ReviewInv` says that a patch on its way to the
table completes nothing without a note, and opens nothing its sender did not see
open unless the sender asks for that; it holds for every set `Direct` of updates
that API clients send. The record it was made from may have been replaced since, which is why the
conjunct speaks of the patched record and not of the stored one. `CiteInv` says
that table and knowledge base know only what the object store holds, and that an
analysis under way is backed already. `RepeatInv` compares no two runs while they
are made: it says that an evaluation that has seen no change so far has found
what the cases and documents of now give for the cases judged (`UpToDate`), which
includes runs dated and not stored yet; two runs of one epoch are then both what
that epoch gives, and stay alike when it ends. `RecentInv` says the same of an
answered summary over the runs stored when it was asked for, which appending
never disturbs.

**TelemetryDetection**: any replicas, sensors, samples in flight, thresholds and
faults (`DetectionAssumption`: there are replicas and sensors, and finitely many
pods and samples in flight). `DetectionTypeCorrect`, `StreaksArePaidFor`,
`StoredAreAnnounced`, `OneIncidentInOrder`, `StreaksAreConsecutive` and
`StreaksAreDetected`. `PaidInv` adds what is left of a streak to the price of the
alarms. `AnnouncedInv` follows the incident a handler put last, which the model
names by a `CHOOSE` that has to be shown to exist. `OrderInv` says that in order
one sample is in flight, the index shows the table, an incident with a PATCH
underway is still open, and an automatic incident about to be put will be the only
open one of its sensor, simulations apart; `RunInv` that the streak is the run, less
the sample in flight, until an alarm ends it. `ReceiveAlone` and `OneReplica` are
where the finite sets are used.

Model-checked only: liveness, which with ENABLED is outside the prover's reach
(`EveryRecordSettled`, `EveryRecordCommitted`, `QueueDrains`, `BroadcastArrives`,
`PageReconnects`). What the violation runs refute is false and has no theorem; for two of the
four there is one under the condition that saves it (`OrderlyCommits`,
`OneIncidentInOrder`).

## 7. Not modelled

* The branch of `complete_work_order` and `decide_action_plan` for a deployment
  without `INCIDENT_SERVICE_URL`, where one process owns one table.
* `metrics_summary` beyond the choice of the latest run: averages over one read.
* The asset service: one put or one read per request, sample equipment included.
* Token verification and role checks: guards without state.
* `migrate-domain-tables.py`: a copy run by hand while nothing else writes.
* Settings and manifests: they are the constants of the instances.
* The console's login, telemetry chart and admin forms; the telemetry feed, which
  is the code of `LiveConsole` on a second set of sockets.
* The text of prompts, documents and answers; the arithmetic of scores; the ISO
  form of dates.
* Values too large for a DynamoDB item.

What would come next: the composition of
`IncidentStatus` with `LiveConsole` so that announcements carry racing writes;
the branch without `INCIDENT_SERVICE_URL`.
