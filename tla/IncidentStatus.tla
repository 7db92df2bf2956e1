--------------------------- MODULE IncidentStatus ---------------------------
(***************************************************************************)
(* The status of one incident and the requests that change it:             *)
(* update_incident_status of services/incident/app/main.py over            *)
(* DynamoRepository.put of shared/dynamodb.py.                             *)
(*                                                                         *)
(* A handler reads the incident, judges the transition on what it read,    *)
(* and puts the changed incident; put first reads the item again for its   *)
(* version and writes on condition that the version is still that one.     *)
(* Handlers of the same or of different replicas interleave at every call  *)
(* to the table.                                                           *)
(***************************************************************************)
EXTENDS Naturals, Sequences, FiniteSets, IncidentLifeCycle

CONSTANTS
    Handler,     \* request handlers that may run at the same time
    MaxRequests, \* bound: requests over the whole run
    MaxFaults    \* bound: failing calls to the table or to the event bus

ASSUME IncidentAssumption ==
    MaxRequests \in Nat /\ MaxFaults \in Nat /\ IsFiniteSet(Handler)

VARIABLES
    status,    \* the stored status of the incident
    version,   \* the version of its item
    pc,        \* pc[h]: the call handler h is about to make
    target,    \* target[h]: update.status of h's request
    got,       \* got[h]: incident.status as h's get returned it
    seen,      \* seen[h]: the version h's put read
    answer,    \* answer[h]: how h's last request was answered
    events,    \* incident.status_changed events, in the order published
    requests,  \* requests so far
    faults,    \* failed calls so far
    history    \* every status stored so far, in order (history variable)

item    == <<status, version, history>>
call    == <<target, got, seen>>
iVars   == <<item, call, pc, answer, events, requests, faults>>

Answer == {"none", "ok", "refused", "error"}
HandlerStep == {"idle", "get", "read", "write", "publish"}

Goto(h, from, to) == /\ pc[h] = from
                     /\ pc' = [pc EXCEPT ![h] = to]

Reply(h, a) == /\ pc' = [pc EXCEPT ![h] = "idle"]
               /\ answer' = [answer EXCEPT ![h] = a]

\* The incident exists: simulate_incident or the detector has put it.
Init ==
    /\ status = "detected" /\ version = 1 /\ history = <<"detected">>
    /\ pc = [h \in Handler |-> "idle"]
    /\ target = [h \in Handler |-> "detected"]
    /\ got = [h \in Handler |-> "detected"]
    /\ seen = [h \in Handler |-> 0]
    /\ answer = [h \in Handler |-> "none"]
    /\ events = <<>>
    /\ requests = 0 /\ faults = 0

-----------------------------------------------------------------------------
\* PATCH /api/v1/incidents/{id}/status arrives with a status of the client's choice.
Receive(h, s) ==
    /\ Goto(h, "idle", "get")
    /\ requests < MaxRequests /\ requests' = requests + 1
    /\ target' = [target EXCEPT ![h] = s]
    /\ answer' = [answer EXCEPT ![h] = "none"]
    /\ UNCHANGED <<item, got, seen, events, faults>>

\* get, and the transition is allowed from the status read.
GetAllowed(h) ==
    /\ Goto(h, "get", "read")
    /\ target[h] \in Allowed[status]
    /\ got' = [got EXCEPT ![h] = status]
    /\ UNCHANGED <<item, target, seen, answer, events, requests, faults>>

\* get, and it is not: 409.
GetRefused(h) ==
    /\ pc[h] = "get"
    /\ target[h] \notin Allowed[status]
    /\ Reply(h, "refused")
    /\ UNCHANGED <<item, call, events, requests, faults>>

\* put: the read of the version it will compare against.
PutRead(h) ==
    /\ Goto(h, "read", "write")
    /\ seen' = [seen EXCEPT ![h] = version]
    /\ UNCHANGED <<item, target, got, answer, events, requests, faults>>

Store(h) ==
    /\ version = seen[h]
    /\ version' = seen[h] + 1
    /\ status' = target[h]
    /\ history' = Append(history, target[h])

\* put: the conditional write succeeds.
PutWrite(h) ==
    /\ Goto(h, "write", "publish")
    /\ Store(h)
    /\ UNCHANGED <<call, answer, events, requests, faults>>

\* put: another write came in between; ConcurrentUpdateError becomes a 500.
PutConflictIgnored(h) == \* defect: ConcurrentUpdateError is swallowed
    /\ Goto(h, "write", "publish")
    /\ version # seen[h]
    /\ UNCHANGED <<item, call, answer, events, requests, faults>>

PutConflict(h) ==
    /\ pc[h] = "write"
    /\ version # seen[h]
    /\ Reply(h, "error")
    /\ UNCHANGED <<item, call, events, requests, faults>>

AnnounceBare(h) == events' = Append(events, [status |-> target[h]]) \* defect: no previous_status

Announce(h) == events' = Append(events, [previous |-> got[h], status |-> target[h]])

\* The event is published, the incident goes to the WebSockets: 200.
Publish(h) ==
    /\ pc[h] = "publish"
    /\ Announce(h)
    /\ Reply(h, "ok")
    /\ UNCHANGED <<item, call, requests, faults>>

\* A call fails: 500.  A write that times out may have been applied, and the
\* event may be out when its acknowledgement or the broadcast fails.
CallFails(h) ==
    /\ pc[h] \in {"get", "read", "write", "publish"}
    /\ faults < MaxFaults /\ faults' = faults + 1
    /\ \/ UNCHANGED <<item, events>>
       \/ pc[h] = "write" /\ Store(h) /\ UNCHANGED events
       \/ pc[h] = "publish" /\ Announce(h) /\ UNCHANGED item
    /\ Reply(h, "error")
    /\ UNCHANGED <<call, requests>>

Handle(h) == GetAllowed(h) \/ GetRefused(h) \/ PutRead(h) \/ PutWrite(h)
                \/ PutConflict(h) \/ Publish(h)

\* The bound on requests is reached and all are answered.
Idle ==
    /\ requests = MaxRequests
    /\ \A h \in Handler : pc[h] = "idle"
    /\ UNCHANGED iVars

Next == \/ \E h \in Handler :
              (\E s \in Status : Receive(h, s)) \/ Handle(h) \/ CallFails(h)
        \/ Idle

Spec == Init /\ [][Next]_iVars

-----------------------------------------------------------------------------
\* Every variable has its type.
TypeOK ==
    /\ status \in Status
    /\ version \in Nat
    /\ pc \in [Handler -> HandlerStep]
    /\ target \in [Handler -> Status]
    /\ got \in [Handler -> Status]
    /\ seen \in [Handler -> Nat]
    /\ answer \in [Handler -> Answer]
    /\ events \in Seq([previous : Status, status : Status])
    /\ requests \in Nat
    /\ faults \in Nat
    /\ history \in Seq(Status)

Held(s) == \E i \in 1..Len(history) : history[i] = s

\* However requests race, no stage of the life cycle is skipped for good: an
\* incident that is resolved was in progress before, one in progress was
\* approved before, one approved was analysed before.
NoStageSkipped ==
    /\ Held("resolved") => Held("in_progress")
    /\ Held("in_progress") => Held("approved")
    /\ Held("approved") \/ Held("review_required") => Held("analyzing")

\* status_changed is published only for a status the incident was given, once
\* per write: a refused or conflicting put leaves no event behind.
Announced(s) == {i \in 1..Len(events) : events[i].status = s}
Written(s)   == {i \in 1..Len(history) : history[i] = s}

EventsAreWrites ==
    \A s \in Status : Cardinality(Announced(s)) <= Cardinality(Written(s))

\* The incident moves only along ALLOWED_TRANSITIONS: what the version check of
\* put promises by docs/architecture.md, that concurrent updates fail instead of
\* silently overwriting one another.
MovesAreAllowed ==
    [][status' # status => status' \in Allowed[status]]_iVars
=============================================================================
