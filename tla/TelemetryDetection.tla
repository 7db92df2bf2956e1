------------------------- MODULE TelemetryDetection -------------------------
(***************************************************************************)
(* From a sensor sample to an automatic incident: ingest_telemetry and     *)
(* _create_automatic_incident of services/incident/app/main.py with the    *)
(* AnomalyDetector of detection.py.                                        *)
(*                                                                         *)
(* The detector counts warnings per sensor in the memory of one replica.   *)
(* Handlers wait at every call to the table, the broker and the WebSocket  *)
(* bus, so samples of one sensor overtake each other between arrival and   *)
(* evaluation; the duplicate check reads the incidents through a secondary *)
(* index that may lag behind the table.  Incidents are simulated by hand   *)
(* meanwhile (simulate_incident) and moved on by update_incident_status,   *)
(* which judges what it read and writes later, over whatever is there.     *)
(***************************************************************************)
EXTENDS Naturals, Sequences, FiniteSets

CONSTANTS
    Replica,       \* pods of the incident service
    Handler,       \* requests that may be in flight at the same time
    Sensor,        \* (equipment, sensor type) pairs
    Setting        \* the deployments and loads considered, see below

Status == {"open", "resolved"}   \* RESOLVED, and all that comes before it

\* A setting names the replicas that run, the samples in flight at once, the
\* sensors that send, warning_streak_threshold, whether the index
\* entity_type-updated_at-index may lag, the status PATCHes that clients send,
\* whether two of one incident may overlap, and the bounds on requests and faults.
ASSUME DetectionAssumption ==
    /\ Replica # {} /\ Sensor # {} /\ IsFiniteSet(Replica) /\ IsFiniteSet(Handler)
    /\ Setting \subseteq [replicas : SUBSET Replica, flight : Nat, sensors : SUBSET Sensor,
                          streak : Nat \ {0}, lags : BOOLEAN, patches : SUBSET Status,
                          overlap : BOOLEAN, requests : Nat, faults : Nat]

\* TelemetryRecord.status: ratio >= 1.2, ratio >= 1, below.
Reading == {"normal", "warning", "critical"}
State   == Status \cup {"absent"}

VARIABLES
    setting,   \* the setting of this run
    streak,    \* streak[r][s]: _warning_streaks of replica r
    pc,        \* pc[h]: the call handler h is about to make
    sample,    \* sample[h]: the sample h carries and the replica that took it
    cause,     \* cause[h]: the trigger the detector returned, or "manual"
    incidents, \* incidents in the table, in the order created
    index,     \* index[i]: the state of incident i that a list returns
    patches,   \* PATCHes <<i, to>> judged on an unresolved i and not yet written
    alerted,   \* incidents whose incident.detected event went out
    requests,  \* samples and simulations so far
    faults,    \* failed calls so far
    run,       \* run[s]: warnings in a row as they arrived (history)
    warned,    \* warned[r][s]: warnings evaluated (history)
    alarms,    \* alarms[r][s]: streak triggers so far (history)
    closed     \* closed[s]: incidents resolved when run[s] began (history)

table   == <<incidents, index, patches>>
history == <<run, warned, alarms, closed>>
vars    == <<setting, streak, pc, sample, cause, table, alerted, requests, faults, history>>

WarningStreak == setting.streak

Incident == 1..Len(incidents)
Open(i)  == incidents[i].state = "open"
Automatic(i) == incidents[i].source = "automatic"

\* A sample is in flight; a simulation, which starts with its put, is not one.
InFlight(h) == \/ pc[h] \in {"record", "evaluate", "list"}
               \/ pc[h] \in {"put", "alert"} /\ cause[h] # "manual"

Goto(h, from, to) == /\ pc[h] = from
                     /\ pc' = [pc EXCEPT ![h] = to]

\* What an idle handler holds, and how handlers come to it.
Nothing == [replica |-> CHOOSE r \in Replica : TRUE,
            sensor  |-> CHOOSE s \in Sensor : TRUE,
            reading |-> "normal"]

Finish(done) ==
    /\ pc' = [h \in Handler |-> IF h \in done THEN "idle" ELSE pc[h]]
    /\ sample' = [h \in Handler |-> IF h \in done THEN Nothing ELSE sample[h]]
    /\ cause' = [h \in Handler |-> IF h \in done THEN "none" ELSE cause[h]]

Init ==
    /\ setting \in Setting
    /\ streak = [r \in Replica |-> [s \in Sensor |-> 0]]
    /\ pc = [h \in Handler |-> "idle"]
    /\ sample = [h \in Handler |-> Nothing]
    /\ cause = [h \in Handler |-> "none"]
    /\ incidents = <<>> /\ index = <<>> /\ patches = {}
    /\ alerted = {}
    /\ requests = 0 /\ faults = 0
    /\ run = [s \in Sensor |-> 0]
    /\ warned = [r \in Replica |-> [s \in Sensor |-> 0]]
    /\ alarms = [r \in Replica |-> [s \in Sensor |-> 0]]
    /\ closed = [s \in Sensor |-> {}]

-----------------------------------------------------------------------------
\* POST /api/v1/telemetry reaches a replica; received_at is taken.
Receive(h, r, s, reading) ==
    /\ r \in setting.replicas /\ s \in setting.sensors
    /\ Cardinality({g \in Handler : InFlight(g)}) < setting.flight
    /\ Goto(h, "idle", "record")
    /\ requests < setting.requests /\ requests' = requests + 1
    /\ sample' = [sample EXCEPT ![h] = [replica |-> r, sensor |-> s, reading |-> reading]]
    /\ run' = [run EXCEPT ![s] = IF reading = "warning" THEN @ + 1 ELSE 0]
    /\ closed' = [closed EXCEPT ![s] = IF reading = "warning" /\ run[s] > 0 THEN @
                                        ELSE {i \in Incident : ~Open(i)}]
    /\ UNCHANGED <<setting, streak, cause, table, alerted, faults, warned, alarms>>

\* POST /api/v1/incidents/simulate: an incident of s is put with no check at all.
Simulate(h, r, s) ==
    /\ r \in setting.replicas /\ s \in setting.sensors
    /\ Goto(h, "idle", "put")
    /\ requests < setting.requests /\ requests' = requests + 1
    /\ sample' = [sample EXCEPT ![h] = [Nothing EXCEPT !.replica = r, !.sensor = s]]
    /\ cause' = [cause EXCEPT ![h] = "manual"]
    /\ UNCHANGED <<setting, streak, table, alerted, faults, history>>

\* The sample is stored, published and broadcast.  Nothing in detection reads
\* what these three calls write, so they are one step here.
Record(h) ==
    /\ Goto(h, "record", "evaluate")
    /\ UNCHANGED <<setting, streak, sample, cause, table, alerted, requests, faults, history>>

\* What evaluate makes of a reading that would be warning number n in a row:
\* the trigger it returns and the streak it leaves behind.
Trigger(reading, n) ==
    CASE reading = "critical" -> "critical"
      [] reading = "warning" /\ n >= WarningStreak -> "streak"
      [] OTHER -> "none"

CountedOn(reading, n) == \* defect: the alarm does not start a new streak
    IF reading = "warning" THEN n ELSE 0

CountedThrough(reading, n) == \* defect: a normal sample does not end the streak
    IF reading = "normal" THEN n - 1
    ELSE IF reading = "warning" /\ n < WarningStreak THEN n ELSE 0

Counted(reading, n) ==
    IF reading = "warning" /\ n < WarningStreak THEN n ELSE 0

\* AnomalyDetector.evaluate, up to the return of the trigger.
Evaluate(h) ==
    LET r == sample[h].replica
        s == sample[h].sensor
        reading == sample[h].reading
        n == streak[r][s] + 1
        why == Trigger(reading, n)
    IN
    /\ pc[h] = "evaluate"
    /\ streak' = [streak EXCEPT ![r][s] = Counted(reading, n)]
    /\ \/ why = "none" /\ Finish({h})
       \/ /\ why # "none"
          /\ Goto(h, "evaluate", "list")
          /\ cause' = [cause EXCEPT ![h] = why]
          /\ UNCHANGED sample
    /\ warned' = [warned EXCEPT ![r][s] = IF reading = "warning" THEN @ + 1 ELSE @]
    /\ alarms' = [alarms EXCEPT ![r][s] = IF why = "streak" THEN @ + 1 ELSE @]
    /\ UNCHANGED <<setting, table, alerted, requests, faults, run, closed>>

\* repository.list shows an incident of this sensor that is not resolved, whoever
\* created it, or none.
ListedForAny(h) == \* defect: the sensor is not compared
    \E i \in Incident : index[i] = "open"

Listed(h) == \E i \in Incident : /\ incidents[i].sensor = sample[h].sensor
                                 /\ index[i] = "open"

ListDuplicate(h) ==
    /\ pc[h] = "list"
    /\ Listed(h)
    /\ Finish({h})
    /\ UNCHANGED <<setting, streak, table, alerted, requests, faults, history>>

ListNoneUnchecked(h) == \* defect: the duplicate check is dropped
    /\ Goto(h, "list", "put")
    /\ UNCHANGED <<setting, streak, sample, cause, table, alerted, requests, faults, history>>

ListNone(h) ==
    /\ Goto(h, "list", "put")
    /\ ~Listed(h)
    /\ UNCHANGED <<setting, streak, sample, cause, table, alerted, requests, faults, history>>

\* What the index shows at once of a change of the table.
Shown(new, old) == IF setting.lags THEN {new, old} ELSE {new}

\* repository.put of the new incident; its id is new, so no put conflicts.
Entry(h) == [sensor |-> sample[h].sensor, state |-> "open", by |-> h,
             source |-> IF cause[h] = "manual" THEN "manual" ELSE "automatic"]

Insert(h) ==
    /\ incidents' = Append(incidents, Entry(h))
    /\ \E shown \in Shown("open", "absent") : index' = Append(index, shown)
    /\ UNCHANGED patches

PutSilently(h) == \* defect: nothing is announced
    /\ pc[h] = "put"
    /\ Insert(h)
    /\ Finish({h})
    /\ UNCHANGED <<setting, streak, alerted, requests, faults, history>>

Put(h) ==
    /\ Goto(h, "put", "alert")
    /\ Insert(h)
    /\ UNCHANGED <<setting, streak, sample, cause, alerted, requests, faults, history>>

\* The incident h put last.
Own(h) == CHOOSE i \in Incident : /\ incidents[i].by = h
                                  /\ \A j \in Incident : incidents[j].by = h => j <= i

\* incident.detected goes out with the alert, and to the WebSockets: 201.
Alert(h) ==
    /\ pc[h] = "alert"
    /\ alerted' = alerted \cup {Own(h)}
    /\ Finish({h})
    /\ UNCHANGED <<setting, streak, table, requests, faults, history>>

\* A call fails: 500.  What it asked for may have been done all the same.
CallFails(h) ==
    /\ pc[h] \in {"record", "list", "put", "alert"}
    /\ faults < setting.faults /\ faults' = faults + 1
    /\ Finish({h})
    /\ \/ UNCHANGED <<table, alerted>>
       \/ pc[h] = "put" /\ Insert(h) /\ UNCHANGED alerted
       \/ pc[h] = "alert" /\ alerted' = alerted \cup {Own(h)} /\ UNCHANGED table
    /\ UNCHANGED <<setting, streak, requests, history>>

\* PATCH of an incident's status by people and services: the stored value is read
\* and found to be on its way to RESOLVED.  One of each kind is underway at most.
JudgePatch(i, to) ==
    /\ Open(i)
    /\ to \in setting.patches /\ <<i, to>> \notin patches
    /\ setting.overlap \/ \A p \in patches : p[1] # i
    /\ patches' = patches \cup {<<i, to>>}
    /\ UNCHANGED <<setting, streak, pc, sample, cause, incidents, index, alerted, requests, faults,
                   history>>

\* repository.put reads the version it compares only now: it writes the status that
\* was judged over whatever the incident has become.
WritePatch(i, to) ==
    /\ <<i, to>> \in patches /\ patches' = patches \ {<<i, to>>}
    /\ incidents' = [incidents EXCEPT ![i].state = to]
    /\ \E shown \in Shown(to, index[i]) : index' = [index EXCEPT ![i] = shown]
    /\ UNCHANGED <<setting, streak, pc, sample, cause, alerted, requests, faults, history>>

\* Another write came between that read and this one, or the call failed.
PatchConflict(i, to) ==
    /\ <<i, to>> \in patches /\ patches' = patches \ {<<i, to>>}
    /\ UNCHANGED <<setting, streak, pc, sample, cause, incidents, index, alerted, requests, faults,
                   history>>

\* DynamoDB brings the index up to date.
IndexCatchesUp(i) ==
    /\ index[i] # incidents[i].state
    /\ index' = [index EXCEPT ![i] = incidents[i].state]
    /\ UNCHANGED <<setting, streak, pc, sample, cause, incidents, patches, alerted, requests, faults,
                   history>>

\* A replica is replaced: its streaks are gone, its handlers with it.
Restart(r) ==
    /\ r \in setting.replicas
    /\ faults < setting.faults /\ faults' = faults + 1
    /\ streak' = [streak EXCEPT ![r] = [s \in Sensor |-> 0]]
    /\ Finish({h \in Handler : sample[h].replica = r})
    /\ UNCHANGED <<setting, table, alerted, requests, history>>

Handle(h) == Record(h) \/ Evaluate(h) \/ ListDuplicate(h) \/ ListNone(h)
                \/ Put(h) \/ Alert(h)

\* The bound on requests is reached and all are handled.
Idle ==
    /\ requests = setting.requests
    /\ \A h \in Handler : pc[h] = "idle"
    /\ UNCHANGED vars

Next ==
    \/ \E h \in Handler :
        \/ \E r \in Replica, s \in Sensor :
            Simulate(h, r, s) \/ \E reading \in Reading : Receive(h, r, s, reading)
        \/ Handle(h) \/ CallFails(h)
    \/ \E i \in Incident :
        \/ \E to \in Status :
            JudgePatch(i, to) \/ WritePatch(i, to) \/ PatchConflict(i, to)
        \/ IndexCatchesUp(i)
    \/ \E r \in Replica : Restart(r)
    \/ Idle

Spec == Init /\ [][Next]_vars

-----------------------------------------------------------------------------
\* Every variable has its type.
TypeOK ==
    /\ setting \in Setting
    /\ streak \in [Replica -> [Sensor -> 0..(WarningStreak - 1)]]
    /\ pc \in [Handler -> {"idle", "record", "evaluate", "list", "put", "alert"}]
    /\ sample \in [Handler -> [replica : Replica, sensor : Sensor, reading : Reading]]
    /\ cause \in [Handler -> {"none", "critical", "streak", "manual"}]
    /\ incidents \in Seq([sensor : Sensor, state : Status, by : Handler,
                          source : {"automatic", "manual"}])
    /\ index \in Seq(State) /\ Len(index) = Len(incidents)
    /\ patches \subseteq Incident \X Status
    /\ alerted \subseteq Incident
    /\ requests \in 0..setting.requests /\ faults \in 0..setting.faults
    /\ run \in [Sensor -> Nat]
    /\ warned \in [Replica -> [Sensor -> Nat]] /\ alarms \in [Replica -> [Sensor -> Nat]]
    /\ closed \in [Sensor -> SUBSET Incident]

\* Every streak alarm a replica raises is paid for by WarningStreak warnings of
\* its sensor evaluated there, each counted once, in whatever order they come and
\* however often the replica is replaced.
StreakIsPaidFor ==
    \A r \in Replica, s \in Sensor : WarningStreak * alarms[r][s] <= warned[r][s]

\* An alert tells of an incident that is stored, and a handler still at work is
\* the only reason, next to a failed call, that an incident goes unannounced.
StoredIsAnnounced ==
    faults = 0 => \A i \in Incident :
        i \in alerted \/ (pc[incidents[i].by] = "alert" /\ i = Own(incidents[i].by))

\* No sensor has two unresolved automatic incidents (the README's rule).
OneOpenIncident ==
    \A i, j \in {k \in Incident : Open(k) /\ Automatic(k)} :
        incidents[i].sensor = incidents[j].sensor => i = j

\* One replica, one sample at a time, an index that keeps up, one PATCH of an
\* incident at a time and no failed call: what the rules of the README take for
\* granted.  A put that nobody waits for any more may land when it likes, and of
\* two PATCHes that overlap the staler one may set a resolved incident back.
InOrder ==
    /\ Cardinality(setting.replicas) = 1 /\ setting.flight = 1
    /\ ~setting.lags /\ ~setting.overlap /\ faults = 0

\* In order, that rule holds, whatever is simulated by hand meanwhile.
OneOpenInOrder == InOrder => OneOpenIncident

\* In order, WarningStreak warnings in a row lead to an incident, or find one
\* that was open when they began or was simulated since (the README's rule); judged
\* when no sample is in flight.
StreakIsDetected ==
    InOrder /\ (\A h \in Handler : ~InFlight(h)) =>
        \A s \in Sensor : run[s] >= WarningStreak =>
            \E i \in Incident \ closed[s] : incidents[i].sensor = s

\* In order, the detector raises a streak alarm only for warnings that arrived
\* in a row: a normal sample that was lost would end no streak.
StreakIsConsecutive ==
    InOrder => \A h \in Handler : pc[h] \in {"list", "put", "alert"} /\ cause[h] = "streak" =>
                   run[sample[h].sensor] >= WarningStreak
=============================================================================
