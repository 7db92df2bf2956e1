---------------------- MODULE TelemetryDetection_proofs ----------------------
(***************************************************************************)
(* What detection guarantees for any replicas, sensors, samples in flight, *)
(* thresholds and failing calls, and what the README's rules need.         *)
(***************************************************************************)
EXTENDS TelemetryDetection, FiniteSetTheorems, TLAPS

Stored == [sensor : Sensor, state : Status, by : Handler, source : {"automatic", "manual"}]

\* Incident i is the one h put last: the one Own(h) names.
Newest(i, h) == /\ i \in Incident /\ incidents[i].by = h
                /\ \A j \in Incident : incidents[j].by = h => j <= i

\* A handler about to alert has put an incident.
TypeInv == TypeOK /\ \A h \in Handler : pc[h] = "alert" => \E i \in Incident : Newest(i, h)

\* What is left of a streak is paid for on top of the alarms.
PaidInv ==
    \A r \in Replica, s \in Sensor :
        WarningStreak * alarms[r][s] + streak[r][s] <= warned[r][s]

\* StoredIsAnnounced in terms of the latest put.
AnnouncedInv ==
    faults = 0 => \A i \in Incident :
        i \in alerted \/ (pc[incidents[i].by] = "alert" /\ Newest(i, incidents[i].by))

\* In order, one sample is in flight, the index shows the table, the incident about
\* to be put is the only open automatic one of its sensor, and the one PATCH that is
\* underway finds its incident as it was judged.
OrderInv == InOrder =>
    /\ \A g, h \in Handler : InFlight(g) /\ InFlight(h) => g = h
    /\ \A i \in Incident : index[i] = incidents[i].state
    /\ \A h \in Handler : pc[h] = "put" /\ cause[h] # "manual" =>
           \A i \in Incident : Automatic(i) /\ incidents[i].sensor = sample[h].sensor => ~Open(i)
    /\ \A i \in Incident, to \in Status : <<i, to>> \in patches =>
           Open(i) /\ \A other \in Status : <<i, other>> \in patches => other = to
    /\ OneOpenIncident

\* The sensor has an incident that was not resolved when its run began.
Fresh(s) == \E i \in Incident \ closed[s] : incidents[i].sensor = s

Arriving(h, s) == pc[h] \in {"record", "evaluate"} /\ sample[h].sensor = s

\* A streak alarm of the sensor is on its way to the table.
Alarming(s) == \E h \in Handler : pc[h] \in {"list", "put"} /\ cause[h] = "streak" /\ sample[h].sensor = s

\* The streak is the run, less the sample in flight, until an alarm ends it.
RunInv == InOrder =>
    /\ \A h \in Handler : InFlight(h) => sample[h].replica \in setting.replicas
    /\ \A s \in Sensor : \A i \in closed[s] : ~Open(i)
    /\ \A r \in setting.replicas, s \in Sensor :
           \/ \E h \in Handler : Arriving(h, s)
           \/ streak[r][s] <= run[s] /\ (streak[r][s] = run[s] \/ Fresh(s) \/ Alarming(s))
    /\ \A h \in Handler, s \in Sensor : Arriving(h, s) =>
           LET n == streak[sample[h].replica][s] + 1 IN
           IF sample[h].reading = "warning" THEN n <= run[s] /\ (n = run[s] \/ Fresh(s))
           ELSE run[s] = 0
    /\ \A h \in Handler : pc[h] \in {"list", "put", "alert"} /\ cause[h] = "streak" =>
           run[sample[h].sensor] >= WarningStreak

-----------------------------------------------------------------------------
(* Typing.                                                                 *)

LEMMA SettingTypes ==
    ASSUME TypeOK
    PROVE  /\ WarningStreak \in Nat \ {0} /\ setting.requests \in Nat /\ setting.faults \in Nat
           /\ setting.lags \in BOOLEAN /\ setting.overlap \in BOOLEAN
           /\ setting.replicas \subseteq Replica /\ setting.sensors \subseteq Sensor
  <1>1. setting \in [replicas : SUBSET Replica, flight : Nat, sensors : SUBSET Sensor,
                     streak : Nat \ {0}, lags : BOOLEAN, patches : SUBSET Status,
                     overlap : BOOLEAN, requests : Nat, faults : Nat]
    BY DetectionAssumption DEF TypeOK, DetectionAssumption
  <1> QED
    BY <1>1 DEF WarningStreak

LEMMA NothingTypes == Nothing \in [replica : Replica, sensor : Sensor, reading : Reading]
  <1>1. (CHOOSE r \in Replica : TRUE) \in Replica /\ (CHOOSE s \in Sensor : TRUE) \in Sensor
    BY DetectionAssumption DEF DetectionAssumption
  <1> QED
    BY <1>1 DEF Nothing, Reading

\* Handlers that finish hold nothing, the others what they held.
LEMMA FinishTypes ==
    ASSUME TypeOK, NEW D \in SUBSET Handler, Finish(D)
    PROVE  /\ pc' \in [Handler -> {"idle", "record", "evaluate", "list", "put", "alert"}]
           /\ sample' \in [Handler -> [replica : Replica, sensor : Sensor, reading : Reading]]
           /\ cause' \in [Handler -> {"none", "critical", "streak", "manual"}]
           /\ \A h \in Handler : /\ h \in D => pc'[h] = "idle"
                                 /\ h \notin D => /\ pc'[h] = pc[h] /\ sample'[h] = sample[h]
                                                  /\ cause'[h] = cause[h]
  BY NothingTypes DEF TypeOK, Finish

LEMMA GotoTypes ==
    ASSUME TypeOK, NEW h \in Handler, NEW from, NEW to \in {"record", "evaluate", "list", "put", "alert"},
           Goto(h, from, to)
    PROVE  /\ pc' \in [Handler -> {"idle", "record", "evaluate", "list", "put", "alert"}]
           /\ pc[h] = from /\ pc'[h] = to
           /\ \A g \in Handler : g # h => pc'[g] = pc[g]
  BY DEF TypeOK, Goto

LEMMA Tables ==
    ASSUME TypeOK
    PROVE  /\ Len(incidents) \in Nat /\ Incident = 1..Len(incidents)
           /\ DOMAIN index = 1..Len(incidents)
           /\ incidents \in Seq(Stored) /\ index \in Seq(State)
           /\ \A i \in Incident : incidents[i] \in Stored /\ index[i] \in State
           /\ patches \subseteq Incident \X Status
  <1>1. incidents \in Seq(Stored) /\ index \in Seq(State) /\ Len(index) = Len(incidents)
    BY DEF TypeOK, Stored
  <1>2. patches \subseteq Incident \X Status
    BY DEF TypeOK
  <1> QED
    BY <1>1, <1>2 DEF Incident

LEMMA EntryTypes ==
    ASSUME TypeOK, NEW h \in Handler
    PROVE  /\ Entry(h) \in Stored
           /\ Entry(h).sensor = sample[h].sensor /\ Entry(h).state = "open" /\ Entry(h).by = h
           /\ Entry(h).source = "automatic" <=> cause[h] # "manual"
  BY DEF Entry, TypeOK, Stored, Status

LEMMA InsertTypes ==
    ASSUME TypeOK, NEW h \in Handler, Insert(h)
    PROVE  LET n == Len(incidents) + 1 IN
           /\ incidents' \in Seq(Stored) /\ index' \in Seq(State)
           /\ Len(incidents') = n /\ Len(index') = n
           /\ Incident' = Incident \cup {n} /\ n \notin Incident /\ n \in Nat
           /\ \A i \in Incident : incidents'[i] = incidents[i] /\ index'[i] = index[i] /\ i < n
           /\ incidents'[n] = Entry(h)
           /\ ~setting.lags => index'[n] = "open"
           /\ patches' = patches
  <1> DEFINE new == Entry(h)
  <1>1. new \in Stored
    BY EntryTypes
  <1>2. PICK shown \in Shown("open", "absent") :
            incidents' = Append(incidents, new) /\ index' = Append(index, shown)
    BY DEF Insert
  <1>3. shown \in State /\ (~setting.lags => shown = "open")
    BY DEF Shown, State, Status
  <1>4. incidents \in Seq(Stored) /\ index \in Seq(State) /\ Len(index) = Len(incidents)
    BY DEF TypeOK, Stored
  <1>5. patches' = patches
    BY DEF Insert
  <1> HIDE DEF new
  <1> QED
    BY <1>1, <1>2, <1>3, <1>4, <1>5 DEF Incident, new

LEMMA TypeInit == Init => TypeInv
  <1> SUFFICES ASSUME Init PROVE TypeInv
    OBVIOUS
  <1>1. setting \in [replicas : SUBSET Replica, flight : Nat, sensors : SUBSET Sensor,
                     streak : Nat \ {0}, lags : BOOLEAN, patches : SUBSET Status,
                     overlap : BOOLEAN, requests : Nat, faults : Nat]
    BY DetectionAssumption DEF Init, DetectionAssumption
  <1>2. WarningStreak \in Nat \ {0} /\ setting.requests \in Nat /\ setting.faults \in Nat
    BY <1>1 DEF WarningStreak
  <1> QED
    BY <1>1, <1>2, NothingTypes DEF Init, TypeInv, TypeOK, Incident, State, Status

\* A call that leaves the incidents alone leaves every handler's own one alone.
LEMMA SameNewest ==
    ASSUME incidents' = incidents
    PROVE  /\ Incident' = Incident
           /\ \A i, h : Newest(i, h)' <=> Newest(i, h)
  BY DEF Incident, Newest

\* The incident a handler puts is its newest; the others keep theirs.
LEMMA InsertNewest ==
    ASSUME TypeOK, NEW h \in Handler, Insert(h)
    PROVE  /\ Newest(Len(incidents), h)'
           /\ \A i \in Incident, g \in Handler : g # h => (Newest(i, g)' <=> Newest(i, g))
  <1>1. PICK n : n = Len(incidents) + 1
    OBVIOUS
  <1>2. /\ Incident' = Incident \cup {n} /\ n \notin Incident /\ n \in Nat /\ n = Len(incidents')
        /\ \A i \in Incident : incidents'[i] = incidents[i] /\ i < n
        /\ incidents'[n].by = h
    BY <1>1, InsertTypes, EntryTypes
  <1>3. \A i \in Incident : i <= n
    BY <1>2 DEF Incident
  <1>4. Newest(n, h)'
    BY <1>2, <1>3 DEF Newest
  <1>5. \A i \in Incident, g \in Handler : g # h => (Newest(i, g)' <=> Newest(i, g))
    BY <1>2 DEF Newest
  <1> QED
    BY <1>2, <1>4, <1>5

\* A change of an incident's state moves nobody's newest.
LEMMA WriteTypes ==
    ASSUME TypeOK, NEW i \in Incident, NEW to \in Status, WritePatch(i, to)
    PROVE  /\ incidents' \in Seq(Stored) /\ index' \in Seq(State)
           /\ Len(incidents') = Len(incidents) /\ Len(index') = Len(index)
           /\ Incident' = Incident /\ patches' \subseteq Incident \X Status
           /\ \A j \in Incident : incidents'[j].state = IF j = i THEN to ELSE incidents[j].state
           /\ \A j \in Incident : /\ incidents'[j].by = incidents[j].by
                                  /\ incidents'[j].sensor = incidents[j].sensor
                                  /\ incidents'[j].source = incidents[j].source
           /\ \A j, h : Newest(j, h)' <=> Newest(j, h)
  <1>0. /\ incidents \in Seq(Stored) /\ index \in Seq(State) /\ Len(index) = Len(incidents)
        /\ i \in 1..Len(incidents) /\ incidents[i] \in Stored /\ index[i] \in State
    BY Tables
  <1>1. incidents' = [incidents EXCEPT ![i] = [incidents[i] EXCEPT !.state = to]]
    BY <1>0 DEF WritePatch
  <1>2. PICK shown \in Shown(to, index[i]) : index' = [index EXCEPT ![i] = shown]
    BY DEF WritePatch
  <1>3. shown \in State
    BY <1>0, <1>2 DEF Shown, State
  <1>4. [incidents[i] EXCEPT !.state = to] \in Stored
    BY <1>0 DEF Stored
  <1>5. index' \in Seq(State) /\ Len(index') = Len(index)
    BY <1>0, <1>2, <1>3
  <1>6. incidents' \in Seq(Stored) /\ Len(incidents') = Len(incidents)
    BY <1>0, <1>1, <1>4
  <1>7. Incident' = Incident /\ patches' \subseteq Incident \X Status
    BY <1>6, Tables DEF Incident, WritePatch
  <1>8. \A j \in Incident : incidents'[j] = IF j = i THEN [incidents[j] EXCEPT !.state = to]
                                            ELSE incidents[j]
    BY <1>0, <1>1 DEF Incident
  <1>9. \A j \in Incident : /\ incidents'[j].state = IF j = i THEN to ELSE incidents[j].state
                            /\ incidents'[j].by = incidents[j].by
                            /\ incidents'[j].sensor = incidents[j].sensor
                            /\ incidents'[j].source = incidents[j].source
    BY <1>8, Tables DEF Stored
  <1>10. \A j, h : Newest(j, h)' <=> Newest(j, h)
    BY <1>7, <1>9 DEF Newest
  <1> QED
    BY <1>5, <1>6, <1>7, <1>9, <1>10

\* Steps of the detector and the calls leave the table alone, unless they insert.
LEMMA TypeStep == TypeInv /\ [Next]_vars => TypeInv'
  <1> SUFFICES ASSUME TypeInv, [Next]_vars PROVE TypeInv'
    OBVIOUS
  <1> USE DEF TypeInv
  <1>s. /\ WarningStreak \in Nat \ {0} /\ setting.requests \in Nat /\ setting.faults \in Nat
        /\ setting.lags \in BOOLEAN
    BY SettingTypes
  <1>t. Stored = [sensor : Sensor, state : Status, by : Handler, source : {"automatic", "manual"}]
    BY DEF Stored
  <1>1. CASE UNCHANGED vars
    BY <1>1 DEF vars, table, history, TypeOK, Incident, Newest, WarningStreak
  <1>0. ASSUME NEW h \in Handler, NEW r \in Replica, NEW s \in Sensor, Simulate(h, r, s)
        PROVE  TypeInv'
    <2>1. /\ pc' \in [Handler -> {"idle", "record", "evaluate", "list", "put", "alert"}]
          /\ pc'[h] = "put" /\ \A g \in Handler : g # h => pc'[g] = pc[g]
      BY <1>0, GotoTypes DEF Simulate
    <2>2. sample' \in [Handler -> [replica : Replica, sensor : Sensor, reading : Reading]]
      <3>1. [Nothing EXCEPT !.replica = r, !.sensor = s]
                \in [replica : Replica, sensor : Sensor, reading : Reading]
        BY NothingTypes
      <3> QED
        BY <1>0, <3>1 DEF Simulate, TypeOK
    <2>3. incidents' = incidents /\ Incident' = Incident /\ \A i, g : Newest(i, g)' <=> Newest(i, g)
      BY <1>0, SameNewest DEF Simulate, table
    <2>4. requests' \in 0..setting.requests
      <3>1. requests < setting.requests /\ requests' = requests + 1
        BY <1>0 DEF Simulate
      <3>2. requests \in 0..setting.requests
        BY DEF TypeOK
      <3> QED
        BY <3>1, <3>2, <1>s
    <2>5. cause' \in [Handler -> {"none", "critical", "streak", "manual"}]
      BY <1>0 DEF Simulate, TypeOK
    <2>6. TypeOK'
      BY <1>0, <2>1, <2>2, <2>3, <2>4, <2>5 DEF Simulate, TypeOK, table, history, WarningStreak
    <2> QED
      BY <2>1, <2>3, <2>6
  <1>2. ASSUME NEW h \in Handler, NEW r \in Replica, NEW s \in Sensor, NEW reading \in Reading,
               Receive(h, r, s, reading)
        PROVE  TypeInv'
    <2>1. /\ pc' \in [Handler -> {"idle", "record", "evaluate", "list", "put", "alert"}]
          /\ pc'[h] = "record" /\ \A g \in Handler : g # h => pc'[g] = pc[g]
      BY <1>2, GotoTypes DEF Receive
    <2>2. sample' \in [Handler -> [replica : Replica, sensor : Sensor, reading : Reading]]
      BY <1>2 DEF Receive, TypeOK
    <2>3. incidents' = incidents /\ Incident' = Incident /\ \A i, g : Newest(i, g)' <=> Newest(i, g)
      BY <1>2, SameNewest DEF Receive, table
    <2>4. requests' \in 0..setting.requests
      <3>1. requests < setting.requests /\ requests' = requests + 1
        BY <1>2 DEF Receive
      <3>2. requests \in 0..setting.requests
        BY DEF TypeOK
      <3> QED
        BY <3>1, <3>2, <1>s
    <2>5. run' \in [Sensor -> Nat] /\ closed' \in [Sensor -> SUBSET Incident]
      <3>1. run' = [run EXCEPT ![s] = IF reading = "warning" THEN @ + 1 ELSE 0]
        BY <1>2 DEF Receive
      <3>2. run' \in [Sensor -> Nat]
        <4>1. run \in [Sensor -> Nat] /\ run[s] \in Nat
          BY DEF TypeOK
        <4>2. PICK n \in Nat : n = IF reading = "warning" THEN run[s] + 1 ELSE 0
          BY <4>1
        <4>3. run' = [run EXCEPT ![s] = n]
          BY <3>1, <4>2
        <4> QED
          BY <4>1, <4>3
      <3>3. closed' = [closed EXCEPT ![s] = IF reading = "warning" /\ run[s] > 0 THEN @
                                            ELSE {i \in Incident : ~Open(i)}]
        BY <1>2 DEF Receive
      <3>4. closed' \in [Sensor -> SUBSET Incident]
        BY <3>3 DEF TypeOK
      <3> QED
        BY <3>2, <3>4
    <2>6. TypeOK'
      BY <1>2, <2>1, <2>2, <2>3, <2>4, <2>5 DEF Receive, TypeOK, table, WarningStreak
    <2> QED
      BY <2>1, <2>3, <2>6
  <1>3. ASSUME NEW h \in Handler, Record(h) \/ ListNone(h)
        PROVE  TypeInv'
    <2>1. /\ pc' \in [Handler -> {"idle", "record", "evaluate", "list", "put", "alert"}]
          /\ pc'[h] \in {"evaluate", "put"} /\ \A g \in Handler : g # h => pc'[g] = pc[g]
      BY <1>3, GotoTypes DEF Record, ListNone
    <2>2. UNCHANGED <<setting, streak, sample, cause, table, alerted, requests, faults, history>>
      BY <1>3 DEF Record, ListNone
    <2>3. Incident' = Incident /\ \A i, g : Newest(i, g)' <=> Newest(i, g)
      BY <2>2, SameNewest DEF table
    <2>4. TypeOK'
      BY <2>1, <2>2, <2>3 DEF TypeOK, table, history, WarningStreak
    <2> QED
      BY <2>1, <2>3, <2>4
  <1>4. ASSUME NEW h \in Handler, Evaluate(h)
        PROVE  TypeInv'
    <2> DEFINE r == sample[h].replica
               s == sample[h].sensor
               n == streak[r][s] + 1
    <2>1. r \in Replica /\ s \in Sensor /\ n \in Nat
      BY <1>s DEF TypeOK
    <2>2. Counted(sample[h].reading, n) \in 0..(WarningStreak - 1)
      BY <2>1, <1>s DEF Counted
    <2>3. streak' \in [Replica -> [Sensor -> 0..(WarningStreak - 1)]]
      BY <1>4, <2>1, <2>2 DEF Evaluate, TypeOK
    <2>4. /\ pc' \in [Handler -> {"idle", "record", "evaluate", "list", "put", "alert"}]
          /\ sample' \in [Handler -> [replica : Replica, sensor : Sensor, reading : Reading]]
          /\ cause' \in [Handler -> {"none", "critical", "streak", "manual"}]
          /\ \A g \in Handler : pc'[g] = "alert" => pc[g] = "alert"
      <3>1. CASE Finish({h})
        BY <3>1, FinishTypes
      <3>2. CASE /\ Goto(h, "evaluate", "list")
                 /\ cause' = [cause EXCEPT ![h] = Trigger(sample[h].reading, n)]
                 /\ Trigger(sample[h].reading, n) # "none" /\ UNCHANGED sample
        BY <3>2, GotoTypes DEF Trigger, TypeOK
      <3> QED
        BY <1>4, <3>1, <3>2 DEF Evaluate
    <2>5. warned' \in [Replica -> [Sensor -> Nat]] /\ alarms' \in [Replica -> [Sensor -> Nat]]
      <3>1. /\ warned' = [warned EXCEPT ![r][s] = IF sample[h].reading = "warning" THEN @ + 1 ELSE @]
            /\ alarms' = [alarms EXCEPT ![r][s] =
                              IF Trigger(sample[h].reading, n) = "streak" THEN @ + 1 ELSE @]
        BY <1>4 DEF Evaluate
      <3>2. warned \in [Replica -> [Sensor -> Nat]] /\ alarms \in [Replica -> [Sensor -> Nat]]
        BY DEF TypeOK
      <3> HIDE DEF r, s, n
      <3>3. warned' \in [Replica -> [Sensor -> Nat]]
        BY <2>1, <3>1, <3>2
      <3>4. alarms' \in [Replica -> [Sensor -> Nat]]
        BY <2>1, <3>1, <3>2
      <3> QED
        BY <3>3, <3>4
    <2>6. UNCHANGED <<setting, table, alerted, requests, faults, run, closed>>
      BY <1>4 DEF Evaluate
    <2>7. Incident' = Incident /\ \A i, g : Newest(i, g)' <=> Newest(i, g)
      BY <2>6, SameNewest DEF table
    <2>8. TypeOK'
      BY <2>3, <2>4, <2>5, <2>6, <2>7 DEF TypeOK, table, WarningStreak
    <2> QED
      BY <2>4, <2>7, <2>8
  <1>5. ASSUME NEW D \in SUBSET Handler, Finish(D), alerted' \subseteq Incident,
               faults' \in 0..setting.faults,
               streak' \in [Replica -> [Sensor -> 0..(WarningStreak - 1)]],
               UNCHANGED <<setting, table, requests, history>>
        PROVE  TypeInv'
    <2>1. Incident' = Incident /\ \A i, g : Newest(i, g)' <=> Newest(i, g)
      BY <1>5, SameNewest DEF table
    <2>2. /\ pc' \in [Handler -> {"idle", "record", "evaluate", "list", "put", "alert"}]
          /\ sample' \in [Handler -> [replica : Replica, sensor : Sensor, reading : Reading]]
          /\ cause' \in [Handler -> {"none", "critical", "streak", "manual"}]
          /\ \A g \in Handler : pc'[g] = "alert" => pc[g] = "alert"
      BY <1>5, FinishTypes
    <2>3. TypeOK'
      BY <1>5, <2>1, <2>2 DEF TypeOK, table, history, WarningStreak
    <2> QED
      BY <2>1, <2>2, <2>3
  <1>6. ASSUME NEW h \in Handler, Insert(h),
               pc' \in [Handler -> {"idle", "record", "evaluate", "list", "put", "alert"}],
               sample' \in [Handler -> [replica : Replica, sensor : Sensor, reading : Reading]],
               cause' \in [Handler -> {"none", "critical", "streak", "manual"}],
               \A g \in Handler : g # h /\ pc'[g] = "alert" => pc[g] = "alert",
               faults' \in 0..setting.faults,
               UNCHANGED <<setting, streak, alerted, requests, history>>
        PROVE  TypeInv'
    <2>1. /\ incidents' \in Seq(Stored) /\ index' \in Seq(State) /\ Len(index') = Len(incidents')
          /\ Incident \subseteq Incident' /\ Len(incidents') \in Incident'
      BY <1>6, InsertTypes
    <2>2. /\ Newest(Len(incidents), h)'
          /\ \A i \in Incident, g \in Handler : g # h => (Newest(i, g)' <=> Newest(i, g))
      BY <1>6, InsertNewest
    <2>3. closed' \in [Sensor -> SUBSET Incident'] /\ alerted' \subseteq Incident'
      BY <1>6, <2>1 DEF TypeOK, history
    <2>5. patches' \subseteq Incident' \X Status
      <3>1. patches' = patches /\ patches \subseteq Incident \X Status
        BY <1>6, InsertTypes, Tables
      <3> QED
        BY <2>1, <3>1
    <2>4. TypeOK'
      BY <1>6, <1>t, <2>1, <2>3, <2>5 DEF TypeOK, history, WarningStreak
    <2> QED
      BY <1>6, <2>1, <2>2, <2>4
  <1>7. ASSUME NEW h \in Handler, ListDuplicate(h)
        PROVE  TypeInv'
    BY <1>5, <1>7 DEF ListDuplicate, TypeOK
  <1>8. ASSUME NEW h \in Handler, Put(h)
        PROVE  TypeInv'
    <2>1. /\ pc' \in [Handler -> {"idle", "record", "evaluate", "list", "put", "alert"}]
          /\ \A g \in Handler : g # h => pc'[g] = pc[g]
      BY <1>8, GotoTypes DEF Put
    <2> QED
      BY <1>6, <1>8, <2>1 DEF Put, TypeOK
  <1>9. ASSUME NEW h \in Handler, pc[h] = "alert"
        PROVE  Own(h) \in Incident
    BY <1>9 DEF Own, Newest
  <1>10. ASSUME NEW h \in Handler, Alert(h)
         PROVE  TypeInv'
    <2>1. Own(h) \in Incident
      BY <1>9, <1>10 DEF Alert
    <2> QED
      BY <1>5, <1>10, <2>1 DEF Alert, TypeOK
  <1>11. ASSUME NEW h \in Handler, CallFails(h)
         PROVE  TypeInv'
    <2>1. faults' \in 0..setting.faults /\ Finish({h})
      BY <1>11, <1>s DEF CallFails, TypeOK
    <2>2. UNCHANGED <<setting, streak, requests, history>>
      BY <1>11 DEF CallFails
    <2>3. CASE UNCHANGED <<table, alerted>>
      BY <1>5, <2>1, <2>2, <2>3 DEF TypeOK
    <2>4. CASE Insert(h) /\ UNCHANGED alerted
      BY <1>6, <2>1, <2>2, <2>4, FinishTypes
    <2>5. CASE pc[h] = "alert" /\ alerted' = alerted \cup {Own(h)} /\ UNCHANGED table
      BY <1>5, <1>9, <2>1, <2>2, <2>5 DEF TypeOK
    <2> QED
      BY <1>11, <2>3, <2>4, <2>5 DEF CallFails
  <1>12. ASSUME NEW i \in Incident, NEW to \in Status, WritePatch(i, to)
         PROVE  TypeInv'
    <2>1. /\ incidents' \in Seq(Stored) /\ index' \in Seq(State)
          /\ Len(incidents') = Len(incidents) /\ Len(index') = Len(index)
          /\ Incident' = Incident /\ patches' \subseteq Incident \X Status
          /\ \A j, h : Newest(j, h)' <=> Newest(j, h)
      BY <1>12, WriteTypes
    <2>2. TypeOK'
      BY <1>12, <1>t, <2>1 DEF WritePatch, TypeOK, history, WarningStreak
    <2> QED
      BY <1>12, <2>1, <2>2 DEF WritePatch
  <1>15. ASSUME NEW i \in Incident, NEW to \in Status, JudgePatch(i, to) \/ PatchConflict(i, to)
         PROVE  TypeInv'
    <2>1. UNCHANGED <<setting, streak, pc, sample, cause, incidents, index, alerted, requests, faults,
                     history>>
      BY <1>15 DEF JudgePatch, PatchConflict
    <2>2. Incident' = Incident /\ \A j, g : Newest(j, g)' <=> Newest(j, g)
      BY <2>1, SameNewest
    <2>3. patches' \subseteq Incident \X Status
      BY <1>15 DEF JudgePatch, PatchConflict, TypeOK
    <2>4. TypeOK'
      BY <2>1, <2>2, <2>3 DEF TypeOK, history, WarningStreak
    <2> QED
      BY <2>1, <2>2, <2>4
  <1>13. ASSUME NEW i \in Incident, IndexCatchesUp(i)
         PROVE  TypeInv'
    <2>1. Incident' = Incident /\ \A j, g : Newest(j, g)' <=> Newest(j, g)
      BY <1>13, SameNewest DEF IndexCatchesUp
    <2>2. incidents[i].state \in State /\ index \in Seq(State)
      BY Tables DEF Stored, State
    <2>3. index' \in Seq(State) /\ Len(index') = Len(index)
      <3>1. PICK state \in State : state = incidents[i].state
        BY <2>2
      <3>2. index' = [index EXCEPT ![i] = state]
        BY <1>13, <3>1 DEF IndexCatchesUp
      <3>3. i \in 1..Len(index)
        BY Tables DEF TypeOK
      <3> QED
        BY <2>2, <3>2, <3>3
    <2>4. TypeOK'
      BY <1>13, <2>1, <2>3 DEF IndexCatchesUp, TypeOK, history, WarningStreak
    <2> QED
      BY <1>13, <2>1, <2>4 DEF IndexCatchesUp
  <1>14. ASSUME NEW r \in Replica, Restart(r)
         PROVE  TypeInv'
    <2>1. faults' \in 0..setting.faults
      BY <1>14, <1>s DEF Restart, TypeOK
    <2>2. streak' \in [Replica -> [Sensor -> 0..(WarningStreak - 1)]]
      BY <1>14, <1>s DEF Restart, TypeOK
    <2> QED
      BY <1>5, <1>14, <2>1, <2>2 DEF Restart, TypeOK
  <1> QED
    BY <1>0, <1>1, <1>2, <1>3, <1>4, <1>7, <1>8, <1>10, <1>11, <1>12, <1>13, <1>14, <1>15
       DEF Next, Handle, Idle

\* Every variable keeps its type: no step of the service, the users, the index or
\* a failing pod leaves the states the code knows.
THEOREM DetectionTypeCorrect == Spec => []TypeOK
  <1>1. TypeInv => TypeOK
    BY DEF TypeInv
  <1> QED
    BY <1>1, TypeInit, TypeStep, PTL DEF Spec

-----------------------------------------------------------------------------
(* Warnings pay for alarms, and what is stored is announced.               *)

LEMMA PaidInit == Init => PaidInv
  <1> SUFFICES ASSUME Init PROVE PaidInv
    OBVIOUS
  <1>1. WarningStreak \in Nat
    BY TypeInit, SettingTypes DEF TypeInv
  <1> QED
    BY <1>1 DEF Init, PaidInv

LEMMA PaidStep == TypeInv /\ PaidInv /\ [Next]_vars => PaidInv'
  <1> SUFFICES ASSUME TypeInv, PaidInv, [Next]_vars PROVE PaidInv'
    OBVIOUS
  <1>w. WarningStreak \in Nat \ {0}
    BY SettingTypes DEF TypeInv
  <1>t. /\ streak \in [Replica -> [Sensor -> Nat]]
        /\ warned \in [Replica -> [Sensor -> Nat]] /\ alarms \in [Replica -> [Sensor -> Nat]]
    BY <1>w DEF TypeInv, TypeOK
  <1>1. CASE UNCHANGED <<setting, streak, warned, alarms>>
    BY <1>1 DEF PaidInv, WarningStreak
  <1>2. ASSUME NEW h \in Handler, Evaluate(h)
        PROVE  PaidInv'
    <2> DEFINE r == sample[h].replica
               s == sample[h].sensor
               n == streak[r][s] + 1
    <2>1. sample[h] \in [replica : Replica, sensor : Sensor, reading : Reading]
      BY DEF TypeInv, TypeOK
    <2>2. r \in Replica /\ s \in Sensor /\ n \in Nat
      BY <1>t, <2>1
    <2>3. WarningStreak' = WarningStreak
      BY <1>2 DEF Evaluate, WarningStreak
    <2>4. \A q \in Replica, t \in Sensor :
             /\ streak'[q][t] = IF q = r /\ t = s THEN Counted(sample[h].reading, n) ELSE streak[q][t]
             /\ warned'[q][t] = IF q = r /\ t = s /\ sample[h].reading = "warning"
                                THEN warned[q][t] + 1 ELSE warned[q][t]
             /\ alarms'[q][t] = IF q = r /\ t = s /\ Trigger(sample[h].reading, n) = "streak"
                                THEN alarms[q][t] + 1 ELSE alarms[q][t]
      BY <1>2, <1>t, <2>2 DEF Evaluate
    <2>5. SUFFICES ASSUME NEW q \in Replica, NEW t \in Sensor
                   PROVE  WarningStreak * alarms'[q][t] + streak'[q][t] <= warned'[q][t]
      BY <2>3 DEF PaidInv
    <2>6. PICK a \in Nat, w \in Nat, k \in Nat :
              a = alarms[q][t] /\ w = warned[q][t] /\ k = streak[q][t]
      BY <1>t
    <2>7. WarningStreak * a + k <= w
      BY <2>6 DEF PaidInv
    <2>8. WarningStreak * a \in Nat /\ WarningStreak * (a + 1) = WarningStreak * a + WarningStreak
      BY <1>w, <2>6
    <2>9. CASE ~(q = r /\ t = s)
      BY <2>4, <2>6, <2>7, <2>9
    <2>10. CASE q = r /\ t = s /\ sample[h].reading # "warning"
      BY <1>w, <2>4, <2>6, <2>7, <2>8, <2>10 DEF Counted, Trigger
    <2>11. CASE q = r /\ t = s /\ sample[h].reading = "warning" /\ n < WarningStreak
      <3>1. Counted(sample[h].reading, n) = n /\ Trigger(sample[h].reading, n) # "streak"
        BY <1>w, <2>2, <2>11 DEF Counted, Trigger
      <3>2. streak'[q][t] = k + 1 /\ warned'[q][t] = w + 1 /\ alarms'[q][t] = a
        BY <2>4, <2>6, <2>11, <3>1
      <3> QED
        BY <2>6, <2>7, <2>8, <3>2
    <2>12. CASE q = r /\ t = s /\ sample[h].reading = "warning" /\ n >= WarningStreak
      <3>1. Counted(sample[h].reading, n) = 0 /\ Trigger(sample[h].reading, n) = "streak"
        BY <1>w, <2>2, <2>12 DEF Counted, Trigger
      <3>2. streak'[q][t] = 0 /\ warned'[q][t] = w + 1 /\ alarms'[q][t] = a + 1 /\ k + 1 >= WarningStreak
        BY <2>4, <2>6, <2>12, <3>1
      <3>3. WarningStreak * (a + 1) <= w + 1
        BY <1>w, <2>6, <2>7, <2>8, <3>2
      <3> QED
        BY <1>w, <2>6, <2>8, <3>2, <3>3
    <2> QED
      BY <1>w, <2>2, <2>9, <2>10, <2>11, <2>12
  <1>3. ASSUME NEW r \in Replica, Restart(r)
        PROVE  PaidInv'
    <2>1. WarningStreak' = WarningStreak /\ warned' = warned /\ alarms' = alarms
      BY <1>3 DEF Restart, WarningStreak, history
    <2>2. \A q \in Replica, t \in Sensor : streak'[q][t] \in {0, streak[q][t]}
      BY <1>3, <1>t DEF Restart
    <2> SUFFICES ASSUME NEW q \in Replica, NEW t \in Sensor
                 PROVE  WarningStreak * alarms[q][t] + streak'[q][t] <= warned[q][t]
      BY <2>1 DEF PaidInv
    <2>3. PICK a \in Nat, w \in Nat, k \in Nat :
              a = alarms[q][t] /\ w = warned[q][t] /\ k = streak[q][t]
      BY <1>t
    <2>4. WarningStreak * a + k <= w
      BY <2>3 DEF PaidInv
    <2>5. WarningStreak * a \in Nat
      BY <1>w, <2>3
    <2> QED
      BY <2>2, <2>3, <2>4, <2>5
  <1>4. ASSUME NEW h \in Handler, Handle(h) \/ CallFails(h), ~Evaluate(h)
        PROVE  PaidInv'
    BY <1>1, <1>4
       DEF Handle, history, Record, ListDuplicate, ListNone, Put, Alert, CallFails
  <1>5. ASSUME NEW h, NEW r, NEW s, NEW reading, Receive(h, r, s, reading) \/ Simulate(h, r, s)
        PROVE  PaidInv'
    BY <1>1, <1>5 DEF Receive, Simulate, history
  <1>6. ASSUME NEW i, NEW to, JudgePatch(i, to) \/ WritePatch(i, to) \/ PatchConflict(i, to)
                              \/ IndexCatchesUp(i)
        PROVE  PaidInv'
    BY <1>1, <1>6 DEF JudgePatch, WritePatch, PatchConflict, IndexCatchesUp, history
  <1>7. CASE UNCHANGED vars
    BY <1>1, <1>7 DEF vars, history
  <1> QED
    BY <1>2, <1>3, <1>4, <1>5, <1>6, <1>7 DEF Next, Handle, Idle

\* WarningStreak warnings of a sensor are evaluated by a replica for every streak
\* alarm it raises, whatever overtakes what and however often replicas are replaced.
THEOREM StreaksArePaidFor == Spec => []StreakIsPaidFor
  <1>1. TypeInv /\ PaidInv => StreakIsPaidFor
    <2> SUFFICES ASSUME TypeInv, PaidInv, NEW r \in Replica, NEW s \in Sensor
                 PROVE  WarningStreak * alarms[r][s] <= warned[r][s]
      BY DEF StreakIsPaidFor
    <2>1. WarningStreak \in Nat \ {0}
      BY SettingTypes DEF TypeInv
    <2>2. PICK a \in Nat, w \in Nat, k \in Nat :
              a = alarms[r][s] /\ w = warned[r][s] /\ k = streak[r][s]
      BY <2>1 DEF TypeInv, TypeOK
    <2>3. WarningStreak * a \in Nat
      BY <2>1
    <2> QED
      BY <2>2, <2>3 DEF PaidInv
  <1> QED
    BY <1>1, TypeInit, TypeStep, PaidInit, PaidStep, PTL DEF Spec

\* What keeps AnnouncedInv: no handler leaves "alert", no incident changes hands.
LEMMA AnnouncedKept ==
    ASSUME AnnouncedInv,
           faults' = faults, alerted \subseteq alerted', Incident' = Incident,
           \A i \in Incident : incidents'[i].by = incidents[i].by,
           \A i, h : Newest(i, h)' <=> Newest(i, h),
           \A h : pc[h] = "alert" => pc'[h] = "alert"
    PROVE  AnnouncedInv'
  BY DEF AnnouncedInv

LEMMA AnnouncedInit == Init => AnnouncedInv
  BY DEF Init, AnnouncedInv, Incident

LEMMA AnnouncedStep == TypeInv /\ AnnouncedInv /\ [Next]_vars => AnnouncedInv'
  <1> SUFFICES ASSUME TypeInv, AnnouncedInv, [Next]_vars PROVE AnnouncedInv'
    OBVIOUS
  <1>t. TypeOK /\ faults \in Nat /\ \A i \in Incident : incidents[i].by \in Handler
    <2>1. TypeOK /\ setting.faults \in Nat
      BY SettingTypes DEF TypeInv
    <2>2. faults \in Nat
      BY <2>1 DEF TypeOK
    <2>3. \A i \in Incident : incidents[i].by \in Handler
      BY <2>1, Tables DEF Stored
    <2> QED
      BY <2>1, <2>2, <2>3
  <1>1. CASE incidents' = incidents /\ alerted' = alerted /\ faults' = faults
             /\ (\A h \in Handler : pc[h] = "alert" => pc'[h] = "alert")
    BY <1>1, <1>t, SameNewest DEF AnnouncedInv
  <1>2. ASSUME NEW h \in Handler, NEW r \in Replica, NEW s \in Sensor, NEW reading \in Reading,
               Receive(h, r, s, reading)
        PROVE  AnnouncedInv'
    BY <1>1, <1>2, <1>t, GotoTypes DEF Receive, table
  <1>0. ASSUME NEW h \in Handler, NEW r \in Replica, NEW s \in Sensor, Simulate(h, r, s)
        PROVE  AnnouncedInv'
    BY <1>0, <1>1, <1>t, GotoTypes DEF Simulate, table
  <1>3. ASSUME NEW h \in Handler, Record(h) \/ ListNone(h)
        PROVE  AnnouncedInv'
    BY <1>1, <1>3, <1>t, GotoTypes DEF Record, ListNone, table
  <1>4. ASSUME NEW h \in Handler, Evaluate(h) \/ ListDuplicate(h)
        PROVE  AnnouncedInv'
    <2>1. \A g \in Handler : pc[g] = "alert" => pc'[g] = "alert"
      <3>1. CASE Finish({h}) /\ pc[h] # "alert"
        BY <3>1, <1>t, FinishTypes
      <3>2. CASE Goto(h, "evaluate", "list")
        BY <3>2, <1>t, GotoTypes
      <3> QED
        BY <1>4, <3>1, <3>2 DEF Evaluate, ListDuplicate
    <2> QED
      BY <1>1, <1>4, <2>1 DEF Evaluate, ListDuplicate, table
  <1>5. ASSUME NEW h \in Handler, Put(h)
        PROVE  AnnouncedInv'
    <2>1. /\ Newest(Len(incidents), h)'
          /\ \A i \in Incident, g \in Handler : g # h => (Newest(i, g)' <=> Newest(i, g))
      BY <1>5, <1>t, InsertNewest DEF Put
    <2>2. PICK n : n = Len(incidents) + 1
      OBVIOUS
    <2>3. /\ Incident' = Incident \cup {n} /\ Len(incidents') = n
          /\ \A i \in Incident : incidents'[i] = incidents[i]
          /\ incidents'[n].by = h
      BY <1>5, <1>t, <2>2, InsertTypes, EntryTypes DEF Put
    <2>4. pc[h] = "put" /\ pc'[h] = "alert" /\ \A g \in Handler : g # h => pc'[g] = pc[g]
      BY <1>5, <1>t, GotoTypes DEF Put
    <2>5. faults' = faults /\ alerted' = alerted
      BY <1>5 DEF Put
    <2>6. Newest(n, h)'
      BY <2>1, <2>3
    <2> SUFFICES ASSUME faults = 0, NEW i \in Incident \cup {n}
                 PROVE  i \in alerted \/ (pc'[incidents'[i].by] = "alert" /\ Newest(i, incidents[i].by)')
      BY <2>3, <2>5 DEF AnnouncedInv
    <2>7. CASE i = n
      BY <2>3, <2>4, <2>6, <2>7
    <2>8. CASE i \in Incident /\ incidents[i].by = h
      BY <2>4, <2>8 DEF AnnouncedInv
    <2>9. CASE i \in Incident /\ incidents[i].by # h
      BY <1>t, <2>1, <2>3, <2>4, <2>9 DEF AnnouncedInv
    <2> QED
      BY <2>7, <2>8, <2>9
  <1>6. ASSUME NEW h \in Handler, Alert(h)
        PROVE  AnnouncedInv'
    <2>1. PICK k : Newest(k, h)
      BY <1>6 DEF Alert, TypeInv
    <2>2. k \in Incident /\ incidents[k].by = h
      BY <2>1 DEF Newest
    <2>3. \A i, g : Newest(i, g)' <=> Newest(i, g)
      BY <1>6, SameNewest DEF Alert, table
    <2>4. alerted' = alerted \cup {Own(h)} /\ faults' = faults /\ incidents' = incidents /\ Incident' = Incident
      BY <1>6 DEF Alert, table, Incident
    <2>5. \A i \in Incident : Newest(i, h) => i = Own(h)
      BY DEF Own, Newest, Incident
    <2>6. \A g \in Handler : g # h => pc'[g] = pc[g]
      BY <1>6, <1>t, FinishTypes DEF Alert
    <2> QED
      BY <1>t, <2>3, <2>4, <2>5, <2>6 DEF AnnouncedInv
  <1>7. ASSUME NEW h \in Handler, CallFails(h)
        PROVE  AnnouncedInv'
    BY <1>7, <1>t DEF CallFails, AnnouncedInv
  <1>8. ASSUME NEW i \in Incident, NEW to \in Status, WritePatch(i, to)
        PROVE  AnnouncedInv'
    BY <1>8, <1>t, WriteTypes, AnnouncedKept DEF WritePatch
  <1>12. ASSUME NEW i \in Incident, NEW to \in Status, JudgePatch(i, to) \/ PatchConflict(i, to)
         PROVE  AnnouncedInv'
    BY <1>1, <1>12 DEF JudgePatch, PatchConflict
  <1>9. ASSUME NEW i \in Incident, IndexCatchesUp(i)
        PROVE  AnnouncedInv'
    BY <1>1, <1>9 DEF IndexCatchesUp
  <1>10. ASSUME NEW r \in Replica, Restart(r)
         PROVE  AnnouncedInv'
    BY <1>10, <1>t DEF Restart, AnnouncedInv
  <1>11. CASE UNCHANGED vars
    BY <1>1, <1>11 DEF vars, table
  <1> QED
    BY <1>0, <1>2, <1>3, <1>4, <1>5, <1>6, <1>7, <1>8, <1>9, <1>10, <1>11, <1>12
       DEF Next, Handle, Idle

\* Without a failed call, every stored automatic incident is announced, or the
\* handler that put it is about to.
THEOREM StoredAreAnnounced == Spec => []StoredIsAnnounced
  <1>1. TypeInv /\ AnnouncedInv => StoredIsAnnounced
    <2> SUFFICES ASSUME TypeInv, AnnouncedInv, faults = 0, NEW i \in Incident, i \notin alerted
                 PROVE  pc[incidents[i].by] = "alert" /\ i = Own(incidents[i].by)
      BY DEF StoredIsAnnounced
    <2>1. pc[incidents[i].by] = "alert" /\ Newest(i, incidents[i].by)
      BY DEF AnnouncedInv
    <2>2. \A j, k \in Incident : Newest(j, incidents[i].by) /\ Newest(k, incidents[i].by) => j = k
      BY DEF Newest, Incident
    <2> QED
      BY <2>1, <2>2 DEF Own, Newest
  <1> QED
    BY <1>1, TypeInit, TypeStep, AnnouncedInit, AnnouncedStep, PTL DEF Spec

-----------------------------------------------------------------------------
(* In order, one unresolved incident a sensor.                             *)

\* A run keeps its setting, and a failed call is never forgotten.
LEMMA SettingKept ==
    ASSUME [Next]_vars
    PROVE  setting' = setting /\ faults' \in {faults, faults + 1}
  <1>1. ASSUME NEW h, NEW r, NEW s, NEW reading, Receive(h, r, s, reading) \/ Simulate(h, r, s)
        PROVE  setting' = setting /\ faults' = faults
    BY <1>1 DEF Receive, Simulate
  <1>2. ASSUME NEW h, Handle(h) PROVE setting' = setting /\ faults' = faults
    BY <1>2 DEF Handle, Record, Evaluate, ListDuplicate, ListNone, Put, Alert
  <1>3. ASSUME NEW h, CallFails(h) \/ Restart(h) PROVE setting' = setting /\ faults' = faults + 1
    BY <1>3 DEF CallFails, Restart
  <1>4. ASSUME NEW i, NEW to, JudgePatch(i, to) \/ WritePatch(i, to) \/ PatchConflict(i, to)
        PROVE  setting' = setting /\ faults' = faults
    BY <1>4 DEF JudgePatch, WritePatch, PatchConflict
  <1>5. ASSUME NEW i, IndexCatchesUp(i) PROVE setting' = setting /\ faults' = faults
    BY <1>5 DEF IndexCatchesUp
  <1> QED
    BY <1>1, <1>2, <1>3, <1>4, <1>5 DEF Next, Idle, vars

LEMMA OrderKept == TypeInv /\ [Next]_vars /\ InOrder' => InOrder
  <1> SUFFICES ASSUME TypeInv, [Next]_vars, InOrder' PROVE InOrder
    OBVIOUS
  <1>1. faults \in Nat
    BY SettingTypes DEF TypeInv, TypeOK
  <1>2. setting' = setting /\ faults' \in {faults, faults + 1} /\ faults' = 0
    BY SettingKept DEF InOrder
  <1>3. faults = 0
    BY <1>1, <1>2
  <1> QED
    BY <1>2, <1>3 DEF InOrder

\* A sample that comes in finds no other in flight.
LEMMA ReceiveAlone ==
    ASSUME TypeOK, InOrder, NEW h \in Handler, NEW r, NEW s, NEW reading, Receive(h, r, s, reading)
    PROVE  \A g \in Handler : ~InFlight(g)
  <1> DEFINE B == {g \in Handler : InFlight(g)}
  <1>1. IsFiniteSet(B)
    BY DetectionAssumption, FS_Subset DEF DetectionAssumption
  <1>2. Cardinality(B) \in Nat /\ Cardinality(B) < 1
    BY <1>1, FS_CardinalityType DEF Receive, InOrder
  <1>3. B = {}
    BY <1>1, <1>2, FS_EmptySet
  <1> QED
    BY <1>3

LEMMA OrderInit == Init => OrderInv
  BY DEF Init, OrderInv, OneOpenIncident, InFlight, Incident

LEMMA OrderStep == TypeInv /\ OrderInv /\ [Next]_vars => OrderInv'
  <1> SUFFICES ASSUME TypeInv, OrderInv, [Next]_vars PROVE OrderInv'
    OBVIOUS
  <1> SUFFICES ASSUME InOrder, InOrder' PROVE OrderInv'
    BY OrderKept DEF OrderInv
  <1>t. TypeOK
    BY DEF TypeInv
  <1>f. faults = 0 /\ faults' = 0 /\ ~setting.lags /\ ~setting.overlap
    BY DEF InOrder
  <1>o. /\ \A g, h \in Handler : InFlight(g) /\ InFlight(h) => g = h
        /\ \A i \in Incident : index[i] = incidents[i].state
        /\ \A h \in Handler : pc[h] = "put" /\ cause[h] # "manual" =>
               \A i \in Incident : Automatic(i) /\ incidents[i].sensor = sample[h].sensor => ~Open(i)
        /\ \A i \in Incident, to \in Status : <<i, to>> \in patches =>
               Open(i) /\ \A other \in Status : <<i, other>> \in patches => other = to
        /\ OneOpenIncident
    BY DEF OrderInv
  <1>1. ASSUME UNCHANGED table,
               \A g \in Handler : InFlight(g)' => InFlight(g),
               \A g \in Handler : pc'[g] = "put" /\ cause'[g] # "manual" =>
                   pc[g] = "put" /\ cause[g] # "manual" /\ sample'[g] = sample[g]
        PROVE  OrderInv'
    <2>1. /\ incidents' = incidents /\ index' = index /\ patches' = patches /\ Incident' = Incident
          /\ \A i : (Open(i)' <=> Open(i)) /\ (Automatic(i)' <=> Automatic(i))
      BY <1>1 DEF table, Incident, Open, Automatic
    <2>2. OneOpenIncident'
      BY <1>o, <2>1 DEF OneOpenIncident
    <2> QED
      BY <1>o, <1>1, <2>1, <2>2 DEF OrderInv
  <1>2. ASSUME NEW h \in Handler, NEW r \in Replica, NEW s \in Sensor, NEW reading \in Reading,
               Receive(h, r, s, reading)
        PROVE  OrderInv'
    <2>1. \A g \in Handler : ~InFlight(g)
      BY <1>2, <1>t, ReceiveAlone
    <2>2. pc'[h] = "record" /\ \A g \in Handler : g # h => pc'[g] = pc[g]
      BY <1>2, <1>t, GotoTypes DEF Receive
    <2>3. cause' = cause /\ incidents' = incidents /\ index' = index /\ patches' = patches /\ Incident' = Incident
      BY <1>2 DEF Receive, table, Incident
    <2>4. \A g \in Handler : InFlight(g)' => g = h
      BY <2>1, <2>2, <2>3 DEF InFlight
    <2>5. \A g \in Handler : pc'[g] = "put" => cause'[g] = "manual"
      BY <2>1, <2>2, <2>3 DEF InFlight
    <2>6. OneOpenIncident'
      BY <1>o, <2>3 DEF OneOpenIncident, Open, Automatic
    <2> QED
      BY <1>o, <2>3, <2>4, <2>5, <2>6 DEF OrderInv, Open
  <1>3. ASSUME NEW h \in Handler, NEW r \in Replica, NEW s \in Sensor, Simulate(h, r, s)
        PROVE  OrderInv'
    <2>1. pc'[h] = "put" /\ \A g \in Handler : g # h => pc'[g] = pc[g]
      BY <1>3, <1>t, GotoTypes DEF Simulate
    <2>2. /\ cause'[h] = "manual"
          /\ \A g \in Handler : g # h => cause'[g] = cause[g] /\ sample'[g] = sample[g]
          /\ UNCHANGED table
      BY <1>3, <1>t DEF Simulate, TypeOK
    <2>3. \A g \in Handler : InFlight(g)' => InFlight(g)
      BY <2>1, <2>2 DEF InFlight
    <2> QED
      BY <1>1, <2>1, <2>2, <2>3
  <1>4. ASSUME NEW h \in Handler, Record(h)
        PROVE  OrderInv'
    <2>1. pc[h] = "record" /\ pc'[h] = "evaluate" /\ \A g \in Handler : g # h => pc'[g] = pc[g]
      BY <1>4, <1>t, GotoTypes DEF Record
    <2>2. UNCHANGED <<sample, cause, table>>
      BY <1>4 DEF Record
    <2>3. \A g \in Handler : InFlight(g)' => InFlight(g)
      BY <2>1, <2>2 DEF InFlight
    <2> QED
      BY <1>1, <2>1, <2>2, <2>3
  <1>5. ASSUME NEW D \in SUBSET Handler, Finish(D), UNCHANGED table
        PROVE  OrderInv'
    <2>1. \A g \in Handler : InFlight(g)' => InFlight(g)
      BY <1>5, <1>t, FinishTypes DEF InFlight
    <2> QED
      BY <1>1, <1>5, <1>t, <2>1, FinishTypes
  <1>6. ASSUME NEW h \in Handler, Evaluate(h)
        PROVE  OrderInv'
    <2>1. CASE Finish({h})
      BY <1>5, <1>6, <2>1 DEF Evaluate
    <2>2. CASE Goto(h, "evaluate", "list") /\ UNCHANGED sample
               /\ \E why : cause' = [cause EXCEPT ![h] = why]
      <3>1. pc[h] = "evaluate" /\ pc'[h] = "list" /\ \A g \in Handler : g # h => pc'[g] = pc[g]
        BY <2>2, <1>t, GotoTypes
      <3>2. sample' = sample /\ \A g \in Handler : g # h => cause'[g] = cause[g]
        BY <2>2, <1>t DEF TypeOK
      <3>3. \A g \in Handler : InFlight(g)' => InFlight(g)
        BY <3>1, <3>2 DEF InFlight
      <3> QED
        BY <1>1, <1>6, <3>1, <3>2, <3>3 DEF Evaluate
    <2> QED
      BY <1>6, <2>1, <2>2 DEF Evaluate
  <1>7. ASSUME NEW h \in Handler, ListNone(h)
        PROVE  OrderInv'
    <2>1. pc[h] = "list" /\ pc'[h] = "put" /\ \A g \in Handler : g # h => pc'[g] = pc[g]
      BY <1>7, <1>t, GotoTypes DEF ListNone
    <2>2. /\ sample' = sample /\ cause' = cause /\ incidents' = incidents /\ index' = index
          /\ patches' = patches /\ Incident' = Incident
      BY <1>7 DEF ListNone, table, Incident
    <2>3. \A i \in Incident : incidents[i].sensor = sample[h].sensor => ~Open(i)
      BY <1>7, <1>o DEF ListNone, Listed, Open
    <2>4. \A g \in Handler : InFlight(g)' => InFlight(g)
      BY <2>1, <2>2 DEF InFlight
    <2>5. OneOpenIncident'
      BY <1>o, <2>2 DEF OneOpenIncident, Open, Automatic
    <2>6. \A g \in Handler : pc'[g] = "put" /\ cause'[g] # "manual" =>
              \A i \in Incident : Automatic(i) /\ incidents[i].sensor = sample[g].sensor => ~Open(i)
      BY <1>o, <2>1, <2>2, <2>3
    <2> QED
      BY <1>o, <2>2, <2>4, <2>5, <2>6 DEF OrderInv, Open, Automatic
  <1>8. ASSUME NEW h \in Handler, Put(h)
        PROVE  OrderInv'
    <2>0. pc[h] = "put" /\ pc'[h] = "alert" /\ \A g \in Handler : g # h => pc'[g] = pc[g]
      BY <1>8, <1>t, GotoTypes DEF Put
    <2>1. PICK n : n = Len(incidents) + 1
      OBVIOUS
    <2>2. /\ Incident' = Incident \cup {n} /\ n \notin Incident
          /\ \A i \in Incident : incidents'[i] = incidents[i] /\ index'[i] = index[i]
          /\ incidents'[n] = Entry(h) /\ index'[n] = "open" /\ patches' = patches
      BY <1>8, <1>t, <1>f, <2>1, InsertTypes DEF Put
    <2>3. /\ incidents'[n].sensor = sample[h].sensor /\ incidents'[n].state = "open"
          /\ Automatic(n)' <=> cause[h] # "manual"
      BY <1>t, <2>2, EntryTypes DEF Automatic
    <2>4. /\ \A i \in Incident : (Open(i)' <=> Open(i)) /\ (Automatic(i)' <=> Automatic(i))
          /\ Open(n)'
      BY <2>2, <2>3 DEF Open, Automatic
    <2>5. sample' = sample /\ cause' = cause
      BY <1>8 DEF Put
    <2>6. \A g \in Handler : InFlight(g)' => InFlight(g)
      BY <2>0, <2>5 DEF InFlight
    <2>7. ASSUME NEW g \in Handler, pc'[g] = "put", cause'[g] # "manual", NEW i \in Incident',
                 Automatic(i)', incidents'[i].sensor = sample'[g].sensor
          PROVE  ~Open(i)'
      <3>1. g # h /\ pc[g] = "put" /\ cause[g] # "manual"
        BY <2>0, <2>5, <2>7
      <3>2. CASE i = n
        <4>1. cause[h] # "manual"
          BY <2>3, <2>7, <3>2
        <4>2. InFlight(g) /\ InFlight(h)
          BY <2>0, <3>1, <4>1 DEF InFlight
        <4> QED
          BY <1>o, <3>1, <4>2
      <3>3. CASE i \in Incident
        BY <1>o, <2>2, <2>4, <2>5, <2>7, <3>1, <3>3
      <3> QED
        BY <2>2, <3>2, <3>3
    <2>8. cause[h] # "manual" => \A i \in Incident :
              Automatic(i) /\ incidents[i].sensor = sample[h].sensor => ~Open(i)
      BY <1>o, <2>0
    <2>9. OneOpenIncident'
      BY <1>o, <2>2, <2>3, <2>4, <2>8 DEF OneOpenIncident
    <2>10. \A i \in Incident', to \in Status : <<i, to>> \in patches' =>
               Open(i)' /\ \A other \in Status : <<i, other>> \in patches' => other = to
      <3>1. \A to \in Status : <<n, to>> \notin patches
        BY <1>t, <2>2, Tables
      <3> QED
        BY <1>o, <2>2, <2>4, <3>1
    <2>11. \A i \in Incident' : index'[i] = incidents'[i].state
      BY <1>o, <2>2, <2>3
    <2> QED
      BY <1>o, <2>6, <2>7, <2>9, <2>10, <2>11 DEF OrderInv
  <1>9. ASSUME NEW h \in Handler, CallFails(h)
        PROVE  OrderInv'
    BY <1>9, <1>f DEF CallFails
  <1>10. ASSUME NEW i \in Incident, NEW to \in Status, WritePatch(i, to)
         PROVE  OrderInv'
    <2>1. /\ Incident' = Incident
          /\ \A j \in Incident : /\ incidents'[j].state = IF j = i THEN to ELSE incidents[j].state
                                 /\ incidents'[j].sensor = incidents[j].sensor
                                 /\ incidents'[j].source = incidents[j].source
      BY <1>10, <1>t, WriteTypes
    <2>2. <<i, to>> \in patches /\ patches' = patches \ {<<i, to>>}
      BY <1>10 DEF WritePatch
    <2>3. index' = [index EXCEPT ![i] = to]
      BY <1>10, <1>f DEF WritePatch, Shown
    <2>4. \A j \in Incident : index'[j] = incidents'[j].state
      BY <1>t, <1>o, <2>1, <2>3, Tables
    <2>5. pc' = pc /\ sample' = sample /\ cause' = cause
      BY <1>10 DEF WritePatch
    <2>6. Open(i)
      BY <1>o, <2>2
    <2>7. \A j \in Incident : /\ Open(j)' => Open(j)
                              /\ j # i => (Open(j)' <=> Open(j))
                              /\ Automatic(j)' <=> Automatic(j)
      BY <2>1, <2>6 DEF Open, Automatic
    <2>8. OneOpenIncident'
      BY <1>o, <2>1, <2>7 DEF OneOpenIncident
    <2>9. \A j \in Incident, st \in Status : <<j, st>> \in patches' =>
              Open(j)' /\ \A other \in Status : <<j, other>> \in patches' => other = st
      <3>1. \A st \in Status : <<i, st>> \notin patches'
        BY <1>o, <2>2
      <3> QED
        BY <1>o, <2>2, <2>7, <3>1
    <2>10. \A g \in Handler : InFlight(g)' <=> InFlight(g)
      BY <2>5 DEF InFlight
    <2> QED
      BY <1>o, <2>1, <2>4, <2>5, <2>7, <2>8, <2>9, <2>10 DEF OrderInv
  <1>11. ASSUME NEW i \in Incident, IndexCatchesUp(i)
         PROVE  OrderInv'
    BY <1>11, <1>o DEF IndexCatchesUp
  <1>12. CASE UNCHANGED vars
    BY <1>1, <1>12 DEF vars, InFlight
  <1>13. ASSUME NEW h \in Handler, ListDuplicate(h) \/ Alert(h)
         PROVE  OrderInv'
    BY <1>5, <1>13 DEF ListDuplicate, Alert, table
  <1>14. ASSUME NEW r \in Replica, Restart(r)
         PROVE  OrderInv'
    BY <1>14, <1>f DEF Restart
  <1>15. ASSUME NEW i \in Incident, NEW to \in Status, JudgePatch(i, to) \/ PatchConflict(i, to)
         PROVE  OrderInv'
    <2>1. /\ incidents' = incidents /\ index' = index /\ Incident' = Incident
          /\ pc' = pc /\ sample' = sample /\ cause' = cause
      BY <1>15 DEF JudgePatch, PatchConflict, Incident
    <2>2. \A j : (Open(j)' <=> Open(j)) /\ (Automatic(j)' <=> Automatic(j))
      BY <2>1 DEF Open, Automatic
    <2>3. OneOpenIncident'
      BY <1>o, <2>1, <2>2 DEF OneOpenIncident
    <2>4. \A j \in Incident, st \in Status : <<j, st>> \in patches' =>
              Open(j) /\ \A other \in Status : <<j, other>> \in patches' => other = st
      <3>1. CASE JudgePatch(i, to)
        <4>1. /\ Open(i) /\ patches' = patches \cup {<<i, to>>}
              /\ \A p \in patches : p[1] # i
          BY <1>f, <3>1 DEF JudgePatch
        <4>2. \A st \in Status : <<i, st>> \notin patches
          BY <4>1
        <4>3. \A j \in Incident, st \in Status : <<j, st>> \in patches' =>
                  <<j, st>> \in patches \/ (j = i /\ st = to)
          BY <4>1
        <4> QED
          BY <1>o, <4>1, <4>2, <4>3
      <3>2. CASE PatchConflict(i, to)
        BY <1>o, <3>2 DEF PatchConflict
      <3> QED
        BY <1>15, <3>1, <3>2
    <2>5. \A g \in Handler : InFlight(g)' <=> InFlight(g)
      BY <2>1 DEF InFlight
    <2> QED
      BY <1>o, <2>1, <2>2, <2>3, <2>4, <2>5 DEF OrderInv
  <1> QED
    BY <1>2, <1>3, <1>4, <1>6, <1>7, <1>8, <1>9, <1>10, <1>11, <1>12, <1>13, <1>14, <1>15
       DEF Next, Handle, Idle

\* One replica, one sample at a time, an index that keeps up and one PATCH of an
\* incident at a time are enough, if no call fails, for the rule of one unresolved
\* automatic incident a sensor, whatever people simulate meanwhile.
THEOREM OneIncidentInOrder == Spec => []OneOpenInOrder
  <1>1. OrderInv => OneOpenInOrder
    BY DEF OrderInv, OneOpenInOrder
  <1> QED
    BY <1>1, TypeInit, TypeStep, OrderInit, OrderStep, PTL DEF Spec

-----------------------------------------------------------------------------
(* In order, the streak follows the run.                                   *)

LEMMA OneReplica ==
    ASSUME TypeOK, InOrder
    PROVE  \E r \in Replica : setting.replicas = {r}
  <1>1. setting.replicas \subseteq Replica /\ IsFiniteSet(setting.replicas)
    BY SettingTypes, DetectionAssumption, FS_Subset DEF DetectionAssumption
  <1>2. Cardinality(setting.replicas) = 1
    BY DEF InOrder
  <1>3. \E r : setting.replicas = {r}
    BY <1>1, <1>2, FS_Singleton
  <1> QED
    BY <1>1, <1>3

LEMMA RunInit == Init => RunInv
  <1> SUFFICES ASSUME Init PROVE RunInv
    OBVIOUS
  <1>1. setting.replicas \subseteq Replica
    BY TypeInit, SettingTypes DEF TypeInv
  <1> QED
    BY <1>1 DEF Init, RunInv, InFlight, Arriving, Incident

LEMMA RunStep == TypeInv /\ OrderInv /\ RunInv /\ [Next]_vars => RunInv'
  <1> SUFFICES ASSUME TypeInv, OrderInv, RunInv, [Next]_vars PROVE RunInv'
    OBVIOUS
  <1> SUFFICES ASSUME InOrder, InOrder' PROVE RunInv'
    BY OrderKept DEF RunInv
  <1>k. setting' = setting /\ WarningStreak' = WarningStreak /\ faults = 0 /\ faults' = 0
    BY SettingKept DEF InOrder, WarningStreak
  <1>t. TypeOK
    BY DEF TypeInv
  <1>w. WarningStreak \in Nat \ {0} /\ setting.faults \in Nat /\ faults \in Nat
    BY <1>t, SettingTypes DEF TypeOK
  <1>r. PICK p \in Replica : setting.replicas = {p}
    BY <1>t, OneReplica
  <1>n. /\ \A r \in Replica, t \in Sensor : streak[r][t] \in Nat /\ streak[r][t] < WarningStreak
        /\ \A t \in Sensor : run[t] \in Nat /\ closed[t] \subseteq Incident
        /\ \A g \in Handler : sample[g] \in [replica : Replica, sensor : Sensor, reading : Reading]
    BY <1>t, <1>w DEF TypeOK
  <1>b. \A g, h \in Handler : InFlight(g) /\ InFlight(h) => g = h
    BY DEF OrderInv
  <1>i.        /\ \A g \in Handler : InFlight(g) => sample[g].replica = p
               /\ \A t \in Sensor : \A i \in closed[t] : ~Open(i)
               /\ \A t \in Sensor :
                      \/ \E g \in Handler : Arriving(g, t)
                      \/ streak[p][t] <= run[t] /\ (streak[p][t] = run[t] \/ Fresh(t) \/ Alarming(t))
               /\ \A g \in Handler, t \in Sensor : Arriving(g, t) =>
                      IF sample[g].reading = "warning"
                      THEN streak[p][t] + 1 <= run[t] /\ (streak[p][t] + 1 = run[t] \/ Fresh(t))
                      ELSE run[t] = 0
               /\ \A g \in Handler : pc[g] \in {"list", "put", "alert"} /\ cause[g] = "streak" =>
                      run[sample[g].sensor] >= WarningStreak
    BY <1>r DEF RunInv, InFlight, Arriving
  <1>p. ASSUME \A g \in Handler : InFlight(g)' => sample'[g].replica = p,
               \A t \in Sensor : \A i \in closed'[t] : ~Open(i)',
               \A t \in Sensor :
                      \/ \E g \in Handler : Arriving(g, t)'
                      \/ streak'[p][t] <= run'[t] /\ (streak'[p][t] = run'[t] \/ Fresh(t)' \/ Alarming(t)'),
               \A g \in Handler, t \in Sensor : Arriving(g, t)' =>
                      IF sample'[g].reading = "warning"
                      THEN streak'[p][t] + 1 <= run'[t] /\ (streak'[p][t] + 1 = run'[t] \/ Fresh(t)')
                      ELSE run'[t] = 0,
               \A g \in Handler : pc'[g] \in {"list", "put", "alert"} /\ cause'[g] = "streak" =>
                      run'[sample'[g].sensor] >= WarningStreak
        PROVE  RunInv'
    BY <1>p, <1>k, <1>r DEF RunInv, InFlight, Arriving
  <1>1. ASSUME UNCHANGED <<streak, run, closed>>,
               \A g \in Handler : InFlight(g)' =>
                   InFlight(g) /\ sample'[g] = sample[g] /\ cause'[g] = cause[g],
               \A g \in Handler : pc'[g] \in {"record", "evaluate"} <=> pc[g] \in {"record", "evaluate"},
               \A g \in Handler : InFlight(g)' /\ pc'[g] \in {"list", "put", "alert"} =>
                   pc[g] \in {"list", "put", "alert"},
               \A t \in Sensor : \A i \in closed[t] : ~Open(i)',
               \A t \in Sensor : Fresh(t) => Fresh(t)',
               \A t \in Sensor : Alarming(t) => Alarming(t)' \/ Fresh(t)'
        PROVE  RunInv'
    <2>1. \A g \in Handler, t \in Sensor : Arriving(g, t)' <=> Arriving(g, t)
      BY <1>1 DEF Arriving, InFlight
    <2>2. \A g \in Handler, t \in Sensor : Arriving(g, t) => sample'[g] = sample[g]
      BY <1>1 DEF Arriving, InFlight
    <2>3. \A t \in Sensor :
              \/ \E g \in Handler : Arriving(g, t)'
              \/ streak'[p][t] <= run'[t] /\ (streak'[p][t] = run'[t] \/ Fresh(t)' \/ Alarming(t)')
      BY <1>1, <1>i, <2>1
    <2>4. \A g \in Handler, t \in Sensor : Arriving(g, t)' =>
              IF sample'[g].reading = "warning"
              THEN streak'[p][t] + 1 <= run'[t] /\ (streak'[p][t] + 1 = run'[t] \/ Fresh(t)')
              ELSE run'[t] = 0
      BY <1>1, <1>i, <2>1, <2>2
    <2>5. \A g \in Handler : InFlight(g)' => sample'[g].replica = p
      BY <1>1, <1>i
    <2>6. \A g \in Handler : pc'[g] \in {"list", "put", "alert"} /\ cause'[g] = "streak" =>
              run'[sample'[g].sensor] >= WarningStreak
      BY <1>1, <1>i DEF InFlight
    <2>7. \A t \in Sensor : \A i \in closed'[t] : ~Open(i)'
      BY <1>1
    <2> QED
      BY <1>p, <2>3, <2>4, <2>5, <2>6, <2>7
  <1>2. ASSUME UNCHANGED <<incidents, closed>>
        PROVE  \A t \in Sensor : Fresh(t)' <=> Fresh(t)
    BY <1>2 DEF Fresh, Incident
  <1>3. ASSUME NEW h \in Handler, NEW r \in Replica, NEW s \in Sensor, NEW reading \in Reading,
               Receive(h, r, s, reading)
        PROVE  RunInv'
    <2>1. \A g \in Handler : ~InFlight(g)
      BY <1>3, <1>t, ReceiveAlone
    <2>2. /\ pc'[h] = "record" /\ \A g \in Handler : g # h => pc'[g] = pc[g]
          /\ cause' = cause
          /\ sample'[h] = [replica |-> r, sensor |-> s, reading |-> reading]
      <3>1. pc'[h] = "record" /\ \A g \in Handler : g # h => pc'[g] = pc[g]
        BY <1>3, <1>t, GotoTypes DEF Receive
      <3>2. sample' = [sample EXCEPT ![h] = [replica |-> r, sensor |-> s, reading |-> reading]]
        BY <1>3 DEF Receive
      <3>3. sample'[h] = [replica |-> r, sensor |-> s, reading |-> reading]
        BY <3>2, <1>t DEF TypeOK
      <3> QED
        BY <1>3, <3>1, <3>3 DEF Receive
    <2>3. r = p /\ streak' = streak /\ incidents' = incidents /\ Incident' = Incident
      BY <1>3, <1>r DEF Receive, table, Incident
    <2>4. /\ \A t \in Sensor : t # s => run'[t] = run[t] /\ closed'[t] = closed[t]
          /\ run'[s] = IF reading = "warning" THEN run[s] + 1 ELSE 0
          /\ closed'[s] = IF reading = "warning" /\ run[s] > 0 THEN closed[s]
                          ELSE {i \in Incident : ~Open(i)}
      BY <1>3, <1>t DEF Receive, TypeOK
    <2>5. \A t \in Sensor : streak[p][t] <= run[t] /\ (streak[p][t] = run[t] \/ Fresh(t))
      BY <1>i, <2>1, <2>3 DEF Arriving, Alarming, InFlight
    <2>6. \A t \in Sensor : closed'[t] = closed[t] => (Fresh(t)' <=> Fresh(t))
      BY <2>3 DEF Fresh
    <2>7. \A g \in Handler, t \in Sensor : Arriving(g, t)' <=> g = h /\ t = s
      BY <2>1, <2>2 DEF Arriving, InFlight
    <2>8. \A g \in Handler : InFlight(g)' => sample'[g].replica = p
      BY <2>1, <2>2, <2>3 DEF InFlight
    <2>9. \A t \in Sensor : \A i \in closed'[t] : ~Open(i)'
      BY <1>i, <2>3, <2>4 DEF Open
    <2>10. \A t \in Sensor :
               \/ \E g \in Handler : Arriving(g, t)'
               \/ streak'[p][t] <= run'[t] /\ (streak'[p][t] = run'[t] \/ Fresh(t)' \/ Alarming(t)')
      BY <2>3, <2>4, <2>5, <2>6, <2>7
    <2>11. IF reading = "warning"
           THEN streak'[p][s] + 1 <= run'[s] /\ (streak'[p][s] + 1 = run'[s] \/ Fresh(s)')
           ELSE run'[s] = 0
      <3>1. CASE reading # "warning"
        BY <2>4, <3>1
      <3>2. CASE reading = "warning" /\ run[s] > 0
        BY <1>n, <2>3, <2>4, <2>5, <2>6, <3>2
      <3>3. CASE reading = "warning" /\ ~(run[s] > 0)
        BY <1>n, <2>3, <2>4, <2>5, <3>3
      <3> QED
        BY <3>1, <3>2, <3>3
    <2>12. \A g \in Handler, t \in Sensor : Arriving(g, t)' =>
               IF sample'[g].reading = "warning"
               THEN streak'[p][t] + 1 <= run'[t] /\ (streak'[p][t] + 1 = run'[t] \/ Fresh(t)')
               ELSE run'[t] = 0
      BY <2>2, <2>7, <2>11
    <2>13. \A g \in Handler : pc'[g] \in {"list", "put", "alert"} => cause'[g] # "streak"
      BY <2>1, <2>2 DEF InFlight
    <2> QED
      BY <1>p, <2>8, <2>9, <2>10, <2>12, <2>13
  <1>20. ASSUME NEW h \in Handler, NEW r \in Replica, NEW s \in Sensor, Simulate(h, r, s)
        PROVE  RunInv'
    <2>1. pc[h] = "idle" /\ pc'[h] = "put" /\ \A g \in Handler : g # h => pc'[g] = pc[g]
      BY <1>20, <1>t, GotoTypes DEF Simulate
    <2>2. /\ UNCHANGED <<streak, run, closed, incidents>> /\ Incident' = Incident
          /\ cause'[h] = "manual"
          /\ \A g \in Handler : g # h => cause'[g] = cause[g] /\ sample'[g] = sample[g]
      BY <1>20, <1>t DEF Simulate, TypeOK, table, history, Incident
    <2>3. \A g \in Handler : InFlight(g)' =>
              InFlight(g) /\ sample'[g] = sample[g] /\ cause'[g] = cause[g]
      BY <2>1, <2>2 DEF InFlight
    <2>4. \A g \in Handler : InFlight(g)' => pc'[g] = pc[g]
      BY <2>1, <2>2 DEF InFlight
    <2>5. \A t \in Sensor : Alarming(t) => Alarming(t)'
      BY <2>1, <2>2 DEF Alarming
    <2>6. \A t \in Sensor : \A i \in closed[t] : ~Open(i)'
      BY <1>i, <2>2 DEF Open
    <2> QED
      BY <1>1, <1>2, <2>1, <2>2, <2>3, <2>4, <2>5, <2>6
  <1>4. ASSUME NEW h \in Handler, Record(h)
        PROVE  RunInv'
    <2>1. pc[h] = "record" /\ pc'[h] = "evaluate" /\ \A g \in Handler : g # h => pc'[g] = pc[g]
      BY <1>4, <1>t, GotoTypes DEF Record
    <2>2. /\ UNCHANGED <<streak, run, closed, sample, cause, incidents>> /\ Incident' = Incident
      BY <1>4 DEF Record, history, table, Incident
    <2>3. \A t \in Sensor : Alarming(t) => Alarming(t)'
      BY <2>1, <2>2 DEF Alarming
    <2>4. \A t \in Sensor : \A i \in closed[t] : ~Open(i)'
      BY <1>i, <2>2 DEF Open
    <2>5. \A g \in Handler : InFlight(g)' => InFlight(g)
      BY <2>1, <2>2 DEF InFlight
    <2> QED
      BY <1>1, <1>2, <2>1, <2>2, <2>3, <2>4, <2>5
  <1>5. ASSUME NEW h \in Handler, Evaluate(h)
        PROVE  RunInv'
    <2> DEFINE s == sample[h].sensor
               reading == sample[h].reading
               n == streak[p][s] + 1
    <2>1. /\ UNCHANGED <<run, closed, incidents>> /\ Incident' = Incident
          /\ pc[h] = "evaluate"
      BY <1>5 DEF Evaluate, table, Incident
    <2>2. sample[h].replica = p /\ s \in Sensor /\ reading \in Reading /\ n \in Nat
      BY <1>i, <1>n, <2>1 DEF InFlight
    <2>3. streak' = [streak EXCEPT ![p][s] = Counted(reading, n)]
      BY <1>5, <2>2 DEF Evaluate
    <2>4. \A t \in Sensor : streak'[p][t] = IF t = s THEN Counted(reading, n) ELSE streak[p][t]
      BY <2>2, <2>3, <1>t DEF TypeOK
    <2>5. \/ Trigger(reading, n) = "none" /\ Finish({h})
          \/ /\ Trigger(reading, n) # "none" /\ Goto(h, "evaluate", "list")
             /\ cause' = [cause EXCEPT ![h] = Trigger(reading, n)] /\ sample' = sample
      BY <1>5, <2>2 DEF Evaluate
    <2>6. /\ \A g \in Handler : g # h => ~InFlight(g) /\ ~InFlight(g)'
          /\ \/ pc'[h] = "idle" /\ Trigger(reading, n) = "none"
             \/ /\ pc'[h] = "list" /\ cause'[h] = Trigger(reading, n) /\ sample'[h] = sample[h]
                /\ Trigger(reading, n) # "none"
      <3>1. \A g \in Handler : g # h => ~InFlight(g)
        BY <1>b, <2>1 DEF InFlight
      <3>2. CASE Trigger(reading, n) = "none" /\ Finish({h})
        BY <3>1, <3>2, <1>t, FinishTypes DEF InFlight
      <3>3. CASE /\ Trigger(reading, n) # "none" /\ Goto(h, "evaluate", "list")
                 /\ cause' = [cause EXCEPT ![h] = Trigger(reading, n)] /\ sample' = sample
        <4>1. \A g \in Handler : g # h => pc'[g] = pc[g] /\ cause'[g] = cause[g]
          BY <3>3, <1>t, GotoTypes DEF TypeOK
        <4>2. pc'[h] = "list" /\ cause'[h] = Trigger(reading, n) /\ sample'[h] = sample[h]
          BY <3>3, <1>t, GotoTypes DEF TypeOK
        <4> QED
          BY <3>1, <3>3, <4>1, <4>2 DEF InFlight
      <3> QED
        BY <2>5, <3>2, <3>3
    <2>7. Arriving(h, s) /\ \A g \in Handler, t \in Sensor : Arriving(g, t) => t = s
      BY <2>1, <2>6 DEF Arriving, InFlight
    <2>8. IF reading = "warning" THEN n <= run[s] /\ (n = run[s] \/ Fresh(s)) ELSE run[s] = 0
      BY <1>i, <2>1, <2>2, <2>7
    <2>9. \A t \in Sensor : Fresh(t)' <=> Fresh(t)
      BY <1>2, <2>1
    <2>10. \A t \in Sensor : t # s => ~Alarming(t)
      BY <2>1, <2>6 DEF Alarming, InFlight
    <2>11. ASSUME NEW t \in Sensor
           PROVE  streak'[p][t] <= run'[t] /\ (streak'[p][t] = run'[t] \/ Fresh(t)' \/ Alarming(t)')
      <3>1. CASE t # s
        BY <1>i, <2>1, <2>4, <2>7, <2>9, <2>10, <3>1
      <3>2. CASE t = s /\ reading # "warning"
        BY <2>1, <2>4, <2>8, <3>2 DEF Counted
      <3>3. CASE t = s /\ reading = "warning" /\ n < WarningStreak
        BY <2>1, <2>4, <2>8, <2>9, <3>3 DEF Counted
      <3>4. CASE t = s /\ reading = "warning" /\ ~(n < WarningStreak)
        <4>1. Trigger(reading, n) = "streak"
          BY <1>w, <2>2, <3>4 DEF Trigger
        <4>2. Alarming(t)'
          BY <2>6, <3>4, <4>1 DEF Alarming
        <4>3. Counted(reading, n) = 0 /\ run[s] \in Nat
          BY <1>n, <2>2, <3>4 DEF Counted
        <4> QED
          BY <2>1, <2>4, <3>4, <4>2, <4>3
      <3> QED
        BY <3>1, <3>2, <3>3, <3>4
    <2>12. \A g \in Handler, t \in Sensor : ~Arriving(g, t)'
      BY <2>6 DEF Arriving, InFlight
    <2>13. \A g \in Handler : InFlight(g)' => sample'[g].replica = p
      BY <2>2, <2>6 DEF InFlight
    <2>14. \A t \in Sensor : \A i \in closed'[t] : ~Open(i)'
      BY <1>i, <2>1 DEF Open
    <2>15. \A g \in Handler : pc'[g] \in {"list", "put", "alert"} /\ cause'[g] = "streak" =>
               run'[sample'[g].sensor] >= WarningStreak
      <3>1. Trigger(reading, n) = "streak" => reading = "warning" /\ n >= WarningStreak
        BY DEF Trigger
      <3> QED
        BY <1>n, <1>w, <2>1, <2>2, <2>6, <2>8, <3>1 DEF InFlight
    <2> QED
      BY <1>p, <2>11, <2>12, <2>13, <2>14, <2>15
  <1>6. ASSUME NEW h \in Handler, ListDuplicate(h)
        PROVE  RunInv'
    <2>1. /\ UNCHANGED <<streak, run, closed, incidents>> /\ Incident' = Incident
          /\ pc[h] = "list" /\ Finish({h})
      BY <1>6 DEF ListDuplicate, history, table, Incident
    <2>2. /\ pc'[h] = "idle"
          /\ \A g \in Handler : g # h => pc'[g] = pc[g] /\ sample'[g] = sample[g] /\ cause'[g] = cause[g]
      BY <2>1, <1>t, FinishTypes
    <2>3. PICK i \in Incident : incidents[i].sensor = sample[h].sensor /\ Open(i)
      BY <1>6 DEF ListDuplicate, Listed, OrderInv, Open
    <2>4. Fresh(sample[h].sensor)
      BY <1>i, <1>n, <2>1, <2>3 DEF Fresh
    <2>5. \A t \in Sensor : Alarming(t) => Alarming(t)' \/ Fresh(t)
      BY <2>2, <2>4 DEF Alarming
    <2>6. \A t \in Sensor : \A j \in closed[t] : ~Open(j)'
      BY <1>i, <2>1 DEF Open
    <2>7. \A g \in Handler : InFlight(g)' => g # h /\ InFlight(g)
      BY <2>2 DEF InFlight
    <2> QED
      BY <1>1, <1>2, <2>1, <2>2, <2>5, <2>6, <2>7
  <1>7. ASSUME NEW h \in Handler, ListNone(h)
        PROVE  RunInv'
    <2>1. pc[h] = "list" /\ pc'[h] = "put" /\ \A g \in Handler : g # h => pc'[g] = pc[g]
      BY <1>7, <1>t, GotoTypes DEF ListNone
    <2>2. /\ UNCHANGED <<streak, run, closed, sample, cause, incidents>> /\ Incident' = Incident
      BY <1>7 DEF ListNone, history, table, Incident
    <2>3. \A t \in Sensor : Alarming(t) => Alarming(t)'
      BY <2>1, <2>2 DEF Alarming
    <2>4. \A t \in Sensor : \A i \in closed[t] : ~Open(i)'
      BY <1>i, <2>2 DEF Open
    <2>5. \A g \in Handler : InFlight(g)' => InFlight(g)
      BY <2>1, <2>2 DEF InFlight
    <2> QED
      BY <1>1, <1>2, <2>1, <2>2, <2>3, <2>4, <2>5
  <1>8. ASSUME NEW h \in Handler, Put(h)
        PROVE  RunInv'
    <2>1. pc[h] = "put" /\ pc'[h] = "alert" /\ \A g \in Handler : g # h => pc'[g] = pc[g]
      BY <1>8, <1>t, GotoTypes DEF Put
    <2>2. UNCHANGED <<streak, run, closed, sample, cause>> /\ Insert(h)
      BY <1>8 DEF Put, history
    <2>3. PICK m : m = Len(incidents) + 1
      OBVIOUS
    <2>4. /\ Incident' = Incident \cup {m} /\ m \notin Incident
          /\ \A i \in Incident : incidents'[i] = incidents[i]
          /\ incidents'[m].sensor = sample[h].sensor
      BY <2>2, <2>3, <1>t, InsertTypes, EntryTypes
    <2>5. Fresh(sample[h].sensor)'
      BY <1>n, <2>2, <2>4 DEF Fresh
    <2>6. \A t \in Sensor : Fresh(t) => Fresh(t)'
      BY <2>2, <2>4 DEF Fresh
    <2>7. \A t \in Sensor : Alarming(t) => Alarming(t)' \/ Fresh(t)'
      BY <2>1, <2>2, <2>5 DEF Alarming
    <2>8. \A t \in Sensor : \A i \in closed[t] : ~Open(i)'
      BY <1>i, <1>n, <2>2, <2>4 DEF Open
    <2>9. \A g \in Handler : InFlight(g)' => InFlight(g)
      BY <2>1, <2>2 DEF InFlight
    <2> QED
      BY <1>1, <2>1, <2>2, <2>6, <2>7, <2>8, <2>9
  <1>9. ASSUME NEW h \in Handler, Alert(h)
        PROVE  RunInv'
    <2>1. /\ UNCHANGED <<streak, run, closed, incidents>> /\ Incident' = Incident
          /\ pc[h] = "alert" /\ Finish({h})
      BY <1>9 DEF Alert, history, table, Incident
    <2>2. /\ pc'[h] = "idle"
          /\ \A g \in Handler : g # h => pc'[g] = pc[g] /\ sample'[g] = sample[g] /\ cause'[g] = cause[g]
      BY <2>1, <1>t, FinishTypes
    <2>3. \A t \in Sensor : Alarming(t) => Alarming(t)'
      BY <2>1, <2>2 DEF Alarming
    <2>4. \A t \in Sensor : \A j \in closed[t] : ~Open(j)'
      BY <1>i, <2>1 DEF Open
    <2>5. \A g \in Handler : InFlight(g)' => g # h /\ InFlight(g)
      BY <2>1, <2>2 DEF InFlight
    <2> QED
      BY <1>1, <1>2, <2>1, <2>2, <2>3, <2>4, <2>5
  <1>10. ASSUME NEW h \in Handler, CallFails(h)
         PROVE  RunInv'
    BY <1>10, <1>k DEF CallFails
  <1>11. ASSUME NEW i \in Incident, NEW to \in Status, WritePatch(i, to)
         PROVE  RunInv'
    <2>1. /\ Incident' = Incident
          /\ \A j \in Incident : /\ incidents'[j].state = IF j = i THEN to ELSE incidents[j].state
                                 /\ incidents'[j].sensor = incidents[j].sensor
      BY <1>11, <1>t, WriteTypes
    <2>2. UNCHANGED <<streak, run, closed, pc, sample, cause>>
      BY <1>11 DEF WritePatch, history
    <2>3. Open(i)
      BY <1>11 DEF WritePatch, OrderInv
    <2>4. \A j \in Incident : Open(j)' => Open(j)
      BY <2>1, <2>3 DEF Open
    <2>5. \A t \in Sensor : \A j \in closed[t] : ~Open(j)'
      BY <1>i, <1>n, <2>4
    <2>6. \A t \in Sensor : Fresh(t) => Fresh(t)'
      BY <2>1, <2>2 DEF Fresh
    <2>7. \A t \in Sensor : Alarming(t) => Alarming(t)'
      BY <2>2 DEF Alarming
    <2>8. \A g \in Handler : InFlight(g)' => InFlight(g)
      BY <2>2 DEF InFlight
    <2> QED
      BY <1>1, <2>2, <2>5, <2>6, <2>7, <2>8
  <1>15. ASSUME NEW i \in Incident, NEW to \in Status, JudgePatch(i, to) \/ PatchConflict(i, to)
         PROVE  RunInv'
    <2>1. UNCHANGED <<streak, run, closed, pc, sample, cause, incidents>> /\ Incident' = Incident
      BY <1>15 DEF JudgePatch, PatchConflict, history, Incident
    <2>2. \A t \in Sensor : \A j \in closed[t] : ~Open(j)'
      BY <1>i, <2>1 DEF Open
    <2>3. \A t \in Sensor : Alarming(t) => Alarming(t)'
      BY <2>1 DEF Alarming
    <2>4. \A g \in Handler : InFlight(g)' => InFlight(g)
      BY <2>1 DEF InFlight
    <2> QED
      BY <1>1, <1>2, <2>1, <2>2, <2>3, <2>4
  <1>12. ASSUME NEW i \in Incident, IndexCatchesUp(i)
         PROVE  RunInv'
    BY <1>12 DEF IndexCatchesUp, OrderInv
  <1>13. ASSUME NEW r \in Replica, Restart(r)
         PROVE  RunInv'
    BY <1>13, <1>k DEF Restart
  <1>14. CASE UNCHANGED vars
    BY <1>14 DEF vars, table, history, RunInv, InOrder, WarningStreak, InFlight, Arriving, Alarming, Fresh,
                 Open, Incident
  <1> QED
    BY <1>20, <1>3, <1>4, <1>5, <1>6, <1>7, <1>8, <1>9, <1>10, <1>11, <1>12, <1>13, <1>14, <1>15
       DEF Next, Handle, Idle

LEMMA RunAlways == Spec => [](TypeInv /\ OrderInv /\ RunInv)
  <1>1. Init => TypeInv /\ OrderInv /\ RunInv
    BY TypeInit, OrderInit, RunInit
  <1>2. TypeInv /\ OrderInv /\ RunInv /\ [Next]_vars => (TypeInv /\ OrderInv /\ RunInv)'
    BY TypeStep, OrderStep, RunStep
  <1> QED
    BY <1>1, <1>2, PTL DEF Spec

\* In order, a streak alarm stands for WarningStreak
\* warnings that arrived one after the other.
THEOREM StreaksAreConsecutive == Spec => []StreakIsConsecutive
  <1>1. RunInv => StreakIsConsecutive
    BY DEF RunInv, StreakIsConsecutive
  <1> QED
    BY <1>1, RunAlways, PTL

\* In order, WarningStreak warnings in a row lead to an incident or find one that
\* was open when they began or came since.
THEOREM StreaksAreDetected == Spec => []StreakIsDetected
  <1>1. TypeInv /\ RunInv => StreakIsDetected
    <2> SUFFICES ASSUME TypeInv, RunInv, InOrder, \A h \in Handler : ~InFlight(h),
                        NEW s \in Sensor, run[s] >= WarningStreak
                 PROVE  Fresh(s)
      BY DEF StreakIsDetected, Fresh
    <2>1. PICK p \in Replica : setting.replicas = {p}
      BY OneReplica DEF TypeInv
    <2>2. streak[p][s] = run[s] \/ Fresh(s)
      BY <2>1 DEF RunInv, Arriving, Alarming, InFlight
    <2>3. WarningStreak \in Nat
      BY SettingTypes DEF TypeInv
    <2>4. streak \in [Replica -> [Sensor -> 0..(WarningStreak - 1)]]
      BY DEF TypeInv, TypeOK
    <2>5. streak[p][s] \in 0..(WarningStreak - 1)
      BY <2>4
    <2> QED
      BY <2>2, <2>3, <2>5
  <1> QED
    BY <1>1, RunAlways, PTL
=============================================================================
