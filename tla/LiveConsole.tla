---------------------------- MODULE LiveConsole ----------------------------
(***************************************************************************)
(* How a change of one incident reaches an open console: the realtime part *)
(* of services/incident/app/main.py, shared/realtime.py and the incident   *)
(* state of web/src/App.tsx.                                               *)
(*                                                                         *)
(* A handler stores the incident, then announces the record it stored: to  *)
(* Redis, whose listener in every pod broadcasts it to the sockets of that *)
(* pod, or straight to the sockets of its own pod.  The page merges what   *)
(* arrives over what it shows, from its socket and from its REST reads     *)
(* alike.  Records are named by how many puts the incident has seen.       *)
(***************************************************************************)
EXTENDS Naturals, Sequences

CONSTANTS
    Pod,         \* replicas of the incident service
    Handler,     \* requests that change the incident at the same time
    Serves,      \* Serves[h]: the pod that handles h
    Console,     \* browsers with the page open
    Broker,      \* the values of WEBSOCKET_BROKER considered
    MaxVersion,  \* bound: puts of the incident
    MaxSockets,  \* bound: connections of one console
    MaxReads,    \* bound: refreshes of one console
    MaxFaults    \* bound: failing calls, lost connections, restarts

ASSUME ConsoleAssumption ==
    /\ Pod # {} /\ Pod \cap Handler = {}
    /\ Serves \in [Handler -> Pod] /\ Broker \subseteq {"redis", "memory"}
    /\ MaxVersion \in Nat /\ MaxSockets \in Nat /\ MaxReads \in Nat /\ MaxFaults \in Nat

Version == 0..MaxVersion
Socket  == Console \X (1..MaxSockets)

VARIABLES
    broker,       \* WEBSOCKET_BROKER
    table,        \* version of the stored incident, 0 before it is detected
    pc,           \* pc[h]: "idle", or "announce" between put and announcement
    carry,        \* carry[h]: the version handler h has stored
    inbox,        \* inbox[p]: messages of the subscription of pod p
    listening,    \* listening[p]: the listener task of p runs
    connections,  \* connections[p]: _connections of p
    cast,         \* cast[x]: the broadcast of listener or handler x under way
    conn,         \* conn[c]: "closed", "accepted", "open", or "gone" for good
    sock,         \* sock[c]: number of c's latest connection
    home,         \* home[c]: the pod it leads to
    wire,         \* wire[c]: messages on it
    reads,        \* reads[c][k]: where refresh k is, and the version it read
    shown,        \* shown[c]: the version the page shows, 0 if none
    faults,       \* faults so far
    missed,       \* consoles without a socket at the last announcement (history)
    excused       \* consoles some call failed for, or for which an older record may
                  \* have come after a newer one (history)

service == <<broker, table, pc, carry, missed>>
fanout  == <<inbox, listening, connections, cast>>
link    == <<conn, sock, home, wire>>
page    == <<reads, shown>>
vars    == <<service, fanout, link, page, faults, excused>>

At(step, v) == [is |-> step, version |-> v]
Nobody  == [version |-> 0, to |-> {}]
Live(s) == conn[s[1]] \in {"accepted", "open"} /\ sock[s[1]] = s[2]
Own(c)  == <<c, sock[c]>>
Fault   == faults < MaxFaults /\ faults' = faults + 1 /\ excused' = Console

Init ==
    /\ broker \in Broker
    /\ table = 0 /\ missed = {}
    /\ pc = [h \in Handler |-> "idle"]
    /\ carry = [h \in Handler |-> 0]
    /\ inbox = [p \in Pod |-> <<>>]
    /\ listening = [p \in Pod |-> broker = "redis"]
    /\ connections = [p \in Pod |-> {}]
    /\ cast = [x \in Pod \cup Handler |-> Nobody]
    /\ conn = [c \in Console |-> "closed"]
    /\ sock = [c \in Console |-> 0]
    /\ home = [c \in Console |-> CHOOSE p \in Pod : TRUE]
    /\ wire = [c \in Console |-> <<>>]
    /\ reads = [c \in Console |-> [k \in 1..MaxReads |-> At("unused", 0)]]
    /\ shown = [c \in Console |-> 0]
    /\ faults = 0
    /\ excused = {}

-----------------------------------------------------------------------------
(* The handlers of the incident service.                                   *)

Reading(c) == \E k \in 1..MaxReads : reads[c][k].is \in {"asked", "read"}
Announcing(h) == pc[h] = "announce" \/ cast[h] # Nobody

\* simulate_incident, _create_automatic_incident or update_incident_status
\* stores the incident.
Put(h) ==
    /\ pc[h] = "idle" /\ cast[h] = Nobody
    /\ table < MaxVersion /\ table' = table + 1
    /\ pc' = [pc EXCEPT ![h] = "announce"]
    /\ carry' = [carry EXCEPT ![h] = table + 1]
    /\ excused' = IF \E g \in Handler : Announcing(g) THEN Console
                  ELSE excused \cup {c \in Console : Reading(c)}
    /\ UNCHANGED <<broker, missed, fanout, link, page, faults>>

\* _publish_realtime: every subscription gets the record, or the sockets of
\* this pod do.
Announce(h) ==
    /\ pc[h] = "announce"
    /\ pc' = [pc EXCEPT ![h] = "idle"]
    /\ carry' = [carry EXCEPT ![h] = 0]
    /\ missed' = {c \in Console : conn[c] # "open"}
    /\ \/ /\ broker = "redis"
          /\ inbox' = [p \in Pod |-> IF listening[p] THEN Append(inbox[p], carry[h])
                                                     ELSE inbox[p]]
          /\ UNCHANGED cast
       \/ /\ broker = "memory"
          /\ cast' = [cast EXCEPT ![h] =
                IF connections[Serves[h]] = {} THEN Nobody
                ELSE [version |-> carry[h], to |-> connections[Serves[h]]]]
          /\ UNCHANGED inbox
    /\ UNCHANGED <<broker, table, listening, connections, link, page, faults, excused>>

\* The event before it, or the announcement itself, fails: 500, but stored.
AnnounceFails(h) ==
    /\ pc[h] = "announce" /\ Fault
    /\ pc' = [pc EXCEPT ![h] = "idle"]
    /\ carry' = [carry EXCEPT ![h] = 0]
    /\ UNCHANGED <<broker, table, missed, fanout, link, page>>

-----------------------------------------------------------------------------
(* Listeners and broadcasts.                                               *)

\* listen hands the next message to broadcast, which copies the connections.
TakeMessage(p) ==
    /\ listening[p] /\ inbox[p] # <<>> /\ cast[p] = Nobody
    /\ inbox' = [inbox EXCEPT ![p] = Tail(@)]
    /\ cast' = [cast EXCEPT ![p] = IF connections[p] = {} THEN Nobody
                                   ELSE [version |-> Head(inbox[p]), to |-> connections[p]]]
    /\ UNCHANGED <<service, listening, connections, link, page, faults, excused>>

SentOnly(x, s) == [cast[x] EXCEPT !.to = @ \ {s}] \* defect: the loop has no end

SentTo(x, s) ==
    IF cast[x].to = {s} THEN Nobody ELSE [cast[x] EXCEPT !.to = @ \ {s}]

\* send_json to one socket of the copy.
Send(x, s) ==
    /\ s \in cast[x].to /\ Live(s)
    /\ wire' = [wire EXCEPT ![s[1]] = Append(@, cast[x].version)]
    /\ cast' = [cast EXCEPT ![x] = SentTo(x, s)]
    /\ UNCHANGED <<service, inbox, listening, connections, conn, sock, home, page,
                   faults, excused>>

SendRaises(x, s) == \* defect: the broadcast ends at the first closed socket
    /\ s \in cast[x].to /\ ~Live(s)
    /\ cast' = [cast EXCEPT ![x] = Nobody]
    /\ connections' = [p \in Pod |-> connections[p] \ {s}]
    /\ UNCHANGED <<service, inbox, listening, link, page, faults, excused>>

\* It is closed: disconnected, and discarded when the broadcast is over.
SendToClosed(x, s) ==
    /\ s \in cast[x].to /\ ~Live(s)
    /\ cast' = [cast EXCEPT ![x] = SentTo(x, s)]
    /\ connections' = [p \in Pod |-> connections[p] \ {s}]
    /\ UNCHANGED <<service, inbox, listening, link, page, faults, excused>>

\* The connection to Redis breaks: the listener task ends, and nothing starts
\* it again while the pod lives.
ListenerFails(p) ==
    /\ listening[p] /\ cast[p] = Nobody /\ Fault
    /\ listening' = [listening EXCEPT ![p] = FALSE]
    /\ inbox' = [inbox EXCEPT ![p] = <<>>]
    /\ UNCHANGED <<service, connections, cast, link, page>>

\* receive_text raises WebSocketDisconnect for a socket its client left.
ServerNotices(p, s) ==
    /\ s \in connections[p] /\ ~Live(s)
    /\ connections' = [connections EXCEPT ![p] = @ \ {s}]
    /\ UNCHANGED <<service, inbox, listening, cast, link, page, faults, excused>>

-----------------------------------------------------------------------------
(* The page.                                                               *)

\* connect(), at login and 1500 ms after a close: some pod accepts.
ConnectAtLogin(c, p) == \* defect: onclose sets no timer
    /\ conn[c] = "closed" /\ sock[c] = 0
    /\ conn' = [conn EXCEPT ![c] = "accepted"]
    /\ sock' = [sock EXCEPT ![c] = 1]
    /\ home' = [home EXCEPT ![c] = p]
    /\ UNCHANGED <<service, fanout, wire, page, faults, excused>>

Connect(c, p) ==
    /\ conn[c] = "closed" /\ sock[c] < MaxSockets
    /\ conn' = [conn EXCEPT ![c] = "accepted"]
    /\ sock' = [sock EXCEPT ![c] = @ + 1]
    /\ home' = [home EXCEPT ![c] = p]
    /\ UNCHANGED <<service, fanout, wire, page, faults, excused>>

\* connect of the manager adds the socket it accepted.
Register(c) ==
    /\ conn[c] = "accepted"
    /\ conn' = [conn EXCEPT ![c] = "open"]
    /\ connections' = [connections EXCEPT ![home[c]] = @ \cup {Own(c)}]
    /\ UNCHANGED <<service, inbox, listening, cast, sock, home, wire, page, faults, excused>>

\* The connection breaks with what was on it; onclose sets the timer.
Drop(c) ==
    /\ conn[c] \in {"accepted", "open"} /\ Fault
    /\ conn' = [conn EXCEPT ![c] = "closed"]
    /\ wire' = [wire EXCEPT ![c] = <<>>]
    /\ UNCHANGED <<service, fanout, sock, home, page>>

\* getAccessToken rejects inside connect: no socket, no further timer.
TokenFails(c) ==
    /\ conn[c] = "closed" /\ Fault
    /\ conn' = [conn EXCEPT ![c] = "gone"]
    /\ UNCHANGED <<service, fanout, sock, home, wire, page>>

\* mergeIncidents: what comes in replaces what is shown, whatever is newer.
MergedIfNew(old, new) == IF old = 0 THEN new ELSE old \* defect: known ids are kept
Merged(old, new) == IF new = 0 THEN old ELSE new

OnMessage(c) ==
    /\ wire[c] # <<>>
    /\ shown' = [shown EXCEPT ![c] = Merged(@, Head(wire[c]))]
    /\ wire' = [wire EXCEPT ![c] = Tail(@)]
    /\ UNCHANGED <<service, fanout, conn, sock, home, reads, faults, excused>>

Read(c, k, from, to) == /\ reads[c][k].is \in from
                        /\ reads' = [reads EXCEPT ![c][k] = to]

\* refresh asks, at login and after what the user does; list_incidents reads
\* the index, which may lag; the answer is merged when all five requests are
\* back, or nothing is if one fails.
Ask(c, k) ==
    /\ Read(c, k, {"unused"}, At("asked", 0))
    /\ UNCHANGED <<service, fanout, link, shown, faults, excused>>

List(c, k, v) ==
    /\ v <= table
    /\ Read(c, k, {"asked"}, At("read", v))
    /\ excused' = IF v < table THEN excused \cup {c} ELSE excused
    /\ UNCHANGED <<service, fanout, link, shown, faults>>

Merge(c, k) ==
    /\ Read(c, k, {"read"}, At("done", 0))
    /\ shown' = [shown EXCEPT ![c] = Merged(@, reads[c][k].version)]
    /\ UNCHANGED <<service, fanout, link, faults, excused>>

RefreshFails(c, k) ==
    /\ Read(c, k, {"asked", "read"}, At("done", 0)) /\ Fault
    /\ UNCHANGED <<service, fanout, link, shown>>

-----------------------------------------------------------------------------
\* A pod is replaced: handlers, listener and sockets go, a new listener runs
\* before the pod serves.
Restart(p) ==
    LET cut == {c \in Console : conn[c] \in {"accepted", "open"} /\ home[c] = p}
        dead == {h \in Handler : Serves[h] = p}
    IN
    /\ Fault
    /\ pc' = [h \in Handler |-> IF h \in dead THEN "idle" ELSE pc[h]]
    /\ carry' = [h \in Handler |-> IF h \in dead THEN 0 ELSE carry[h]]
    /\ inbox' = [inbox EXCEPT ![p] = <<>>]
    /\ listening' = [listening EXCEPT ![p] = broker = "redis"]
    /\ connections' = [connections EXCEPT ![p] = {}]
    /\ cast' = [x \in Pod \cup Handler |-> IF x = p \/ x \in dead THEN Nobody ELSE cast[x]]
    /\ conn' = [c \in Console |-> IF c \in cut THEN "closed" ELSE conn[c]]
    /\ wire' = [c \in Console |-> IF c \in cut THEN <<>> ELSE wire[c]]
    /\ UNCHANGED <<broker, table, missed, sock, home, page>>

Broadcast(x) == \E s \in cast[x].to : Send(x, s) \/ SendToClosed(x, s)
Open(c)      == \E p \in Pod : Connect(c, p)
Answer(c, k) == (\E v \in Version : List(c, k, v)) \/ Merge(c, k)

Next ==
    \/ \E h \in Handler : Put(h) \/ Announce(h) \/ AnnounceFails(h)
    \/ \E p \in Pod : TakeMessage(p) \/ ListenerFails(p) \/ Restart(p)
                        \/ \E s \in Socket : ServerNotices(p, s)
    \/ \E x \in Pod \cup Handler : Broadcast(x)
    \/ \E c \in Console :
        \/ Open(c) \/ Register(c) \/ Drop(c) \/ TokenFails(c) \/ OnMessage(c)
        \/ \E k \in 1..MaxReads : Ask(c, k) \/ Answer(c, k) \/ RefreshFails(c, k)

\* Tasks and callbacks that can run do run: no step of the service or of the
\* page waits for a person; a put, a refresh and a fault may never come.
Fairness ==
    /\ \A h \in Handler : WF_vars(Announce(h))
    /\ \A p \in Pod : WF_vars(TakeMessage(p))
    /\ \A x \in Pod \cup Handler : WF_vars(Broadcast(x))
    /\ \A c \in Console : /\ WF_vars(Open(c)) /\ WF_vars(Register(c)) /\ WF_vars(OnMessage(c))
                          /\ \A k \in 1..MaxReads : WF_vars(Answer(c, k))

Spec == Init /\ [][Next]_vars
LiveSpec == Spec /\ Fairness

-----------------------------------------------------------------------------
\* Every variable has its type.
TypeOK ==
    /\ broker \in Broker /\ table \in Version
    /\ pc \in [Handler -> {"idle", "announce"}]
    /\ carry \in [Handler -> Version]
    /\ inbox \in [Pod -> Seq(Version)]
    /\ listening \in [Pod -> BOOLEAN]
    /\ connections \in [Pod -> SUBSET Socket]
    /\ cast \in [Pod \cup Handler ->
                {Nobody} \cup [version : Version \ {0}, to : (SUBSET Socket) \ {{}}]]
    /\ conn \in [Console -> {"closed", "accepted", "open", "gone"}]
    /\ sock \in [Console -> 0..MaxSockets] /\ home \in [Console -> Pod]
    /\ wire \in [Console -> Seq(Version)]
    /\ reads \in [Console -> [1..MaxReads ->
                [is : {"unused", "asked", "read", "done"}, version : Version]]]
    /\ shown \in [Console -> Version]
    /\ faults \in 0..MaxFaults /\ missed \subseteq Console /\ excused \subseteq Console

\* Nothing is on its way to console c.
Still(c) ==
    /\ \A h \in Handler : ~Announcing(h)
    /\ \A p \in Pod : inbox[p] = <<>> /\ cast[p] = Nobody
    /\ wire[c] = <<>> /\ ~Reading(c)

\* What the page shows at rest is what the table holds, if its socket was in
\* place when the last change was announced, no call failed, the pods share
\* Redis, and no two changes, or a change and a refresh, were under way at once.
\* Each of these is needed: mergeIncidents compares no versions.
ConnectedIsCurrent ==
    \A c \in Console :
        /\ Still(c) /\ conn[c] = "open" /\ broker = "redis"
        /\ table # 0 /\ c \notin missed \cup excused
        => shown[c] = table

\* Version v is on its way to connection n of console c.
OnItsWay(c, n, v) ==
    /\ Live(<<c, n>>)
    /\ \/ \E x \in Pod \cup Handler : cast[x].version = v /\ <<c, n>> \in cast[x].to
       \/ \E i \in 1..Len(wire[c]) : wire[c][i] = v

\* A broadcast reaches every socket it set out for: the page shows the record
\* unless its connection or the broadcasting task breaks first.
BroadcastArrives ==
    \A s \in Socket, v \in Version \ {0} :
        OnItsWay(s[1], s[2], v) ~> shown[s[1]] = v \/ ~Live(s)

\* A page that lost its socket gets another one, unless its session is over.
PageReconnects ==
    \A c \in Console :
        conn[c] = "closed" /\ sock[c] < MaxSockets ~> conn[c] \in {"open", "gone"}
=============================================================================
