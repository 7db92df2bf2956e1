------------------------- MODULE LiveConsole_proofs -------------------------
(***************************************************************************)
(* What the realtime fan-out guarantees for any number of pods, handlers,  *)
(* consoles, connections, refreshes and faults.                            *)
(***************************************************************************)
EXTENDS LiveConsole, SequenceTheorems, TLAPS

\* What travels is a stored version, never 0; a console with a socket has
\* connected at least once.
Travels ==
    /\ \A h \in Handler : pc[h] = "announce" => carry[h] # 0
    /\ \A p \in Pod : \A i \in 1..Len(inbox[p]) : inbox[p][i] # 0
    /\ \A c \in Console : \A i \in 1..Len(wire[c]) : wire[c][i] # 0
    /\ \A c \in Console : conn[c] \in {"accepted", "open"} => sock[c] # 0

TypeInv == TypeOK /\ Travels

-----------------------------------------------------------------------------
(* The inductive invariant: what holds while no call has failed, the pods  *)
(* share Redis and no two changes were under way at once.                  *)

\* No listener has ended, and only listeners broadcast.
AllListen ==
    /\ \A p \in Pod : listening[p]
    /\ \A h \in Handler : cast[h] = Nobody

\* At most one change is under way, and it is the latest.
OneChange ==
    /\ \A g, h \in Handler : pc[g] = "announce" /\ pc[h] = "announce" => g = h
    /\ \A h \in Handler : pc[h] = "announce" => carry[h] = table

\* The sockets a pod knows, or a broadcast of it copied, are the open
\* connections to that pod, each the latest of its console.
Current(p, s) == conn[s[1]] = "open" /\ sock[s[1]] = s[2] /\ home[s[1]] = p

SocketsMatch ==
    /\ \A p \in Pod : \A s \in connections[p] \cup cast[p].to : Current(p, s)
    /\ \A c \in Console : conn[c] = "open" => Own(c) \in connections[home[c]]

Quiet == table # 0 /\ \A h \in Handler : pc[h] # "announce"

\* A console that has no socket once a change is announced missed it.
LateIsMissed == Quiet => \A c \in Console : conn[c] # "open" => c \in missed

\* The last record on its way to console c, in the order it will be merged:
\* its wire, the broadcast to it, the subscription of its pod.
LastIs(c) ==
    LET p == home[c] IN
    /\ inbox[p] # <<>> => inbox[p][Len(inbox[p])] = table
    /\ inbox[p] = <<>> /\ Own(c) \in cast[p].to => cast[p].version = table
    /\ inbox[p] = <<>> /\ Own(c) \notin cast[p].to =>
        /\ wire[c] # <<>> => wire[c][Len(wire[c])] = table
        /\ wire[c] = <<>> => shown[c] = table

\* Console c reads the latest record, and the last one on its way is the latest.
WillBeCurrent(c) ==
    /\ \A k \in 1..MaxReads : reads[c][k].is = "read" => reads[c][k].version = table
    /\ Quiet /\ conn[c] = "open" /\ c \notin missed => LastIs(c)

Sound(c) == AllListen /\ OneChange /\ SocketsMatch /\ LateIsMissed /\ WillBeCurrent(c)

ConsoleInv ==
    /\ TypeInv
    /\ broker = "redis" => \A c \in Console \ excused : Sound(c)
-----------------------------------------------------------------------------
(* Typing.                                                                 *)

\* What a broadcast may be.
Casting == {Nobody} \cup [version : Version \ {0}, to : (SUBSET Socket) \ {{}}]

LEMMA TypeInit == Init => TypeInv
  <1> SUFFICES ASSUME Init PROVE TypeInv
    OBVIOUS
  <1>1. home \in [Console -> Pod]
    BY ConsoleAssumption DEF Init, ConsoleAssumption
  <1>2. 0 \in Version
    BY ConsoleAssumption DEF Version, ConsoleAssumption
  <1>3. reads \in [Console -> [1..MaxReads ->
                [is : {"unused", "asked", "read", "done"}, version : Version]]]
    BY <1>2 DEF Init, At
  <1>4. sock \in [Console -> 0..MaxSockets] /\ faults \in 0..MaxFaults
    BY ConsoleAssumption DEF Init, ConsoleAssumption
  <1>5. /\ listening \in [Pod -> BOOLEAN] /\ connections \in [Pod -> SUBSET Socket]
        /\ cast \in [Pod \cup Handler ->
                {Nobody} \cup [version : Version \ {0}, to : (SUBSET Socket) \ {{}}]]
    BY DEF Init
  <1>6. /\ pc \in [Handler -> {"idle", "announce"}] /\ carry \in [Handler -> Version]
        /\ inbox \in [Pod -> Seq(Version)] /\ wire \in [Console -> Seq(Version)]
        /\ conn \in [Console -> {"closed", "accepted", "open", "gone"}]
        /\ shown \in [Console -> Version]
    BY <1>2 DEF Init
  <1>7. TypeOK
    BY <1>1, <1>2, <1>3, <1>4, <1>5, <1>6 DEF Init, TypeOK
  <1>8. Travels
    BY DEF Init, Travels
  <1> QED BY <1>7, <1>8 DEF TypeInv

\* A message added to a sequence of versions that are not 0, or the first taken
\* away, leaves such a sequence, with the last one in place if it is not empty.
LEMMA Appended ==
    ASSUME NEW q \in Seq(Version), NEW v \in Version \ {0},
           \A i \in 1..Len(q) : q[i] # 0
    PROVE  /\ Append(q, v) \in Seq(Version) /\ Append(q, v) # <<>>
           /\ Append(q, v)[Len(Append(q, v))] = v
           /\ \A i \in 1..Len(Append(q, v)) : Append(q, v)[i] # 0
  <1>1. Append(q, v) \in Seq(Version) /\ Len(Append(q, v)) = Len(q) + 1
    OBVIOUS
  <1>2. \A i \in 1..(Len(q) + 1) : Append(q, v)[i] = IF i <= Len(q) THEN q[i] ELSE v
    OBVIOUS
  <1>3. Len(q) \in Nat
    OBVIOUS
  <1> QED BY <1>1, <1>2, <1>3

LEMMA Shortened ==
    ASSUME NEW q \in Seq(Version), q # <<>>, \A i \in 1..Len(q) : q[i] # 0
    PROVE  /\ Tail(q) \in Seq(Version) /\ \A i \in 1..Len(Tail(q)) : Tail(q)[i] # 0
           /\ Head(q) \in Version \ {0}
           /\ IF Tail(q) = <<>> THEN q[Len(q)] = Head(q)
                                ELSE Tail(q)[Len(Tail(q))] = q[Len(q)]
  <1>1. Tail(q) \in Seq(Version) /\ Len(q) \in Nat /\ Len(q) > 0
    OBVIOUS
  <1>2. Len(Tail(q)) = Len(q) - 1 /\ Head(q) = q[1] /\ q[1] \in Version
    OBVIOUS
  <1>3. \A i \in 1..Len(Tail(q)) : Tail(q)[i] = q[i + 1]
    OBVIOUS
  <1>4. Tail(q) = <<>> <=> Len(Tail(q)) = 0
    BY <1>1, EmptySeq
  <1> QED BY <1>1, <1>2, <1>3, <1>4

\* The steps of a handler.
LEMMA TypeHandle ==
    ASSUME TypeInv, NEW h \in Handler, Put(h) \/ Announce(h) \/ AnnounceFails(h)
    PROVE  TypeInv'
  <1> USE ConsoleAssumption DEF ConsoleAssumption, TypeInv
  <1>1. CASE Put(h)
    <2>1. table \in Nat /\ table + 1 \in Version \ {0}
      BY <1>1 DEF Put, TypeOK, Version
    <2> QED BY <1>1, <2>1 DEF Put, TypeOK, Travels, fanout, link, page
  <1>2. CASE Announce(h)
    <2>1. carry[h] \in Version \ {0}
      BY <1>2 DEF Announce, TypeOK, Travels
    <2>2. inbox' \in [Pod -> Seq(Version)] /\ \A p \in Pod : \A i \in 1..Len(inbox'[p]) : inbox'[p][i] # 0
      <3>1. CASE UNCHANGED inbox
        BY <3>1 DEF TypeOK, Travels
      <3>2. CASE inbox' = [p \in Pod |-> IF listening[p] THEN Append(inbox[p], carry[h]) ELSE inbox[p]]
        <4>1. ASSUME NEW p \in Pod
              PROVE  /\ inbox[p] \in Seq(Version) /\ Append(inbox[p], carry[h]) \in Seq(Version)
                     /\ \A i \in 1..Len(Append(inbox[p], carry[h])) : Append(inbox[p], carry[h])[i] # 0
          <5>1. inbox[p] \in Seq(Version) /\ \A i \in 1..Len(inbox[p]) : inbox[p][i] # 0
            BY DEF TypeOK, Travels
          <5> QED BY <2>1, <5>1, Appended
        <4> QED BY <3>2, <4>1 DEF Travels
      <3> QED BY <1>2, <3>1, <3>2 DEF Announce
    <2>3. cast' \in [Pod \cup Handler -> Casting]
      <3>1. h \in Pod \cup Handler /\ Serves[h] \in Pod /\ connections[Serves[h]] \in SUBSET Socket
        BY DEF TypeOK
      <3>2. connections[Serves[h]] # {} =>
                [version |-> carry[h], to |-> connections[Serves[h]]] \in Casting
        BY <2>1, <3>1 DEF Casting
      <3>3. Nobody \in Casting /\ cast \in [Pod \cup Handler -> Casting]
        BY DEF TypeOK, Casting
      <3> QED BY <1>2, <3>1, <3>2, <3>3 DEF Announce
    <2>4. pc' \in [Handler -> {"idle", "announce"}] /\ carry' \in [Handler -> Version]
          /\ missed' \subseteq Console /\ \A g \in Handler : pc'[g] = "announce" => carry'[g] # 0
      BY <1>2 DEF Announce, TypeOK, Travels, Version
    <2> QED BY <1>2, <2>2, <2>3, <2>4 DEF Announce, TypeOK, Travels, Casting, link, page
  <1>3. CASE AnnounceFails(h)
    BY <1>3 DEF AnnounceFails, Fault, TypeOK, Travels, fanout, link, page, Version
  <1> QED BY <1>1, <1>2, <1>3

\* The steps of a pod.
LEMMA TypePod ==
    ASSUME TypeInv, NEW p \in Pod,
           TakeMessage(p) \/ ListenerFails(p) \/ Restart(p) \/ \E s \in Socket : ServerNotices(p, s)
    PROVE  TypeInv'
  <1> USE ConsoleAssumption DEF ConsoleAssumption, TypeInv
  <1>1. CASE TakeMessage(p)
    <2>1. inbox[p] \in Seq(Version) /\ inbox[p] # <<>> /\ \A i \in 1..Len(inbox[p]) : inbox[p][i] # 0
      BY <1>1 DEF TakeMessage, TypeOK, Travels
    <2>2. inbox' \in [Pod -> Seq(Version)] /\ \A r \in Pod : \A i \in 1..Len(inbox'[r]) : inbox'[r][i] # 0
      BY <1>1, <2>1, Shortened DEF TakeMessage, TypeOK, Travels
    <2>3. cast' \in [Pod \cup Handler -> Casting]
      BY <1>1, <2>1, Shortened DEF TakeMessage, TypeOK, Casting
    <2> QED BY <1>1, <2>2, <2>3 DEF TakeMessage, TypeOK, Travels, Casting, service, link, page
  <1>2. CASE ListenerFails(p)
    BY <1>2 DEF ListenerFails, Fault, TypeOK, Travels, service, link, page
  <1>3. CASE Restart(p)
    <2>1. inbox' \in [Pod -> Seq(Version)] /\ \A r \in Pod : \A i \in 1..Len(inbox'[r]) : inbox'[r][i] # 0
      BY <1>3 DEF Restart, TypeOK, Travels
    <2>2. wire' \in [Console -> Seq(Version)] /\ \A c \in Console : \A i \in 1..Len(wire'[c]) : wire'[c][i] # 0
      BY <1>3 DEF Restart, TypeOK, Travels
    <2>3. pc' \in [Handler -> {"idle", "announce"}] /\ carry' \in [Handler -> Version]
          /\ \A g \in Handler : pc'[g] = "announce" => carry'[g] # 0
      BY <1>3 DEF Restart, TypeOK, Travels, Version
    <2>4. cast' \in [Pod \cup Handler -> Casting]
      BY <1>3 DEF Restart, TypeOK, Casting
    <2>5. conn' \in [Console -> {"closed", "accepted", "open", "gone"}]
          /\ \A c \in Console : conn'[c] \in {"accepted", "open"} => sock'[c] # 0
      BY <1>3 DEF Restart, TypeOK, Travels
    <2>6. listening' \in [Pod -> BOOLEAN] /\ connections' \in [Pod -> SUBSET Socket]
          /\ faults' \in 0..MaxFaults /\ excused' \subseteq Console
      BY <1>3 DEF Restart, TypeOK, Fault
    <2> QED BY <1>3, <2>1, <2>2, <2>3, <2>4, <2>5, <2>6 DEF Restart, TypeOK, Travels, Casting, page
  <1>4. ASSUME NEW s \in Socket, ServerNotices(p, s) PROVE TypeInv'
    BY <1>4 DEF ServerNotices, TypeOK, Travels, service, link, page
  <1> QED BY <1>1, <1>2, <1>3, <1>4

\* The steps of a broadcast.
LEMMA TypeBroadcast ==
    ASSUME TypeInv, NEW x \in Pod \cup Handler, Broadcast(x)
    PROVE  TypeInv'
  <1> USE ConsoleAssumption DEF ConsoleAssumption, TypeInv
  <1>1. PICK s \in cast[x].to : Send(x, s) \/ SendToClosed(x, s)
    BY DEF Broadcast
  <1>2. cast[x] \in [version : Version \ {0}, to : (SUBSET Socket) \ {{}}]
    BY <1>1 DEF TypeOK, Nobody
  <1>3. s \in Socket /\ s[1] \in Console /\ cast[x].version \in Version \ {0}
    BY <1>1, <1>2 DEF Socket
  <1>4. SentTo(x, s) \in Casting
    <2>1. CASE cast[x].to = {s}
      BY <2>1 DEF SentTo, Casting
    <2>2. CASE cast[x].to # {s}
      <3>1. cast[x].to \ {s} \in (SUBSET Socket) \ {{}}
        BY <1>1, <1>2, <2>2
      <3> QED BY <1>2, <2>2, <3>1 DEF SentTo, Casting
    <2> QED BY <2>1, <2>2
  <1>5. cast' \in [Pod \cup Handler -> Casting]
    <2>1. cast' = [cast EXCEPT ![x] = SentTo(x, s)]
      BY <1>1 DEF Send, SendToClosed
    <2>2. cast \in [Pod \cup Handler -> Casting]
      BY DEF TypeOK, Casting
    <2> QED BY <1>4, <2>1, <2>2
  <1>6. CASE Send(x, s)
    <2>1. wire' \in [Console -> Seq(Version)] /\ \A c \in Console : \A i \in 1..Len(wire'[c]) : wire'[c][i] # 0
      <3>1. wire[s[1]] \in Seq(Version) /\ \A i \in 1..Len(wire[s[1]]) : wire[s[1]][i] # 0
        BY <1>3 DEF TypeOK, Travels
      <3>2. PICK d \in Console, q \in Seq(Version) :
                wire' = [wire EXCEPT ![d] = q] /\ \A i \in 1..Len(q) : q[i] # 0
        <4> DEFINE q == Append(wire[s[1]], cast[x].version)
        <4>1. q \in Seq(Version) /\ \A i \in 1..Len(q) : q[i] # 0
          BY <1>3, <3>1, Appended
        <4>2. wire' = [wire EXCEPT ![s[1]] = q]
          BY <1>6 DEF Send
        <4> QED BY <1>3, <4>1, <4>2
      <3> QED BY <3>2 DEF TypeOK, Travels
    <2>2. UNCHANGED <<service, inbox, listening, connections, conn, sock, home, page, faults, excused>>
      BY <1>6 DEF Send
    <2>3. TypeOK'
      BY <1>5, <2>1, <2>2 DEF TypeOK, Casting, service, page
    <2> QED BY <2>1, <2>2, <2>3 DEF Travels, service
  <1>7. CASE SendToClosed(x, s)
    BY <1>5, <1>7 DEF SendToClosed, TypeOK, Travels, Casting, service, link, page
  <1> QED BY <1>1, <1>6, <1>7

\* The steps of the page.
LEMMA TypePage ==
    ASSUME TypeInv, NEW c \in Console,
           \/ Open(c) \/ Register(c) \/ Drop(c) \/ TokenFails(c) \/ OnMessage(c)
           \/ \E k \in 1..MaxReads : Ask(c, k) \/ Answer(c, k) \/ RefreshFails(c, k)
    PROVE  TypeInv'
  <1> USE ConsoleAssumption DEF ConsoleAssumption, TypeInv
  <1>1. CASE Open(c)
    <2>1. PICK p \in Pod : Connect(c, p)
      BY <1>1 DEF Open
    <2>2. sock[c] + 1 \in 0..MaxSockets /\ sock[c] + 1 # 0
      BY <2>1 DEF Connect, TypeOK
    <2>3. /\ conn' \in [Console -> {"closed", "accepted", "open", "gone"}]
          /\ sock' \in [Console -> 0..MaxSockets] /\ home' \in [Console -> Pod]
      BY <2>1, <2>2 DEF Connect, TypeOK
    <2>4. \A d \in Console : conn'[d] \in {"accepted", "open"} => sock'[d] # 0
      BY <2>1, <2>2 DEF Connect, TypeOK, Travels
    <2>5. UNCHANGED <<service, fanout, wire, page, faults, excused>>
      BY <2>1 DEF Connect
    <2>6. TypeOK'
      BY <2>3, <2>5 DEF TypeOK, service, fanout, page
    <2>7. Travels'
      BY <2>4, <2>5 DEF Travels, service, fanout
    <2> QED BY <2>6, <2>7
  <1>2. CASE Register(c)
    <2>1. Own(c) \in Socket /\ home[c] \in Pod
      BY <1>2 DEF Register, Own, Socket, TypeOK, Travels
    <2> QED BY <1>2, <2>1 DEF Register, TypeOK, Travels, service, page
  <1>3. CASE Drop(c)
    BY <1>3 DEF Drop, Fault, TypeOK, Travels, service, fanout, page
  <1>4. CASE TokenFails(c)
    BY <1>4 DEF TokenFails, Fault, TypeOK, Travels, service, fanout, page
  <1>5. CASE OnMessage(c)
    <2>1. wire[c] \in Seq(Version) /\ wire[c] # <<>> /\ \A i \in 1..Len(wire[c]) : wire[c][i] # 0
      BY <1>5 DEF OnMessage, TypeOK, Travels
    <2>2. wire' \in [Console -> Seq(Version)] /\ \A d \in Console : \A i \in 1..Len(wire'[d]) : wire'[d][i] # 0
      BY <1>5, <2>1, Shortened DEF OnMessage, TypeOK, Travels
    <2>3. shown' \in [Console -> Version]
      BY <1>5, <2>1, Shortened DEF OnMessage, Merged, TypeOK
    <2> QED BY <1>5, <2>2, <2>3 DEF OnMessage, TypeOK, Travels, service, fanout
  <1>6. ASSUME NEW k \in 1..MaxReads, Ask(c, k) \/ Answer(c, k) \/ RefreshFails(c, k)
        PROVE  TypeInv'
    <2>1. /\ reads[c][k] \in [is : {"unused", "asked", "read", "done"}, version : Version]
          /\ 0 \in Version
      BY <1>6 DEF TypeOK, Version
    <2>2. ASSUME NEW v \in Version, NEW step \in {"unused", "asked", "read", "done"},
                 reads' = [reads EXCEPT ![c][k] = At(step, v)]
          PROVE  reads' \in [Console -> [1..MaxReads ->
                    [is : {"unused", "asked", "read", "done"}, version : Version]]]
      BY <2>2 DEF At, TypeOK
    <2>3. CASE Ask(c, k)
      <3>1. reads' \in [Console -> [1..MaxReads ->
                    [is : {"unused", "asked", "read", "done"}, version : Version]]]
        BY <2>1, <2>2, <2>3 DEF Ask, Read
      <3>2. UNCHANGED <<service, fanout, link, shown, faults, excused>>
        BY <2>3 DEF Ask
      <3>3. TypeOK'
        BY <3>1, <3>2 DEF TypeOK, service, fanout, link
      <3>4. Travels'
        BY <3>2 DEF Travels, service, fanout, link
      <3> QED BY <3>3, <3>4
    <2>4. ASSUME NEW v \in Version, List(c, k, v) PROVE TypeInv'
      <3>1. reads' \in [Console -> [1..MaxReads ->
                    [is : {"unused", "asked", "read", "done"}, version : Version]]]
        BY <2>2, <2>4 DEF List, Read
      <3> QED BY <2>4, <3>1 DEF List, TypeOK, Travels, service, fanout, link
    <2>5. CASE Merge(c, k)
      <3>1. reads' \in [Console -> [1..MaxReads ->
                    [is : {"unused", "asked", "read", "done"}, version : Version]]]
        BY <2>1, <2>2, <2>5 DEF Merge, Read
      <3>2. shown' \in [Console -> Version]
        BY <2>1, <2>5 DEF Merge, Merged, TypeOK
      <3> QED BY <2>5, <3>1, <3>2 DEF Merge, TypeOK, Travels, service, fanout, link
    <2>6. CASE RefreshFails(c, k)
      <3>1. reads' \in [Console -> [1..MaxReads ->
                    [is : {"unused", "asked", "read", "done"}, version : Version]]]
        BY <2>1, <2>2, <2>6 DEF RefreshFails, Read
      <3> QED BY <2>6, <3>1 DEF RefreshFails, Fault, TypeOK, Travels, service, fanout, link
    <2> QED BY <1>6, <2>3, <2>4, <2>5, <2>6 DEF Answer
  <1> QED BY <1>1, <1>2, <1>3, <1>4, <1>5, <1>6

LEMMA TypeStep == TypeInv /\ [Next]_vars => TypeInv'
  <1> SUFFICES ASSUME TypeInv, [Next]_vars PROVE TypeInv'
    OBVIOUS
  <1>1. CASE UNCHANGED vars
    BY <1>1 DEF TypeInv, TypeOK, Travels, vars, service, fanout, link, page
  <1> QED BY <1>1, TypeHandle, TypePod, TypeBroadcast, TypePage DEF Next

\* Every variable keeps its type, and no announcement, message or wire ever
\* carries version 0: mergeIncidents never merges a record nobody stored.
THEOREM ConsoleTypeCorrect == Spec => []TypeOK
  <1>1. TypeInv => TypeOK
    BY DEF TypeInv
  <1> QED BY <1>1, TypeInit, TypeStep, PTL DEF Spec

-----------------------------------------------------------------------------
(* The latest record comes last.                                           *)

LEMMA SoundInit == Init => ConsoleInv
  <1> SUFFICES ASSUME Init PROVE ConsoleInv
    OBVIOUS
  <1>1. \A p \in Pod : connections[p] = {} /\ cast[p].to = {} /\ listening[p] = (broker = "redis")
    BY DEF Init, Nobody
  <1>2. (\A h \in Handler : cast[h] = Nobody /\ pc[h] = "idle") /\ table = 0
    BY DEF Init
  <1>3. \A c \in Console : conn[c] = "closed" /\ \A k \in 1..MaxReads : reads[c][k].is = "unused"
    BY DEF Init, At
  <1>4. broker = "redis" => \A c \in Console \ excused : Sound(c)
    BY <1>1, <1>2, <1>3 DEF Sound, AllListen, OneChange, SocketsMatch, LateIsMissed,
                            WillBeCurrent, Quiet
  <1> QED BY <1>4, TypeInit DEF ConsoleInv

\* A put: no other change is under way, and c reads nothing meanwhile.
LEMMA SoundPut ==
    ASSUME TypeInv, NEW c \in Console, Sound(c), NEW h \in Handler, Put(h), c \notin excused'
    PROVE  Sound(c)'
  <1>1. /\ \A g \in Handler : ~Announcing(g)
        /\ ~Reading(c)
    BY DEF Put
  <1>2. pc' = [pc EXCEPT ![h] = "announce"] /\ carry' = [carry EXCEPT ![h] = table + 1]
        /\ table' = table + 1 /\ UNCHANGED <<fanout, link, page>>
    BY DEF Put
  <1>3. pc'[h] = "announce" /\ carry'[h] = table'
    BY <1>2 DEF TypeInv, TypeOK
  <1>4. \A g \in Handler : pc'[g] = "announce" => g = h
    BY <1>1, <1>2 DEF TypeInv, TypeOK, Announcing
  <1>5. AllListen' /\ SocketsMatch'
    BY <1>2 DEF Sound, AllListen, SocketsMatch, Current, Own, fanout, link
  <1>6. OneChange'
    BY <1>3, <1>4 DEF OneChange
  <1>7. ~Quiet'
    BY <1>3 DEF Quiet
  <1>8. \A k \in 1..MaxReads : reads'[c][k].is # "read"
    BY <1>1, <1>2 DEF Reading, page
  <1> QED BY <1>5, <1>6, <1>7, <1>8 DEF Sound, LateIsMissed, WillBeCurrent

\* An announcement: the record ends every subscription.
LEMMA SoundAnnounce ==
    ASSUME TypeInv, broker = "redis", NEW c \in Console, Sound(c),
           NEW h \in Handler, Announce(h)
    PROVE  Sound(c)'
  <1>1. pc' = [pc EXCEPT ![h] = "idle"] /\ carry' = [carry EXCEPT ![h] = 0]
        /\ missed' = {d \in Console : conn[d] # "open"}
        /\ inbox' = [p \in Pod |-> IF listening[p] THEN Append(inbox[p], carry[h]) ELSE inbox[p]]
        /\ UNCHANGED <<table, listening, connections, cast, link, page>>
    BY DEF Announce
  <1>2. pc[h] = "announce" /\ carry[h] = table /\ carry[h] \in Version \ {0}
    BY DEF Announce, Sound, OneChange, TypeInv, TypeOK, Travels
  <1>3. AllListen' /\ SocketsMatch'
    BY <1>1 DEF Sound, AllListen, SocketsMatch, Current, Own, link
  <1>4. OneChange'
    BY <1>1 DEF Sound, OneChange, TypeInv, TypeOK
  <1>5. LateIsMissed'
    BY <1>1 DEF LateIsMissed, link
  <1>6. ASSUME conn'[c] = "open" PROVE LastIs(c)'
    <2>1. home[c] \in Pod /\ listening[home[c]] /\ home' = home
      BY <1>1 DEF Sound, AllListen, TypeInv, TypeOK, link
    <2>2. inbox'[home[c]] = Append(inbox[home[c]], carry[h])
      BY <1>1, <2>1
    <2>3. /\ inbox[home[c]] \in Seq(Version)
          /\ \A i \in 1..Len(inbox[home[c]]) : inbox[home[c]][i] # 0
      BY <2>1 DEF TypeInv, TypeOK, Travels
    <2>4. inbox'[home[c]] # <<>> /\ inbox'[home[c]][Len(inbox'[home[c]])] = table
      BY <1>2, <2>2, <2>3, Appended
    <2> QED BY <1>1, <2>1, <2>4 DEF LastIs
  <1>7. WillBeCurrent(c)'
    BY <1>1, <1>6 DEF Sound, WillBeCurrent, page
  <1> QED BY <1>3, <1>4, <1>5, <1>7 DEF Sound

\* A message is taken: it is broadcast to every socket of the pod.
LEMMA SoundTake ==
    ASSUME TypeInv, NEW c \in Console, Sound(c), NEW p \in Pod, TakeMessage(p)
    PROVE  Sound(c)'
  <1> DEFINE sent == IF connections[p] = {} THEN Nobody
                     ELSE [version |-> Head(inbox[p]), to |-> connections[p]]
  <1>1. inbox' = [inbox EXCEPT ![p] = Tail(@)] /\ cast' = [cast EXCEPT ![p] = sent]
        /\ inbox[p] # <<>> /\ UNCHANGED <<service, listening, connections, link, page>>
    BY DEF TakeMessage
  <1>2. sent.to = connections[p] /\ (connections[p] # {} => sent.version = Head(inbox[p]))
    BY DEF Nobody
  <1> HIDE DEF sent
  <1>3. cast'[p] = sent /\ inbox'[p] = Tail(inbox[p])
        /\ \A x \in Pod \cup Handler : x # p => cast'[x] = cast[x]
        /\ \A q \in Pod : q # p => inbox'[q] = inbox[q]
    BY <1>1 DEF TypeInv, TypeOK
  <1>4. AllListen'
    BY <1>1, <1>3, ConsoleAssumption DEF Sound, AllListen, ConsoleAssumption
  <1>5. OneChange' /\ LateIsMissed' /\ (Quiet' <=> Quiet)
    BY <1>1 DEF Sound, OneChange, LateIsMissed, Quiet, service, link
  <1>6. SocketsMatch'
    BY <1>1, <1>2, <1>3 DEF Sound, SocketsMatch, Current, Own, link
  <1>7. ASSUME Quiet, conn[c] = "open", c \notin missed PROVE LastIs(c)'
    <2>1. LastIs(c) /\ home[c] \in Pod /\ Own(c) \in connections[home[c]]
      BY <1>7 DEF Sound, WillBeCurrent, SocketsMatch, TypeInv, TypeOK
    <2>2. UNCHANGED <<home, sock, wire, shown, table>> /\ Own(c)' = Own(c)
      BY <1>1 DEF service, link, page, Own
    <2>3. CASE home[c] # p
      BY <1>3, <2>1, <2>2, <2>3 DEF LastIs
    <2>4. CASE home[c] = p
      <3>1. inbox[p] \in Seq(Version) /\ \A i \in 1..Len(inbox[p]) : inbox[p][i] # 0
        BY DEF TypeInv, TypeOK, Travels
      <3>2. inbox[p][Len(inbox[p])] = table
        BY <1>1, <2>1, <2>4 DEF LastIs
      <3>3. IF Tail(inbox[p]) = <<>> THEN Head(inbox[p]) = table
            ELSE Tail(inbox[p])[Len(Tail(inbox[p]))] = table
        BY <1>1, <3>1, <3>2, Shortened
      <3>4. Own(c) \in sent.to /\ sent.version = Head(inbox[p])
        BY <1>2, <2>1, <2>4
      <3> QED BY <1>3, <2>2, <2>4, <3>3, <3>4 DEF LastIs
    <2> QED BY <2>3, <2>4
  <1>8. WillBeCurrent(c)'
    BY <1>1, <1>5, <1>7 DEF Sound, WillBeCurrent, service, link, page
  <1> QED BY <1>4, <1>5, <1>6, <1>8 DEF Sound

\* A socket a pod knows is alive: no broadcast fails, no socket is dropped.
LEMMA SocketsLive ==
    ASSUME NEW c \in Console, Sound(c), NEW p \in Pod, NEW s \in connections[p] \cup cast[p].to
    PROVE  Live(s)
  BY DEF Sound, SocketsMatch, Current, Live

\* One socket of a broadcast gets the record.
LEMMA SoundSend ==
    ASSUME TypeInv, NEW c \in Console, Sound(c), NEW x \in Pod \cup Handler, Broadcast(x)
    PROVE  Sound(c)'
  <1>1. PICK s \in cast[x].to : Send(x, s) \/ SendToClosed(x, s)
    BY DEF Broadcast
  <1>2. x \in Pod
    BY <1>1 DEF Sound, AllListen, Nobody
  <1>3. Live(s) /\ Current(x, s)
    BY <1>1, <1>2, SocketsLive DEF Sound, SocketsMatch
  <1>4. /\ wire' = [wire EXCEPT ![s[1]] = Append(@, cast[x].version)]
        /\ cast' = [cast EXCEPT ![x] = SentTo(x, s)]
        /\ UNCHANGED <<service, inbox, listening, connections, conn, sock, home, page>>
    BY <1>1, <1>3 DEF Send, SendToClosed
  <1>5. cast[x] \in [version : Version \ {0}, to : (SUBSET Socket) \ {{}}]
    BY <1>1 DEF TypeInv, TypeOK, Nobody
  <1>6. /\ SentTo(x, s).to = cast[x].to \ {s}
        /\ SentTo(x, s).to # {} => SentTo(x, s).version = cast[x].version
    BY <1>1, <1>5 DEF SentTo, Nobody
  <1>7. cast'[x] = SentTo(x, s) /\ \A y \in Pod \cup Handler : y # x => cast'[y] = cast[y]
    BY <1>4 DEF TypeInv, TypeOK
  <1>8. s \in Socket /\ s[1] \in Console /\ s = <<s[1], s[2]>>
    BY <1>1, <1>5 DEF Socket
  <1>9. AllListen'
    BY <1>2, <1>4, <1>7, ConsoleAssumption DEF Sound, AllListen, ConsoleAssumption
  <1>10. OneChange' /\ LateIsMissed' /\ (Quiet' <=> Quiet)
    BY <1>4 DEF Sound, OneChange, LateIsMissed, Quiet, service
  <1>11. SocketsMatch'
    <2>1. \A p \in Pod : cast'[p].to \subseteq cast[p].to
      BY <1>6, <1>7
    <2> QED BY <1>4, <2>1 DEF Sound, SocketsMatch, Current, Own
  <1>12. ASSUME Quiet, conn[c] = "open", c \notin missed PROVE LastIs(c)'
    <2>1. LastIs(c) /\ home[c] \in Pod
      BY <1>12 DEF Sound, WillBeCurrent, TypeInv, TypeOK
    <2>2. UNCHANGED <<home, inbox, shown, table>> /\ Own(c)' = Own(c)
      BY <1>4 DEF service, page, Own
    <2>3. CASE s = Own(c)
      <3>1. x = home[c] /\ s[1] = c
        BY <1>3, <2>3 DEF Current, Own
      <3>2. Own(c) \notin cast'[x].to /\ wire'[c] = Append(wire[c], cast[x].version)
        BY <1>4, <1>6, <1>7, <2>3, <3>1 DEF TypeInv, TypeOK
      <3>3. wire[c] \in Seq(Version) /\ \A i \in 1..Len(wire[c]) : wire[c][i] # 0
        BY DEF TypeInv, TypeOK, Travels
      <3>4. wire'[c] # <<>> /\ wire'[c][Len(wire'[c])] = cast[x].version
        BY <1>5, <3>2, <3>3, Appended
      <3>5. inbox[x] = <<>> => cast[x].version = table
        BY <1>1, <2>1, <2>3, <3>1 DEF LastIs
      <3>6. inbox[x] # <<>> => inbox[x][Len(inbox[x])] = table
        BY <2>1, <3>1 DEF LastIs
      <3> QED BY <2>2, <3>1, <3>2, <3>4, <3>5, <3>6 DEF LastIs
    <2>4. CASE s # Own(c)
      <3>1. s[1] # c
        BY <1>3, <1>8, <2>4 DEF Current, Own
      <3>2. wire'[c] = wire[c]
        BY <1>4, <3>1 DEF TypeInv, TypeOK
      <3>3. /\ Own(c) \in cast'[home[c]].to <=> Own(c) \in cast[home[c]].to
            /\ Own(c) \in cast[home[c]].to => cast'[home[c]].version = cast[home[c]].version
        BY <1>6, <1>7, <2>1, <2>4
      <3> QED BY <2>1, <2>2, <3>2, <3>3 DEF LastIs
    <2> QED BY <2>3, <2>4
  <1>13. WillBeCurrent(c)'
    BY <1>4, <1>10, <1>12 DEF Sound, WillBeCurrent, service, page
  <1> QED BY <1>9, <1>10, <1>11, <1>13 DEF Sound

\* A console connects: it was missed, if a change is out, and stays so.
LEMMA SoundConnect ==
    ASSUME TypeInv, NEW c \in Console, Sound(c), NEW d \in Console, Open(d) \/ Register(d)
    PROVE  Sound(c)'
  <1>1. UNCHANGED <<service, inbox, listening, cast, wire, page>>
    BY DEF Open, Connect, Register, fanout
  <1>2. AllListen' /\ OneChange' /\ (Quiet' <=> Quiet)
    BY <1>1 DEF Sound, AllListen, OneChange, Quiet, service
  <1>3. conn[d] # "open" /\ (Quiet => d \in missed)
    BY DEF Sound, LateIsMissed, Open, Connect, Register
  <1>4. \A e \in Console : e # d => conn'[e] = conn[e] /\ sock'[e] = sock[e] /\ home'[e] = home[e]
    BY DEF Open, Connect, Register, TypeInv, TypeOK
  <1>5. LateIsMissed'
    BY <1>1, <1>2, <1>3, <1>4 DEF Sound, LateIsMissed, service
  <1>6. \A p \in Pod : \A s \in connections[p] \cup cast[p].to :
            s \in Socket /\ s[1] \in Console /\ s[1] # d /\ Current(p, s)
    <2>1. \A p \in Pod : connections[p] \cup cast[p].to \subseteq Socket
      <3> TAKE p \in Pod
      <3>1. connections[p] \in SUBSET Socket
            /\ cast[p] \in {Nobody} \cup [version : Version \ {0}, to : (SUBSET Socket) \ {{}}]
        BY DEF TypeInv, TypeOK
      <3>2. cast[p].to \subseteq Socket
        BY <3>1 DEF Nobody
      <3> QED BY <3>1, <3>2
    <2>2. \A s \in Socket : s[1] \in Console
      BY DEF Socket
    <2> QED BY <1>3, <2>1, <2>2 DEF Sound, SocketsMatch, Current
  <1>7. \A p \in Pod : \A s \in connections[p] \cup cast[p].to : Current(p, s)'
    BY <1>4, <1>6 DEF Current
  <1>8. SocketsMatch'
    <2>1. CASE Open(d)
      <3>1. connections' = connections /\ conn'[d] = "accepted"
        BY <2>1 DEF Open, Connect, fanout, TypeInv, TypeOK
      <3>2. \A e \in Console : conn'[e] = "open" => e # d
        BY <3>1
      <3> QED BY <1>1, <1>4, <1>7, <3>1, <3>2 DEF Sound, SocketsMatch, Own
    <2>2. CASE Register(d)
      <3>1. connections' = [connections EXCEPT ![home[d]] = @ \cup {Own(d)}]
            /\ conn'[d] = "open" /\ sock' = sock /\ home' = home /\ home[d] \in Pod
        BY <2>2 DEF Register, TypeInv, TypeOK
      <3>2. \A p \in Pod : connections[p] \subseteq connections'[p]
                 /\ connections'[p] \subseteq connections[p] \cup {Own(d)}
                 /\ (Own(d) \in connections'[p] => p = home[d] \/ Own(d) \in connections[p])
        BY <3>1 DEF TypeInv, TypeOK
      <3>3. /\ Own(d) \in connections'[home[d]]
            /\ \A p \in Pod : \A s : p = home[d] /\ s = Own(d) => Current(p, s)'
        BY <3>1 DEF TypeInv, TypeOK, Current, Own
      <3>4. \A p \in Pod : \A s \in connections'[p] \cup cast'[p].to : Current(p, s)'
        BY <1>1, <1>7, <3>2, <3>3
      <3>5. \A e \in Console : conn'[e] = "open" => Own(e)' \in connections'[home'[e]]
        <4>1. TAKE e \in Console
        <4>2. CASE e = d
          BY <3>1, <3>3, <4>2 DEF Own
        <4>3. CASE e # d
          BY <1>4, <3>1, <3>2, <4>3 DEF Sound, SocketsMatch, Own, TypeInv, TypeOK
        <4> QED BY <4>2, <4>3
      <3> QED BY <3>4, <3>5 DEF SocketsMatch
    <2> QED BY <2>1, <2>2
  <1>9. WillBeCurrent(c)'
    <2>1. Quiet' /\ conn'[c] = "open" /\ c \notin missed' => c # d /\ LastIs(c)
      BY <1>1, <1>2, <1>3, <1>4 DEF Sound, WillBeCurrent, service
    <2>2. c # d => (LastIs(c)' <=> LastIs(c))
      BY <1>1, <1>4 DEF LastIs, Own, service, page
    <2> QED BY <1>1, <2>1, <2>2 DEF Sound, WillBeCurrent, service, page
  <1> QED BY <1>2, <1>5, <1>8, <1>9 DEF Sound

\* A message is merged: the last one stays last, or is what is shown.
LEMMA SoundMessage ==
    ASSUME TypeInv, NEW c \in Console, Sound(c), NEW d \in Console, OnMessage(d)
    PROVE  Sound(c)'
  <1>1. /\ wire[d] # <<>>
        /\ shown' = [shown EXCEPT ![d] = Merged(@, Head(wire[d]))]
        /\ wire' = [wire EXCEPT ![d] = Tail(@)]
        /\ UNCHANGED <<service, fanout, conn, sock, home, reads>>
    BY DEF OnMessage
  <1>2. AllListen' /\ OneChange' /\ SocketsMatch' /\ LateIsMissed' /\ (Quiet' <=> Quiet)
    BY <1>1 DEF Sound, AllListen, OneChange, SocketsMatch, Current, Own, LateIsMissed, Quiet,
                service, fanout
  <1>3. ASSUME LastIs(c) PROVE LastIs(c)'
    <2>1. UNCHANGED <<home, inbox, cast, table>> /\ Own(c)' = Own(c)
      BY <1>1 DEF service, fanout, Own
    <2>2. CASE c # d
      <3>1. wire'[c] = wire[c] /\ shown'[c] = shown[c]
        BY <1>1, <2>2 DEF TypeInv, TypeOK
      <3> QED BY <1>3, <2>1, <3>1 DEF LastIs
    <2>3. CASE c = d
      <3>1. wire[c] \in Seq(Version) /\ \A i \in 1..Len(wire[c]) : wire[c][i] # 0
        BY DEF TypeInv, TypeOK, Travels
      <3>2. wire'[c] = Tail(wire[c]) /\ shown'[c] = Head(wire[c])
        BY <1>1, <2>3, <3>1, Shortened DEF Merged, TypeInv, TypeOK
      <3>3. /\ wire'[c] # <<>> => wire'[c][Len(wire'[c])] = wire[c][Len(wire[c])]
            /\ wire'[c] = <<>> => shown'[c] = wire[c][Len(wire[c])]
        BY <1>1, <2>3, <3>1, <3>2, Shortened
      <3> QED BY <1>1, <1>3, <2>1, <2>3, <3>3 DEF LastIs
    <2> QED BY <2>2, <2>3
  <1>4. WillBeCurrent(c)'
    BY <1>1, <1>2, <1>3 DEF Sound, WillBeCurrent, service
  <1> QED BY <1>2, <1>4 DEF Sound

\* A refresh: what it read is the latest record, or c is excused.
LEMMA SoundRefresh ==
    ASSUME TypeInv, NEW c \in Console, Sound(c), c \notin excused',
           NEW d \in Console, NEW k \in 1..MaxReads, Ask(d, k) \/ Answer(d, k)
    PROVE  Sound(c)'
  <1>1. UNCHANGED <<service, fanout, link>>
    BY DEF Ask, Answer, List, Merge
  <1>2. AllListen' /\ OneChange' /\ SocketsMatch' /\ LateIsMissed' /\ (Quiet' <=> Quiet)
    BY <1>1 DEF Sound, AllListen, OneChange, SocketsMatch, Current, Own, LateIsMissed, Quiet,
                service, fanout, link
  <1>3. \A i \in 1..MaxReads : reads'[c][i].is = "read" => reads'[c][i].version = table
    <2>1. \A i \in 1..MaxReads : reads[c][i].is = "read" => reads[c][i].version = table
      BY DEF Sound, WillBeCurrent
    <2>2. ASSUME NEW to, reads' = [reads EXCEPT ![d][k] = to],
                 c = d /\ to.is = "read" => to.version = table
          PROVE  \A i \in 1..MaxReads : reads'[c][i].is = "read" => reads'[c][i].version = table
      BY <2>1, <2>2 DEF TypeInv, TypeOK
    <2>3. CASE Ask(d, k) \/ Merge(d, k)
      BY <2>2, <2>3 DEF Ask, Merge, Read, At
    <2>4. ASSUME NEW v \in Version, List(d, k, v)
          PROVE  \A i \in 1..MaxReads : reads'[c][i].is = "read" => reads'[c][i].version = table
      <3>1. c = d => v = table
        BY <2>4 DEF List, TypeInv, TypeOK, Version
      <3> QED BY <2>2, <2>4, <3>1 DEF List, Read, At
    <2> QED BY <2>3, <2>4 DEF Answer
  <1>4. ASSUME LastIs(c), table # 0 PROVE LastIs(c)'
    <2>1. shown'[c] = shown[c] \/ shown'[c] = table
      <3>1. CASE UNCHANGED shown
        BY <3>1
      <3>2. CASE Merge(d, k)
        <4>1. c = d => reads[c][k].version = table
          BY <3>2 DEF Merge, Read, Sound, WillBeCurrent
        <4> QED BY <1>4, <3>2, <4>1 DEF Merge, Merged, TypeInv, TypeOK
      <3> QED BY <3>1, <3>2 DEF Ask, Answer, List
    <2> QED BY <1>1, <1>4, <2>1 DEF LastIs, Own, service, fanout, link
  <1>5. WillBeCurrent(c)'
    BY <1>1, <1>2, <1>3, <1>4 DEF Sound, WillBeCurrent, Quiet, service, link
  <1> QED BY <1>2, <1>5 DEF Sound

LEMMA SoundStep == ConsoleInv /\ [Next]_vars => ConsoleInv'
  <1> SUFFICES ASSUME ConsoleInv, [Next]_vars PROVE ConsoleInv'
    OBVIOUS
  <1>1. TypeInv'
    BY TypeStep DEF ConsoleInv
  <1>2. ASSUME NEW c \in Console, c \notin excused', broker' = "redis" PROVE Sound(c)'
    <2>1. ~Fault
      BY <1>2 DEF Fault
    <2>2. broker = "redis" /\ c \notin excused
      <3>1. CASE UNCHANGED vars
        BY <1>2, <3>1 DEF vars, service
      <3>2. ASSUME NEW h \in Handler, Put(h) \/ Announce(h) PROVE broker = "redis" /\ c \notin excused
        BY <1>2, <3>2 DEF Put, Announce, ConsoleInv, TypeInv, TypeOK
      <3>3. ASSUME NEW p \in Pod, TakeMessage(p) \/ \E s \in Socket : ServerNotices(p, s)
            PROVE  broker = "redis" /\ c \notin excused
        BY <1>2, <3>3 DEF TakeMessage, ServerNotices, service
      <3>4. ASSUME NEW x \in Pod \cup Handler, Broadcast(x) PROVE broker = "redis" /\ c \notin excused
        BY <1>2, <3>4 DEF Broadcast, Send, SendToClosed, service
      <3>5. ASSUME NEW d \in Console, Open(d) \/ Register(d) \/ OnMessage(d)
            PROVE  broker = "redis" /\ c \notin excused
        BY <1>2, <3>5 DEF Open, Connect, Register, OnMessage, service
      <3>6. ASSUME NEW d \in Console, NEW k \in 1..MaxReads, Ask(d, k) \/ Answer(d, k)
            PROVE  broker = "redis" /\ c \notin excused
        BY <1>2, <3>6 DEF Ask, Answer, List, Merge, service
      <3> QED
        BY <2>1, <3>1, <3>2, <3>3, <3>4, <3>5, <3>6
           DEF Next, AnnounceFails, ListenerFails, Restart, Drop, TokenFails, RefreshFails
    <2>3. TypeInv /\ Sound(c)
      BY <2>2 DEF ConsoleInv
    <2>4. CASE UNCHANGED vars
      BY <2>3, <2>4 DEF Sound, AllListen, OneChange, SocketsMatch, Current, Own, LateIsMissed,
                        Quiet, WillBeCurrent, LastIs, vars, service, fanout, link, page
    <2>5. ASSUME NEW p \in Pod, NEW s \in Socket PROVE ~ServerNotices(p, s)
      BY <2>3, SocketsLive DEF ServerNotices
    <2> QED
      BY <1>2, <2>1, <2>2, <2>3, <2>4, <2>5, SoundPut, SoundAnnounce, SoundTake, SoundSend,
         SoundConnect, SoundMessage, SoundRefresh
         DEF Next, AnnounceFails, ListenerFails, Restart, Drop, TokenFails, RefreshFails
  <1> QED BY <1>1, <1>2 DEF ConsoleInv

\* While no call has failed and no two changes were under way at once, the
\* last record on its way to a connected console - on its socket, in the
\* broadcast or in the subscription of its pod - is the one the table holds.
THEOREM LatestComesLast == Spec => []ConsoleInv
  BY SoundInit, SoundStep, PTL DEF Spec

\* What the page shows at rest is what the table holds, if its socket was in
\* place at the last announcement, no call failed, the pods share Redis and no
\* change overlapped another or a refresh: mergeIncidents needs no versions.
THEOREM ConnectedAreCurrent == Spec => []ConnectedIsCurrent
  <1>1. ConsoleInv => ConnectedIsCurrent
    <2> SUFFICES ASSUME ConsoleInv, NEW c \in Console, Still(c), conn[c] = "open",
                        broker = "redis", table # 0, c \notin missed \cup excused
                 PROVE  shown[c] = table
      BY DEF ConnectedIsCurrent
    <2>1. Sound(c) /\ home[c] \in Pod
      BY DEF ConsoleInv, TypeInv, TypeOK
    <2>2. Quiet
      BY DEF Still, Announcing, Quiet
    <2>3. LastIs(c)
      BY <2>1, <2>2 DEF Sound, WillBeCurrent
    <2>4. inbox[home[c]] = <<>> /\ cast[home[c]].to = {} /\ wire[c] = <<>>
      BY <2>1 DEF Still, Nobody
    <2> QED BY <2>3, <2>4 DEF LastIs
  <1> QED BY <1>1, LatestComesLast, PTL
=============================================================================
