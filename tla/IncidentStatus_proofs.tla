------------------------ MODULE IncidentStatus_proofs ------------------------
(***************************************************************************)
(* What survives the races between status requests, for any number of      *)
(* handlers, requests and failing calls.                                   *)
(***************************************************************************)
EXTENDS IncidentStatus, SequenceTheorems, FiniteSetTheorems, TLAPS

\* ALLOWED_TRANSITIONS maps a status to statuses, and only one step leads to
\* work in progress and to resolution.
LEMMA AllowedTable ==
    /\ \A s \in Status : Allowed[s] \subseteq Status
    /\ \A s \in Status : "resolved" \in Allowed[s] => s = "in_progress"
    /\ \A s \in Status : "in_progress" \in Allowed[s] => s = "approved"
    /\ \A s \in Status : "approved" \in Allowed[s] => s \in {"analyzing", "review_required"}
    /\ \A s \in Status : "review_required" \in Allowed[s] => s = "analyzing"
    BY DEF Allowed, Status

\* Storing a status adds it to the statuses held and removes none.
LEMMA HeldAppend ==
    ASSUME history \in Seq(Status), NEW x \in Status, history' = Append(history, x)
    PROVE  \A s : Held(s)' <=> Held(s) \/ s = x
  <1>1. /\ Len(history) \in Nat
        /\ Len(history') = Len(history) + 1
        /\ \A i \in 1..Len(history) : history'[i] = history[i]
        /\ history'[Len(history) + 1] = x
      BY AppendProperties, LenProperties
  <1> QED BY <1>1 DEF Held

\* TypeOK is inductive: whatever handlers race, the stored item, the event log
\* and the handlers' locals keep their types.
LEMMA TypeInductive ==
    /\ Init => TypeOK
    /\ TypeOK /\ [Next]_iVars => TypeOK'
  <1>1. Init => TypeOK
      BY DEF Init, TypeOK, Status, HandlerStep, Answer
  <1>2. ASSUME TypeOK, [Next]_iVars PROVE TypeOK'
    <2>1. ASSUME NEW h \in Handler, NEW s \in Status, Receive(h, s) PROVE TypeOK'
        BY <1>2, <2>1 DEF Receive, Goto, TypeOK, item, HandlerStep, Answer
    <2>2. ASSUME NEW h \in Handler, Store(h)
          PROVE  version' \in Nat /\ status' \in Status /\ history' \in Seq(Status)
        BY <1>2, <2>2, AppendProperties DEF Store, TypeOK
    <2>2a. ASSUME NEW h \in Handler, Announce(h)
           PROVE  events' \in Seq([previous : Status, status : Status])
        BY <1>2, <2>2a, AppendProperties DEF Announce, TypeOK
    <2>3. ASSUME NEW h \in Handler, GetAllowed(h) PROVE TypeOK'
        BY <1>2, <2>3 DEF GetAllowed, Goto, TypeOK, item, HandlerStep
    <2>4. ASSUME NEW h \in Handler, GetRefused(h) PROVE TypeOK'
        BY <1>2, <2>4 DEF GetRefused, Reply, TypeOK, item, call, HandlerStep, Answer
    <2>5. ASSUME NEW h \in Handler, PutRead(h) PROVE TypeOK'
        BY <1>2, <2>5 DEF PutRead, Goto, TypeOK, item, HandlerStep
    <2>6. ASSUME NEW h \in Handler, PutWrite(h) PROVE TypeOK'
        BY <1>2, <2>2, <2>6 DEF PutWrite, Goto, TypeOK, call, HandlerStep
    <2>7. ASSUME NEW h \in Handler, PutConflict(h) PROVE TypeOK'
        BY <1>2, <2>7 DEF PutConflict, Reply, TypeOK, item, call, HandlerStep, Answer
    <2>8. ASSUME NEW h \in Handler, Publish(h) PROVE TypeOK'
      <3>1. events' \in Seq([previous : Status, status : Status])
          BY <2>8, <2>2a DEF Publish
      <3> QED BY <1>2, <2>8, <3>1 DEF Publish, Reply, TypeOK, item, call, HandlerStep, Answer
    <2>9. ASSUME NEW h \in Handler, CallFails(h) PROVE TypeOK'
      <3>1. /\ version' \in Nat /\ status' \in Status /\ history' \in Seq(Status)
            /\ events' \in Seq([previous : Status, status : Status])
          BY <1>2, <2>2, <2>2a, <2>9 DEF CallFails, TypeOK, item
      <3>2. pc' \in [Handler -> HandlerStep] /\ answer' \in [Handler -> Answer]
          BY <1>2, <2>9 DEF CallFails, Reply, TypeOK, HandlerStep, Answer
      <3>3. faults' \in Nat /\ UNCHANGED <<call, requests>>
          BY <1>2, <2>9 DEF CallFails, TypeOK
      <3> QED BY <1>2, <3>1, <3>2, <3>3 DEF TypeOK, call
    <2>10. CASE UNCHANGED iVars
        BY <1>2, <2>10 DEF iVars, item, call, TypeOK
    <2> QED BY <1>2, <2>1, <2>3, <2>4, <2>5, <2>6, <2>7, <2>8, <2>9, <2>10
            DEF Next, Handle, Idle
  <1> QED BY <1>1, <1>2

\* Every status ever stored was reached by an allowed step from one stored
\* before, and a handler past its check acts on a status the incident had.
EarnedInv ==
    /\ Held(status)
    /\ \A s \in Status : Held(s) => \/ s = "detected"
                                    \/ \E t \in Status : Held(t) /\ s \in Allowed[t]
    /\ \A h \in Handler : pc[h] \in {"read", "write"} =>
                            Held(got[h]) /\ target[h] \in Allowed[got[h]]

\* Steps that store nothing and bring a handler past its check only on the
\* status stored now.
ReadStep ==
    /\ UNCHANGED item
    /\ \A g \in Handler : pc'[g] \in {"read", "write"} =>
        \/ pc[g] \in {"read", "write"} /\ got'[g] = got[g] /\ target'[g] = target[g]
        \/ got'[g] = status /\ target'[g] \in Allowed[status]

\* EarnedInv is inductive.
LEMMA EarnedInductive ==
    /\ Init => EarnedInv
    /\ TypeOK /\ EarnedInv /\ [Next]_iVars => EarnedInv'
  <1>1. Init => EarnedInv
      BY DEF Init, EarnedInv, Held, Status
  <1>2. ASSUME TypeOK, EarnedInv, [Next]_iVars PROVE EarnedInv'
    <2>1. ASSUME NEW h \in Handler, Store(h), pc[h] = "write", UNCHANGED <<target, got>>,
                 pc' = [pc EXCEPT ![h] = pc'[h]], pc'[h] \in {"idle", "publish"}
          PROVE  EarnedInv'
      <3>1. /\ target[h] \in Status /\ got[h] \in Status
            /\ Held(got[h]) /\ target[h] \in Allowed[got[h]]
          BY <1>2, <2>1 DEF TypeOK, EarnedInv
      <3>2. \A s : Held(s)' <=> Held(s) \/ s = target[h]
          BY <1>2, <2>1, <3>1, HeldAppend DEF Store, TypeOK
      <3>3. Held(status)'
          BY <2>1, <3>2 DEF Store, Held
      <3>4. ASSUME NEW s \in Status, Held(s)', s # "detected"
            PROVE  \E t \in Status : Held(t)' /\ s \in Allowed[t]
          BY <1>2, <3>1, <3>2, <3>4 DEF EarnedInv
      <3>5. ASSUME NEW g \in Handler, pc'[g] \in {"read", "write"}
            PROVE  Held(got[g])' /\ target'[g] \in Allowed[got'[g]]
        <4>1. g # h /\ pc'[g] = pc[g] /\ got'[g] = got[g] /\ target'[g] = target[g]
            BY <1>2, <2>1, <3>5 DEF TypeOK
        <4>2. Held(got[g]) /\ target[g] \in Allowed[got[g]]
            BY <1>2, <3>5, <4>1 DEF EarnedInv
        <4>3. \E i \in 1..Len(history') : history'[i] = got[g]
            BY <3>2, <4>2 DEF Held
        <4> QED BY <4>1, <4>2, <4>3 DEF Held
      <3> QED BY <3>3, <3>4, <3>5 DEF EarnedInv
    <2>2. ASSUME ReadStep PROVE EarnedInv'
      <3>1. /\ \A s : Held(s)' <=> Held(s)
            /\ Held(status)'
          BY <1>2, <2>2 DEF ReadStep, item, Held, EarnedInv
      <3>2. ASSUME NEW g \in Handler, pc'[g] \in {"read", "write"}
            PROVE  Held(got[g])' /\ target'[g] \in Allowed[got'[g]]
        <4>1. /\ \E i \in 1..Len(history) : history[i] = got'[g]
              /\ target'[g] \in Allowed[got'[g]]
            BY <1>2, <2>2, <3>2 DEF ReadStep, EarnedInv, Held
        <4>2. history' = history
            BY <2>2 DEF ReadStep, item
        <4> QED BY <4>1, <4>2 DEF Held
      <3> QED BY <1>2, <3>1, <3>2 DEF EarnedInv
    <2>3. ASSUME NEW h \in Handler, PutWrite(h) PROVE EarnedInv'
        BY <1>2, <2>1, <2>3 DEF PutWrite, Goto, TypeOK, call
    <2>4. ASSUME NEW h \in Handler, CallFails(h) PROVE EarnedInv'
      <3>1. CASE pc[h] = "write" /\ Store(h)
          BY <1>2, <2>1, <2>4, <3>1 DEF CallFails, Reply, TypeOK, call
      <3>2. CASE UNCHANGED item
        <4>1. ReadStep
            BY <1>2, <2>4, <3>2 DEF CallFails, Reply, ReadStep, TypeOK, call
        <4> QED BY <2>2, <4>1
      <3> QED BY <2>4, <3>1, <3>2 DEF CallFails
    <2>5. ASSUME NEW h \in Handler, NEW s \in Status, Receive(h, s) PROVE ReadStep
        BY <1>2, <2>5 DEF Receive, Goto, ReadStep, TypeOK
    <2>6. ASSUME NEW h \in Handler, GetAllowed(h) PROVE ReadStep
        BY <1>2, <2>6 DEF GetAllowed, Goto, ReadStep, TypeOK
    <2>7. ASSUME NEW h \in Handler, GetRefused(h) PROVE ReadStep
        BY <1>2, <2>7 DEF GetRefused, Reply, ReadStep, TypeOK, call
    <2>8. ASSUME NEW h \in Handler, PutRead(h) PROVE ReadStep
        BY <1>2, <2>8 DEF PutRead, Goto, ReadStep, TypeOK
    <2>9. ASSUME NEW h \in Handler, PutConflict(h) PROVE ReadStep
        BY <1>2, <2>9 DEF PutConflict, Reply, ReadStep, TypeOK, call
    <2>10. ASSUME NEW h \in Handler, Publish(h) PROVE ReadStep
        BY <1>2, <2>10 DEF Publish, Reply, ReadStep, TypeOK, call
    <2>11. CASE UNCHANGED iVars
        BY <2>2, <2>11 DEF iVars, item, call, ReadStep
    <2> QED BY <1>2, <2>2, <2>3, <2>4, <2>5, <2>6, <2>7, <2>8, <2>9, <2>10, <2>11
            DEF Next, Handle, Idle
  <1> QED BY <1>1, <1>2

\* However many requests race, an incident that is resolved was in progress
\* before, one in progress was approved, and one approved was analysed: a stale
\* read can set an incident back, and cannot let it skip a stage.
THEOREM StagesKept == Spec => []NoStageSkipped
  <1>1. TypeOK /\ EarnedInv => NoStageSkipped
    <2> SUFFICES ASSUME EarnedInv PROVE NoStageSkipped
        OBVIOUS
    <2>1. \A s \in Status \ {"detected"} :
             Held(s) => \E t \in Status : Held(t) /\ s \in Allowed[t]
        BY DEF EarnedInv
    <2>2. Held("review_required") => Held("analyzing")
        BY <2>1, AllowedTable DEF Status
    <2>3. Held("approved") => Held("analyzing")
        BY <2>1, <2>2, AllowedTable DEF Status
    <2> QED BY <2>1, <2>2, <2>3, AllowedTable DEF Status, NoStageSkipped
  <1> QED BY <1>1, TypeInductive, EarnedInductive, PTL DEF Spec

-----------------------------------------------------------------------------
(* Events and writes.                                                      *)

\* Handlers that stored s and have not published it yet.
Publishing(s) == {h \in Handler : pc[h] = "publish" /\ target[h] = s}

\* Every event, and every publish to come, has a write of its own.
PairedInv ==
    \A s \in Status :
        Cardinality(Announced(s)) + Cardinality(Publishing(s)) <= Cardinality(Written(s))

Countable ==
    \A s : /\ IsFiniteSet(Announced(s)) /\ Cardinality(Announced(s)) \in Nat
           /\ IsFiniteSet(Written(s)) /\ Cardinality(Written(s)) \in Nat
           /\ IsFiniteSet(Publishing(s)) /\ Cardinality(Publishing(s)) \in Nat

LEMMA CountsFinite == TypeOK => Countable
  <1> SUFFICES ASSUME TypeOK, NEW s
               PROVE  /\ IsFiniteSet(Announced(s)) /\ Cardinality(Announced(s)) \in Nat
                      /\ IsFiniteSet(Written(s)) /\ Cardinality(Written(s)) \in Nat
                      /\ IsFiniteSet(Publishing(s)) /\ Cardinality(Publishing(s)) \in Nat
      BY DEF Countable
  <1>1. Len(events) \in Int /\ Len(history) \in Int
      BY LenProperties DEF TypeOK
  <1>2. IsFiniteSet(1..Len(events)) /\ IsFiniteSet(1..Len(history)) /\ IsFiniteSet(Handler)
      BY <1>1, FS_Interval, IncidentAssumption DEF IncidentAssumption
  <1>3. /\ Announced(s) \in SUBSET (1..Len(events)) /\ Written(s) \in SUBSET (1..Len(history))
        /\ Publishing(s) \in SUBSET Handler
      BY DEF Announced, Written, Publishing
  <1>4. IsFiniteSet(Announced(s)) /\ IsFiniteSet(Written(s)) /\ IsFiniteSet(Publishing(s))
      BY <1>2, <1>3, FS_Subset
  <1> QED BY <1>4, FS_CardinalityType

LEMMA CountsStayFinite == TypeOK' => Countable'
  BY CountsFinite, PTL

\* A write counts once for the status it stores, and for no other.
LEMMA WrittenAppend ==
    ASSUME TypeOK, NEW x \in Status, history' = Append(history, x)
    PROVE  \A s : Cardinality(Written(s)') =
                    IF s = x THEN Cardinality(Written(s)) + 1 ELSE Cardinality(Written(s))
  <1> TAKE s
  <1>1. /\ Len(history) \in Nat /\ Len(history') = Len(history) + 1
        /\ \A i \in 1..Len(history) : history'[i] = history[i]
        /\ history'[Len(history) + 1] = x
      BY AppendProperties, LenProperties DEF TypeOK
  <1>2. 1..Len(history') = (1..Len(history)) \cup {Len(history) + 1}
      BY <1>1
  <1>3. Written(s)' = IF s = x THEN Written(s) \cup {Len(history) + 1} ELSE Written(s)
      BY <1>1, <1>2 DEF Written
  <1>4. Len(history) + 1 \notin Written(s)
      BY <1>1 DEF Written
  <1> QED BY <1>3, <1>4, CountsFinite, FS_AddElement DEF Countable

\* An event counts once for the status it announces, and for no other.
LEMMA AnnouncedAppend ==
    ASSUME TypeOK, NEW h \in Handler, Announce(h)
    PROVE  \A s : Cardinality(Announced(s)') =
                    IF s = target[h] THEN Cardinality(Announced(s)) + 1
                                     ELSE Cardinality(Announced(s))
  <1> TAKE s
  <1> DEFINE e == [previous |-> got[h], status |-> target[h]]
  <1>0. e \in [previous : Status, status : Status] /\ e.status = target[h]
        /\ events' = Append(events, e)
      BY DEF TypeOK, Announce
  <1> HIDE DEF e
  <1>1. /\ Len(events) \in Nat /\ Len(events') = Len(events) + 1
        /\ \A i \in 1..Len(events) : events'[i] = events[i]
        /\ events'[Len(events) + 1] = e
      BY <1>0, AppendProperties, LenProperties DEF TypeOK
  <1>2. 1..Len(events') = (1..Len(events)) \cup {Len(events) + 1}
      BY <1>1
  <1>3. Announced(s)' = IF s = target[h] THEN Announced(s) \cup {Len(events) + 1} ELSE Announced(s)
      BY <1>0, <1>1, <1>2 DEF Announced
  <1>4. Len(events) + 1 \notin Announced(s)
      BY <1>1 DEF Announced
  <1> QED BY <1>3, <1>4, CountsFinite, FS_AddElement DEF Countable

\* A handler joins those that have something to publish, or leaves them.
LEMMA PublishingChange ==
    ASSUME TypeOK, TypeOK', NEW h \in Handler,
           \A g \in Handler \ {h} : pc'[g] = pc[g] /\ target'[g] = target[g]
    PROVE  \A s :
        /\ ~(pc'[h] = "publish" /\ target'[h] = s) =>
                Cardinality(Publishing(s)') <= Cardinality(Publishing(s))
        /\ ~(pc'[h] = "publish" /\ target'[h] = s) /\ pc[h] = "publish" /\ target[h] = s =>
                Cardinality(Publishing(s)') + 1 = Cardinality(Publishing(s))
        /\ pc'[h] = "publish" /\ target'[h] = s =>
                Cardinality(Publishing(s)') <= Cardinality(Publishing(s)) + 1
  <1> TAKE s
  <1>1. \A g \in Handler \ {h} : g \in Publishing(s)' <=> g \in Publishing(s)
      BY DEF Publishing
  <1>2. Publishing(s) \subseteq Handler /\ Publishing(s)' \subseteq Handler
      BY DEF Publishing
  <1>3. /\ IsFiniteSet(Publishing(s)) /\ Cardinality(Publishing(s)) \in Nat
        /\ IsFiniteSet(Publishing(s)') /\ Cardinality(Publishing(s)') \in Nat
      BY CountsFinite, CountsStayFinite DEF Countable
  <1>4. CASE ~(pc'[h] = "publish" /\ target'[h] = s)
    <2>1. Publishing(s)' = Publishing(s) \ {h}
        BY <1>1, <1>2, <1>4 DEF Publishing
    <2>2. pc[h] = "publish" /\ target[h] = s <=> h \in Publishing(s)
        BY DEF Publishing
    <2>3. Cardinality(Publishing(s) \ {h}) =
            IF h \in Publishing(s) THEN Cardinality(Publishing(s)) - 1 ELSE Cardinality(Publishing(s))
        BY <1>3, FS_RemoveElement
    <2> QED BY <1>3, <1>4, <2>1, <2>2, <2>3
  <1>5. CASE pc'[h] = "publish" /\ target'[h] = s
    <2>1. Publishing(s)' = Publishing(s) \cup {h}
        BY <1>1, <1>2, <1>5 DEF Publishing
    <2>2. Cardinality(Publishing(s) \cup {h}) =
            IF h \in Publishing(s) THEN Cardinality(Publishing(s)) ELSE Cardinality(Publishing(s)) + 1
        BY <1>3, FS_AddElement
    <2> QED BY <1>3, <1>5, <2>1, <2>2
  <1> QED BY <1>4, <1>5

\* PairedInv is inductive.
LEMMA PairedInit == Init => PairedInv
  <1> SUFFICES ASSUME Init, NEW s \in Status
               PROVE  Cardinality(Announced(s)) + Cardinality(Publishing(s)) <= Cardinality(Written(s))
      BY DEF PairedInv
  <1>1. Announced(s) = {} /\ Publishing(s) = {}
      BY DEF Init, Announced, Publishing
  <1>2. Cardinality(Written(s)) \in Nat
      BY TypeInductive, CountsFinite DEF Countable
  <1> QED BY <1>1, <1>2, FS_EmptySet

LEMMA PairedStep ==
    ASSUME TypeOK, PairedInv, [Next]_iVars
    PROVE  PairedInv'
  <1>1. TypeOK'
      BY TypeInductive
  <1>2. \A s : /\ Cardinality(Announced(s)) \in Nat /\ Cardinality(Announced(s)') \in Nat
               /\ Cardinality(Written(s)) \in Nat /\ Cardinality(Written(s)') \in Nat
               /\ Cardinality(Publishing(s)) \in Nat /\ Cardinality(Publishing(s)') \in Nat
      BY <1>1, CountsFinite, CountsStayFinite DEF Countable
  <1>3. ASSUME NEW h \in Handler, UNCHANGED <<history, events>>, pc'[h] # "publish",
               \A g \in Handler \ {h} : pc'[g] = pc[g] /\ target'[g] = target[g]
        PROVE  PairedInv'
    <2>1. \A s : Cardinality(Publishing(s)') <= Cardinality(Publishing(s))
        BY <1>1, <1>3, PublishingChange
    <2>2. \A s : Announced(s)' = Announced(s) /\ Written(s)' = Written(s)
        BY <1>3 DEF Announced, Written
    <2> QED BY <1>2, <2>1, <2>2 DEF PairedInv
  \* The write of h, answered or not.
  <1>4. ASSUME NEW h \in Handler, Store(h), UNCHANGED <<target, events>>,
               \A g \in Handler \ {h} : pc'[g] = pc[g]
        PROVE  PairedInv'
    <2>1. \A s : Announced(s)' = Announced(s)
        BY <1>4 DEF Announced
    <2>2. \A s : Cardinality(Written(s)') = IF s = target[h] THEN Cardinality(Written(s)) + 1
                                            ELSE Cardinality(Written(s))
        BY <1>4, WrittenAppend DEF Store, TypeOK
    <2>3. \A s : /\ s = target[h] => Cardinality(Publishing(s)') <= Cardinality(Publishing(s)) + 1
                 /\ s # target[h] => Cardinality(Publishing(s)') <= Cardinality(Publishing(s))
      <3> TAKE s
      <3>1. /\ ~(pc'[h] = "publish" /\ target[h] = s) =>
                    Cardinality(Publishing(s)') <= Cardinality(Publishing(s))
            /\ pc'[h] = "publish" /\ target[h] = s =>
                    Cardinality(Publishing(s)') <= Cardinality(Publishing(s)) + 1
          BY <1>1, <1>4, PublishingChange
      <3> QED BY <1>2, <3>1
    <2> SUFFICES ASSUME NEW s \in Status
                 PROVE  Cardinality(Announced(s)') + Cardinality(Publishing(s)')
                            <= Cardinality(Written(s)')
        BY DEF PairedInv
    <2>4. Cardinality(Announced(s)) + Cardinality(Publishing(s)) <= Cardinality(Written(s))
        BY DEF PairedInv
    <2> QED BY <1>2, <2>1, <2>2, <2>3, <2>4
  \* The event of h, acknowledged or not.
  <1>5. ASSUME NEW h \in Handler, Announce(h), pc[h] = "publish", pc'[h] # "publish",
               UNCHANGED <<target, history>>, \A g \in Handler \ {h} : pc'[g] = pc[g]
        PROVE  PairedInv'
    <2>1. \A s : Written(s)' = Written(s)
        BY <1>5 DEF Written
    <2>2. \A s : Cardinality(Announced(s)') = IF s = target[h] THEN Cardinality(Announced(s)) + 1
                                              ELSE Cardinality(Announced(s))
        BY <1>5, AnnouncedAppend
    <2>3. \A s : /\ s = target[h] => Cardinality(Publishing(s)') + 1 = Cardinality(Publishing(s))
                 /\ Cardinality(Publishing(s)') <= Cardinality(Publishing(s))
        BY <1>1, <1>5, PublishingChange
    <2> SUFFICES ASSUME NEW s \in Status
                 PROVE  Cardinality(Announced(s)') + Cardinality(Publishing(s)')
                            <= Cardinality(Written(s)')
        BY DEF PairedInv
    <2>4. Cardinality(Announced(s)) + Cardinality(Publishing(s)) <= Cardinality(Written(s))
        BY DEF PairedInv
    <2> QED BY <1>2, <2>1, <2>2, <2>3, <2>4
  <1>6. ASSUME NEW h \in Handler, Handle(h) PROVE PairedInv'
    <2>1. CASE PutWrite(h)
        BY <1>4, <2>1 DEF PutWrite, Goto, TypeOK, call
    <2>2. CASE Publish(h)
        BY <1>5, <2>2 DEF Publish, Reply, TypeOK, item, call
    <2>3. CASE GetAllowed(h) \/ PutRead(h)
        BY <1>3, <2>3 DEF GetAllowed, PutRead, Goto, TypeOK, item
    <2>4. CASE GetRefused(h) \/ PutConflict(h)
        BY <1>3, <2>4 DEF GetRefused, PutConflict, Reply, TypeOK, item, call
    <2> QED BY <1>6, <2>1, <2>2, <2>3, <2>4 DEF Handle
  <1>7. ASSUME NEW h \in Handler, NEW s \in Status, Receive(h, s) PROVE PairedInv'
      BY <1>3, <1>7 DEF Receive, Goto, TypeOK, item
  <1>8. ASSUME NEW h \in Handler, CallFails(h) PROVE PairedInv'
    <2>1. /\ pc'[h] = "idle" /\ UNCHANGED target
          /\ \A g \in Handler \ {h} : pc'[g] = pc[g]
        BY <1>8 DEF CallFails, Reply, TypeOK, call
    <2> QED BY <1>3, <1>4, <1>5, <1>8, <2>1 DEF CallFails, item
  <1>9. CASE UNCHANGED iVars
      BY <1>9 DEF iVars, item, call, PairedInv, Announced, Publishing, Written
  <1> QED BY <1>6, <1>7, <1>8, <1>9 DEF Next, Idle

\* status_changed is published once per write at most, for any number of racing
\* requests and failing calls: a refused or conflicting put leaves no event.
THEOREM EventsAreWritesAlways == Spec => []EventsAreWrites
  <1>1. TypeOK /\ PairedInv => EventsAreWrites
    <2> SUFFICES ASSUME TypeOK, PairedInv, NEW s \in Status
                 PROVE  Cardinality(Announced(s)) <= Cardinality(Written(s))
        BY DEF EventsAreWrites
    <2>1. Cardinality(Announced(s)) + Cardinality(Publishing(s)) <= Cardinality(Written(s))
        BY DEF PairedInv
    <2> QED BY <2>1, CountsFinite DEF Countable
  <1> QED BY <1>1, TypeInductive, PairedInit, PairedStep, PTL DEF Spec

\* TypeOK in every reachable state, for any number of handlers.
THEOREM StatusTypes == Spec => []TypeOK
  <1> QED BY TypeInductive, PTL DEF Spec
=============================================================================
