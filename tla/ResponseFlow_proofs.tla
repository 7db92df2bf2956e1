------------------------ MODULE ResponseFlow_proofs ------------------------
(***************************************************************************)
(* What the chain from analysis to completion guarantees for any number of *)
(* sessions, requests and failing calls.                                   *)
(***************************************************************************)
EXTENDS ResponseFlow, SequenceTheorems, TLAPS

\* What the handler at work for session u holds before each call: the record it
\* has put or got, and what is already known of that record.
Holds(u) ==
    /\ u \in Manager => pc[u] \in {"idle"} \cup ManagerCall
    /\ u \in FieldWorker => pc[u] \in {"idle"} \cup WorkerCall
    /\ pc[u] \in {"putReview", "publishAnalysis"} => item[u] \in 1..Len(analyses)
    /\ pc[u] = "publishAnalysis" => (analyses[item[u]].expert => item[u] \in reviews)
    /\ pc[u] \in {"publishDecision", "putOrder"} =>
        /\ item[u] \in 1..Len(approvals)
        /\ approvals[item[u]].decision = choice[u]
    /\ pc[u] = "putApproval" => plan[u] # 0
    /\ pc[u] = "putOrder" =>
        choice[u] \in {"approve", "changes"} /\ Sent("approval.decided", item[u])
    /\ pc[u] \in {"publishOrder"} \cup WorkerCall => item[u] \in 1..Len(orders)
    /\ pc[u] \in {"patchResolved", "storeResolved", "publishCompleted", "feedback",
                 "publishFeedback"} => orders[item[u]].completed
    /\ pc[u] \in {"complete", "patchResolved", "storeResolved"} => item[u] \in evidence
    /\ pc[u] \in {"publishCompleted", "feedback", "publishFeedback"} => item[u] \in accepted

\* The part of CompletionIsStored that no PATCH can take back.
CompletionIsStored ==
    \A o \in 1..Len(orders) :
        Sent("work_order.completed", o) \/ o \in feedback => orders[o].completed /\ o \in accepted

\* A completed order with a photo, which stands behind every resolved incident and
\* every PATCH that is about to resolve it.
Earned == \E o \in 1..Len(orders) : orders[o].completed /\ o \in evidence

PatchIsEarned ==
    "resolved" \notin DirectTarget => \A p \in patching : p[2] = "resolved" => Earned

FlowInv ==
    /\ TypeOK
    /\ OrderIsApproved
    /\ ReviewIsQueued
    /\ CompletionIsStored
    /\ ResolutionIsEarned
    /\ PatchIsEarned
    /\ \A u \in User : Holds(u)

\* What a call of a session leaves to the other variables of the page.
Frame ==
    /\ UNCHANGED <<shown, choice>>
    /\ plan' \in [Manager -> 0..Len(analyses)]
    /\ \A m \in Manager : plan[m] # 0 => plan'[m] # 0
    /\ requests' \in 0..MaxRequests /\ faults' \in 0..MaxFaults

\* Nothing a step does takes back what was stored or announced; the status of the
\* incident is another matter.
Grows ==
    /\ \A i \in 1..Len(analyses) : i \in 1..Len(analyses') /\ analyses'[i] = analyses[i]
    /\ \A i \in 1..Len(approvals) : i \in 1..Len(approvals') /\ approvals'[i] = approvals[i]
    /\ \A i \in 1..Len(orders) :
        /\ i \in 1..Len(orders')
        /\ orders'[i].approval = orders[i].approval
        /\ orders[i].completed => orders'[i].completed
    /\ reviews \subseteq reviews' /\ events \subseteq events' /\ evidence \subseteq evidence'
    /\ accepted \subseteq accepted'

\* Every allowed target is a status, and nothing leads out of "resolved".
LEMMA AllowedTable ==
    /\ Allowed["resolved"] = {}
    /\ \A s \in Status : Allowed[s] \subseteq Status
    BY DEF Allowed, Status

\* Init meets the invariant.
LEMMA FlowInit == Init => FlowInv
  <1> SUFFICES ASSUME Init PROVE FlowInv
      OBVIOUS
  <1>1. TypeOK
    <2>1. /\ status \in Status /\ patching = {} /\ overlapped \in BOOLEAN /\ accepted = {}
          /\ reviews = {} /\ evidence = {} /\ events = {} /\ feedback = {}
        BY DEF Init, Status
    <2>2. /\ analyses \in Seq([expert : BOOLEAN])
          /\ approvals \in Seq([analysis : 1..Len(analyses), decision : Decision])
          /\ orders \in Seq([approval : 1..Len(approvals), completed : BOOLEAN])
        BY DEF Init
    <2>3. /\ pc \in [User -> {"idle"} \cup ManagerCall \cup WorkerCall]
          /\ shown \in [Manager -> Status] /\ plan \in [Manager -> 0..Len(analyses)]
          /\ choice \in [Manager -> Decision] /\ item \in [User -> Nat]
        BY <2>2, LenProperties DEF Init, Status, Decision
    <2>4. requests \in 0..MaxRequests /\ faults \in 0..MaxFaults
        BY ResponseAssumption DEF ResponseAssumption, Init
    <2> QED BY <2>1, <2>2, <2>3, <2>4 DEF TypeOK
  <1>2. OrderIsApproved /\ ReviewIsQueued /\ CompletionIsStored /\ ResolutionIsEarned /\ PatchIsEarned
      BY DEF Init, OrderIsApproved, ReviewIsQueued, CompletionIsStored, ResolutionIsEarned,
             PatchIsEarned, Sent
  <1>3. \A u \in User : Holds(u)
      BY DEF Init, Holds, WorkerCall
  <1> QED BY <1>1, <1>2, <1>3 DEF FlowInv

\* A session that takes no part in a step keeps what it holds.
LEMMA OthersKeep ==
    ASSUME FlowInv, Grows, NEW v \in User, pc'[v] = pc[v], item'[v] = item[v],
           v \in Manager => choice'[v] = choice[v] /\ (plan[v] # 0 => plan'[v] # 0),
           Manager \cap FieldWorker = {}
    PROVE  Holds(v)'
  <1>1. Holds(v)
      BY DEF FlowInv
  <1>2. v \in Manager \/ v \in FieldWorker
      BY DEF User
  <1>3. pc[v] \in ManagerCall => v \in Manager
      BY <1>1, <1>2 DEF Holds, ManagerCall, WorkerCall
  <1>4. /\ v \in Manager => pc'[v] \in {"idle"} \cup ManagerCall
        /\ v \in FieldWorker => pc'[v] \in {"idle"} \cup WorkerCall
      BY <1>1 DEF Holds
  <1>5. /\ pc'[v] \in {"putReview", "publishAnalysis"} => item'[v] \in 1..Len(analyses')
        /\ pc'[v] = "publishAnalysis" => (analyses'[item'[v]].expert => item'[v] \in reviews')
      BY <1>1 DEF Holds, Grows
  <1>6. CASE pc[v] \in {"publishDecision", "putOrder", "putApproval"}
    <2>1. v \in Manager /\ choice'[v] = choice[v] /\ (plan[v] # 0 => plan'[v] # 0)
        BY <1>3, <1>6 DEF ManagerCall
    <2>2. pc[v] # "putApproval" => /\ item'[v] \in 1..Len(approvals')
                                   /\ approvals'[item'[v]].decision = choice'[v]
        BY <1>1, <1>6, <2>1 DEF Holds, Grows
    <2>3. pc[v] = "putOrder" => choice'[v] \in {"approve", "changes"} /\ Sent("approval.decided", item[v])'
        BY <1>1, <2>1 DEF Holds, Grows, Sent
    <2> QED BY <1>1, <1>4, <1>6, <2>1, <2>2, <2>3 DEF Holds, WorkerCall
  <1>7. CASE pc[v] \notin {"publishDecision", "putOrder", "putApproval"}
    <2>1. pc[v] \in {"publishOrder"} \cup WorkerCall => item[v] \in 1..Len(orders)
        BY <1>1 DEF Holds
    <2>2. \A i \in 1..Len(orders) :
            i \in 1..Len(orders') /\ (orders[i].completed => orders'[i].completed)
        BY DEF Grows
    <2>3. pc[v] \in {"patchResolved", "storeResolved", "publishCompleted", "feedback",
                    "publishFeedback"} =>
            pc[v] \in WorkerCall /\ orders[item[v]].completed
        BY <1>1 DEF Holds, WorkerCall
    <2>4. pc[v] \in {"publishCompleted", "feedback", "publishFeedback"} => item[v] \in accepted'
        BY <1>1 DEF Holds, Grows
    <2>5. pc[v] \in {"complete", "patchResolved", "storeResolved"} => item[v] \in evidence'
        BY <1>1 DEF Holds, Grows
    <2> QED BY <1>4, <1>5, <1>7, <2>1, <2>2, <2>3, <2>4, <2>5 DEF Holds
  <1> QED BY <1>6, <1>7

\* When records and events stay, so do the properties that relate them.
LEMMA RecordsKept ==
    ASSUME FlowInv, UNCHANGED <<analyses, reviews, approvals, orders, events, feedback>>,
           evidence \subseteq evidence', accepted \subseteq accepted'
    PROVE  OrderIsApproved' /\ ReviewIsQueued' /\ CompletionIsStored' /\ Grows
    BY DEF FlowInv, TypeOK, OrderIsApproved, ReviewIsQueued, CompletionIsStored, Sent, Grows

\* A completed order with a photo stays one, so only a step that resolves the
\* incident, or leaves a PATCH that will, has to account for it.
LEMMA ResolutionKept ==
    ASSUME FlowInv, Grows,
           "resolved" \notin DirectTarget /\ status' = "resolved" => status = "resolved" \/ Earned,
           "resolved" \notin DirectTarget =>
               \A p \in patching' : p[2] = "resolved" => p \in patching \/ Earned
    PROVE  ResolutionIsEarned' /\ PatchIsEarned'
  <1>1. Earned => Earned'
      BY DEF Grows, Earned
  <1>2. ResolutionIsEarned'
      BY <1>1 DEF FlowInv, ResolutionIsEarned, Earned
  <1>3. PatchIsEarned'
      BY <1>1 DEF FlowInv, PatchIsEarned
  <1> QED BY <1>2, <1>3

\* The call that writes what a PATCH was judged for, and the one a session makes
\* when it has the answer.
StoreOf == [patchAnalyzing |-> "storeAnalyzing", patchReview |-> "storeReview",
            patchApproved |-> "storeApproved", patchResolved |-> "storeResolved"]
AfterStore == [storeAnalyzing |-> "putAnalysis", storeReview |-> "idle",
               storeApproved |-> "idle", storeResolved |-> "publishCompleted"]

\* A session about to resolve the incident has the completed order and its photo.
LEMMA ResolverEarned ==
    ASSUME FlowInv, NEW u \in User, pc[u] \in {"patchResolved", "storeResolved"}
    PROVE  Earned /\ item[u] \in 1..Len(orders)
    BY DEF FlowInv, Holds, WorkerCall, Earned

\* A PATCH is judged: what it will write is the next call of its session.
LEMMA JudgeKeeps ==
    ASSUME FlowInv, Frame, NEW u \in User, NEW from \in DOMAIN Asked,
           Judge(u, from, StoreOf[from])
    PROVE  FlowInv'
  <1>1. /\ UNCHANGED <<status, patching, accepted, analyses, reviews, approvals, orders, evidence,
                       events, feedback, item>>
        /\ overlapped' \in BOOLEAN
      BY DEF Judge, analysisTable, workTable, FlowInv, TypeOK, Underway
  <1>2. /\ pc[u] = from /\ pc'[u] = StoreOf[from]
        /\ pc' \in [User -> {"idle"} \cup ManagerCall \cup WorkerCall]
      BY DEF FlowInv, TypeOK, Judge, Goto, Asked, StoreOf, ManagerCall, WorkerCall
  <1>3. TypeOK'
      BY <1>1, <1>2 DEF FlowInv, TypeOK, Frame
  <1>4. OrderIsApproved' /\ ReviewIsQueued' /\ CompletionIsStored' /\ Grows
      BY <1>1, RecordsKept
  <1>5. ResolutionIsEarned' /\ PatchIsEarned'
      BY <1>1, <1>4, ResolutionKept
  <1>6. Holds(u)'
      BY <1>1, <1>2 DEF FlowInv, Holds, Asked, StoreOf, ManagerCall, WorkerCall
  <1>7. ASSUME NEW v \in User, v # u PROVE Holds(v)'
      BY <1>4, <1>7, OthersKeep, ResponseAssumption
         DEF ResponseAssumption, FlowInv, TypeOK, Judge, Goto, Frame
  <1> QED BY <1>3, <1>4, <1>5, <1>6, <1>7 DEF FlowInv

\* A PATCH is written: a completion is accepted by it.
LEMMA StoreKeeps ==
    ASSUME FlowInv, Frame, NEW u \in User, NEW from \in DOMAIN Written,
           Store(u, from, AfterStore[from])
    PROVE  FlowInv'
  <1>1. /\ UNCHANGED <<patching, overlapped, analyses, reviews, approvals, orders, evidence,
                       events, feedback, item>>
        /\ status' = Written[from]
        /\ accepted' = IF from = "storeResolved" THEN accepted \cup {item[u]} ELSE accepted
      BY DEF Store, analysisTable, workTable
  <1>2. /\ pc[u] = from /\ pc'[u] = AfterStore[from]
        /\ pc' \in [User -> {"idle"} \cup ManagerCall \cup WorkerCall]
      BY DEF FlowInv, TypeOK, Store, Goto, Written, AfterStore, ManagerCall, WorkerCall
  <1>3. from = "storeResolved" => Earned /\ item[u] \in 1..Len(orders)
      BY <1>2, ResolverEarned
  <1>4. status' \in Status /\ (status' = "resolved" => from = "storeResolved")
      BY <1>1 DEF Written, Status
  <1>5. accepted' \subseteq 1..Len(orders) /\ accepted \subseteq accepted'
      BY <1>1, <1>3 DEF FlowInv, TypeOK
  <1>6. TypeOK'
      BY <1>1, <1>2, <1>4, <1>5 DEF FlowInv, TypeOK, Frame
  <1>7. OrderIsApproved' /\ ReviewIsQueued' /\ CompletionIsStored' /\ Grows
      BY <1>1, <1>5, RecordsKept
  <1>8. ResolutionIsEarned' /\ PatchIsEarned'
      BY <1>1, <1>3, <1>4, <1>7, ResolutionKept
  <1>9. Holds(u)'
      BY <1>1, <1>2 DEF FlowInv, Holds, Written, AfterStore, ManagerCall, WorkerCall
  <1>10. ASSUME NEW v \in User, v # u PROVE Holds(v)'
      BY <1>7, <1>10, OthersKeep, ResponseAssumption
         DEF ResponseAssumption, FlowInv, TypeOK, Store, Goto, Frame
  <1> QED BY <1>6, <1>7, <1>8, <1>9, <1>10 DEF FlowInv

\* A session gives up a PATCH, which will be written without it.
LEMMA GiveUpKeeps ==
    ASSUME FlowInv, Frame, NEW u \in User, NEW from \in DOMAIN Asked \cup DOMAIN Written,
           NEW s \in Status, s = "resolved" => from \in {"patchResolved", "storeResolved"},
           GiveUp(u, from, s), faults' = faults + 1
    PROVE  FlowInv'
  <1>1. /\ UNCHANGED <<status, accepted, analyses, reviews, approvals, orders, evidence, events,
                       feedback, item>>
        /\ patching' = patching \cup {<<faults + 1, s>>}
        /\ overlapped' \in BOOLEAN
      BY DEF GiveUp, analysisTable, workTable, FlowInv, TypeOK, Underway
  <1>2. /\ pc[u] = from /\ pc'[u] = "idle"
        /\ pc' \in [User -> {"idle"} \cup ManagerCall \cup WorkerCall]
      BY DEF FlowInv, TypeOK, GiveUp, Goto
  <1>3. faults + 1 \in 1..MaxFaults
      BY ResponseAssumption DEF ResponseAssumption, FlowInv, TypeOK, Frame
  <1>4. patching' \subseteq (Client \cup 1..MaxFaults) \X Status
      BY <1>1, <1>3 DEF FlowInv, TypeOK
  <1>5. TypeOK'
      BY <1>1, <1>2, <1>4 DEF FlowInv, TypeOK, Frame
  <1>6. OrderIsApproved' /\ ReviewIsQueued' /\ CompletionIsStored' /\ Grows
      BY <1>1, RecordsKept
  <1>7. s = "resolved" => Earned
      BY <1>2, ResolverEarned
  <1>8. \A p \in patching' : p[2] = "resolved" => p \in patching \/ Earned
      BY <1>1, <1>7
  <1>9. ResolutionIsEarned' /\ PatchIsEarned'
      BY <1>1, <1>6, <1>8, ResolutionKept
  <1>10. Holds(u)'
      BY <1>1, <1>2 DEF FlowInv, Holds, ManagerCall, WorkerCall
  <1>11. ASSUME NEW v \in User, v # u PROVE Holds(v)'
      BY <1>6, <1>11, OthersKeep, ResponseAssumption
         DEF ResponseAssumption, FlowInv, TypeOK, GiveUp, Goto, Frame
  <1> QED BY <1>5, <1>6, <1>9, <1>10, <1>11 DEF FlowInv

\* The publishes: an event about a record that calls for it.
LEMMA PublishKeeps ==
    ASSUME FlowInv, Frame, NEW u \in User, NEW from \in DOMAIN EventOf,
           NEW to \in {"idle", IF from = "publishAnalysis" THEN "patchReview"
                               ELSE IF from = "publishDecision" THEN AfterDecision(choice[u])
                               ELSE IF from = "publishOrder" THEN "patchApproved"
                               ELSE IF from = "publishCompleted" THEN "feedback" ELSE "idle"},
           Publish(u, from, to)
    PROVE  FlowInv'
  <1>1. /\ Holds(u) /\ pc[u] = from /\ pc'[u] = to
        /\ UNCHANGED <<status, patching, overlapped, accepted,
                       analyses, reviews, approvals, orders, evidence, feedback, item>>
        /\ events' = events \cup {<<EventOf[from], item[u]>>}
      BY DEF FlowInv, TypeOK, incident, Publish, Goto, analysisTable, workTable
  <1>2. from \in {"publishAnalysis", "publishDecision", "publishOrder", "publishCompleted", "publishFeedback"}
      BY DEF EventOf
  <1>3. <<EventOf[from], item[u]>> \in
          {"analysis.completed"} \X (1..Len(analyses)) \cup {"approval.decided"} \X (1..Len(approvals))
            \cup {"work_order.created", "work_order.completed", "feedback.submitted"} \X (1..Len(orders))
    <2>1. CASE from = "publishAnalysis"
        BY <1>1, <2>1 DEF Holds, EventOf
    <2>2. CASE from = "publishDecision"
        BY <1>1, <2>2 DEF Holds, EventOf
    <2>3. CASE from \in {"publishOrder", "publishCompleted", "publishFeedback"}
      <3>1. item[u] \in 1..Len(orders)
          BY <1>1, <2>3 DEF Holds, WorkerCall
      <3>2. EventOf[from] \in {"work_order.created", "work_order.completed", "feedback.submitted"}
          BY <2>3 DEF EventOf
      <3> QED BY <3>1, <3>2
    <2> QED BY <1>2, <2>1, <2>2, <2>3
  <1>4. to \in {"idle"} \cup ManagerCall \cup WorkerCall
      BY <1>2 DEF AfterDecision, ManagerCall, WorkerCall
  <1>5. TypeOK'
    <2>1. pc' \in [User -> {"idle"} \cup ManagerCall \cup WorkerCall]
        BY <1>4 DEF FlowInv, TypeOK, Publish, Goto
    <2>2. events' \subseteq {"analysis.completed"} \X (1..Len(analyses'))
                     \cup {"approval.decided"} \X (1..Len(approvals'))
                     \cup {"work_order.created", "work_order.completed", "feedback.submitted"}
                              \X (1..Len(orders'))
        BY <1>1, <1>3 DEF FlowInv, TypeOK
    <2> QED BY <1>1, <2>1, <2>2 DEF FlowInv, TypeOK, Frame
  <1>6. Grows
      BY <1>1 DEF Grows, FlowInv, TypeOK
  <1>7. OrderIsApproved'
      BY <1>1 DEF FlowInv, OrderIsApproved, Sent
  <1>8. ReviewIsQueued'
    <2>1. from = "publishAnalysis" => (analyses[item[u]].expert => item[u] \in reviews)
        BY <1>1 DEF Holds
    <2>2. EventOf[from] = "analysis.completed" => from = "publishAnalysis"
        BY <1>2 DEF EventOf
    <2> QED BY <1>1, <2>1, <2>2 DEF FlowInv, ReviewIsQueued, Sent
  <1>9. CompletionIsStored'
    <2>1. from = "publishCompleted" => orders[item[u]].completed /\ item[u] \in accepted
        BY <1>1 DEF Holds
    <2>2. EventOf[from] = "work_order.completed" => from = "publishCompleted"
        BY <1>2 DEF EventOf
    <2> QED BY <1>1, <2>1, <2>2 DEF FlowInv, CompletionIsStored, Sent
  <1>10. Holds(u)'
    <2>1. CASE to = "idle"
        BY <1>1, <2>1 DEF Holds, ManagerCall, WorkerCall
    <2>2. CASE from = "publishAnalysis" /\ to = "patchReview"
        BY <1>1, <2>2 DEF Holds, ManagerCall, WorkerCall
    <2>3. CASE from = "publishDecision" /\ to = "putOrder"
      <3>1. choice[u] \in {"approve", "changes"}
          BY <1>1, <2>3 DEF AfterDecision
      <3>2. Sent("approval.decided", item[u])'
          BY <1>1, <2>3 DEF Sent, EventOf
      <3> QED BY <1>1, <2>3, <3>1, <3>2 DEF Holds, Frame, ManagerCall, WorkerCall
    <2>4. CASE from = "publishOrder" /\ to = "patchApproved"
        BY <1>1, <2>4 DEF Holds, ManagerCall, WorkerCall
    <2>5. CASE from = "publishCompleted" /\ to = "feedback"
        BY <1>1, <2>5 DEF Holds, ManagerCall, WorkerCall
    <2> QED BY <1>2, <2>1, <2>2, <2>3, <2>4, <2>5 DEF AfterDecision
  <1>11. ASSUME NEW v \in User, v # u PROVE Holds(v)'
      BY <1>6, <1>11, OthersKeep, ResponseAssumption
         DEF ResponseAssumption, FlowInv, TypeOK, incident, Publish, Goto, Frame
  <1>12. ResolutionIsEarned' /\ PatchIsEarned'
      BY <1>1, <1>6, ResolutionKept
  <1> QED BY <1>5, <1>7, <1>8, <1>9, <1>10, <1>11, <1>12 DEF FlowInv

\* Every stored order names a stored approval.
LEMMA OrderTyped ==
    ASSUME FlowInv
    PROVE  \A o \in 1..Len(orders) : orders[o] \in [approval : 1..Len(approvals), completed : BOOLEAN]
  <1>1. orders \in Seq([approval : 1..Len(approvals), completed : BOOLEAN])
      BY DEF FlowInv, TypeOK
  <1> QED BY <1>1, ElementOfSeq

\* A new analysis has no review case and nothing was said of it.
LEMMA PutAnalysisKeeps ==
    ASSUME FlowInv, Frame, NEW u \in User, NEW expert \in BOOLEAN,
           NEW to \in {"idle", AfterAnalysis(expert)}, PutAnalysis(u, expert, to)
    PROVE  FlowInv'
  <1> DEFINE n == Len(analyses) + 1
  <1>1. /\ Holds(u) /\ pc[u] = "putAnalysis" /\ pc'[u] = to
        /\ UNCHANGED <<status, patching, overlapped, accepted,
                       reviews, approvals, orders, evidence, events, feedback>>
        /\ analyses' = Append(analyses, [expert |-> expert])
      BY DEF FlowInv, TypeOK, incident, PutAnalysis, Goto, workTable
  <1>2. /\ Len(analyses) \in Nat /\ Len(analyses') = n
        /\ analyses' \in Seq([expert : BOOLEAN])
        /\ analyses'[n] = [expert |-> expert]
        /\ \A i \in 1..Len(analyses) : analyses'[i] = analyses[i]
      BY <1>1, AppendProperties, LenProperties DEF FlowInv, TypeOK
  <1>3. /\ item' = [item EXCEPT ![u] = n] /\ item'[u] = n
        /\ to \in {"idle", "putReview", "publishAnalysis"}
      BY <1>2 DEF PutAnalysis, FlowInv, TypeOK, AfterAnalysis
  <1>4. \A i \in 1..Len(analyses) : i \in 1..Len(analyses')
      BY <1>2
  <1>5. TypeOK'
    <2>1. approvals \in Seq([analysis : 1..Len(analyses'), decision : Decision])
      <3>1. [analysis : 1..Len(analyses), decision : Decision] \subseteq
               [analysis : 1..Len(analyses'), decision : Decision]
          BY <1>4
      <3>2. approvals \in Seq([analysis : 1..Len(analyses), decision : Decision])
          BY DEF FlowInv, TypeOK
      <3> QED BY <3>1, <3>2, SeqMonotonic
    <2>2. /\ reviews \subseteq 1..Len(analyses')
          /\ plan' \in [Manager -> 0..Len(analyses')]
      BY <1>2 DEF FlowInv, TypeOK, Frame
    <2>3. events \subseteq {"analysis.completed"} \X (1..Len(analyses'))
                    \cup {"approval.decided"} \X (1..Len(approvals))
                    \cup {"work_order.created", "work_order.completed", "feedback.submitted"}
                            \X (1..Len(orders))
      BY <1>4 DEF FlowInv, TypeOK
    <2>4. /\ pc' \in [User -> {"idle"} \cup ManagerCall \cup WorkerCall]
          /\ item' \in [User -> Nat]
      BY <1>2, <1>3 DEF FlowInv, TypeOK, incident, PutAnalysis, Goto, ManagerCall
    <2> QED BY <1>1, <1>2, <2>1, <2>2, <2>3, <2>4 DEF FlowInv, TypeOK, Frame
  <1>6. Grows
      BY <1>1, <1>2, <1>4 DEF Grows, FlowInv, TypeOK
  <1>7. OrderIsApproved' /\ CompletionIsStored'
      BY <1>1 DEF FlowInv, OrderIsApproved, CompletionIsStored, Sent
  <1>8. ReviewIsQueued'
    <2>1. \A i : Sent("analysis.completed", i) => i \in 1..Len(analyses)
        BY DEF FlowInv, TypeOK, Sent
    <2>2. n \notin 1..Len(analyses)
        BY <1>2
    <2>3. \A i \in 1..Len(analyses') : i = n \/ i \in 1..Len(analyses)
        BY <1>2
    <2> QED BY <2>2, <2>3, <1>1, <1>2, <2>1 DEF FlowInv, ReviewIsQueued, Sent
  <1>9. Holds(u)'
    <2>1. to = "publishAnalysis" => ~expert
        BY <1>3 DEF AfterAnalysis
    <2>2. u \in FieldWorker => FALSE
        BY <1>1 DEF Holds, WorkerCall
    <2>3. item'[u] \in 1..Len(analyses')
        BY <1>2, <1>3
    <2> QED BY <1>1, <1>2, <1>3, <2>1, <2>2, <2>3 DEF Holds, ManagerCall, WorkerCall
  <1>10. ASSUME NEW v \in User, v # u PROVE Holds(v)'
      BY <1>6, <1>10, OthersKeep, ResponseAssumption
         DEF ResponseAssumption, FlowInv, TypeOK, incident, PutAnalysis, Goto, Frame
  <1>11. ResolutionIsEarned' /\ PatchIsEarned'
      BY <1>1, <1>6, ResolutionKept
  <1> QED BY <1>5, <1>7, <1>8, <1>9, <1>10, <1>11 DEF FlowInv

\* The review case comes before the announcement.
LEMMA PutReviewKeeps ==
    ASSUME FlowInv, Frame, NEW u \in User, NEW to \in {"idle", "publishAnalysis"},
           PutReview(u, to)
    PROVE  FlowInv'
  <1>1. /\ Holds(u) /\ pc[u] = "putReview" /\ pc'[u] = to /\ item[u] \in 1..Len(analyses)
        /\ UNCHANGED <<status, patching, overlapped, accepted,
                       analyses, approvals, orders, evidence, events, feedback, item>>
        /\ reviews' = reviews \cup {item[u]}
      BY DEF FlowInv, TypeOK, incident, PutReview, Goto, Holds, workTable
  <1>2. TypeOK'
    <2>1. pc' \in [User -> {"idle"} \cup ManagerCall \cup WorkerCall]
        BY DEF FlowInv, TypeOK, incident, PutReview, Goto, ManagerCall
    <2> QED BY <1>1, <2>1 DEF FlowInv, TypeOK, Frame
  <1>3. OrderIsApproved' /\ ReviewIsQueued' /\ CompletionIsStored' /\ Grows
      BY <1>1 DEF FlowInv, TypeOK, OrderIsApproved, ReviewIsQueued, CompletionIsStored, Sent, Grows
  <1>4. Holds(u)'
      BY <1>1 DEF Holds, ManagerCall, WorkerCall
  <1>5. ASSUME NEW v \in User, v # u PROVE Holds(v)'
      BY <1>3, <1>5, OthersKeep, ResponseAssumption
         DEF ResponseAssumption, FlowInv, TypeOK, incident, PutReview, Goto, Frame
  <1>6. ResolutionIsEarned' /\ PatchIsEarned'
      BY <1>1, <1>3, ResolutionKept
  <1> QED BY <1>2, <1>3, <1>4, <1>5, <1>6 DEF FlowInv

\* A new approval of the analysis shown, with the decision of the button pressed.
LEMMA PutApprovalKeeps ==
    ASSUME FlowInv, Frame, NEW u \in User, NEW to \in {"idle", "publishDecision"},
           PutApproval(u, to)
    PROVE  FlowInv'
  <1> DEFINE n == Len(approvals) + 1
             new == [analysis |-> plan[u], decision |-> choice[u]]
  <1>1. /\ Holds(u) /\ pc[u] = "putApproval" /\ pc'[u] = to
        /\ UNCHANGED <<status, patching, overlapped, accepted,
                       analyses, reviews, orders, evidence, events, feedback>>
        /\ approvals' = Append(approvals, new)
      BY DEF FlowInv, TypeOK, incident, PutApproval, Goto, analysisTable
  <1>2. u \in Manager
      BY <1>1 DEF Holds, User, WorkerCall
  <1>3. new \in [analysis : 1..Len(analyses), decision : Decision]
    <2>1. plan[u] \in 1..Len(analyses) /\ choice[u] \in Decision
        BY <1>1, <1>2 DEF FlowInv, TypeOK, Holds
    <2> QED BY <2>1
  <1>4. /\ Len(approvals) \in Nat /\ Len(approvals') = n
        /\ approvals' \in Seq([analysis : 1..Len(analyses), decision : Decision])
        /\ approvals'[n] = new
        /\ \A i \in 1..Len(approvals) : approvals'[i] = approvals[i]
      BY <1>1, <1>3, AppendProperties, LenProperties DEF FlowInv, TypeOK
  <1>5. item' = [item EXCEPT ![u] = n] /\ item'[u] = n
      BY <1>4 DEF PutApproval, FlowInv, TypeOK
  <1>6. \A i \in 1..Len(approvals) : i \in 1..Len(approvals')
      BY <1>4
  <1>7. TypeOK'
    <2>1. orders \in Seq([approval : 1..Len(approvals'), completed : BOOLEAN])
      <3>1. [approval : 1..Len(approvals), completed : BOOLEAN] \subseteq
               [approval : 1..Len(approvals'), completed : BOOLEAN]
          BY <1>6
      <3>2. orders \in Seq([approval : 1..Len(approvals), completed : BOOLEAN])
          BY DEF FlowInv, TypeOK
      <3> QED BY <3>1, <3>2, SeqMonotonic
    <2>2. events \subseteq {"analysis.completed"} \X (1..Len(analyses))
                    \cup {"approval.decided"} \X (1..Len(approvals'))
                    \cup {"work_order.created", "work_order.completed", "feedback.submitted"}
                            \X (1..Len(orders))
      BY <1>6 DEF FlowInv, TypeOK
    <2>3. /\ pc' \in [User -> {"idle"} \cup ManagerCall \cup WorkerCall]
          /\ item' \in [User -> Nat]
      BY <1>4, <1>5 DEF FlowInv, TypeOK, incident, PutApproval, Goto, ManagerCall
    <2> QED BY <1>1, <1>4, <2>1, <2>2, <2>3 DEF FlowInv, TypeOK, Frame
  <1>8. Grows
      BY <1>1, <1>4, <1>6 DEF Grows, FlowInv, TypeOK
  <1>9. OrderIsApproved'
    <2>1. \A o \in 1..Len(orders) : orders[o].approval \in 1..Len(approvals)
        BY OrderTyped
    <2> QED BY <1>1, <1>4, <2>1 DEF FlowInv, OrderIsApproved, Sent
  <1>10. ReviewIsQueued' /\ CompletionIsStored'
      BY <1>1 DEF FlowInv, ReviewIsQueued, CompletionIsStored, Sent
  <1>11. Holds(u)'
    <2>1. item'[u] \in 1..Len(approvals') /\ approvals'[item'[u]].decision = choice[u]
        BY <1>4, <1>5
    <2>2. u \notin FieldWorker
        BY <1>1 DEF Holds, WorkerCall
    <2> QED BY <1>1, <2>1, <2>2 DEF Holds, Frame, ManagerCall, WorkerCall
  <1>12. ASSUME NEW v \in User, v # u PROVE Holds(v)'
      BY <1>8, <1>12, OthersKeep, ResponseAssumption
         DEF ResponseAssumption, FlowInv, TypeOK, incident, PutApproval, Goto, Frame
  <1>13. ResolutionIsEarned' /\ PatchIsEarned'
      BY <1>1, <1>8, ResolutionKept
  <1> QED BY <1>7, <1>9, <1>10, <1>11, <1>12, <1>13 DEF FlowInv

\* A new work order follows the approval the handler has announced.
LEMMA PutOrderKeeps ==
    ASSUME FlowInv, Frame, NEW u \in User, NEW to \in {"idle", "publishOrder"}, PutOrder(u, to)
    PROVE  FlowInv'
  <1> DEFINE n == Len(orders) + 1
             new == [approval |-> item[u], completed |-> FALSE]
  <1>1. /\ Holds(u) /\ pc[u] = "putOrder" /\ pc'[u] = to
        /\ UNCHANGED <<status, patching, overlapped, accepted,
                       analyses, reviews, approvals, evidence, events, feedback>>
        /\ orders' = Append(orders, new)
      BY DEF FlowInv, TypeOK, incident, PutOrder, Goto, analysisTable
  <1>2. /\ item[u] \in 1..Len(approvals)
        /\ approvals[item[u]].decision \in {"approve", "changes"}
        /\ Sent("approval.decided", item[u])
      BY <1>1 DEF Holds
  <1>3. /\ Len(orders) \in Nat /\ Len(orders') = n
        /\ orders' \in Seq([approval : 1..Len(approvals), completed : BOOLEAN])
        /\ orders'[n] = new
        /\ \A i \in 1..Len(orders) : orders'[i] = orders[i]
      BY <1>1, <1>2, AppendProperties, LenProperties DEF FlowInv, TypeOK
  <1>4. item' = [item EXCEPT ![u] = n] /\ item'[u] = n
      BY <1>3 DEF PutOrder, FlowInv, TypeOK
  <1>5. /\ \A i \in 1..Len(orders) : i \in 1..Len(orders')
        /\ \A i \in 1..Len(orders') : i = n \/ i \in 1..Len(orders)
        /\ n \notin 1..Len(orders)
      BY <1>3
  <1>6. TypeOK'
    <2>1. events \subseteq {"analysis.completed"} \X (1..Len(analyses))
                    \cup {"approval.decided"} \X (1..Len(approvals))
                    \cup {"work_order.created", "work_order.completed", "feedback.submitted"}
                            \X (1..Len(orders'))
      BY <1>5 DEF FlowInv, TypeOK
    <2>2. /\ evidence \subseteq 1..Len(orders') /\ feedback \subseteq 1..Len(orders')
          /\ accepted \subseteq 1..Len(orders')
      BY <1>5 DEF FlowInv, TypeOK
    <2>3. /\ pc' \in [User -> {"idle"} \cup ManagerCall \cup WorkerCall]
          /\ item' \in [User -> Nat]
      BY <1>3, <1>4 DEF FlowInv, TypeOK, incident, PutOrder, Goto, ManagerCall
    <2> QED BY <1>1, <1>3, <2>1, <2>2, <2>3 DEF FlowInv, TypeOK, Frame
  <1>7. Grows
      BY <1>1, <1>3, <1>5 DEF Grows, FlowInv, TypeOK
  <1>8. OrderIsApproved'
    <2>1. \A i : Sent("approval.decided", i)' <=> Sent("approval.decided", i)
        BY <1>1 DEF Sent
    <2> QED BY <1>1, <1>2, <1>3, <1>5, <2>1 DEF FlowInv, OrderIsApproved
  <1>9. ReviewIsQueued'
      BY <1>1 DEF FlowInv, ReviewIsQueued, Sent
  <1>10. CompletionIsStored'
    <2>1. \A i : Sent("work_order.completed", i) \/ i \in feedback => i # n
      <3>1. \A i : Sent("work_order.completed", i) => i \in 1..Len(orders)
          BY DEF FlowInv, TypeOK, Sent
      <3> QED BY <1>5, <3>1 DEF FlowInv, TypeOK
    <2>2. \A i : Sent("work_order.completed", i)' <=> Sent("work_order.completed", i)
        BY <1>1 DEF Sent
    <2>3. ASSUME NEW o \in 1..Len(orders'),
                 Sent("work_order.completed", o) \/ o \in feedback
          PROVE  orders'[o].completed /\ o \in accepted'
      <3>1. o # n
          BY <2>1, <2>3
      <3>2. o \in 1..Len(orders) /\ orders'[o] = orders[o]
          BY <1>3, <1>5, <3>1
      <3>3. orders[o].completed /\ o \in accepted
          BY <2>3, <3>2 DEF FlowInv, CompletionIsStored
      <3> QED BY <1>1, <3>2, <3>3
    <2> QED BY <1>1, <2>2, <2>3 DEF CompletionIsStored
  <1>11. Holds(u)'
    <2>1. item'[u] \in 1..Len(orders')
        BY <1>3, <1>4
    <2>2. u \notin FieldWorker
        BY <1>1 DEF Holds, WorkerCall
    <2> QED BY <1>1, <2>1, <2>2 DEF Holds, ManagerCall, WorkerCall
  <1>12. ASSUME NEW v \in User, v # u PROVE Holds(v)'
      BY <1>7, <1>12, OthersKeep, ResponseAssumption
         DEF ResponseAssumption, FlowInv, TypeOK, incident, PutOrder, Goto, Frame
  <1>13. ResolutionIsEarned' /\ PatchIsEarned'
      BY <1>1, <1>7, ResolutionKept
  <1> QED BY <1>6, <1>8, <1>9, <1>10, <1>11, <1>12, <1>13 DEF FlowInv

\* The photo.
LEMMA UploadKeeps ==
    ASSUME FlowInv, Frame, NEW u \in User, NEW to \in {"idle", "complete"}, Upload(u, to)
    PROVE  FlowInv'
  <1>1. /\ Holds(u) /\ pc[u] = "upload" /\ pc'[u] = to /\ item[u] \in 1..Len(orders)
        /\ UNCHANGED <<status, patching, overlapped, accepted,
                       analyses, reviews, approvals, orders, events, feedback, item>>
        /\ evidence' = evidence \cup {item[u]}
      BY DEF FlowInv, TypeOK, incident, Upload, Goto, Holds, WorkerCall, analysisTable, workTable
  <1>2. TypeOK'
    <2>1. pc' \in [User -> {"idle"} \cup ManagerCall \cup WorkerCall]
        BY DEF FlowInv, TypeOK, incident, Upload, Goto, WorkerCall
    <2> QED BY <1>1, <2>1 DEF FlowInv, TypeOK, Frame
  <1>3. OrderIsApproved' /\ ReviewIsQueued' /\ CompletionIsStored' /\ Grows
      BY <1>1, RecordsKept
  <1>4. Holds(u)'
      BY <1>1 DEF Holds, ManagerCall, WorkerCall
  <1>5. ASSUME NEW v \in User, v # u PROVE Holds(v)'
      BY <1>3, <1>5, OthersKeep, ResponseAssumption
         DEF ResponseAssumption, FlowInv, TypeOK, incident, Upload, Goto, Frame
  <1>6. ResolutionIsEarned' /\ PatchIsEarned'
      BY <1>1, <1>3, ResolutionKept
  <1> QED BY <1>2, <1>3, <1>4, <1>5, <1>6 DEF FlowInv

\* The completion is stored; only its flag changes.
LEMMA CompleteKeeps ==
    ASSUME FlowInv, Frame, NEW u \in User, NEW to \in {"idle", "patchResolved"}, Complete(u, to)
    PROVE  FlowInv'
  <1>1. /\ Holds(u) /\ pc[u] = "complete" /\ pc'[u] = to /\ item[u] \in 1..Len(orders)
        /\ UNCHANGED <<status, patching, overlapped, accepted,
                       analyses, reviews, approvals, evidence, events, feedback, item>>
        /\ orders' = [orders EXCEPT ![item[u]].completed = TRUE]
      BY DEF FlowInv, TypeOK, incident, Complete, Goto, Holds, WorkerCall, analysisTable
  <1> DEFINE new == [orders[item[u]] EXCEPT !.completed = TRUE]
  <1>2. /\ new \in [approval : 1..Len(approvals), completed : BOOLEAN]
        /\ new.approval = orders[item[u]].approval /\ new.completed
      BY <1>1, OrderTyped
  <1>3. /\ orders' \in Seq([approval : 1..Len(approvals), completed : BOOLEAN])
        /\ Len(orders') = Len(orders)
        /\ orders'[item[u]] = new
        /\ \A i \in 1..Len(orders) \ {item[u]} : orders'[i] = orders[i]
    <2>1. orders' = [orders EXCEPT ![item[u]] = new]
        BY <1>1
    <2>2. orders \in Seq([approval : 1..Len(approvals), completed : BOOLEAN])
        BY DEF FlowInv, TypeOK
    <2> HIDE DEF new
    <2>3. /\ Len(orders') = Len(orders)
          /\ orders' \in Seq([approval : 1..Len(approvals), completed : BOOLEAN])
        BY <1>1, <1>2, <2>1, <2>2, ExceptSeq
    <2> QED BY <1>1, <2>1, <2>2, <2>3, LenProperties
  <1>4. TypeOK'
    <2>1. pc' \in [User -> {"idle"} \cup ManagerCall \cup WorkerCall]
        BY DEF FlowInv, TypeOK, incident, Complete, Goto, WorkerCall
    <2> QED BY <1>1, <1>3, <2>1 DEF FlowInv, TypeOK, Frame
  <1>5. \A i \in 1..Len(orders) : /\ orders'[i].approval = orders[i].approval
                                  /\ orders[i].completed => orders'[i].completed
      BY <1>2, <1>3
  <1>6. Grows
      BY <1>1, <1>3, <1>5 DEF Grows, FlowInv, TypeOK
  <1>7. OrderIsApproved' /\ ReviewIsQueued' /\ CompletionIsStored'
    <2>1. \A t, i : Sent(t, i)' <=> Sent(t, i)
        BY <1>1 DEF Sent
    <2> QED BY <1>1, <1>3, <1>5, <2>1 DEF FlowInv, OrderIsApproved, ReviewIsQueued, CompletionIsStored
  <1>8. Holds(u)'
    <2>1. item'[u] \in 1..Len(orders') /\ orders'[item'[u]].completed
        BY <1>1, <1>2, <1>3
    <2> QED BY <1>1, <2>1 DEF Holds, ManagerCall, WorkerCall
  <1>9. ASSUME NEW v \in User, v # u PROVE Holds(v)'
      BY <1>6, <1>9, OthersKeep, ResponseAssumption
         DEF ResponseAssumption, FlowInv, TypeOK, incident, Complete, Goto, Frame
  <1>10. ResolutionIsEarned' /\ PatchIsEarned'
      BY <1>1, <1>6, ResolutionKept
  <1> QED BY <1>4, <1>7, <1>8, <1>9, <1>10 DEF FlowInv

\* Feedback is about an order whose completion the incident service accepted.
LEMMA FeedbackKeeps ==
    ASSUME FlowInv, Frame, NEW u \in User, NEW to \in {"idle", "publishFeedback"}, Feedback(u, to)
    PROVE  FlowInv'
  <1>1. /\ Holds(u) /\ pc[u] = "feedback" /\ pc'[u] = to /\ item[u] \in 1..Len(orders)
        /\ orders[item[u]].completed /\ item[u] \in accepted
        /\ UNCHANGED <<status, patching, overlapped, accepted,
                       analyses, reviews, approvals, orders, evidence, events, item>>
        /\ feedback' = feedback \cup {item[u]}
      BY DEF FlowInv, TypeOK, incident, Feedback, Goto, Holds, WorkerCall, analysisTable, workTable
  <1>2. TypeOK'
    <2>1. pc' \in [User -> {"idle"} \cup ManagerCall \cup WorkerCall]
        BY DEF FlowInv, TypeOK, incident, Feedback, Goto, WorkerCall
    <2> QED BY <1>1, <2>1 DEF FlowInv, TypeOK, Frame
  <1>3. OrderIsApproved' /\ ReviewIsQueued' /\ CompletionIsStored' /\ Grows
      BY <1>1 DEF FlowInv, TypeOK, OrderIsApproved, ReviewIsQueued, CompletionIsStored, Sent, Grows
  <1>4. Holds(u)'
      BY <1>1 DEF Holds, ManagerCall, WorkerCall
  <1>5. ASSUME NEW v \in User, v # u PROVE Holds(v)'
      BY <1>3, <1>5, OthersKeep, ResponseAssumption
         DEF ResponseAssumption, FlowInv, TypeOK, incident, Feedback, Goto, Frame
  <1>6. ResolutionIsEarned' /\ PatchIsEarned'
      BY <1>1, <1>3, ResolutionKept
  <1> QED BY <1>2, <1>3, <1>4, <1>5, <1>6 DEF FlowInv

\* The invariant survives every call of a session, answered or failing.
LEMMA CallKeeps ==
    ASSUME FlowInv, Frame, NEW u \in User
    PROVE  /\ \A from \in DOMAIN EventOf : Publish(u, from, "idle") => FlowInv'
           /\ \A expert \in BOOLEAN : PutAnalysis(u, expert, "idle") => FlowInv'
           /\ PutReview(u, "idle") => FlowInv'
           /\ PutApproval(u, "idle") => FlowInv'
           /\ PutOrder(u, "idle") => FlowInv'
           /\ Upload(u, "idle") => FlowInv'
           /\ Complete(u, "idle") => FlowInv'
           /\ Feedback(u, "idle") => FlowInv'
    BY PublishKeeps, PutAnalysisKeeps, PutReviewKeeps, PutApprovalKeeps,
       PutOrderKeeps, UploadKeeps, CompleteKeeps, FeedbackKeeps

\* A step that only moves session u, or changes its page.
Local(u) ==
    /\ UNCHANGED stored
    /\ pc' \in [User -> {"idle"} \cup ManagerCall \cup WorkerCall]
    /\ item' \in [User -> Nat]
    /\ shown' \in [Manager -> Status]
    /\ plan' \in [Manager -> 0..Len(analyses)]
    /\ choice' \in [Manager -> Decision]
    /\ requests' \in 0..MaxRequests /\ faults' \in 0..MaxFaults
    /\ \A v \in User \ {u} : pc'[v] = pc[v] /\ item'[v] = item[v]
    /\ \A m \in Manager \ {u} : choice'[m] = choice[m] /\ plan'[m] = plan[m]

\* Such a step keeps the invariant when the session holds what it needs.
LEMMA SessionKeeps ==
    ASSUME FlowInv, NEW u \in User, Local(u), Holds(u)'
    PROVE  FlowInv'
  <1>1. UNCHANGED <<status, patching, overlapped, accepted,
                    analyses, reviews, approvals, orders, evidence, events, feedback>>
      BY DEF Local, stored, incident, analysisTable, workTable
  <1>2. TypeOK'
      BY <1>1 DEF FlowInv, TypeOK, Local
  <1>3. OrderIsApproved' /\ ReviewIsQueued' /\ CompletionIsStored' /\ Grows
      BY <1>1, RecordsKept
  <1>3a. ResolutionIsEarned' /\ PatchIsEarned'
      BY <1>1, <1>3, ResolutionKept
  <1>4. ASSUME NEW v \in User, v # u PROVE Holds(v)'
      BY <1>3, <1>4, OthersKeep, ResponseAssumption DEF ResponseAssumption, Local
  <1> QED BY <1>2, <1>3, <1>3a, <1>4 DEF FlowInv

\* FlowInv is inductive.
LEMMA FlowStep == FlowInv /\ [Next]_vars => FlowInv'
  <1> SUFFICES ASSUME FlowInv, [Next]_vars PROVE FlowInv'
      OBVIOUS
  <1> USE DEF page
  <1>0. /\ TypeOK /\ \A u \in User : Holds(u)
        /\ Manager \subseteq User /\ FieldWorker \subseteq User
        /\ Manager \cap FieldWorker = {}
        /\ MaxRequests \in Nat /\ MaxFaults \in Nat
      BY ResponseAssumption DEF FlowInv, User, ResponseAssumption
  <1>1. ASSUME NEW m \in Manager, Open(m) PROVE FlowInv'
    <2>1. Holds(m)'
        BY <1>0, <1>1 DEF Open, Holds, TypeOK, ManagerCall, WorkerCall
    <2>2. Local(m)
        BY <1>0, <1>1 DEF Open, Local, TypeOK
    <2> QED BY <1>0, <2>1, <2>2, SessionKeeps
  <1>2. ASSUME NEW m \in Manager, RunAnalysis(m) PROVE FlowInv'
    <2>1. Holds(m)'
        BY <1>0, <1>2 DEF RunAnalysis, Press, Goto, Holds, TypeOK, ManagerCall, WorkerCall
    <2>2. /\ pc' \in [User -> {"idle"} \cup ManagerCall \cup WorkerCall]
          /\ \A v \in User \ {m} : pc'[v] = pc[v]
        BY <1>0, <1>2 DEF RunAnalysis, Press, Goto, TypeOK, ManagerCall
    <2>3. requests' \in 0..MaxRequests
        BY <1>0, <1>2 DEF RunAnalysis, Press, TypeOK
    <2>4. Local(m)
        BY <1>0, <1>2, <2>2, <2>3 DEF RunAnalysis, Local, TypeOK
    <2> QED BY <1>0, <2>1, <2>4, SessionKeeps
  <1>3. ASSUME NEW m \in Manager, Analyze(m) PROVE FlowInv'
    <2>1. Frame
        BY <1>0, <1>3 DEF Analyze, Frame, TypeOK
    <2>2. CASE \/ Judge(m, "patchAnalyzing", "storeAnalyzing")
               \/ Judge(m, "patchReview", "storeReview")
        BY <1>0, <2>1, <2>2, JudgeKeeps DEF Asked, StoreOf
    <2>3. CASE Store(m, "storeAnalyzing", "putAnalysis") \/ Store(m, "storeReview", "idle")
        BY <1>0, <2>1, <2>3, StoreKeeps DEF Written, AfterStore
    <2> QED BY <1>0, <1>3, <2>1, <2>2, <2>3, PutAnalysisKeeps, PutReviewKeeps DEF Analyze
  <1>4. ASSUME NEW m \in Manager, ShowAnalysis(m) PROVE FlowInv'
    <2>1. item[m] \in 1..Len(analyses)
        BY <1>0, <1>4 DEF ShowAnalysis, Publish, Goto, Holds
    <2>2. Frame
        BY <1>0, <1>4, <2>1 DEF ShowAnalysis, Frame, TypeOK
    <2> QED BY <1>0, <1>4, <2>2, PublishKeeps DEF ShowAnalysis, EventOf
  <1>5. ASSUME NEW m \in Manager, NEW d \in Decision, Decide(m, d) PROVE FlowInv'
    <2>1. Holds(m)'
        BY <1>0, <1>5 DEF Decide, Press, Goto, Holds, TypeOK, ManagerCall, WorkerCall
    <2>2. Local(m)
        BY <1>0, <1>5 DEF Decide, Press, Goto, Local, TypeOK, ManagerCall
    <2> QED BY <1>0, <2>1, <2>2, SessionKeeps
  <1>6. ASSUME NEW m \in Manager, Approve(m) PROVE FlowInv'
    <2>1. Frame
        BY <1>0, <1>6 DEF Approve, Frame, TypeOK
    <2>2. CASE Judge(m, "patchApproved", "storeApproved") \/ Store(m, "storeApproved", "idle")
        BY <1>0, <2>1, <2>2, JudgeKeeps, StoreKeeps DEF Asked, StoreOf, Written, AfterStore
    <2> QED BY <1>0, <1>6, <2>1, <2>2, PutApprovalKeeps, PublishKeeps, PutOrderKeeps
            DEF Approve, EventOf
  <1>7. ASSUME NEW w \in FieldWorker, NEW o \in 1..Len(orders), FillIn(w, o) PROVE FlowInv'
    <2>1. Len(orders) \in Nat
        BY <1>0, LenProperties DEF TypeOK
    <2>2. Holds(w)'
        BY <1>0, <1>7 DEF FillIn, Press, Goto, stored, workTable, Holds, TypeOK, ManagerCall, WorkerCall
    <2>3. /\ pc' \in [User -> {"idle"} \cup ManagerCall \cup WorkerCall]
          /\ \A v \in User \ {w} : pc'[v] = pc[v]
      <3>1. pc \in [User -> {"idle"} \cup ManagerCall \cup WorkerCall]
          BY <1>0 DEF TypeOK
      <3>2. pc' = [pc EXCEPT ![w] = "upload"]
          BY <1>7 DEF FillIn, Press, Goto
      <3> QED BY <3>1, <3>2 DEF WorkerCall
    <2>3a. requests' \in 0..MaxRequests
      <3>1. requests \in 0..MaxRequests /\ MaxRequests \in Nat
          BY <1>0 DEF TypeOK
      <3>2. requests < MaxRequests /\ requests' = requests + 1
          BY <1>7 DEF FillIn, Press
      <3> QED BY <3>1, <3>2
    <2>4. item' \in [User -> Nat] /\ \A v \in User \ {w} : item'[v] = item[v]
        BY <1>0, <1>7, <2>1 DEF FillIn, TypeOK
    <2>5. Local(w)
        BY <1>0, <1>7, <2>3, <2>3a, <2>4 DEF FillIn, Local, TypeOK
    <2> QED BY <1>0, <2>2, <2>5, SessionKeeps
  <1>8. ASSUME NEW w \in FieldWorker, Incomplete(w) PROVE FlowInv'
    <2>1. Holds(w)'
        BY <1>0, <1>8 DEF Incomplete, Goto, Holds, TypeOK, ManagerCall, WorkerCall
    <2>2. Local(w)
        BY <1>0, <1>8 DEF Incomplete, Goto, Local, TypeOK
    <2> QED BY <1>0, <2>1, <2>2, SessionKeeps
  <1>9. ASSUME NEW w \in FieldWorker, Work(w) PROVE FlowInv'
    <2>1. Frame
        BY <1>0, <1>9 DEF Work, Frame, TypeOK
    <2>2. CASE Judge(w, "patchResolved", "storeResolved") \/ Store(w, "storeResolved", "publishCompleted")
        BY <1>0, <2>1, <2>2, JudgeKeeps, StoreKeeps DEF Asked, StoreOf, Written, AfterStore
    <2> QED BY <1>0, <1>9, <2>1, <2>2, UploadKeeps, CompleteKeeps, PublishKeeps, FeedbackKeeps
            DEF Work, EventOf
  <1>10. ASSUME NEW u \in User, Refused(u) \/ Conflict(u) PROVE FlowInv'
    <2>0. Goto(u, pc[u], "idle") /\ UNCHANGED <<stored, page, item, requests, faults>>
        BY <1>10 DEF Refused, Conflict
    <2>1. Holds(u)'
        BY <1>0, <2>0 DEF Goto, Holds, TypeOK, ManagerCall, WorkerCall
    <2>2. Local(u)
        BY <1>0, <2>0 DEF Goto, Local, TypeOK
    <2> QED BY <2>1, <2>2, SessionKeeps
  <1>11. ASSUME NEW u \in User, CallFails(u) PROVE FlowInv'
    <2>1. Frame
        BY <1>0, <1>11 DEF CallFails, Frame, TypeOK
    <2>2. CASE Goto(u, pc[u], "idle") /\ UNCHANGED <<stored, item>>
      <3>1. Holds(u)'
          BY <1>0, <2>2 DEF Goto, Holds, TypeOK, ManagerCall, WorkerCall
      <3>2. Local(u)
          BY <1>0, <1>11, <2>1, <2>2 DEF CallFails, Goto, Local, Frame, TypeOK
      <3> QED BY <3>1, <3>2, SessionKeeps
    <2>3. ASSUME NEW from \in DOMAIN Asked, GiveUp(u, from, Asked[from]) PROVE FlowInv'
      <3>1. Asked[from] \in Status /\ (Asked[from] = "resolved" => from = "patchResolved")
          BY DEF Asked, Status
      <3> QED BY <1>11, <2>1, <2>3, <3>1, GiveUpKeeps DEF CallFails
    <2>4. ASSUME NEW from \in DOMAIN Written, GiveUp(u, from, Written[from]) PROVE FlowInv'
      <3>1. Written[from] \in Status /\ (Written[from] = "resolved" => from = "storeResolved")
          BY DEF Written, Status
      <3> QED BY <1>11, <2>1, <2>4, <3>1, GiveUpKeeps DEF CallFails
    <2> QED BY <1>11, <2>1, <2>2, <2>3, <2>4, CallKeeps DEF CallFails
  <1>12. ASSUME NEW c \in Client, NEW s \in DirectTarget, DirectJudge(c, s) PROVE FlowInv'
    <2>1. /\ UNCHANGED <<status, accepted, analyses, reviews, approvals, orders, evidence, events,
                         feedback, shown, plan, choice, pc, item, requests, faults>>
          /\ patching' = patching \cup {<<c, s>>} /\ overlapped' \in BOOLEAN
        BY <1>0, <1>12 DEF DirectJudge, analysisTable, workTable, TypeOK, Underway
    <2>2. patching' \subseteq (Client \cup 1..MaxFaults) \X Status
        BY <1>0, <2>1, ResponseAssumption DEF TypeOK, ResponseAssumption
    <2>3. TypeOK'
        BY <1>0, <2>1, <2>2 DEF TypeOK
    <2>4. OrderIsApproved' /\ ReviewIsQueued' /\ CompletionIsStored' /\ Grows
        BY <2>1, RecordsKept
    <2>5. ASSUME NEW v \in User PROVE Holds(v)'
        BY <1>0, <2>1, <2>4, <2>5, OthersKeep
    <2>6. ResolutionIsEarned' /\ PatchIsEarned'
        BY <2>1, <2>4, ResolutionKept
    <2> QED BY <2>3, <2>4, <2>5, <2>6 DEF FlowInv
  <1>13. ASSUME NEW p \in patching, DirectStore(p) PROVE FlowInv'
    <2>1. /\ UNCHANGED <<overlapped, accepted, analyses, reviews, approvals, orders, evidence,
                         events, feedback, shown, plan, choice, pc, item, requests, faults>>
          /\ patching' = patching \ {p} /\ status' = p[2]
        BY <1>13 DEF DirectStore, analysisTable, workTable
    <2>2. status' \in Status
        BY <1>0, <2>1 DEF TypeOK
    <2>3. TypeOK'
        BY <1>0, <2>1, <2>2 DEF TypeOK
    <2>4. OrderIsApproved' /\ ReviewIsQueued' /\ CompletionIsStored' /\ Grows
        BY <2>1, RecordsKept
    <2>5. ASSUME NEW v \in User PROVE Holds(v)'
        BY <1>0, <2>1, <2>4, <2>5, OthersKeep
    <2>6. "resolved" \notin DirectTarget /\ status' = "resolved" => Earned
        BY <2>1 DEF FlowInv, PatchIsEarned
    <2>7. ResolutionIsEarned' /\ PatchIsEarned'
        BY <2>1, <2>4, <2>6, ResolutionKept
    <2> QED BY <2>3, <2>4, <2>5, <2>7 DEF FlowInv
  <1>14. CASE UNCHANGED vars
    <2>1. UNCHANGED <<status, patching, overlapped, accepted,
                      analyses, reviews, approvals, orders, evidence, events, feedback, shown,
                      plan, choice, pc, item, requests, faults>>
        BY <1>14 DEF vars, stored, incident, analysisTable, workTable
    <2> QED BY <2>1 DEF FlowInv, TypeOK, OrderIsApproved, ReviewIsQueued, CompletionIsStored,
                         ResolutionIsEarned, PatchIsEarned, Earned, Sent, Holds
  <1> QED BY <1>1, <1>2, <1>3, <1>4, <1>5, <1>6, <1>7, <1>8, <1>9, <1>10, <1>11, <1>12, <1>13, <1>14
          DEF Next, Rest

\* What a session holds at each call is an invariant.
THEOREM Flow == Spec => []FlowInv
    BY FlowInit, FlowStep, PTL DEF Spec

\* Every variable keeps its type, and no event is about a record that is not stored.
THEOREM FlowTypes == Spec => []TypeOK
    BY Flow, PTL DEF FlowInv

\* No work order without a stored approval that was announced before it.
THEOREM OrdersApproved == Spec => []OrderIsApproved
    BY Flow, PTL DEF FlowInv

\* No analysis that calls for an expert is announced before its review case.
THEOREM ReviewsQueued == Spec => []ReviewIsQueued
    BY Flow, PTL DEF FlowInv

\* As long as no other client may ask for resolved, a resolved incident has a
\* completed order with a photo behind it.
THEOREM ResolutionEarned == Spec => []ResolutionIsEarned
    BY Flow, PTL DEF FlowInv

-----------------------------------------------------------------------------
(* Resolved for good, unless PATCHes overlap.                              *)

Storing(u) == pc[u] \in DOMAIN Written

\* While no PATCH was judged with another underway, at most one is, what it is about
\* to write is still allowed, and an accepted completion stands.
LonePatch ==
    /\ accepted # {} => status = "resolved"
    /\ \A p \in patching : p[2] \in Allowed[status]
    /\ \A u \in User : Storing(u) => Written[pc[u]] \in Allowed[status] /\ patching = {}
    /\ \A p, q \in patching : p = q
    /\ \A u, v \in User : Storing(u) /\ Storing(v) => u = v

LoneInv == ~overlapped => LonePatch

\* A step that judges and writes nothing.
LEMMA LoneKept ==
    ASSUME LoneInv, UNCHANGED incident, \A u \in User : Storing(u)' => Storing(u) /\ pc'[u] = pc[u]
    PROVE  LoneInv'
    BY DEF LoneInv, LonePatch, incident

\* Such a step of one session.
LEMMA LoneSession ==
    ASSUME FlowInv, LoneInv, UNCHANGED incident, NEW u \in User, NEW from, NEW to,
           Goto(u, from, to), to \notin DOMAIN Written
    PROVE  LoneInv'
  <1>1. \A v \in User : Storing(v)' => Storing(v) /\ pc'[v] = pc[v]
      BY DEF Goto, FlowInv, TypeOK, Storing
  <1> QED BY <1>1, LoneKept

\* A PATCH judged alone is the only one.
LEMMA LoneJudge ==
    ASSUME FlowInv, LoneInv, NEW u \in User, NEW from \in DOMAIN Asked,
           Judge(u, from, StoreOf[from])
    PROVE  LoneInv'
  <1> SUFFICES ASSUME ~overlapped' PROVE LonePatch'
      BY DEF LoneInv
  <1>1. LonePatch /\ ~Underway(u) /\ UNCHANGED <<status, patching, accepted>>
      BY DEF Judge, LoneInv
  <1>2. /\ patching = {} /\ \A v \in User \ {u} : ~Storing(v)
      BY <1>1 DEF Underway, Storing
  <1>3. pc'[u] = StoreOf[from] /\ \A v \in User \ {u} : pc'[v] = pc[v]
      BY DEF Judge, Goto, FlowInv, TypeOK
  <1>4. Written[pc'[u]] \in Allowed[status]
    <2>1. Written[StoreOf[from]] = Asked[from]
        BY DEF Written, StoreOf, Asked
    <2> QED BY <1>3, <2>1 DEF Judge
  <1>5. \A v \in User : Storing(v)' => v = u
      BY <1>2, <1>3 DEF Storing
  <1>6. \A v \in User : Storing(v)' => Written[pc'[v]] \in Allowed[status] /\ patching = {}
      BY <1>2, <1>4, <1>5
  <1> QED BY <1>1, <1>2, <1>5, <1>6 DEF LonePatch

\* A PATCH written alone leaves none, and none follows an accepted completion.
LEMMA LoneStore ==
    ASSUME FlowInv, LoneInv, NEW u \in User, NEW from \in DOMAIN Written, NEW to,
           Store(u, from, to), to \notin DOMAIN Written
    PROVE  LoneInv'
  <1> SUFFICES ASSUME ~overlapped' PROVE LonePatch'
      BY DEF LoneInv
  <1>1. LonePatch /\ UNCHANGED <<patching, overlapped>>
      BY DEF Store, LoneInv
  <1>2. /\ pc[u] = from /\ Storing(u) /\ patching = {}
        /\ Written[from] \in Allowed[status]
      BY <1>1 DEF Store, Goto, Storing, LonePatch
  <1>3. \A v \in User : ~Storing(v)'
    <2>1. pc'[u] = to /\ \A v \in User \ {u} : pc'[v] = pc[v]
        BY DEF Store, Goto, FlowInv, TypeOK
    <2> QED BY <1>1, <1>2, <2>1 DEF LonePatch, Storing
  <1>4. accepted' # {} => status' = "resolved"
    <2>1. accepted = {}
        BY <1>1, <1>2, AllowedTable DEF LonePatch
    <2>2. CASE from = "storeResolved"
        BY <2>2 DEF Store, Written
    <2>3. CASE from # "storeResolved"
        BY <2>1, <2>3 DEF Store
    <2> QED BY <2>2, <2>3
  <1> QED BY <1>1, <1>2, <1>3, <1>4 DEF LonePatch

\* A PATCH given up alone is still the only one.
LEMMA LoneGiveUp ==
    ASSUME FlowInv, LoneInv, NEW u \in User, NEW from, NEW s, GiveUp(u, from, s),
           s \in Allowed[status] \/ (from \in DOMAIN Written /\ s = Written[from])
    PROVE  LoneInv'
  <1> SUFFICES ASSUME ~overlapped' PROVE LonePatch'
      BY DEF LoneInv
  <1>1. LonePatch /\ ~Underway(u) /\ UNCHANGED <<status, accepted>> /\ pc[u] = from
      BY DEF GiveUp, Goto, LoneInv
  <1>2. patching = {} /\ \A v \in User \ {u} : ~Storing(v)
      BY <1>1 DEF Underway, Storing
  <1>3. patching' = {<<faults + 1, s>>}
      BY <1>2 DEF GiveUp
  <1>4. s \in Allowed[status]
      BY <1>1 DEF LonePatch, Storing
  <1>5. \A v \in User : ~Storing(v)'
    <2>1. pc'[u] = "idle" /\ \A v \in User \ {u} : pc'[v] = pc[v]
        BY DEF GiveUp, Goto, FlowInv, TypeOK
    <2>2. "idle" \notin DOMAIN Written
        BY DEF Written
    <2> QED BY <1>2, <2>1, <2>2 DEF Storing
  <1>6. /\ \A p \in patching' : p[2] \in Allowed[status']
        /\ \A p, q \in patching' : p = q
      BY <1>1, <1>3, <1>4
  <1> QED BY <1>1, <1>5, <1>6 DEF LonePatch

\* Another client's PATCH, judged alone.
LEMMA LoneDirectJudge ==
    ASSUME FlowInv, LoneInv, NEW c \in Client, NEW s \in DirectTarget, DirectJudge(c, s)
    PROVE  LoneInv'
  <1> SUFFICES ASSUME ~overlapped' PROVE LonePatch'
      BY DEF LoneInv
  <1>1. /\ LonePatch /\ ~Underway(c) /\ UNCHANGED <<status, accepted, pc>>
        /\ s \in Allowed[status]
      BY DEF DirectJudge, LoneInv
  <1>2. patching = {} /\ \A v \in User : ~Storing(v)
      BY <1>1, ResponseAssumption DEF Underway, Storing, ResponseAssumption, User
  <1>3. patching' = {<<c, s>>}
      BY <1>2 DEF DirectJudge
  <1>4. \A v \in User : ~Storing(v)'
      BY <1>1, <1>2 DEF Storing
  <1>5. /\ \A p \in patching' : p[2] \in Allowed[status']
        /\ \A p, q \in patching' : p = q
      BY <1>1, <1>3
  <1> QED BY <1>1, <1>4, <1>5 DEF LonePatch

\* A PATCH no session waits for, written alone.
LEMMA LoneDirectStore ==
    ASSUME FlowInv, LoneInv, NEW p \in patching, DirectStore(p)
    PROVE  LoneInv'
  <1> SUFFICES ASSUME ~overlapped' PROVE LonePatch'
      BY DEF LoneInv
  <1>1. LonePatch /\ UNCHANGED <<accepted, pc>> /\ patching' = patching \ {p}
      BY DEF DirectStore, LoneInv
  <1>2. accepted = {}
      BY <1>1, AllowedTable DEF LonePatch
  <1>3. patching' = {} /\ \A v \in User : ~Storing(v)
      BY <1>1 DEF LonePatch
  <1>4. \A v \in User : ~Storing(v)'
      BY <1>1, <1>3 DEF Storing
  <1> QED BY <1>1, <1>2, <1>3, <1>4 DEF LonePatch

\* LoneInv is inductive.
LEMMA LoneStep == FlowInv /\ LoneInv /\ [Next]_vars => LoneInv'
  <1> SUFFICES ASSUME FlowInv, LoneInv, [Next]_vars PROVE LoneInv'
      OBVIOUS
  <1>0. Manager \subseteq User /\ FieldWorker \subseteq User
      BY DEF User
  <1>1. ASSUME NEW u \in User, NEW from, Publish(u, from, "idle") \/ Publish(u, from, "patchReview")
                  \/ Publish(u, from, "putOrder") \/ Publish(u, from, "patchApproved")
                  \/ Publish(u, from, "feedback")
        PROVE  LoneInv'
      BY <1>1, LoneSession DEF Publish, Written
  <1>2. ASSUME NEW m \in User, NEW to, to \notin DOMAIN Written,
               \/ \E expert \in BOOLEAN : PutAnalysis(m, expert, to)
               \/ PutReview(m, to) \/ PutApproval(m, to) \/ PutOrder(m, to)
        PROVE  LoneInv'
      BY <1>2, LoneSession DEF PutAnalysis, PutReview, PutApproval, PutOrder
  <1>3. ASSUME NEW w \in User, NEW to, to \notin DOMAIN Written,
               Upload(w, to) \/ Complete(w, to) \/ Feedback(w, to)
        PROVE  LoneInv'
      BY <1>3, LoneSession DEF Upload, Complete, Feedback
  <1>4. ASSUME NEW m \in Manager, Open(m) \/ RunAnalysis(m) \/ \E d \in Decision : Decide(m, d)
        PROVE  LoneInv'
    <2>1. CASE Open(m)
        BY <2>1, LoneKept DEF Open, stored, Storing
    <2>2. CASE RunAnalysis(m) \/ \E d \in Decision : Decide(m, d)
        BY <1>0, <2>2, LoneSession DEF RunAnalysis, Decide, Press, stored, Written
    <2> QED BY <1>4, <2>1, <2>2
  <1>5. ASSUME NEW m \in Manager, Analyze(m) PROVE LoneInv'
    <2>1. CASE \/ Judge(m, "patchAnalyzing", "storeAnalyzing")
               \/ Judge(m, "patchReview", "storeReview")
        BY <1>0, <2>1, LoneJudge DEF Asked, StoreOf
    <2>2. CASE Store(m, "storeAnalyzing", "putAnalysis") \/ Store(m, "storeReview", "idle")
        BY <1>0, <2>2, LoneStore DEF Written
    <2>3. ASSUME NEW expert \in BOOLEAN, PutAnalysis(m, expert, AfterAnalysis(expert))
          PROVE  LoneInv'
        BY <1>0, <1>2, <2>3 DEF AfterAnalysis, Written
    <2>4. CASE PutReview(m, "publishAnalysis")
        BY <1>0, <1>2, <2>4 DEF Written
    <2> QED BY <1>5, <2>1, <2>2, <2>3, <2>4 DEF Analyze
  <1>6. ASSUME NEW m \in Manager, ShowAnalysis(m) PROVE LoneInv'
      BY <1>0, <1>1, <1>6 DEF ShowAnalysis
  <1>7. ASSUME NEW m \in Manager, Approve(m) PROVE LoneInv'
    <2>1. CASE Judge(m, "patchApproved", "storeApproved")
        BY <1>0, <2>1, LoneJudge DEF Asked, StoreOf
    <2>2. CASE Store(m, "storeApproved", "idle")
        BY <1>0, <2>2, LoneStore DEF Written
    <2>3. CASE PutApproval(m, "publishDecision") \/ PutOrder(m, "publishOrder")
        BY <1>0, <1>2, <2>3 DEF Written
    <2>4. CASE \/ Publish(m, "publishDecision", AfterDecision(choice[m]))
               \/ Publish(m, "publishOrder", "patchApproved")
        BY <1>0, <1>1, <2>4 DEF AfterDecision
    <2> QED BY <1>7, <2>1, <2>2, <2>3, <2>4 DEF Approve
  <1>8. ASSUME NEW w \in FieldWorker, Incomplete(w) \/ \E o \in 1..Len(orders) : FillIn(w, o)
        PROVE  LoneInv'
      BY <1>0, <1>8, LoneSession DEF Incomplete, FillIn, Press, stored, Written
  <1>9. ASSUME NEW w \in FieldWorker, Work(w) PROVE LoneInv'
    <2>1. CASE Judge(w, "patchResolved", "storeResolved")
        BY <1>0, <2>1, LoneJudge DEF Asked, StoreOf
    <2>2. CASE Store(w, "storeResolved", "publishCompleted")
        BY <1>0, <2>2, LoneStore DEF Written
    <2>3. CASE Upload(w, "complete") \/ Complete(w, "patchResolved") \/ Feedback(w, "publishFeedback")
        BY <1>0, <1>3, <2>3 DEF Written
    <2>4. CASE Publish(w, "publishCompleted", "feedback") \/ Publish(w, "publishFeedback", "idle")
        BY <1>0, <1>1, <2>4
    <2> QED BY <1>9, <2>1, <2>2, <2>3, <2>4 DEF Work
  <1>10. ASSUME NEW u \in User, Goto(u, pc[u], "idle"), UNCHANGED stored PROVE LoneInv'
      BY <1>10, LoneSession DEF stored, Written
  <1>11. ASSUME NEW u \in User, CallFails(u) PROVE LoneInv'
    <2>1. ASSUME NEW from \in DOMAIN Asked, Asked[from] \in Allowed[status],
                 GiveUp(u, from, Asked[from])
          PROVE  LoneInv'
        BY <2>1, LoneGiveUp
    <2>2. ASSUME NEW from \in DOMAIN Written, GiveUp(u, from, Written[from]) PROVE LoneInv'
        BY <2>2, LoneGiveUp
    <2>3. "idle" \notin DOMAIN Written
        BY DEF Written
    <2> QED BY <1>1, <1>2, <1>3, <1>10, <1>11, <2>1, <2>2, <2>3 DEF CallFails
  <1>12. CASE UNCHANGED vars
      BY <1>12, LoneKept DEF vars, stored, Storing
  <1> QED BY <1>4, <1>5, <1>6, <1>7, <1>8, <1>9, <1>10, <1>11, <1>12, LoneDirectJudge,
             LoneDirectStore
          DEF Next, Rest, Refused, Conflict

\* work_order.completed and feedback follow a completion the incident service has
\* stored, and unless two PATCHes overlapped, the incident is resolved for good by it.
THEOREM CompletionsAccepted == Spec => []CompletionIsAccepted
  <1>1. Init => LoneInv
      BY DEF Init, LoneInv, LonePatch, Storing, Written
  <1>2. FlowInv /\ LoneInv => CompletionIsAccepted
    <2> SUFFICES ASSUME FlowInv, LoneInv, NEW o \in 1..Len(orders),
                        Sent("work_order.completed", o) \/ o \in feedback
                 PROVE  /\ orders[o].completed /\ o \in accepted
                        /\ overlapped \/ status = "resolved"
        BY DEF CompletionIsAccepted
    <2>1. orders[o].completed /\ o \in accepted
        BY DEF FlowInv, CompletionIsStored
    <2> QED BY <2>1 DEF LoneInv, LonePatch
  <1> QED BY <1>1, <1>2, Flow, LoneStep, PTL DEF Spec

-----------------------------------------------------------------------------
(* Decisions carried out.                                                  *)

\* What has not happened yet is the next call of some session.
AnalysisPending ==
    \A a \in 1..Len(analyses) :
        Sent("analysis.completed", a)
        \/ \E u \in User : pc[u] \in {"putReview", "publishAnalysis"} /\ item[u] = a

DecisionPending ==
    \A v \in 1..Len(approvals) :
        Sent("approval.decided", v) \/ \E u \in User : pc[u] = "publishDecision" /\ item[u] = v

OrderPending ==
    \A v \in 1..Len(approvals) :
        approvals[v].decision \in {"approve", "changes"} /\ Sent("approval.decided", v) =>
            \/ \E o \in 1..Len(orders) : orders[o].approval = v
            \/ \E u \in User : pc[u] = "putOrder" /\ item[u] = v

CreationPending ==
    \A o \in 1..Len(orders) :
        Sent("work_order.created", o) \/ \E u \in User : pc[u] = "publishOrder" /\ item[u] = o

\* An approval is at work in one session, until it has its order, and has one order.
OneOrderEach ==
    /\ \A u, v \in User :
        pc[u] \in {"publishDecision", "putOrder"} /\ pc[v] \in {"publishDecision", "putOrder"}
            => (item[u] = item[v] => u = v)
    /\ \A u \in User : pc[u] \in {"publishDecision", "putOrder"} =>
            \A o \in 1..Len(orders) : orders[o].approval # item[u]
    /\ \A o, q \in 1..Len(orders) : orders[o].approval = orders[q].approval => o = q

CarriedInv ==
    /\ OneOrderEach
    /\ faults = 0 => AnalysisPending /\ DecisionPending /\ OrderPending /\ CreationPending

\* What a step leaves pending stays pending, and is accounted for as before.
LEMMA AnalysisKept ==
    ASSUME AnalysisPending, UNCHANGED analyses, events \subseteq events',
           \A u \in User : pc[u] \in {"putReview", "publishAnalysis"} =>
                pc'[u] \in {"putReview", "publishAnalysis"} /\ item'[u] = item[u]
    PROVE  AnalysisPending'
    BY DEF AnalysisPending, Sent

LEMMA DecisionKept ==
    ASSUME DecisionPending, UNCHANGED approvals, events \subseteq events',
           \A u \in User : pc[u] = "publishDecision" => pc'[u] = pc[u] /\ item'[u] = item[u]
    PROVE  DecisionPending'
    BY DEF DecisionPending, Sent

\* Orders keep their approvals; completion is another matter.
SameOrders ==
    /\ Len(orders') = Len(orders)
    /\ \A o \in 1..Len(orders) : orders'[o].approval = orders[o].approval

LEMMA OrderKept ==
    ASSUME OrderPending, UNCHANGED approvals, SameOrders,
           \A v : Sent("approval.decided", v)' => Sent("approval.decided", v),
           \A u \in User : pc[u] = "putOrder" => pc'[u] = pc[u] /\ item'[u] = item[u]
    PROVE  OrderPending'
    BY DEF OrderPending, SameOrders

LEMMA CreationKept ==
    ASSUME CreationPending, SameOrders, events \subseteq events',
           \A u \in User : pc[u] = "publishOrder" => pc'[u] = pc[u] /\ item'[u] = item[u]
    PROVE  CreationPending'
    BY DEF CreationPending, SameOrders, Sent

LEMMA OneOrderKept ==
    ASSUME OneOrderEach, SameOrders,
           \A u \in User : pc'[u] \in {"publishDecision", "putOrder"} =>
                pc[u] \in {"publishDecision", "putOrder"} /\ item'[u] = item[u]
    PROVE  OneOrderEach'
    BY DEF OneOrderEach, SameOrders

\* The calls that leave an analysis, a decision or an order to be announced or
\* followed, and what a step does to the other sessions' calls.
Pending == {"putReview", "publishAnalysis", "publishDecision", "putOrder", "publishOrder"}

Elsewhere(u) == \A v \in User \ {u} : pc'[v] = pc[v] /\ item'[v] = item[v]

\* A step that leaves those calls alone.
LEMMA Bystander ==
    ASSUME CarriedInv, UNCHANGED <<analyses, approvals>>, SameOrders, events \subseteq events',
           \A v : Sent("approval.decided", v)' => Sent("approval.decided", v),
           faults' = 0 => faults = 0,
           \A u \in User : pc[u] \in Pending \/ pc'[u] \in Pending =>
                pc'[u] = pc[u] /\ item'[u] = item[u]
    PROVE  CarriedInv'
  <1>1. \A u \in User :
            /\ pc[u] \in {"putReview", "publishAnalysis"} =>
                    pc'[u] \in {"putReview", "publishAnalysis"} /\ item'[u] = item[u]
            /\ pc[u] \in {"publishDecision", "putOrder", "publishOrder"} =>
                    pc'[u] = pc[u] /\ item'[u] = item[u]
            /\ pc'[u] \in {"publishDecision", "putOrder"} =>
                    pc[u] \in {"publishDecision", "putOrder"} /\ item'[u] = item[u]
      BY DEF Pending
  <1>2. OneOrderEach'
      BY <1>1, OneOrderKept DEF CarriedInv
  <1>3. ASSUME faults' = 0
        PROVE  AnalysisPending' /\ DecisionPending' /\ OrderPending' /\ CreationPending'
      BY <1>1, <1>3, AnalysisKept, DecisionKept, OrderKept, CreationKept DEF CarriedInv
  <1> QED BY <1>2, <1>3 DEF CarriedInv

\* A session between two of those calls, or none, whose step stores no record
\* and announces none of them.
LEMMA QuietSession ==
    ASSUME CarriedInv, NEW u \in User, Elsewhere(u), pc[u] \notin Pending, pc'[u] \notin Pending,
           UNCHANGED <<analyses, approvals>>, SameOrders, events \subseteq events',
           \A v : Sent("approval.decided", v)' => Sent("approval.decided", v),
           faults' = 0 => faults = 0
    PROVE  CarriedInv'
  <1>1. \A v \in User : pc[v] \in Pending \/ pc'[v] \in Pending =>
                pc'[v] = pc[v] /\ item'[v] = item[v]
      BY DEF Elsewhere
  <1> QED BY <1>1, Bystander

\* An analysis is stored: its review case or its announcement is next.
LEMMA CarryPutAnalysis ==
    ASSUME FlowInv, CarriedInv, NEW u \in User, NEW expert \in BOOLEAN, NEW to, to \notin {"publishDecision", "putOrder"},
           PutAnalysis(u, expert, to), faults' = 0 => faults = 0 /\ to = AfterAnalysis(expert)
    PROVE  CarriedInv'
  <1>1. /\ pc[u] = "putAnalysis" /\ pc'[u] = to /\ Elsewhere(u)
        /\ UNCHANGED <<approvals, orders, events>>
        /\ analyses' = Append(analyses, [expert |-> expert])
        /\ item'[u] = Len(analyses')
      BY DEF FlowInv, TypeOK, incident, PutAnalysis, Goto, Elsewhere, workTable
  <1>2. Len(analyses) \in Nat /\ Len(analyses') = Len(analyses) + 1
      BY <1>1, AppendProperties, LenProperties DEF FlowInv, TypeOK
  <1>3. SameOrders /\ \A v : Sent("approval.decided", v)' => Sent("approval.decided", v)
      BY <1>1 DEF SameOrders, Sent
  <1>4. \A v \in User : pc[v] \in Pending => v # u /\ pc'[v] = pc[v] /\ item'[v] = item[v]
      BY <1>1 DEF Elsewhere, Pending
  <1>5. OneOrderEach'
      BY <1>1, <1>3, OneOrderKept DEF CarriedInv, Elsewhere
  <1>6. ASSUME faults' = 0
        PROVE  AnalysisPending' /\ DecisionPending' /\ OrderPending' /\ CreationPending'
    <2>1. AnalysisPending /\ DecisionPending /\ OrderPending /\ CreationPending
        BY <1>6 DEF CarriedInv
    <2>2. DecisionPending' /\ OrderPending' /\ CreationPending'
        BY <1>1, <1>3, <1>4, <2>1, DecisionKept, OrderKept, CreationKept DEF Pending
    <2>3. to \in {"putReview", "publishAnalysis"}
        BY <1>6 DEF AfterAnalysis
    <2>4. \A a \in 1..Len(analyses) : Sent("analysis.completed", a)'
            \/ \E v \in User : pc'[v] \in {"putReview", "publishAnalysis"} /\ item'[v] = a
      <3> SUFFICES ASSUME NEW a \in 1..Len(analyses), ~Sent("analysis.completed", a)'
                   PROVE  \E v \in User : pc'[v] \in {"putReview", "publishAnalysis"} /\ item'[v] = a
          OBVIOUS
      <3>1. PICK v \in User : pc[v] \in {"putReview", "publishAnalysis"} /\ item[v] = a
          BY <1>1, <2>1 DEF AnalysisPending, Sent
      <3> QED BY <1>4, <3>1 DEF Pending
    <2>5. \A a \in 1..Len(analyses') : a \in 1..Len(analyses) \/ a = item'[u]
        BY <1>1, <1>2
    <2>6. AnalysisPending'
        BY <1>1, <2>3, <2>4, <2>5 DEF AnalysisPending
    <2> QED BY <2>2, <2>6
  <1> QED BY <1>5, <1>6 DEF CarriedInv

\* Its review case is stored: its announcement is next.
LEMMA CarryPutReview ==
    ASSUME FlowInv, CarriedInv, NEW u \in User, NEW to, to \notin {"publishDecision", "putOrder"},
           PutReview(u, to), faults' = 0 => faults = 0 /\ to = "publishAnalysis"
    PROVE  CarriedInv'
  <1>1. /\ pc[u] = "putReview" /\ pc'[u] = to /\ Elsewhere(u)
        /\ UNCHANGED <<analyses, approvals, orders, events, item>>
      BY DEF FlowInv, TypeOK, incident, PutReview, Goto, Elsewhere, workTable
  <1>2. SameOrders /\ \A v : Sent("approval.decided", v)' => Sent("approval.decided", v)
      BY <1>1 DEF SameOrders, Sent
  <1>3. OneOrderEach'
      BY <1>1, <1>2, OneOrderKept DEF CarriedInv, Elsewhere
  <1>4. ASSUME faults' = 0
        PROVE  AnalysisPending' /\ DecisionPending' /\ OrderPending' /\ CreationPending'
    <2>1. \A v \in User : /\ pc[v] \in {"putReview", "publishAnalysis"} =>
                                pc'[v] \in {"putReview", "publishAnalysis"} /\ item'[v] = item[v]
                          /\ pc[v] \in {"publishDecision", "putOrder", "publishOrder"} =>
                                pc'[v] = pc[v] /\ item'[v] = item[v]
        BY <1>1, <1>4 DEF Elsewhere
    <2> QED BY <1>1, <1>2, <1>4, <2>1, AnalysisKept, DecisionKept, OrderKept, CreationKept
            DEF CarriedInv
  <1> QED BY <1>3, <1>4 DEF CarriedInv

\* An approval is stored: its announcement is next, and no order follows it yet.
LEMMA CarryPutApproval ==
    ASSUME FlowInv, CarriedInv, NEW u \in User, NEW to \in {"idle", "publishDecision"},
           PutApproval(u, to), faults' = 0 => faults = 0 /\ to = "publishDecision"
    PROVE  CarriedInv'
  <1> DEFINE n == Len(approvals) + 1
  <1>1. /\ pc[u] = "putApproval" /\ pc'[u] = to /\ Elsewhere(u)
        /\ UNCHANGED <<analyses, orders, events>>
        /\ approvals' = Append(approvals, [analysis |-> plan[u], decision |-> choice[u]])
        /\ item'[u] = Len(approvals')
      BY DEF FlowInv, TypeOK, incident, PutApproval, Goto, Elsewhere, analysisTable
  <1>2. u \in Manager
      BY <1>1 DEF FlowInv, Holds, User, WorkerCall
  <1>3. [analysis |-> plan[u], decision |-> choice[u]] \in [analysis : 1..Len(analyses), decision : Decision]
    <2>1. plan[u] \in 1..Len(analyses) /\ choice[u] \in Decision
        BY <1>1, <1>2 DEF FlowInv, TypeOK, Holds
    <2> QED BY <2>1
  <1>4. /\ Len(approvals) \in Nat /\ Len(approvals') = n /\ item'[u] = n
        /\ \A v \in 1..Len(approvals) : approvals'[v] = approvals[v]
      BY <1>1, <1>3, AppendProperties, LenProperties DEF FlowInv, TypeOK
  <1>5. /\ \A o \in 1..Len(orders) : orders[o].approval \in 1..Len(approvals)
        /\ \A v \in User : pc[v] \in {"publishDecision", "putOrder"} => item[v] \in 1..Len(approvals)
        /\ \A v : Sent("approval.decided", v) => v \in 1..Len(approvals)
    <2>1. \A v : Sent("approval.decided", v) => v \in 1..Len(approvals)
        BY DEF FlowInv, TypeOK, Sent
    <2> QED BY <2>1, OrderTyped DEF FlowInv, Holds
  <1>6. n \notin 1..Len(approvals) /\ \A v \in 1..Len(approvals') : v = n \/ v \in 1..Len(approvals)
      BY <1>4
  <1> HIDE DEF n
  <1>7. \A v \in User : pc[v] \in Pending => v # u /\ pc'[v] = pc[v] /\ item'[v] = item[v]
      BY <1>1 DEF Elsewhere, Pending
  <1>8. SameOrders /\ \A v : Sent("approval.decided", v)' <=> Sent("approval.decided", v)
      BY <1>1 DEF SameOrders, Sent
  <1>9. OneOrderEach'
    <2>1. ASSUME NEW v \in User, pc'[v] \in {"publishDecision", "putOrder"}
          PROVE  \/ v = u /\ item'[v] = n
                 \/ v # u /\ pc[v] \in {"publishDecision", "putOrder"} /\ item'[v] = item[v]
                      /\ item'[v] # n
        BY <1>1, <1>4, <1>5, <1>6, <2>1 DEF Elsewhere
    <2>2. \A o \in 1..Len(orders) : orders[o].approval # n
        BY <1>5, <1>6
    <2>3. ASSUME NEW v \in User, NEW x \in User, pc'[v] \in {"publishDecision", "putOrder"},
                 pc'[x] \in {"publishDecision", "putOrder"}, item'[v] = item'[x]
          PROVE  v = x
        BY <2>1, <2>3 DEF CarriedInv, OneOrderEach
    <2>4. ASSUME NEW v \in User, pc'[v] \in {"publishDecision", "putOrder"}, NEW o \in 1..Len(orders)
          PROVE  orders[o].approval # item'[v]
        BY <2>1, <2>2, <2>4 DEF CarriedInv, OneOrderEach
    <2> QED BY <1>1, <2>3, <2>4 DEF CarriedInv, OneOrderEach
  <1>10. ASSUME faults' = 0
         PROVE  AnalysisPending' /\ DecisionPending' /\ OrderPending' /\ CreationPending'
    <2>1. AnalysisPending /\ DecisionPending /\ OrderPending /\ CreationPending
        BY <1>10 DEF CarriedInv
    <2>2. AnalysisPending' /\ CreationPending'
        BY <1>1, <1>7, <1>8, <2>1, AnalysisKept, CreationKept DEF Pending
    <2>3. DecisionPending'
      <3>1. ASSUME NEW v \in 1..Len(approvals)
            PROVE  Sent("approval.decided", v)' \/ \E x \in User : pc'[x] = "publishDecision" /\ item'[x] = v
          BY <1>7, <1>8, <2>1 DEF DecisionPending, Pending
      <3>2. pc'[u] = "publishDecision" /\ item'[u] = n
          BY <1>1, <1>4, <1>10
      <3> QED BY <1>6, <3>1, <3>2 DEF DecisionPending
    <2>4. OrderPending'
      <3> SUFFICES ASSUME NEW v \in 1..Len(approvals'), Sent("approval.decided", v)',
                          approvals'[v].decision \in {"approve", "changes"}
                   PROVE  \/ \E o \in 1..Len(orders') : orders'[o].approval = v
                          \/ \E x \in User : pc'[x] = "putOrder" /\ item'[x] = v
          BY DEF OrderPending
      <3>1. v \in 1..Len(approvals) /\ approvals[v] = approvals'[v]
          BY <1>4, <1>5, <1>8
      <3> QED BY <1>1, <1>7, <1>8, <2>1, <3>1 DEF OrderPending, Pending
    <2> QED BY <2>2, <2>3, <2>4
  <1> QED BY <1>9, <1>10 DEF CarriedInv

\* A work order is stored: its announcement is next, and its approval is done.
LEMMA CarryPutOrder ==
    ASSUME FlowInv, CarriedInv, NEW u \in User, NEW to \in {"idle", "publishOrder"},
           PutOrder(u, to), faults' = 0 => faults = 0 /\ to = "publishOrder"
    PROVE  CarriedInv'
  <1> DEFINE n == Len(orders) + 1
  <1>1. /\ pc[u] = "putOrder" /\ pc'[u] = to /\ Elsewhere(u)
        /\ UNCHANGED <<analyses, approvals, events>>
        /\ orders' = Append(orders, [approval |-> item[u], completed |-> FALSE])
        /\ item'[u] = Len(orders')
      BY DEF FlowInv, TypeOK, incident, PutOrder, Goto, Elsewhere, analysisTable
  <1>2. item[u] \in 1..Len(approvals) /\ \A o \in 1..Len(orders) : orders[o].approval # item[u]
      BY <1>1 DEF FlowInv, Holds, CarriedInv, OneOrderEach
  <1>3. /\ Len(orders) \in Nat /\ Len(orders') = n /\ item'[u] = n
        /\ \A o \in 1..Len(orders) : orders'[o] = orders[o]
        /\ orders'[n].approval = item[u]
      BY <1>1, <1>2, AppendProperties, LenProperties DEF FlowInv, TypeOK
  <1>4. /\ n \in 1..Len(orders') /\ \A o \in 1..Len(orders) : o \in 1..Len(orders')
        /\ \A o \in 1..Len(orders') : o = n \/ o \in 1..Len(orders)
      BY <1>3
  <1> HIDE DEF n
  <1>5. \A v \in User : pc[v] \in Pending \ {"putOrder"} =>
            v # u /\ pc'[v] = pc[v] /\ item'[v] = item[v]
      BY <1>1 DEF Elsewhere, Pending
  <1>6. \A t, i : Sent(t, i)' <=> Sent(t, i)
      BY <1>1 DEF Sent
  <1>7. OneOrderEach'
    <2>1. ASSUME NEW v \in User, pc'[v] \in {"publishDecision", "putOrder"}
          PROVE  /\ pc[v] \in {"publishDecision", "putOrder"} /\ item'[v] = item[v]
                 /\ item'[v] # item[u]
        BY <1>1, <2>1 DEF Elsewhere, CarriedInv, OneOrderEach
    <2>2. ASSUME NEW v \in User, NEW x \in User, pc'[v] \in {"publishDecision", "putOrder"},
                 pc'[x] \in {"publishDecision", "putOrder"}, item'[v] = item'[x]
          PROVE  v = x
        BY <2>1, <2>2 DEF CarriedInv, OneOrderEach
    <2>3. ASSUME NEW v \in User, pc'[v] \in {"publishDecision", "putOrder"},
                 NEW o \in 1..Len(orders')
          PROVE  orders'[o].approval # item'[v]
        BY <1>3, <1>4, <2>1, <2>3 DEF CarriedInv, OneOrderEach
    <2>4. ASSUME NEW o \in 1..Len(orders'), NEW q \in 1..Len(orders'),
                 orders'[o].approval = orders'[q].approval
          PROVE  o = q
        BY <1>2, <1>3, <1>4, <2>4 DEF CarriedInv, OneOrderEach
    <2> QED BY <2>2, <2>3, <2>4 DEF OneOrderEach
  <1>8. ASSUME faults' = 0
        PROVE  AnalysisPending' /\ DecisionPending' /\ OrderPending' /\ CreationPending'
    <2>1. AnalysisPending /\ DecisionPending /\ OrderPending /\ CreationPending
        BY <1>8 DEF CarriedInv
    <2>2. AnalysisPending' /\ DecisionPending'
        BY <1>1, <1>5, <2>1, AnalysisKept, DecisionKept DEF Pending
    <2>3. OrderPending'
      <3> SUFFICES ASSUME NEW v \in 1..Len(approvals), Sent("approval.decided", v),
                          approvals[v].decision \in {"approve", "changes"}
                   PROVE  \/ \E o \in 1..Len(orders') : orders'[o].approval = v
                          \/ \E x \in User : pc'[x] = "putOrder" /\ item'[x] = v
          BY <1>1, <1>6 DEF OrderPending
      <3>1. CASE v = item[u]
          BY <1>3, <1>4, <3>1
      <3>2. CASE v # item[u]
        <4>1. CASE \E o \in 1..Len(orders) : orders[o].approval = v
            BY <1>3, <1>4, <4>1
        <4>2. CASE \E x \in User : pc[x] = "putOrder" /\ item[x] = v
            BY <1>1, <3>2, <4>2 DEF Elsewhere
        <4> QED BY <2>1, <4>1, <4>2 DEF OrderPending
      <3> QED BY <3>1, <3>2
    <2>4. CreationPending'
      <3>1. pc'[u] = "publishOrder" /\ item'[u] = n
          BY <1>1, <1>3, <1>8
      <3>2. ASSUME NEW o \in 1..Len(orders)
            PROVE  Sent("work_order.created", o)' \/ \E x \in User : pc'[x] = "publishOrder" /\ item'[x] = o
          BY <1>5, <1>6, <2>1 DEF CreationPending, Pending
      <3> QED BY <1>4, <3>1, <3>2 DEF CreationPending
    <2> QED BY <2>2, <2>3, <2>4
  <1> QED BY <1>7, <1>8 DEF CarriedInv

\* An announcement: the record is not pending any more, and an approval that
\* lets an order through has it next.
LEMMA CarryPublish ==
    ASSUME FlowInv, CarriedInv, NEW u \in User, NEW from \in DOMAIN EventOf, NEW to, to \notin {"publishDecision"},
           Publish(u, from, to), to = "putOrder" => from = "publishDecision",
           to \in Pending => to = "putOrder",
           faults' = 0 => faults = 0 /\ (from = "publishDecision" => to = AfterDecision(choice[u]))
    PROVE  CarriedInv'
  <1>1. /\ Holds(u) /\ pc[u] = from /\ pc'[u] = to /\ Elsewhere(u)
        /\ UNCHANGED <<analyses, approvals, orders, item>>
        /\ events' = events \cup {<<EventOf[from], item[u]>>}
      BY DEF FlowInv, TypeOK, incident, Publish, Goto, Elsewhere, analysisTable, workTable
  <1>2. from \in {"publishAnalysis", "publishDecision", "publishOrder", "publishCompleted", "publishFeedback"}
      BY DEF EventOf
  <1>3. SameOrders /\ events \subseteq events'
      BY <1>1 DEF SameOrders
  <1>4. \A v \in User : v # u /\ pc[v] \in Pending => pc'[v] = pc[v] /\ item'[v] = item[v]
      BY <1>1 DEF Elsewhere
  <1>5. Sent(EventOf[from], item[u])' /\ \A t, i : Sent(t, i) => Sent(t, i)'
      BY <1>1 DEF Sent
  <1>6. \A v : Sent("approval.decided", v)' =>
            Sent("approval.decided", v) \/ (from = "publishDecision" /\ v = item[u])
    <2>1. from # "publishDecision" => EventOf[from] # "approval.decided"
        BY <1>2 DEF EventOf
    <2> QED BY <1>1, <2>1 DEF Sent
  <1>7. OneOrderEach'
    <2>1. \A v \in User : pc'[v] \in {"publishDecision", "putOrder"} =>
                pc[v] \in {"publishDecision", "putOrder"} /\ item'[v] = item[v]
        BY <1>1 DEF Elsewhere
    <2> QED BY <1>3, <2>1, OneOrderKept DEF CarriedInv
  <1>8. ASSUME faults' = 0
        PROVE  AnalysisPending' /\ DecisionPending' /\ OrderPending' /\ CreationPending'
    <2>1. AnalysisPending /\ DecisionPending /\ OrderPending /\ CreationPending
        BY <1>8 DEF CarriedInv
    <2>2. AnalysisPending'
      <3> SUFFICES ASSUME NEW a \in 1..Len(analyses), ~Sent("analysis.completed", a)'
                   PROVE  \E v \in User : pc'[v] \in {"putReview", "publishAnalysis"} /\ item'[v] = a
          BY <1>1 DEF AnalysisPending
      <3>1. PICK v \in User : pc[v] \in {"putReview", "publishAnalysis"} /\ item[v] = a
          BY <1>5, <2>1 DEF AnalysisPending
      <3>2. v # u
        <4>1. pc[u] \in {"putReview", "publishAnalysis"} => EventOf[from] = "analysis.completed"
            BY <1>1, <1>2 DEF EventOf
        <4> QED BY <1>1, <3>1, <4>1 DEF Sent
      <3> QED BY <1>4, <3>1, <3>2 DEF Pending
    <2>3. DecisionPending'
      <3> SUFFICES ASSUME NEW a \in 1..Len(approvals), ~Sent("approval.decided", a)'
                   PROVE  \E v \in User : pc'[v] = "publishDecision" /\ item'[v] = a
          BY <1>1 DEF DecisionPending
      <3>1. PICK v \in User : pc[v] = "publishDecision" /\ item[v] = a
          BY <1>5, <2>1 DEF DecisionPending
      <3>2. v # u
        <4>1. pc[u] = "publishDecision" => EventOf[from] = "approval.decided"
            BY <1>1 DEF EventOf
        <4> QED BY <1>1, <3>1, <4>1 DEF Sent
      <3> QED BY <1>4, <3>1, <3>2 DEF Pending
    <2>4. CreationPending'
      <3> SUFFICES ASSUME NEW a \in 1..Len(orders), ~Sent("work_order.created", a)'
                   PROVE  \E v \in User : pc'[v] = "publishOrder" /\ item'[v] = a
          BY <1>1 DEF CreationPending
      <3>1. PICK v \in User : pc[v] = "publishOrder" /\ item[v] = a
          BY <1>5, <2>1 DEF CreationPending
      <3>2. v # u
        <4>1. pc[u] = "publishOrder" => EventOf[from] = "work_order.created"
            BY <1>1 DEF EventOf
        <4> QED BY <1>1, <3>1, <4>1 DEF Sent
      <3> QED BY <1>4, <3>1, <3>2 DEF Pending
    <2>5. OrderPending'
      <3> SUFFICES ASSUME NEW a \in 1..Len(approvals), Sent("approval.decided", a)',
                          approvals[a].decision \in {"approve", "changes"}
                   PROVE  \/ \E o \in 1..Len(orders) : orders[o].approval = a
                          \/ \E v \in User : pc'[v] = "putOrder" /\ item'[v] = a
          BY <1>1 DEF OrderPending
      <3>1. CASE from = "publishDecision" /\ a = item[u]
        <4>1. choice[u] \in {"approve", "changes"}
            BY <1>1, <3>1 DEF Holds
        <4>2. pc'[u] = "putOrder"
            BY <1>1, <1>8, <3>1, <4>1 DEF AfterDecision
        <4> QED BY <1>1, <3>1, <4>2
      <3>2. CASE Sent("approval.decided", a)
        <4>1. pc[u] # "putOrder"
            BY <1>1, <1>2
        <4> QED BY <1>4, <2>1, <3>2, <4>1 DEF OrderPending, Pending
      <3> QED BY <1>6, <3>1, <3>2
    <2> QED BY <2>2, <2>3, <2>4, <2>5
  <1> QED BY <1>7, <1>8 DEF CarriedInv

LEMMA CarriedInit == Init => CarriedInv
    BY DEF Init, CarriedInv, OneOrderEach, AnalysisPending, DecisionPending, OrderPending,
           CreationPending

\* A call that reaches neither of the pending ones, answered or failing.
LEMMA CarryOther ==
    ASSUME FlowInv, CarriedInv, NEW u \in User, NEW to, to \notin Pending, faults' = 0 => faults = 0,
           \/ \E from \in DOMAIN Asked : Judge(u, from, to) \/ GiveUp(u, from, Asked[from])
           \/ \E from \in DOMAIN Written : Store(u, from, to) \/ GiveUp(u, from, Written[from])
           \/ Upload(u, to) \/ Complete(u, to) \/ Feedback(u, to)
    PROVE  CarriedInv'
  <1>1. /\ Elsewhere(u) /\ pc'[u] \notin Pending /\ pc[u] \notin Pending
        /\ UNCHANGED <<analyses, approvals, events>>
    <2>1. CASE Upload(u, to) \/ Complete(u, to) \/ Feedback(u, to)
        BY <2>1 DEF FlowInv, TypeOK, Upload, Complete, Feedback, Goto, Elsewhere, Pending,
                    analysisTable, workTable
    <2>2. ASSUME NEW from \in DOMAIN Asked, Judge(u, from, to) \/ GiveUp(u, from, Asked[from])
          PROVE  /\ Elsewhere(u) /\ pc'[u] \notin Pending /\ pc[u] \notin Pending
                 /\ UNCHANGED <<analyses, approvals, events>>
        BY <2>2 DEF FlowInv, TypeOK, Judge, GiveUp, Goto, Elsewhere, Asked, Pending,
                    analysisTable, workTable
    <2>3. ASSUME NEW from \in DOMAIN Written, Store(u, from, to) \/ GiveUp(u, from, Written[from])
          PROVE  /\ Elsewhere(u) /\ pc'[u] \notin Pending /\ pc[u] \notin Pending
                 /\ UNCHANGED <<analyses, approvals, events>>
        BY <2>3 DEF FlowInv, TypeOK, Store, GiveUp, Goto, Elsewhere, Written, Pending,
                    analysisTable, workTable
    <2> QED BY <2>1, <2>2, <2>3
  <1>2. SameOrders
    <2>1. CASE UNCHANGED orders
        BY <2>1 DEF SameOrders
    <2>2. CASE Complete(u, to)
      <3>1. item[u] \in 1..Len(orders)
          BY <2>2 DEF FlowInv, Holds, Complete, Goto, WorkerCall
      <3>2. orders \in Seq([approval : 1..Len(approvals), completed : BOOLEAN])
          BY DEF FlowInv, TypeOK
      <3>3. orders' = [orders EXCEPT ![item[u]] = [orders[item[u]] EXCEPT !.completed = TRUE]]
          BY <2>2 DEF Complete
      <3>4. [orders[item[u]] EXCEPT !.completed = TRUE].approval = orders[item[u]].approval
            /\ [orders[item[u]] EXCEPT !.completed = TRUE]
                  \in [approval : 1..Len(approvals), completed : BOOLEAN]
          BY <3>1, OrderTyped
      <3> DEFINE new == [orders[item[u]] EXCEPT !.completed = TRUE]
      <3>5. orders' = [orders EXCEPT ![item[u]] = new] /\ new.approval = orders[item[u]].approval
            /\ new \in [approval : 1..Len(approvals), completed : BOOLEAN]
          BY <3>3, <3>4
      <3> HIDE DEF new
      <3>6. Len(orders') = Len(orders)
          BY <3>1, <3>2, <3>5, ExceptSeq
      <3>7. \A o \in 1..Len(orders) : orders'[o] = IF o = item[u] THEN new ELSE orders[o]
          BY <3>2, <3>5, LenProperties
      <3> QED BY <3>5, <3>6, <3>7 DEF SameOrders
    <2> QED BY <2>1, <2>2 DEF Judge, Store, GiveUp, Upload, Feedback, workTable
  <1>3. \A v : Sent("approval.decided", v)' => Sent("approval.decided", v)
      BY <1>1 DEF Sent
  <1> QED BY <1>1, <1>2, <1>3, QuietSession

\* CarriedInv is inductive.
LEMMA CarriedStep == FlowInv /\ CarriedInv /\ [Next]_vars => CarriedInv'
  <1> SUFFICES ASSUME FlowInv, CarriedInv, [Next]_vars PROVE CarriedInv'
      OBVIOUS
  <1>0. /\ TypeOK /\ \A u \in User : Holds(u)
        /\ Manager \subseteq User /\ FieldWorker \subseteq User /\ faults \in Nat
    <2>1. TypeOK /\ \A u \in User : Holds(u)
        BY DEF FlowInv
    <2>2. faults \in Nat
        BY <2>1, ResponseAssumption DEF TypeOK, ResponseAssumption
    <2> QED BY <2>1, <2>2 DEF User
  <1>1. ASSUME NEW u \in User, UNCHANGED stored, faults' = 0 => faults = 0, Elsewhere(u),
               pc[u] \notin Pending, pc'[u] \notin Pending
        PROVE  CarriedInv'
    <2>1. SameOrders /\ UNCHANGED <<analyses, approvals, events>>
          /\ \A v : Sent("approval.decided", v)' => Sent("approval.decided", v)
        BY <1>1 DEF stored, analysisTable, workTable, SameOrders, Sent
    <2> QED BY <1>1, <2>1, QuietSession
  <1>2. ASSUME NEW m \in Manager, Open(m) \/ RunAnalysis(m) \/ \E d \in Decision : Decide(m, d)
        PROVE  CarriedInv'
    <2>1. /\ UNCHANGED stored /\ UNCHANGED <<faults, item>> /\ pc[m] \notin Pending /\ pc'[m] \notin Pending
          /\ \A v \in User \ {m} : pc'[v] = pc[v]
        BY <1>0, <1>2 DEF Open, RunAnalysis, Decide, Press, Goto, Pending, TypeOK
    <2> QED BY <1>0, <1>1, <2>1 DEF Elsewhere
  <1>3. ASSUME NEW w \in FieldWorker, Incomplete(w) \/ \E o \in 1..Len(orders) : FillIn(w, o)
        PROVE  CarriedInv'
    <2>1. /\ UNCHANGED stored /\ UNCHANGED faults /\ pc[w] \notin Pending /\ pc'[w] \notin Pending
          /\ Elsewhere(w)
        BY <1>0, <1>3 DEF Incomplete, FillIn, Press, Goto, Pending, Elsewhere, TypeOK
    <2> QED BY <1>0, <1>1, <2>1
  <1>4. ASSUME NEW u \in User, Refused(u) \/ Conflict(u) PROVE CarriedInv'
    <2>1. /\ UNCHANGED stored /\ UNCHANGED faults /\ pc[u] \notin Pending /\ pc'[u] \notin Pending
          /\ Elsewhere(u)
        BY <1>0, <1>4 DEF Refused, Conflict, Asked, Written, Goto, Pending, Elsewhere, TypeOK
    <2> QED BY <1>1, <2>1
  <1>5. ASSUME NEW m \in Manager, Analyze(m) PROVE CarriedInv'
    <2>1. UNCHANGED faults /\ m \in User
        BY <1>0, <1>5 DEF Analyze
    <2>2. ASSUME NEW from \in DOMAIN Asked, NEW to \in {"storeAnalyzing", "storeReview"},
                 Judge(m, from, to)
          PROVE  CarriedInv'
      <3>1. to \notin Pending
          BY DEF Pending
      <3> QED BY <2>1, <2>2, <3>1, CarryOther
    <2>2a. ASSUME NEW from \in DOMAIN Written, NEW to \in {"putAnalysis", "idle"},
                  Store(m, from, to)
           PROVE  CarriedInv'
      <3>1. to \notin Pending
          BY DEF Pending
      <3> QED BY <2>1, <2>2a, <3>1, CarryOther
    <2>3. ASSUME NEW expert \in BOOLEAN, PutAnalysis(m, expert, AfterAnalysis(expert))
          PROVE  CarriedInv'
        BY <1>0, <2>1, <2>3, CarryPutAnalysis DEF AfterAnalysis
    <2>4. CASE PutReview(m, "publishAnalysis")
        BY <1>0, <2>1, <2>4, CarryPutReview
    <2> QED BY <1>5, <2>2, <2>2a, <2>3, <2>4 DEF Analyze, Asked, Written
  <1>6. ASSUME NEW m \in Manager, ShowAnalysis(m) PROVE CarriedInv'
      BY <1>0, <1>6, CarryPublish DEF ShowAnalysis, EventOf, Pending
  <1>7. ASSUME NEW m \in Manager, Approve(m) PROVE CarriedInv'
    <2>1. UNCHANGED faults
        BY <1>7 DEF Approve
    <2>2. CASE PutApproval(m, "publishDecision")
        BY <1>0, <2>1, <2>2, CarryPutApproval
    <2>3. CASE Publish(m, "publishDecision", AfterDecision(choice[m]))
        BY <1>0, <2>1, <2>3, CarryPublish DEF AfterDecision, EventOf, Pending
    <2>4. CASE PutOrder(m, "publishOrder")
        BY <1>0, <2>1, <2>4, CarryPutOrder
    <2>5. CASE Publish(m, "publishOrder", "patchApproved")
        BY <1>0, <2>1, <2>5, CarryPublish DEF EventOf, Pending
    <2>6. CASE Judge(m, "patchApproved", "storeApproved")
      <3>1. "patchApproved" \in DOMAIN Asked /\ "storeApproved" \notin Pending
          BY DEF Asked, Pending
      <3> QED BY <1>0, <2>1, <2>6, <3>1, CarryOther
    <2>7. CASE Store(m, "storeApproved", "idle")
      <3>1. "storeApproved" \in DOMAIN Written /\ "idle" \notin Pending
          BY DEF Written, Pending
      <3> QED BY <1>0, <2>1, <2>7, <3>1, CarryOther
    <2> QED BY <1>7, <2>2, <2>3, <2>4, <2>5, <2>6, <2>7 DEF Approve
  <1>8. ASSUME NEW w \in FieldWorker, Work(w) PROVE CarriedInv'
    <2>1. UNCHANGED faults
        BY <1>8 DEF Work
    <2>2. CASE Upload(w, "complete") \/ Complete(w, "patchResolved") \/ Feedback(w, "publishFeedback")
        BY <1>0, <2>1, <2>2, CarryOther DEF Pending
    <2>2a. CASE Judge(w, "patchResolved", "storeResolved")
      <3>1. "patchResolved" \in DOMAIN Asked /\ "storeResolved" \notin Pending
          BY DEF Asked, Pending
      <3> QED BY <1>0, <2>1, <2>2a, <3>1, CarryOther
    <2>2b. CASE Store(w, "storeResolved", "publishCompleted")
      <3>1. "storeResolved" \in DOMAIN Written /\ "publishCompleted" \notin Pending
          BY DEF Written, Pending
      <3> QED BY <1>0, <2>1, <2>2b, <3>1, CarryOther
    <2>3. CASE Publish(w, "publishCompleted", "feedback") \/ Publish(w, "publishFeedback", "idle")
        BY <1>0, <2>1, <2>3, CarryPublish DEF EventOf, Pending
    <2> QED BY <1>8, <2>2, <2>2a, <2>2b, <2>3 DEF Work
  <1>9. ASSUME NEW u \in User, CallFails(u) PROVE CarriedInv'
    <2>1. faults' # 0
        BY <1>0, <1>9 DEF CallFails
    <2>2. CASE Goto(u, pc[u], "idle") /\ UNCHANGED <<stored, item>>
      <3>1. SameOrders
          BY <2>2 DEF stored, workTable, SameOrders
      <3>2. \A v \in User : pc'[v] \in {"publishDecision", "putOrder"} =>
                pc[v] \in {"publishDecision", "putOrder"} /\ item'[v] = item[v]
          BY <1>0, <2>2 DEF Goto, TypeOK
      <3> QED BY <2>1, <3>1, <3>2, OneOrderKept DEF CarriedInv
    <2>3. CASE \/ \E from \in DOMAIN Asked : GiveUp(u, from, Asked[from])
               \/ \E from \in DOMAIN Written : GiveUp(u, from, Written[from])
        BY <2>1, <2>3, CarryOther DEF Pending
    <2>4. ASSUME NEW from \in DOMAIN EventOf, Publish(u, from, "idle") PROVE CarriedInv'
        BY <2>1, <2>4, CarryPublish DEF Pending
    <2>5. ASSUME NEW expert \in BOOLEAN, PutAnalysis(u, expert, "idle") PROVE CarriedInv'
        BY <2>1, <2>5, CarryPutAnalysis
    <2>6. CASE PutReview(u, "idle") \/ PutApproval(u, "idle") \/ PutOrder(u, "idle")
        BY <2>1, <2>6, CarryPutReview, CarryPutApproval, CarryPutOrder
    <2>7. CASE Upload(u, "idle") \/ Complete(u, "idle") \/ Feedback(u, "idle")
        BY <2>1, <2>7, CarryOther DEF Pending
    <2> QED BY <1>9, <2>2, <2>3, <2>4, <2>5, <2>6, <2>7 DEF CallFails
  <1>10. ASSUME UNCHANGED <<analyses, approvals, orders, events, pc, item, faults>>
         PROVE  CarriedInv'
      BY <1>10 DEF CarriedInv, OneOrderEach, AnalysisPending, DecisionPending, OrderPending,
                   CreationPending, Sent
  <1>11. CASE \/ \E c \in Client, s \in DirectTarget : DirectJudge(c, s)
              \/ \E p \in patching : DirectStore(p)
      BY <1>10, <1>11 DEF DirectJudge, DirectStore, analysisTable, workTable
  <1>12. CASE UNCHANGED vars
      BY <1>10, <1>12 DEF vars, stored, analysisTable, workTable
  <1> QED BY <1>2, <1>3, <1>4, <1>5, <1>6, <1>7, <1>8, <1>9, <1>11, <1>12 DEF Next, Rest

\* Whatever calls fail, no approval ever has two work orders.
THEOREM OrdersAreSingle == Spec => []OneOrderEach
  <1>1. CarriedInv => OneOrderEach
      BY DEF CarriedInv
  <1> QED BY <1>1, Flow, CarriedInit, CarriedStep, PTL DEF Spec

\* As long as no call fails, sessions at rest leave no decision half done: every
\* analysis and approval is announced, and every approval that lets a work order
\* through is followed by exactly one, announced too.
THEOREM DecisionsCarriedOut == Spec => []DecisionsAreCarriedOut
  <1>1. CarriedInv => DecisionsAreCarriedOut
    <2> SUFFICES ASSUME CarriedInv, faults = 0, AtRest
                 PROVE  /\ \A a \in 1..Len(analyses) : Sent("analysis.completed", a)
                        /\ \A v \in 1..Len(approvals) :
                            /\ Sent("approval.decided", v)
                            /\ approvals[v].decision \in {"approve", "changes"} =>
                                 \E o \in 1..Len(orders) : /\ orders[o].approval = v
                                                            /\ Sent("work_order.created", o)
                                                            /\ \A q \in 1..Len(orders) :
                                                                 orders[q].approval = v => q = o
        BY DEF DecisionsAreCarriedOut
    <2>1. /\ \A a \in 1..Len(analyses) : Sent("analysis.completed", a)
          /\ \A v \in 1..Len(approvals) : Sent("approval.decided", v)
          /\ \A o \in 1..Len(orders) : Sent("work_order.created", o)
        BY DEF CarriedInv, AtRest, AnalysisPending, DecisionPending, CreationPending
    <2>2. ASSUME NEW v \in 1..Len(approvals), approvals[v].decision \in {"approve", "changes"}
          PROVE  \E o \in 1..Len(orders) : orders[o].approval = v
        BY <2>1, <2>2 DEF CarriedInv, AtRest, OrderPending
    <2>3. \A o, q \in 1..Len(orders) : orders[o].approval = orders[q].approval => o = q
        BY DEF CarriedInv, OneOrderEach
    <2>4. ASSUME NEW v \in 1..Len(approvals), approvals[v].decision \in {"approve", "changes"}
          PROVE  \E o \in 1..Len(orders) : /\ orders[o].approval = v
                                            /\ Sent("work_order.created", o)
                                            /\ \A q \in 1..Len(orders) :
                                                 orders[q].approval = v => q = o
      <3>1. PICK o \in 1..Len(orders) : orders[o].approval = v
          BY <2>2, <2>4
      <3>2. \A q \in 1..Len(orders) : orders[q].approval = v => q = o
          BY <2>3, <3>1
      <3> QED BY <2>1, <3>1, <3>2
    <2> QED BY <2>1, <2>4
  <1> QED BY <1>1, Flow, CarriedInit, CarriedStep, PTL DEF Spec
=============================================================================
