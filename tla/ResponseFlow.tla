---------------------------- MODULE ResponseFlow ----------------------------
(***************************************************************************)
(* From an incident to its resolution: the browser sessions of web/src/    *)
(* App.tsx (runAnalysis, decide, complete) and the handlers they call in   *)
(* ai_analysis, work_order and incident.                                   *)
(*                                                                         *)
(* No transaction spans the services.  A session is a chain of requests, a *)
(* handler a chain of calls to its table and to the event bus, and a chain *)
(* that fails stays where it is: what it did is not undone and what it had *)
(* left to do is not done.  The model is about one incident; the calls of  *)
(* all sessions interleave.  A PATCH of the status is two steps here: the  *)
(* incident service reads and judges, and writes later, over what has      *)
(* become of the incident; IncidentStatus looks further inside.            *)
(***************************************************************************)
EXTENDS Naturals, Sequences, IncidentLifeCycle

CONSTANTS
    Manager,      \* browser sessions of operator managers
    FieldWorker,  \* browser sessions of field workers
    Client,       \* other clients of the incident API
    DirectTarget, \* statuses they may ask for
    MaxRequests,  \* bound: buttons pressed over the whole run
    MaxFaults     \* bound: failing calls

ASSUME ResponseAssumption ==
    /\ Manager \cap FieldWorker = {} /\ Client \cap (Manager \cup FieldWorker) = {}
    /\ DirectTarget \subseteq Status
    /\ MaxRequests \in Nat /\ MaxFaults \in Nat

User == Manager \cup FieldWorker
\* The console's approve_with_changes adds to the checklist; an API client's
\* may come without one.
Decision == {"approve", "changes", "changesUnlisted", "reject"}

VARIABLES
    status,    \* the incident, in the incident service
    patching,  \* PATCHes judged but not written that no session waits for: <<client,
               \* status>>, or <<n, status>> where the n-th failed call gave one up
    overlapped,\* a PATCH was judged while another was underway (history)
    accepted,  \* orders whose completion the incident service stored (history)
    analyses,  \* analyses stored: does expert review apply
    reviews,   \* analyses that have an expert review case
    approvals, \* approvals stored: analysis and decision
    orders,    \* work orders stored: approval they follow from, and completed
    evidence,  \* orders with a photo in the object store
    events,    \* events published, <<type, number of the record>>
    feedback,  \* orders the metrics service has feedback about
    pc,        \* pc[u]: the call u's session is about to make
    shown,     \* shown[m]: incident.status in the page m opened
    plan,      \* plan[m]: the analysis the page shows, 0 if none
    choice,    \* choice[m]: the button pressed
    item,      \* item[u]: the record the handler at work has put or got
    requests,  \* buttons pressed so far
    faults     \* failed calls so far

incident      == <<status, patching, overlapped, accepted>>
analysisTable == <<analyses, reviews>>
workTable     == <<approvals, orders>>
stored        == <<incident, analysisTable, workTable, evidence, events, feedback>>
page          == <<shown, plan, choice>>
vars          == <<stored, page, pc, item, requests, faults>>

Goto(u, from, to) == /\ pc[u] = from
                     /\ pc' = [pc EXCEPT ![u] = to]

Press(u, to) == /\ Goto(u, "idle", to)
                /\ requests < MaxRequests /\ requests' = requests + 1

Init ==
    /\ status = "detected" /\ patching = {} /\ overlapped = FALSE /\ accepted = {}
    /\ analyses = <<>> /\ reviews = {}
    /\ approvals = <<>> /\ orders = <<>>
    /\ evidence = {} /\ events = {} /\ feedback = {}
    /\ pc = [u \in User |-> "idle"]
    /\ shown = [m \in Manager |-> "detected"]
    /\ plan = [m \in Manager |-> 0]
    /\ choice = [m \in Manager |-> "reject"]
    /\ item = [u \in User |-> 0]
    /\ requests = 0 /\ faults = 0

-----------------------------------------------------------------------------
(* Calls.  `to' is where the session goes when the call is answered.       *)

\* The status each PATCH of a session asks for and later writes, and the event each
\* publish sends.
Asked == [patchAnalyzing |-> "analyzing",  patchReview |-> "review_required",
          patchApproved  |-> "approved",   patchResolved |-> "resolved"]
Written == [storeAnalyzing |-> "analyzing",  storeReview |-> "review_required",
            storeApproved  |-> "approved",   storeResolved |-> "resolved"]
EventOf == [publishAnalysis |-> "analysis.completed",  publishDecision  |-> "approval.decided",
            publishOrder    |-> "work_order.created",  publishCompleted |-> "work_order.completed",
            publishFeedback |-> "feedback.submitted"]

\* A PATCH other than the one of u at hand is judged and not yet written.
Underway(u) == patching # {} \/ \E v \in User \ {u} : pc[v] \in DOMAIN Written

\* PATCH /incidents/{id}/status: update_incident_status reads the incident and
\* finds that it may go to the status asked for.
Judge(u, from, to) ==
    /\ Goto(u, from, to)
    /\ Asked[from] \in Allowed[status]
    /\ overlapped' = (overlapped \/ Underway(u))
    /\ UNCHANGED <<status, patching, accepted, analysisTable, workTable, evidence, events,
                   feedback, item>>

\* repository.put: it compares the version it reads now, not the one that was
\* judged, and the session has its answer.
Store(u, from, to) ==
    /\ Goto(u, from, to)
    /\ status' = Written[from]
    /\ accepted' = IF from = "storeResolved" THEN accepted \cup {item[u]} ELSE accepted
    /\ UNCHANGED <<patching, overlapped, analysisTable, workTable, evidence, events, feedback,
                   item>>

\* Another PATCH was written between the version and the write: 500.  Only one that
\* overlapped with this one can have been.
Conflict(u) ==
    /\ pc[u] \in DOMAIN Written
    /\ Goto(u, pc[u], "idle")
    /\ overlapped
    /\ UNCHANGED <<stored, page, item, requests, faults>>

\* The session of u gives up, the incident service writes s all the same.
GiveUp(u, from, s) ==
    /\ Goto(u, from, "idle")
    /\ patching' = patching \cup {<<faults + 1, s>>}
    /\ overlapped' = (overlapped \/ Underway(u))
    /\ UNCHANGED <<status, accepted, analysisTable, workTable, evidence, events, feedback, item>>

RefusedIgnored(u) == \* defect: complete_work_order does not check the answer
    /\ pc[u] \in DOMAIN Asked
    /\ Goto(u, pc[u], IF pc[u] = "patchResolved" THEN "publishCompleted" ELSE "idle")
    /\ Asked[pc[u]] \notin Allowed[status]
    /\ UNCHANGED <<stored, page, item, requests, faults>>

\* The transition is not allowed, 409: the handler and the session's try block end there.
Refused(u) ==
    /\ pc[u] \in DOMAIN Asked
    /\ Goto(u, pc[u], "idle")
    /\ Asked[pc[u]] \notin Allowed[status]
    /\ UNCHANGED <<stored, page, item, requests, faults>>

Publish(u, from, to) ==
    /\ Goto(u, from, to)
    /\ events' = events \cup {<<EventOf[from], item[u]>>}
    /\ UNCHANGED <<incident, analysisTable, workTable, evidence, feedback, item>>

\* Where analyze_incident goes after it stored the analysis.
AfterAnalysisUnqueued(expert) == "publishAnalysis" \* defect: no expert review case

AfterAnalysis(expert) == IF expert THEN "putReview" ELSE "publishAnalysis"

\* _generate has answered: low confidence or no document calls for an expert.
PutAnalysis(m, expert, to) ==
    /\ Goto(m, "putAnalysis", to)
    /\ analyses' = Append(analyses, [expert |-> expert])
    /\ item' = [item EXCEPT ![m] = Len(analyses')]
    /\ UNCHANGED <<incident, reviews, workTable, evidence, events, feedback>>

PutReview(m, to) ==
    /\ Goto(m, "putReview", to)
    /\ reviews' = reviews \cup {item[m]}
    /\ UNCHANGED <<incident, analyses, workTable, evidence, events, feedback, item>>

PutApproval(m, to) ==
    /\ Goto(m, "putApproval", to)
    /\ approvals' = Append(approvals, [analysis |-> plan[m], decision |-> choice[m]])
    /\ item' = [item EXCEPT ![m] = Len(approvals')]
    /\ UNCHANGED <<incident, analysisTable, orders, evidence, events, feedback>>

\* Where decide_action_plan goes after it announced the decision: a rejection
\* is answered 201, a change without a checklist 422.
AfterDecisionAny(d) == "putOrder" \* defect: every decision makes an order

AfterDecisionPlain(d) == \* defect: only a plain approval makes an order
    IF d = "approve" THEN "putOrder" ELSE "idle"

AfterDecision(d) == IF d \in {"approve", "changes"} THEN "putOrder" ELSE "idle"

PutOrder(m, to) ==
    /\ Goto(m, "putOrder", to)
    /\ orders' = Append(orders, [approval |-> item[m], completed |-> FALSE])
    /\ item' = [item EXCEPT ![m] = Len(orders')]
    /\ UNCHANGED <<incident, analysisTable, approvals, evidence, events, feedback>>

\* POST /work-orders/{id}/evidence: the photo goes to the object store.
Upload(w, to) ==
    /\ Goto(w, "upload", to)
    /\ evidence' = evidence \cup {item[w]}
    /\ UNCHANGED <<incident, analysisTable, workTable, events, feedback, item>>

\* complete_work_order: checklist done and recovery confirmed, the order is
\* stored as resolved.
Complete(w, to) ==
    /\ Goto(w, "complete", to)
    /\ orders' = [orders EXCEPT ![item[w]].completed = TRUE]
    /\ UNCHANGED <<incident, analysisTable, approvals, evidence, events, feedback, item>>

\* record_feedback of the metrics service stores the feedback.
Feedback(w, to) ==
    /\ Goto(w, "feedback", to)
    /\ feedback' = feedback \cup {item[w]}
    /\ UNCHANGED <<incident, analysisTable, workTable, evidence, events, item>>

-----------------------------------------------------------------------------
(* The manager's session.                                                  *)

\* openIncident: the page keeps the incident as it is now.
Open(m) ==
    /\ pc[m] = "idle"
    /\ shown[m] # status
    /\ shown' = [shown EXCEPT ![m] = status]
    /\ plan' = [plan EXCEPT ![m] = 0]
    /\ UNCHANGED <<stored, choice, pc, item, requests, faults>>

\* runAnalysis: only a page opened on a detected incident asks for analyzing.
RunAnalysis(m) ==
    /\ Press(m, IF shown[m] = "detected" THEN "patchAnalyzing" ELSE "putAnalysis")
    /\ UNCHANGED <<stored, page, item, faults>>

Analyze(m) ==
    /\ \/ Judge(m, "patchAnalyzing", "storeAnalyzing")
       \/ Store(m, "storeAnalyzing", "putAnalysis")
       \/ \E expert \in BOOLEAN : PutAnalysis(m, expert, AfterAnalysis(expert))
       \/ PutReview(m, "publishAnalysis")
       \/ Judge(m, "patchReview", "storeReview")
       \/ Store(m, "storeReview", "idle")
    /\ UNCHANGED <<page, requests, faults>>

\* The last call of analyze_incident; its answer is shown in the page.
ShowAnalysis(m) ==
    /\ Publish(m, "publishAnalysis", "patchReview")
    /\ plan' = [plan EXCEPT ![m] = item[m]]
    /\ UNCHANGED <<shown, choice, requests, faults>>

\* decide: the buttons stay under the analysis, whatever was decided before.
DecideBlind(m, d) == \* defect: the buttons do not wait for an analysis
    /\ Press(m, "putApproval")
    /\ choice' = [choice EXCEPT ![m] = d]
    /\ UNCHANGED <<stored, shown, plan, item, faults>>

Decide(m, d) ==
    /\ Press(m, "putApproval")
    /\ plan[m] # 0
    /\ choice' = [choice EXCEPT ![m] = d]
    /\ UNCHANGED <<stored, shown, plan, item, faults>>

Approve(m) ==
    /\ \/ PutApproval(m, "publishDecision")
       \/ Publish(m, "publishDecision", AfterDecision(choice[m]))
       \/ PutOrder(m, "publishOrder")
       \/ Publish(m, "publishOrder", "patchApproved")
       \/ Judge(m, "patchApproved", "storeApproved")
       \/ Store(m, "storeApproved", "idle")
    /\ UNCHANGED <<page, requests, faults>>

(* The field worker's session.                                             *)

\* complete: the form of order o, from a list that may be old.
FillIn(w, o) ==
    /\ Press(w, "upload")
    /\ item' = [item EXCEPT ![w] = o]
    /\ UNCHANGED <<stored, page, faults>>

\* The checklist is incomplete or recovery is not confirmed: 409.
Incomplete(w) ==
    /\ Goto(w, "complete", "idle")
    /\ UNCHANGED <<stored, page, item, requests, faults>>

WorkUnordered(w) == \* defect: the incident is resolved before the order is
    /\ \/ Upload(w, "patchResolved")
       \/ Judge(w, "patchResolved", "storeResolved")
       \/ Store(w, "storeResolved", "complete")
       \/ Complete(w, "publishCompleted")
       \/ Publish(w, "publishCompleted", "feedback")
    /\ UNCHANGED <<page, requests, faults>>

Work(w) ==
    /\ \/ Upload(w, "complete")
       \/ Complete(w, "patchResolved")
       \/ Judge(w, "patchResolved", "storeResolved")
       \/ Store(w, "storeResolved", "publishCompleted")
       \/ Publish(w, "publishCompleted", "feedback")
       \/ Feedback(w, "publishFeedback")
       \/ Publish(w, "publishFeedback", "idle")
    /\ UNCHANGED <<page, requests, faults>>

-----------------------------------------------------------------------------
\* The PATCH of another client of the incident API is judged, one at a time, and a
\* PATCH no session waits for is written.
DirectJudge(c, s) ==
    /\ s \in Allowed[status]
    /\ \A p \in patching : p[1] # c
    /\ patching' = patching \cup {<<c, s>>}
    /\ overlapped' = (overlapped \/ Underway(c))
    /\ UNCHANGED <<status, accepted, analysisTable, workTable, evidence, events, feedback, page,
                   pc, item, requests, faults>>

DirectStore(p) ==
    /\ patching' = patching \ {p}
    /\ status' = p[2]
    /\ UNCHANGED <<overlapped, accepted, analysisTable, workTable, evidence, events, feedback,
                   page, pc, item, requests, faults>>

\* A call fails and the session ends.  What was asked for may have been done, and a
\* PATCH may yet be.
CallFails(u) ==
    /\ faults < MaxFaults /\ faults' = faults + 1
    /\ \/ pc[u] # "idle" /\ Goto(u, pc[u], "idle") /\ UNCHANGED <<stored, item>>
       \/ \E from \in DOMAIN Asked :
            Asked[from] \in Allowed[status] /\ GiveUp(u, from, Asked[from])
       \/ \E from \in DOMAIN Written : GiveUp(u, from, Written[from])
       \/ \E from \in DOMAIN EventOf : Publish(u, from, "idle")
       \/ \E expert \in BOOLEAN : PutAnalysis(u, expert, "idle")
       \/ PutReview(u, "idle") \/ PutApproval(u, "idle") \/ PutOrder(u, "idle")
       \/ Upload(u, "idle") \/ Complete(u, "idle") \/ Feedback(u, "idle")
    /\ UNCHANGED <<page, requests>>

\* The bound on requests is reached and every session is at rest.
Rest ==
    /\ requests = MaxRequests
    /\ \A u \in User : pc[u] = "idle"
    /\ UNCHANGED vars

Next ==
    \/ \E m \in Manager :
        \/ Open(m) \/ RunAnalysis(m) \/ Analyze(m) \/ ShowAnalysis(m) \/ Approve(m)
        \/ \E d \in Decision : Decide(m, d)
    \/ \E w \in FieldWorker :
        \/ Incomplete(w) \/ Work(w)
        \/ \E o \in 1..Len(orders) : FillIn(w, o)
    \/ \E u \in User : Refused(u) \/ Conflict(u) \/ CallFails(u)
    \/ \E c \in Client, s \in DirectTarget : DirectJudge(c, s)
    \/ \E p \in patching : DirectStore(p)
    \/ Rest

Spec == Init /\ [][Next]_vars

-----------------------------------------------------------------------------
\* The calls of a manager's session and of a field worker's.
ManagerCall == {"patchAnalyzing", "storeAnalyzing", "putAnalysis", "putReview",
                "publishAnalysis", "patchReview", "storeReview",
                "putApproval", "publishDecision", "putOrder", "publishOrder",
                "patchApproved", "storeApproved"}
WorkerCall  == {"upload", "complete", "patchResolved", "storeResolved", "publishCompleted",
                "feedback", "publishFeedback"}

\* Every variable has its type, and every event is about a stored record.
TypeOK ==
    /\ status \in Status /\ patching \subseteq (Client \cup 1..MaxFaults) \X Status
    /\ overlapped \in BOOLEAN /\ accepted \subseteq 1..Len(orders)
    /\ analyses \in Seq([expert : BOOLEAN])
    /\ reviews \subseteq 1..Len(analyses)
    /\ approvals \in Seq([analysis : 1..Len(analyses), decision : Decision])
    /\ orders \in Seq([approval : 1..Len(approvals), completed : BOOLEAN])
    /\ evidence \subseteq 1..Len(orders)
    /\ feedback \subseteq 1..Len(orders)
    /\ events \subseteq {"analysis.completed"} \X (1..Len(analyses))
                    \cup {"approval.decided"} \X (1..Len(approvals))
                    \cup {"work_order.created", "work_order.completed", "feedback.submitted"}
                            \X (1..Len(orders))
    /\ pc \in [User -> {"idle"} \cup ManagerCall \cup WorkerCall]
    /\ shown \in [Manager -> Status]
    /\ plan \in [Manager -> 0..Len(analyses)]
    /\ choice \in [Manager -> Decision]
    /\ item \in [User -> Nat]
    /\ requests \in 0..MaxRequests /\ faults \in 0..MaxFaults

Sent(type, i) == <<type, i>> \in events
AtRest == \A u \in User : pc[u] = "idle"

\* Behind every work order is a stored approval that let it through, and the
\* approval.decided event went out before the order was stored.
OrderIsApproved ==
    \A o \in 1..Len(orders) :
        /\ approvals[orders[o].approval].decision \in {"approve", "changes"}
        /\ Sent("approval.decided", orders[o].approval)

\* Nobody hears of an analysis that calls for an expert before its review case
\* is in the queue.
ReviewIsQueued ==
    \A a \in 1..Len(analyses) :
        Sent("analysis.completed", a) /\ analyses[a].expert => a \in reviews

\* When field work is the only way to resolve it, a resolved incident has a
\* completed order with a photo behind it, whatever sessions race or break off.
ResolutionIsEarned ==
    "resolved" \notin DirectTarget /\ status = "resolved" =>
        \E o \in 1..Len(orders) : orders[o].completed /\ o \in evidence

\* work_order.completed, and feedback, only follow a completion the incident
\* service has stored, and the incident is resolved for good by it unless two
\* PATCHes overlapped: only a stale one takes it back.
CompletionIsAccepted ==
    \A o \in 1..Len(orders) :
        Sent("work_order.completed", o) \/ o \in feedback =>
            /\ orders[o].completed /\ o \in accepted
            /\ overlapped \/ status = "resolved"

\* As long as no call fails, sessions at rest leave no decision half done: every
\* analysis is announced, every approval announced and, if it lets a work order
\* through, followed by exactly one that is announced too.
DecisionsAreCarriedOut ==
    faults = 0 /\ AtRest =>
        /\ \A a \in 1..Len(analyses) : Sent("analysis.completed", a)
        /\ \A v \in 1..Len(approvals) :
            /\ Sent("approval.decided", v)
            /\ approvals[v].decision \in {"approve", "changes"} =>
                 \E o \in 1..Len(orders) : /\ orders[o].approval = v
                                            /\ Sent("work_order.created", o)
                                            /\ \A q \in 1..Len(orders) :
                                                 orders[q].approval = v => q = o

\* A completed order resolves its incident (the life cycle of
\* docs/architecture.md: approved, work ticket assigned, recovery verified).
CompletionResolves ==
    faults = 0 /\ AtRest =>
        \A o \in 1..Len(orders) : orders[o].completed => status = "resolved"
=============================================================================
