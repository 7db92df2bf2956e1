--------------------------- MODULE AnalysisService ---------------------------
(***************************************************************************)
(* The documents, the analyses, the expert reviews and the evaluations:    *)
(* services/knowledge/app/main.py, shared/rag.py, services/ai_analysis,    *)
(* metrics_summary of services/metrics/app/main.py and the expert review   *)
(* card of web/src/App.tsx.                                                *)
(*                                                                         *)
(* A request is a task of a handler; task[h].at names the call it is about *)
(* to make, and other handlers run between any two calls.  Texts are sets  *)
(* of words: a text is part of another if its words are.                   *)
(***************************************************************************)
EXTENDS Naturals, Sequences, FiniteSets

CONSTANTS
    Handler,      \* requests in flight at the same time
    Word,         \* words of texts
    Doc, Words,   \* documents to upload; Words[d]: file name and text of d
    Name,         \* Name[d]: the file name of d
    TopK,         \* chunks asked of the retriever (5 in the code)
    Case, Truth,  \* Truth[c][g]: case c as the g-th dataset has it
    MockCause,    \* the cause MockAnalysisEngine answers
    Answers,      \* the sets of causes a language model may answer
    Asked,        \* the analyses asked for: [query, related]
    Direct,       \* the updates of expert reviews other clients of the API send
    Setting,      \* the values of [rag, engine, lags] considered
    Old,          \* what the tables may hold at first: [documents, dataset, reviews]
    MaxRequests,  \* bound: requests over the whole run
    MaxFaults     \* bound: failing calls

Text   == SUBSET Word
Status == {"pending", "assigned", "completed", "dismissed"}
Review == [status : Status, noted : BOOLEAN]

\* ExpertReviewUpdate: each field may be left out.
Update == [status : Status \cup {"keep"}, assigns : BOOLEAN, note : {"keep", "blank", "text"}]

Pending == [status |-> "pending", noted |-> FALSE]
Ref     == Doc \cup {Name[d] : d \in Doc} \cup {"unknown"}

\* A dataset that can be stored: each case as one of its datasets has it, or not.
Dataset == {s \in [Case -> Nat] : \A c \in Case : s[c] <= Len(Truth[c])}

ASSUME AnalysisAssumption ==
    /\ Words \in [Doc -> Text] /\ MockCause \in Text /\ Answers \subseteq SUBSET Text
    /\ Truth \in [Case -> Seq([query : Text, refs : SUBSET Ref, causes : SUBSET Text])]
    /\ Asked \subseteq [query : Text, related : SUBSET Doc] /\ Direct \subseteq Update
    /\ Setting \subseteq [rag : {"local", "bedrock"}, engine : {"mock", "ollama", "bedrock"},
                        lags : BOOLEAN]
    /\ Old \subseteq [documents : Seq(Doc), dataset : Dataset, reviews : Seq({<<Pending>>})]
    /\ MaxRequests \in Nat /\ MaxFaults \in Nat

VARIABLES
    setting,    \* rag_provider, ai_provider, and whether the table's index lags
    bucket,     \* documents in the object store, oldest first
    documents,  \* documents in the table, oldest first
    indexed,    \* documents in the Bedrock knowledge base
    ingesting,  \* an ingestion job is to run
    dataset,    \* dataset[c]: the datasets case c was stored from, the last one stored
    analyses,   \* what the stored analyses cite
    reviews,    \* reviews[r]: every record of expert review r, the last one stored
    runs,       \* evaluation runs in the order stored
    clock,      \* created_at of the latest evaluation run
    task,       \* task[h]: the request handler h works on
    requests,   \* requests so far
    faults,     \* failed calls so far
    epoch       \* changes of dataset, documents and knowledge base (history)

library == <<bucket, documents, indexed, ingesting>>
results == <<analyses, runs, clock>>
vars    == <<setting, library, dataset, results, reviews, task, requests, faults, epoch>>

Elements(s) == {s[i] : i \in DOMAIN s}
Last(s)     == s[Len(s)]
Idle        == [at |-> "idle"]

Begin(h, t)   == /\ task[h] = Idle
                 /\ requests < MaxRequests /\ requests' = requests + 1
                 /\ task' = [task EXCEPT ![h] = t]
                 /\ UNCHANGED <<setting, faults>>
Proceed(h, t) == task' = [task EXCEPT ![h] = t] /\ UNCHANGED <<setting, requests, faults>>
Advance(h, from, to) == task[h].at = from /\ Proceed(h, [task[h] EXCEPT !.at = to])
Finish(h, from)      == task[h].at = from /\ Proceed(h, Idle)

Init ==
    /\ setting \in Setting
    /\ \E o \in Old :
        /\ bucket = o.documents /\ documents = o.documents /\ reviews = o.reviews
        /\ dataset = [c \in Case |-> IF o.dataset[c] = 0 THEN <<>> ELSE <<o.dataset[c]>>]
    /\ indexed = <<>> /\ ingesting = FALSE
    /\ analyses = {} /\ runs = <<>> /\ clock = 0
    /\ task = [h \in Handler |-> Idle]
    /\ requests = 0 /\ faults = 0 /\ epoch = 0

\* DynamoRepository.list reads a secondary index, which may lack what was put
\* last: the positions of the table a list may show.
Shown(table) == IF setting.lags THEN SUBSET DOMAIN table ELSE {DOMAIN table}

-----------------------------------------------------------------------------
(* Documents.                                                              *)

\* upload_document: object, table, event.
Upload(h, d) ==
    /\ d \notin Elements(bucket)
    /\ \A g \in Handler : task[g].at = "object" => task[g].doc # d
    /\ Begin(h, [at |-> "object", doc |-> d])
    /\ UNCHANGED <<library, dataset, results, reviews, epoch>>

PutObjectOrNot(h) == \* defect: an error of the object store is swallowed
    /\ Advance(h, "object", "document")
    /\ bucket' \in {bucket, Append(bucket, task[h].doc)}
    /\ UNCHANGED <<documents, indexed, ingesting, dataset, results, reviews, epoch>>

PutObject(h) ==
    /\ Advance(h, "object", "document")
    /\ bucket' = Append(bucket, task[h].doc)
    /\ UNCHANGED <<documents, indexed, ingesting, dataset, results, reviews, epoch>>

PutDocument(h) ==
    /\ Advance(h, "document", "announce")
    /\ documents' = Append(documents, task[h].doc) /\ epoch' = epoch + 1
    /\ UNCHANGED <<bucket, indexed, ingesting, dataset, results, reviews>>

AnnounceDocument(h) ==
    /\ Finish(h, "announce")
    /\ UNCHANGED <<library, dataset, results, reviews, epoch>>

\* sync_documents starts an ingestion job; without a knowledge base it is 409.
Sync(h) ==
    /\ setting.rag = "bedrock"
    /\ Begin(h, Idle)
    /\ ingesting' = TRUE
    /\ UNCHANGED <<bucket, documents, indexed, dataset, results, reviews, epoch>>

Ingest ==
    /\ ingesting /\ ingesting' = FALSE
    /\ indexed' = bucket /\ epoch' = epoch + 1
    /\ UNCHANGED <<setting, bucket, documents, dataset, results, reviews, task, requests, faults>>

\* The documents that share words with the query, most words first, of equals
\* the latest first: a stable sort of a list by updated_at.
Matches(q, d) == Cardinality(q \cap Words[d])

Best(q, shown) ==
    {documents[i] : i \in {j \in shown :
        /\ Matches(q, documents[j]) > 0
        /\ Cardinality({k \in shown :
              \/ Matches(q, documents[k]) > Matches(q, documents[j])
              \/ Matches(q, documents[k]) = Matches(q, documents[j]) /\ k > j}) < TopK}}

\* get_retriever().retrieve: from the table, or whatever the knowledge base
\* finds in what it has indexed.
Pool    == IF setting.rag = "local" THEN documents ELSE indexed
Found == {s \in SUBSET Elements(Pool) : Cardinality(s) <= TopK}

RetrievedAny(q) == \* defect: nothing orders documents with as many words
    {s \in Found : \A d \in s, e \in Elements(Pool) \ s : Matches(q, d) >= Matches(q, e)}

Retrieved(q) == IF setting.rag = "local" THEN {Best(q, shown) : shown \in Shown(documents)}
                                         ELSE Found

\* The id a chunk of d has: the last part of its S3 URI for Bedrock.
ChunkId(d) == IF setting.rag = "local" THEN d ELSE Name[d]

\* document_versions: the version of each cited id, where there is one; what a
\* knowledge base returns carries none.
Versions(chunks, related) ==
    [i \in {ChunkId(d) : d \in chunks} \cup related |->
        IF i \in Elements(documents) THEN i ELSE "unknown"]

-----------------------------------------------------------------------------
(* Analyses.                                                               *)

Reply == [sure : BOOLEAN, causes : SUBSET Text]

\* analyze of the three engines, given whether there are related documents.
MockReply(related) == {[sure |-> related # {}, causes |-> {MockCause}]}
LanguageReply      == {r \in Reply : r.causes \in Answers}
Replies(related)   == IF setting.engine = "mock" THEN MockReply(related) ELSE LanguageReply

\* evaluate_review_policy: low confidence, or no document to go by.
ExpertReviewRequired(reply, related) == ~reply.sure \/ related = {}

\* analyze_incident up to the result: retrieval, look-ups, engine and policy.
\* Each of them only reads, and documents are never changed.
Analyze(h, a) ==
    \E chunks \in Retrieved(a.query) :
        LET related == a.related \cup {ChunkId(d) : d \in chunks} IN
        \E reply \in Replies(related) :
            /\ Begin(h, [at |-> "analysis",
                         made |-> [cites |-> chunks, versions |-> Versions(chunks, a.related)],
                         review |-> ExpertReviewRequired(reply, related)])
            /\ UNCHANGED <<library, dataset, results, reviews, epoch>>

PutAnalysis(h) ==
    /\ Advance(h, "analysis", IF task[h].review THEN "review" ELSE "completed")
    /\ analyses' = analyses \cup {task[h].made}
    /\ UNCHANGED <<library, dataset, runs, clock, reviews, epoch>>

PutReview(h) ==
    /\ Advance(h, "review", "completed")
    /\ reviews' = Append(reviews, <<Pending>>)
    /\ UNCHANGED <<library, dataset, results, epoch>>

Completed(h) ==
    /\ Finish(h, "completed")
    /\ UNCHANGED <<library, dataset, results, reviews, epoch>>

-----------------------------------------------------------------------------
(* Expert reviews.                                                         *)

\* What the three buttons of ExpertReviewCard ask for.
Patch(status, assigns, note) == [status |-> status, assigns |-> assigns, note |-> note]
Buttons == {Patch("assigned", TRUE, "keep"), Patch("dismissed", FALSE, "text"),
            Patch("completed", TRUE, "text")}

Closed(review) == review.status \in {"completed", "dismissed"}

\* The record a patch makes of the one the handler read.
MergedAssigned(review, patch) == \* defect: an assignee makes any review assigned
    [status |-> IF patch.status # "keep" THEN patch.status
                ELSE IF patch.assigns THEN "assigned" ELSE review.status,
     noted  |-> IF patch.note = "keep" THEN review.noted ELSE patch.note = "text"]

Merged(review, patch) ==
    [status |-> IF patch.status # "keep" THEN patch.status
                ELSE IF patch.assigns /\ review.status = "pending" THEN "assigned"
                ELSE review.status,
     noted  |-> IF patch.note = "keep" THEN review.noted ELSE patch.note = "text"]

Unnoted(review) == review.status = "completed" /\ ~review.noted

RefusedAsked(review, patch) == \* defect: only a request to complete is checked
    patch.status = "completed" /\ Unnoted(Merged(review, patch))

Refused(review, patch) == Unnoted(Merged(review, patch))

\* update_expert_review up to put: 422 for a completion without a note, and no
\* other check.  A button was shown by a card of some stored record that was not
\* closed, however long ago; another client may itself ask for an open status.  The
\* handler patches the record it reads now.
UpdateReview(h, r, patch) ==
    LET now == Last(reviews[r]) IN
    \E seen \in 1..Len(reviews[r]), button \in BOOLEAN :
        /\ button  => patch \in Buttons /\ ~Closed(reviews[r][seen])
        /\ ~button => patch \in Direct /\ seen = Len(reviews[r])
        /\ Begin(h, IF Refused(now, patch) THEN Idle
                    ELSE [at |-> "read", card |-> r, value |-> Merged(now, patch), seen |-> seen,
                          opens |-> ~button /\ patch.status \in {"pending", "assigned"},
                          version |-> 0])
        /\ UNCHANGED <<library, dataset, results, reviews, epoch>>

\* put reads the version it compares with, then writes the whole record.
ReadVersion(h) ==
    /\ task[h].at = "read"
    /\ Proceed(h, [task[h] EXCEPT !.at = "write", !.version = Len(reviews[task[h].card])])
    /\ UNCHANGED <<library, dataset, results, reviews, epoch>>

WriteReview(h) ==
    LET r == task[h].card IN
    /\ Finish(h, "write")
    /\ task[h].version = Len(reviews[r])
    /\ reviews' = [reviews EXCEPT ![r] = Append(@, task[h].value)]
    /\ UNCHANGED <<library, dataset, results, epoch>>

\* ConcurrentUpdateError: 500.
Conflict(h) ==
    /\ Finish(h, "write")
    /\ task[h].version # Len(reviews[task[h].card])
    /\ UNCHANGED <<library, dataset, results, reviews, epoch>>

-----------------------------------------------------------------------------
(* Evaluations.                                                            *)

\* register_evaluation_dataset puts the cases of dataset g one by one.
Register(h, g) ==
    /\ Begin(h, [at |-> "register", todo |-> {c \in Case : g <= Len(Truth[c])}, from |-> g])
    /\ UNCHANGED <<library, dataset, results, reviews, epoch>>

PutCase(h, c) ==
    /\ task[h].at = "register" /\ c \in task[h].todo
    /\ Proceed(h, IF task[h].todo = {c} THEN Idle ELSE [task[h] EXCEPT !.todo = @ \ {c}])
    /\ dataset' = [dataset EXCEPT ![c] = Append(@, task[h].from)] /\ epoch' = epoch + 1
    /\ UNCHANGED <<library, results, reviews>>

\* _cause_match: expected causes that are part of an answered one, or contain one.
CauseMatchAnswered(expected, answered) == \* defect: the answered causes are counted
    {t \in answered : \E c \in expected : t \subseteq c \/ c \subseteq t}

CauseMatch(expected, answered) ==
    {t \in expected : \E c \in answered : t \subseteq c \/ c \subseteq t}

\* _document_hit_rate: expected references that name a chunk.
DocumentHits(expected, chunks) ==
    {i \in expected : \E d \in chunks : i \in {d, Name[d]}}

\* The cases a list may show: each as stored last, or, where the index lags, as
\* stored earlier or not at all.
Current(c) == IF dataset[c] = <<>> THEN 0 ELSE Last(dataset[c])
Listed(c)  == {Current(c)} \cup IF setting.lags THEN {0} \cup Elements(dataset[c]) ELSE {}
Listings   == {s \in [Case -> UNION {Listed(c) : c \in Case}] : \A c \in Case : s[c] \in Listed(c)}

\* run_evaluation lists the cases: 409 if there are none.
Evaluate(h) ==
    /\ \E given \in Listings :
        LET todo == {c \in Case : given[c] # 0} IN
        /\ todo # {}
        /\ Begin(h, [at |-> "evaluate", todo |-> todo, given |-> given,
                     since |-> epoch, hits |-> {}, matched |-> {}])
    /\ UNCHANGED <<library, dataset, results, reviews, epoch>>

\* One case is generated and judged against what was listed.
EvaluateCase(h, c) ==
    LET case == Truth[c][task[h].given[c]] IN
    /\ task[h].at = "evaluate" /\ c \in task[h].todo
    /\ \E chunks \in Retrieved(case.query) :
       \E reply \in Replies({ChunkId(d) : d \in chunks}) :
          Proceed(h, [task[h] EXCEPT
              !.todo = @ \ {c},
              !.hits = @ \cup ({c} \X DocumentHits(case.refs, chunks)),
              !.matched = @ \cup ({c} \X CauseMatch(case.causes, reply.causes))])
    /\ UNCHANGED <<library, dataset, results, reviews, epoch>>

\* The run is dated, then stored.
DateRun(h) ==
    /\ task[h].at = "evaluate" /\ task[h].todo = {}
    /\ clock' = clock + 1
    /\ Proceed(h, [at |-> "store", run |->
                     [created |-> clock + 1, given |-> task[h].given, hits |-> task[h].hits,
                      matched |-> task[h].matched, during |-> {task[h].since} \cap {epoch}]])
    /\ UNCHANGED <<library, dataset, analyses, runs, reviews, epoch>>

StoreRun(h) ==
    /\ Finish(h, "store")
    /\ runs' = Append(runs, task[h].run)
    /\ UNCHANGED <<library, dataset, analyses, clock, reviews, epoch>>

-----------------------------------------------------------------------------
(* Metrics.                                                                *)

\* metrics_summary is asked for, by refresh of the page.
AskSummary(h) ==
    /\ Begin(h, [at |-> "summary", asked |-> Len(runs), latest |-> 0])
    /\ UNCHANGED <<library, dataset, results, reviews, epoch>>

\* max, by created_at, of the runs the list shows.
LatestStored(shown) == \* defect: the run stored last
    IF shown = {} THEN {0} ELSE {i \in shown : \A j \in shown : j <= i}

Latest(shown) ==
    IF shown = {} THEN {0}
    ELSE {i \in shown : \A j \in shown : runs[j].created <= runs[i].created}

Summarize(h) ==
    /\ task[h].at = "summary"
    /\ \E shown \in Shown(runs) : \E i \in Latest(shown) :
        Proceed(h, [task[h] EXCEPT !.at = "answered", !.latest = i])
    /\ UNCHANGED <<library, dataset, results, reviews, epoch>>

Answered(h) ==
    /\ Finish(h, "answered")
    /\ UNCHANGED <<library, dataset, results, reviews, epoch>>

-----------------------------------------------------------------------------
\* The call a handler is about to make fails, or its pod is replaced: 500, and
\* what the handler has done stays.
Fail(h) ==
    /\ task[h] # Idle
    /\ faults < MaxFaults /\ faults' = faults + 1
    /\ task' = [task EXCEPT ![h] = Idle]
    /\ UNCHANGED <<setting, library, dataset, results, reviews, requests, epoch>>

Rest == /\ requests = MaxRequests /\ \A h \in Handler : task[h] = Idle
        /\ UNCHANGED vars

Next ==
    \/ \E h \in Handler :
        \/ \E d \in Doc : Upload(h, d)
        \/ PutObject(h) \/ PutDocument(h) \/ AnnounceDocument(h) \/ Sync(h)
        \/ \E a \in Asked : Analyze(h, a)
        \/ PutAnalysis(h) \/ PutReview(h) \/ Completed(h)
        \/ \E r \in DOMAIN reviews, patch \in Buttons \cup Direct : UpdateReview(h, r, patch)
        \/ ReadVersion(h) \/ WriteReview(h) \/ Conflict(h)
        \/ \E c \in Case : \E g \in DOMAIN Truth[c] : Register(h, g)
        \/ \E c \in Case : PutCase(h, c) \/ EvaluateCase(h, c)
        \/ Evaluate(h) \/ DateRun(h) \/ StoreRun(h)
        \/ AskSummary(h) \/ Summarize(h) \/ Answered(h)
        \/ Fail(h)
    \/ Ingest
    \/ Rest

Spec == Init /\ [][Next]_vars

-----------------------------------------------------------------------------
Cited   == [cites : SUBSET Doc, versions : UNION {[R -> Ref] : R \in SUBSET Ref}]
Run     == [created : Nat, given : Dataset, hits : SUBSET (Case \X Ref),
            matched : SUBSET (Case \X Text), during : SUBSET Nat]

\* What task[h] holds, by the kind of request.
Uploading   == [at : {"object", "document", "announce"}, doc : Doc]
Analyzing   == [at : {"analysis", "review", "completed"}, made : Cited, review : BOOLEAN]
Updating    == [at : {"read", "write"}, card : Nat, value : Review, seen : Nat,
                opens : BOOLEAN, version : Nat]
Registering == [at : {"register"}, todo : SUBSET Case, from : Nat]
Evaluating  == [at : {"evaluate"}, todo : SUBSET Case, given : Dataset, since : Nat,
                hits : SUBSET (Case \X Ref), matched : SUBSET (Case \X Text)]
Storing     == [at : {"store"}, run : Run]
Summing     == [at : {"summary", "answered"}, asked : Nat, latest : Nat]
Task        == {Idle} \cup Uploading \cup Analyzing \cup Updating \cup Registering
                      \cup Evaluating \cup Storing \cup Summing

\* What a run counted for a case is among what the case expected, so that no
\* rate of the run is above one.
Judged(run) ==
    /\ \A m \in run.matched : m[2] \in Truth[m[1]][run.given[m[1]]].causes
    /\ \A m \in run.hits : m[2] \in Truth[m[1]][run.given[m[1]]].refs

\* Every variable has its type, and every rate of a run is a share.
TypeOK ==
    /\ setting \in Setting /\ ingesting \in BOOLEAN
    /\ bucket \in Seq(Doc) /\ documents \in Seq(Doc) /\ indexed \in Seq(Doc)
    /\ dataset \in [Case -> Seq(Nat)]
    /\ \A c \in Case : Elements(dataset[c]) \subseteq 0..Len(Truth[c])
    /\ analyses \subseteq Cited /\ reviews \in Seq(Seq(Review))
    /\ runs \in Seq(Run) /\ \A i \in DOMAIN runs : Judged(runs[i])
    /\ task \in [Handler -> Task]
    /\ clock \in Nat /\ requests \in 0..MaxRequests /\ faults \in 0..MaxFaults /\ epoch \in Nat

\* No expert review is ever stored as completed without a note, whatever
\* patches race and however stale the cards are they come from.
CompletedHasNote ==
    \A r \in DOMAIN reviews : \A i \in DOMAIN reviews[r] : ~Unnoted(reviews[r][i])

\* A closed review is opened again only by a request that saw it open, on the card
\* it came from or in the read of the handler, or by a client of the API that asks
\* for an open status: never by assigning it, or by a button on the card of a
\* closed one.
ReopenedUnseen ==
    [][\A r \in DOMAIN reviews :
        Closed(Last(reviews[r])) /\ ~Closed(Last(reviews'[r])) =>
            \E h \in Handler : /\ task[h].at = "write" /\ task[h].card = r
                               /\ task'[h] = Idle
                               /\ task[h].opens \/ ~Closed(reviews[r][task[h].seen])]_vars

\* What an analysis cites is in the object store, and, without a knowledge base
\* that reads the store behind the table's back, registered under the version
\* the audit gives, whatever uploads failed or were under way.
CitedIsBacked ==
    \A a \in analyses :
        /\ a.cites \subseteq Elements(bucket)
        /\ setting.rag = "local" => /\ a.cites \subseteq Elements(documents)
                                    /\ \A d \in a.cites : a.versions[d] = d

\* Runs over the same cases and documents list the same cases, find the same
\* documents in the table, and with the mock engine match the same causes, as
\* docs/testing-guide.md has it: an index that lags is the only exception.
EvaluationRepeats ==
    \A i, j \in DOMAIN runs : runs[i].during \cap runs[j].during # {} /\ ~setting.lags =>
        /\ runs[i].given = runs[j].given
        /\ setting.rag = "local" => runs[i].hits = runs[j].hits
        /\ setting.engine = "mock" => runs[i].matched = runs[j].matched

\* A summary reports no older an evaluation than any that was stored when it
\* was asked for, although runs are stored in another order than they are dated,
\* unless the index lags.
SummaryIsCurrent ==
    \A h \in Handler : task[h].at = "answered" /\ ~setting.lags =>
        \A i \in 1..task[h].asked :
            task[h].latest # 0 /\ runs[i].created <= runs[task[h].latest].created
=============================================================================
