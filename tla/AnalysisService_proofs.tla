----------------------- MODULE AnalysisService_proofs -----------------------
(***************************************************************************)
(* What documents, analyses, reviews and evaluations guarantee for any     *)
(* number of requests in flight, documents, cases and faults.              *)
(***************************************************************************)
EXTENDS AnalysisService, TLAPS

\* A dataset being registered has the cases still to be put; an evaluation under
\* way judges only cases that were listed, and what it has counted so far is a
\* share, like what is stored.
JudgedSoFar(t) ==
    /\ t.at = "register" => \A c \in t.todo : t.from <= Len(Truth[c])
    /\ t.at = "evaluate" => Judged(t) /\ \A c \in t.todo : t.given[c] # 0
    /\ t.at = "store" => Judged(t.run)

TypeInv == TypeOK /\ \A h \in Handler : JudgedSoFar(task[h])

\* A patch on its way to the table completes nothing without a note, and opens
\* nothing it did not see open or was to open.
Considered(t) ==
    t.at \in {"read", "write"} =>
        /\ t.card \in DOMAIN reviews /\ t.seen \in DOMAIN reviews[t.card]
        /\ ~Unnoted(t.value)
        /\ ~Closed(t.value) => t.opens \/ ~Closed(reviews[t.card][t.seen])

ReviewInv ==
    /\ \A r \in DOMAIN reviews : reviews[r] # <<>>
    /\ \A h \in Handler : Considered(task[h])
    /\ CompletedHasNote

\* The table and the knowledge base know only what the object store holds.
Backed(a) ==
    /\ a.cites \subseteq Elements(bucket)
    /\ setting.rag = "local" => /\ a.cites \subseteq Elements(documents)
                                /\ \A d \in a.cites : a.versions[d] = d
Sourced(t) ==
    /\ t.at = "document" => t.doc \in Elements(bucket)
    /\ t.at = "analysis" => Backed(t.made)

CiteInv ==
    /\ Elements(documents) \subseteq Elements(bucket)
    /\ Elements(indexed) \subseteq Elements(bucket)
    /\ \A h \in Handler : Sourced(task[h])
    /\ CitedIsBacked

-----------------------------------------------------------------------------
(* Sequences and tasks.                                                    *)

LEMMA ElementsOfAppend ==
    ASSUME NEW S, NEW s \in Seq(S), NEW e \in S
    PROVE  /\ Append(s, e) \in Seq(S)
           /\ Elements(Append(s, e)) = Elements(s) \cup {e}
  <1>1. /\ DOMAIN Append(s, e) = 1..(Len(s) + 1) /\ DOMAIN s = 1..Len(s) /\ Len(s) \in Nat
        /\ Append(s, e) \in Seq(S) /\ Append(s, e)[Len(s) + 1] = e
        /\ \A i \in 1..Len(s) : Append(s, e)[i] = s[i]
    OBVIOUS
  <1>2. Elements(Append(s, e)) \subseteq Elements(s) \cup {e}
    BY <1>1 DEF Elements
  <1>3. e \in Elements(Append(s, e))
    <2>1. Len(s) + 1 \in DOMAIN Append(s, e)
      BY <1>1
    <2> QED
      BY <1>1, <2>1 DEF Elements
  <1>4. Elements(s) \subseteq Elements(Append(s, e))
    <2>1. DOMAIN s \subseteq DOMAIN Append(s, e)
      BY <1>1
    <2> QED
      BY <1>1, <2>1 DEF Elements
  <1> QED
    BY <1>1, <1>2, <1>3, <1>4

LEMMA ElementsAreTyped ==
    ASSUME NEW S, NEW s \in Seq(S) PROVE Elements(s) \subseteq S
  BY DEF Elements

\* What kind of record a task is, by the call it waits for.
LEMMA TaskKinds ==
    ASSUME NEW t \in Task
    PROVE  /\ t.at \in {"object", "document", "announce"} => t \in Uploading
           /\ t.at \in {"analysis", "review", "completed"} => t \in Analyzing
           /\ t.at \in {"read", "write"} => t \in Updating
           /\ t.at = "register" => t \in Registering
           /\ t.at = "evaluate" => t \in Evaluating
           /\ t.at = "store" => t \in Storing
           /\ t.at \in {"summary", "answered"} => t \in Summing
  BY DEF Task, Idle, Uploading, Analyzing, Updating, Registering, Evaluating, Storing, Summing

\* What a request leaves alone when its handler begins, goes on or ends.
LEMMA BeginTypes ==
    ASSUME TypeInv, NEW h \in Handler, NEW t \in Task, JudgedSoFar(t), Begin(h, t)
    PROVE  /\ task' \in [Handler -> Task]
           /\ \A g \in Handler : JudgedSoFar(task'[g])
           /\ \A g \in Handler : task'[g] = IF g = h THEN t ELSE task[g]
           /\ setting' = setting /\ setting' \in Setting
           /\ requests' \in 0..MaxRequests /\ faults' \in 0..MaxFaults
  BY AnalysisAssumption DEF Begin, TypeInv, TypeOK, AnalysisAssumption

LEMMA ProceedTypes ==
    ASSUME TypeInv, NEW h \in Handler, NEW t \in Task, JudgedSoFar(t), Proceed(h, t)
    PROVE  /\ task' \in [Handler -> Task]
           /\ \A g \in Handler : JudgedSoFar(task'[g])
           /\ \A g \in Handler : task'[g] = IF g = h THEN t ELSE task[g]
           /\ setting' = setting /\ setting' \in Setting
           /\ requests' \in 0..MaxRequests /\ faults' \in 0..MaxFaults
  BY DEF Proceed, TypeInv, TypeOK

LEMMA IdleIsTask == Idle \in Task /\ JudgedSoFar(Idle)
  BY DEF Idle, Task, JudgedSoFar

LEMMA Sets ==
    /\ Uploading \subseteq Task /\ Analyzing \subseteq Task /\ Updating \subseteq Task
    /\ Registering \subseteq Task /\ Evaluating \subseteq Task /\ Storing \subseteq Task
    /\ Summing \subseteq Task
    /\ \A t \in Uploading \cup Analyzing \cup Updating \cup Summing : JudgedSoFar(t)
  BY DEF Task, JudgedSoFar, Uploading, Analyzing, Updating, Registering, Summing

\* A step that touches no table.
LEMMA TablesStay ==
    ASSUME TypeInv, UNCHANGED <<library, dataset, results, reviews, epoch>>,
           task' \in [Handler -> Task], \A g \in Handler : JudgedSoFar(task'[g]),
           setting' \in Setting, requests' \in 0..MaxRequests, faults' \in 0..MaxFaults
    PROVE  TypeInv'
  BY DEF TypeInv, TypeOK, library, results

-----------------------------------------------------------------------------
(* Typing.                                                                 *)

LEMMA TypeInit == Init => TypeInv
  <1> SUFFICES ASSUME Init PROVE TypeInv
    OBVIOUS
  <1>1. PICK o \in Old : /\ bucket = o.documents /\ documents = o.documents
                         /\ reviews = o.reviews
                         /\ dataset = [c \in Case |-> IF o.dataset[c] = 0 THEN <<>>
                                                     ELSE <<o.dataset[c]>>]
    BY DEF Init
  <1>2. bucket \in Seq(Doc) /\ documents \in Seq(Doc) /\ o.dataset \in Dataset
    BY <1>1, AnalysisAssumption DEF AnalysisAssumption
  <1>5. /\ dataset \in [Case -> Seq(Nat)]
        /\ \A c \in Case : Elements(dataset[c]) \subseteq 0..Len(Truth[c])
    <2>1. \A c \in Case : o.dataset[c] \in Nat /\ o.dataset[c] <= Len(Truth[c])
      BY <1>2 DEF Dataset
    <2>2. \A g \in Nat : <<>> \in Seq(Nat) /\ <<g>> \in Seq(Nat)
      OBVIOUS
    <2>3. dataset \in [Case -> Seq(Nat)]
      BY <1>1, <2>1, <2>2
    <2>4. ASSUME NEW c \in Case, NEW g \in Elements(dataset[c]) PROVE g \in 0..Len(Truth[c])
      <3>1. g = o.dataset[c]
        BY <1>1, <2>4 DEF Elements
      <3>2. Len(Truth[c]) \in Nat
        BY AnalysisAssumption DEF AnalysisAssumption
      <3> QED
        BY <2>1, <3>1, <3>2
    <2> QED
      BY <2>3, <2>4
  <1>3. reviews \in Seq(Seq(Review))
    <2>1. {<<Pending>>} \subseteq Seq(Review)
      BY DEF Pending, Review, Status
    <2>2. reviews \in Seq({<<Pending>>})
      BY <1>1, AnalysisAssumption DEF AnalysisAssumption
    <2>3. reviews \in [1..Len(reviews) -> {<<Pending>>}] /\ Len(reviews) \in Nat
      BY <2>2
    <2>4. reviews \in [1..Len(reviews) -> Seq(Review)]
      BY <2>1, <2>3
    <2> QED
      BY <2>3, <2>4
  <1>4. task \in [Handler -> Task] /\ \A h \in Handler : JudgedSoFar(task[h])
    BY IdleIsTask DEF Init
  <1> QED
    <2>1. /\ setting \in Setting /\ ingesting \in BOOLEAN /\ indexed \in Seq(Doc)
          /\ analyses \subseteq Cited /\ runs \in Seq(Run)
          /\ clock \in Nat /\ requests \in 0..MaxRequests /\ faults \in 0..MaxFaults
          /\ epoch \in Nat
      <3>1. <<>> \in Seq(Doc) /\ <<>> \in Seq(Run) /\ {} \subseteq Cited
        OBVIOUS
      <3>2. setting \in Setting /\ ingesting \in BOOLEAN /\ indexed = <<>>
            /\ analyses = {} /\ runs = <<>> /\ clock = 0 /\ requests = 0 /\ faults = 0
            /\ epoch = 0
        BY DEF Init
      <3>3. MaxRequests \in Nat /\ MaxFaults \in Nat
        BY AnalysisAssumption DEF AnalysisAssumption
      <3> QED
        BY <3>1, <3>2, <3>3
    <2>2. DOMAIN runs = {}
      BY DEF Init
    <2> QED
      BY <1>2, <1>3, <1>4, <1>5, <2>1, <2>2 DEF TypeInv, TypeOK

LEMMA TypeDocuments ==
    ASSUME TypeInv, NEW h \in Handler,
           \/ \E d \in Doc : Upload(h, d)
           \/ PutObject(h) \/ PutDocument(h) \/ AnnounceDocument(h) \/ Sync(h)
    PROVE  TypeInv'
  <1>1. ASSUME NEW d \in Doc, Upload(h, d) PROVE TypeInv'
    <2>1. [at |-> "object", doc |-> d] \in Uploading
      BY DEF Uploading
    <2> QED
      BY <1>1, <2>1, Sets, BeginTypes, TablesStay DEF Upload
  <1>2. CASE PutObject(h)
    <2>1. task[h] \in Uploading
      BY <1>2, TaskKinds DEF PutObject, Advance, TypeInv, TypeOK
    <2>2. [task[h] EXCEPT !.at = "document"] \in Uploading /\ task[h].doc \in Doc
      BY <2>1 DEF Uploading
    <2>3. bucket' \in Seq(Doc)
      BY <1>2, <2>2, ElementsOfAppend DEF PutObject, TypeInv, TypeOK
    <2>4. Proceed(h, [task[h] EXCEPT !.at = "document"])
      BY <1>2 DEF PutObject, Advance
    <2>5. /\ task' \in [Handler -> Task] /\ \A g \in Handler : JudgedSoFar(task'[g])
          /\ setting' \in Setting /\ requests' \in 0..MaxRequests /\ faults' \in 0..MaxFaults
      BY <2>2, <2>4, Sets, ProceedTypes
    <2> QED
      BY <1>2, <2>3, <2>5 DEF PutObject, TypeInv, TypeOK, results
  <1>3. CASE PutDocument(h)
    <2>1. task[h] \in Uploading
      BY <1>3, TaskKinds DEF PutDocument, Advance, TypeInv, TypeOK
    <2>2. [task[h] EXCEPT !.at = "announce"] \in Uploading /\ task[h].doc \in Doc
      BY <2>1 DEF Uploading
    <2>3. documents' \in Seq(Doc)
      BY <1>3, <2>2, ElementsOfAppend DEF PutDocument, TypeInv, TypeOK
    <2>4. Proceed(h, [task[h] EXCEPT !.at = "announce"])
      BY <1>3 DEF PutDocument, Advance
    <2>5. /\ task' \in [Handler -> Task] /\ \A g \in Handler : JudgedSoFar(task'[g])
          /\ setting' \in Setting /\ requests' \in 0..MaxRequests /\ faults' \in 0..MaxFaults
      BY <2>2, <2>4, Sets, ProceedTypes
    <2> QED
      BY <1>3, <2>3, <2>5 DEF PutDocument, TypeInv, TypeOK, results
  <1>4. CASE AnnounceDocument(h)
    BY <1>4, IdleIsTask, ProceedTypes, TablesStay DEF AnnounceDocument, Finish
  <1>5. CASE Sync(h)
    BY <1>5, IdleIsTask, BeginTypes DEF Sync, TypeInv, TypeOK, results
  <1> QED
    BY <1>1, <1>2, <1>3, <1>4, <1>5

\* What is retrieved and cited.
LEMMA RetrievedTypes ==
    ASSUME TypeInv, NEW q, NEW chunks \in Retrieved(q)
    PROVE  chunks \subseteq Elements(Pool) /\ chunks \subseteq Doc
  <1>1. chunks \subseteq Elements(Pool)
    <2>1. CASE setting.rag = "local"
      <3>1. PICK shown \in SUBSET DOMAIN documents : chunks = Best(q, shown)
        BY <2>1 DEF Retrieved, Shown
      <3>2. chunks \subseteq {documents[i] : i \in DOMAIN documents}
        BY <3>1 DEF Best
      <3> QED
        BY <2>1, <3>2 DEF Pool, Elements
    <2>2. CASE setting.rag # "local"
      BY <2>2 DEF Retrieved, Found
    <2> QED
      BY <2>1, <2>2
  <1>2. Pool \in Seq(Doc)
    BY DEF Pool, TypeInv, TypeOK
  <1> QED
    BY <1>1, <1>2, ElementsAreTyped

LEMMA VersionsTypes ==
    ASSUME TypeInv, NEW chunks \in SUBSET Doc, NEW related \in SUBSET Doc
    PROVE  Versions(chunks, related) \in UNION {[R -> Ref] : R \in SUBSET Ref}
  <1> DEFINE R == {ChunkId(d) : d \in chunks} \cup related
  <1>1. R \in SUBSET Ref
    BY DEF ChunkId, Ref
  <1>2. \A i \in R : (IF i \in Elements(documents) THEN i ELSE "unknown") \in Ref
    BY <1>1 DEF Ref
  <1>3. Versions(chunks, related) \in [R -> Ref]
    BY <1>2 DEF Versions
  <1> QED
    BY <1>1, <1>3

LEMMA TypeAnalyses ==
    ASSUME TypeInv, NEW h \in Handler,
           \/ \E a \in Asked : Analyze(h, a)
           \/ PutAnalysis(h) \/ PutReview(h) \/ Completed(h)
    PROVE  TypeInv'
  <1>1. ASSUME NEW a \in Asked, Analyze(h, a) PROVE TypeInv'
    <2>1. PICK chunks \in Retrieved(a.query) :
             LET related == a.related \cup {ChunkId(d) : d \in chunks} IN
             \E reply \in Replies(related) :
                /\ Begin(h, [at |-> "analysis",
                     made |-> [cites |-> chunks, versions |-> Versions(chunks, a.related)],
                     review |-> ExpertReviewRequired(reply, related)])
                /\ UNCHANGED <<library, dataset, results, reviews, epoch>>
      BY <1>1 DEF Analyze
    <2> DEFINE related == a.related \cup {ChunkId(d) : d \in chunks}
    <2>2. PICK reply \in Replies(related) :
             /\ Begin(h, [at |-> "analysis",
                     made |-> [cites |-> chunks, versions |-> Versions(chunks, a.related)],
                     review |-> ExpertReviewRequired(reply, related)])
             /\ UNCHANGED <<library, dataset, results, reviews, epoch>>
      BY <2>1
    <2>3. [cites |-> chunks, versions |-> Versions(chunks, a.related)] \in Cited
      <3>1. chunks \in SUBSET Doc
        BY RetrievedTypes
      <3>2. a.related \in SUBSET Doc
        BY AnalysisAssumption DEF AnalysisAssumption
      <3>3. Versions(chunks, a.related) \in UNION {[R -> Ref] : R \in SUBSET Ref}
        BY <3>1, <3>2, VersionsTypes
      <3> QED
        BY <3>1, <3>3 DEF Cited
    <2>4. ExpertReviewRequired(reply, related) \in BOOLEAN
      BY DEF ExpertReviewRequired
    <2> HIDE DEF related
    <2>5. [at |-> "analysis",
           made |-> [cites |-> chunks, versions |-> Versions(chunks, a.related)],
           review |-> ExpertReviewRequired(reply, related)] \in Analyzing
      BY <2>3, <2>4 DEF Analyzing
    <2> QED
      BY <2>2, <2>5, Sets, BeginTypes, TablesStay
  <1>2. CASE PutAnalysis(h)
    <2>1. task[h] \in Analyzing
      BY <1>2, TaskKinds DEF PutAnalysis, Advance, TypeInv, TypeOK
    <2>2. /\ [task[h] EXCEPT !.at = IF task[h].review THEN "review" ELSE "completed"] \in Analyzing
          /\ task[h].made \in Cited
      BY <2>1 DEF Analyzing
    <2> QED
      BY <1>2, <2>2, Sets, ProceedTypes DEF PutAnalysis, Advance, TypeInv, TypeOK, library
  <1>3. CASE PutReview(h)
    <2>1. task[h] \in Analyzing
      BY <1>3, TaskKinds DEF PutReview, Advance, TypeInv, TypeOK
    <2>2. [task[h] EXCEPT !.at = "completed"] \in Analyzing
      BY <2>1 DEF Analyzing
    <2>3. <<Pending>> \in Seq(Review)
      BY DEF Pending, Review, Status
    <2>4. reviews' \in Seq(Seq(Review))
      BY <1>3, <2>3, ElementsOfAppend DEF PutReview, TypeInv, TypeOK
    <2> QED
      BY <1>3, <2>2, <2>4, Sets, ProceedTypes DEF PutReview, Advance, TypeInv, TypeOK, library, results
  <1>4. CASE Completed(h)
    BY <1>4, IdleIsTask, ProceedTypes, TablesStay DEF Completed, Finish
  <1> QED
    BY <1>1, <1>2, <1>3, <1>4

LEMMA MergedTypes ==
    ASSUME NEW review \in Review, NEW patch \in Buttons \cup Direct
    PROVE  Merged(review, patch) \in Review
  <1>1. review.status \in Status /\ review.noted \in BOOLEAN
    BY DEF Review
  <1>2. patch.status = "keep" \/ patch.status \in Status
    BY AnalysisAssumption DEF AnalysisAssumption, Update, Buttons, Patch, Status
  <1> DEFINE status == IF patch.status # "keep" THEN patch.status
                       ELSE IF patch.assigns /\ review.status = "pending" THEN "assigned"
                       ELSE review.status
             noted == IF patch.note = "keep" THEN review.noted ELSE patch.note = "text"
  <1>3. "assigned" \in Status
    BY DEF Status
  <1>4. status \in Status
    BY <1>1, <1>2, <1>3
  <1>5. noted \in BOOLEAN
    <2>1. (patch.note = "text") \in BOOLEAN
      OBVIOUS
    <2> QED
      BY <1>1, <2>1, Zenon
  <1>6. Merged(review, patch) = [status |-> status, noted |-> noted]
    BY DEF Merged
  <1> HIDE DEF status, noted
  <1> QED
    BY <1>4, <1>5, <1>6 DEF Review

\* The record a handler reads.
LEMMA LastTypes ==
    ASSUME TypeInv, ReviewInv, NEW r \in DOMAIN reviews
    PROVE  /\ r \in Nat /\ reviews[r] \in Seq(Review) /\ Len(reviews[r]) \in Nat \ {0}
           /\ DOMAIN reviews[r] = 1..Len(reviews[r])
           /\ Last(reviews[r]) \in Review
           /\ Last(reviews[r]) = reviews[r][Len(reviews[r])]
  BY DEF TypeInv, TypeOK, ReviewInv, Last

LEMMA TypeReviews ==
    ASSUME TypeInv, ReviewInv, NEW h \in Handler,
           \/ \E r \in DOMAIN reviews, patch \in Buttons \cup Direct : UpdateReview(h, r, patch)
           \/ ReadVersion(h) \/ WriteReview(h) \/ Conflict(h)
    PROVE  TypeInv'
  <1>1. ASSUME NEW r \in DOMAIN reviews, NEW patch \in Buttons \cup Direct,
               UpdateReview(h, r, patch)
        PROVE  TypeInv'
    <2> DEFINE value == Merged(Last(reviews[r]), patch)
    <2>1. PICK seen \in 1..Len(reviews[r]), opens \in BOOLEAN :
            /\ Begin(h, IF Refused(Last(reviews[r]), patch) THEN Idle
                        ELSE [at |-> "read", card |-> r, value |-> value,
                              seen |-> seen, opens |-> opens, version |-> 0])
            /\ UNCHANGED <<library, dataset, results, reviews, epoch>>
      BY <1>1 DEF UpdateReview
    <2>2. value \in Review
      BY LastTypes, MergedTypes
    <2>3. r \in Nat /\ seen \in Nat
      BY LastTypes
    <2> HIDE DEF value
    <2>4. [at |-> "read", card |-> r, value |-> value, seen |-> seen, opens |-> opens,
           version |-> 0] \in Updating
      BY <2>2, <2>3 DEF Updating
    <2> QED
      BY <2>1, <2>4, Sets, IdleIsTask, BeginTypes, TablesStay
  <1>2. CASE ReadVersion(h)
    <2>1. task[h] \in Updating /\ reviews \in Seq(Seq(Review))
      BY <1>2, TaskKinds DEF ReadVersion, TypeInv, TypeOK
    <2>2. task[h].card \in DOMAIN reviews
      BY <1>2 DEF ReadVersion, ReviewInv, Considered
    <2>3. Len(reviews[task[h].card]) \in Nat
      BY <2>2, LastTypes
    <2>4. [task[h] EXCEPT !.at = "write", !.version = Len(reviews[task[h].card])] \in Updating
      BY <2>1, <2>3 DEF Updating
    <2> QED
      BY <1>2, <2>4, Sets, ProceedTypes, TablesStay DEF ReadVersion
  <1>3. CASE WriteReview(h)
    <2>1. task[h] \in Updating /\ reviews \in Seq(Seq(Review))
      BY <1>3, TaskKinds DEF WriteReview, Finish, TypeInv, TypeOK
    <2>2. task[h].card \in DOMAIN reviews /\ task[h].value \in Review
      BY <1>3, <2>1 DEF WriteReview, Finish, ReviewInv, Considered, Updating
    <2>3. Append(reviews[task[h].card], task[h].value) \in Seq(Review)
      BY <2>2, LastTypes, ElementsOfAppend
    <2>4. reviews' \in Seq(Seq(Review))
      BY <1>3, <2>1, <2>2, <2>3 DEF WriteReview
    <2> QED
      BY <1>3, <2>4, IdleIsTask, ProceedTypes DEF WriteReview, Finish, TypeInv, TypeOK, library, results
  <1>4. CASE Conflict(h)
    BY <1>4, IdleIsTask, ProceedTypes, TablesStay DEF Conflict, Finish
  <1> QED
    BY <1>1, <1>2, <1>3, <1>4

\* What is listed is a dataset that could be stored.
LEMMA ListedCases ==
    ASSUME TypeOK, NEW given \in Listings PROVE given \in Dataset
  <1>1. ASSUME NEW c \in Case PROVE given[c] \in Nat /\ given[c] <= Len(Truth[c])
    <2>1. /\ dataset[c] \in Seq(Nat) /\ Elements(dataset[c]) \subseteq 0..Len(Truth[c])
          /\ given[c] \in Listed(c)
      BY DEF TypeOK, Listings
    <2>2. Len(Truth[c]) \in Nat
      BY AnalysisAssumption DEF AnalysisAssumption
    <2>3. dataset[c] # <<>> => Last(dataset[c]) \in Elements(dataset[c])
      <3> DEFINE s == dataset[c]
      <3>1. s \in Seq(Nat)
        BY <2>1
      <3> HIDE DEF s
      <3>2. s # <<>> => Len(s) \in DOMAIN s
        BY <3>1
      <3> QED
        BY <3>2 DEF Last, Elements, s
    <2>4. Current(c) \in 0..Len(Truth[c])
      BY <2>1, <2>2, <2>3 DEF Current
    <2>5. Listed(c) \subseteq 0..Len(Truth[c])
      BY <2>1, <2>2, <2>4 DEF Listed
    <2> QED
      BY <2>1, <2>2, <2>5
  <1> QED
    <2>1. given = [c \in Case |-> given[c]]
      BY DEF Listings
    <2> QED
      BY <1>1, <2>1 DEF Dataset

LEMMA TypeDataset ==
    ASSUME TypeInv, NEW h \in Handler,
           \/ \E c \in Case : \E g \in DOMAIN Truth[c] : Register(h, g)
           \/ \E c \in Case : PutCase(h, c)
           \/ Evaluate(h) \/ AskSummary(h) \/ Summarize(h) \/ Answered(h)
    PROVE  TypeInv'
  <1>1. ASSUME NEW c \in Case, NEW g \in DOMAIN Truth[c], Register(h, g) PROVE TypeInv'
    <2> DEFINE t == [at |-> "register", todo |-> {e \in Case : g <= Len(Truth[e])}, from |-> g]
    <2>1. g \in Nat
      BY AnalysisAssumption DEF AnalysisAssumption
    <2>2. t \in Registering /\ JudgedSoFar(t)
      BY <2>1 DEF Registering, JudgedSoFar
    <2>3. Begin(h, t) /\ UNCHANGED <<library, dataset, results, reviews, epoch>>
      BY <1>1 DEF Register
    <2> HIDE DEF t
    <2> QED
      BY <2>2, <2>3, Sets, BeginTypes, TablesStay
  <1>2. ASSUME NEW c \in Case, PutCase(h, c) PROVE TypeInv'
    <2> DEFINE t == [task[h] EXCEPT !.todo = @ \ {c}]
               s == IF task[h].todo = {c} THEN Idle ELSE t
    <2>1. task[h] \in Registering /\ JudgedSoFar(task[h]) /\ task[h].at = "register"
      BY <1>2, TaskKinds DEF PutCase, TypeInv, TypeOK
    <2>2. t \in Registering /\ t.at = "register" /\ t.todo = task[h].todo \ {c}
          /\ t.from = task[h].from
      BY <2>1 DEF Registering
    <2>3. task[h].from \in Nat /\ task[h].from <= Len(Truth[c])
      BY <1>2, <2>1 DEF PutCase, Registering, JudgedSoFar
    <2>4. /\ dataset' \in [Case -> Seq(Nat)]
          /\ \A e \in Case : Elements(dataset'[e]) \subseteq 0..Len(Truth[e])
      <3>1. /\ dataset' = [dataset EXCEPT ![c] = Append(@, task[h].from)]
            /\ dataset \in [Case -> Seq(Nat)]
            /\ \A e \in Case : Elements(dataset[e]) \subseteq 0..Len(Truth[e])
        BY <1>2 DEF PutCase, TypeInv, TypeOK
      <3>2. /\ Append(dataset[c], task[h].from) \in Seq(Nat)
            /\ Elements(Append(dataset[c], task[h].from)) = Elements(dataset[c]) \cup {task[h].from}
        <4>1. dataset[c] \in Seq(Nat)
          BY <3>1
        <4>2. \A q \in Seq(Nat), n \in Nat :
                  Append(q, n) \in Seq(Nat) /\ Elements(Append(q, n)) = Elements(q) \cup {n}
          BY ElementsOfAppend
        <4> QED
          BY <2>3, <4>1, <4>2
      <3>3. Len(Truth[c]) \in Nat
        BY AnalysisAssumption DEF AnalysisAssumption
      <3> QED
        BY <2>3, <3>1, <3>2, <3>3
    <2>5. JudgedSoFar(t)
      BY <2>1, <2>2 DEF JudgedSoFar
    <2>6. Proceed(h, s)
      BY <1>2 DEF PutCase
    <2> HIDE DEF t
    <2>7. s \in Task /\ JudgedSoFar(s)
      BY <2>2, <2>5, Sets, IdleIsTask
    <2> HIDE DEF s
    <2>8. /\ task' \in [Handler -> Task] /\ \A g \in Handler : JudgedSoFar(task'[g])
          /\ setting' \in Setting /\ requests' \in 0..MaxRequests /\ faults' \in 0..MaxFaults
      BY <2>6, <2>7, ProceedTypes
    <2>9. UNCHANGED <<library, results, reviews>> /\ epoch' = epoch + 1
      BY <1>2 DEF PutCase
    <2>10. \A i \in DOMAIN runs' : Judged(runs'[i])
      BY <2>9 DEF results, TypeInv, TypeOK
    <2> QED
      BY <2>4, <2>8, <2>9, <2>10 DEF TypeInv, TypeOK, library, results
  <1>3. CASE Evaluate(h)
    <2> DEFINE todo(given) == {c \in Case : given[c] # 0}
               new(given) == [at |-> "evaluate", todo |-> todo(given), given |-> given,
                              since |-> epoch, hits |-> {}, matched |-> {}]
    <2>1. PICK given \in Listings : Begin(h, new(given))
      BY <1>3 DEF Evaluate
    <2> DEFINE t == new(given)
    <2>2. given \in Dataset
      BY ListedCases DEF TypeInv
    <2>3. t \in Evaluating /\ JudgedSoFar(t)
      BY <2>2 DEF Evaluating, JudgedSoFar, Judged, TypeInv, TypeOK
    <2>4. Begin(h, t) /\ UNCHANGED <<library, dataset, results, reviews, epoch>>
      BY <1>3, <2>1 DEF Evaluate
    <2> HIDE DEF t
    <2> QED
      BY <2>3, <2>4, Sets, BeginTypes, TablesStay
  <1>4. CASE AskSummary(h)
    <2>1. [at |-> "summary", asked |-> Len(runs), latest |-> 0] \in Summing
      BY DEF Summing, TypeInv, TypeOK
    <2> QED
      BY <1>4, <2>1, Sets, BeginTypes, TablesStay DEF AskSummary
  <1>5. CASE Summarize(h)
    <2>1. task[h] \in Summing
      BY <1>5, TaskKinds DEF Summarize, TypeInv, TypeOK
    <2>2. PICK shown \in Shown(runs) : \E i \in Latest(shown) :
             Proceed(h, [task[h] EXCEPT !.at = "answered", !.latest = i])
      BY <1>5 DEF Summarize
    <2> PICK i \in Latest(shown) : Proceed(h, [task[h] EXCEPT !.at = "answered", !.latest = i])
      BY <2>2
    <2>3. i \in Nat
      <3>1. shown \subseteq DOMAIN runs /\ runs \in Seq(Run)
        BY DEF Shown, TypeInv, TypeOK
      <3> QED
        BY <3>1 DEF Latest
    <2>4. [task[h] EXCEPT !.at = "answered", !.latest = i] \in Summing
      BY <2>1, <2>3 DEF Summing
    <2> QED
      BY <1>5, <2>2, <2>4, Sets, ProceedTypes, TablesStay DEF Summarize
  <1>6. CASE Answered(h)
    BY <1>6, IdleIsTask, ProceedTypes, TablesStay DEF Answered, Finish
  <1> QED
    BY <1>1, <1>2, <1>3, <1>4, <1>5, <1>6

\* What a case adds to an evaluation is judged against what was listed.
LEMMA EvaluateCaseTypes ==
    ASSUME TypeInv, NEW h \in Handler, NEW c \in Case, EvaluateCase(h, c)
    PROVE  TypeInv'
  <1> DEFINE case == Truth[c][task[h].given[c]]
             t(chunks, reply) == [task[h] EXCEPT
                !.todo = @ \ {c},
                !.hits = @ \cup ({c} \X DocumentHits(case.refs, chunks)),
                !.matched = @ \cup ({c} \X CauseMatch(case.causes, reply.causes))]
  <1>1. /\ task[h].at = "evaluate" /\ task[h] \in Evaluating /\ c \in task[h].todo
        /\ JudgedSoFar(task[h])
    BY TaskKinds DEF EvaluateCase, TypeInv, TypeOK
  <1>2. /\ case.refs \in SUBSET Ref /\ case.causes \in SUBSET Text
    <2>1. Truth[c] \in Seq([query : Text, refs : SUBSET Ref, causes : SUBSET Text])
      BY AnalysisAssumption DEF AnalysisAssumption
    <2>2. task[h].given[c] \in 1..Len(Truth[c])
      <3>1. task[h].given \in Dataset /\ task[h].given[c] # 0
        BY <1>1 DEF Evaluating, JudgedSoFar
      <3> QED
        BY <2>1, <3>1 DEF Dataset
    <2>3. case \in [query : Text, refs : SUBSET Ref, causes : SUBSET Text]
      <3> DEFINE R == [query : Text, refs : SUBSET Ref, causes : SUBSET Text]
                 truth == Truth[c]
                 g == task[h].given[c]
      <3>1. truth \in Seq(R) /\ g \in 1..Len(truth)
        BY <2>1, <2>2
      <3> HIDE DEF R, truth, g
      <3>2. truth[g] \in R
        BY <3>1
      <3> QED
        BY <3>2 DEF R, truth, g
    <2> HIDE DEF case
    <2> QED
      BY <2>3
  <1>3. PICK chunks \in Retrieved(case.query) :
          \E reply \in Replies({ChunkId(d) : d \in chunks}) : Proceed(h, t(chunks, reply))
    BY DEF EvaluateCase
  <1>4. PICK reply \in Replies({ChunkId(d) : d \in chunks}) : Proceed(h, t(chunks, reply))
    BY <1>3
  <1> DEFINE hits == DocumentHits(case.refs, chunks)
             matched == CauseMatch(case.causes, reply.causes)
             new == t(chunks, reply)
  <1>5. hits \subseteq case.refs /\ matched \subseteq case.causes
    BY DEF DocumentHits, CauseMatch
  <1>5a. new = [task[h] EXCEPT !.todo = @ \ {c}, !.hits = @ \cup ({c} \X hits),
                               !.matched = @ \cup ({c} \X matched)]
    BY DEF hits, matched
  <1> HIDE DEF case, hits, matched, t, new
  <1>5b. {c} \X hits \subseteq Case \X Ref /\ {c} \X matched \subseteq Case \X Text
    BY <1>2, <1>5
  <1>6. /\ new.at = "evaluate" /\ new.todo = task[h].todo \ {c}
        /\ new.given = task[h].given /\ new.hits = task[h].hits \cup ({c} \X hits)
        /\ new.matched = task[h].matched \cup ({c} \X matched)
        /\ new \in Evaluating
    BY <1>1, <1>5a, <1>5b DEF Evaluating
  <1>7. JudgedSoFar(new)
    <2>1. Judged(task[h]) /\ \A e \in task[h].todo : task[h].given[e] # 0
      BY <1>1 DEF JudgedSoFar
    <2>2. ASSUME NEW m \in new.matched
          PROVE  m[2] \in Truth[m[1]][new.given[m[1]]].causes
      <3>1. CASE m \in task[h].matched
        BY <1>6, <2>1, <3>1 DEF Judged
      <3>2. CASE m \in {c} \X matched
        BY <1>5, <1>6, <3>2 DEF case
      <3> QED
        BY <1>6, <3>1, <3>2
    <2>3. ASSUME NEW m \in new.hits
          PROVE  m[2] \in Truth[m[1]][new.given[m[1]]].refs
      <3>1. CASE m \in task[h].hits
        BY <1>6, <2>1, <3>1 DEF Judged
      <3>2. CASE m \in {c} \X hits
        BY <1>5, <1>6, <3>2 DEF case
      <3> QED
        BY <1>6, <3>1, <3>2
    <2> QED
      BY <1>6, <2>1, <2>2, <2>3 DEF JudgedSoFar, Judged
  <1>8. Proceed(h, new) /\ UNCHANGED <<library, dataset, results, reviews, epoch>>
    BY <1>4 DEF new, EvaluateCase
  <1> QED
    BY <1>6, <1>7, <1>8, Sets, ProceedTypes, TablesStay

LEMMA TypeEvaluations ==
    ASSUME TypeInv, NEW h \in Handler,
           \/ \E c \in Case : EvaluateCase(h, c)
           \/ DateRun(h) \/ StoreRun(h)
    PROVE  TypeInv'
  <1>1. CASE DateRun(h)
    <2> DEFINE run == [created |-> clock + 1, given |-> task[h].given, hits |-> task[h].hits,
                       matched |-> task[h].matched, during |-> {task[h].since} \cap {epoch}]
    <2>1. task[h] \in Evaluating /\ Judged(task[h])
      BY <1>1, TaskKinds DEF DateRun, TypeInv, TypeOK, JudgedSoFar
    <2>2. run \in Run /\ clock + 1 \in Nat
      BY <2>1 DEF Run, Evaluating, TypeInv, TypeOK
    <2>3. Judged(run)
      BY <2>1 DEF Judged
    <2>4. Proceed(h, [at |-> "store", run |-> run])
      BY <1>1 DEF DateRun
    <2> HIDE DEF run
    <2>5. [at |-> "store", run |-> run] \in Storing /\ JudgedSoFar([at |-> "store", run |-> run])
      BY <2>2, <2>3 DEF Storing, JudgedSoFar
    <2> QED
      BY <1>1, <2>2, <2>4, <2>5, Sets, ProceedTypes DEF DateRun, TypeInv, TypeOK, library
  <1>2. CASE StoreRun(h)
    <2>1. task[h] \in Storing /\ JudgedSoFar(task[h]) /\ task[h].at = "store"
      BY <1>2, TaskKinds DEF StoreRun, Finish, TypeInv, TypeOK
    <2>2. task[h].run \in Run /\ Judged(task[h].run)
      BY <2>1 DEF Storing, JudgedSoFar
    <2>3. runs' \in Seq(Run) /\ \A i \in DOMAIN runs' : Judged(runs'[i])
      BY <1>2, <2>2 DEF StoreRun, TypeInv, TypeOK
    <2> QED
      BY <1>2, <2>3, IdleIsTask, ProceedTypes DEF StoreRun, Finish, TypeInv, TypeOK, library
  <1> QED
    BY <1>1, <1>2, EvaluateCaseTypes

\* What is no handler's request, and what ends one.
LEMMA TypeOthers ==
    ASSUME TypeInv, Ingest \/ (\E h \in Handler : Fail(h)) \/ Rest \/ UNCHANGED vars
    PROVE  TypeInv'
  <1>1. CASE Ingest
    <2>1. /\ task' = task /\ indexed' = bucket /\ ingesting' = FALSE /\ epoch' = epoch + 1
          /\ bucket \in Seq(Doc) /\ epoch \in Nat
      BY <1>1 DEF Ingest, TypeInv, TypeOK
    <2>2. \A h \in Handler : JudgedSoFar(task'[h])
      BY <2>1 DEF TypeInv
    <2>3. indexed' \in Seq(Doc) /\ epoch' \in Nat
      BY <2>1
    <2>4. ingesting' \in BOOLEAN
      BY <2>1
    <2>5. /\ setting' \in Setting /\ bucket' \in Seq(Doc) /\ documents' \in Seq(Doc)
          /\ dataset' \in [Case -> Seq(Nat)]
          /\ \A c \in Case : Elements(dataset'[c]) \subseteq 0..Len(Truth[c])
          /\ analyses' \subseteq Cited /\ reviews' \in Seq(Seq(Review))
          /\ runs' \in Seq(Run) /\ \A i \in DOMAIN runs' : Judged(runs'[i])
          /\ task' \in [Handler -> Task] /\ clock' \in Nat
          /\ requests' \in 0..MaxRequests /\ faults' \in 0..MaxFaults
      BY <1>1 DEF Ingest, TypeInv, TypeOK, results
    <2> QED
      BY <2>2, <2>3, <2>4, <2>5 DEF TypeInv, TypeOK
  <1>2. ASSUME NEW h \in Handler, Fail(h) PROVE TypeInv'
    <2>1. faults' \in 0..MaxFaults
      BY <1>2, AnalysisAssumption DEF Fail, TypeInv, TypeOK, AnalysisAssumption
    <2>2. /\ task' \in [Handler -> Task]
          /\ \A g \in Handler : JudgedSoFar(task'[g])
      BY <1>2, IdleIsTask DEF Fail, TypeInv, TypeOK
    <2>3. setting' \in Setting /\ requests' \in 0..MaxRequests
      BY <1>2 DEF Fail, TypeInv, TypeOK
    <2> QED
      BY <1>2, <2>1, <2>2, <2>3, TablesStay DEF Fail
  <1>3. CASE Rest \/ UNCHANGED vars
    BY <1>3 DEF Rest, vars, library, results, TypeInv, TypeOK
  <1> QED
    BY <1>1, <1>2, <1>3

LEMMA TypeStep == TypeInv /\ ReviewInv /\ [Next]_vars => TypeInv'
  BY TypeDocuments, TypeAnalyses, TypeReviews, TypeDataset, TypeEvaluations, TypeOthers
     DEF Next

-----------------------------------------------------------------------------
(* Reviews and citations.                                                  *)

\* A step that neither writes what the invariants speak of nor leaves a request
\* where they say something of it.
Quiet ==
    /\ UNCHANGED <<setting, bucket, documents, indexed, analyses, reviews>>
    /\ \A g \in Handler : \/ task'[g] = task[g]
                         \/ task'[g].at \notin {"document", "analysis", "read", "write"}

LEMMA TaskOf ==
    ASSUME TypeInv, NEW h \in Handler, NEW t, Begin(h, t) \/ Proceed(h, t)
    PROVE  /\ \A g \in Handler : task'[g] = IF g = h THEN t ELSE task[g]
           /\ setting' = setting
  BY DEF Begin, Proceed, TypeInv, TypeOK

LEMMA QuietSteps ==
    ASSUME TypeInv,
           \/ \E h \in Handler :
                \/ \E d \in Doc : Upload(h, d)
                \/ AnnounceDocument(h) \/ Sync(h) \/ Completed(h) \/ Conflict(h)
                \/ \E c \in Case : \E g \in DOMAIN Truth[c] : Register(h, g)
                \/ \E c \in Case : PutCase(h, c) \/ EvaluateCase(h, c)
                \/ Evaluate(h) \/ DateRun(h) \/ StoreRun(h)
                \/ AskSummary(h) \/ Summarize(h) \/ Answered(h)
                \/ Fail(h)
           \/ Rest \/ UNCHANGED vars
    PROVE  Quiet
  <1>1. ASSUME NEW h \in Handler, NEW d \in Doc, Upload(h, d) PROVE Quiet
    BY <1>1, TaskOf DEF Quiet, Upload, library, results
  <1>2. ASSUME NEW h \in Handler,
               AnnounceDocument(h) \/ Completed(h) \/ Conflict(h) \/ StoreRun(h) \/ Answered(h)
        PROVE  Quiet
    BY <1>2, TaskOf DEF Quiet, AnnounceDocument, Completed, Conflict, StoreRun, Answered, Finish,
                        Idle, library, results
  <1>3. ASSUME NEW h \in Handler, Sync(h) PROVE Quiet
    BY <1>3, TaskOf DEF Quiet, Sync, Idle, results
  <1>4. ASSUME NEW h \in Handler, NEW c \in Case, NEW g \in DOMAIN Truth[c], Register(h, g)
        PROVE  Quiet
    BY <1>4, TaskOf DEF Quiet, Register, library, results
  <1>5. ASSUME NEW h \in Handler, NEW c \in Case, PutCase(h, c) PROVE Quiet
    <2>1. task[h] \in Registering
      BY <1>5, TaskKinds DEF PutCase, TypeInv, TypeOK
    <2>2. (IF task[h].todo = {c} THEN Idle ELSE [task[h] EXCEPT !.todo = @ \ {c}]).at
             \in {"idle", "register"}
      BY <2>1 DEF Registering, Idle
    <2> QED
      BY <1>5, <2>2, TaskOf DEF Quiet, PutCase, library, results
  <1>6. ASSUME NEW h \in Handler, NEW c \in Case, EvaluateCase(h, c) PROVE Quiet
    <2>1. task[h] \in Evaluating
      BY <1>6, TaskKinds DEF EvaluateCase, TypeInv, TypeOK
    <2>2. \E hits, matched :
             Proceed(h, [task[h] EXCEPT !.todo = @ \ {c}, !.hits = hits, !.matched = matched])
      BY <1>6 DEF EvaluateCase
    <2>3. PICK hits, matched :
             Proceed(h, [task[h] EXCEPT !.todo = @ \ {c}, !.hits = hits, !.matched = matched])
      BY <2>2
    <2>4. [task[h] EXCEPT !.todo = @ \ {c}, !.hits = hits, !.matched = matched].at = "evaluate"
      BY <2>1 DEF Evaluating
    <2> QED
      BY <1>6, <2>3, <2>4, TaskOf DEF Quiet, EvaluateCase, library, results
  <1>7. ASSUME NEW h \in Handler, Evaluate(h) \/ AskSummary(h) PROVE Quiet
    <2>1. CASE Evaluate(h)
      <3>1. PICK todo, given : Begin(h, [at |-> "evaluate", todo |-> todo, given |-> given,
                                         since |-> epoch, hits |-> {}, matched |-> {}])
        BY <2>1 DEF Evaluate
      <3> QED
        BY <2>1, <3>1, TaskOf DEF Quiet, Evaluate, library, results
    <2>2. CASE AskSummary(h)
      BY <2>2, TaskOf DEF Quiet, AskSummary, library, results
    <2> QED
      BY <1>7, <2>1, <2>2
  <1>8. ASSUME NEW h \in Handler, DateRun(h) PROVE Quiet
    BY <1>8, TaskOf DEF Quiet, DateRun, library
  <1>9. ASSUME NEW h \in Handler, Summarize(h) PROVE Quiet
    <2>1. task[h] \in Summing
      BY <1>9, TaskKinds DEF Summarize, TypeInv, TypeOK
    <2>2. PICK i : Proceed(h, [task[h] EXCEPT !.at = "answered", !.latest = i])
      BY <1>9 DEF Summarize
    <2>3. [task[h] EXCEPT !.at = "answered", !.latest = i].at = "answered"
      BY <2>1 DEF Summing
    <2> QED
      BY <1>9, <2>2, <2>3, TaskOf DEF Quiet, Summarize, library, results
  <1>10. ASSUME NEW h \in Handler, Fail(h) PROVE Quiet
    BY <1>10 DEF Quiet, Fail, Idle, TypeInv, TypeOK, library, results
  <1>11. CASE Rest \/ UNCHANGED vars
    BY <1>11 DEF Quiet, Rest, vars, library, results
  <1> QED
    BY <1>1, <1>2, <1>3, <1>4, <1>5, <1>6, <1>7, <1>8, <1>9, <1>10, <1>11

LEMMA ReviewInit == Init => ReviewInv
  <1> SUFFICES ASSUME Init PROVE ReviewInv
    OBVIOUS
  <1>1. reviews \in Seq({<<Pending>>})
    BY AnalysisAssumption DEF Init, AnalysisAssumption
  <1>2. \A r \in DOMAIN reviews : reviews[r] = <<Pending>>
    BY <1>1
  <1>3. /\ DOMAIN <<Pending>> = 1..1 /\ <<Pending>>[1] = Pending /\ <<Pending>> # <<>>
        /\ ~Unnoted(Pending)
    BY DEF Pending, Unnoted
  <1>4. \A h \in Handler : Considered(task[h])
    BY DEF Init, Idle, Considered
  <1> QED
    BY <1>2, <1>3, <1>4 DEF ReviewInv, CompletedHasNote

\* Where no review is written and no patch moves, the records stay in order.
LEMMA ReviewsStay ==
    ASSUME ReviewInv, UNCHANGED reviews,
           \A g \in Handler : task'[g] = task[g] \/ task'[g].at \notin {"read", "write"}
    PROVE  ReviewInv'
  BY DEF ReviewInv, Considered, CompletedHasNote

LEMMA ReviewStep == TypeInv /\ ReviewInv /\ [Next]_vars => ReviewInv'
  <1> SUFFICES ASSUME TypeInv, ReviewInv, [Next]_vars PROVE ReviewInv'
    OBVIOUS
  <1> USE DEF TypeOK
  <1>1. CASE Quiet
    BY <1>1, ReviewsStay DEF Quiet
  <1>2. ASSUME NEW h \in Handler, PutObject(h) \/ PutDocument(h) PROVE ReviewInv'
    <2>1. task[h] \in Uploading
      BY <1>2, TaskKinds DEF PutObject, PutDocument, Advance, TypeInv
    <2>2. PICK t : t.at \in {"document", "announce"} /\ Proceed(h, t)
      <3>1. CASE PutObject(h)
        <4> DEFINE t == [task[h] EXCEPT !.at = "document"]
        <4>1. t.at = "document" /\ Proceed(h, t)
          BY <2>1, <3>1 DEF PutObject, Advance, Uploading
        <4> HIDE DEF t
        <4> QED
          BY <4>1
      <3>2. CASE PutDocument(h)
        <4> DEFINE t == [task[h] EXCEPT !.at = "announce"]
        <4>1. t.at = "announce" /\ Proceed(h, t)
          BY <2>1, <3>2 DEF PutDocument, Advance, Uploading
        <4> HIDE DEF t
        <4> QED
          BY <4>1
      <3> QED
        BY <1>2, <3>1, <3>2
    <2>3. \A g \in Handler : task'[g] = task[g] \/ task'[g].at \notin {"read", "write"}
      BY <2>2, TaskOf
    <2> QED
      BY <1>2, <2>3, ReviewsStay DEF PutObject, PutDocument
  <1>3. ASSUME NEW h \in Handler, NEW a \in Asked, Analyze(h, a) PROVE ReviewInv'
    <2>1. \E made, review : Begin(h, [at |-> "analysis", made |-> made, review |-> review])
      BY <1>3 DEF Analyze
    <2>2. PICK made, review : Begin(h, [at |-> "analysis", made |-> made, review |-> review])
      BY <2>1
    <2> QED
      BY <1>3, <2>2, TaskOf, ReviewsStay DEF Analyze
  <1>4. ASSUME NEW h \in Handler, PutAnalysis(h) PROVE ReviewInv'
    <2>1. task[h] \in Analyzing
      BY <1>4, TaskKinds DEF PutAnalysis, Advance, TypeInv
    <2>2. \A to : [task[h] EXCEPT !.at = to].at = to
      BY <2>1 DEF Analyzing
    <2>3. PICK to \in {"review", "completed"} : Proceed(h, [task[h] EXCEPT !.at = to])
      BY <1>4 DEF PutAnalysis, Advance
    <2> DEFINE t == [task[h] EXCEPT !.at = to]
    <2>4. \A g \in Handler : task'[g] = task[g] \/ task'[g].at \notin {"read", "write"}
      <3>1. t.at \in {"review", "completed"}
        BY <2>2
      <3>2. Proceed(h, t)
        BY <2>3
      <3> HIDE DEF t
      <3> QED
        BY <3>1, <3>2, TaskOf
    <2> QED
      BY <1>4, <2>4, ReviewsStay DEF PutAnalysis
  <1>5. CASE Ingest
    BY <1>5, ReviewsStay DEF Ingest
  <1>6. ASSUME NEW h \in Handler, PutReview(h) PROVE ReviewInv'
    <2>1. task[h] \in Analyzing
      BY <1>6, TaskKinds DEF PutReview, Advance, TypeInv
    <2>2. [task[h] EXCEPT !.at = "completed"].at = "completed"
      BY <2>1 DEF Analyzing
    <2>3. /\ DOMAIN reviews' = 1..(Len(reviews) + 1) /\ DOMAIN reviews = 1..Len(reviews)
          /\ Len(reviews) \in Nat /\ reviews'[Len(reviews) + 1] = <<Pending>>
          /\ \A r \in DOMAIN reviews : reviews'[r] = reviews[r]
      BY <1>6 DEF PutReview, TypeInv
    <2>4. DOMAIN reviews \subseteq DOMAIN reviews'
      BY <2>3
    <2> DEFINE first == <<Pending>>
    <2>5. first # <<>> /\ \A i \in DOMAIN first : ~Unnoted(first[i])
      <3>1. \A i \in DOMAIN first : first[i] = Pending
        OBVIOUS
      <3>2. ~Unnoted(Pending)
        BY DEF Pending, Unnoted
      <3> QED
        BY <3>1, <3>2
    <2> HIDE DEF first
    <2>6. \A r \in DOMAIN reviews' : /\ reviews'[r] # <<>>
                                     /\ \A i \in DOMAIN reviews'[r] : ~Unnoted(reviews'[r][i])
      <3> SUFFICES ASSUME NEW r \in DOMAIN reviews'
                   PROVE  /\ reviews'[r] # <<>>
                          /\ \A i \in DOMAIN reviews'[r] : ~Unnoted(reviews'[r][i])
        OBVIOUS
      <3>1. CASE r \in DOMAIN reviews
        BY <2>3, <3>1 DEF ReviewInv, CompletedHasNote
      <3>2. CASE r = Len(reviews) + 1
        <4>1. reviews'[r] = first
          BY <2>3, <3>2 DEF first
        <4> QED
          BY <2>5, <4>1
      <3> QED
        BY <2>3, <3>1, <3>2
    <2>7. \A g \in Handler : Considered(task[g])'
      <3>1. \A g \in Handler : task'[g] = task[g] \/ task'[g].at = "completed"
        BY <1>6, <2>2, TaskOf DEF PutReview, Advance
      <3> QED
        BY <2>3, <2>4, <3>1 DEF ReviewInv, Considered
    <2> QED
      BY <2>6, <2>7 DEF ReviewInv, CompletedHasNote
  <1>7. ASSUME NEW h \in Handler, NEW r \in DOMAIN reviews, NEW patch \in Buttons \cup Direct,
               UpdateReview(h, r, patch)
        PROVE  ReviewInv'
    <2> DEFINE now == Last(reviews[r])
               value == Merged(now, patch)
               opens(button) == ~button /\ patch.status \in {"pending", "assigned"}
               t(seen, button) == [at |-> "read", card |-> r, value |-> value, seen |-> seen,
                                   opens |-> opens(button), version |-> 0]
    <2>1. PICK seen \in 1..Len(reviews[r]), button \in BOOLEAN :
            /\ button => ~Closed(reviews[r][seen])
            /\ ~button => patch \in Direct /\ seen = Len(reviews[r])
            /\ Begin(h, IF Refused(now, patch) THEN Idle ELSE t(seen, button))
      BY <1>7 DEF UpdateReview
    <2>2. UNCHANGED reviews
      BY <1>7 DEF UpdateReview
    <2>3. CASE Refused(now, patch)
      BY <2>1, <2>2, <2>3, TaskOf, ReviewsStay DEF Idle
    <2>4. CASE ~Refused(now, patch)
      <3>1. ~Unnoted(value)
        BY <2>4 DEF Refused
      <3>2. ASSUME ~Closed(value) PROVE opens(button) \/ ~Closed(reviews[r][seen])
        <4>1. CASE button
          BY <2>1, <4>1
        <4>2. CASE ~button /\ patch.status = "keep"
          <5>1. now = reviews[r][seen]
            BY <2>1, <4>2, LastTypes
          <5>2. ~Closed(now)
            BY <3>2, <4>2 DEF Merged, Closed
          <5> QED
            BY <5>1, <5>2
        <4>3. CASE ~button /\ patch.status # "keep"
          <5>1. patch.status \in Status
            BY <2>1, <4>3, AnalysisAssumption DEF AnalysisAssumption, Update
          <5> QED
            BY <3>2, <4>3, <5>1 DEF Merged, Closed, Status
        <4> QED
          BY <4>1, <4>2, <4>3
      <3>3. seen \in DOMAIN reviews[r]
        BY LastTypes
      <3>4. \A g \in Handler : task'[g] = IF g = h THEN t(seen, button) ELSE task[g]
        BY <2>1, <2>4, TaskOf
      <3> HIDE DEF value, opens
      <3> QED
        BY <2>2, <3>1, <3>2, <3>3, <3>4 DEF ReviewInv, Considered, CompletedHasNote
    <2> QED
      BY <2>3, <2>4
  <1>8. ASSUME NEW h \in Handler, ReadVersion(h) PROVE ReviewInv'
    <2> DEFINE t == [task[h] EXCEPT !.at = "write", !.version = Len(reviews[task[h].card])]
    <2>1. task[h] \in Updating
      BY <1>8, TaskKinds DEF ReadVersion, TypeInv
    <2>2. t.at = "write" /\ t.card = task[h].card /\ t.seen = task[h].seen
          /\ t.value = task[h].value /\ t.opens = task[h].opens
      BY <2>1 DEF Updating
    <2>3. UNCHANGED reviews /\ Proceed(h, t) /\ task[h].at = "read"
      BY <1>8 DEF ReadVersion
    <2> HIDE DEF t
    <2>4. \A g \in Handler : task'[g] = IF g = h THEN t ELSE task[g]
      BY <2>3, TaskOf
    <2>5. Considered(t) /\ \A g \in Handler : Considered(task[g])
      BY <2>2, <2>3 DEF ReviewInv, Considered
    <2> QED
      BY <2>3, <2>4, <2>5 DEF ReviewInv, Considered, CompletedHasNote
  <1>9. ASSUME NEW h \in Handler, WriteReview(h) PROVE ReviewInv'
    <2> DEFINE r == task[h].card
    <2>1. /\ r \in DOMAIN reviews /\ ~Unnoted(task[h].value)
      BY <1>9 DEF WriteReview, Finish, ReviewInv, Considered
    <2>2. \A g \in Handler : task'[g] = IF g = h THEN Idle ELSE task[g]
      BY <1>9, TaskOf DEF WriteReview, Finish
    <2>3. /\ reviews' = [reviews EXCEPT ![r] = Append(@, task[h].value)]
          /\ DOMAIN reviews' = DOMAIN reviews
      BY <1>9, <2>1 DEF WriteReview
    <2>4. /\ reviews[r] \in Seq(Review) /\ Len(reviews[r]) \in Nat
          /\ DOMAIN reviews[r] = 1..Len(reviews[r])
      BY <2>1, LastTypes
    <2> HIDE DEF r
    <2>5. /\ reviews'[r] = Append(reviews[r], task[h].value)
          /\ \A q \in DOMAIN reviews \ {r} : reviews'[q] = reviews[q]
      BY <2>1, <2>3
    <2>6. /\ DOMAIN reviews'[r] = 1..(Len(reviews[r]) + 1)
          /\ \A i \in 1..Len(reviews[r]) : reviews'[r][i] = reviews[r][i]
          /\ reviews'[r][Len(reviews[r]) + 1] = task[h].value
      BY <2>4, <2>5
    <2>7. \A q \in DOMAIN reviews : /\ reviews'[q] # <<>>
                                    /\ DOMAIN reviews[q] \subseteq DOMAIN reviews'[q]
                                    /\ \A i \in DOMAIN reviews[q] : reviews'[q][i] = reviews[q][i]
      BY <2>4, <2>5, <2>6 DEF ReviewInv
    <2>8. \A q \in DOMAIN reviews : \A i \in DOMAIN reviews'[q] : ~Unnoted(reviews'[q][i])
      BY <2>1, <2>4, <2>5, <2>6 DEF ReviewInv, CompletedHasNote
    <2>9. \A g \in Handler : Considered(task[g])'
      BY <2>2, <2>3, <2>7 DEF ReviewInv, Considered, Idle
    <2> QED
      BY <2>3, <2>7, <2>8, <2>9 DEF ReviewInv, CompletedHasNote
  <1> QED
    BY <1>1, <1>2, <1>3, <1>4, <1>5, <1>6, <1>7, <1>8, <1>9, QuietSteps DEF Next

LEMMA CiteInit == Init => CiteInv
  BY AnalysisAssumption DEF Init, CiteInv, CitedIsBacked, Elements, Idle, Sourced

\* Documents only come, so that what is backed stays backed.
LEMMA CitesStay ==
    ASSUME CiteInv, UNCHANGED setting,
           Elements(bucket) \subseteq Elements(bucket'),
           Elements(documents) \subseteq Elements(documents'),
           Elements(documents') \subseteq Elements(bucket'),
           Elements(indexed') \subseteq Elements(bucket'),
           \A a \in analyses' : a \in analyses \/ Backed(a),
           \A g \in Handler : task'[g] = task[g] \/ Sourced(task[g])'
    PROVE  CiteInv'
  <1>1. ASSUME NEW a, Backed(a)
        PROVE  /\ a.cites \subseteq Elements(bucket')
               /\ setting'.rag = "local" => /\ a.cites \subseteq Elements(documents')
                                            /\ \A d \in a.cites : a.versions[d] = d
    BY <1>1 DEF Backed
  <1>2. CitedIsBacked'
    BY <1>1 DEF CiteInv, CitedIsBacked, Backed
  <1>3. \A g \in Handler : Sourced(task[g])'
    <2> SUFFICES ASSUME NEW g \in Handler, task'[g] = task[g] PROVE Sourced(task[g])'
      OBVIOUS
    <2>1. Sourced(task[g])
      BY DEF CiteInv
    <2>2. task[g].at = "analysis" => Backed(task[g].made)
      BY <2>1 DEF Sourced
    <2>3. task[g].at = "analysis" => Backed(task[g].made)'
      BY <1>1, <2>2 DEF Backed
    <2> QED
      BY <2>1, <2>3 DEF Sourced
  <1> QED
    BY <1>2, <1>3 DEF CiteInv

LEMMA CiteStep == TypeInv /\ ReviewInv /\ CiteInv /\ [Next]_vars => CiteInv'
  <1> SUFFICES ASSUME TypeInv, ReviewInv, CiteInv, [Next]_vars PROVE CiteInv'
    OBVIOUS
  <1> USE DEF TypeOK
  <1>1. CASE Quiet
    BY <1>1, CitesStay DEF Quiet, CiteInv, Sourced
  <1>2. ASSUME NEW h \in Handler, PutObject(h) PROVE CiteInv'
    <2>1. task[h] \in Uploading
      BY <1>2, TaskKinds DEF PutObject, Advance, TypeInv
    <2> DEFINE t == [task[h] EXCEPT !.at = "document"]
    <2>2. t.at = "document" /\ t.doc = task[h].doc /\ task[h].doc \in Doc
      BY <2>1 DEF Uploading
    <2>3. Proceed(h, t) /\ UNCHANGED <<setting, documents, indexed, analyses>>
      BY <1>2 DEF PutObject, Advance, Proceed, results
    <2> HIDE DEF t
    <2>4. Elements(bucket') = Elements(bucket) \cup {task[h].doc}
      BY <1>2, <2>2, ElementsOfAppend DEF PutObject, TypeInv
    <2>5. \A g \in Handler : task'[g] = task[g] \/ Sourced(task[g])'
      BY <2>2, <2>3, <2>4, TaskOf DEF Sourced
    <2> QED
      BY <2>3, <2>4, <2>5, CitesStay DEF CiteInv
  <1>3. ASSUME NEW h \in Handler, PutDocument(h) PROVE CiteInv'
    <2>1. task[h] \in Uploading /\ task[h].at = "document"
      BY <1>3, TaskKinds DEF PutDocument, Advance, TypeInv
    <2> DEFINE t == [task[h] EXCEPT !.at = "announce"]
    <2>2. t.at = "announce" /\ task[h].doc \in Doc
      BY <2>1 DEF Uploading
    <2>3. Proceed(h, t) /\ UNCHANGED <<setting, bucket, indexed, analyses>>
      BY <1>3 DEF PutDocument, Advance, Proceed, results
    <2> HIDE DEF t
    <2>4. Elements(documents') = Elements(documents) \cup {task[h].doc}
      BY <1>3, <2>2, ElementsOfAppend DEF PutDocument, TypeInv
    <2>5. task[h].doc \in Elements(bucket)
      BY <2>1 DEF CiteInv, Sourced
    <2>6. \A g \in Handler : task'[g] = task[g] \/ Sourced(task[g])'
      BY <2>2, <2>3, TaskOf DEF Sourced
    <2> QED
      BY <2>3, <2>4, <2>5, <2>6, CitesStay DEF CiteInv
  <1>4. ASSUME NEW h \in Handler, NEW a \in Asked, Analyze(h, a) PROVE CiteInv'
    <2>1. \E chunks \in Retrieved(a.query) : \E review :
             Begin(h, [at |-> "analysis",
                       made |-> [cites |-> chunks, versions |-> Versions(chunks, a.related)],
                       review |-> review])
      BY <1>4 DEF Analyze
    <2>2. PICK chunks \in Retrieved(a.query) : \E review :
             Begin(h, [at |-> "analysis",
                       made |-> [cites |-> chunks, versions |-> Versions(chunks, a.related)],
                       review |-> review])
      BY <2>1
    <2> PICK made : made = [cites |-> chunks, versions |-> Versions(chunks, a.related)]
      OBVIOUS
    <2>3. PICK review : Begin(h, [at |-> "analysis", made |-> made, review |-> review])
      BY <2>2
    <2>4. Backed(made)
      <3>1. chunks \subseteq Elements(Pool)
        BY RetrievedTypes
      <3>2. chunks \subseteq Elements(bucket)
        BY <3>1 DEF Pool, CiteInv
      <3>3. setting.rag = "local" => chunks \subseteq Elements(documents)
        BY <3>1 DEF Pool
      <3>4. setting.rag = "local" => \A d \in chunks : Versions(chunks, a.related)[d] = d
        <4>1. setting.rag = "local" => \A d \in chunks : d \in {ChunkId(e) : e \in chunks}
          BY DEF ChunkId
        <4> QED
          BY <3>3, <4>1 DEF Versions
      <3> QED
        BY <3>2, <3>3, <3>4 DEF Backed
    <2>5. UNCHANGED <<setting, bucket, documents, indexed, analyses>>
      BY <1>4, <2>3 DEF Analyze, Begin, library, results
    <2>6. Backed(made)'
      BY <2>4, <2>5 DEF Backed
    <2>7. \A g \in Handler : task'[g] = task[g] \/ Sourced(task[g])'
      BY <2>3, <2>6, TaskOf DEF Sourced
    <2> QED
      BY <2>5, <2>7, CitesStay DEF CiteInv
  <1>5. ASSUME NEW h \in Handler, PutAnalysis(h) PROVE CiteInv'
    <2>1. task[h] \in Analyzing /\ task[h].at = "analysis"
      BY <1>5, TaskKinds DEF PutAnalysis, Advance, TypeInv
    <2>2. PICK to \in {"review", "completed"} : Proceed(h, [task[h] EXCEPT !.at = to])
      BY <1>5 DEF PutAnalysis, Advance
    <2> DEFINE t == [task[h] EXCEPT !.at = to]
    <2>3. t.at \in {"review", "completed"}
      BY <2>1 DEF Analyzing
    <2>4. Proceed(h, t) /\ Backed(task[h].made)
      BY <2>1, <2>2 DEF CiteInv, Sourced
    <2> HIDE DEF t
    <2>5. \A g \in Handler : task'[g] = task[g] \/ Sourced(task[g])'
      BY <2>3, <2>4, TaskOf DEF Sourced
    <2>6. UNCHANGED <<setting, bucket, documents, indexed>>
      BY <1>5, <2>4 DEF PutAnalysis, Proceed, library
    <2>7. \A a \in analyses' : a \in analyses \/ Backed(a)
      BY <1>5, <2>4 DEF PutAnalysis
    <2> QED
      BY <2>5, <2>6, <2>7, CitesStay DEF CiteInv
  <1>6. CASE Ingest
    <2>1. UNCHANGED <<setting, bucket, documents, analyses, task>> /\ indexed' = bucket
      BY <1>6 DEF Ingest, results
    <2> QED
      BY <2>1, CitesStay DEF CiteInv
  <1>7. ASSUME NEW h \in Handler, PutReview(h) PROVE CiteInv'
    <2>1. task[h] \in Analyzing
      BY <1>7, TaskKinds DEF PutReview, Advance, TypeInv
    <2> DEFINE t == [task[h] EXCEPT !.at = "completed"]
    <2>2. t.at = "completed"
      BY <2>1 DEF Analyzing
    <2>3. Proceed(h, t) /\ UNCHANGED <<setting, bucket, documents, indexed, analyses>>
      BY <1>7 DEF PutReview, Advance, Proceed, library, results
    <2> HIDE DEF t
    <2>4. \A g \in Handler : task'[g] = task[g] \/ Sourced(task[g])'
      BY <2>2, <2>3, TaskOf DEF Sourced
    <2> QED
      BY <2>3, <2>4, CitesStay DEF CiteInv
  <1>8. ASSUME NEW h \in Handler, NEW r \in DOMAIN reviews, NEW patch \in Buttons \cup Direct,
               UpdateReview(h, r, patch)
        PROVE  CiteInv'
    <2>1. PICK t : Begin(h, t) /\ t.at \in {"idle", "read"}
      <3>1. \E seen, opens : Begin(h, IF Refused(Last(reviews[r]), patch) THEN Idle
                       ELSE [at |-> "read", card |-> r, value |-> Merged(Last(reviews[r]), patch),
                             seen |-> seen, opens |-> opens, version |-> 0])
        BY <1>8 DEF UpdateReview
      <3> QED
        BY <3>1 DEF Idle
    <2>2. UNCHANGED <<setting, bucket, documents, indexed, analyses>>
      BY <1>8, <2>1 DEF UpdateReview, Begin, library, results
    <2>3. \A g \in Handler : task'[g] = task[g] \/ Sourced(task[g])'
      BY <2>1, TaskOf DEF Sourced
    <2> QED
      BY <2>2, <2>3, CitesStay DEF CiteInv
  <1>9. ASSUME NEW h \in Handler, ReadVersion(h) \/ WriteReview(h) PROVE CiteInv'
    <2>1. task[h] \in Updating
      BY <1>9, TaskKinds DEF ReadVersion, WriteReview, Finish, TypeInv
    <2>2. PICK t : Proceed(h, t) /\ t.at \in {"idle", "write"}
      <3>1. CASE ReadVersion(h)
        <4>1. \E n : Proceed(h, [task[h] EXCEPT !.at = "write", !.version = n])
          BY <3>1 DEF ReadVersion
        <4>2. \A n : [task[h] EXCEPT !.at = "write", !.version = n].at = "write"
          BY <2>1 DEF Updating
        <4> QED
          BY <4>1, <4>2
      <3>2. CASE WriteReview(h)
        BY <3>2 DEF WriteReview, Finish, Idle
      <3> QED
        BY <1>9, <3>1, <3>2
    <2>3. UNCHANGED <<setting, bucket, documents, indexed, analyses>>
      BY <1>9, <2>2 DEF ReadVersion, WriteReview, Finish, Proceed, library, results
    <2>4. \A g \in Handler : task'[g] = task[g] \/ Sourced(task[g])'
      BY <2>2, TaskOf DEF Sourced
    <2> QED
      BY <2>3, <2>4, CitesStay DEF CiteInv
  <1> QED
    BY <1>1, <1>2, <1>3, <1>4, <1>5, <1>6, <1>7, <1>8, <1>9, QuietSteps DEF Next

-----------------------------------------------------------------------------
(* Evaluations that repeat, and summaries.                                 *)

\* What an evaluation of the cases and documents as they are now finds.
Stored   == [c \in Case |-> Current(c)]
Known    == {c \in Case : Current(c) # 0}
HitsOn(cs) ==
    UNION {{c} \X DocumentHits(Truth[c][Current(c)].refs,
                               Best(Truth[c][Current(c)].query, DOMAIN documents)) : c \in cs}
MatchedOn(cs) ==
    UNION {{c} \X CauseMatch(Truth[c][Current(c)].causes, {MockCause}) : c \in cs}

\* x has judged the cases cs as they are now.
UpToDate(x, cs) ==
    /\ x.given = Stored
    /\ setting.rag = "local" => x.hits = HitsOn(cs)
    /\ setting.engine = "mock" => x.matched = MatchedOn(cs)

Alike(x, y) ==
    /\ x.given = y.given
    /\ setting.rag = "local" => x.hits = y.hits
    /\ setting.engine = "mock" => x.matched = y.matched

\* Runs stored, and runs dated and about to be stored.
DatedRuns == Elements(runs) \cup {task[h].run : h \in {g \in Handler : task[g].at = "store"}}

\* An evaluation that saw no change so far is up to date with what it has judged.
OnCourse(t) ==
    t.at = "evaluate" => /\ t.since <= epoch
                         /\ t.since = epoch => UpToDate(t, Known \ t.todo)

\* Runs of the present epoch are up to date, and runs of one epoch are alike.
RepeatInv ==
    ~setting.lags =>
        /\ \A h \in Handler : OnCourse(task[h])
        /\ \A x \in DatedRuns : /\ \A e \in x.during : e <= epoch
                                /\ epoch \in x.during => UpToDate(x, Known)
        /\ \A x, y \in DatedRuns : x.during \cap y.during # {} => Alike(x, y)

\* A summary was asked for when no more runs were stored than now, and the one it
\* answers with is as new as each of those.
Recent(t) ==
    /\ t.at \in {"summary", "answered"} => t.asked <= Len(runs)
    /\ t.at = "answered" /\ ~setting.lags =>
         \A i \in 1..t.asked : /\ t.latest \in DOMAIN runs
                               /\ runs[i].created <= runs[t.latest].created

RecentInv == \A h \in Handler : Recent(task[h])

RunsAs == {"evaluate", "store"}
SumsAs == {"summary", "answered"}

\* A step of another request: it may change what evaluations read, and says so.
Aside ==
    /\ UNCHANGED <<setting, runs>>
    /\ UNCHANGED <<documents, dataset, epoch>> \/ epoch' = epoch + 1
    /\ \A g \in Handler : task'[g] = task[g] \/ task'[g].at \notin RunsAs \cup SumsAs

LEMMA AsideSteps ==
    ASSUME TypeInv,
           \/ \E h \in Handler :
                \/ \E d \in Doc : Upload(h, d)
                \/ PutObject(h) \/ PutDocument(h) \/ AnnounceDocument(h) \/ Sync(h)
                \/ \E a \in Asked : Analyze(h, a)
                \/ PutAnalysis(h) \/ PutReview(h) \/ Completed(h)
                \/ \E r \in DOMAIN reviews, patch \in Buttons \cup Direct : UpdateReview(h, r, patch)
                \/ ReadVersion(h) \/ WriteReview(h) \/ Conflict(h)
                \/ \E c \in Case : \E g \in DOMAIN Truth[c] : Register(h, g)
                \/ \E c \in Case : PutCase(h, c)
                \/ Answered(h) \/ Fail(h)
           \/ Ingest \/ Rest \/ UNCHANGED vars
    PROVE  Aside
  <1> USE DEF RunsAs, SumsAs
  <1>1. ASSUME NEW h \in Handler, NEW d \in Doc, Upload(h, d) PROVE Aside
    BY <1>1, TaskOf DEF Aside, Upload, library, results
  <1>2. ASSUME NEW h \in Handler, PutObject(h) \/ PutDocument(h) PROVE Aside
    <2>1. task[h] \in Uploading
      BY <1>2, TaskKinds DEF PutObject, PutDocument, Advance, TypeInv, TypeOK
    <2>2. \A to : [task[h] EXCEPT !.at = to].at = to
      BY <2>1 DEF Uploading
    <2>3. \E to \in {"document", "announce"} : Proceed(h, [task[h] EXCEPT !.at = to])
      BY <1>2 DEF PutObject, PutDocument, Advance
    <2>4. PICK t : Proceed(h, t) /\ t.at \in {"document", "announce"}
      BY <2>2, <2>3
    <2> QED
      BY <1>2, <2>4, TaskOf DEF Aside, PutObject, PutDocument, results
  <1>3. ASSUME NEW h \in Handler,
               AnnounceDocument(h) \/ Completed(h) \/ Conflict(h) \/ Answered(h) \/ WriteReview(h)
        PROVE  Aside
    <2>1. Proceed(h, Idle)
      BY <1>3 DEF AnnounceDocument, Completed, Conflict, Answered, WriteReview, Finish
    <2>2. UNCHANGED <<documents, dataset, runs, epoch>>
      BY <1>3 DEF AnnounceDocument, Completed, Conflict, Answered, WriteReview, library, results
    <2>3. /\ setting' = setting
          /\ \A g \in Handler : task'[g] = IF g = h THEN Idle ELSE task[g]
      BY <2>1, TaskOf
    <2> QED
      BY <2>2, <2>3 DEF Aside, Idle
  <1>4. ASSUME NEW h \in Handler, Sync(h) PROVE Aside
    BY <1>4, TaskOf DEF Aside, Sync, Idle, results
  <1>5. ASSUME NEW h \in Handler, NEW a \in Asked, Analyze(h, a) PROVE Aside
    <2>1. \E made, review : Begin(h, [at |-> "analysis", made |-> made, review |-> review])
      BY <1>5 DEF Analyze
    <2>2. PICK made, review : Begin(h, [at |-> "analysis", made |-> made, review |-> review])
      BY <2>1
    <2>3. UNCHANGED <<documents, dataset, runs, epoch>>
      BY <1>5 DEF Analyze, library, results
    <2> QED
      BY <2>2, <2>3, TaskOf DEF Aside
  <1>6. ASSUME NEW h \in Handler, PutAnalysis(h) \/ PutReview(h) PROVE Aside
    <2>1. task[h] \in Analyzing
      BY <1>6, TaskKinds DEF PutAnalysis, PutReview, Advance, TypeInv, TypeOK
    <2>2. \A to : [task[h] EXCEPT !.at = to].at = to
      BY <2>1 DEF Analyzing
    <2>3. \E to \in {"review", "completed"} : Proceed(h, [task[h] EXCEPT !.at = to])
      BY <1>6 DEF PutAnalysis, PutReview, Advance
    <2>4. PICK t : Proceed(h, t) /\ t.at \in {"review", "completed"}
      BY <2>2, <2>3
    <2> QED
      BY <1>6, <2>4, TaskOf DEF Aside, PutAnalysis, PutReview, library, results
  <1>7. ASSUME NEW h \in Handler, NEW r \in DOMAIN reviews, NEW patch \in Buttons \cup Direct,
               UpdateReview(h, r, patch)
        PROVE  Aside
    <2>1. \E seen, opens : Begin(h, IF Refused(Last(reviews[r]), patch) THEN Idle
                       ELSE [at |-> "read", card |-> r, value |-> Merged(Last(reviews[r]), patch),
                             seen |-> seen, opens |-> opens, version |-> 0])
      BY <1>7 DEF UpdateReview
    <2>2. PICK t : Begin(h, t) /\ t.at \in {"idle", "read"}
      BY <2>1 DEF Idle
    <2> QED
      BY <1>7, <2>2, TaskOf DEF Aside, UpdateReview, library, results
  <1>8. ASSUME NEW h \in Handler, ReadVersion(h) PROVE Aside
    <2>1. task[h] \in Updating
      BY <1>8, TaskKinds DEF ReadVersion, TypeInv, TypeOK
    <2>2. \E n : Proceed(h, [task[h] EXCEPT !.at = "write", !.version = n])
      BY <1>8 DEF ReadVersion
    <2>3. \A n : [task[h] EXCEPT !.at = "write", !.version = n].at = "write"
      BY <2>1 DEF Updating
    <2>4. PICK t : Proceed(h, t) /\ t.at = "write"
      BY <2>2, <2>3
    <2> QED
      BY <1>8, <2>4, TaskOf DEF Aside, ReadVersion, library, results
  <1>9. ASSUME NEW h \in Handler, NEW c \in Case, NEW g \in DOMAIN Truth[c], Register(h, g)
        PROVE  Aside
    BY <1>9, TaskOf DEF Aside, Register, library, results
  <1>10. ASSUME NEW h \in Handler, NEW c \in Case, PutCase(h, c) PROVE Aside
    <2>1. task[h] \in Registering
      BY <1>10, TaskKinds DEF PutCase, TypeInv, TypeOK
    <2>2. (IF task[h].todo = {c} THEN Idle ELSE [task[h] EXCEPT !.todo = @ \ {c}]).at
             \in {"idle", "register"}
      BY <2>1 DEF Registering, Idle
    <2>3. PICK t : Proceed(h, t) /\ t.at \in {"idle", "register"}
      BY <1>10, <2>2 DEF PutCase
    <2> QED
      BY <1>10, <2>3, TaskOf DEF Aside, PutCase, results
  <1>11. ASSUME NEW h \in Handler, Fail(h) PROVE Aside
    BY <1>11 DEF Aside, Fail, Idle, TypeInv, TypeOK, library, results
  <1>12. CASE Ingest \/ Rest \/ UNCHANGED vars
    BY <1>12 DEF Aside, Ingest, Rest, vars, library, results
  <1> QED
    BY <1>1, <1>2, <1>3, <1>4, <1>5, <1>6, <1>7, <1>8, <1>9, <1>10, <1>11, <1>12

\* Stored and dated runs are runs.
LEMMA DatedTypes ==
    ASSUME TypeInv PROVE DatedRuns \subseteq Run
  <1>1. Elements(runs) \subseteq Run
    BY ElementsAreTyped DEF TypeInv, TypeOK
  <1>2. \A h \in Handler : task[h].at = "store" => task[h].run \in Run
    BY TaskKinds DEF TypeInv, TypeOK, Storing
  <1> QED
    BY <1>1, <1>2 DEF DatedRuns

\* What an evaluation finds depends on the cases, the documents and the setting.
LEMMA SameFindings ==
    ASSUME UNCHANGED <<setting, documents, dataset>>
    PROVE  /\ Known' = Known
           /\ \A x, cs : UpToDate(x, cs) <=> UpToDate(x, cs)'
  <1>1. Known' = Known /\ Stored' = Stored
    BY DEF Known, Stored, Current
  <1>2. \A cs : HitsOn(cs)' = HitsOn(cs)
    BY DEF HitsOn, Best, Current
  <1>3. \A cs : MatchedOn(cs)' = MatchedOn(cs)
    BY DEF MatchedOn, Current
  <1> QED
    BY <1>1, <1>2, <1>3 DEF UpToDate

\* A step that dates no run and leaves every evaluation on course.
LEMMA RepeatKept ==
    ASSUME TypeInv, RepeatInv, UNCHANGED setting,
           UNCHANGED <<documents, dataset, epoch>> \/ epoch' = epoch + 1,
           DatedRuns' \subseteq DatedRuns,
           \A g \in Handler : task'[g] = task[g] \/ (~setting.lags => OnCourse(task[g])')
    PROVE  RepeatInv'
  <1> SUFFICES ASSUME ~setting.lags
               PROVE  /\ \A h \in Handler : OnCourse(task[h])'
                      /\ \A x \in DatedRuns' : /\ \A e \in x.during : e <= epoch'
                                               /\ epoch' \in x.during => UpToDate(x, Known)'
                      /\ \A x, y \in DatedRuns' : x.during \cap y.during # {} => Alike(x, y)'
    BY DEF RepeatInv
  <1>1. /\ \A h \in Handler : OnCourse(task[h])
        /\ \A x \in DatedRuns : /\ \A e \in x.during : e <= epoch
                                /\ epoch \in x.during => UpToDate(x, Known)
        /\ \A x, y \in DatedRuns : x.during \cap y.during # {} => Alike(x, y)
    BY DEF RepeatInv
  <1>2. epoch \in Nat /\ \A x \in DatedRuns : x.during \subseteq Nat
    BY DatedTypes DEF TypeInv, TypeOK, Run
  <1>3. \A g \in Handler : task[g].at = "evaluate" => task[g].since \in Nat
    BY TaskKinds DEF TypeInv, TypeOK, Evaluating
  <1>4. \A x, y \in DatedRuns' : x.during \cap y.during # {} => Alike(x, y)'
    BY <1>1 DEF Alike
  <1>5. CASE UNCHANGED <<documents, dataset, epoch>>
    <2>1. Known' = Known /\ \A x, cs : UpToDate(x, cs) <=> UpToDate(x, cs)'
      BY <1>5, SameFindings
    <2>2. ASSUME NEW h \in Handler PROVE OnCourse(task[h])'
      <3> SUFFICES ASSUME task'[h].at = "evaluate", task'[h] = task[h]
                   PROVE  /\ task'[h].since <= epoch'
                          /\ task'[h].since = epoch' => UpToDate(task[h], Known \ task[h].todo)'
        BY DEF OnCourse
      <3>1. PICK x : x = task[h] /\ x = task'[h]
        OBVIOUS
      <3>2. x.since <= epoch /\ (x.since = epoch => UpToDate(x, Known \ x.todo))
        BY <1>1, <3>1 DEF OnCourse
      <3>3. x.since = epoch => UpToDate(x, Known \ x.todo)'
        BY <2>1, <3>2
      <3> QED
        BY <1>5, <3>1, <3>2, <3>3 DEF UpToDate
    <2>3. ASSUME NEW x \in DatedRuns'
          PROVE  /\ \A e \in x.during : e <= epoch'
                 /\ epoch' \in x.during => UpToDate(x, Known)'
      <3>1. epoch \in x.during => UpToDate(x, Known)'
        BY <1>1, <2>1
      <3> QED
        BY <1>1, <1>5, <3>1
    <2> QED
      BY <1>4, <2>2, <2>3
  <1>6. CASE epoch' = epoch + 1
    <2>1. ASSUME NEW h \in Handler PROVE OnCourse(task[h])'
      <3> SUFFICES ASSUME task'[h].at = "evaluate", task'[h] = task[h]
                   PROVE  task'[h].since <= epoch' /\ task'[h].since # epoch'
        BY DEF OnCourse
      <3>1. task[h].since \in Nat /\ task[h].since <= epoch
        BY <1>1, <1>3 DEF OnCourse
      <3> QED
        BY <1>2, <1>6, <3>1
    <2>2. ASSUME NEW x \in DatedRuns'
          PROVE  (\A e \in x.during : e <= epoch') /\ epoch' \notin x.during
      <3>1. x.during \subseteq Nat /\ \A e \in x.during : e <= epoch
        BY <1>1, <1>2
      <3> QED
        BY <1>2, <1>6, <3>1
    <2> QED
      BY <1>4, <2>1, <2>2
  <1> QED
    BY <1>5, <1>6

\* The dated runs, after a step that leaves every other request alone.
LEMMA DatedAfter ==
    ASSUME UNCHANGED runs,
           \A g \in Handler : task'[g] = task[g] \/ task'[g].at # "store"
    PROVE  DatedRuns' \subseteq DatedRuns
  BY DEF DatedRuns, Elements

\* An index that does not lag shows the cases and the documents there are.
LEMMA ShowsAll ==
    ASSUME ~setting.lags
    PROVE  /\ \A given \in Listings : given = Stored
           /\ setting.rag = "local" => \A q : Retrieved(q) = {Best(q, DOMAIN documents)}
           /\ Shown(runs) = {DOMAIN runs}
  <1>1. ASSUME NEW given \in Listings PROVE given = Stored
    <2>1. given = [c \in Case |-> given[c]] /\ \A c \in Case : given[c] \in Listed(c)
      BY DEF Listings
    <2>2. \A c \in Case : given[c] = Current(c)
      BY <2>1 DEF Listed
    <2> QED
      BY <2>1, <2>2 DEF Stored
  <1> QED
    BY <1>1 DEF Retrieved, Shown

\* One more case is judged.
LEMMA OneMore ==
    ASSUME NEW cs, NEW c
    PROVE  /\ HitsOn(cs \cup {c}) = HitsOn(cs) \cup
                ({c} \X DocumentHits(Truth[c][Current(c)].refs,
                                     Best(Truth[c][Current(c)].query, DOMAIN documents)))
           /\ MatchedOn(cs \cup {c}) = MatchedOn(cs) \cup
                ({c} \X CauseMatch(Truth[c][Current(c)].causes, {MockCause}))
  <1> DEFINE H(e) == {e} \X DocumentHits(Truth[e][Current(e)].refs,
                                         Best(Truth[e][Current(e)].query, DOMAIN documents))
             M(e) == {e} \X CauseMatch(Truth[e][Current(e)].causes, {MockCause})
  <1>1. \A es, m : m \in HitsOn(es) <=> \E e \in es : m \in H(e)
    BY DEF HitsOn
  <1>2. \A es, m : m \in MatchedOn(es) <=> \E e \in es : m \in M(e)
    BY DEF MatchedOn
  <1> HIDE DEF H, M
  <1>3. \A m : m \in HitsOn(cs \cup {c}) <=> m \in HitsOn(cs) \cup H(c)
    BY <1>1
  <1>4. \A m : m \in MatchedOn(cs \cup {c}) <=> m \in MatchedOn(cs) \cup M(c)
    BY <1>2
  <1>5. HitsOn(cs \cup {c}) = HitsOn(cs) \cup H(c)
    BY <1>3
  <1>6. MatchedOn(cs \cup {c}) = MatchedOn(cs) \cup M(c)
    BY <1>4
  <1> QED
    BY <1>5, <1>6 DEF H, M

LEMMA RepeatInit == Init => RepeatInv
  <1> SUFFICES ASSUME Init PROVE RepeatInv
    OBVIOUS
  <1>1. DatedRuns = {} /\ \A h \in Handler : task[h].at = "idle"
    BY DEF Init, DatedRuns, Elements, Idle
  <1> QED
    BY <1>1 DEF RepeatInv, OnCourse

\* An evaluation starts from the cases as they are, or judges one more of them.
LEMMA EvaluateStays ==
    ASSUME TypeInv, RepeatInv, NEW h \in Handler,
           Evaluate(h) \/ \E c \in Case : EvaluateCase(h, c)
    PROVE  RepeatInv'
  <1>1. UNCHANGED <<setting, documents, dataset, epoch, runs>>
    BY DEF Evaluate, EvaluateCase, Begin, Proceed, library, results
  <1>2. Known' = Known /\ \A x, cs : UpToDate(x, cs) <=> UpToDate(x, cs)'
    BY <1>1, SameFindings
  <1>3. epoch \in Nat
    BY DEF TypeInv, TypeOK
  <1>4. SUFFICES ASSUME NEW t, Begin(h, t) \/ Proceed(h, t), t.at = "evaluate",
                        ~setting.lags => /\ t.since <= epoch
                                         /\ t.since = epoch => UpToDate(t, Known \ t.todo)
                 PROVE  RepeatInv'
    <2>1. ASSUME Evaluate(h)
          PROVE  \E t : /\ Begin(h, t) /\ t.at = "evaluate"
                        /\ ~setting.lags => /\ t.since <= epoch
                                            /\ t.since = epoch => UpToDate(t, Known \ t.todo)
      <3>1. PICK given \in Listings :
               Begin(h, [at |-> "evaluate", todo |-> {c \in Case : given[c] # 0}, given |-> given,
                         since |-> epoch, hits |-> {}, matched |-> {}])
        BY <2>1 DEF Evaluate
      <3> DEFINE t == [at |-> "evaluate", todo |-> {c \in Case : given[c] # 0}, given |-> given,
                       since |-> epoch, hits |-> {}, matched |-> {}]
      <3>2. ASSUME ~setting.lags PROVE t.since <= epoch /\ UpToDate(t, Known \ t.todo)
        <4>1. given = Stored
          BY <3>2, ShowsAll
        <4>2. t.todo = Known
          BY <4>1 DEF Known, Stored
        <4>3. HitsOn(Known \ t.todo) = {} /\ MatchedOn(Known \ t.todo) = {}
          BY <4>2 DEF HitsOn, MatchedOn
        <4> QED
          BY <1>3, <4>1, <4>3 DEF UpToDate
      <3> QED
        BY <3>1, <3>2
    <2>2. ASSUME NEW c \in Case, EvaluateCase(h, c)
          PROVE  \E t : /\ Proceed(h, t) /\ t.at = "evaluate"
                        /\ ~setting.lags => /\ t.since <= epoch
                                            /\ t.since = epoch => UpToDate(t, Known \ t.todo)
      <3> DEFINE case == Truth[c][task[h].given[c]]
      <3>1. /\ task[h].at = "evaluate" /\ task[h] \in Evaluating /\ c \in task[h].todo
            /\ task[h].given[c] # 0
        BY <2>2, TaskKinds DEF EvaluateCase, TypeInv, TypeOK, JudgedSoFar
      <3>2. PICK chunks \in Retrieved(case.query) :
              \E reply \in Replies({ChunkId(d) : d \in chunks}) :
                Proceed(h, [task[h] EXCEPT
                    !.todo = @ \ {c},
                    !.hits = @ \cup ({c} \X DocumentHits(case.refs, chunks)),
                    !.matched = @ \cup ({c} \X CauseMatch(case.causes, reply.causes))])
        BY <2>2 DEF EvaluateCase
      <3>3. PICK reply \in Replies({ChunkId(d) : d \in chunks}) :
                Proceed(h, [task[h] EXCEPT
                    !.todo = @ \ {c},
                    !.hits = @ \cup ({c} \X DocumentHits(case.refs, chunks)),
                    !.matched = @ \cup ({c} \X CauseMatch(case.causes, reply.causes))])
        BY <3>2
      <3> DEFINE found == {c} \X DocumentHits(case.refs, chunks)
                 right == {c} \X CauseMatch(case.causes, reply.causes)
                 t == [task[h] EXCEPT !.todo = @ \ {c}, !.hits = @ \cup found,
                                      !.matched = @ \cup right]
      <3>4. Proceed(h, t)
        BY <3>3
      <3>5. setting.engine = "mock" => reply.causes = {MockCause}
        BY DEF Replies, MockReply
      <3> HIDE DEF found, right
      <3>6. /\ t.at = "evaluate" /\ t.todo = task[h].todo \ {c} /\ t.given = task[h].given
            /\ t.since = task[h].since /\ t.hits = task[h].hits \cup found
            /\ t.matched = task[h].matched \cup right
        BY <3>1 DEF Evaluating
      <3> HIDE DEF t
      <3>7. ASSUME ~setting.lags
            PROVE  t.since <= epoch /\ (t.since = epoch => UpToDate(t, Known \ t.todo))
        <4>1. OnCourse(task[h])
          BY <3>7 DEF RepeatInv
        <4>2. t.since <= epoch
          BY <3>1, <3>6, <4>1 DEF OnCourse
        <4>3. ASSUME t.since = epoch PROVE UpToDate(t, Known \ t.todo)
          <5>1. UpToDate(task[h], Known \ task[h].todo)
            BY <3>1, <3>6, <4>1, <4>3 DEF OnCourse
          <5>2. task[h].given = Stored /\ task[h].given[c] = Current(c) /\ c \in Known
            BY <3>1, <5>1 DEF UpToDate, Stored, Known
          <5>3. Known \ t.todo = (Known \ task[h].todo) \cup {c}
            BY <3>6, <5>2
          <5>4. case = Truth[c][Current(c)]
            BY <5>2
          <5>5. setting.rag = "local" =>
                  found = {c} \X DocumentHits(Truth[c][Current(c)].refs,
                                   Best(Truth[c][Current(c)].query, DOMAIN documents))
            <6>1. setting.rag = "local" => chunks = Best(case.query, DOMAIN documents)
              BY <3>2, <3>7, ShowsAll
            <6> QED
              BY <5>4, <6>1 DEF found
          <5>6. setting.engine = "mock" =>
                  right = {c} \X CauseMatch(Truth[c][Current(c)].causes, {MockCause})
            BY <3>5, <5>4 DEF right
          <5> HIDE DEF case
          <5> DEFINE cs == Known \ task[h].todo
          <5>7. /\ setting.rag = "local" => task[h].hits = HitsOn(cs)
                /\ setting.engine = "mock" => task[h].matched = MatchedOn(cs)
            BY <5>1 DEF UpToDate
          <5> HIDE DEF cs
          <5>8. /\ HitsOn(cs \cup {c}) = HitsOn(cs) \cup
                     ({c} \X DocumentHits(Truth[c][Current(c)].refs,
                                          Best(Truth[c][Current(c)].query, DOMAIN documents)))
                /\ MatchedOn(cs \cup {c}) = MatchedOn(cs) \cup
                     ({c} \X CauseMatch(Truth[c][Current(c)].causes, {MockCause}))
            BY OneMore
          <5>9. Known \ t.todo = cs \cup {c}
            BY <5>3 DEF cs
          <5>10. setting.rag = "local" => t.hits = HitsOn(Known \ t.todo)
            BY <3>6, <5>5, <5>7, <5>8, <5>9
          <5>11. setting.engine = "mock" => t.matched = MatchedOn(Known \ t.todo)
            BY <3>6, <5>6, <5>7, <5>8, <5>9
          <5> QED
            BY <3>6, <5>2, <5>10, <5>11 DEF UpToDate
        <4> QED
          BY <4>2, <4>3
      <3> QED
        BY <3>4, <3>6, <3>7, <3>1
    <2> QED
      BY <2>1, <2>2
  <1>5. \A g \in Handler : task'[g] = IF g = h THEN t ELSE task[g]
    BY <1>4, TaskOf
  <1>6. DatedRuns' \subseteq DatedRuns
    BY <1>1, <1>4, <1>5, DatedAfter
  <1>7. ASSUME ~setting.lags PROVE OnCourse(task[h])'
    <2>1. t.since <= epoch' /\ (t.since = epoch' => UpToDate(t, Known \ t.todo)')
      BY <1>1, <1>2, <1>4, <1>7
    <2> QED
      BY <1>5, <2>1 DEF OnCourse, UpToDate
  <1> QED
    BY <1>1, <1>5, <1>6, <1>7, RepeatKept

\* A run is dated: if nothing changed meanwhile it is up to date, and so like
\* every other run of this epoch.
LEMMA DateRunStays ==
    ASSUME TypeInv, RepeatInv, NEW h \in Handler, DateRun(h)
    PROVE  RepeatInv'
  <1> DEFINE run == [created |-> clock + 1, given |-> task[h].given, hits |-> task[h].hits,
                     matched |-> task[h].matched, during |-> {task[h].since} \cap {epoch}]
  <1>1. /\ task[h].at = "evaluate" /\ task[h].todo = {}
        /\ Proceed(h, [at |-> "store", run |-> run])
        /\ UNCHANGED <<setting, documents, dataset, epoch, runs>>
    BY DEF DateRun, Proceed, library
  <1>2. /\ run.given = task[h].given /\ run.hits = task[h].hits
        /\ run.matched = task[h].matched /\ run.during = {task[h].since} \cap {epoch}
    OBVIOUS
  <1> HIDE DEF run
  <1>3. \A g \in Handler : task'[g] = IF g = h THEN [at |-> "store", run |-> run] ELSE task[g]
    BY <1>1, TaskOf
  <1>4. DatedRuns' \subseteq DatedRuns \cup {run}
    BY <1>1, <1>3 DEF DatedRuns, Elements
  <1>5. Known' = Known /\ \A x, cs : UpToDate(x, cs) <=> UpToDate(x, cs)'
    BY <1>1, SameFindings
  <1> SUFFICES ASSUME ~setting.lags
               PROVE  /\ \A g \in Handler : OnCourse(task[g])'
                      /\ \A x \in DatedRuns' : /\ \A e \in x.during : e <= epoch'
                                               /\ epoch' \in x.during => UpToDate(x, Known)'
                      /\ \A x, y \in DatedRuns' : x.during \cap y.during # {} => Alike(x, y)'
    BY <1>1 DEF RepeatInv
  <1>6. /\ \A g \in Handler : OnCourse(task[g])
        /\ \A x \in DatedRuns : /\ \A e \in x.during : e <= epoch
                                /\ epoch \in x.during => UpToDate(x, Known)
        /\ \A x, y \in DatedRuns : x.during \cap y.during # {} => Alike(x, y)
    BY DEF RepeatInv
  <1>7. epoch \in Nat /\ run.during \subseteq {epoch}
    BY <1>2 DEF TypeInv, TypeOK
  <1>8. epoch \in run.during => UpToDate(run, Known)
    <2>1. ASSUME epoch \in run.during PROVE UpToDate(task[h], Known)
      <3>1. task[h].since = epoch /\ Known \ task[h].todo = Known
        BY <1>1, <1>2, <2>1
      <3> QED
        BY <1>1, <1>6, <3>1 DEF OnCourse
    <2> QED
      BY <1>2, <2>1 DEF UpToDate
  <1>9. \A g \in Handler : OnCourse(task[g])'
    <2> SUFFICES ASSUME NEW g \in Handler, task'[g].at = "evaluate"
                 PROVE  /\ task'[g].since <= epoch'
                        /\ task'[g].since = epoch' => UpToDate(task[g], Known \ task[g].todo)'
      BY DEF OnCourse
    <2>1. task'[g] = task[g]
      BY <1>3
    <2>2. PICK x : x = task[g] /\ x = task'[g]
      BY <2>1
    <2>3. x.since <= epoch /\ (x.since = epoch => UpToDate(x, Known \ x.todo))
      BY <1>6, <2>2 DEF OnCourse
    <2>4. x.since = epoch => UpToDate(x, Known \ x.todo)'
      BY <1>5, <2>3
    <2> QED
      BY <1>1, <2>2, <2>3, <2>4 DEF UpToDate
  <1>10. ASSUME NEW x \in DatedRuns'
         PROVE  /\ \A e \in x.during : e <= epoch'
                /\ epoch' \in x.during => UpToDate(x, Known)'
    <2>1. \A e \in x.during : e <= epoch
      BY <1>4, <1>6, <1>7
    <2>2. epoch \in x.during => UpToDate(x, Known)
      BY <1>4, <1>6, <1>8
    <2>3. epoch \in x.during => UpToDate(x, Known)'
      BY <1>5, <2>2
    <2> QED
      BY <1>1, <2>1, <2>3
  <1>11. ASSUME NEW x \in DatedRuns', NEW y \in DatedRuns', x.during \cap y.during # {}
         PROVE  Alike(x, y)'
    <2>1. CASE x \in DatedRuns /\ y \in DatedRuns
      BY <1>1, <1>6, <1>11, <2>1 DEF Alike
    <2>2. CASE x = run \/ y = run
      <3>1. epoch \in x.during /\ epoch \in y.during
        BY <1>7, <1>11, <2>2
      <3>2. UpToDate(x, Known) /\ UpToDate(y, Known)
        BY <1>4, <1>6, <1>8, <3>1
      <3> QED
        BY <1>1, <3>2 DEF UpToDate, Alike
    <2> QED
      BY <1>4, <2>1, <2>2
  <1> QED
    BY <1>9, <1>10, <1>11

\* The dated run goes to the table.
LEMMA StoreRunStays ==
    ASSUME TypeInv, RepeatInv, NEW h \in Handler, StoreRun(h)
    PROVE  RepeatInv'
  <1>1. /\ task[h].at = "store" /\ Proceed(h, Idle) /\ runs' = Append(runs, task[h].run)
        /\ UNCHANGED <<setting, documents, dataset, epoch>>
    BY DEF StoreRun, Finish, Proceed, library
  <1>2. task[h].run \in Run /\ runs \in Seq(Run)
    BY <1>1, TaskKinds DEF TypeInv, TypeOK, Storing
  <1>3. \A g \in Handler : task'[g] = IF g = h THEN Idle ELSE task[g]
    BY <1>1, TaskOf
  <1>4. Elements(runs') = Elements(runs) \cup {task[h].run}
    BY <1>1, <1>2, ElementsOfAppend
  <1>5. DatedRuns' \subseteq DatedRuns
    BY <1>1, <1>3, <1>4 DEF DatedRuns, Idle
  <1>6. \A g \in Handler : task'[g] = task[g] \/ OnCourse(task[g])'
    BY <1>3 DEF OnCourse, Idle
  <1> QED
    BY <1>1, <1>5, <1>6, RepeatKept

LEMMA SummarizeTask ==
    ASSUME TypeInv, NEW h \in Handler, AskSummary(h) \/ Summarize(h)
    PROVE  /\ UNCHANGED <<setting, documents, dataset, epoch, runs>>
           /\ \A g \in Handler \ {h} : task'[g] = task[g]
           /\ task'[h].at \in SumsAs
           /\ AskSummary(h) => task'[h].at = "summary" /\ task'[h].asked = Len(runs)
           /\ Summarize(h) => /\ task[h].at = "summary" /\ task'[h].asked = task[h].asked
                              /\ \E shown \in Shown(runs) : task'[h].latest \in Latest(shown)
  <1>1. CASE AskSummary(h)
    <2> DEFINE t == [at |-> "summary", asked |-> Len(runs), latest |-> 0]
    <2>1. /\ Begin(h, t) /\ t.at = "summary" /\ t.asked = Len(runs)
          /\ UNCHANGED <<documents, dataset, epoch, runs>>
      BY <1>1 DEF AskSummary, library, results
    <2> HIDE DEF t
    <2>2. task[h].at = "idle" /\ UNCHANGED setting
      BY <2>1 DEF Begin, Idle
    <2>4. \A g \in Handler : task'[g] = IF g = h THEN t ELSE task[g]
      BY <2>1, TaskOf
    <2>3. ~Summarize(h)
      BY <2>2 DEF Summarize
    <2> QED
      BY <2>1, <2>2, <2>3, <2>4 DEF SumsAs
  <1>2. CASE Summarize(h)
    <2>1. task[h].at = "summary" /\ task[h] \in Summing
      BY <1>2, TaskKinds DEF Summarize, TypeInv, TypeOK
    <2>2. PICK shown \in Shown(runs) : \E i \in Latest(shown) :
             Proceed(h, [task[h] EXCEPT !.at = "answered", !.latest = i])
      BY <1>2 DEF Summarize
    <2>3. PICK i \in Latest(shown) : Proceed(h, [task[h] EXCEPT !.at = "answered", !.latest = i])
      BY <2>2
    <2> DEFINE t == [task[h] EXCEPT !.at = "answered", !.latest = i]
    <2>4. t.at = "answered" /\ t.asked = task[h].asked /\ t.latest = i
      BY <2>1 DEF Summing
    <2>5. Proceed(h, t)
      BY <2>3
    <2> HIDE DEF t
    <2>6. \A g \in Handler : task'[g] = IF g = h THEN t ELSE task[g]
      BY <2>5, TaskOf
    <2>7. ~AskSummary(h)
      BY <2>1 DEF AskSummary, Begin, Idle
    <2> QED
      BY <1>2, <2>1, <2>3, <2>4, <2>5, <2>6, <2>7 DEF Summarize, Proceed, SumsAs, library, results
  <1> QED
    BY <1>1, <1>2

LEMMA RepeatStep == TypeInv /\ RepeatInv /\ [Next]_vars => RepeatInv'
  <1> SUFFICES ASSUME TypeInv, RepeatInv, [Next]_vars PROVE RepeatInv'
    OBVIOUS
  <1>1. CASE Aside
    <2>1. DatedRuns' \subseteq DatedRuns
      BY <1>1, DatedAfter DEF Aside, RunsAs
    <2>2. \A g \in Handler : task'[g] = task[g] \/ OnCourse(task[g])'
      BY <1>1 DEF Aside, RunsAs, OnCourse
    <2> QED
      BY <1>1, <2>1, <2>2, RepeatKept DEF Aside
  <1>2. ASSUME NEW h \in Handler, AskSummary(h) \/ Summarize(h) PROVE RepeatInv'
    <2>1. /\ UNCHANGED <<setting, documents, dataset, epoch, runs>>
          /\ \A g \in Handler : task'[g] = task[g] \/ task'[g].at \in SumsAs
      BY <1>2, SummarizeTask
    <2>2. DatedRuns' \subseteq DatedRuns
      BY <2>1, DatedAfter DEF SumsAs
    <2>3. \A g \in Handler : task'[g] = task[g] \/ OnCourse(task[g])'
      BY <2>1 DEF OnCourse, SumsAs
    <2> QED
      BY <2>1, <2>2, <2>3, RepeatKept
  <1> QED
    BY <1>1, <1>2, AsideSteps, EvaluateStays, DateRunStays, StoreRunStays DEF Next

-----------------------------------------------------------------------------
(* Summaries.                                                              *)

\* Runs are only appended, and what a summary found stays true.
LEMMA RecentKept ==
    ASSUME TypeInv, RecentInv, UNCHANGED setting,
           runs' = runs \/ \E x \in Run : runs' = Append(runs, x),
           \A g \in Handler : task'[g] = task[g] \/ Recent(task[g])'
    PROVE  RecentInv'
  <1>1. runs \in Seq(Run) /\ Len(runs) \in Nat /\ DOMAIN runs = 1..Len(runs)
    BY DEF TypeInv, TypeOK
  <1>2. /\ Len(runs') \in Nat /\ DOMAIN runs' = 1..Len(runs') /\ Len(runs) <= Len(runs')
        /\ \A i \in 1..Len(runs) : runs'[i] = runs[i]
    BY <1>1
  <1>3. Len(runs) \in Nat /\ Len(runs') \in Nat /\ Len(runs) <= Len(runs')
    BY <1>1, <1>2
  <1>4. \A k \in Nat : k <= Len(runs) => k <= Len(runs')
    BY <1>3
  <1>5. \A k \in 1..Len(runs) : k \in 1..Len(runs')
    BY <1>3
  <1>6. ASSUME NEW g \in Handler, task'[g] = task[g] PROVE Recent(task[g])'
    <2>1. Recent(task[g])
      BY DEF RecentInv
    <2>2. task[g].at \in {"summary", "answered"} => task[g].asked \in Nat
      BY TaskKinds DEF TypeInv, TypeOK, Summing
    <2>3. PICK t : t = task[g] /\ t = task'[g]
      BY <1>6
    <2>4. t.at \in {"summary", "answered"} => t.asked \in Nat /\ t.asked <= Len(runs)
      BY <2>1, <2>2, <2>3 DEF Recent
    <2>5. t.at \in {"summary", "answered"} => t.asked <= Len(runs')
      BY <1>4, <2>4
    <2>6. ASSUME t.at = "answered", ~setting.lags, NEW i \in 1..t.asked
          PROVE  t.latest \in DOMAIN runs' /\ runs'[i].created <= runs'[t.latest].created
      <3>1. i \in 1..Len(runs)
        BY <1>1, <2>4, <2>6
      <3>2. t.latest \in DOMAIN runs /\ runs[i].created <= runs[t.latest].created
        BY <2>1, <2>3, <2>6 DEF Recent
      <3>3. t.latest \in 1..Len(runs) /\ t.latest \in 1..Len(runs')
        BY <1>1, <1>5, <3>2
      <3>4. runs'[i] = runs[i] /\ runs'[t.latest] = runs[t.latest]
        BY <1>2, <3>1, <3>3
      <3> QED
        BY <1>2, <3>2, <3>3, <3>4
    <2> QED
      BY <2>3, <2>5, <2>6 DEF Recent
  <1> QED
    BY <1>6 DEF RecentInv

LEMMA RecentStep == TypeInv /\ RecentInv /\ [Next]_vars => RecentInv'
  <1> SUFFICES ASSUME TypeInv, RecentInv, [Next]_vars PROVE RecentInv'
    OBVIOUS
  <1>1. CASE Aside
    BY <1>1, RecentKept DEF Aside, SumsAs, Recent
  <1>2. ASSUME NEW h \in Handler, Evaluate(h) \/ (\E c \in Case : EvaluateCase(h, c)) \/ DateRun(h)
        PROVE  RecentInv'
    <2>1. \E t : (Begin(h, t) \/ Proceed(h, t)) /\ t.at \in RunsAs
      <3>1. CASE Evaluate(h)
        <4>1. PICK todo, given : Begin(h, [at |-> "evaluate", todo |-> todo, given |-> given,
                                           since |-> epoch, hits |-> {}, matched |-> {}])
          BY <3>1 DEF Evaluate
        <4> QED
          BY <4>1 DEF RunsAs
      <3>2. ASSUME NEW c \in Case, EvaluateCase(h, c)
            PROVE  \E t : Proceed(h, t) /\ t.at \in RunsAs
        <4>1. task[h] \in Evaluating /\ task[h].at = "evaluate"
          BY <3>2, TaskKinds DEF EvaluateCase, TypeInv, TypeOK
        <4>2. \E hits, matched :
                 Proceed(h, [task[h] EXCEPT !.todo = @ \ {c}, !.hits = hits, !.matched = matched])
          BY <3>2 DEF EvaluateCase
        <4>3. PICK hits, matched :
                 Proceed(h, [task[h] EXCEPT !.todo = @ \ {c}, !.hits = hits, !.matched = matched])
          BY <4>2
        <4>4. [task[h] EXCEPT !.todo = @ \ {c}, !.hits = hits, !.matched = matched].at = "evaluate"
          BY <4>1 DEF Evaluating
        <4> QED
          BY <4>3, <4>4 DEF RunsAs
      <3>3. CASE DateRun(h)
        <4>1. PICK run : Proceed(h, [at |-> "store", run |-> run])
          BY <3>3 DEF DateRun
        <4> QED
          BY <4>1 DEF RunsAs
      <3> QED
        BY <1>2, <3>1, <3>2, <3>3
    <2>2. \A g \in Handler : task'[g] = task[g] \/ task'[g].at \in RunsAs
      BY <2>1, TaskOf
    <2>3. UNCHANGED <<setting, runs>>
      BY <1>2 DEF Evaluate, EvaluateCase, DateRun, Begin, Proceed, results
    <2> QED
      BY <2>2, <2>3, RecentKept DEF RunsAs, Recent
  <1>3. ASSUME NEW h \in Handler, StoreRun(h) PROVE RecentInv'
    <2>1. /\ task[h].at = "store" /\ Proceed(h, Idle) /\ runs' = Append(runs, task[h].run)
          /\ UNCHANGED setting
      BY <1>3 DEF StoreRun, Finish, Proceed
    <2>2. task[h].run \in Run
      BY <2>1, TaskKinds DEF TypeInv, TypeOK, Storing
    <2>3. \A g \in Handler : task'[g] = task[g] \/ task'[g].at = "idle"
      BY <2>1, TaskOf DEF Idle
    <2> QED
      BY <2>1, <2>2, <2>3, RecentKept DEF Recent
  <1>4. ASSUME NEW h \in Handler, AskSummary(h) \/ Summarize(h) PROVE RecentInv'
    <2>1. /\ UNCHANGED <<setting, runs>> /\ \A g \in Handler \ {h} : task'[g] = task[g]
          /\ task'[h].at \in SumsAs
          /\ AskSummary(h) => task'[h].at = "summary" /\ task'[h].asked = Len(runs)
          /\ Summarize(h) => /\ task[h].at = "summary" /\ task'[h].asked = task[h].asked
                             /\ \E shown \in Shown(runs) : task'[h].latest \in Latest(shown)
      BY <1>4, SummarizeTask
    <2>2. Len(runs) \in Nat /\ DOMAIN runs = 1..Len(runs)
      BY DEF TypeInv, TypeOK
    <2>3. CASE AskSummary(h)
      <3>1. Recent(task[h])'
        BY <2>1, <2>2, <2>3 DEF Recent
      <3> QED
        BY <2>1, <3>1, RecentKept
    <2>4. CASE Summarize(h)
      <3>1. task[h].asked <= Len(runs) /\ task[h].asked \in Nat
        BY <2>1, <2>4, TaskKinds DEF RecentInv, Recent, TypeInv, TypeOK, Summing
      <3>2. ASSUME ~setting.lags, NEW i \in 1..task[h].asked
            PROVE  /\ task'[h].latest \in DOMAIN runs
                   /\ runs[i].created <= runs[task'[h].latest].created
        <4>1. i \in DOMAIN runs
          BY <2>2, <3>1, <3>2
        <4>2. task'[h].latest \in Latest(DOMAIN runs)
          BY <2>1, <2>4, <3>2, ShowsAll
        <4> QED
          BY <4>1, <4>2 DEF Latest
      <3>3. Recent(task[h])'
        BY <2>1, <2>4, <3>1, <3>2 DEF Recent
      <3> QED
        BY <2>1, <3>3, RecentKept
    <2> QED
      BY <1>4, <2>3, <2>4
  <1> QED
    BY <1>1, <1>2, <1>3, <1>4, AsideSteps DEF Next

-----------------------------------------------------------------------------
(* What Spec promises.                                                     *)

LEMMA InvAlways == Spec => [](TypeInv /\ ReviewInv)
  <1>1. Init => TypeInv /\ ReviewInv
    BY TypeInit, ReviewInit
  <1>2. TypeInv /\ ReviewInv /\ [Next]_vars => (TypeInv /\ ReviewInv)'
    BY TypeStep, ReviewStep
  <1> QED
    BY <1>1, <1>2, PTL DEF Spec

\* Every variable keeps its type, and every rate of every evaluation run is a
\* share: _cause_match and _document_hit_rate count what the case expected.
THEOREM AnalysisTypeCorrect == Spec => []TypeOK
  <1>1. TypeInv => TypeOK
    BY DEF TypeInv
  <1> QED
    BY <1>1, InvAlways, PTL

\* No record of an expert review is completed without a note, for any number of
\* patches that race (update_expert_review).
THEOREM CompletedHasNoteAlways == Spec => []CompletedHasNote
  <1>1. ReviewInv => CompletedHasNote
    BY DEF ReviewInv
  <1> QED
    BY <1>1, InvAlways, PTL

\* A closed review is opened again only by a request that saw it open or that
\* itself asked for an open status (update_expert_review, ExpertReviewCard).
THEOREM ReopenedUnseenAlways == Spec => ReopenedUnseen
  <1> DEFINE Reopened ==
        \A r \in DOMAIN reviews :
          Closed(Last(reviews[r])) /\ ~Closed(Last(reviews'[r])) =>
            \E h \in Handler : /\ task[h].at = "write" /\ task[h].card = r
                               /\ task'[h] = Idle
                               /\ task[h].opens \/ ~Closed(reviews[r][task[h].seen])
  <1>1. TypeInv /\ ReviewInv /\ [Next]_vars => [Reopened]_vars
    <2> SUFFICES ASSUME TypeInv, ReviewInv, [Next]_vars,
                        NEW r \in DOMAIN reviews,
                        Closed(Last(reviews[r])), ~Closed(Last(reviews'[r]))
                 PROVE  \E h \in Handler : /\ task[h].at = "write" /\ task[h].card = r
                                           /\ task'[h] = Idle
                                           /\ task[h].opens \/ ~Closed(reviews[r][task[h].seen])
      OBVIOUS
    <2>1. reviews'[r] # reviews[r]
      OBVIOUS
    <2>2. \E h \in Handler : PutReview(h) \/ WriteReview(h)
      <3>1. ~Quiet
        BY <2>1 DEF Quiet
      <3>2. ASSUME NEW h \in Handler, PutObject(h) \/ PutDocument(h) \/ PutAnalysis(h) \/ ReadVersion(h)
            PROVE  FALSE
        BY <2>1, <3>2 DEF PutObject, PutDocument, PutAnalysis, ReadVersion, results
      <3>3. ASSUME NEW h \in Handler, NEW a \in Asked, Analyze(h, a) PROVE FALSE
        BY <2>1, <3>3 DEF Analyze
      <3>4. ASSUME NEW h \in Handler, NEW k \in DOMAIN reviews, NEW patch \in Buttons \cup Direct,
                   UpdateReview(h, k, patch)
            PROVE  FALSE
        BY <2>1, <3>4 DEF UpdateReview
      <3>5. ~Ingest
        BY <2>1 DEF Ingest
      <3> QED
        BY <3>1, <3>2, <3>3, <3>4, <3>5, QuietSteps DEF Next
    <2>3. PICK h \in Handler : PutReview(h) \/ WriteReview(h)
      BY <2>2
    <2>4. ~PutReview(h)
      <3>1. PutReview(h) => reviews' = Append(reviews, <<Pending>>)
        BY DEF PutReview
      <3>2. reviews \in Seq(Seq(Review))
        BY DEF TypeInv, TypeOK
      <3>3. \A i \in DOMAIN reviews : Append(reviews, <<Pending>>)[i] = reviews[i]
        BY <3>2
      <3> QED
        BY <2>1, <3>1, <3>3
    <2>5. /\ task[h].at = "write" /\ task'[h] = Idle
          /\ reviews' = [reviews EXCEPT ![task[h].card] = Append(@, task[h].value)]
          /\ task[h].card \in DOMAIN reviews
          /\ ~Closed(task[h].value) =>
                task[h].opens \/ ~Closed(reviews[task[h].card][task[h].seen])
      BY <2>3, <2>4, TaskOf DEF WriteReview, Finish, ReviewInv, Considered
    <2>6. task[h].card = r
      BY <2>1, <2>5
    <2>7. Last(reviews'[r]) = task[h].value
      <3>1. reviews[r] \in Seq(Review)
        BY LastTypes
      <3>2. reviews'[r] = Append(reviews[r], task[h].value)
        BY <2>5, <2>6
      <3> QED
        BY <3>1, <3>2 DEF Last
    <2> QED
      BY <2>5, <2>6, <2>7
  <1> QED
    BY <1>1, InvAlways, PTL DEF Spec, ReopenedUnseen

\* What an analysis cites is in the bucket and, with the local retriever, in the
\* table under the version cited (upload_document, document_versions).
THEOREM CitedIsBackedAlways == Spec => []CitedIsBacked
  <1>1. TypeInv /\ ReviewInv /\ CiteInv /\ [Next]_vars => CiteInv'
    BY CiteStep
  <1>2. CiteInv => CitedIsBacked
    BY DEF CiteInv
  <1> QED
    BY <1>1, <1>2, CiteInit, InvAlways, PTL DEF Spec

\* Runs made over the same cases and documents agree: the listing, the local
\* retriever and MockAnalysisEngine leave them no choice, in whatever order the
\* requests are served (run_evaluation).
THEOREM EvaluationRepeatsAlways == Spec => []EvaluationRepeats
  <1>1. RepeatInv => EvaluationRepeats
    BY DEF RepeatInv, EvaluationRepeats, DatedRuns, Elements, Alike
  <1>2. TypeInv /\ RepeatInv /\ [Next]_vars => RepeatInv'
    BY RepeatStep
  <1> QED
    BY <1>1, <1>2, RepeatInit, InvAlways, PTL DEF Spec

\* A summary shows the newest of the runs stored when it was asked for, or a newer
\* one, although runs are stored in any order (metrics_summary).
THEOREM SummaryIsCurrentAlways == Spec => []SummaryIsCurrent
  <1>1. Init => RecentInv
    BY DEF Init, RecentInv, Recent, Idle
  <1>2. TypeInv /\ RecentInv /\ [Next]_vars => RecentInv'
    BY RecentStep
  <1>3. TypeInv /\ RecentInv => SummaryIsCurrent
    BY DEF TypeInv, TypeOK, RecentInv, Recent, SummaryIsCurrent
  <1> QED
    BY <1>1, <1>2, <1>3, InvAlways, PTL DEF Spec
=============================================================================
