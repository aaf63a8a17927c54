------------------------ MODULE LibraryIndexProofs ------------------------
(***************************************************************************)
(* Proofs about LibraryIndex, for any set of models, any number of builds  *)
(* and any bound on the jobs and on the events.                            *)
(***************************************************************************)
EXTENDS LibraryIndex, TLAPS, FiniteSetTheorems

Spaces == Models \cup {"none"}

CallType ==
    [op : {"add", "parse", "parsed", "chunk", "chunked", "embed", "embedded",
           "rechunk", "reindex"},
     at : Hot \cup {"persist", "list", "put", "write", "import"},
     doc : Docs \cup {0}, texts : SUBSET Spans, model : Spaces, job : Docs \cup {0}]

JobType ==
    [n : Docs, kind : {"parse", "chunk", "embed"}, failed : BOOLEAN,
     doc : Docs \cup {0}, texts : SUBSET Spans, model : Spaces]

(* What a call has in hand at its stage.                                   *)
HasInHand(c) ==
    /\ c.op \in {"parsed", "chunked"} => c.doc \in Docs
    /\ c.op = "embedded" => c.model \in Models /\ c.job \in Docs
    /\ c.op = "embed" /\ c.at \in {"drop", "put"} => c.model \in Models /\ c.texts # {}

SourceType ==
    [live: BOOLEAN, status: {"pending", "ready", "failed"}, doc: Docs \cup {0},
     embedding: {"pending", "running", "ready", "failed"}, space: Spaces]

ChunksType == [spans: SUBSET Spans, rules: 0 .. LastBuild]

VectorType == [chunk: Spans, model: Models, job: Docs]

AppType == [up : BOOLEAN, build : 1 .. LastBuild, model : Spaces, left : BOOLEAN]

(* What TypeOK says of a job when n are queued.                            *)
JobFits(j, n) ==
    /\ j.n \in 1 .. n /\ j.failed \in BOOLEAN
    /\ (j.kind = "embed") <=> (j.model # "none" /\ j.texts # {})
    /\ (j.kind = "chunk") <=> (j.doc # 0)

(* The types, of the calls and jobs too.  A document comes from a job of   *)
(* its own, so no more are parsed than jobs were queued.                   *)
TypeInv ==
    /\ TypeOK
    /\ app \in AppType
    /\ calls \subseteq CallType
    /\ \A c \in calls : HasInHand(c)
    /\ jobs \subseteq JobType
    /\ IsFiniteSet(jobs) /\ used.docs + Cardinality(jobs) <= used.jobs

(* The call about to drop the vectors has said so on the row.              *)
DropMarked ==
    \A c \in calls :
        c.op = "embed" /\ c.at = "drop" => source.embedding # "ready" \/ ~source.live

IndexInv == TypeInv /\ DropMarked
-----------------------------------------------------------------------------
(* The parts of the invariant under the names the proofs use.             *)
LEMMA Typed ==
    ASSUME TypeInv
    PROVE  /\ source \in SourceType /\ chunks \in ChunksType /\ vectors \subseteq VectorType
           /\ app \in AppType /\ \A c \in calls : c \in CallType /\ HasInHand(c)
           /\ jobs \subseteq JobType /\ \A j \in jobs : JobFits(j, used.jobs)
           /\ used.events \in 0 .. MaxEvents
  BY DEF TypeInv, TypeOK, Spaces, SourceType, ChunksType, VectorType, JobFits

(* And back, for the next state.                                           *)
LEMMA Rebuilt ==
    ASSUME source' \in SourceType, chunks' \in ChunksType, vectors' \subseteq VectorType,
           app' \in AppType, calls' # {} => app'.up,
           \A c \in calls' : c \in CallType /\ HasInHand(c),
           jobs' \subseteq JobType, \A j \in jobs' : JobFits(j, used'.jobs),
           IsFiniteSet(jobs'), used'.docs + Cardinality(jobs') <= used'.jobs,
           used'.jobs \in 0 .. MaxJobs, used'.docs \in 0 .. used'.jobs,
           used'.events \in 0 .. MaxEvents
    PROVE  TypeInv'
  BY DEF TypeInv, TypeOK, Spaces, SourceType, ChunksType, VectorType, JobFits, HasInHand

(* A job that fits goes on fitting.                                        *)
LEMMA FitsLater ==
    ASSUME NEW m \in Nat, NEW n \in Nat, m <= n, NEW j, JobFits(j, m)
    PROVE  JobFits(j, n)
  <1>1. j.n \in 1 .. n /\ j.failed \in BOOLEAN
    BY DEF JobFits
  <1>2. /\ (j.kind = "embed") <=> (j.model # "none" /\ j.texts # {})
        /\ (j.kind = "chunk") <=> (j.doc # 0)
    BY Zenon DEF JobFits
  <1> QED
    BY <1>1, <1>2, Zenon DEF JobFits

(* A job queued has a number of its own.                                   *)
LEMMA EnqueueTypes ==
    ASSUME TypeInv, NEW kind \in {"parse", "chunk", "embed"}, NEW doc \in Docs \cup {0},
           NEW texts \in SUBSET Spans, NEW model \in Spaces,
           Enqueue(kind, doc, texts, model),
           (kind = "embed") <=> (model # "none" /\ texts # {}), (kind = "chunk") <=> (doc # 0)
    PROVE  /\ jobs' \subseteq JobType
           /\ \A j \in jobs' : JobFits(j, used'.jobs)
           /\ IsFiniteSet(jobs') /\ used'.docs + Cardinality(jobs') <= used'.jobs
           /\ used'.jobs \in 0 .. MaxJobs /\ used'.docs \in 0 .. used'.jobs
           /\ used'.events \in 0 .. MaxEvents
  <1> DEFINE new == [n |-> used.jobs + 1, kind |-> kind, failed |-> FALSE,
                     doc |-> doc, texts |-> texts, model |-> model]
  <1>1. /\ used.jobs \in Nat /\ used.docs \in 0 .. used.jobs /\ used.events \in 0 .. MaxEvents
        /\ used.jobs < MaxJobs /\ MaxJobs \in Nat
        /\ IsFiniteSet(jobs) /\ used.docs + Cardinality(jobs) <= used.jobs
    BY BoundsAssumption DEF TypeInv, TypeOK, Enqueue
  <1>2. jobs' = jobs \cup {new}
    BY DEF Enqueue
  <1>3. used'.jobs = used.jobs + 1 /\ used'.docs = used.docs /\ used'.events = used.events
    BY DEF Enqueue
  <1>4. new \in JobType
    BY <1>1 DEF JobType, Docs
  <1>5. Cardinality(jobs) \in Nat
    BY <1>1, FS_CardinalityType
  <1>8. /\ new.n = used.jobs + 1 /\ new.failed = FALSE /\ new.kind = kind
        /\ new.doc = doc /\ new.texts = texts /\ new.model = model
    OBVIOUS
  <1> HIDE DEF new
  <1>6. IsFiniteSet(jobs') /\ Cardinality(jobs') <= Cardinality(jobs) + 1
    BY <1>1, <1>2, <1>5, FS_AddElement
  <1>7. Cardinality(jobs') \in Nat
    BY <1>6, FS_CardinalityType
  <1>9. \A j \in jobs' : JobFits(j, used'.jobs)
    <2>1. ASSUME NEW j \in jobs
          PROVE  JobFits(j, used'.jobs)
      <3>1. JobFits(j, used.jobs)
        BY <2>1, Typed
      <3> QED
        BY <1>1, <1>3, <3>1, FitsLater
    <2>2. JobFits(new, used'.jobs)
      <3>1. used.jobs + 1 \in 1 .. used'.jobs
        BY <1>1, <1>3
      <3>3. new.n \in 1 .. used'.jobs /\ new.failed \in BOOLEAN
        BY <3>1, <1>8, Zenon
      <3>2. /\ (new.kind = "embed") <=> (new.model # "none" /\ new.texts # {})
            /\ (new.kind = "chunk") <=> (new.doc # 0)
        BY <1>8, Zenon
      <3> QED
        BY <3>2, <3>3, Zenon DEF JobFits
    <2> QED
      BY <1>2, <2>1, <2>2
  <1>10. jobs' \subseteq JobType
    BY <1>2, <1>4 DEF TypeInv
  <1>11. used'.docs + Cardinality(jobs') <= used'.jobs
    BY <1>1, <1>3, <1>5, <1>6, <1>7
  <1> QED
    BY <1>1, <1>3, <1>6, <1>9, <1>10, <1>11

(* The call no one has begun.                                              *)
LEMMA NoCallType ==
    ASSUME NEW op \in {"add", "parse", "parsed", "chunk", "chunked", "embed", "embedded",
                       "rechunk", "reindex"},
           NEW at \in Hot \cup {"persist", "list", "put", "write", "import"},
           NEW doc \in Docs \cup {0},
           op \in {"parsed", "chunked"} => doc # 0,
           op # "embedded", op = "embed" => at \notin {"drop", "put"}
    PROVE  /\ NoCall \in CallType
           /\ [NoCall EXCEPT !.op = op, !.at = at, !.doc = doc] \in CallType
           /\ HasInHand([NoCall EXCEPT !.op = op, !.at = at, !.doc = doc])
           /\ [NoCall EXCEPT !.op = op, !.at = at] \in CallType
           /\ op \notin {"parsed", "chunked"} => HasInHand([NoCall EXCEPT !.op = op, !.at = at])
  BY DEF NoCall, CallType, HasInHand, Hot, Spaces, Docs

(* A step that leaves the jobs alone.                                      *)
LEMMA StepTypes ==
    ASSUME TypeInv, jobs' = jobs, used'.jobs = used.jobs, used'.docs = used.docs,
           used'.events \in 0 .. MaxEvents,
           source' \in SourceType, chunks' \in ChunksType, vectors' \subseteq VectorType,
           app' \in AppType, calls' # {} => app'.up,
           \A c \in calls' \ calls : c \in CallType /\ HasInHand(c)
    PROVE  TypeInv'
  <1>1. /\ jobs \subseteq JobType /\ \A j \in jobs : JobFits(j, used.jobs)
        /\ \A c \in calls : c \in CallType /\ HasInHand(c)
    BY Typed
  <1>2. /\ IsFiniteSet(jobs) /\ used.docs + Cardinality(jobs) <= used.jobs
        /\ used.jobs \in 0 .. MaxJobs /\ used.docs \in 0 .. used.jobs
    BY DEF TypeInv, TypeOK
  <1> QED
    BY <1>1, <1>2, Rebuilt

(* setEmbeddingState writes a state of the type.                           *)
LEMMA SetStateTypes ==
    ASSUME TypeInv, NEW status \in {"pending", "running", "ready", "failed"},
           NEW space \in Spaces, SetState(status, space)
    PROVE  source' \in SourceType
  BY Typed DEF SetState, SourceType

(* An event leaves the other bounds alone.                                 *)
LEMMA EventBound ==
    ASSUME TypeInv, Event
    PROVE  used'.jobs = used.jobs /\ used'.docs = used.docs /\ used'.events \in 0 .. MaxEvents
  BY Typed, BoundsAssumption DEF Event
-----------------------------------------------------------------------------
(* The steps of a call that queue nothing.                                 *)
LEMMA CallTypes ==
    ASSUME TypeInv, NEW c \in calls, app.up,
           \/ MarksFailed(c) \/ ParsedMeta(c) \/ ParsedIngested(c)
           \/ ChunkedPersist(c) \/ ChunkedMeta(c)
           \/ EmbedFind(c) \/ EmbedMark(c) \/ EmbedDrop(c)
           \/ EmbeddedWrite(c) \/ EmbeddedReady(c) \/ Reindex(c)
    PROVE  TypeInv'
  <1>1. /\ c \in CallType /\ HasInHand(c) /\ app \in AppType /\ used.events \in 0 .. MaxEvents
        /\ source \in SourceType /\ chunks \in ChunksType /\ vectors \subseteq VectorType
    BY Typed
  <1>2. CASE MarksFailed(c)
    <2>1. source' \in SourceType
      BY <1>1, <1>2, SetStateTypes DEF MarksFailed, SourceType, Spaces
    <2>2. calls' \ calls = {}
      BY <1>2 DEF MarksFailed, Returns
    <2> QED
      BY <1>1, <1>2, <2>1, <2>2, StepTypes DEF MarksFailed
  <1>3. CASE ParsedMeta(c)
    <2>1. source' \in SourceType
      BY <1>1, <1>3 DEF ParsedMeta, SourceType, CallType
    <2>2. \A d \in calls' \ calls : d \in CallType /\ HasInHand(d)
      BY <1>1, <1>3 DEF ParsedMeta, Moves, Returns, CallType, HasInHand, Hot
    <2> QED
      BY <1>1, <1>3, <2>1, <2>2, StepTypes DEF ParsedMeta
  <1>4. CASE ParsedIngested(c)
    <2>1. source' \in SourceType
      BY <1>1, <1>4 DEF ParsedIngested, SourceType
    <2>2. calls' \ calls = {}
      BY <1>4 DEF ParsedIngested, Returns
    <2> QED
      BY <1>1, <1>4, <2>1, <2>2, StepTypes DEF ParsedIngested
  <1>5. CASE ChunkedPersist(c)
    <2>1. chunks' \in ChunksType
      <3>1. c.doc \in Docs /\ app.build \in 1 .. LastBuild
        BY <1>1, <1>5 DEF ChunkedPersist, HasInHand, AppType
      <3>2. Cut(c.doc, app.build) \subseteq Spans
        BY <3>1 DEF Cut, Spans
      <3> QED
        BY <1>5, <3>1, <3>2, BoundsAssumption DEF ChunkedPersist, Replaced, ChunksType
    <2>2. vectors' \subseteq VectorType
      BY <1>1, <1>5 DEF ChunkedPersist
    <2>3. \A d \in calls' \ calls : d \in CallType /\ HasInHand(d)
      BY <1>1, <1>5 DEF ChunkedPersist, Moves, CallType, HasInHand, Hot
    <2> QED
      BY <1>1, <1>5, <2>1, <2>2, <2>3, StepTypes DEF ChunkedPersist
  <1>6. CASE ChunkedMeta(c)
    <2>1. \A d \in calls' \ calls : d \in CallType /\ HasInHand(d)
      <3> DEFINE next == [NoCall EXCEPT !.op = "embed", !.at = "find"]
      <3>1. next \in CallType /\ HasInHand(next)
        BY NoCallType DEF Hot, Docs
      <3>2. calls' \ calls \subseteq {next}
        BY <1>6 DEF ChunkedMeta, Moves, Returns
      <3> QED
        BY <3>1, <3>2
    <2> QED
      BY <1>1, <1>6, <2>1, StepTypes DEF ChunkedMeta
  <1>7. CASE EmbedFind(c)
    <2>1. \A d \in calls' \ calls : d \in CallType /\ HasInHand(d)
      <3> DEFINE next == [c EXCEPT !.at = "list", !.model = app.model]
      <3>1. next \in CallType
        BY <1>1 DEF CallType, AppType
      <3>2. HasInHand(next)
        BY <1>1, <1>7 DEF EmbedFind, HasInHand, CallType
      <3>3. calls' \ calls \subseteq {next}
        BY <1>7 DEF EmbedFind, Moves, Returns
      <3> QED
        BY <3>1, <3>2, <3>3
    <2> QED
      BY <1>1, <1>7, <2>1, StepTypes DEF EmbedFind
  <1>8. CASE EmbedMark(c)
    <2>1. source' \in SourceType
      BY <1>1, <1>8, SetStateTypes DEF EmbedMark, Spaces
    <2>2. \A d \in calls' \ calls : d \in CallType /\ HasInHand(d)
      <3> DEFINE next == [c EXCEPT !.at = "drop", !.texts = chunks.spans]
      <3>1. CASE source.live /\ c.model # "none" /\ chunks.spans # {}
        <4>1. next \in CallType
          BY <1>1 DEF CallType, ChunksType, Hot
        <4>2. c.model \in Models
          BY <1>1, <3>1 DEF CallType, Spaces
        <4>3. HasInHand(next)
          BY <1>1, <1>8, <3>1, <4>2 DEF EmbedMark, HasInHand, CallType
        <4>4. calls' \ calls \subseteq {next}
          BY <1>8, <3>1 DEF EmbedMark, Moves
        <4> QED
          BY <4>1, <4>3, <4>4
      <3>2. CASE ~(source.live /\ c.model # "none" /\ chunks.spans # {})
        BY <1>8, <3>2 DEF EmbedMark, Returns
      <3> QED
        BY <3>1, <3>2
    <2> QED
      BY <1>1, <1>8, <2>1, <2>2, StepTypes DEF EmbedMark
  <1>9. CASE EmbedDrop(c)
    <2>1. \A d \in calls' \ calls : d \in CallType /\ HasInHand(d)
      BY <1>1, <1>9 DEF EmbedDrop, Moves, CallType, HasInHand, Hot
    <2>2. vectors' \subseteq VectorType
      BY <1>9 DEF EmbedDrop
    <2> QED
      BY <1>1, <1>9, <2>1, <2>2, StepTypes DEF EmbedDrop
  <1>10. CASE EmbeddedWrite(c)
    <2>1. vectors' \subseteq VectorType
      BY <1>1, <1>10 DEF EmbeddedWrite, Indexed, VectorType, CallType, HasInHand
    <2>2. \A d \in calls' \ calls : d \in CallType /\ HasInHand(d)
      BY <1>1, <1>10 DEF EmbeddedWrite, Moves, CallType, HasInHand, Hot
    <2> QED
      BY <1>1, <1>10, <2>1, <2>2, StepTypes DEF EmbeddedWrite
  <1>11. CASE EmbeddedReady(c)
    <2>1. source' \in SourceType
      BY <1>1, <1>11, SetStateTypes DEF EmbeddedReady, CallType
    <2>2. vectors' \subseteq VectorType
      BY <1>1, <1>11 DEF EmbeddedReady
    <2>3. calls' \ calls = {}
      BY <1>11 DEF EmbeddedReady, Returns
    <2> QED
      BY <1>1, <1>11, <2>1, <2>2, <2>3, StepTypes DEF EmbeddedReady
  <1>12. CASE Reindex(c)
    <2>1. app' \in AppType /\ app'.up
      BY <1>1, <1>12 DEF Reindex, AppType
    <2>2. \A d \in calls' \ calls : d \in CallType /\ HasInHand(d)
      <3> DEFINE next == [NoCall EXCEPT !.op = "embed", !.at = "find"]
      <3>1. next \in CallType /\ HasInHand(next)
        BY NoCallType DEF Hot, Docs
      <3>2. calls' \ calls \subseteq {next}
        BY <1>12 DEF Reindex, Moves, Returns
      <3> QED
        BY <3>1, <3>2
    <2> QED
      BY <1>1, <1>12, <2>1, <2>2, StepTypes DEF Reindex
  <1> QED
    BY <1>2, <1>3, <1>4, <1>5, <1>6, <1>7, <1>8, <1>9, <1>10, <1>11, <1>12

(* A step that queues one job and moves calls keeps the types.             *)
LEMMA Queued ==
    ASSUME TypeInv, NEW kind \in {"parse", "chunk", "embed"}, NEW doc \in Docs \cup {0},
           NEW texts \in SUBSET Spans, NEW model \in Spaces,
           Enqueue(kind, doc, texts, model),
           (kind = "embed") <=> (model # "none" /\ texts # {}), (kind = "chunk") <=> (doc # 0),
           source' = source, chunks' = chunks, vectors' = vectors, app' = app, app.up,
           \A c \in calls' \ calls : c \in CallType /\ HasInHand(c)
    PROVE  TypeInv'
  <1>1. /\ source \in SourceType /\ chunks \in ChunksType /\ vectors \subseteq VectorType
        /\ app \in AppType /\ \A c \in calls : c \in CallType /\ HasInHand(c)
    BY Typed
  <1>2. /\ jobs' \subseteq JobType
        /\ \A j \in jobs' : JobFits(j, used'.jobs)
        /\ IsFiniteSet(jobs') /\ used'.docs + Cardinality(jobs') <= used'.jobs
        /\ used'.jobs \in 0 .. MaxJobs /\ used'.docs \in 0 .. used'.jobs
        /\ used'.events \in 0 .. MaxEvents
    BY EnqueueTypes
  <1>3. \A c \in calls' : c \in CallType /\ HasInHand(c)
    BY <1>1
  <1> QED
    BY <1>1, <1>2, <1>3, Rebuilt

(* The steps of a call that queue a job.                                   *)
LEMMA QueueTypes ==
    ASSUME TypeInv, NEW c \in calls, app.up,
           QueueParse(c) \/ ParsedQueue(c) \/ EmbedQueue(c) \/ Rechunk(c)
    PROVE  TypeInv'
  <1>1. /\ c \in CallType /\ HasInHand(c) /\ source \in SourceType /\ app \in AppType
        /\ chunks \in ChunksType /\ vectors \subseteq VectorType
        /\ used.events \in 0 .. MaxEvents
    BY Typed
  <1>2. CASE QueueParse(c)
    <2>1. calls' \ calls = {}
      BY <1>2 DEF QueueParse, Returns
    <2> QED
      BY <1>2, <2>1, Queued DEF QueueParse, Spaces
  <1>3. CASE ParsedQueue(c)
    <2>1. \A d \in calls' \ calls : d \in CallType /\ HasInHand(d)
      BY <1>1, <1>3 DEF ParsedQueue, Moves, CallType, HasInHand, Hot
    <2>2. c.doc \in Docs /\ c.doc # 0
      BY <1>1, <1>3 DEF ParsedQueue, HasInHand, Docs
    <2> QED
      BY <1>3, <2>1, <2>2, Queued DEF ParsedQueue, Spaces
  <1>4. CASE EmbedQueue(c)
    <2>1. calls' \ calls = {}
      BY <1>4 DEF EmbedQueue, Returns
    <2>2. c.texts \in SUBSET Spans /\ c.model \in Models /\ c.texts # {}
      BY <1>1, <1>4 DEF EmbedQueue, HasInHand, CallType
    <2>3. c.model # "none" /\ c.model \in Spaces
      BY <2>2, ModelsAssumption DEF Spaces
    <2> QED
      BY <1>4, <2>1, <2>2, <2>3, Queued DEF EmbedQueue
  <1>5. CASE Rechunk(c)
    <2>1. calls' \ calls = {}
      BY <1>5 DEF Rechunk, Returns
    <2>2. CASE Stale /\ source.live /\ source.doc # 0
      BY <1>1, <1>5, <2>1, <2>2, Queued DEF Rechunk, SourceType, Spaces
    <2>3. CASE ~(Stale /\ source.live /\ source.doc # 0)
      BY <1>1, <1>5, <2>1, <2>3, StepTypes DEF Rechunk
    <2> QED
      BY <2>2, <2>3
  <1> QED
    BY <1>2, <1>3, <1>4, <1>5
-----------------------------------------------------------------------------
(* The buttons, the crash and the start.                                   *)
LEMMA UserTypes ==
    ASSUME TypeInv,
           \/ Retry \/ Remove \/ SetModel \/ EmbedPressed \/ Crash \/ Start
           \/ \E c \in calls : HasThread(c) /\ BlobFails(c)
    PROVE  TypeInv'
  <1>1. /\ source \in SourceType /\ chunks \in ChunksType /\ vectors \subseteq VectorType
        /\ app \in AppType /\ used.events \in 0 .. MaxEvents /\ (calls # {} => app.up)
    BY Typed DEF TypeInv, TypeOK
  <1>2. CASE Retry
    <2>1. source' \in SourceType /\ calls' \ calls \subseteq {NoCall}
      BY <1>1, <1>2 DEF Retry, SourceType
    <2>2. NoCall \in CallType /\ HasInHand(NoCall)
      BY DEF NoCall, CallType, HasInHand, Hot, Spaces
    <2>3. used'.jobs = used.jobs /\ used'.docs = used.docs /\ used'.events \in 0 .. MaxEvents
      BY <1>2, EventBound DEF Retry
    <2> QED
      BY <1>1, <1>2, <2>1, <2>2, <2>3, StepTypes DEF Retry, Free
  <1>3. CASE Remove
    <2>1. /\ source' \in SourceType /\ vectors' \subseteq VectorType /\ chunks' \in ChunksType
      BY <1>1, <1>3 DEF Remove, SourceType, ChunksType
    <2>3. used'.jobs = used.jobs /\ used'.docs = used.docs /\ used'.events \in 0 .. MaxEvents
      BY <1>3, EventBound DEF Remove
    <2> QED
      BY <1>1, <1>3, <2>1, <2>3, StepTypes DEF Remove, Free
  <1>4. CASE SetModel
    <2>1. app' \in AppType /\ app'.up
      BY <1>1, <1>4 DEF SetModel, Free, AppType, Spaces
    <2>3. used'.jobs = used.jobs /\ used'.docs = used.docs /\ used'.events \in 0 .. MaxEvents
      BY <1>4, EventBound DEF SetModel
    <2> QED
      BY <1>1, <1>4, <2>1, <2>3, StepTypes DEF SetModel
  <1>5. CASE EmbedPressed
    <2> DEFINE next == [NoCall EXCEPT !.op = "embed", !.at = "find"]
    <2>1. next \in CallType /\ HasInHand(next)
      BY NoCallType DEF Hot, Docs
    <2>2. calls' \ calls \subseteq {next}
      BY <1>5 DEF EmbedPressed
    <2>3. used'.jobs = used.jobs /\ used'.docs = used.docs /\ used'.events \in 0 .. MaxEvents
      BY <1>5, EventBound DEF EmbedPressed
    <2> QED
      BY <1>1, <1>5, <2>1, <2>2, <2>3, StepTypes DEF EmbedPressed, Free
  <1>6. CASE Crash
    <2>1. app' \in AppType /\ calls' = {}
      BY <1>1, <1>6 DEF Crash, AppType
    <2>3. used'.jobs = used.jobs /\ used'.docs = used.docs /\ used'.events \in 0 .. MaxEvents
      BY <1>6, EventBound DEF Crash
    <2> QED
      BY <1>1, <1>6, <2>1, <2>3, StepTypes DEF Crash
  <1>7. CASE Start
    <2>1. app' \in AppType /\ app'.up
      <3>1. PICK b \in app.build .. LastBuild :
                app' = [app EXCEPT !.up = TRUE, !.build = b, !.left = FALSE]
        BY <1>7 DEF Start
      <3>2. app.build \in 1 .. LastBuild
        BY <1>1 DEF AppType
      <3>3. b \in 1 .. LastBuild
        BY <3>1, <3>2, BoundsAssumption
      <3> QED
        BY <1>1, <3>1, <3>3 DEF AppType
    <2>2. \A d \in calls' \ calls : d \in CallType /\ HasInHand(d)
      <3> DEFINE re(op) == [NoCall EXCEPT !.op = op, !.at = "import"]
      <3>1. \A op \in {"rechunk", "reindex"} : re(op) \in CallType /\ HasInHand(re(op))
        BY NoCallType DEF Docs
      <3>2. calls' \ calls \subseteq {re("rechunk"), re("reindex")}
        BY <1>7 DEF Start
      <3> QED
        BY <3>1, <3>2
    <2> QED
      BY <1>1, <1>7, <2>1, <2>2, StepTypes DEF Start
  <1>8. ASSUME NEW c \in calls, BlobFails(c)
        PROVE  TypeInv'
    <2>1. app' \in AppType /\ app'.up = app.up
      BY <1>1, <1>8 DEF BlobFails, AppType
    <2>2. source' \in SourceType /\ vectors' \subseteq VectorType /\ calls' \ calls = {}
      BY <1>1, <1>8, SetStateTypes DEF BlobFails, Returns, Spaces
    <2>3. used'.jobs = used.jobs /\ used'.docs = used.docs /\ used'.events \in 0 .. MaxEvents
      BY <1>8, EventBound DEF BlobFails
    <2> QED
      BY <1>1, <1>8, <2>1, <2>2, <2>3, StepTypes DEF BlobFails
  <1> QED
    BY <1>2, <1>3, <1>4, <1>5, <1>6, <1>7, <1>8

(* The end of a job, and its retry.  A document more is a job less.        *)
LEMMA JobTypes ==
    ASSUME TypeInv, NEW j \in jobs, Succeeds(j) \/ Fails(j) \/ RetryJob(j)
    PROVE  TypeInv'
  <1>1. /\ j \in JobType /\ source \in SourceType /\ app \in AppType
        /\ chunks \in ChunksType /\ vectors \subseteq VectorType
        /\ \A c \in calls : c \in CallType /\ HasInHand(c)
        /\ jobs \subseteq JobType /\ \A i \in jobs : JobFits(i, used.jobs)
        /\ (calls # {} => app.up)
    BY Typed DEF TypeInv, TypeOK
  <1>2. /\ used.jobs \in 0 .. MaxJobs /\ used.docs \in 0 .. used.jobs
        /\ used.events \in 0 .. MaxEvents /\ MaxJobs \in Nat
        /\ IsFiniteSet(jobs) /\ used.docs + Cardinality(jobs) <= used.jobs
    BY BoundsAssumption DEF TypeInv, TypeOK
  <1>3. /\ IsFiniteSet(jobs \ {j}) /\ Cardinality(jobs \ {j}) = Cardinality(jobs) - 1
        /\ Cardinality(jobs) \in Nat /\ Cardinality(jobs \ {j}) \in Nat
    BY <1>2, FS_RemoveElement, FS_CardinalityType
  <1>4. ASSUME NEW k \in JobType, k.n = j.n, k.kind = j.kind, k.doc = j.doc, k.texts = j.texts,
               k.model = j.model, jobs' = (jobs \ {j}) \cup {k}
        PROVE  /\ jobs' \subseteq JobType
               /\ \A i \in jobs' : JobFits(i, used.jobs)
               /\ IsFiniteSet(jobs') /\ Cardinality(jobs') <= Cardinality(jobs)
               /\ Cardinality(jobs') \in Nat
    <2>1. k.failed \in BOOLEAN
      BY <1>4 DEF JobType
    <2>2. IsFiniteSet(jobs') /\ Cardinality(jobs') <= Cardinality(jobs)
      <3> DEFINE rest == jobs \ {j}
      <3>1. IsFiniteSet(rest) /\ Cardinality(rest) = Cardinality(jobs) - 1 /\ jobs' = rest \cup {k}
        BY <1>3, <1>4
      <3> HIDE DEF rest
      <3>2. /\ IsFiniteSet(rest \cup {k})
            /\ \/ Cardinality(rest \cup {k}) = Cardinality(rest)
               \/ Cardinality(rest \cup {k}) = Cardinality(rest) + 1
        BY <3>1, FS_AddElement
      <3> QED
        BY <1>3, <3>1, <3>2
    <2>3. Cardinality(jobs') \in Nat
      BY <2>2, FS_CardinalityType
    <2>4. JobFits(k, used.jobs)
      <3>1. JobFits(j, used.jobs)
        BY <1>1
      <3> QED
        BY <1>4, <2>1, <3>1, Zenon DEF JobFits
    <2> QED
      BY <1>1, <1>4, <2>2, <2>3, <2>4
  <1>5. CASE RetryJob(j)
    <2> DEFINE k == [j EXCEPT !.failed = FALSE]
    <2>1. /\ k \in JobType /\ k.n = j.n /\ k.kind = j.kind /\ k.doc = j.doc
          /\ k.texts = j.texts /\ k.model = j.model
      BY <1>1 DEF JobType
    <2>2. jobs' = (jobs \ {j}) \cup {k}
      BY <1>5 DEF RetryJob
    <2>3. used'.jobs = used.jobs /\ used'.docs = used.docs /\ used'.events \in 0 .. MaxEvents
      BY <1>5, EventBound DEF RetryJob
    <2>4. UNCHANGED <<source, chunks, vectors, calls, app>>
      BY <1>5 DEF RetryJob
    <2> HIDE DEF k
    <2>5. /\ jobs' \subseteq JobType
          /\ \A i \in jobs' : JobFits(i, used.jobs)
          /\ IsFiniteSet(jobs') /\ Cardinality(jobs') <= Cardinality(jobs)
          /\ Cardinality(jobs') \in Nat
      BY <1>4, <2>1, <2>2
    <2>6. used'.docs + Cardinality(jobs') <= used'.jobs
      BY <1>2, <1>3, <2>3, <2>5
    <2> QED
      BY <1>1, <1>2, <2>3, <2>4, <2>5, <2>6, Rebuilt
  <1>6. CASE Fails(j)
    <2> DEFINE k == [j EXCEPT !.failed = TRUE]
               next == [NoCall EXCEPT !.op = j.kind, !.at = "fail"]
    <2>1. /\ k \in JobType /\ k.n = j.n /\ k.kind = j.kind /\ k.doc = j.doc
          /\ k.texts = j.texts /\ k.model = j.model
      BY <1>1 DEF JobType
    <2>2. jobs' = (jobs \ {j}) \cup {k} \/ jobs' = jobs \ {j}
      BY <1>6 DEF Fails
    <2>3. used'.jobs = used.jobs /\ used'.docs = used.docs /\ used'.events \in 0 .. MaxEvents
      BY <1>6, EventBound DEF Fails
    <2>4. UNCHANGED <<source, chunks, vectors, app>> /\ calls' \ calls \subseteq {next} /\ app.up
      BY <1>6 DEF Fails, Free
    <2>7. next \in CallType /\ HasInHand(next)
      <3>1. j.kind \in {"parse", "chunk", "embed"}
        BY <1>1 DEF JobType
      <3> QED
        BY <3>1, NoCallType DEF Hot, Docs
    <2> HIDE DEF k, next
    <2>5. /\ jobs' \subseteq JobType
          /\ \A i \in jobs' : JobFits(i, used.jobs)
          /\ IsFiniteSet(jobs') /\ Cardinality(jobs') <= Cardinality(jobs)
          /\ Cardinality(jobs') \in Nat
      <3>1. CASE jobs' = (jobs \ {j}) \cup {k}
        BY <1>4, <2>1, <3>1
      <3>2. CASE jobs' = jobs \ {j}
        BY <1>1, <1>3, <3>2
      <3> QED
        BY <2>2, <3>1, <3>2
    <2>6. used'.docs + Cardinality(jobs') <= used'.jobs
      BY <1>2, <1>3, <2>3, <2>5
    <2>8. \A c \in calls' : c \in CallType /\ HasInHand(c)
      BY <1>1, <2>4, <2>7
    <2> QED
      BY <1>1, <1>2, <2>3, <2>4, <2>5, <2>6, <2>8, Rebuilt
  <1>7. CASE Succeeds(j)
    <2> DEFINE parsed == [NoCall EXCEPT !.op = "parsed", !.at = "meta", !.doc = used.docs + 1]
               chunked == [NoCall EXCEPT !.op = "chunked", !.at = "persist", !.doc = j.doc]
               embedded == [op |-> "embedded", at |-> "write", doc |-> 0, texts |-> j.texts,
                            model |-> j.model, job |-> j.n]
    <2>1. /\ UNCHANGED <<source, chunks, vectors, app>> /\ app.up /\ jobs' = jobs \ {j}
          /\ j.kind \in {"parse", "chunk", "embed"}
      BY <1>1, <1>7 DEF Succeeds, Free, JobType
    <2>2. /\ used'.jobs = used.jobs /\ used'.events = used.events
          /\ used'.docs = used.docs \/ used'.docs = used.docs + 1
      BY <1>7 DEF Succeeds
    <2>3. used'.docs + Cardinality(jobs') <= used'.jobs /\ used'.docs \in 0 .. used'.jobs
      BY <1>2, <1>3, <2>1, <2>2
    <2>4. used.docs + 1 \in Docs /\ used.docs + 1 # 0
      BY <1>2, <1>3 DEF Docs
    <2>5. \A i \in jobs' : JobFits(i, used.jobs)
      BY <1>1, <2>1
    <2>6. \A c \in calls' : c \in CallType /\ HasInHand(c)
      <3>1. CASE j.kind = "parse"
        <4>1. calls' = calls \cup {parsed}
          BY <1>7, <3>1 DEF Succeeds
        <4>2. parsed \in CallType /\ HasInHand(parsed)
          BY <2>4, NoCallType DEF Hot
        <4> QED
          BY <1>1, <4>1, <4>2
      <3>2. CASE j.kind = "chunk"
        <4>1. calls' = calls \cup {chunked}
          BY <1>7, <3>2 DEF Succeeds
        <4>2. j.doc \in Docs \cup {0} /\ j.doc # 0
          <5>1. j.doc # 0
            BY <1>1, <3>2, Zenon DEF JobFits
          <5> QED
            BY <1>1, <5>1 DEF JobType
        <4>3. chunked \in CallType /\ HasInHand(chunked)
          BY <4>2, NoCallType DEF Hot
        <4> QED
          BY <1>1, <4>1, <4>3
      <3>3. CASE j.kind = "embed"
        <4>1. calls' = calls \cup {embedded}
          BY <1>7, <3>3 DEF Succeeds
        <4>2. j.model # "none"
          BY <1>1, <3>3, Zenon DEF JobFits
        <4>3. j.model \in Models /\ j.n \in Docs /\ j.texts \in SUBSET Spans
          BY <1>1, <4>2 DEF JobType, Spaces
        <4>4. embedded \in CallType /\ HasInHand(embedded)
          BY <4>3 DEF CallType, HasInHand, Spaces
        <4> QED
          BY <1>1, <4>1, <4>4
      <3> QED
        BY <2>1, <3>1, <3>2, <3>3
    <2> HIDE DEF parsed, chunked, embedded
    <2>7. jobs' \subseteq JobType /\ IsFiniteSet(jobs')
      BY <1>1, <1>3, <2>1
    <2> QED
      BY <1>1, <1>2, <2>1, <2>2, <2>3, <2>5, <2>6, <2>7, Rebuilt
  <1> QED
    BY <1>5, <1>6, <1>7
-----------------------------------------------------------------------------
(* The source just added is well typed.                                    *)
LEMMA InitTypes == Init => TypeInv
  <1> SUFFICES ASSUME Init PROVE TypeInv
    OBVIOUS
  <1>1. NoCall \in CallType /\ HasInHand(NoCall)
    BY DEF NoCall, CallType, HasInHand, Hot, Spaces
  <1>2. app \in AppType /\ app.up
    BY BoundsAssumption DEF Init, AppType, Spaces
  <1>3. IsFiniteSet(jobs) /\ Cardinality(jobs) = 0
    BY FS_EmptySet DEF Init
  <1>4. source \in SourceType /\ chunks \in ChunksType /\ vectors = {} /\ jobs = {}
    BY BoundsAssumption DEF Init, SourceType, ChunksType, Spaces
  <1>5. used.jobs = 0 /\ used.docs = 0 /\ used.events = 0 /\ calls = {NoCall}
    BY DEF Init
  <1> QED
    BY <1>1, <1>2, <1>3, <1>4, <1>5, BoundsAssumption
       DEF TypeInv, TypeOK, SourceType, ChunksType, VectorType, Spaces

(* Every step keeps the types.                                             *)
LEMMA NextTypes ==
    ASSUME TypeInv, [Next]_vars
    PROVE  TypeInv'
  <1>1. ASSUME NEW c \in calls, HasThread(c), Steps(c)
        PROVE  TypeInv'
    BY <1>1, CallTypes, QueueTypes DEF Steps, HasThread
  <1>2. ASSUME NEW j \in jobs, Succeeds(j) \/ Fails(j) \/ RetryJob(j)
        PROVE  TypeInv'
    BY <1>2, JobTypes
  <1>3. CASE UNCHANGED vars
    <2>1. app' = app /\ (calls # {} => app.up) /\ UNCHANGED <<source, chunks, vectors, calls>>
      BY <1>3 DEF vars, TypeInv, TypeOK
    <2>2. UNCHANGED <<jobs, used>>
      BY <1>3 DEF vars
    <2> QED
      BY <2>1, <2>2, Typed, StepTypes
  <1> QED
    BY <1>1, <1>2, <1>3, UserTypes DEF Next, Call, Worker

(* Every reachable state is well typed: no job is queued without what it   *)
(* works on, no call is under way in an app that is down, and a document   *)
(* is never parsed twice by one job, for any models, builds and bounds     *)
(* (service.ts and embedding-service.ts, the settled listeners).           *)
THEOREM TypeCorrect == Spec => []TypeOK
  <1>1. TypeInv => TypeOK
    BY DEF TypeInv
  <1>2. TypeInv /\ [Next]_vars => TypeInv'
    BY NextTypes
  <1> QED
    BY <1>1, <1>2, InitTypes, PTL DEF Spec
-----------------------------------------------------------------------------
(* The vectors are only ever a part of what they were, or the whole answer *)
(* of one job.                                                             *)
LEMMA VectorSteps ==
    ASSUME TypeInv, [Next]_vars
    PROVE  vectors' \subseteq vectors \/ \E c \in calls : vectors' = Indexed(c)
  <1>1. ASSUME NEW c \in calls, Steps(c)
        PROVE  vectors' \subseteq vectors \/ vectors' = Indexed(c)
    BY <1>1 DEF Steps, QueueParse, MarksFailed, ParsedMeta, ParsedQueue, ParsedIngested,
       ChunkedPersist, ChunkedMeta, EmbedFind, EmbedMark, EmbedDrop, EmbedQueue,
       EmbeddedWrite, EmbeddedReady, Rechunk, Reindex
  <1>2. ASSUME NEW c \in calls, BlobFails(c)
        PROVE  vectors' \subseteq vectors
    BY <1>2 DEF BlobFails
  <1>3. ASSUME NEW j \in jobs, Succeeds(j) \/ Fails(j) \/ RetryJob(j)
        PROVE  vectors' = vectors
    BY <1>3 DEF Succeeds, Fails, RetryJob
  <1>4. CASE Retry \/ Remove \/ SetModel \/ EmbedPressed \/ Crash \/ Start
    BY <1>4 DEF Retry, Remove, SetModel, EmbedPressed, Crash, Start
  <1>5. CASE UNCHANGED vars
    BY <1>5 DEF vars
  <1> QED
    BY <1>1, <1>2, <1>3, <1>4, <1>5 DEF Next, Call, Worker

(* The vectors of a source are in one space, and a chunk has one, for any  *)
(* models, builds and bounds (embedding-service.ts, onJobSettled).         *)
THEOREM SpacesCorrect == Spec => []OneSpace
  <1>1. Init => OneSpace
    BY DEF Init, OneSpace
  <1>2. ASSUME TypeInv, OneSpace, [Next]_vars
        PROVE  OneSpace'
    <2>1. CASE vectors' \subseteq vectors
      BY <1>2, <2>1 DEF OneSpace
    <2>2. ASSUME NEW c \in calls, vectors' = Indexed(c)
          PROVE  OneSpace'
      BY <2>2 DEF OneSpace, Indexed
    <2> QED
      BY <1>2, <2>1, <2>2, VectorSteps
  <1>3. TypeInv /\ [Next]_vars => TypeInv'
    BY NextTypes
  <1>4. TypeInv /\ OneSpace /\ [Next]_vars => OneSpace'
    BY <1>2
  <1> QED
    BY <1>1, <1>3, <1>4, InitTypes, PTL DEF Spec
-----------------------------------------------------------------------------
(* Only one call has the thread, so the one about to drop the vectors is   *)
(* the one that has just marked the row, and nothing else moves meanwhile. *)
LEMMA Alone ==
    ASSUME NEW c \in calls, HasThread(c), NEW next, calls' \subseteq (calls \ {c}) \cup {next},
           next.at # "drop" \/ source'.embedding # "ready" \/ ~source'.live
    PROVE  DropMarked'
  BY DEF HasThread, DropMarked, Hot

(* A step that finds the thread free meets no call about to drop.          *)
LEMMA FromFree ==
    ASSUME Free, NEW next, calls' \subseteq calls \cup {next}, next.at # "drop"
    PROVE  DropMarked'
  BY DEF Free, DropMarked, Hot

(* Every step keeps the mark of the call about to drop.                    *)
LEMMA NextMarked ==
    ASSUME TypeInv, DropMarked, [Next]_vars
    PROVE  DropMarked'
  <1> DEFINE find == [NoCall EXCEPT !.op = "embed", !.at = "find"]
  <1>1. find.at = "find" /\ NoCall.at = "queue"
    BY DEF NoCall
  <1>2. ASSUME NEW c \in calls, HasThread(c), Steps(c)
        PROVE  DropMarked'
    <2>1. c \in CallType
      BY Typed
    <2>2. CASE calls' = calls \ {c}
      BY <1>1, <1>2, <2>2, Alone
    <2>3. CASE EmbedMark(c) /\ calls' # calls \ {c}
      <3>1. source.live /\ c.model # "none" /\ chunks.spans # {}
        BY <2>3 DEF EmbedMark, Returns
      <3>2. source'.embedding = "running"
        BY <2>3, <3>1, Typed DEF EmbedMark, SetState, SourceType
      <3>3. calls' = (calls \ {c}) \cup {[c EXCEPT !.at = "drop", !.texts = chunks.spans]}
        BY <2>3, <3>1 DEF EmbedMark, Moves
      <3> QED
        BY <1>2, <3>2, <3>3, Alone
    <2>4. CASE \/ ParsedMeta(c) \/ ParsedQueue(c) \/ ChunkedPersist(c) \/ EmbedDrop(c)
               \/ EmbeddedWrite(c)
      <3>1. PICK at \in {"queue", "ingest", "meta", "put", "ready"} :
                calls' \subseteq (calls \ {c}) \cup {[c EXCEPT !.at = at]}
        BY <2>4 DEF ParsedMeta, ParsedQueue, ChunkedPersist, EmbedDrop, EmbeddedWrite,
           Moves, Returns
      <3>2. [c EXCEPT !.at = at].at # "drop"
        BY <2>1, <3>1 DEF CallType
      <3> QED
        BY <1>2, <3>1, <3>2, Alone
    <2>5. CASE EmbedFind(c)
      <3> DEFINE next == [c EXCEPT !.at = "list", !.model = app.model]
      <3>1. next.at # "drop" /\ calls' \subseteq (calls \ {c}) \cup {next}
        BY <2>1, <2>5 DEF EmbedFind, Moves, Returns, CallType
      <3> QED
        BY <1>2, <3>1, Alone
    <2>6. CASE ChunkedMeta(c) \/ Reindex(c)
      <3>1. calls' \subseteq (calls \ {c}) \cup {find}
        BY <2>6 DEF ChunkedMeta, Reindex, Moves, Returns
      <3> QED
        BY <1>1, <1>2, <3>1, Alone
    <2>7. CASE \/ QueueParse(c) \/ MarksFailed(c) \/ ParsedIngested(c) \/ EmbedQueue(c)
               \/ EmbeddedReady(c) \/ Rechunk(c)
      BY <2>2, <2>7 DEF QueueParse, MarksFailed, ParsedIngested, EmbedQueue, EmbeddedReady,
         Rechunk, Returns
    <2> QED
      BY <1>2, <2>2, <2>3, <2>4, <2>5, <2>6, <2>7 DEF Steps
  <1>3. ASSUME NEW c \in calls, HasThread(c), BlobFails(c)
        PROVE  DropMarked'
    <2>1. calls' \subseteq (calls \ {c}) \cup {NoCall}
      BY <1>3 DEF BlobFails, Returns
    <2> QED
      BY <1>1, <1>3, <2>1, Alone
  <1>4. ASSUME NEW j \in jobs, Succeeds(j)
        PROVE  DropMarked'
    <2> DEFINE parsed == [NoCall EXCEPT !.op = "parsed", !.at = "meta", !.doc = used.docs + 1]
               chunked == [NoCall EXCEPT !.op = "chunked", !.at = "persist", !.doc = j.doc]
               embedded == [op |-> "embedded", at |-> "write", doc |-> 0, texts |-> j.texts,
                            model |-> j.model, job |-> j.n]
    <2>1. parsed.at # "drop" /\ chunked.at # "drop" /\ embedded.at # "drop"
      BY DEF NoCall
    <2>2. /\ Free
          /\ j.kind = "parse" => calls' = calls \cup {parsed}
          /\ j.kind = "chunk" => calls' = calls \cup {chunked}
          /\ j.kind = "embed" => calls' = calls \cup {embedded}
      BY <1>4 DEF Succeeds
    <2>3. j.kind \in {"parse", "chunk", "embed"}
      BY Typed DEF JobType
    <2> HIDE DEF parsed, chunked, embedded
    <2> QED
      BY <2>1, <2>2, <2>3, FromFree
  <1>5. ASSUME NEW j \in jobs, Fails(j)
        PROVE  DropMarked'
    <2> DEFINE next == [NoCall EXCEPT !.op = j.kind, !.at = "fail"]
    <2>1. calls' \subseteq calls \cup {next} /\ next.at # "drop"
      BY <1>5 DEF Fails, NoCall
    <2> QED
      BY <1>5, <2>1, FromFree DEF Fails
  <1>6. ASSUME NEW j \in jobs, RetryJob(j)
        PROVE  DropMarked'
    BY <1>1, <1>6, FromFree DEF RetryJob
  <1>7. CASE Retry \/ Remove \/ SetModel \/ EmbedPressed
    <2>1. CASE Retry \/ Remove \/ SetModel
      <3>1. Free /\ calls' \subseteq calls \cup {NoCall}
        BY <2>1 DEF Retry, Remove, SetModel
      <3> HIDE DEF find
      <3> QED
        BY <1>1, <3>1, FromFree
    <2>2. CASE EmbedPressed
      <3>1. Free /\ calls' \subseteq calls \cup {find}
        BY <2>2 DEF EmbedPressed
      <3> HIDE DEF find
      <3> QED
        BY <1>1, <3>1, FromFree
    <2> QED
      BY <1>7, <2>1, <2>2
  <1>8. CASE Crash \/ Start
    <2>1. \A c \in calls' : c.at = "import"
      <3> DEFINE re(op) == [NoCall EXCEPT !.op = op, !.at = "import"]
      <3>1. \A op \in {"rechunk", "reindex"} : re(op).at = "import"
        BY DEF NoCall
      <3>2. calls' \subseteq {re("rechunk"), re("reindex")}
        BY <1>8 DEF Crash, Start
      <3> HIDE DEF re
      <3> QED
        BY <3>1, <3>2
    <2> QED
      BY <2>1 DEF DropMarked
  <1>9. CASE UNCHANGED vars
    BY <1>9 DEF vars, DropMarked
  <1> QED
    BY <1>2, <1>3, <1>4, <1>5, <1>6, <1>7, <1>8, <1>9 DEF Next, Call, Worker

(* The inductive invariant: the types, and a call about to drop the        *)
(* vectors finds its source marked (embedding-service.ts:174-190).         *)
THEOREM IndexCorrect == Spec => []IndexInv
  <1>1. Init => DropMarked
    BY DEF Init, NoCall, DropMarked
  <1>2. IndexInv /\ [Next]_vars => IndexInv'
    BY NextTypes, NextMarked DEF IndexInv
  <1>3. Init => IndexInv
    BY <1>1, InitTypes DEF IndexInv
  <1> QED
    BY <1>2, <1>3, PTL DEF Spec
-----------------------------------------------------------------------------
(* What each step that touches the vectors takes from a source that is     *)
(* ready before and after.                                                 *)
LEMMA NextLoses ==
    ASSUME IndexInv, [Next]_vars, source.embedding = "ready", source'.embedding = "ready",
           source'.live
    PROVE  LosesNothing
  <1>0. TypeInv /\ DropMarked /\ source \in SourceType
    BY Typed DEF IndexInv
  <1>1. CASE vectors' = vectors
    BY <1>1 DEF LosesNothing
  <1>2. ASSUME NEW c \in calls, Steps(c), vectors' # vectors
        PROVE  LosesNothing
    <2>1. c \in CallType
      BY <1>0, Typed
    <2>2. CASE ChunkedPersist(c)
      BY <2>2 DEF ChunkedPersist, LosesNothing
    <2>3. CASE EmbedDrop(c)
      <3>1. ~source.live
        BY <1>0, <2>3 DEF EmbedDrop, DropMarked
      <3> QED
        BY <2>3, <3>1 DEF EmbedDrop
    <2>4. CASE EmbeddedWrite(c)
      <3> DEFINE next == [c EXCEPT !.at = "ready"]
      <3>1. calls' = (calls \ {c}) \cup {next} /\ next.at = "ready" /\ c.at = "write"
        BY <2>1, <2>4 DEF EmbeddedWrite, Moves, CallType
      <3>2. c \in Answers \ calls'
        BY <2>4, <3>1 DEF EmbeddedWrite, Answers
      <3> QED
        BY <3>2 DEF LosesNothing
    <2>5. CASE EmbeddedReady(c)
      <3>1. ~source.live
        BY <1>2, <2>5 DEF EmbeddedReady
      <3>2. source' = source
        BY <2>5, <3>1 DEF EmbeddedReady, SetState
      <3> QED
        BY <3>1, <3>2
    <2> QED
      BY <1>2, <2>2, <2>3, <2>4, <2>5
         DEF Steps, QueueParse, MarksFailed, ParsedMeta, ParsedQueue, ParsedIngested,
             ChunkedMeta, EmbedFind, EmbedMark, EmbedQueue, Rechunk, Reindex
  <1>3. ASSUME NEW c \in calls, BlobFails(c), vectors' # vectors
        PROVE  LosesNothing
    <2>1. SetState("failed", "none")
      BY <1>3 DEF BlobFails
    <2>2. source'.embedding = "failed" \/ ~source'.live
      BY <1>0, <2>1 DEF SetState, SourceType
    <2> QED
      BY <2>2
  <1>4. CASE Remove
    <2>1. ~source'.live
      BY <1>0, <1>4 DEF Remove, SourceType
    <2> QED
      BY <2>1
  <1>5. ASSUME NEW j \in jobs, Succeeds(j) \/ Fails(j) \/ RetryJob(j)
        PROVE  vectors' = vectors
    BY <1>5 DEF Succeeds, Fails, RetryJob
  <1>6. CASE Retry \/ SetModel \/ EmbedPressed \/ Crash \/ Start
    BY <1>1, <1>6 DEF Retry, SetModel, EmbedPressed, Crash, Start
  <1>7. CASE UNCHANGED vars
    BY <1>1, <1>7 DEF vars
  <1> QED
    BY <1>1, <1>2, <1>3, <1>4, <1>5, <1>6, <1>7 DEF Next, Call, Worker

(* A source said to be indexed loses no vector but with its chunk or to    *)
(* another whole answer, wherever a reindex is cut short, for any models,  *)
(* builds and bounds (embedding-service.ts:174-190).                       *)
THEOREM ReadyKeepsVectors == Spec => ReadyLosesNothing
  <1>1. IndexInv /\ [Next]_vars =>
            [source.embedding = "ready" /\ source'.embedding = "ready" /\ source'.live
                => LosesNothing]_vars
    BY NextLoses
  <1> QED
    BY <1>1, IndexCorrect, PTL DEF Spec, ReadyLosesNothing
=============================================================================
