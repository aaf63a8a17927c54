---------------------------- MODULE LibraryIndex ----------------------------
(***************************************************************************)
(* One source of the library on its way into the search indexes            *)
(* (apps/desktop/src/main/library/): parsed, cut into chunks, embedded.    *)
(* Each stage is a job; the listener of a settled job writes its result    *)
(* and queues the next stage.  Beside them: the retry and reindex buttons, *)
(* the removal of the source, a change of the embedding model, crashes,    *)
(* and the two sweeps of every start.                                      *)
(*                                                                         *)
(* The sources share nothing but the job queue, which JobRunner models:    *)
(* here an open job ends at any time, in any order.  The main process runs *)
(* one call at a time and changes call only where a file or a module is    *)
(* read: a call at a Hot stage keeps the thread, and only a crash can fall *)
(* between its writes.                                                     *)
(***************************************************************************)
EXTENDS Integers, FiniteSets

CONSTANTS
    Models,         \* the values retrieval.embeddingModel takes
    LastBuild,      \* builds of the app, each with its chunking rules
    MaxJobs,        \* bound on the jobs queued
    MaxEvents       \* bound on presses, failures, removals, crashes

ASSUME ModelsAssumption == Models # {} /\ "none" \notin Models
ASSUME BoundsAssumption == LastBuild \in Nat \ {0} /\ MaxJobs \in Nat /\ MaxEvents \in Nat

VARIABLES
    source,     \* its row: status, parsed document, embedding state, space
    chunks,     \* its live chunks, and the rules they were cut under
    vectors,    \* the rows of the vector index
    jobs,       \* its jobs that are open, or failed and still in the tray
    calls,      \* what the main process is in the middle of; {} when down
    app,        \* up or not, build, model setting, work left to the next start
    used        \* jobs queued, documents parsed, events

vars == <<source, chunks, vectors, jobs, calls, app, used>>

Docs == 1 .. MaxJobs
Spans == (Docs \X {0}) \cup (Docs \X (1 .. LastBuild))
NoCall == [op |-> "add", at |-> "queue", doc |-> 0, texts |-> {}, model |-> "none", job |-> 0]

(* chunkSourceDoc.  A key hashes the text and the block ids: a parse mints *)
(* new ids, so two documents share no chunk; two sets of rules cut some    *)
(* spans of one document alike.                                            *)
Cut(doc, rules) == {<<doc, 0>>, <<doc, rules>>}

Init ==
    /\ source = [live |-> TRUE, status |-> "pending", doc |-> 0,
                 embedding |-> "pending", space |-> "none"]
    /\ chunks = [spans |-> {}, rules |-> 0]
    /\ vectors = {}
    /\ jobs = {}
    /\ calls = {NoCall}
    /\ \E m \in Models : app = [up |-> TRUE, build |-> 1, model |-> m, left |-> FALSE]
    /\ used = [jobs |-> 0, docs |-> 0, events |-> 0]
-----------------------------------------------------------------------------
Hot == {"queue", "meta", "ingest", "fail", "find", "drop", "ready"}

Free == app.up /\ \A c \in calls : c.at \notin Hot
HasThread(c) == app.up /\ \A d \in calls \ {c} : d.at \notin Hot

Event == used.events < MaxEvents /\ used' = [used EXCEPT !.events = @ + 1]

Moves(c, next) == calls' = (calls \ {c}) \cup {next}
Returns(c) == calls' = calls \ {c}

(* scheduler.enqueue.                                                      *)
Enqueue(kind, doc, texts, model) ==
    /\ used.jobs < MaxJobs
    /\ used' = [used EXCEPT !.jobs = @ + 1]
    /\ jobs' = jobs \cup {[n |-> used.jobs + 1, kind |-> kind, failed |-> FALSE,
                           doc |-> doc, texts |-> texts, model |-> model]}

(* setEmbeddingState; a removed row is not there to update.                *)
SetState(status, space) ==
    source' = IF source.live THEN [source EXCEPT !.embedding = status, !.space = space]
              ELSE source
-----------------------------------------------------------------------------
(* addStored and retry: the row, already written, then the parse job.      *)
QueueParse(c) ==
    /\ c.op = "add" /\ c.at = "queue"
    /\ Enqueue("parse", 0, {}, "none")
    /\ Returns(c)
    /\ UNCHANGED <<source, chunks, vectors, app>>

(* The retry button, on the card of a source that failed.                  *)
Retry ==
    /\ Free /\ Event
    /\ source.live /\ source.status = "failed"
    /\ source' = [source EXCEPT !.status = "pending"]
    /\ calls' = calls \cup {NoCall}
    /\ UNCHANGED <<chunks, vectors, jobs, app>>

(* The soft delete takes the chunks along, and their triggers the vectors. *)
Remove ==
    /\ Free /\ Event
    /\ source.live
    /\ source' = [source EXCEPT !.live = FALSE]
    /\ vectors' = {v \in vectors : v.chunk \notin chunks.spans}
    /\ chunks' = [chunks EXCEPT !.spans = {}]
    /\ UNCHANGED <<jobs, calls, app>>

SetModel ==
    /\ Free /\ Event
    /\ \E m \in (Models \cup {"none"}) \ {app.model} : app' = [app EXCEPT !.model = m]
    /\ UNCHANGED <<source, chunks, vectors, jobs, calls>>
-----------------------------------------------------------------------------
(* A worker is done: the row succeeded, and its listener starts.           *)
Succeeds(j) ==
    /\ Free
    /\ j \in jobs /\ ~j.failed
    /\ jobs' = jobs \ {j}
    /\ calls' = calls \cup
         {CASE j.kind = "parse" ->
                 [NoCall EXCEPT !.op = "parsed", !.at = "meta", !.doc = used.docs + 1]
            [] j.kind = "chunk" ->
                 [NoCall EXCEPT !.op = "chunked", !.at = "persist", !.doc = j.doc]
            [] j.kind = "embed" ->
                 [op |-> "embedded", at |-> "write", doc |-> 0, texts |-> j.texts,
                  model |-> j.model, job |-> j.n]}
    /\ used' = IF j.kind = "parse" THEN [used EXCEPT !.docs = @ + 1] ELSE used
    /\ UNCHANGED <<source, chunks, vectors, app>>

(* The last attempt failed, and the row stays in the tray; or the user     *)
(* cancelled the job.                                                      *)
Fails(j) ==
    /\ Free /\ Event
    /\ j \in jobs /\ ~j.failed
    /\ \/ jobs' = (jobs \ {j}) \cup {[j EXCEPT !.failed = TRUE]}
       \/ jobs' = jobs \ {j}
    /\ calls' = calls \cup
         (IF j.kind = "chunk" THEN {} ELSE {[NoCall EXCEPT !.op = j.kind, !.at = "fail"]})
    /\ UNCHANGED <<source, chunks, vectors, app>>

(* jobs.retry, from the tray: the same row, with the same payload.         *)
RetryJob(j) ==
    /\ Free /\ Event
    /\ j \in jobs /\ j.failed
    /\ jobs' = (jobs \ {j}) \cup {[j EXCEPT !.failed = FALSE]}
    /\ UNCHANGED <<source, chunks, vectors, calls, app>>

(* onParseSettled and the embedding's onJobSettled for a job not succeeded;*)
(* a chunk job leaves only its message.                                    *)
MarksFailed(c) ==
    /\ c.at = "fail"
    /\ IF c.op = "embed" THEN SetState("failed", "none")
       ELSE source' = IF source.live THEN [source EXCEPT !.status = "failed"] ELSE source
    /\ Returns(c)
    /\ UNCHANGED <<chunks, vectors, jobs, app, used>>
-----------------------------------------------------------------------------
(* onParseSettled: the document, the chunk job, then "ready".              *)
ParsedMeta(c) ==
    /\ c.op = "parsed" /\ c.at = "meta"
    /\ IF source.live
         THEN source' = [source EXCEPT !.doc = c.doc] /\ Moves(c, [c EXCEPT !.at = "queue"])
         ELSE Returns(c) /\ UNCHANGED source
    /\ UNCHANGED <<chunks, vectors, jobs, app, used>>

ParsedQueue(c) ==
    /\ c.op = "parsed" /\ c.at = "queue"
    /\ Enqueue("chunk", c.doc, {}, "none")
    /\ Moves(c, [c EXCEPT !.at = "ingest"])
    /\ UNCHANGED <<source, chunks, vectors, app>>

ParsedIngested(c) ==
    /\ c.op = "parsed" /\ c.at = "ingest"
    /\ source' = [source EXCEPT !.status = "ready"]
    /\ Returns(c)
    /\ UNCHANGED <<chunks, vectors, jobs, app, used>>

(* onChunkSettled, once the drafts are read: persistChunkDrafts matches by *)
(* key, the tombstones too; a chunk that goes takes its vectors along.     *)
Replaced(doc) == [spans |-> Cut(doc, app.build), rules |-> app.build]

ChunkedPersist(c) ==
    /\ c.op = "chunked" /\ c.at = "persist"
    /\ chunks' = Replaced(c.doc)
    /\ vectors' = {v \in vectors : v.chunk \notin chunks.spans \ chunks'.spans}
    /\ Moves(c, [c EXCEPT !.at = "meta"])
    /\ UNCHANGED <<source, jobs, app, used>>

(* The counts of the source's meta; on a removed row this throws.          *)
ChunkedMeta(c) ==
    /\ c.op = "chunked" /\ c.at = "meta"
    /\ IF source.live THEN Moves(c, [NoCall EXCEPT !.op = "embed", !.at = "find"])
       ELSE Returns(c)
    /\ UNCHANGED <<source, chunks, vectors, jobs, app, used>>
-----------------------------------------------------------------------------
(* The reindex button of a source.                                         *)
EmbedPressed ==
    /\ Free /\ Event
    /\ source.live
    /\ calls' = calls \cup {[NoCall EXCEPT !.op = "embed", !.at = "find"]}
    /\ UNCHANGED <<source, chunks, vectors, jobs, app>>

(* embedSource, then enqueue up to the import in activeModel: the setting  *)
(* is read before it, everything else after.                               *)
EmbedFind(c) ==
    /\ c.op = "embed" /\ c.at = "find"
    /\ IF source.live THEN Moves(c, [c EXCEPT !.at = "list", !.model = app.model])
       ELSE Returns(c)
    /\ UNCHANGED <<source, chunks, vectors, jobs, app, used>>

(* Mutants: a source with no chunks is embedded all the same; the source is*)
(* marked when the vectors come, not before the old ones go.               *)
EmbedMarkAnyway(c) ==
    /\ c.op = "embed" /\ c.at = "list"
    /\ SetState(IF c.model = "none" THEN "failed" ELSE "running", "none")
    /\ IF source.live /\ c.model # "none"
         THEN Moves(c, [c EXCEPT !.at = "drop", !.texts = chunks.spans])
         ELSE Returns(c)
    /\ UNCHANGED <<chunks, vectors, jobs, app, used>>

EmbedMarkLater(c) ==
    /\ c.op = "embed" /\ c.at = "list"
    /\ IF source.live /\ c.model # "none" /\ chunks.spans # {}
         THEN Moves(c, [c EXCEPT !.at = "drop", !.texts = chunks.spans])
         ELSE Returns(c)
    /\ UNCHANGED <<source, chunks, vectors, jobs, app, used>>

(* No model, no chunks, or the chunks to embed: in no space from here on.  *)
EmbedMark(c) ==
    /\ c.op = "embed" /\ c.at = "list"
    /\ SetState(CASE c.model = "none" -> "failed"
                  [] c.model # "none" /\ chunks.spans = {} -> "pending"
                  [] OTHER -> "running",
                "none")
    /\ IF source.live /\ c.model # "none" /\ chunks.spans # {}
         THEN Moves(c, [c EXCEPT !.at = "drop", !.texts = chunks.spans])
         ELSE Returns(c)
    /\ UNCHANGED <<chunks, vectors, jobs, app, used>>

EmbedDrop(c) ==
    /\ c.op = "embed" /\ c.at = "drop"
    /\ vectors' = {}
    /\ Moves(c, [c EXCEPT !.at = "put"])
    /\ UNCHANGED <<source, chunks, jobs, app, used>>

EmbedQueue(c) ==
    /\ c.op = "embed" /\ c.at = "put"
    /\ Enqueue("embed", 0, c.texts, c.model)
    /\ Returns(c)
    /\ UNCHANGED <<source, chunks, vectors, app>>

(* The embedding's onJobSettled: one transaction for the vectors, then the *)
(* state; on a removed row the state throws, and the vectors go again.     *)
Indexed(c) == {[chunk |-> s, model |-> c.model, job |-> c.job] : s \in c.texts}

(* Mutant: the vectors there are stay.                                     *)
EmbeddedWriteBeside(c) ==
    /\ c.op = "embedded" /\ c.at = "write"
    /\ vectors' = vectors \cup Indexed(c)
    /\ Moves(c, [c EXCEPT !.at = "ready"])
    /\ UNCHANGED <<source, chunks, jobs, app, used>>

EmbeddedWrite(c) ==
    /\ c.op = "embedded" /\ c.at = "write"
    /\ vectors' = Indexed(c)
    /\ Moves(c, [c EXCEPT !.at = "ready"])
    /\ UNCHANGED <<source, chunks, jobs, app, used>>

EmbeddedReady(c) ==
    /\ c.op = "embedded" /\ c.at = "ready"
    /\ SetState("ready", c.model)
    /\ vectors' = IF source.live THEN vectors ELSE {}
    /\ Returns(c)
    /\ UNCHANGED <<chunks, jobs, app, used>>

(* A blob that cannot be read or written.  The embedding's listener        *)
(* catches it; the others end there, and the runner logs it.               *)
BlobFails(c) ==
    /\ Event
    /\ c.at \in {"persist", "put", "write"}
    /\ IF c.op = "embedded"
         THEN vectors' = {} /\ SetState("failed", "none")
         ELSE UNCHANGED <<vectors, source>>
    /\ app' = [app EXCEPT !.left = @ \/ c.op # "embedded"]
    /\ Returns(c)
    /\ UNCHANGED <<chunks, jobs>>
-----------------------------------------------------------------------------
(* rechunkStaleSources, after its import.  A source with no parsed         *)
(* document is the retry button's business.                                *)
Stale ==
    \/ chunks.spans # {} /\ chunks.rules # app.build
    \/ source.live /\ source.status = "ready" /\ chunks.spans = {}

Rechunk(c) ==
    /\ c.op = "rechunk"
    /\ IF Stale /\ source.live /\ source.doc # 0
         THEN Enqueue("chunk", source.doc, {}, "none")
         ELSE UNCHANGED <<jobs, used>>
    /\ Returns(c)
    /\ UNCHANGED <<source, chunks, vectors, app>>

(* Mutant: the sweep leaves alone what says it is running.                 *)
UnindexedButRunning ==
    /\ source.live /\ chunks.spans # {}
    /\ \/ source.embedding \in {"pending", "failed"}
       \/ source.embedding = "ready" /\ source.space # app.model

(* reindexStaleSources: sourceIdsNeedingEmbedding, then enqueue.           *)
Unindexed ==
    /\ source.live /\ chunks.spans # {}
    /\ source.embedding # "ready" \/ source.space # app.model

Reindex(c) ==
    /\ c.op = "reindex"
    /\ IF app.model # "none" /\ Unindexed
         THEN Moves(c, [NoCall EXCEPT !.op = "embed", !.at = "find"])
         ELSE Returns(c)
    /\ app' = [app EXCEPT !.left = @ \/ app.model = "none"]
    /\ UNCHANGED <<source, chunks, vectors, jobs, used>>

(* The rows are what a dead process leaves; its open jobs are queued again *)
(* by recoverOrphans.                                                      *)
Crash ==
    /\ Event
    /\ app.up
    /\ app' = [app EXCEPT !.up = FALSE]
    /\ calls' = {}
    /\ UNCHANGED <<source, chunks, vectors, jobs>>

(* start(), of this build or of a later one.                               *)
Start ==
    /\ ~app.up
    /\ \E b \in app.build .. LastBuild :
         app' = [app EXCEPT !.up = TRUE, !.build = b, !.left = FALSE]
    /\ calls' = {[NoCall EXCEPT !.op = "rechunk", !.at = "import"],
                 [NoCall EXCEPT !.op = "reindex", !.at = "import"]}
    /\ UNCHANGED <<source, chunks, vectors, jobs, used>>
-----------------------------------------------------------------------------
Steps(c) ==
    \/ QueueParse(c) \/ MarksFailed(c)
    \/ ParsedMeta(c) \/ ParsedQueue(c) \/ ParsedIngested(c)
    \/ ChunkedPersist(c) \/ ChunkedMeta(c)
    \/ EmbedFind(c) \/ EmbedMark(c) \/ EmbedDrop(c) \/ EmbedQueue(c)
    \/ EmbeddedWrite(c) \/ EmbeddedReady(c)
    \/ Rechunk(c) \/ Reindex(c)

Call == \E c \in calls : HasThread(c) /\ Steps(c)
Worker == \E j \in jobs : Succeeds(j)

Next ==
    \/ Call \/ Worker
    \/ \E c \in calls : HasThread(c) /\ BlobFails(c)
    \/ \E j \in jobs : Fails(j) \/ RetryJob(j)
    \/ Retry \/ Remove \/ SetModel \/ EmbedPressed
    \/ Crash \/ Start

Spec == Init /\ [][Next]_vars

(* The calls of the process run, the workers end the jobs they are given   *)
(* (JobRunner), and the app is opened again.                               *)
FairSpec == Spec /\ WF_vars(Call) /\ WF_vars(Worker) /\ WF_vars(Start)
-----------------------------------------------------------------------------
(* The type invariant.                                                     *)
TypeOK ==
    /\ source \in [live: BOOLEAN, status: {"pending", "ready", "failed"}, doc: Docs \cup {0},
                   embedding: {"pending", "running", "ready", "failed"},
                   space: Models \cup {"none"}]
    /\ chunks \in [spans: SUBSET Spans, rules: 0 .. LastBuild]
    /\ vectors \subseteq [chunk: Spans, model: Models, job: Docs]
    /\ \A j \in jobs : /\ j.n \in 1 .. used.jobs /\ j.failed \in BOOLEAN
                       /\ (j.kind = "embed") <=> (j.model # "none" /\ j.texts # {})
                       /\ (j.kind = "chunk") <=> (j.doc # 0)
    /\ calls # {} => app.up
    /\ used.jobs \in 0 .. MaxJobs /\ used.docs \in 0 .. used.jobs
    /\ used.events \in 0 .. MaxEvents

(* What a search ranks can be compared: the vectors of a source are in one *)
(* space, and a chunk has one, whichever jobs of whichever models settle   *)
(* and in whatever order (embedding-service.ts, enqueue and onJobSettled). *)
OneSpace ==
    \A v, w \in vectors : v.model = w.model /\ (v.chunk = w.chunk => v = w)

(* A source said to be indexed loses no vector but with its chunk, or to   *)
(* the whole answer of another job: a reindex cut short at any point leaves*)
(* it marked, and the next sweep sees it (embedding-service.ts:174-190).   *)
Answers == {c \in calls : c.op = "embedded" /\ c.at = "write"}

LosesNothing ==
    \A s \in chunks.spans \cap chunks'.spans :
        (\E v \in vectors : v.chunk = s) =>
            (\E v \in vectors' : v.chunk = s) \/ Answers \ calls' # {}

ReadyLosesNothing ==
    [][source.embedding = "ready" /\ source'.embedding = "ready" /\ source'.live
            => LosesNothing]_vars

(* An embedding under way ends, through crashes, removals and model        *)
(* changes: the jobs that were open run again and the sweep of the next    *)
(* start takes up the rest (bootstrap.ts:366).  Only a blob that cannot be *)
(* written, or a start with no model, leaves the source to another start.  *)
EmbeddingEnds ==
    (source.embedding = "running")
        ~> source.embedding # "running" \/ ~source.live \/ app.left

(* Deleting a book takes its chunks out of search, whoever writes          *)
(* (migrations/0001_fts5_vec0_seed.sql:78-80).                             *)
RemovedIsGone == ~source.live => chunks.spans = {}

(* When nothing is under way, a source said to be indexed has a vector for *)
(* each of its chunks (service.ts, onChunkSettled: the next sweep retries).*)
IndexedOrSeen ==
    app.up /\ calls = {} /\ jobs = {} /\ source.live /\ source.embedding = "ready" =>
        \A s \in chunks.spans : \E v \in vectors : v.chunk = s
=============================================================================
