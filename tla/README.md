# Retenia: TLA+ models and proofs

Retenia is a desktop study application (Electron). It ingests documents, generates learning paths from
them with AI providers, and schedules reviews. This directory holds TLA+ modules for the parts of it
whose behaviour depends on interleavings, failures and restarts, TLC configurations that check them on
small instances, and TLAPS proofs of what can be proved for every instance.

Paths below are relative to the repository (`apps/desktop/src/...`, `packages/...`).

## 1. The system

| Part | State it keeps | Operations | Interacts with |
| --- | --- | --- | --- |
| Scheduler and `jobs` table (`packages/core/src/jobs`, `packages/db/src/repositories/jobs.ts`) | a row per job: status, attempts, run_after, lease | enqueue, claim, succeed, fail (backoff), cancel, requeue, retry, recoverOrphans, heartbeat | called by the runner only |
| Job runner (`apps/desktop/src/main/jobs/runner.ts`, `facade.ts`) | `running` (jobs handed out), `cancelled` (reports to suppress), timers | claimLoop, onMessage, onWorkerLost, cancel, retry, start, stop | scheduler, pool, user |
| Worker pool (`apps/desktop/src/main/jobs/pool.ts`, `protocol.ts`) | a slot per process: ready, retiring, jobId, kill timer | spawn, dispatch, cancel, receive, exit handler, retire, stop | runner callbacks, message ports |
| Worker process (`apps/desktop/src/worker/index.ts`) | current job, abort signal, retiring | handshake, start, cancel, shutdown, die | port to the pool |
| AI batch runner (`packages/ai/src/batch/runner.ts`) | `ai_batches` rows, `inFlight`, `pollFailures`, timers; writes `ai_results`, `ai_calls` | submitBatch, poll, reconcile, retry, cancel, resume, stop | providers, stores, path generation |
| Batch providers and fallback (`packages/ai/src/providers/batch`, `batch/sequential.ts`) | jobs upstream; runs in memory | submit, poll, cancel | batch runner |
| AI client (`packages/ai/src/run.ts`, `structured/`, `budget.ts`, `cost-log.ts`) | monthly spend, circuit of fallbacks | run, runStructured, checkBudget | providers, cost log |
| Path generation (`packages/pathgen/src/run/generation-run.ts`, `extract/`) | `active` runs, run row with progress and checkpoint, path row | start, resume, cancel, checkpoint, persistDraft | AI client, batch runner |
| Lesson expansion (`packages/pathgen/src/run/expansion-run.ts`, `expand/`, `qa/`) | run row, version rows, quality verdicts | expand waves, quality passes, publish | AI client, path rows |
| Path editing (`packages/pathgen/src/edit`, `freeze`, `apps/desktop/src/main/pathgen/facade.ts`) | draft specification of a version | edit, freeze, regenerate | generation |
| Remediation (`packages/pathgen/src/remediation`) | `remediations` rows, detour lessons, importance overrides of cards | handle a signal, complete, dismiss, retire, sweep | AI client, memory, diagnostic, path regeneration |
| Diagnostic, item bank | sessions, items | select, answer, build | AI client, memory |
| Review sessions and memory (`packages/core/src/memory`, `sessions`) | cards with a version, review log, session queue | start, answer, undo, leech, urgent, optimize | db, events |
| Library, ingest, embeddings (`apps/desktop/src/main/library`, `embeddings`, `packages/ingest`) | sources, chunks, vectors, model files | add, parse, embed, re-embed, download | jobs |
| Blobs, backups, settings, secrets, updates | files | write, collect, rotate | library, shell |
| IPC, renderer, UI, activities, importers | presentation and schemas | forward calls | all services |

What is hard in it:

* the main process, the worker processes, the timers and the user interleave, and messages already on a
  port outlive the state they were sent in;
* a worker may die at any point, taking the messages it posted last with it;
* the database driver is synchronous, so one handler of the main process is atomic unless it awaits real
  I/O (a provider, a child process): `packages/db/src/repositories/transaction.ts:16-20`;
* every write is its own transaction, so a crash falls between any two writes;
* calls to a provider fail after the provider has done what they asked;
* long chains of legal calls (cancel, retry, cancel; submit, poll, cancel) reach states no test sets up.

What makes each part correct:

* jobs: a row is settled exactly once per run, never left running without a process behind it, never
  dragged out of a final status by a late report, and attempts are bounded; a cancelled job's worker stops;
* batches: one charge is one cost row, one answer is stored once and never asked again, counters add up
  over partial results, retries and restarts, no job runs upstream unrecorded, every batch ends;
* generation and expansion: one attempt at a time per run, no batch id is lost, a cancelled run stays
  cancelled, the budget cap is respected, a paused run resumes where it stopped;
* editing: no edit is lost, a frozen version does not change;
* remediation: the limits hold of what is on record whatever comes in while a detour is written, what is
  closed stays closed, and the learner's own importance is not touched;
* reviews: one review per card and version, events after the commit;
* library: a source is never ready with missing chunks or vectors of two models.

`PROJECT.json` lists all parts with their status and every hazard found, with its line.

## 2. Modules

| Module | Extends | What it is |
| --- | --- | --- |
| `JobRows` | | one `jobs` row and the writes made to it, as operators from a row to a row |
| `JobRunner` | `JobRows` | runner, pool, workers and ports |
| `JobRunnerProofs` | `JobRunner`, TLAPS | the theorems about it |
| `MCJobRunner` | `JobRunner` | two jobs, two slots, one job of higher priority |
| `BatchRunner` | | batch runner, its three tables, the providers |
| `BatchRunnerProofs` | `BatchRunner`, TLAPS | the theorems about it |
| `MCBatchRunner` | `BatchRunner` | one or two batches over two custom ids |
| `GenerationRun` | | generation runs, their paths, stored answers and batches |
| `GenerationRunProofs` | `GenerationRun`, TLAPS | the theorems about it |
| `RunLife` | | the abstract life of a generation run, which `GenerationRun` implements (`Life == INSTANCE RunLife WITH ...`) |
| `GenerationRunLife` | `GenerationRunProofs`, TLAPS | the proof of that refinement |
| `MCGenerationRun` | `GenerationRun` | a run in the foreground, in economy mode, or regenerating |
| `LessonExpansion` | | the expansion of a frozen version into lessons, with the quality gates |
| `LessonExpansionProofs` | `LessonExpansion`, TLAPS | the theorems about it |
| `MCLessonExpansion` | `LessonExpansion` | two lessons, one in the head and one in the batched tail |
| `LibraryIndex` | | a source from its import to its vectors |
| `LibraryIndexProofs` | `LibraryIndex`, TLAPS | the theorems about it |
| `MCLibraryIndex` | `LibraryIndex` | two models, two builds of the app |
| `ReviewSession` | | the review session between the screen and the tables |
| `ReviewSessionProofs` | `ReviewSession`, TLAPS | the theorems about it |
| `MCReviewSession` | `ReviewSession` | two cards, one new and one known |
| `Detours` | | the remediation service: candidates, limits, detours and their raise of a card |
| `DetoursProofs` | `Detours`, TLAPS | the theorems about it |
| `MCDetours` | `Detours` | two modules of one lesson, two concepts, one with a card |

Operators commented `mutant` are the plausible mistakes used to make sure that each property depends on the
definition it is about; no behaviour of the specifications uses them.

### 2.1 JobRunner

| Variable | Code |
| --- | --- |
| `rows` | the `jobs` table (`packages/db/src/repositories/jobs.ts`) |
| `phase` | whether the app runs, and the window between `stop` and the exit |
| `running`, `cancelled` | the map and the set at `runner.ts:82-90` |
| `slot[s]` | `Slot` at `pool.ts:98-108`, with the state of its child process and the job its kill timer was armed for |
| `worker[s]` | `current`, the abort signal and `retiring` of `worker/index.ts:20-26` |
| `toWorker[s]`, `toMain[s]` | the two directions of the message port |
| `used` | how much of each bound is spent |

| Action | Code |
| --- | --- |
| `Launch` | `runner.start`: `recoverOrphans`, then the pool. At its only call site no pool exists and the run id is new, so every running row is re-queued |
| `Enqueue`, `BackoffElapses` | `scheduler.enqueue`; the passing of `run_after` |
| `ClaimAndDispatch` | one turn of `claimLoop`: free slot, `claim`, `dispatch`, books |
| `WorkerBoots`, `WorkerStarts`, `WorkerAborts`, `WorkerShutsDown` | handshake and the three requests |
| `WorkerFinishes`, `WorkerFinishesUnheard` | the end of `start`, with a readable outcome or one main drops |
| `WorkerThrows`, `WorkerCrashes`, `KillTimerFires` | `die`, a death, the kill timers of `cancel` and `retire` |
| `ReceiveReady/Done/Error/Idle`, `HandleExit` | pool handlers with the runner callbacks they call |
| `Cancel`, `Retry`, `Stop`, `MainExits` | the facade's calls, quit, crash |

Decisions worth knowing:

* A handler of the main process is one step. The branch of `claimLoop` for a failed dispatch
  (`runner.ts:283-289`) is therefore unreachable: the slot it has just seen free is still free.
* The end of a run posts its outcome and its `idle` in one turn of the worker's event loop, and both are
  one step; a death afterwards may lose the `idle`, or both.
* An exit is handled after the messages that survived the process. The backoff is minutes, so it outlasts
  the delivery of what is on a port and the handling of exits (guard of `BackoffElapses`).
* A worker may be recycled after any job: the quota and the memory limit are not counted.
* A job of an unknown kind reports an error like a failing one. Progress and log messages, payloads and the
  lease columns are left out; which rows a heartbeat may touch is the property `BooksMatchRows`.
* `ReceiveDone` settles whatever the status of the row, as the code does: a `done` in flight when the user
  cancels makes the row succeeded.
* `Settle` may fail its write (`runner.ts:134-135`): the failure is logged, both books have dropped the job, and
  the row stays as it was. An outcome main cannot read (`WorkerFinishesUnheard`) and one it cannot write are the
  same loss to the table and share the bound `MaxUnrecorded` (`Unrecorded`).
* A process that dies before it is ready and holds nothing leaves its slot empty for good (`HandleExit`,
  `pool.ts:202-207`).
* `Cancel` speaks to the first slot that holds the job (`pool.ts:276-277`), also when a retry has put it on two.

### 2.2 BatchRunner

| Variable | Code |
| --- | --- |
| `rows`, `answers`, `logged` | the `ai_batches`, `ai_results` and `ai_calls` tables |
| `inFlight`, `memory` | the keys of the `inFlight` map and the objects in it. A poll keeps the object it found even after the key is deleted, so the object lives apart from the key |
| `failures`, `timers` | `pollFailures`, the poll timers |
| `wire`, `polls`, `cancelling` | where `submitBatch`, `pollOnce` and `cancel` stand while they await the provider |
| `jobs` | the provider's side: for each batch the jobs it was given, in order |

`SubmitBatch`, `SubmitReturns`/`SubmitFails` are `submitBatch` before and after its call. `PollStarts`,
`PollAnswers`/`PollFails`, then `SkipAnswered`, `RecordAnswer`, `StoreAnswer`, `RecordFailure` one write at a
time, and `KeepPolling`, `Resubmit`, `ResubmitReturns`/`ResubmitFails`, `NoMoreRetries`, `Finish` are `pollOnce`.
`Cancel`/`CancelReturns`, `Launch` (`resume`), `Stop` and `Crash` are the rest; `ProviderAccepts`, `ProviderCancels`,
`JobEnds`, `ItemEnds`, `RunEnds` are the provider or the fallback.

Decisions worth knowing:

* Between two calls to a provider the runner only awaits the synchronous database. The steps of a
  reconciliation are separate, because a crash may fall between two writes, and `Mid`, `Quiet` and `Turn` keep
  any other step of the main process from running in between.
* The fallback answers in the same turn. Overlapping polls share one promise (`runner.ts:535-543`), so one
  poll record per batch is enough.
* `memory` is cleared only by a crash: after `inFlight.delete` nothing but a poll in progress reads it.
* Left out: money, the backoff counter, refusals that leave no state, forced submissions, failing updates of
  `ai_batches`. `pollOnce` on a row with no provider id is only reached through `resume`, which is `Launch`.
* `PollUnresolved` is a provider that is no longer configured or whose key is gone.

### 2.3 GenerationRun

| Variable | Code |
| --- | --- |
| `rows`, `paths` | the `generation_runs` row (status, `cost_usd`, `user_waiting`, `batch_ids`) and the status of the path the run created; `kept` if it regenerates a path being studied |
| `results` | what is answered: the extraction rows and `ai_results`, with the answers of batches that do not validate (`Invalid`). Answers are shared by all runs over the same material |
| `batches` | for each run the batches it submitted, as far as it can see them |
| `mem` | the attempt in memory: its stage, the signal, `allowOverBudget`, the usage accounted (`usage`) and the guard's count (`spent`), the units of the current pool not yet taken (`todo`) and in flight (`flying`), why the pool stops (`stop`), how many workers threw |
| `charges` | how many answers of use the run was billed for, by unit |
| `refused` | how many attempts it was billed for that brought none: the attempts of a call that failed, those a repair followed, and batch answers that do not validate |

`Start`, `Enter`, `Resume`, `CancelActive`, `CancelPaused` are the handle and the facade. `SubmitReturns`, `Book`, `SubmitFails`,
`AwaitedOver`, `BatchReadBack`, `DropBatch`, `BatchDropped` are the batch path of `extractChunks`; `Take`, `CallAnswered`, `CallFails`
are a worker of `runPool`, for chunks, outline and modules alike; `ExtractionEnds`, `Consolidated`, `OutlineEnds`,
`FirstEnds`, `SynthesisEnds` are what `execute` does between stages; `Release` is the second write of `finish` and
`cancel`; `BatchAnswers` and `BatchEnds` are the batch runner; `Crash` falls between any two writes.

Decisions worth knowing:

* Between two answers of the outside world a run only awaits the synchronous database and settings, so its turn
  is not interleaved with others (`InTurn`, `Quiet`); only a crash may cut it.
* The signal is a flag that is looked at before a call (`pool`, `runModule`, `run.ts:171`). A call in flight is not
  aborted: it is answered, stored and charged.
* A call costs one unit and its estimate is right, so the cap is a number of calls. The cap of the run and the
  monthly budget stop a pool in the same way; a monthly refusal may come at any call unless the user let the
  run exceed.
* A structured call is several attempts (`run.ts:287-352`): repairs, retries and other targets. Each one the provider
  answered is a row of `ai_calls`; only the accepted one's cost is returned (`run.ts:320-327`), and it alone is what the guard
  and the row count. `CallAnswered` and `CallFails` bill up to `MaxRefused` attempts beside it.
* The batch runner stores an answer unread. `ReadBack` takes those that validate (`extract-chunks.ts:262-268, 489-506`) and
  sends the others to the pool with the chunks nobody answered; the answer of the call then replaces the invalid one. A batch asks
  only for chunks with nothing stored, so an invalid answer is not asked for in a batch again.
* The statuses `queued`, `sequencing` and `persisting` are written in the same turn as the next status and are
  treated alike by every reader; they are merged with their neighbours.
* A pool that throws rejects while its other workers go on. The attempt is then over (`Active` is false), and
  what is still out lives on as `orphaned`.
* The batch runner is abstract here: an answer is stored and charged at once, also when one is stored already (the
  provider bills it, though the runner then writes no second cost row). Its own failures are in `BatchRunner`.
* Left out: what an answer contains beyond its validity, batches of more than 2000 requests,
  `runJob` choosing to answer synchronously, and starting a run on an existing draft, which no caller does.

How it implements `RunLife`: `LifeOf(r)` is "new" without a row, the status of the row when it is terminal,
"paused" when no attempt is active, and otherwise "stopping" or "going" by the signal. Every stage, pool and
batch of a run is a stutter of its life; `EndedIsFinal` only says that a row stays, `KeepsPromise` says which
ends a run that was asked to stop may have.

### 2.4 LessonExpansion

| Variable | Code |
| --- | --- |
| `lessons` | the `lessons` row with its `expansion` ledger (`rev`, `regens`, `variant`), the theory blocks (`text`), exercises, the number of times flashcards were written, and the review mark of the gates |
| `answers` | `ai_results` by what was asked (`Ask`, which is what a `custom_id` hashes) |
| `runs`, `batches` | the expansion rows of `generation_runs` with their `batch_ids`; the batch runner's side |
| `mem` | the expansion in flight: stage and phase of the wave, group, tail, the locals of `expandLessons` and of the gates |
| `charged` | the asks that have got an answer of use for money, those paid for again after it, those of a batch nobody will await |

`Press`, `Resume`, `Prepare`, `PrepareThrows`, `Close` are `expansion-run.ts`. `Replay`, `Replayed`, `Await`, `AnswerCall`, `FailCall`,
`RefuseCall`, `Submit`, `SubmitFails`, `Book`, `WaitOver` are one `runWave`, shared by all stages as in the code; `TheoryOver`,
`PracticeOver`, `Compose`, `Composed`, `CardsOver`, `GateOver` are what follows a wave; `Verdict`, `Judged`, `Rewrite`, `Rewritten`
are `runQa` after the gates.

Decisions worth knowing:

* A wave first replays what is stored, then dispatches the rest; only the first wave of a group awaits the batches
  on the row (`Awaits`).
* One path version; a press while an expansion is in flight only waits for it (`once`), so it is not a step.
* A text without a citable claim is not put to P6 (`pipeline.ts:573-576`): its gate is `skipped` and it goes out
  reviewed. `Claimless` says which texts have none, by lesson, revision and whether P8 edited them; `Verifying` opens
  the wave of P6 over the others.
* An answer of a batch is stored unread and may not validate (`Unreadable`): it is charged, a replay passes over it, the ask goes
  out again by a call, whose answer replaces it (`wave.ts:166-171, 284, 325-327`).
* A provider charges for each attempt it answers (`Charge`), also those of a call that fails or that a repair follows
  (`run.ts:287-352`), and those a crash kept from being heard.
* One P4 call per lesson instead of one per family; P5 always yields a card; the calls of a wave are in flight
  together; of the gates only P6 asks for edits, and the judge is always available. Failing lessons of a
  wave fail in one step.
* Nobody cancels: no caller passes a signal. The manifest, the cost and duplicate exercises are left out.

### 2.5 LibraryIndex

| Variable | Code |
| --- | --- |
| `source` | the `sources` row: removed or not, status, parsed document, embedding state and the model of its space |
| `chunks`, `vectors` | the live chunks of the source and the rules they were cut under; the rows of the vector index |
| `jobs` | its jobs that are open, or failed and still in the tray |
| `calls` | what the main process is in the middle of: listeners of settled jobs, presses, the two sweeps |
| `app` | whether the app is up, its build (chunking rules), the model setting, and whether work was left to the next start |

The listeners of `library/service.ts` and `embedding-service.ts` are cut at their writes: `ParsedMeta`, `ParsedQueue`,
`ParsedIngested`; `ChunkedPersist`, `ChunkedMeta`; `EmbeddedWrite` (one transaction), `EmbeddedReady`, `BlobFails`; and of `enqueue`,
`EmbedFind`, `EmbedMark`, `EmbedDrop`, `EmbedQueue`. `Rechunk` and `Reindex` are the sweeps of a start.

Decisions worth knowing:

* A call changes hands only where it awaits real I/O (a blob, a module); at a `Hot` stage it has the thread
  (`HasThread`) and only a crash can fall between its writes.
* Sources share nothing but the job queue, so there is one. The queue is what `JobRunner` promises: an open job
  ends, in any order; a cancelled job's row is only failed in the tray.
* `Cut` keeps what matters of the chunker: two parses share no chunk, two sets of rules share some of one parse.
* Left out: contextualize (no channel asks for it), annotations, reading progress, documents without text, a
  `done` that arrives after a cancellation.

### 2.6 ReviewSession

| Variable | Code |
| --- | --- |
| `cards`, `logs` | each card (the reviews its memory state counts, `reps`, `lapses`, `suspended`, `due`) and the append-only `review_logs`, with what `undo` restores |
| `rows` | the `review_sessions` table: plan and progress as stored |
| `runner` | the `SessionRunner` the service holds: entries, progress, drill entry |
| `screen`, `wire`, `replies` | `use-review-session.ts`: what is shown, the requests on the way and their answers |

`Start`, `ReviewMore`, `Grade`, `Skip`, `Undo`, `Receive` are the screen; `Main` handles one request (`Resume` or `Compose`, `SessionNext`,
`SessionAnswer`, `SessionSkip`, `SessionUndo`, `SessionFinish`, `Refused`); `CrashInAnswer` and `CrashInUndo` fall between the transaction
of the review and the row of the session; `Seed` and `Unseed` are the diagnostic's.

Decisions worth knowing:

* Arithmetic of FSRS is floating point. The memory state is the sequence of reviews it counts, which is what a
  wrong undo or a double answer would disturb.
* A card is graded Again or Good. A lapse is an Again on a card its last review left in Review.
* The screen waits for the reply of a grade; skips and undoes go out beside it, so a request may find a runner
  that has moved, or none.
* A reload of the renderer is a crash as far as a session goes. Burials, postponements, reinforcement, exams
  and deleted cards are left out.

### 2.7 Detours

| Variable | Code |
| --- | --- |
| `rows` | the `remediations` table, oldest first, each row with the status of its lesson, the number of its derived id, and its `boost` (`raised`, `clean`, `cleared`) |
| `cards` | `importance_override` of the card of each concept and its expiry, with who set it. The code tells its own override by level and expiry (`isOurOverride`); the model by the row that set it |
| `live`, `retired` | the active version of the path; the versions `retire` has been through |
| `calls` | the calls of the service that have not ended, with their place in `serialQueue` (`ticket`) and what they have left |
| `clock` | time, in ticks; `Week` and `BoostTime` are counted in them |

| Action | Code |
| --- | --- |
| `Signal`, `Reviewed`, `Press`, `Freeze` | the callers: `onDiagnosticCompleted` and the reinforcement node, `card.reviewed`, the two buttons, `afterRegenerationFreeze` |
| `Ignore`, `Refuse`, `Insert` | `consider`, for one concept of a signal: `version_not_active` or `already_decided`; a refusal of `checkLimits`, logged unless it is on record; the row and its lesson, before P11 is asked |
| `Write`, `WriteFails` | `writeDetour` once P11 has answered, with `planBoost`; the `catch` of `consider` |
| `Review` | `onCardReviewed`: the count of clean reviews of each raise, the release, and perhaps a candidate of `memoryTrigger` |
| `Close`, `CloseThrows`, `Retire` | `complete` and `dismiss`, `mustBeActive` that throws, `retire` |
| `Override`, `ClearOverride`, `Sweep`, `Tick`, `Crash` | the learner's own importance and urgent mode, `clearExpiredOverrides`, time, a crash (nothing resumes a call) |

Decisions worth knowing:

* Between two calls of a model a call of the service only awaits the synchronous database, so what lies between
  them is one step. The queue is kept by tickets: an operation starts when no earlier one is left.
* A candidate carries the version it was raised on; it is judged when its turn comes, after what was queued
  before it, which is where a regeneration or another detour gets in between.
* `placeRemediation` is a choice of any core lesson, `memoryTrigger` may or may not answer: their thresholds
  are numbers, and every outcome of theirs is a behaviour of the model.
* The queue is that of one service, so an override of the learner, an expiry, a regeneration and a tick may
  fall while P11 is writing. They are the steps that nothing orders.
* Left out: the text of a lesson, the measured `outcome` and its sweep, refusals for want of an anchor, the
  lowered mastery of a module sent back (`onRevisitCore`), manual reviews without a rating, and suspended,
  `high` or paused cards.

## 3. Runs

| Run | Checks | Bounds |
| --- | --- | --- |
| `jobs_safety` | TypeOK, BooksAgree, AttemptsBounded, NoStrandedJob, NoDoubleRun | 2 jobs, 2 slots, 2 attempts, 2 launches, 1 death, 1 cancel, 1 retry, 1 outcome unread or unwritten |
| `jobs_ends` | QueuedJobSettles, CancelledWorkerStops | 1 job, 2 slots, 2 attempts, 1 launch, 2 deaths, 2 cancels, 1 retry, 1 outcome unread or unwritten |
| `batch_safety` | TypeOK, OneRowPerCharge, RetriesOnlyFailures, Accounted, JobOnRecord | 2 batches that share a custom id, 1 retry, 1 failing poll, 2 launches, 1 cancel, 1 failing write |
| `batch_ends` | BatchEnds | 2 batches of one request, 1 retry, 2 failing polls, 1 launch, 1 cancel |
| `generation_safety` | TypeOK, PaidOnce, MoneyOnRecord, PathMatchesRun, CancelReachesBatch, KeepsPromise, RunRests | 1 run, 2 chunks, 3 modules, cap of 3 calls, pools of 2, 1 refused attempt billed with a call, 4 events |
| `expansion_safety` | TypeOK, DoneOnce, VerdictOnText, PaidOnce, CompletedLeavesNone | 2 lessons, head of 1, full gates, the second lesson may be found at fault, the first text of the first lesson and the edited rewrite of the second have no claim, 3 events |
| `expansion_ends` | ExpansionRests | the same, 2 events |
| `library_safety` | TypeOK, OneSpace, ReadyLosesNothing, EmbeddingEnds | 2 models, 2 builds, 9 jobs, 2 events |
| `reviews_safety` | TypeOK, CardIsItsHistory, ClosedStaysClosed, SessionsEnd | 2 cards (one known, one of maintenance importance), leech at 1 lapse, final drill, 2 requests on the way, 2 events |
| `detours_safety` | TypeOK, LimitsHold, OnRecordOnce, StayClosed, OverridesRespected, QueueDrains | 2 modules of one lesson, 2 concepts (1 with a card), 1 confident error, 2 detours a week of 1 tick, back to the lesson at the second of a concept, 2 clean reviews, 2 versions, 1 tick, 4 events |

Four properties have named parts, which the table of exceptions and the proofs refer to: `BooksAgree` is
`SuppressionMatchesRow` and `BooksMatchRows`, `Accounted` is `CountsAddUp` and `AnswersCollected`, `MoneyOnRecord` is
`BudgetRespected` and `CostOnRecord`, `DoneOnce` is `CardsOnce` and `RewrittenOnce`.

In `generation_safety` an event is a resumption, a cancellation, a failing call or submission, a repaired call, a
batch answer that does not validate, a refusal of the monthly budget or a crash, in any combination of four. Two chunks let a batch answer in part and a pool have
two calls out; three modules leave two for the pool after the first; the cap of three calls is reached between
the outline and the modules, so that a run pauses, is resumed over its budget and pauses again. The passing
run has one run (1 140 000 states).

In the expansion runs an event is a press, a refused or failed call, a batch answer that does not validate, a
submission that fails, a failing preparation or a crash. One lesson of the head goes by calls and one of the tail may go by a batch; three events
are enough for a press, a crash after a verdict or a submission, and a second press or crash on what that left.

In `library_safety` an event is a press (retry, reindex), a failed job, a blob that cannot be written, a removal, a
change of model or a crash; two of them and two builds reach a source whose jobs for two models are open at once
after a restart. Nine jobs are more than two events can queue, so the bound on jobs never disables a step.

In `reviews_safety` an event is an undo, a skip on the heels of a grade, a crash, a seeding or its reversal, a new
day or a further session. The second request on the way is what a skip or an undo beside a grade needs.

In `detours_safety` an event is a signal, a review, a press, a regeneration, a change of the learner's own override
or a crash. Four are enough for two signals of two concepts each to reach every limit, for a regeneration to be
queued behind a detour being written with a press behind it, and for a raise, two clean reviews and an override
between them. One tick makes a week pass, and a raise expire.

Two jobs and two slots are enough for a job to meet another on its slot and itself on another slot, and one
death, cancel and retry for each of the races of the list of hazards; two attempts make the last attempt
differ from the first. `jobs_ends` trades the second job for what ends one badly: two deaths empty both slots, two
cancels and a retry put a job on both slots and cancel it again, and one outcome is lost. In the batch runs one batch goes to a provider with a Batch API and the other to the
fallback, two requests let a job answer one and fail the other, one retry makes the second job of a batch its
last, and a second launch is what resumes after a crash or a quit. The environment is bounded (launches,
deaths, cancels, retries, failing writes) and may stop: the app may stay down. Deadlock is therefore not
checked; that the system does not get stuck is what the liveness runs say.

Some passing properties name the case in which the code does not keep them:

| Property | Exception | Why |
| --- | --- | --- |
| `NoStrandedJob` | an outcome main cannot read, or fails to write (`used.unrecorded`) | `pool.ts:172-177` drops the message, and the `idle` after it frees the slot; `runner.ts:134-135` logs the failing write and forgets the job: the row stays running until the next launch or a cancellation |
| `QueuedJobSettles` | a job so stranded; a pool whose workers all died at their start (`PoolGone`) | as above; `pool.ts:202-207` does not respawn a worker that dies before it is ready and holds nothing |
| `CancelledWorkerStops` | a job that was ever on two slots | a retry hands it out again while its cancelled run winds down; the next `cancel` tells, and arms the kill timer of, the first slot only (`pool.ts:276-277`) |
| `NoDoubleRun` | the user retries a job (`used.retries`) | `retry` does not wait for the cancelled run to wind down: the job is claimed on a second slot |
| `OneRowPerCharge` | one row for each relaunch and, once there is one, for each failing write | a crash, or a failing answer store, between the two writes of `recordItem` and `storeAnswer` |
| `AnswersCollected` | a failing write (`used.writes`) | an item that fails to store stays among those counted, and a completed batch is not polled again |
| `JobOnRecord` | the retry submission; a cancelled batch (`used.cancels`) | the retry is sent before any row tells (`runner.ts:637`), and a cancelled row is not retired by `resume` |
| `PaidOnce` | one more charge for each crash | a call in flight, or the id of a batch not yet booked, is lost with the process |
| `PaidOnce`, `BudgetRespected`, `CostOnRecord` | attempts that brought no answer of use (`refused`) | a call that fails was billed for each attempt (`run.ts:287-352`) and is asked again on resume; a repaired call reports its last attempt only (`run.ts:320-327`); a batch answer that does not validate is billed and asked again (`extract-chunks.ts:262-268, 489-506`). Neither the guard nor the row's cost sees these bills |
| `BudgetRespected`, `CostOnRecord` | a crash (`used.crashes`); for the first, a run the user let exceed | the cost is written at the end of a stage only |
| `CostOnRecord` | failed runs | a module that throws skips the accounting of its stage (`generation-run.ts:551`) |
| `PathMatchesRun`, `CancelReachesBatch` | a crash | between the two writes of `start`, `finish` or `cancel`; `cancel` after a restart closes the row and leaves its batch |
| `PaidOnce` of `LessonExpansion` | the asks of a batch nobody awaits (`charged.lost`) | it was submitted and not yet on the row when a crash came (`expansion-run.ts:288`); a row that failed is not resumed and its batches are not awaited |
| the same | attempts that bought nothing | attempts of a call that failed or was repaired (`run.ts:287-352`), an answer a crash kept from being heard, an answer of a batch that does not validate (`wave.ts:166-171, 325-327`): billed, and asked again |
| `VerdictOnText` | a text without a citable claim (`Claimless`) | `pipeline.ts:573-576` skips P6 and the lesson goes out reviewed without its verdict |
| `RewrittenOnce` | each press of "Regenerar" allows two more revisions | its own, and one of the gates, whose count it resets |
| `ReadyLosesNothing` | the answer of another job replaces the vectors | `onJobSettled` deletes and inserts in one transaction |
| `EmbeddingEnds` | a removed source; a start without a model, or a blob that cannot be written (`app.left`) | the reindex sweep returns when the setting is "none"; a listener that throws ends there, and only the next start takes the source up |
| `OnRecordOnce`, on confident errors | a refusal that adds no row | the property is about rows: a refusal of a concept whose detour is open, or whose last row says the same, adds none (`service.ts:357-368`), so a further reading of the same diagnostic (`service.ts:401-410`) judges the error anew, and may let it in once the limit has passed |
| `OnRecordOnce`, on open detours | a crash (`used.crashed`) | it takes the call that was writing; the row stays active and its lesson generating |
| `CardIsItsHistory`, on memory states | a review taken back from under one that is still there, or a seeding taken back from under any later one (`Overtaken`) | `unseed` restores the state before the seed, whatever was reviewed since, and the undo of the later review brings the seeding back; a review whose session row a crash lost is not on any undo's list, so an undo may take back the one before it |

### Where the code and its comments disagree

Each of these runs checks one statement of the repository and TLC violates it:

| Run | Statement | What happens |
| --- | --- | --- |
| `library_removed` | removing a source takes its chunks out of search whoever writes (`0001_fts5_vec0_seed.sql:78-80`) | the source is removed while its chunk job runs: when it settles, `onChunkSettled` writes live chunks under it |
| `reviews_resume` | a session left open is picked up exactly where it was (`session-start.ts:38-39`) | a card suspended as a leech drops out of the resumed queue, the cursor still counts it, and another card is passed over |

The modules define further statements of the repository that TLC refutes when they are put in place of the
property of a run. They are not among the runs, and are kept for who changes that code:

| Definition | Statement | What happens |
| --- | --- | --- |
| `JobRunner!CancelledStaysOffLadder` | a cancelled job is not dragged back onto the retry ladder (`runner.ts:84-85`) | `die` reports an error and exits: the error spends the suppression, the exit fails the row |
| `JobRunner!CancelStopsTheWorker` | cancelling stops the worker, which is killed if it does not (`pool.ts:271-274`) | cancel, retry, and a second dispatch while the first worker winds down: the next cancellation finds the first slot, and the second worker is neither told nor killed (`pool.ts:276-277`) |
| `BatchRunner!ChargesLoggedOnce` | a result is reconciled at most once (`runner.ts:38-41`) | a crash between the cost row and the answer logs the charge twice |
| `BatchRunner!TerminalIsFinal` | nothing more happens to a terminal batch (`batch/types.ts:39`) | a call on the wire overwrites `cancelled` |
| `GenerationRun!CancelCloses` | `cancel` stops a running run at its next checkpoint (`generation-run.ts:100`) | the cancellation comes while the calls beside a budget pause are out: the run ends `blocked_budget` (the pause of `RunLife` that wins) |
| `GenerationRun!OneRegeneration` (with two runs) | one regeneration at a time (`facade.ts:587`) | a regeneration paused on its budget does not count, and may be resumed beside the next |
| `LessonExpansion!ReadyMeansLanded` | a lesson is finished when P3, P4 and P5 have landed (`plan.ts:141`) | the cards' call fails and the verdict still makes the lesson ready |
| `LessonExpansion!ExamplesKept` | "Mas ejemplos" appends (`persist.ts:56`) | a crash after the examples are written: the sweep resumes as a plain expansion, replays the first answer of P4 and replaces the block |
| `LessonExpansion!EditedIsVouched` | an edit P6 never answered for goes out with the pre-edit text (`pipeline.ts:83-87`) | P6 answers for the edited text without a verdict, and the edit goes out all the same |
| `LibraryIndex!IndexedOrSeen` | a source without all its vectors is seen by the next sweep (`service.ts:1042-1048`) | a crash after a chunk job's listener has replaced the chunks and before it has marked the row: the source stays ready, with a chunk that has no vector |
| `ReviewSession!UndoIsExact` | an undo puts the card back as it was (`session-runner.ts:28-29`) | a seed is taken back under a later answer: the card goes back to before the seed, and the answer no longer counts in its memory state |

## 4. Fairness

`JobRunner!Fairness`: a live process boots and reads its port, a posted message is read, an exit event
arrives, an armed timer fires, time passes, and the poll timer keeps kicking the claim loop. Nothing is
assumed of users, launches or crashes. `JobsEnd` adds that a run ends; only `QueuedJobSettles` needs it, and
`CancelledWorkerStops` is checked without it, since the kill timer exists for jobs that never end. Going
down is an escape (`phase # "up"`): the next launch may never come.

`BatchRunner!Fairness`: a call is answered or fails (polls and retries carry a deadline, `runner.ts:60-69`; the
first submission has none in the code and is assumed to settle), a timer fires, a turn of the main process
ends, jobs end (a provider gives a batch 24 hours), and a provider does not rate-limit every poll of an
ended job for ever (the one strong fairness).

`GenerationRun!Fairness`: a turn goes on, a call is answered or fails by its deadline, the sleep of a waiting run
ends and sees its batch, and a batch ends (`BatchRunner!BatchEnds`). Nothing is assumed of the user or of crashes.

`LessonExpansion!FairSpec`: what is in memory goes on (every call has a deadline), a row left expanding is adopted by
the sweep of the next launch (`bootstrap.ts:470-483`), and every batch ends. It takes for granted that the sweep gets
to the row; with several versions an earlier one that throws would keep it from doing so.

`LibraryIndex!FairSpec`: a call of the process runs, a worker ends the job it was given, and the app is opened again:
the recovery of an embedding is the sweep of a start, so without the next start there is nothing to promise.

`ReviewSession!FairSpec`: the two processes answer each other, the screen asks for a session, and a learner with a card
on the screen grades it sooner or later. Nothing is assumed of skips, undoes, crashes or new days. A learner who
skips for ever is bounded by `MaxEvents` only for hasty skips; a skip of the card shown moves the cursor on.

`Detours!FairSpec`: the service goes on with its queue: P11 answers or fails by its deadline, and a call that has its
turn is served. Nothing is assumed of the learner, the clock, regenerations or crashes.

## 5. Proofs

`JobRunnerProofs` proves, for every set of jobs, number of slots, priority and bound:

* `TypeCorrect`: `Spec => []TypeOK`;
* `BooksCorrect`: `Spec => []BooksInv`, and from it `BooksAgreeCorrect` (`SuppressionCorrect` and `HeartbeatsCorrect` for
  its parts) and `AttemptsCorrect`;
* `PortsCorrect`: `Spec => []PortsInv`, and from it `NoStrandedCorrect` (`NoStrandedJob`) and `NoDoubleRunCorrect` (`NoDoubleRun`).

The constants' assumptions are those named in `JobRows` and `JobRunner`. Type correctness is inductive as it
stands; the lemmas before it type each message queue under append, tail, concatenation and loss of a suffix.
`SuppressionMatchesRow` is not inductive alone: a launch re-queues the running rows, so the books must be
known to be empty while the app is down. `AttemptsBounded` is not either: a claim spends an attempt, so a
queued row must have one left (`rows[j].attempts + 2 <= MaxAttempts + used.launches`). `BooksInv` is the
conjunction; each action has one step, with one step below it for each conjunct it can disturb.

Who holds a job, and who will say how it ended, depends on what is on the ports. `PortsInv` says it: `Port` lists
the five situations a slot, its process and its two queues can be in (the process has not booted, has, rests, holds a
job, is dead), with what each queue may hold there, and that a process that dies may have lost the end of its queue;
`Watched` says that each running row has a slot that still owes its report and will not have it suppressed, as long
as every outcome was read and written; `OneHolder` says that no two slots have the same job and that a queued job which a slot
still has was failed by its process, so that the backoff outlasts the exit, as long as nobody retries. Each
action moves one slot from one situation to another and leaves the others alone; the lemmas on queues say
what a prefix, a tail or an append keeps of the order of `start` and `cancel`.

`BatchRunnerProofs` proves, for any set of batches, whichever of them go to a provider with a Batch API, any finite
work (`FiniteAssumption`: a batch is a list of requests) and any bounds:

* `TypeCorrect`: `Spec => []TypeOK`;
* `RetriesCorrect` (`RetriesOnlyFailures`), `RecordCorrect` (`JobOnRecord`) and `AccountedCorrect` (`Accounted`);
* `ChargesCorrect` (`OneRowPerCharge`).

None of the five is inductive alone; the invariant is built in layers, each of which uses those before it, and each
batch is on its own: a step of one leaves the conjuncts of the others alone (`Local`, `Apart`, and a lemma `...Frame` for
each layer). `Flow` says where the row stands during a poll or a submission: a poll in progress saw the row that is
still there, and a row names a job that exists. `JobsInv`, `Told` and `Asked` say what the jobs were
asked and what the poll was told: each job but the last has ended, no job asks for what an earlier one has answered, a
reply never says more than the job produced, and `Asked` counts the jobs with `memory[b].retries`, which is what bounds
the retries across polls that fail half-way. `Recorded` follows the row of the first submission, the crash
included. `Sums`, `Remote` and `Fallback` are the arithmetic behind the counters: for a provider with a Batch API a row's count
is the requests the job on it does not have plus the answers reconciled so far; for the fallback, whose partial
results come with every poll, it is what this process remembers to have reconciled. A batch
polled by a process that did not submit it is the hard case: for the fallback its job is forgotten then, so that
nothing is counted twice. `Collected` says that what was counted is in the answers. The lemmas `...Effects` state
once what each action changes of one batch, so that the layers need not open the actions again.

`OneRowPerCharge` counts the rows of all batches, so it has two layers of its own. `FirstLife` says that before any
relaunch an answer is logged once, because what a poll still has to reconcile is not logged: a batch of a provider's is
polled again only under a newer job (`PaidBy`), and the fallback's partial answers are remembered. After a relaunch neither
holds, and `Spent` bounds the damage instead. A row of the cost log is spare (`SpareRows`) when it comes after the first
of its batch and id, or is the first and neither a stored answer nor the one about to be stored vouches for it. To
log a spare answer again adds one spare row and vouches for another; only a crash between the two writes, which finds
one batch at most in the middle of its turn (`OneTurn`), and a store that fails make one more. So there are
never more spare rows than relaunches and failing writes, whatever the number of batches, and the rows logged again
(`RowsAgain`) are among them: relaunches and failing writes add up, they do not multiply.

`GenerationRunProofs` proves, for any number of runs, chunks and modules, any cap, any pool widths and any
bound (the passing run has one run):

* `TypeCorrect`: `Spec => []TypeOK`;
* `RunsCorrect`: `Spec => []RunInv`, and from it `PathsCorrect` (`PathMatchesRun`) and `EndedCorrect` (`EndedIsFinal`);
* `BillsCorrect`: `Spec => []PaidInv`, and from it `PaidOnceCorrect` (`PaidOnce`);
* `CancelCorrect` (`CancelReachesBatch`) and `MoneyCorrect` (`MoneyOnRecord`).

Type correctness needs one strengthening: from the dispatch of a batch to its end only chunks are asked for
(`AsksChunks`), since a batch holds chunks while an attempt may have any unit to do. `RunInv` adds three things.
`OneTurn`: at most one run is in a turn, because a step that starts one waits until all others are out of theirs.
`StageMatchesRow`: a run whose row is terminal has no attempt at work, only the second write of `finish` or the
late calls of a pool that threw; this is what makes `EndedIsFinal` inductive, as every other step that writes a row
starts from an attempt at work or from a resumable row. `PathMatchesStage`: between the two writes of `start` or of
`finish` the path may differ from what the row says, and the stage tells; out of a turn that is `PathMatchesRun`.
Each step of a run is shown to keep its own conjuncts and to leave the other runs alone (`KeepsRun`, `Local`), so
that one lemma (`OtherRunKeeps`) covers the rest.

`PaidInv` adds to it where the row, the calls and the batches of a run stand: `Placed` (what the row says of the attempt),
`Flight` (calls are out only in a pool, and never for a unit that is still to be asked), `Batched` (nothing is
asked for again before the batches the row names are over, and without a crash it names them all) and `Billed`, which counts for
each unit the answers bought with those that may still be: its call in flight and the batches that have not answered it. That sum
is at most one and one more for a crash, and, as long as its result is not stored, what was charged is at most the crashes;
`PaidOnce` alone says nothing of a batch still out, and is not inductive. `CancelReachesBatch` follows from `Batched`.
`MoneyInv` follows the money as long as there was no crash: `OneBatch` (one batch runs, the newest, while its run waits for it),
`Accounts` (the attempt knows of every charge but what the batch has answered and it has not read) and `Capped` (what was
charged, is in flight or may be answered stays within `Reach`). The sum over the units is a fold over a set, for which the
induction of the library is out of reach: the lemmas on `Total` take instead a smallest set of units for which they
fail (`SmallestSubset`, from the first-order theorem that strict inclusion of finite sets is well founded).

`GenerationRunLife` proves `LifeImplemented`: `Spec => KeepsPromise`, that is, `Spec => Life!Spec` under the mapping
`life <- [r \in Runs |-> LifeOf(r)]`. The initial states map to initial states; each step is shown to be a passage of at
most one run (`MovesOn`) or a crash. The invariant `LifeInv` is `RunInv` with one conjunct more, `Heard`: a pool that
stopped for the user was asked to, so that a run is cancelled only out of "stopping".

`LessonExpansionProofs` proves, for any lessons, head, mode, faults and bound, every safety property of its run:
`TypeCorrect`, `DoneOnceCorrect`, `VerdictCorrect`, `PaidOnceCorrect`, and the action property `CompletedCorrect`. All rest on
`Base`: types, `Course` (how the stage, the phase and the lists of an attempt agree) and `OnLastRow` (only the last row may be
expanding, and the attempt in memory is the one it has). The layers above it:

* `Revised` and `Carded`, for `DoneOnce`: the revisions of a lesson, on the row and in memory, are at most two by press and
  the one regeneration of the gates, which the row has before its new theory; whoever asks for cards has none yet.
* `Vouched`, for `VerdictOnText`: in memory the text of a written lesson is the one on its row, and the gate of P6 is closed only
  with P6's answer to that text, so that a row that becomes `ready` has it.
* `Brought`, for `CompletedLeavesNone`: a lesson the attempt took is `Settled` (ready or failed) or `Left` on the
  list of its stage, unless the budget paused the run; `OnlyCloseCompletes` says that no other action completes a row.
* `Paid`, for `PaidOnce`: `Bills` (a question that got an answer of use is paid for again only when its batch is awaited by nobody, and otherwise
  the answer is stored), `Batched` (a batch that can still bring something is held by the row or by the attempt that submits it, is alone, asks
  only what is not paid yet, and about a lesson that is not finished, so that an expansion will meet it), `Calls` (what the attempt is about to ask is not paid) and
  `Awaited` (a batch is out only before the first wave has awaited it, or while it is waited for).

The actions share few forms: the lemmas on `Land`, `Next`, `Fail` and `Review` say once what an answer does at each stage, and those on
`SameWork` and the definitions beside it what may change without disturbing a layer.

`LibraryIndexProofs` proves, for any set of models, any number of builds and any bound:

* `TypeCorrect`: `Spec => []TypeOK`. The strengthening `TypeInv` types the calls and what
  each has in hand, and bounds documents and open jobs by the jobs queued
  (`used.docs + Cardinality(jobs) <= used.jobs`), because a parse that settles mints a document;
* `SpacesCorrect`: `Spec => []OneSpace`. Every write of vectors replaces all of them, so the argument is in `EmbeddedWrite`;
* `ReadyKeepsVectors`: the action property `ReadyLosesNothing`, from `IndexInv`: a call about to drop vectors has marked the
  source (`DropMarked`), which other calls cannot undo because it still has the thread.

`DetoursProofs` proves, for any path, any signals, any policy and any bound, every safety property of its run:
`TypeCorrect`, `LimitsCorrect`, `OnRecordCorrect`, and the action properties `ClosedCorrect` and `OverridesCorrect`, all from
`DetoursCorrect` (`Spec => []DetoursInv`). The limits are not inductive as they stand. `Past` says that no row is of
the future, so that every week the new row falls in has, so far, no more rows than the one `Refusal` counts, and that a
number is never greater than its row's place, so that there is a next one to give. `Queued` says that tickets are those of past events and distinct, and that only
the call that has the queue writes, on a row that is still open when P11 comes back: this is what keeps a
failing P11 from undoing a dismissal, and what makes an open detour have a writer. `Superseded` says that a version that
was retired is no longer being studied, so nothing is inserted into it. Each step either leaves all rows where they are
and changes a few fields of some (`KeepsRow`) or adds one that passed `Refusal` (`AddsRow`); the lemmas
`Kept` and `Added` carry the limits over the two forms, and the actions only show which form they have.

`ReviewSessionProofs` proves, for any number of cards, any of them known or of maintenance importance, any leech threshold, with the
final drill or without it, and any bounds, every safety property of its run: `TypeCorrect`, `ClosedCorrect` (the action property) and
`HistoryCorrect` (`CardIsItsHistory`).

`TypeInv` is what they share. The types are not inductive alone: a card may come up in the drill only while `undo` could
take back the answer that put it there, since an undo that finds no answer keeps the card of the drill on screen and
moves the cursor to 0, inside the main queue. `Serves` and `Kept` say so by counting, card by card, places in the drill against answers
(`Count`, with a lemma for each of append, prefix, suffix and removal). `StoredIn` says that no more than one row is open, which
is the one the runner serves; closed rows stay closed because only `persist` and `abandonStale` write. `Reviewed` has the
counts of `CardIsItsHistory`: a review adds one live review, `undoReview` takes one away.

`HistInv` follows the memory states. `CountsEarlier`: a review counts earlier reviews of its card. `Memories`: what a card counts is there, or was a seeding. `Ordered`: unless the
card was overtaken, its memory state replays its live reviews, and the state that each of them would restore replays those before it. The case
that matters is a review taken back: if no live review counted it, it was the last one, so that what it restores is the rest.
`Recalled` is what makes an undo safe: the reviews a session can still take back are in the order of the log, and what stood before each of
them stands, or was a seeding. An overtaken card stays overtaken, which is why the exception can be stated on the log alone.

An earlier form of the property excepted only a review taken back from under one that is still there. It held on the instance
of the run and is false with three events: a card is seeded, reviewed, unseeded, and the review is undone; the card then
counts the seeding that is no longer there. The proof is what showed it.

Every safety property of the passing runs is proved. Only model-checked: the liveness properties, which the prover does not
handle.

## 6. Not modelled

* Parsers, chunkers, wire formats, prompts, SQL text, rendering and Electron wiring: no interleaving of their own.
* FSRS, forgetting curves and the optimizer: floating-point arithmetic.
* The AI client and its budget, path editing and versions, the diagnostic and the item bank, the graph
  and sequencing algorithms: to be modelled, see the plan.
* Of the parts that are modelled, what sections 2.1 to 2.7 leave out.

Seen while modelling `ReviewSession`, and not stated as a property: an undo of a drill answer moves the cursor back
and loses the drill entry (`session-runner.ts:413-437`); a session resumed during the drill loses it; undoing an answer leaves a card suspended by it; a crash between the
review and the row lets the card be graded twice; an answer does not carry the card it grades.

Seen while modelling `Detours`, and not stated as a property: reviews that wait in the queue behind a detour being
written are counted after its raise, though they came before it (`boost.ts:22`, "since the raise"); a crash loses a
`retire` that is queued, so the old version keeps its open detours; and it leaves a detour that was being written active
with a lesson in `generating`, which no call writes again, though the answer is kept for a retry (`generate.ts:29-31`).

Seen while modelling the jobs and the batches, and documented in the code: `succeed` overwrites a row that was
cancelled meanwhile (`jobs.ts:191`); the startup sweep of expansions awaits one resumption after another
(`bootstrap.ts:475`); a pool that throws leaves its other workers' calls to end on their own (`extract/pool.ts:25`).

## 7. Plan

1. done: `JobRows`, `JobRunner`, `BatchRunner`, `GenerationRun`, `RunLife`, `LessonExpansion`, `LibraryIndex`, `ReviewSession`,
   `Detours` and the proofs of section 5.
2. `PathVersions` (edits, freeze, regeneration, restore), `Diagnostic`: their sessions and rows.
3. The AI client: budget, retries, fallback and cost log around one call.
4. Pure algorithms against reference definitions: topological sequencing, cycle breaking, consolidation.
5. An abstract job queue and an abstract batch that `JobRunner` and `BatchRunner` refine.
6. Proofs: the lemmas about the operators of what items 2 to 5 add, and the refinements of item 5.
