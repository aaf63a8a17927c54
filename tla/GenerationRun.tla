--------------------------- MODULE GenerationRun ---------------------------
(***************************************************************************)
(* A "Generate with AI" run (packages/pathgen/src/run/generation-run.ts):  *)
(* extraction of the chunks, in a pool of calls or in a batch,             *)
(* consolidation, the outline, the modules, and the draft; with pauses on  *)
(* the budget, cancellation, failures, crashes and resumption.             *)
(*                                                                         *)
(* The database and the settings are synchronous, so a turn of the main    *)
(* process reaches from one answer of the outside world to the next call:  *)
(* nobody else acts in the middle of it (Quiet), but a crash may.  Every   *)
(* attempt of a call is billed one unit, what a call is estimated at.      *)
(***************************************************************************)
EXTENDS Integers, Sequences, FiniteSets, FiniteSetsExt

CONSTANTS
    NumRuns,        \* runs, numbered in the order in which they are created
    NumChunks,      \* extractable chunks of the material, the same for all runs
    NumModules,     \* modules of the outline
    Cap,            \* GenerationConfig.budgetCapUsd, in calls
    ExtractWidth,   \* concurrency.extract (6 in the code)
    ModuleWidth,    \* concurrency.modules (3 in the code)
    StartOptions,   \* the [kept, waiting, over] a run may be started with
    MaxRefused,     \* attempts of one call that are billed and not accepted
    MaxEvents       \* bound on resumptions, cancellations, failing calls and
                    \* submissions, calls and batches that bill an attempt and
                    \* refuse it, refusals of the monthly budget and crashes

ASSUME NumRunsAssumption == NumRuns \in Nat \ {0}
ASSUME MaterialAssumption == NumChunks \in Nat \ {0} /\ NumModules \in Nat \ {0}
ASSUME BudgetAssumption == Cap \in Nat \ {0}
ASSUME OptionsAssumption ==
    StartOptions \subseteq [kept: BOOLEAN, waiting: BOOLEAN, over: BOOLEAN]
ASSUME WidthAssumption == ExtractWidth \in Nat \ {0} /\ ModuleWidth \in Nat \ {0}
ASSUME RefusedAssumption == MaxRefused \in Nat

VARIABLES
    rows,       \* the generation_runs table
    paths,      \* the status of the path a run created; "kept" if it had one
    results,    \* ai_results and the extraction rows: the units answered, and
                \* the chunks a batch answered with what does not validate
    batches,    \* the batches of a run at the batch runner, in order
    mem,        \* the attempt of a run in memory
    charges,    \* the answers of use each run was billed for each unit
    refused,    \* the attempts it was billed for that brought none
    used        \* how much of each bound is spent, and whom the user let go on

vars == <<rows, paths, results, batches, mem, charges, refused, used>>

Runs == 1 .. NumRuns
Chunks == {<<"chunk", n>> : n \in 1 .. NumChunks}
Outline == <<"outline", 1>>
Modules == {<<"module", n>> : n \in 1 .. NumModules}
Units == Chunks \cup {Outline} \cup Modules

(* The stored answer of a batch that does not validate as u's.             *)
Invalid(u) == <<"invalid", u>>
Unusable == {Invalid(u) : u \in Chunks}

Terminal == {"completed", "failed", "cancelled"}
Generating == {"extracting", "consolidating", "synthesizing"}
Pools == {"extracting", "outline", "first", "modules", "orphaned"}

NoAttempt ==
    [stage |-> "idle", aborted |-> FALSE, over |-> FALSE, usage |-> 0,
     spent |-> 0, todo |-> {}, flying |-> {}, called |-> {}, failed |-> {},
     stop |-> "no", threw |-> 0]

Init ==
    /\ rows = [r \in Runs |-> [status |-> "none", cost |-> 0, kept |-> FALSE,
                               waiting |-> TRUE, ids |-> {}]]
    /\ paths = [r \in Runs |-> "none"]
    /\ results = {}
    /\ batches = [r \in Runs |-> <<>>]
    /\ mem = [r \in Runs |-> NoAttempt]
    /\ charges = [r \in Runs |-> [u \in Units |-> 0]]
    /\ refused = [r \in Runs |-> [u \in Units |-> 0]]
    /\ used = [events |-> 0, crashes |-> 0, raised |-> {}]
-----------------------------------------------------------------------------
(* The `active` map: the attempts under way.  Those of a failed run whose  *)
(* other calls are still out are no longer in it.                          *)
Active(r) == mem[r].stage \notin {"idle", "orphaned"}

(* The workers of runPool still alive; the outline and the first module are*)
(* called alone.                                                           *)
Width(r) ==
    CASE mem[r].stage = "extracting" -> ExtractWidth
      [] mem[r].stage \in {"modules", "orphaned"} -> ModuleWidth - mem[r].threw
      [] OTHER -> 1

CanTake(r) ==
    /\ mem[r].stage \in Pools
    /\ mem[r].todo # {}
    /\ mem[r].stop = "no"
    /\ Cardinality(mem[r].flying) < Width(r)

(* Mutant: a pool is not done as long as its list is not.                  *)
DrainedEmpty(r) == mem[r].stage \in Pools /\ mem[r].flying \cup mem[r].todo = {}

Drained(r) == mem[r].stage \in Pools /\ mem[r].flying = {} /\ ~CanTake(r)

InTurn(r) ==
    mem[r].stage \in {"opening", "booking", "closing"} \/ CanTake(r) \/ Drained(r)

Quiet == \A r \in Runs : ~InTurn(r)

(* Mutant: the estimate of the call is left out.                           *)
WouldExceedLate(m, calls) == ~m.over /\ m.spent > Cap

(* The guard of an attempt, which the user can turn off.                   *)
WouldExceed(m, calls) == ~m.over /\ m.spent + calls > Cap

(* Steps 3 and 4 of extractChunks: the answers stored are replayed, and the*)
(* rest goes to a batch or to the pool.                                    *)
Dispatched(m, waiting) ==
    LET pending == Chunks \ results
    IN  CASE m.aborted \/ pending = {} -> [m EXCEPT !.stage = "extracting"]
          [] ~m.aborted /\ pending # {} /\ waiting ->
                [m EXCEPT !.stage = "extracting", !.todo = pending]
          [] ~m.aborted /\ pending # {} /\ ~waiting ->
                IF WouldExceed(m, Cardinality(pending))
                THEN [m EXCEPT !.stage = "extracting", !.stop = "budget"]
                ELSE [m EXCEPT !.stage = "submitting", !.todo = pending]

(* Mutant: only a cancellation frees the path.                             *)
FinishKeepingPath(r, status, m) ==
    /\ rows' = [rows EXCEPT ![r].status = status, ![r].cost = m.usage]
    /\ mem' = [mem EXCEPT ![r] =
                  IF status = "cancelled" THEN [m EXCEPT !.stage = "closing"]
                                          ELSE NoAttempt]

(* finish: the row, in one write; a terminal status then frees the path, in*)
(* another (Release).                                                      *)
Finish(r, status, m) ==
    /\ rows' = [rows EXCEPT ![r].status = status, ![r].cost = m.usage]
    /\ mem' = [mem EXCEPT ![r] =
                  IF status \in Terminal THEN [m EXCEPT !.stage = "closing"]
                                         ELSE NoAttempt]
-----------------------------------------------------------------------------
(* What the user asks.                                                     *)

(* generationRuns.findLatestByPath of the path being studied.              *)
Latest(q) == rows[q].kept /\ \A p \in Runs : rows[p].kept => p <= q

(* facade.start makes a path; facade.regenerate generates into the path    *)
(* being studied, once per path at a time.                                 *)
Start(r, kept, waiting, over) ==
    /\ Quiet
    /\ paths[r] = "none"
    /\ \A q \in Runs : q < r => paths[q] # "none"
    /\ kept =>
         /\ waiting
         /\ \A q \in Runs : Latest(q) => rows[q].status \notin Generating
    /\ paths' = [paths EXCEPT ![r] = IF kept THEN "kept" ELSE "generating"]
    /\ mem' = [mem EXCEPT ![r] = [NoAttempt EXCEPT !.stage = "opening",
                                                   !.over = over]]
    /\ rows' = [rows EXCEPT ![r].waiting = waiting]
    /\ used' = IF over THEN [used EXCEPT !.raised = @ \cup {r}] ELSE used
    /\ UNCHANGED <<results, batches, charges, refused>>

(* The second write of start creates the row; the quote may be over the cap*)
Enter(r) ==
    /\ mem[r].stage = "opening"
    /\ LET row == [rows[r] EXCEPT !.kept = paths[r] = "kept"]
       IN  \/ /\ rows' = [rows EXCEPT ![r] = [row EXCEPT !.status = "extracting"]]
              /\ mem' = [mem EXCEPT ![r] = Dispatched(@, row.waiting)]
           \/ /\ ~mem[r].over
              /\ rows' = [rows EXCEPT ![r] = [row EXCEPT !.status = "blocked_budget"]]
              /\ mem' = [mem EXCEPT ![r] = NoAttempt]
    /\ UNCHANGED <<paths, results, batches, charges, refused, used>>

(* Mutant: a batch that has answered something is taken to be over.        *)
Unanswered(r) ==
    {k \in rows[r].ids : batches[r][k].status = "running"
                             /\ batches[r][k].answered = {}}

(* The batches the row names that are still running.                       *)
Outstanding(r) == {k \in rows[r].ids : batches[r][k].status = "running"}

Resumable(r) == rows[r].status \notin Terminal \cup {"none"} /\ ~Active(r)

Resume(r, over) ==
    /\ Quiet
    /\ used.events < MaxEvents
    /\ Resumable(r)
    /\ rows' = [rows EXCEPT ![r].status = "extracting"]
    /\ LET m == [NoAttempt EXCEPT !.over = over, !.usage = rows[r].cost,
                                  !.spent = rows[r].cost]
       IN  mem' = [mem EXCEPT ![r] =
                      IF Outstanding(r) # {} THEN [m EXCEPT !.stage = "awaiting"]
                                             ELSE Dispatched(m, rows[r].waiting)]
    /\ used' = [used EXCEPT !.events = @ + 1,
                            !.raised = IF over THEN @ \cup {r} ELSE @]
    /\ UNCHANGED <<paths, results, batches, charges, refused>>

(* cancel flips the signal of a run in the map, ...                        *)
CancelActive(r) ==
    /\ Quiet
    /\ used.events < MaxEvents
    /\ Active(r)
    /\ mem' = [mem EXCEPT ![r].aborted = TRUE]
    /\ used' = [used EXCEPT !.events = @ + 1]
    /\ UNCHANGED <<rows, paths, results, batches, charges, refused>>

(* ... or closes one that is not.                                          *)
CancelPaused(r) ==
    /\ Quiet
    /\ used.events < MaxEvents
    /\ Resumable(r)
    /\ rows' = [rows EXCEPT ![r].status = "cancelled"]
    /\ mem' = [mem EXCEPT ![r].stage = "closing"]
    /\ used' = [used EXCEPT !.events = @ + 1]
    /\ UNCHANGED <<paths, results, batches, charges, refused>>

(* The second write of finish and of cancel, and active.delete.  The calls *)
(* of a pool that threw stay out.                                          *)
Release(r) ==
    /\ mem[r].stage = "closing"
    /\ paths' = [paths EXCEPT ![r] = IF @ = "kept" THEN "kept" ELSE "draft"]
    /\ mem' = [mem EXCEPT ![r] = IF @.threw > 0 THEN [@ EXCEPT !.stage = "orphaned"]
                                                ELSE NoAttempt]
    /\ UNCHANGED <<rows, results, batches, charges, refused, used>>
-----------------------------------------------------------------------------
(* The batch path.                                                         *)

(* The batch runner asks only for what is not answered, well or badly.     *)
SubmitReturns(r) ==
    /\ Quiet
    /\ mem[r].stage = "submitting"
    /\ LET asked == {u \in mem[r].todo : {u, Invalid(u)} \cap results = {}}
       IN  batches' = [batches EXCEPT ![r] =
               Append(@, [items |-> asked, answered |-> {},
                          status |-> IF asked = {} THEN "ended" ELSE "running"])]
    /\ mem' = [mem EXCEPT ![r].stage = "booking"]
    /\ UNCHANGED <<rows, paths, results, charges, refused, used>>

(* onBatch: the id goes to the row before anything waits for the batch.    *)
Book(r) ==
    /\ mem[r].stage = "booking"
    /\ rows' = [rows EXCEPT ![r].ids = @ \cup {Len(batches[r])}]
    /\ mem' = [mem EXCEPT ![r].stage = "waiting"]
    /\ UNCHANGED <<paths, results, batches, charges, refused, used>>

(* A submission that fails cancels, pauses, or falls back to the pool.     *)
SubmitFails(r) ==
    /\ Quiet
    /\ used.events < MaxEvents
    /\ mem[r].stage = "submitting"
    /\ LET m == [mem[r] EXCEPT !.stage = "extracting"]
       IN  \/ /\ m.aborted
              /\ mem' = [mem EXCEPT ![r] = [m EXCEPT !.stop = "cancelled"]]
           \/ /\ ~m.aborted
              /\ ~m.over
              /\ mem' = [mem EXCEPT ![r] = [m EXCEPT !.stop = "budget"]]
           \/ /\ ~m.aborted
              /\ mem' = [mem EXCEPT ![r] = m]
    /\ used' = [used EXCEPT !.events = @ + 1]
    /\ UNCHANGED <<rows, paths, results, batches, charges, refused>>

(* waitForBatch comes back when the batch is over, on its own or on the    *)
(* next wake-up after an abort.                                            *)
AwaitedOver(r) ==
    /\ Quiet
    /\ mem[r].stage = "awaiting"
    /\ Outstanding(r) = {}
    /\ mem' = [mem EXCEPT ![r] = Dispatched(@, rows[r].waiting)]
    /\ UNCHANGED <<rows, paths, results, batches, charges, refused, used>>

(* The answers that validate are read back, at what the batch paid for     *)
(* them; what is missing, and what does not validate, goes to the pool.    *)
ReadBack(m) ==
    LET back == m.todo \cap results
    IN  IF m.aborted
        THEN [m EXCEPT !.stage = "extracting", !.todo = {}]
        ELSE [m EXCEPT !.stage = "extracting",
                       !.called = @ \cup back,
                       !.todo = @ \ back,
                       !.spent = @ + Cardinality(back)]

BatchReadBack(r) ==
    /\ Quiet
    /\ mem[r].stage = "waiting"
    /\ Outstanding(r) = {}
    /\ mem' = [mem EXCEPT ![r] = ReadBack(@)]
    /\ UNCHANGED <<rows, paths, results, batches, charges, refused, used>>

(* Mutant: the run stops waiting and leaves the batch to itself.           *)
LeaveBatch(r) ==
    /\ Quiet
    /\ mem[r].stage \in {"awaiting", "waiting"}
    /\ mem[r].aborted
    /\ Outstanding(r) # {}
    /\ mem' = [mem EXCEPT ![r].stage = "dropping"]
    /\ UNCHANGED <<rows, paths, results, batches, charges, refused, used>>

(* cancelBatch closes the row of the batch and calls its provider.         *)
DropBatch(r) ==
    /\ Quiet
    /\ mem[r].stage \in {"awaiting", "waiting"}
    /\ mem[r].aborted
    /\ Outstanding(r) # {}
    /\ batches' = [batches EXCEPT ![r] =
          [k \in DOMAIN @ |-> IF k \in Outstanding(r)
                              THEN [@[k] EXCEPT !.status = "cancelled"]
                              ELSE @[k]]]
    /\ mem' = [mem EXCEPT ![r].stage = "dropping"]
    /\ UNCHANGED <<rows, paths, results, charges, refused, used>>

BatchDropped(r) ==
    /\ Quiet
    /\ mem[r].stage = "dropping"
    /\ mem' = [mem EXCEPT ![r].stage = "extracting", ![r].todo = {}]
    /\ UNCHANGED <<rows, paths, results, batches, charges, refused, used>>

(* The batch runner: it reconciles an answer, and a batch ends, whether or *)
(* not its run is there to see it.  What it does inside is BatchRunner.  It*)
(* stores what it is given, which may not validate, once per unit.         *)
BatchAnswers(r, k, u) ==
    /\ Quiet
    /\ batches[r][k].status = "running"
    /\ u \in batches[r][k].items \ batches[r][k].answered
    /\ batches' = [batches EXCEPT ![r][k].answered = @ \cup {u}]
    /\ \/ /\ Invalid(u) \notin results
          /\ results' = results \cup {u}
          /\ charges' = [charges EXCEPT ![r][u] = @ + 1]
          /\ UNCHANGED <<refused, used>>
       \/ /\ used.events < MaxEvents
          /\ results' = IF u \in results THEN results ELSE results \cup {Invalid(u)}
          /\ refused' = [refused EXCEPT ![r][u] = @ + 1]
          /\ used' = [used EXCEPT !.events = @ + 1]
          /\ UNCHANGED charges
    /\ UNCHANGED <<rows, paths, mem>>

BatchEnds(r, k) ==
    /\ Quiet
    /\ batches[r][k].status = "running"
    /\ batches' = [batches EXCEPT ![r][k].status = "ended"]
    /\ UNCHANGED <<rows, paths, results, mem, charges, refused, used>>
-----------------------------------------------------------------------------
(* The pools: runPool, the outline and runModule.                          *)

(* The list is taken in its order.                                         *)
NextUnits(r) == {u \in mem[r].todo : \A v \in mem[r].todo : u[2] <= v[2]}

(* Mutant: whatever is replayed counts as an extracted chunk.              *)
ReplayedAny(m, u) == [m EXCEPT !.todo = @ \ {u}, !.called = @ \cup {u}]

(* The unit is settled without a call, because another run was answered.   *)
Replayed(m, u) ==
    [m EXCEPT !.todo = @ \ {u},
              !.called = IF u \in Chunks THEN @ \cup {u} ELSE @]

(* A worker takes the next unit: it looks at the signal, at the run's cap, *)
(* at the stored answers and at the monthly budget, and calls.             *)
Take(r) ==
    LET free == ~mem[r].aborted /\ ~WouldExceed(mem[r], 1)
    IN  /\ CanTake(r)
        /\ \E u \in NextUnits(r) :
           \/ /\ mem[r].aborted
              /\ mem' = [mem EXCEPT ![r].stop = "cancelled"]
              /\ UNCHANGED used
           \/ /\ ~mem[r].aborted
              /\ WouldExceed(mem[r], 1)
              /\ mem' = [mem EXCEPT ![r].stop = "budget"]
              /\ UNCHANGED used
           \/ /\ free
              /\ u \in results
              /\ mem' = [mem EXCEPT ![r] = Replayed(@, u)]
              /\ UNCHANGED used
           \/ /\ free
              /\ u \notin results
              /\ mem' = [mem EXCEPT ![r].todo = @ \ {u},
                                    ![r].flying = @ \cup {u}]
              /\ UNCHANGED used
           \/ /\ free
              /\ u \notin results
              /\ ~mem[r].over
              /\ used.events < MaxEvents
              /\ mem' = [mem EXCEPT ![r].stop = "budget"]
              /\ used' = [used EXCEPT !.events = @ + 1]
    /\ UNCHANGED <<rows, paths, results, batches, charges, refused>>

(* An answer is logged, stored and accounted, whatever became of the run.  *)
(* It is stored in the place of one that did not validate.  Attempts that  *)
(* were refused before it, and repaired, are billed and not accounted.     *)
CallAnswered(r, u) ==
    /\ Quiet
    /\ u \in mem[r].flying
    /\ results' = (results \ {Invalid(u)}) \cup {u}
    /\ charges' = [charges EXCEPT ![r][u] = @ + 1]
    /\ \/ UNCHANGED <<refused, used>>
       \/ /\ used.events < MaxEvents
          /\ \E billed \in 1 .. MaxRefused :
                 refused' = [refused EXCEPT ![r][u] = @ + billed]
          /\ used' = [used EXCEPT !.events = @ + 1]
    /\ mem' = [mem EXCEPT ![r].flying = @ \ {u},
                          ![r].spent = @ + 1,
                          ![r].called = IF u \in Chunks THEN @ \cup {u} ELSE @]
    /\ UNCHANGED <<rows, paths, batches>>

(* A call that fails under an abort is the cancellation being noticed; a   *)
(* chunk is then missing, and a module fails the run, with what its stage  *)
(* spent unaccounted and the calls of the other workers still out.  It was *)
(* billed for the attempts that were answered and refused.                 *)
CallFails(r, u) ==
    /\ Quiet
    /\ used.events < MaxEvents
    /\ u \in mem[r].flying
    /\ used' = [used EXCEPT !.events = @ + 1]
    /\ \E billed \in 0 .. MaxRefused :
          refused' = [refused EXCEPT ![r][u] = @ + billed]
    /\ LET m == [mem[r] EXCEPT !.flying = @ \ {u}]
           thrown == [m EXCEPT !.threw = @ + 1]
       IN  \/ /\ m.aborted
              /\ mem' = [mem EXCEPT ![r] = [m EXCEPT !.stop = "cancelled"]]
              /\ UNCHANGED rows
           \/ /\ ~m.aborted
              /\ u \in Chunks
              /\ mem' = [mem EXCEPT ![r] = [m EXCEPT !.failed = @ \cup {u}]]
              /\ UNCHANGED rows
           \/ /\ ~m.aborted
              /\ u \notin Chunks
              /\ Active(r)
              /\ Finish(r, "failed", thrown)
           \/ /\ ~m.aborted
              /\ ~Active(r)
              /\ mem' = [mem EXCEPT ![r] = thrown]
              /\ UNCHANGED rows
    /\ UNCHANGED <<paths, results, batches, charges>>
-----------------------------------------------------------------------------
(* The stages.                                                             *)

(* More than half of the chunks attempted were not read, or none was.      *)
TooManyFailures(m) ==
    \/ 2 * Cardinality(m.failed) > Cardinality(m.failed) + Cardinality(m.called)
    \/ Chunks \subseteq m.failed

ExtractionEnds(r) ==
    LET m == [mem[r] EXCEPT !.usage = mem[r].spent]
    IN  /\ m.stage = "extracting"
        /\ Drained(r)
        /\ \/ /\ m.aborted \/ m.stop = "cancelled"
              /\ Finish(r, "cancelled", m)
           \/ /\ ~m.aborted
              /\ m.stop = "budget"
              /\ Finish(r, "blocked_budget", m)
           \/ /\ ~m.aborted
              /\ m.stop = "no"
              /\ TooManyFailures(m)
              /\ Finish(r, "failed", m)
           \/ /\ ~m.aborted
              /\ m.stop = "no"
              /\ ~TooManyFailures(m)
              /\ rows' = [rows EXCEPT ![r].status = "consolidating",
                                      ![r].cost = m.usage]
              /\ mem' = [mem EXCEPT ![r] = [m EXCEPT !.stage = "consolidating"]]
        /\ UNCHANGED <<paths, results, batches, charges, refused, used>>

(* The embeddings of the concepts are there, or failed, which is the same. *)
Consolidated(r) ==
    /\ Quiet
    /\ mem[r].stage = "consolidating"
    /\ \/ /\ mem[r].aborted
          /\ Finish(r, "cancelled", mem[r])
       \/ /\ ~mem[r].aborted
          /\ rows' = [rows EXCEPT ![r].status = "synthesizing"]
          /\ mem' = [mem EXCEPT ![r].stage = "outline", ![r].todo = {Outline}]
    /\ UNCHANGED <<paths, results, batches, charges, refused, used>>

(* synthesize returns early when the outline was not written.              *)
OutlineEnds(r) ==
    LET m == [mem[r] EXCEPT !.usage = mem[r].spent]
    IN  /\ m.stage = "outline"
        /\ Drained(r)
        /\ \/ /\ m.stop = "cancelled"
              /\ Finish(r, "cancelled", m)
           \/ /\ m.stop = "budget"
              /\ Finish(r, "blocked_budget", m)
           \/ /\ m.stop = "no"
              /\ mem' = [mem EXCEPT ![r].stage = "first",
                                    ![r].todo = {<<"module", 1>>}]
              /\ UNCHANGED rows
        /\ UNCHANGED <<paths, results, batches, charges, refused, used>>

(* After the first module, which writes the shared prefix, the pool.       *)
FirstEnds(r) ==
    /\ mem[r].stage = "first"
    /\ Drained(r)
    /\ mem' = [mem EXCEPT ![r].stage = "modules",
                          ![r].todo = Modules \ {<<"module", 1>>}]
    /\ UNCHANGED <<rows, paths, results, batches, charges, refused, used>>

(* Mutant: only the pool looks at the signal.                              *)
NoticedByPool(m) == m.stop = "cancelled"

(* The pool was told to stop by the user, or the checks of the signal that *)
(* follow a pool that ran to its end notice it.                            *)
Noticed(m) == m.stop = "cancelled" \/ (m.stop = "no" /\ m.aborted)

(* Sequencing and persisting need nobody: the draft, its version and the   *)
(* completed row are one transaction, in this turn.                        *)
SynthesisEnds(r) ==
    LET m == [mem[r] EXCEPT !.usage = mem[r].spent]
    IN  /\ m.stage = "modules"
        /\ Drained(r)
        /\ \/ /\ Noticed(m)
              /\ Finish(r, "cancelled", m)
              /\ UNCHANGED paths
           \/ /\ m.stop = "budget"
              /\ Finish(r, "blocked_budget", m)
              /\ UNCHANGED paths
           \/ /\ m.stop = "no"
              /\ ~Noticed(m)
              /\ rows' = [rows EXCEPT ![r].status = "completed",
                                      ![r].cost = m.usage]
              /\ paths' = [paths EXCEPT ![r] = IF @ = "kept" THEN "kept" ELSE "draft"]
              /\ mem' = [mem EXCEPT ![r] = NoAttempt]
        /\ UNCHANGED <<results, batches, charges, refused, used>>

(* The workers of a failed run have nothing left to take.                  *)
OrphansEnd(r) ==
    /\ mem[r].stage = "orphaned"
    /\ Drained(r)
    /\ mem' = [mem EXCEPT ![r] = NoAttempt]
    /\ UNCHANGED <<rows, paths, results, batches, charges, refused, used>>

(* The process dies, between any two writes, and is launched again.  The   *)
(* calls in flight may have been answered, and paid, unheard, after        *)
(* attempts that were refused.                                             *)
Crash(heard, billed) ==
    /\ used.events < MaxEvents
    /\ mem' = [r \in Runs |-> NoAttempt]
    /\ charges' = [r \in Runs |-> [u \in Units |->
          IF u \in mem[r].flying /\ ~heard THEN charges[r][u] + 1 ELSE charges[r][u]]]
    /\ refused' = [r \in Runs |-> [u \in Units |->
          IF u \in mem[r].flying THEN refused[r][u] + billed ELSE refused[r][u]]]
    /\ used' = [used EXCEPT !.events = @ + 1, !.crashes = @ + 1]
    /\ UNCHANGED <<rows, paths, results, batches>>
-----------------------------------------------------------------------------
UserStep(r) ==
    \/ \E o \in StartOptions : Start(r, o.kept, o.waiting, o.over)
    \/ \E over \in BOOLEAN : Resume(r, over)
    \/ CancelActive(r)
    \/ CancelPaused(r)

TurnStep(r) ==
    \/ Enter(r)
    \/ Book(r)
    \/ Release(r)
    \/ Take(r)
    \/ ExtractionEnds(r)
    \/ OutlineEnds(r)
    \/ FirstEnds(r)
    \/ SynthesisEnds(r)
    \/ OrphansEnd(r)

CallStep(r) ==
    \/ SubmitReturns(r)
    \/ SubmitFails(r)
    \/ AwaitedOver(r)
    \/ BatchReadBack(r)
    \/ DropBatch(r)
    \/ BatchDropped(r)
    \/ Consolidated(r)
    \/ \E u \in Units : CallAnswered(r, u) \/ CallFails(r, u)

BatchStep(r) ==
    \E k \in DOMAIN batches[r] :
        BatchEnds(r, k) \/ \E u \in Chunks : BatchAnswers(r, k, u)

Next ==
    \/ \E r \in Runs : UserStep(r) \/ TurnStep(r) \/ CallStep(r) \/ BatchStep(r)
    \/ \E heard \in BOOLEAN, billed \in 0 .. MaxRefused : Crash(heard, billed)

Spec == Init /\ [][Next]_vars

(* A turn goes on to its end, a call is answered or fails by its deadline, *)
(* a sleep ends, and a batch is over within its 24 hours.                  *)
Fairness ==
    \A r \in Runs :
        /\ WF_vars(TurnStep(r))
        /\ WF_vars(CallStep(r))
        /\ WF_vars(\E k \in DOMAIN batches[r] : BatchEnds(r, k))

FairSpec == Spec /\ Fairness
-----------------------------------------------------------------------------
(* Properties.                                                             *)

Attempt ==
    [stage: {"idle", "opening", "awaiting", "submitting", "booking", "waiting",
             "dropping", "extracting", "consolidating", "outline", "first",
             "modules", "closing", "orphaned"},
     aborted: BOOLEAN, over: BOOLEAN, usage: Nat, spent: Nat,
     todo: SUBSET Units, flying: SUBSET Units, called: SUBSET Chunks,
     failed: SUBSET Chunks, stop: {"no", "budget", "cancelled"}, threw: Nat]

Row ==
    [status: {"none", "blocked_budget"} \cup Generating \cup Terminal,
     cost: Nat, kept: BOOLEAN, waiting: BOOLEAN, ids: SUBSET Nat]

Batch ==
    [items: SUBSET Chunks, answered: SUBSET Chunks,
     status: {"running", "ended", "cancelled"}]

TypeOK ==
    /\ rows \in [Runs -> Row]
    /\ paths \in [Runs -> {"none", "kept", "generating", "draft"}]
    /\ results \subseteq Units \cup Unusable
    /\ batches \in [Runs -> Seq(Batch)]
    /\ mem \in [Runs -> Attempt]
    /\ charges \in [Runs -> [Units -> Nat]]
    /\ refused \in [Runs -> [Units -> Nat]]
    /\ used \in [events: Nat, crashes: Nat, raised: SUBSET Runs]

Spent(r) == MapThenSumSet(LAMBDA u : charges[r][u], Units)

(* What a run paid for is never paid for again by it (generation-run.ts:   *)
(* 60-65): through pauses, resumptions, batches that answer in part or with*)
(* what does not validate, and fallbacks to the pool, an answer of use is  *)
(* bought once, and once more at most for each crash that lost a call or   *)
(* the id of a batch.  What bought none does not count: the attempts that  *)
(* were refused, of a call that fails or is repaired (run.ts:287-352) or of*)
(* a batch (extract-chunks.ts:262-268), are billed again as they are made. *)
PaidOnce == \A r \in Runs, u \in Units : charges[r][u] <= 1 + used.crashes

(* The cap of a run (budget.ts:1-14): over all of its attempts, it never   *)
(* buys more answers than the cap and what its pool had in flight beside   *)
(* the call that reached it, unless the user let it go on.  A crash forgets*)
(* what was spent since the last write of the row.  The cap sees the answer*)
(* of a call and not the attempts refused before it (run.ts:320-327) or in *)
(* its place: their bill comes on top.                                     *)
BudgetRespected ==
    used.crashes = 0 =>
        \A r \in Runs \ used.raised :
            Spent(r) <= Cap - 1 + Max({ExtractWidth, ModuleWidth})

(* The cost on the row of a run that is complete or paused leaves out no   *)
(* answer bought in any of its attempts; the attempts refused are not on   *)
(* it.  It may hold more: an answer read back after a batch is booked at   *)
(* its price even if another run paid for it.                              *)
CostOnRecord ==
    used.crashes = 0 =>
        \A r \in Runs :
            rows[r].status \in {"completed", "blocked_budget"} /\ ~Active(r)
                => Spent(r) <= rows[r].cost

(* The two guards of the money: what may be spent, and what was.           *)
MoneyOnRecord == BudgetRespected /\ CostOnRecord

(* A path is generating as long as its run may go on, and no longer.  A    *)
(* crash between the two writes of start, finish or cancel may part them.  *)
PathMatchesRun ==
    Quiet /\ used.crashes = 0 =>
        \A r \in Runs :
            /\ paths[r] = "generating" => rows[r].status \notin Terminal \cup {"none"}
            /\ paths[r] = "draft" => rows[r].status \in Terminal

(* The batches of a cancelled run do not go on running.  Cancelling after a*)
(* crash closes the row only.                                              *)
CancelReachesBatch ==
    Quiet /\ used.crashes = 0 =>
        \A r \in Runs :
            rows[r].status = "cancelled" =>
                \A k \in DOMAIN batches[r] : batches[r][k].status # "running"

(* A run that ended stays as it ended, whatever is still out.              *)
EndedIsFinal ==
    [][\A r \in Runs :
         rows[r].status \in Terminal => rows'[r] = rows[r] /\ ~Active(r)']_vars

(* Cancelling a running run closes it (generation-run.test.ts:257): when   *)
(* the attempt is over, its row is cancelled, unless the process died.     *)
CancelCloses ==
    [][\A r \in Runs :
         mem[r].aborted /\ Active(r) /\ ~Active(r)' =>
             rows'[r].status = "cancelled" \/ used'.crashes > used.crashes]_vars

(* One regeneration of a path at a time, each being a full paid pipeline   *)
(* (facade.ts:587).                                                        *)
OneRegeneration ==
    Cardinality({r \in Runs : rows[r].kept /\ Active(r)}) <= 1

(* Where RunLife has each run: the row tells what ended, the active map    *)
(* what goes on, and the signal whether it was asked to stop.              *)
LifeOf(r) ==
    CASE rows[r].status \in Terminal -> rows[r].status
      [] rows[r].status \notin Terminal /\ Active(r) /\ mem[r].aborted -> "stopping"
      [] rows[r].status \notin Terminal /\ Active(r) /\ ~mem[r].aborted -> "going"
      [] rows[r].status = "none" /\ ~Active(r) -> "new"
      [] OTHER -> "paused"

Life == INSTANCE RunLife WITH life <- [r \in Runs |-> LifeOf(r)]

(* The run keeps the promise of the handle, through pools, batches, pauses,*)
(* failures, crashes and resumptions: it ends once, is cancelled only when *)
(* it was asked to stop, and then neither completes nor fails.             *)
KeepsPromise == Life!Spec

(* No attempt hangs: a run that is active comes to rest.                   *)
RunRests == \A r \in Runs : Active(r) ~> ~Active(r)
=============================================================================
