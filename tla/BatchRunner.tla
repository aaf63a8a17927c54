---------------------------- MODULE BatchRunner ----------------------------
(***************************************************************************)
(* The Batch API runner of the AI layer (packages/ai/src/batch/runner.ts): *)
(* submit, poll, reconcile, retry the failures, cancel, resume after a     *)
(* restart; the `ai_batches`, `ai_results` and `ai_calls` tables it        *)
(* writes; and the provider's jobs, which go on whether the app runs or    *)
(* not.                                                                    *)
(*                                                                         *)
(* Grain.  Between two calls to a provider the runner only awaits the      *)
(* synchronous database, so nothing else of the main process runs in       *)
(* between; but each write is committed on its own, and a crash may fall   *)
(* between any two of them.  Hence the steps of a reconciliation exclude   *)
(* every other step of the main process (Mid) and do not exclude a crash.  *)
(* The calls to a provider with a Batch API are real I/O: anything may     *)
(* happen before they answer.  The sequential fallback                     *)
(* (packages/ai/src/batch/sequential.ts) answers its calls at once, tells  *)
(* its results as they come, and lives in the app's process.               *)
(*                                                                         *)
(* Left out: the money (one answer is one charge), the backoff and its     *)
(* counter `attempts`, a submission refused by the size, configuration or  *)
(* budget checks (it leaves no state), and forced submissions (a           *)
(* regenerated unit has a new custom id).                                  *)
(***************************************************************************)
EXTENDS Integers, Sequences, FiniteSets

CONSTANTS
    Batches,            \* batch ids
    Items,              \* custom ids
    Work,               \* the custom ids each batch is asked for
    Durable,            \* the batches whose provider has a Batch API
    None,               \* "undefined"
    MaxRetries,         \* MAX_BATCH_RETRIES
    MaxPollFailures,    \* MAX_POLL_FAILURES
    MaxLaunches,        \* bound: launches of the app
    MaxCancels,         \* bound: cancellations asked for
    MaxWriteFailures    \* bound: writes to ai_calls or ai_results that fail

ASSUME WorkAssumption == Work \in [Batches -> (SUBSET Items) \ {{}}]
ASSUME FiniteAssumption == \A b \in Batches : IsFiniteSet(Work[b])
ASSUME DurableAssumption == Durable \subseteq Batches
ASSUME BatchNoneAssumption == None \notin Items
ASSUME LimitsAssumption ==
    /\ {MaxRetries, MaxPollFailures} \subseteq Nat \ {0}
    /\ {MaxLaunches, MaxCancels, MaxWriteFailures} \subseteq Nat

VARIABLES
    rows,       \* the ai_batches table
    answers,    \* the custom ids in ai_results
    logged,     \* for each batch and custom id, its ok rows in ai_calls
    phase,      \* "down", "up" or "stopping"
    inFlight,   \* the keys of the inFlight map
    memory,     \* the InFlight object of each batch, map entry or not
    failures,   \* pollFailures
    timers,     \* batches with a poll timer set
    wire,       \* the submission on the wire, if any
    polls,      \* the poll in progress, if any
    cancelling, \* the job whose cancellation is on the wire; 0 if none
    jobs,       \* the provider: the jobs submitted for each batch, in order
    used        \* how much of each bound is spent

memoryVars == <<inFlight, memory, failures, timers>>
callVars == <<wire, polls, cancelling>>
vars == <<rows, answers, logged, phase, memoryVars, callVars, jobs, used>>

Active == {"submitting", "submitted", "in_progress"}
Final == {"completed", "failed", "cancelled"}

(* job numbers the submission the row's provider_batch_id came from; 0 is  *)
(* null.                                                                   *)
Row == [status : Active \cup Final \cup {"absent"}, job : Nat,
        succeeded : Nat, failed : Nat]

NoRow == [status |-> "absent", job |-> 0, succeeded |-> 0, failed |-> 0]

Memory == [requests : SUBSET Items, reconciled : SUBSET Items, retries : Nat]

NoMemory == [requests |-> {}, reconciled |-> {}, retries |-> 0]

(* A job of a provider.  A forgotten job is one whose id it no longer      *)
(* knows.                                                                  *)
Job == [items : SUBSET Items, ok : SUBSET Items, bad : SUBSET Items,
        ended : BOOLEAN, cancelled : BOOLEAN, forgotten : BOOLEAN]

NewJob(S) == [items |-> S, ok |-> {}, bad |-> {}, ended |-> FALSE,
              cancelled |-> FALSE, forgotten |-> FALSE]

ReplyStatus == {"in_progress", "completed", "failed", "cancelled"}

Reply(s, ok, bad) == [status |-> s, ok |-> ok, bad |-> bad]

(* at is where pollOnce stands: "asking" and "resubmitting" await the      *)
(* provider, "answers" and "failures" reconcile what it returned.  seen is *)
(* the row it read first, held whether it found the batch in the inFlight  *)
(* map, todo the outcomes still to reconcile, open the one with its        *)
(* ai_calls row written and its answer not stored.                         *)
Poll == [at : {"none", "asking", "answers", "resubmitting", "failures"},
         seen : Row, held : BOOLEAN,
         reply : [status : ReplyStatus, ok : SUBSET Items, bad : SUBSET Items],
         todo : SUBSET Items, open : Items \cup {None},
         succeeded : Nat, failed : Nat]

NoPoll == [at |-> "none", seen |-> NoRow, held |-> FALSE,
           reply |-> Reply("in_progress", {}, {}), todo |-> {},
           open |-> None, succeeded |-> 0, failed |-> 0]

Bounds == [launches : Nat, cancels : Nat, writes : Nat]

-----------------------------------------------------------------------------
(* The batch whose synchronous turn of the main process is not over.       *)
Mid(b) ==
    \/ polls[b].at \in {"answers", "failures"}
    \/ b \notin Durable /\ (wire[b] # "none" \/ polls[b].at = "asking")

(* A timer, a user or a caller may be served: no turn is under way.        *)
Quiet == \A b \in Batches : ~Mid(b)

(* The turn of b may go on.                                                *)
Turn(b) == \A c \in Batches \ {b} : ~Mid(c)

Running == phase \in {"up", "stopping"}

CurrentJob(b) == jobs[b][polls[b].seen.job]

RetryEverything(b) == memory[b].requests        \* mutant of the next

(* The failed ids whose requests are still held.                           *)
Retryable(b) == polls[b].reply.bad \cap memory[b].requests

(* What the submission on the wire asks for.                               *)
Submitted(b) ==
    IF polls[b].at = "resubmitting" THEN Retryable(b) ELSE memory[b].requests

FreshAlways(b, S) == S                          \* mutant of the next

(* What of S this process has not reconciled yet, as far as it remembers.  *)
Fresh(b, S) == IF polls[b].held THEN S \ memory[b].reconciled ELSE S

NeverAnswered(i) == FALSE                       \* mutant of the next

(* The durable guard against a second ai_calls row.                        *)
Answered(i) == i \in answers

DropTimer(b) == UNCHANGED timers                \* mutant of the next

(* `scheduleNext`.                                                         *)
Schedule(b) == timers' = timers \cup {b}

-----------------------------------------------------------------------------
Init ==
    /\ rows = [b \in Batches |-> NoRow]
    /\ answers = {}
    /\ logged = [b \in Batches |-> [i \in Items |-> 0]]
    /\ phase = "down"
    /\ inFlight = {}
    /\ memory = [b \in Batches |-> NoMemory]
    /\ failures = [b \in Batches |-> 0]
    /\ timers = {}
    /\ wire = [b \in Batches |-> "none"]
    /\ polls = [b \in Batches |-> NoPoll]
    /\ cancelling = [b \in Batches |-> 0]
    /\ jobs = [b \in Batches |-> <<>>]
    /\ used = [launches |-> 0, cancels |-> 0, writes |-> 0]

NotRetired(row) == row                          \* mutant of the next

(* A row without a provider id: whether the provider has its job or not,   *)
(* nobody can say.                                                         *)
Retired(row) ==
    IF row.status \in Active /\ row.job = 0
    THEN [row EXCEPT !.status = "failed"] ELSE row

(* `resume` at startup: what cannot be polled is retired, the others are   *)
(* polled, at once or when their own schedule says.                        *)
Launch ==
    /\ phase = "down"
    /\ used.launches < MaxLaunches
    /\ phase' = "up"
    /\ rows' = [b \in Batches |-> Retired(rows[b])]
    /\ timers' = {b \in Batches : rows[b].status \in Active /\ rows[b].job # 0}
    /\ used' = [used EXCEPT !.launches = @ + 1]
    /\ UNCHANGED <<answers, logged, inFlight, memory, failures, callVars,
                   jobs>>

(* The process is gone, and with it the jobs of the fallback.              *)
Crash ==
    /\ Running
    /\ phase' = "down"
    /\ inFlight' = {}
    /\ memory' = [b \in Batches |-> NoMemory]
    /\ failures' = [b \in Batches |-> 0]
    /\ timers' = {}
    /\ wire' = [b \in Batches |-> "none"]
    /\ polls' = [b \in Batches |-> NoPoll]
    /\ cancelling' = [b \in Batches |-> 0]
    /\ jobs' = [b \in Batches |->
                   IF b \in Durable THEN jobs[b]
                   ELSE [k \in DOMAIN jobs[b] |->
                            [jobs[b][k] EXCEPT !.ended = TRUE,
                                               !.forgotten = TRUE]]]
    /\ UNCHANGED <<rows, answers, logged, used>>

(* `stop` on quit: the calls on the wire are aborted (they fail in the     *)
(* actions below), and no timer polls any more.                            *)
Stop ==
    /\ phase = "up"
    /\ Quiet
    /\ phase' = "stopping"
    /\ inFlight' = {}
    /\ failures' = [b \in Batches |-> 0]
    /\ UNCHANGED <<rows, answers, logged, memory, timers, callVars, jobs,
                   used>>

-----------------------------------------------------------------------------
(* submitBatch: the row, then the provider.                                *)
SubmitBatch(b) ==
    LET pending == Work[b] \ answers
    IN  /\ phase = "up"
        /\ Quiet
        /\ rows[b].status = "absent"
        /\ IF pending = {}
           THEN /\ rows' = [rows EXCEPT
                               ![b].status = "completed",
                               ![b].succeeded = Cardinality(Work[b])]
                /\ UNCHANGED <<inFlight, memory, wire>>
           ELSE /\ rows' = [rows EXCEPT ![b].status = "submitting"]
                /\ inFlight' = inFlight \cup {b}
                /\ memory' = [memory EXCEPT ![b].requests = pending]
                /\ wire' = [wire EXCEPT ![b] = "sent"]
        /\ UNCHANGED <<answers, logged, phase, failures, timers, polls,
                       cancelling, jobs, used>>

(* The provider takes a submission, the first one or a retry.              *)
ProviderAccepts(b) ==
    /\ wire[b] = "sent"
    /\ wire' = [wire EXCEPT ![b] = "accepted"]
    /\ jobs' = [jobs EXCEPT ![b] = Append(@, NewJob(Submitted(b)))]
    /\ UNCHANGED <<rows, answers, logged, phase, memoryVars, polls,
                   cancelling, used>>

(* Whatever became of the row meanwhile, the patch is written.             *)
SubmitReturns(b) ==
    /\ Running
    /\ Turn(b)
    /\ polls[b].at = "none"
    /\ wire[b] = "accepted"
    /\ wire' = [wire EXCEPT ![b] = "none"]
    /\ rows' = [rows EXCEPT
                   ![b].status = "submitted",
                   ![b].job = Len(jobs[b]),
                   ![b].succeeded = Cardinality(Work[b] \ memory[b].requests)]
    /\ Schedule(b)
    /\ UNCHANGED <<answers, logged, phase, inFlight, memory, failures, polls,
                   cancelling, jobs, used>>

(* The call fails, before or after the provider has taken the job.         *)
SubmitFails(b) ==
    /\ Running
    /\ Turn(b)
    /\ b \in Durable
    /\ polls[b].at = "none"
    /\ wire[b] # "none"
    /\ wire' = [wire EXCEPT ![b] = "none"]
    /\ inFlight' = inFlight \ {b}
    /\ rows' = [rows EXCEPT ![b].status = "failed"]
    /\ UNCHANGED <<answers, logged, phase, memory, failures, timers, polls,
                   cancelling, jobs, used>>

-----------------------------------------------------------------------------
(* pollOnce.  It is called by the timer of the batch and by whoever waits  *)
(* for it (packages/pathgen/src/extract/await-batch.ts); callers that come *)
(* while one is in progress share it.                                      *)
PollStarts(b) ==
    /\ phase = "up"
    /\ Quiet
    /\ polls[b].at = "none"
    /\ rows[b].status # "absent"
    /\ wire[b] = "none"
    /\ timers' = timers \ {b}
    /\ IF rows[b].status \in Final
       THEN b \in timers /\ UNCHANGED polls
       ELSE polls' = [polls EXCEPT ![b].at = "asking",
                                   ![b].seen = rows[b],
                                   ![b].held = b \in inFlight]
    /\ UNCHANGED <<rows, answers, logged, phase, inFlight, memory, failures,
                   wire, cancelling, jobs, used>>

(* The provider the batch went to is no longer configured, or its key is   *)
(* gone.                                                                   *)
PollUnresolved(b) ==
    /\ phase = "up"
    /\ Quiet
    /\ polls[b].at = "none"
    /\ b \in timers
    /\ rows[b].status \in Active
    /\ timers' = timers \ {b}
    /\ rows' = [rows EXCEPT ![b].status = "failed"]
    /\ UNCHANGED <<answers, logged, phase, inFlight, memory, failures,
                   callVars, jobs, used>>

(* No answer within the deadline, or an error.                             *)
PollFails(b) ==
    /\ Running
    /\ Turn(b)
    /\ b \in Durable
    /\ polls[b].at = "asking"
    /\ polls' = [polls EXCEPT ![b] = NoPoll]
    /\ IF failures[b] + 1 >= MaxPollFailures
       THEN /\ failures' = [failures EXCEPT ![b] = 0]
            /\ rows' = [rows EXCEPT ![b].status = "failed"]
            /\ UNCHANGED timers
       ELSE /\ failures' = [failures EXCEPT ![b] = @ + 1]
            /\ Schedule(b)
            /\ UNCHANGED rows
    /\ UNCHANGED <<answers, logged, phase, inFlight, memory, wire, cancelling,
                   jobs, used>>

(* What the provider may say of the job the poll asks about.  One with a   *)
(* Batch API tells nothing before the job has ended, and a rate-limited    *)
(* poll is told that it has not; a job that produced nothing may be        *)
(* reported failed without results, or, all its requests having been       *)
(* aborted, cancelled.                                                     *)
Replies(b) ==
    LET j == CurrentJob(b)
        running == Reply("in_progress", {}, {})
    IN  IF b \in Durable
        THEN IF ~j.ended THEN {running}
             ELSE {running, Reply("completed", j.ok, j.bad)} \cup
                  (IF j.ok = {} THEN {Reply("failed", {}, {}),
                                      Reply("cancelled", {}, j.bad)}
                   ELSE {})
        ELSE IF j.forgotten THEN {Reply("failed", {}, {})}
        ELSE IF ~j.ended THEN {Reply("in_progress", j.ok, j.bad)}
        ELSE IF j.cancelled THEN {Reply("cancelled", j.ok, j.bad)}
        ELSE {Reply("completed", j.ok, j.bad)} \cup
             (IF j.ok \cup j.bad = j.items THEN {}
              ELSE {Reply("failed", j.ok, j.bad)})

PollAnswers(b) ==
    /\ phase = "up"
    /\ Turn(b)
    /\ polls[b].at = "asking"
    /\ failures' = [failures EXCEPT ![b] = 0]
    /\ \E reply \in Replies(b) :
           polls' = [polls EXCEPT ![b].at = "answers",
                                  ![b].reply = reply,
                                  ![b].todo = Fresh(b, reply.ok)]
    /\ jobs' = [jobs EXCEPT ![b][polls[b].seen.job].forgotten =
                               @ \/ (b \notin Durable /\ CurrentJob(b).ended)]
    /\ UNCHANGED <<rows, answers, logged, phase, inFlight, memory, timers,
                   wire, cancelling, used>>

-----------------------------------------------------------------------------
(* reconcile, an outcome at a time.                                        *)

(* An id this process has reconciled leaves todo; the set is the state's,  *)
(* so nothing is remembered for a batch that was not held.                 *)
Remember(b, i) ==
    memory' = IF polls[b].held
              THEN [memory EXCEPT ![b].reconciled = @ \cup {i}] ELSE memory

(* Already paid for and logged: counted, not written again.                *)
SkipAnswered(b, i) ==
    /\ polls[b].at = "answers"
    /\ polls[b].open = None
    /\ i \in polls[b].todo
    /\ Answered(i)
    /\ Remember(b, i)
    /\ polls' = [polls EXCEPT ![b].todo = @ \ {i}, ![b].succeeded = @ + 1]
    /\ UNCHANGED <<rows, answers, logged, phase, inFlight, failures, timers,
                   wire, cancelling, jobs, used>>

(* recordItem for an answer.  A write that fails is logged and forgotten.  *)
RecordAnswer(b, i, written) ==
    /\ polls[b].at = "answers"
    /\ polls[b].open = None
    /\ i \in polls[b].todo
    /\ ~Answered(i)
    /\ IF written
       THEN /\ logged' = [logged EXCEPT ![b][i] = @ + 1]
            /\ UNCHANGED used
       ELSE /\ used.writes < MaxWriteFailures
            /\ used' = [used EXCEPT !.writes = @ + 1]
            /\ UNCHANGED logged
    /\ polls' = [polls EXCEPT ![b].open = i]
    /\ UNCHANGED <<rows, answers, phase, memoryVars, wire, cancelling, jobs>>

(* storeAnswer and the end of the item's turn, likewise.                   *)
StoreAnswer(b, written) ==
    LET i == polls[b].open
    IN  /\ polls[b].at = "answers"
        /\ i # None
        /\ IF written
           THEN /\ answers' = answers \cup {i}
                /\ UNCHANGED used
           ELSE /\ used.writes < MaxWriteFailures
                /\ used' = [used EXCEPT !.writes = @ + 1]
                /\ UNCHANGED answers
        /\ Remember(b, i)
        /\ polls' = [polls EXCEPT ![b].todo = @ \ {i}, ![b].open = None,
                                  ![b].succeeded = @ + 1]
        /\ UNCHANGED <<rows, logged, phase, inFlight, failures, timers, wire,
                       cancelling, jobs>>

(* A failure that will not be retried: an error row, no answer.            *)
RecordFailure(b, i) ==
    /\ polls[b].at = "failures"
    /\ i \in polls[b].todo
    /\ Remember(b, i)
    /\ polls' = [polls EXCEPT ![b].todo = @ \ {i}, ![b].failed = @ + 1]
    /\ UNCHANGED <<rows, answers, logged, phase, inFlight, failures, timers,
                   wire, cancelling, jobs, used>>

AnswersDone(b) == polls[b].at = "answers" /\ polls[b].todo = {}

(* "Retry only failed ids, max 2".                                         *)
WillRetry(b) ==
    /\ polls[b].reply.status = "completed"
    /\ polls[b].held
    /\ memory[b].retries < MaxRetries
    /\ Retryable(b) # {}

(* The provider is not done.                                               *)
KeepPolling(b) ==
    /\ AnswersDone(b)
    /\ polls[b].reply.status = "in_progress"
    /\ rows' = [rows EXCEPT
                   ![b].status = "in_progress",
                   ![b].succeeded = polls[b].seen.succeeded + polls[b].succeeded]
    /\ Schedule(b)
    /\ polls' = [polls EXCEPT ![b] = NoPoll]
    /\ UNCHANGED <<answers, logged, phase, inFlight, memory, failures, wire,
                   cancelling, jobs, used>>

Resubmit(b) ==
    /\ AnswersDone(b)
    /\ WillRetry(b)
    /\ memory' = [memory EXCEPT ![b].retries = @ + 1]
    /\ wire' = [wire EXCEPT ![b] = "sent"]
    /\ polls' = [polls EXCEPT ![b].at = "resubmitting"]
    /\ UNCHANGED <<rows, answers, logged, phase, inFlight, failures, timers,
                   cancelling, jobs, used>>

ResubmitReturns(b) ==
    /\ phase = "up"
    /\ Turn(b)
    /\ polls[b].at = "resubmitting"
    /\ wire[b] = "accepted"
    /\ wire' = [wire EXCEPT ![b] = "none"]
    /\ rows' = [rows EXCEPT
                   ![b].status = "in_progress",
                   ![b].job = Len(jobs[b]),
                   ![b].succeeded = polls[b].seen.succeeded + polls[b].succeeded]
    /\ Schedule(b)
    /\ polls' = [polls EXCEPT ![b] = NoPoll]
    /\ UNCHANGED <<answers, logged, phase, inFlight, memory, failures,
                   cancelling, jobs, used>>

(* Nothing more will be asked of the failed ids: they are failures now.    *)
CountFailures(b) ==
    polls' = [polls EXCEPT ![b].at = "failures",
                           ![b].todo = Fresh(b, polls[b].reply.bad)]

ResubmitFails(b) ==
    /\ Running
    /\ Turn(b)
    /\ b \in Durable
    /\ polls[b].at = "resubmitting"
    /\ wire' = [wire EXCEPT ![b] = "none"]
    /\ CountFailures(b)
    /\ UNCHANGED <<rows, answers, logged, phase, memoryVars, cancelling, jobs,
                   used>>

NoMoreRetries(b) ==
    /\ AnswersDone(b)
    /\ polls[b].reply.status # "in_progress"
    /\ ~WillRetry(b)
    /\ CountFailures(b)
    /\ UNCHANGED <<rows, answers, logged, phase, memoryVars, wire, cancelling,
                   jobs, used>>

(* The final patch: the provider's terminal status is the row's.           *)
Finish(b) ==
    /\ polls[b].at = "failures"
    /\ polls[b].todo = {}
    /\ inFlight' = inFlight \ {b}
    /\ failures' = [failures EXCEPT ![b] = 0]
    /\ rows' = [rows EXCEPT
                   ![b].status = polls[b].reply.status,
                   ![b].succeeded = polls[b].seen.succeeded + polls[b].succeeded,
                   ![b].failed = polls[b].seen.failed + polls[b].failed]
    /\ polls' = [polls EXCEPT ![b] = NoPoll]
    /\ UNCHANGED <<answers, logged, phase, memory, timers, wire, cancelling,
                   jobs, used>>

-----------------------------------------------------------------------------
(* cancel.                                                                 *)

CancelRowAsProvider(b) ==                       \* mutant of the next
    /\ inFlight' = inFlight \ {b}
    /\ failures' = [failures EXCEPT ![b] = 0]
    /\ rows' = [rows EXCEPT ![b].status = "canceling"]

CancelRow(b) ==
    /\ inFlight' = inFlight \ {b}
    /\ failures' = [failures EXCEPT ![b] = 0]
    /\ rows' = [rows EXCEPT ![b].status = "cancelled"]

(* The provider is asked first, if there is a job to name.                 *)
Cancel(b) ==
    LET job == rows[b].job
    IN  /\ phase = "up"
        /\ Quiet
        /\ used.cancels < MaxCancels
        /\ cancelling[b] = 0
        /\ rows[b].status \in Active
        /\ IF job # 0 /\ b \in Durable
           THEN /\ cancelling' = [cancelling EXCEPT ![b] = job]
                /\ UNCHANGED <<rows, inFlight, failures, jobs>>
           ELSE /\ CancelRow(b)
                /\ jobs' = IF job = 0 THEN jobs
                           ELSE [jobs EXCEPT ![b][job].cancelled = TRUE]
                /\ UNCHANGED cancelling
        /\ used' = [used EXCEPT !.cancels = @ + 1]
        /\ UNCHANGED <<answers, logged, phase, memory, timers, wire, polls>>

ProviderCancels(b) ==
    /\ cancelling[b] # 0
    /\ ~jobs[b][cancelling[b]].ended
    /\ ~jobs[b][cancelling[b]].cancelled
    /\ jobs' = [jobs EXCEPT ![b][cancelling[b]].cancelled = TRUE]
    /\ UNCHANGED <<rows, answers, logged, phase, memoryVars, callVars, used>>

(* The call is over, well or badly; the row moves regardless.              *)
CancelReturns(b) ==
    /\ Running
    /\ Quiet
    /\ cancelling[b] # 0
    /\ cancelling' = [cancelling EXCEPT ![b] = 0]
    /\ CancelRow(b)
    /\ UNCHANGED <<answers, logged, phase, memory, timers, wire, polls, jobs,
                   used>>

-----------------------------------------------------------------------------
(* The providers' side.                                                    *)

(* A Batch API job ends: each request has an answer or an error.  One with *)
(* its cancellation in may still have answered some of them.               *)
JobEnds(b, k) ==
    /\ b \in Durable
    /\ ~jobs[b][k].ended
    /\ \E ok \in SUBSET jobs[b][k].items :
           jobs' = [jobs EXCEPT ![b][k].ended = TRUE, ![b][k].ok = ok,
                                ![b][k].bad = jobs[b][k].items \ ok]
    /\ UNCHANGED <<rows, answers, logged, phase, memoryVars, callVars, used>>

(* The fallback runs its requests one at a time.                           *)
ItemEnds(b, k) ==
    /\ b \notin Durable
    /\ ~jobs[b][k].ended
    /\ ~jobs[b][k].cancelled
    /\ \E i \in jobs[b][k].items \ (jobs[b][k].ok \cup jobs[b][k].bad) :
           \/ jobs' = [jobs EXCEPT ![b][k].ok = @ \cup {i}]
           \/ jobs' = [jobs EXCEPT ![b][k].bad = @ \cup {i}]
    /\ UNCHANGED <<rows, answers, logged, phase, memoryVars, callVars, used>>

(* It is done, or its caller gave up, or the invoker threw, or it was      *)
(* cancelled: the request under way then still ends.                       *)
RunEnds(b, k) ==
    /\ b \notin Durable
    /\ ~jobs[b][k].ended
    /\ \/ jobs' = [jobs EXCEPT ![b][k].ended = TRUE]
       \/ /\ jobs[b][k].cancelled
          /\ \E i \in jobs[b][k].items \ (jobs[b][k].ok \cup jobs[b][k].bad) :
                \/ jobs' = [jobs EXCEPT ![b][k].ended = TRUE,
                                        ![b][k].ok = @ \cup {i}]
                \/ jobs' = [jobs EXCEPT ![b][k].ended = TRUE,
                                        ![b][k].bad = @ \cup {i}]
    /\ UNCHANGED <<rows, answers, logged, phase, memoryVars, callVars, used>>

-----------------------------------------------------------------------------
CallStep(b) ==
    \/ SubmitReturns(b)
    \/ SubmitFails(b)
    \/ PollFails(b)
    \/ PollAnswers(b)
    \/ ResubmitReturns(b)
    \/ ResubmitFails(b)
    \/ CancelReturns(b)

TurnStep(b) ==
    \/ \E i \in polls[b].todo :
           \/ SkipAnswered(b, i)
           \/ \E written \in BOOLEAN : RecordAnswer(b, i, written)
           \/ RecordFailure(b, i)
    \/ \E written \in BOOLEAN : StoreAnswer(b, written)
    \/ KeepPolling(b)
    \/ Resubmit(b)
    \/ NoMoreRetries(b)
    \/ Finish(b)

ProviderStep(b) ==
    \/ ProviderAccepts(b)
    \/ ProviderCancels(b)
    \/ \E k \in DOMAIN jobs[b] :
           JobEnds(b, k) \/ ItemEnds(b, k) \/ RunEnds(b, k)

Next ==
    \/ Launch
    \/ Crash
    \/ Stop
    \/ \E b \in Batches :
           \/ SubmitBatch(b)
           \/ PollStarts(b)
           \/ PollUnresolved(b)
           \/ Cancel(b)
           \/ CallStep(b)
           \/ TurnStep(b)
           \/ ProviderStep(b)

Spec == Init /\ [][Next]_vars

(* What the runner is promised: a call is answered or fails by its         *)
(* deadline (runner.ts:60-69), a timer fires, a turn of the main process   *)
(* goes on to its end, a job ends (a provider gives a batch 24 hours), and *)
(* a provider does not rate-limit every poll of an ended job for ever.     *)
Fairness ==
    \A b \in Batches :
        /\ b \notin Durable => WF_vars(ProviderAccepts(b))
        /\ WF_vars(SubmitReturns(b) \/ SubmitFails(b))
        /\ WF_vars(PollFails(b) \/ PollAnswers(b))
        /\ SF_vars(PollAnswers(b) /\ polls'[b].reply.status # "in_progress")
        /\ WF_vars(ResubmitReturns(b) \/ ResubmitFails(b))
        /\ WF_vars(CancelReturns(b))
        /\ WF_vars(b \in timers /\ PollStarts(b))
        /\ WF_vars(TurnStep(b))
        /\ WF_vars(\E k \in DOMAIN jobs[b] : JobEnds(b, k) \/ RunEnds(b, k))

FairSpec == Spec /\ Fairness
-----------------------------------------------------------------------------
(* Properties.                                                             *)

TypeOK ==
    /\ rows \in [Batches -> Row]
    /\ answers \subseteq Items
    /\ logged \in [Batches -> [Items -> Nat]]
    /\ phase \in {"down", "up", "stopping"}
    /\ inFlight \subseteq Batches
    /\ memory \in [Batches -> Memory]
    /\ failures \in [Batches -> Nat]
    /\ timers \subseteq Batches
    /\ wire \in [Batches -> {"none", "sent", "accepted"}]
    /\ polls \in [Batches -> Poll]
    /\ cancelling \in [Batches -> Nat]
    /\ jobs \in [Batches -> Seq(Job)]
    /\ used \in Bounds

(* The ok rows of a batch and an id in the cost log, numbered, beyond the  *)
(* times the provider answered it.                                         *)
LoggedAgain(b, i) ==
    Cardinality({k \in DOMAIN jobs[b] : i \in jobs[b][k].ok}) + 1 .. logged[b][i]

RowsAgain ==
    UNION {{b} \X {i} \X LoggedAgain(b, i) : b \in Batches, i \in Items}

(* A result is reconciled at most once (runner.ts:38-41).                  *)
ChargesLoggedOnce == RowsAgain = {}

(* It is, whatever the polls, retries, partial results and failing writes, *)
(* as long as the process lives.  Each relaunch may log one charge again,  *)
(* the one whose two writes the crash fell between, and, once there is a   *)
(* relaunch, so may each write that failed.  No other is logged again.     *)
OneRowPerCharge ==
    Cardinality(RowsAgain) <=
        (IF used.launches <= 1 THEN 0 ELSE used.launches - 1 + used.writes)

(* What a provider has answered is never asked of it again, within a batch,*)
(* and the failures are asked again at most MaxRetries times.              *)
RetriesOnlyFailures ==
    \A b \in Batches :
        /\ Len(jobs[b]) <= MaxRetries + 1
        /\ \A k, m \in DOMAIN jobs[b] :
               k < m => jobs[b][k].ok \cap jobs[b][m].items = {}

(* The counters of a row never claim more than was asked, and those of a   *)
(* batch a provider completed account for every request: partial results,  *)
(* retries and restarts count nothing twice and nothing not at all.        *)
CountsAddUp ==
    \A b \in Batches :
        LET counted == rows[b].succeeded + rows[b].failed
        IN  /\ counted <= Cardinality(Work[b])
            /\ b \in Durable /\ rows[b].status = "completed"
                   => counted = Cardinality(Work[b])

(* When a batch is completed, every answer the jobs on its row produced is *)
(* in the answer store, unless a write failed.                             *)
AnswersCollected ==
    \A b \in Batches :
        rows[b].status = "completed" /\ used.writes = 0 =>
            \A k \in 1 .. rows[b].job : jobs[b][k].ok \subseteq answers

(* What a batch says it did is what it did: no result is counted twice or  *)
(* not at all, and none that was counted is missing from the answers, over *)
(* partial results, retries, overlapping ids and restarts.                 *)
Accounted == CountsAddUp /\ AnswersCollected

(* Nothing more happens to a batch in a terminal status (batch/types.ts:39)*)
TerminalIsFinal ==
    [][\A b \in Batches :
         rows[b].status \in Final => rows'[b].status = rows[b].status]_vars

(* No job runs upstream that the app has no record of (runner.ts:34-37):   *)
(* once the call is over, or the app is up again after a crash in the      *)
(* middle of it, the row names the job or says that the submission failed. *)
(* This is said of the first submission of a batch nobody cancels: a retry *)
(* is sent before any row tells, and a cancelled row is not retired.       *)
JobOnRecord ==
    \A b \in Batches :
        /\ wire[b] = "none"
        /\ Running
        /\ Len(jobs[b]) = 1
        /\ used.cancels = 0
        => rows[b].job = 1 \/ rows[b].status = "failed"

(* A batch that was submitted reaches a terminal status, whatever the      *)
(* provider does, unless the app goes down first.                          *)
BatchEnds ==
    \A b \in Batches :
        rows[b].status \in Active ~> rows[b].status \in Final \/ phase # "up"
=============================================================================
