------------------------------ MODULE JobRows ------------------------------
(***************************************************************************)
(* One row of the `jobs` table and the writes the repository makes to it   *)
(* (packages/db/src/repositories/jobs.ts) on behalf of the scheduler       *)
(* (packages/core/src/jobs/scheduler.ts).  Every write is one SQL          *)
(* statement or one transaction of a synchronous driver, so a write is an  *)
(* operator from a row to a row.                                           *)
(*                                                                         *)
(* Time is kept as far as the queue can tell it apart: `due` says whether  *)
(* run_after has passed.  Lease columns are abstracted to their presence,  *)
(* which is what status "running" says.                                    *)
(***************************************************************************)
EXTENDS Naturals

CONSTANTS
    MaxAttempts     \* the max_attempts column, the same for every job

ASSUME MaxAttemptsAssumption == MaxAttempts \in Nat \ {0}

(* "absent" stands for a job that has not been enqueued: there is no row.  *)
Status ==
    {"absent", "queued", "running", "succeeded", "failed", "cancelled"}

Row == [status : Status, attempts : Nat, due : BOOLEAN]

NoRow == [status |-> "absent", attempts |-> 0, due |-> FALSE]

(* The row `enqueue` creates: eligible at once, no attempt spent.          *)
FreshRow == [status |-> "queued", attempts |-> 0, due |-> TRUE]

ClaimableIfDue(r) == r.status \in {"queued", "running"} /\ r.due   \* mutant

(* What the subquery of `claim` selects.                                   *)
Claimable(r) == r.status = "queued" /\ r.due

Claimed(r) == [r EXCEPT !.status = "running", !.attempts = @ + 1]

(* `succeed` and `cancel` have no condition on the status they overwrite.  *)
Succeeded(r) == [r EXCEPT !.status = "succeeded"]

Cancelled(r) == [r EXCEPT !.status = "cancelled"]

FailedLate(r) ==                                    \* mutant of Failed
    IF r.attempts <= MaxAttempts
    THEN [r EXCEPT !.status = "queued", !.due = FALSE]
    ELSE [r EXCEPT !.status = "failed"]

(* `fail` re-queues behind the backoff while attempts are left, whatever   *)
(* the status of the row; the scheduler always offers a retryAt.           *)
Failed(r) ==
    IF r.attempts < MaxAttempts
    THEN [r EXCEPT !.status = "queued", !.due = FALSE]
    ELSE [r EXCEPT !.status = "failed"]

(* `requeue` of the scheduler with runAfter = now: orphan recovery keeps   *)
(* the attempts, a user's retry starts them again.                         *)
Requeued(r) == [r EXCEPT !.status = "queued", !.due = TRUE]

RetriedOnce(r) == [Requeued(r) EXCEPT !.attempts = @ - 1]      \* mutant

Retried(r) == [Requeued(r) EXCEPT !.attempts = 0]

Retryable(r) == r.status \in {"failed", "cancelled"}

Terminal(r) == r.status \in {"succeeded", "failed", "cancelled"}
=============================================================================
