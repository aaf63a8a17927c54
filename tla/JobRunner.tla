----------------------------- MODULE JobRunner -----------------------------
(***************************************************************************)
(* The background-job runner of the desktop app: the main process          *)
(* (apps/desktop/src/main/jobs/runner.ts and pool.ts), its worker          *)
(* processes (apps/desktop/src/worker/index.ts), the two message ports     *)
(* between them, and the `jobs` rows the scheduler writes.                 *)
(*                                                                         *)
(* Grain.  A handler of the main process is one step: the repository is    *)
(* synchronous, so the awaits inside a handler only yield microtasks       *)
(* (packages/db/src/repositories/transaction.ts:16-20), and no other       *)
(* message, timer or IPC call runs in between.  What interleaves is the    *)
(* main process, each worker process, the ports, the timers and the user.  *)
(*                                                                         *)
(* Environment.  A port is a FIFO queue.  A process that dies loses any    *)
(* suffix of what it had posted; its exit event reaches main after the     *)
(* messages that survive it.                                               *)
(***************************************************************************)
EXTENDS JobRows, Sequences, FiniteSets

CONSTANTS
    Jobs,           \* job ids
    NumSlots,       \* size of the pool
    Priority,       \* the priority column of each job
    None,           \* "undefined"
    MaxLaunches,    \* bound: launches of the app
    MaxDeaths,      \* bound: worker processes lost to a crash or the OS
    MaxCancels,     \* bound: cancellations asked for
    MaxRetries,     \* bound: retries asked for
    MaxUnrecorded   \* bound: outcomes main cannot read, or fails to write

ASSUME JobsAssumption == Priority \in [Jobs -> Nat]
ASSUME SlotsAssumption == NumSlots \in Nat \ {0}
ASSUME NoneAssumption == None \notin Jobs
ASSUME BoundsAssumption ==
    /\ MaxLaunches \in Nat \ {0}
    /\ {MaxDeaths, MaxCancels, MaxRetries, MaxUnrecorded} \subseteq Nat

Slots == 1 .. NumSlots

VARIABLES
    rows,           \* the jobs table
    phase,          \* "down", "up" or "stopping" (between stop and exit)
    running,        \* the runner's map of the jobs it handed out (its keys)
    cancelled,      \* jobs whose abort report is to be suppressed
    slot,           \* the pool's record of each slot, with its child process
    worker,         \* the state inside each worker process
    toWorker,       \* port messages on their way to each worker
    toMain,         \* port messages on their way back
    used            \* how much of each bound is spent

vars ==
    <<rows, phase, running, cancelled, slot, worker, toWorker, toMain, used>>

JobOrNone == Jobs \cup {None}

(* proc is "none" (no child), "booting", "up" or "dead" (the process is    *)
(* gone and main has not handled its exit event).  kill is what the kill   *)
(* timer of the slot was armed for.                                        *)
Slot == [proc : {"none", "booting", "up", "dead"}, ready : BOOLEAN,
         job : JobOrNone, retiring : BOOLEAN,
         kill : JobOrNone \cup {"shutdown"}]

Worker == [current : JobOrNone, aborted : BOOLEAN, retiring : BOOLEAN]

Start(j) == [type |-> "start", job |-> j]
CancelRequest(j) == [type |-> "cancel", job |-> j]
Shutdown == [type |-> "shutdown", job |-> None]
Request == [type : {"start", "cancel", "shutdown"}, job : JobOrNone]

Ready == [type |-> "ready", job |-> None, aborted |-> FALSE]
Idle == [type |-> "idle", job |-> None, aborted |-> FALSE]
Done(j) == [type |-> "done", job |-> j, aborted |-> FALSE]
Error(j, a) == [type |-> "error", job |-> j, aborted |-> a]
Response ==
    [type : {"ready", "idle", "done", "error"}, job : JobOrNone,
     aborted : BOOLEAN]

Bounds == [launches : Nat, deaths : Nat, cancels : Nat, retries : Nat,
           unrecorded : Nat]

EmptySlot == [proc |-> "none", ready |-> FALSE, job |-> None,
              retiring |-> FALSE, kill |-> None]

IdleWorker == [current |-> None, aborted |-> FALSE, retiring |-> FALSE]

-----------------------------------------------------------------------------
(* The pool (pool.ts).                                                     *)

(* slots.find(...): s is the first slot of the set S.                      *)
IsFirst(s, S) == s \in S /\ \A t \in S : s <= t

Free(s) == slot[s].ready /\ ~slot[s].retiring /\ slot[s].job = None

FreeSlots == {s \in Slots : Free(s)}

Holders(j) == {s \in Slots : slot[s].job = j}

(* `spawn`: a new child on a fresh pair of ports.  The slot's job and kill *)
(* timer were cleared by the exit handler that respawns it.                *)
Spawned == [EmptySlot EXCEPT !.proc = "booting"]

(* A message posted to a process that is gone is lost.                     *)
Post(s, m) ==
    toWorker' = [toWorker EXCEPT ![s] =
                    IF slot[s].proc = "up" THEN Append(@, m) ELSE @]

(* What a dead process leaves of the messages it posted.                   *)
Survivors(q) == {SubSeq(q, 1, n) : n \in 0 .. Len(q)}

-----------------------------------------------------------------------------
Init ==
    /\ rows = [j \in Jobs |-> NoRow]
    /\ phase = "down"
    /\ running = {}
    /\ cancelled = {}
    /\ slot = [s \in Slots |-> EmptySlot]
    /\ worker = [s \in Slots |-> IdleWorker]
    /\ toWorker = [s \in Slots |-> <<>>]
    /\ toMain = [s \in Slots |-> <<>>]
    /\ used = [launches |-> 0, deaths |-> 0, cancels |-> 0, retries |-> 0,
               unrecorded |-> 0]

(* `runner.start`: orphan recovery first, then the pool.  At its only call *)
(* site no pool exists and the run id is new, so neither exemption of      *)
(* `recoverOrphans` applies and every running row goes back to the queue.  *)
Launch ==
    /\ phase = "down"
    /\ used.launches < MaxLaunches
    /\ rows' = [j \in Jobs |-> IF rows[j].status = "running"
                               THEN Requeued(rows[j]) ELSE rows[j]]
    /\ phase' = "up"
    /\ slot' = [s \in Slots |-> Spawned]
    /\ used' = [used EXCEPT !.launches = @ + 1]
    /\ UNCHANGED <<running, cancelled, worker, toWorker, toMain>>

(* `scheduler.enqueue` and the kick its callers add (see ClaimAndDispatch).*)
Enqueue(j) ==
    /\ phase = "up"
    /\ rows[j].status = "absent"
    /\ rows' = [rows EXCEPT ![j] = FreshRow]
    /\ UNCHANGED <<phase, running, cancelled, slot, worker, toWorker, toMain,
                   used>>

(* The passing of run_after.  The backoff is minutes (backoff.ts:10-40):   *)
(* by then main has read what the workers that held the job had posted and *)
(* has handled their exits.                                                *)
BackoffElapses(j) ==
    /\ rows[j].status = "queued"
    /\ ~rows[j].due
    /\ \A s \in Holders(j) : toMain[s] = <<>> /\ slot[s].proc # "dead"
    /\ rows' = [rows EXCEPT ![j].due = TRUE]
    /\ UNCHANGED <<phase, running, cancelled, slot, worker, toWorker, toMain,
                   used>>

(* A job that is given a future must be able to fail again.                *)
ForgetCancellation(j) == cancelled' = cancelled \ {j}

(* One turn of `claimLoop`.  The loop is kicked by every idle, ready, exit,*)
(* enqueue and retry, and by the poll timer, so a turn may happen whenever *)
(* there is a free slot and a claimable job.  The slot it looks at and the *)
(* slot `dispatch` takes are the same: nothing runs in between.            *)
ClaimAndDispatch(j) ==
    /\ phase = "up"
    /\ Claimable(rows[j])
    /\ \A k \in Jobs : Claimable(rows[k]) => Priority[k] <= Priority[j]
    /\ \E s \in Slots :
           /\ IsFirst(s, FreeSlots)
           /\ slot' = [slot EXCEPT ![s].job = j]
           /\ Post(s, Start(j))
    /\ rows' = [rows EXCEPT ![j] = Claimed(@)]
    /\ ForgetCancellation(j)
    /\ running' = running \cup {j}
    /\ UNCHANGED <<phase, worker, toMain, used>>

-----------------------------------------------------------------------------
(* The worker process (worker/index.ts).                                   *)

(* The handshake: registry built, port open, "ready" posted.               *)
WorkerBoots(s) ==
    /\ slot[s].proc = "booting"
    /\ slot' = [slot EXCEPT ![s].proc = "up"]
    /\ worker' = [worker EXCEPT ![s] = IdleWorker]
    /\ toMain' = [toMain EXCEPT ![s] = Append(@, Ready)]
    /\ UNCHANGED <<rows, phase, running, cancelled, toWorker, used>>

(* process.exit, a crash or a kill: what the worker posted last may go     *)
(* with it.  q is its outgoing queue.                                      *)
Dies(s, q) ==
    /\ slot' = [slot EXCEPT ![s].proc = "dead"]
    /\ worker' = [worker EXCEPT ![s] = IdleWorker]
    /\ toWorker' = [toWorker EXCEPT ![s] = <<>>]
    /\ \E left \in Survivors(q) : toMain' = [toMain EXCEPT ![s] = left]

(* `handle`, for each request.  A `shutdown` outside a job exits at once;  *)
(* main only sends one to a worker that has just reported idle.            *)
WorkerStarts(s) ==
    /\ slot[s].proc = "up"
    /\ toWorker[s] # <<>>
    /\ Head(toWorker[s]).type = "start"
    /\ worker' = [worker EXCEPT ![s].current = Head(toWorker[s]).job,
                                ![s].aborted = FALSE]
    /\ toWorker' = [toWorker EXCEPT ![s] = Tail(@)]
    /\ UNCHANGED <<rows, phase, running, cancelled, slot, toMain, used>>

WorkerAborts(s) ==
    /\ slot[s].proc = "up"
    /\ toWorker[s] # <<>>
    /\ Head(toWorker[s]).type = "cancel"
    /\ worker' = [worker EXCEPT ![s].aborted =
                      @ \/ worker[s].current = Head(toWorker[s]).job]
    /\ toWorker' = [toWorker EXCEPT ![s] = Tail(@)]
    /\ UNCHANGED <<rows, phase, running, cancelled, slot, toMain, used>>

WorkerShutsDown(s) ==
    /\ slot[s].proc = "up"
    /\ toWorker[s] # <<>>
    /\ Head(toWorker[s]).type = "shutdown"
    /\ IF worker[s].current = None
       THEN Dies(s, toMain[s])
       ELSE /\ worker' = [worker EXCEPT ![s].retiring = TRUE]
            /\ toWorker' = [toWorker EXCEPT ![s] = Tail(@)]
            /\ UNCHANGED <<slot, toMain>>
    /\ UNCHANGED <<rows, phase, running, cancelled, used>>

(* The end of `start`: the report is posted in one turn of the worker's    *)
(* event loop, and a worker asked to shut down exits.                      *)
Ends(s, report) ==
    /\ slot[s].proc = "up"
    /\ worker[s].current # None
    /\ IF worker[s].retiring
       THEN Dies(s, toMain[s] \o report)
       ELSE /\ worker' = [worker EXCEPT ![s].current = None,
                                        ![s].aborted = FALSE]
            /\ toMain' = [toMain EXCEPT ![s] = @ \o report]
            /\ UNCHANGED <<slot, toWorker>>
    /\ UNCHANGED <<rows, phase, running, cancelled>>

(* One more outcome is lost to the table.                                  *)
Unrecorded ==
    /\ used.unrecorded < MaxUnrecorded
    /\ used' = [used EXCEPT !.unrecorded = @ + 1]

(* Whether a job heeds its abort signal is up to the job: an aborted one   *)
(* may still report done.                                                  *)
WorkerFinishes(s, ok) ==
    LET j == worker[s].current
        outcome == IF ok THEN Done(j) ELSE Error(j, worker[s].aborted)
    IN  Ends(s, <<outcome, Idle>>) /\ UNCHANGED used

(* The outcome breaks the schema of the wire (an error text of more than   *)
(* 2,000 characters): main logs it and drops it, and hears only the idle.  *)
WorkerFinishesUnheard(s) ==
    /\ Ends(s, <<Idle>>)
    /\ Unrecorded

(* `die`: an exception outside the job's own handling is reported against  *)
(* the job, never as aborted, and the process exits without an idle.       *)
WorkerThrows(s) ==
    /\ slot[s].proc = "up"
    /\ worker[s].current # None
    /\ used.deaths < MaxDeaths
    /\ Dies(s, Append(toMain[s], Error(worker[s].current, FALSE)))
    /\ used' = [used EXCEPT !.deaths = @ + 1]
    /\ UNCHANGED <<rows, phase, running, cancelled>>

(* A crash of the process, or the operating system killing it.             *)
WorkerCrashes(s) ==
    /\ slot[s].proc \in {"booting", "up"}
    /\ used.deaths < MaxDeaths
    /\ Dies(s, toMain[s])
    /\ used' = [used EXCEPT !.deaths = @ + 1]
    /\ UNCHANGED <<rows, phase, running, cancelled>>

KillsRetiring(s) == slot[s].kill = "shutdown"       \* mutant of the next

(* The kill timer of `cancel` kills only if the slot still runs the job it *)
(* was armed for, the one of `retire` always.                              *)
Kills(s) == slot[s].kill \in {"shutdown", slot[s].job}

(* The child may be gone already.                                          *)
KillTimerFires(s) ==
    /\ slot[s].kill # None
    /\ IF Kills(s) /\ slot[s].proc \in {"booting", "up"}
       THEN /\ worker' = [worker EXCEPT ![s] = IdleWorker]
            /\ toWorker' = [toWorker EXCEPT ![s] = <<>>]
            /\ \E left \in Survivors(toMain[s]) :
                   toMain' = [toMain EXCEPT ![s] = left]
            /\ slot' = [slot EXCEPT ![s].proc = "dead", ![s].kill = None]
       ELSE /\ slot' = [slot EXCEPT ![s].kill = None]
            /\ UNCHANGED <<worker, toWorker, toMain>>
    /\ UNCHANGED <<rows, phase, running, cancelled, used>>

-----------------------------------------------------------------------------
(* The runner's reactions to the pool (runner.ts).                         *)

SettleKeepingBook(j, row) ==                        \* mutant of Settle
    /\ rows' = [rows EXCEPT ![j] = row]
    /\ UNCHANGED <<running, cancelled, used>>

(* The suppressed abort or loss of a cancelled job.                        *)
Suppress(j) ==
    /\ running' = running \ {j}
    /\ cancelled' = cancelled \ {j}
    /\ UNCHANGED <<rows, used>>

(* `settle`: the write may throw, which is logged and leaves the row as it *)
(* is.  Whatever became of the write, the job leaves both books.           *)
Settle(j, row) ==
    /\ \/ rows' = [rows EXCEPT ![j] = row] /\ UNCHANGED used
       \/ Unrecorded /\ UNCHANGED rows
    /\ running' = running \ {j}
    /\ cancelled' = cancelled \ {j}

(* Main takes the next message m of slot s off its port.                   *)
Receives(s, m) ==
    /\ phase \in {"up", "stopping"}
    /\ toMain[s] # <<>>
    /\ m = Head(toMain[s])
    /\ toMain' = [toMain EXCEPT ![s] = Tail(@)]
    /\ UNCHANGED <<phase, worker>>

ReceiveReady(s) ==
    /\ Receives(s, Ready)
    /\ slot' = [slot EXCEPT ![s].ready = TRUE]
    /\ UNCHANGED <<rows, running, cancelled, toWorker, used>>

(* A worker may only speak about the job its slot was given.               *)
ReceiveDone(s) ==
    \E j \in Jobs :
        /\ Receives(s, Done(j))
        /\ IF j = slot[s].job
           THEN Settle(j, Succeeded(rows[j]))
           ELSE UNCHANGED <<rows, running, cancelled, used>>
        /\ UNCHANGED <<slot, toWorker>>

ReceiveError(s) ==
    \E j \in Jobs, aborted \in BOOLEAN :
        /\ Receives(s, Error(j, aborted))
        /\ IF j # slot[s].job
           THEN UNCHANGED <<rows, running, cancelled, used>>
           ELSE IF aborted \/ j \in cancelled
                THEN Suppress(j)
                ELSE Settle(j, Failed(rows[j]))
        /\ UNCHANGED <<slot, toWorker>>

(* The slot is free again, or recycled: the quota of jobs is spent or the  *)
(* process has grown too large, both of which any worker may have reached. *)
(* A stopping pool has dropped its ports and children: nothing to retire.  *)
ReceiveIdle(s) ==
    \E recycle \in BOOLEAN :
        /\ Receives(s, Idle)
        /\ IF (slot[s].retiring \/ recycle) /\ phase = "up"
           THEN /\ slot' = [slot EXCEPT ![s].job = None, ![s].retiring = TRUE,
                                        ![s].kill = "shutdown"]
                /\ Post(s, Shutdown)
           ELSE /\ slot' = [slot EXCEPT ![s].job = None, ![s].kill = None]
                /\ UNCHANGED toWorker
        /\ UNCHANGED <<rows, running, cancelled, used>>

LoseQuietly(j) == Suppress(j)                       \* mutant of Lose

(* `onWorkerLost`.                                                         *)
Lose(j) == IF j \in cancelled THEN Suppress(j) ELSE Settle(j, Failed(rows[j]))

(* The exit handler: the job the slot still holds is lost, and failed here *)
(* rather than left to orphan recovery.  A child that dies before it is    *)
(* ready, holding nothing, is not respawned.                               *)
HandleExit(s) ==
    LET lost == slot[s].job
    IN  /\ phase = "up"
        /\ slot[s].proc = "dead"
        /\ toMain[s] = <<>>
        /\ IF lost = None
           THEN UNCHANGED <<rows, running, cancelled, used>>
           ELSE Lose(lost)
        /\ slot' = [slot EXCEPT ![s] = IF ~slot[s].ready /\ lost = None
                                       THEN EmptySlot ELSE Spawned]
        /\ UNCHANGED <<phase, worker, toWorker, toMain>>

-----------------------------------------------------------------------------
(* The user, through the jobs facade.                                      *)

(* `pool.cancel`: cooperative first, with the kill timer as the backstop.  *)
StopWorker(s, j) ==
    /\ slot' = [slot EXCEPT ![s].kill = j]
    /\ Post(s, CancelRequest(j))

(* `cancel`: the row first, whatever its status, then the first worker     *)
(* that holds the job, if any.                                             *)
Cancel(j) ==
    /\ phase = "up"
    /\ used.cancels < MaxCancels
    /\ rows[j].status # "absent"
    /\ rows' = [rows EXCEPT ![j] = Cancelled(@)]
    /\ cancelled' = IF j \in running THEN cancelled \cup {j} ELSE cancelled
    /\ running' = running \ {j}
    /\ IF Holders(j) = {}
       THEN UNCHANGED <<slot, toWorker>>
       ELSE \E s \in Slots : IsFirst(s, Holders(j)) /\ StopWorker(s, j)
    /\ used' = [used EXCEPT !.cancels = @ + 1]
    /\ UNCHANGED <<phase, worker, toMain>>

Retry(j) ==
    /\ phase = "up"
    /\ used.retries < MaxRetries
    /\ Retryable(rows[j])
    /\ rows' = [rows EXCEPT ![j] = Retried(@)]
    /\ ForgetCancellation(j)
    /\ used' = [used EXCEPT !.retries = @ + 1]
    /\ UNCHANGED <<phase, running, slot, worker, toWorker, toMain>>

(* `stop` on quit: the books are cleared, the timers stopped and every     *)
(* child killed.  Messages already posted still arrive until the exit.     *)
Stop ==
    /\ phase = "up"
    /\ phase' = "stopping"
    /\ running' = {}
    /\ cancelled' = {}
    /\ slot' = [s \in Slots |-> [slot[s] EXCEPT !.proc = "none",
                                                !.ready = FALSE, !.kill = None]]
    /\ worker' = [s \in Slots |-> IdleWorker]
    /\ toWorker' = [s \in Slots |-> <<>>]
    /\ UNCHANGED <<rows, toMain, used>>

(* The main process is gone, after `stop` or by a crash: all that was in   *)
(* memory goes with it, and the workers too.                               *)
MainExits ==
    /\ phase \in {"up", "stopping"}
    /\ phase' = "down"
    /\ running' = {}
    /\ cancelled' = {}
    /\ slot' = [s \in Slots |-> EmptySlot]
    /\ worker' = [s \in Slots |-> IdleWorker]
    /\ toWorker' = [s \in Slots |-> <<>>]
    /\ toMain' = [s \in Slots |-> <<>>]
    /\ UNCHANGED <<rows, used>>

WorkerStep(s) ==
    \/ WorkerBoots(s)
    \/ WorkerStarts(s)
    \/ WorkerAborts(s)
    \/ WorkerShutsDown(s)
    \/ \E ok \in BOOLEAN : WorkerFinishes(s, ok)
    \/ WorkerFinishesUnheard(s)
    \/ WorkerThrows(s)
    \/ WorkerCrashes(s)

PoolStep(s) ==
    \/ KillTimerFires(s)
    \/ ReceiveReady(s)
    \/ ReceiveDone(s)
    \/ ReceiveError(s)
    \/ ReceiveIdle(s)
    \/ HandleExit(s)

JobStep(j) ==
    \/ Enqueue(j)
    \/ BackoffElapses(j)
    \/ ClaimAndDispatch(j)
    \/ Cancel(j)
    \/ Retry(j)

Next ==
    \/ Launch
    \/ Stop
    \/ MainExits
    \/ \E s \in Slots : WorkerStep(s) \/ PoolStep(s)
    \/ \E j \in Jobs : JobStep(j)

Spec == Init /\ [][Next]_vars

(* What the processes, the ports and the timers guarantee: a live process  *)
(* keeps taking steps, a posted message arrives, an exit is reported, an   *)
(* armed timer fires, and the poll timer keeps kicking the claim loop.     *)
(* Nothing is assumed of the user, of launches, or of crashes.             *)
Fairness ==
    /\ \A s \in Slots :
        /\ WF_vars(WorkerBoots(s))
        /\ WF_vars(WorkerStarts(s) \/ WorkerAborts(s) \/ WorkerShutsDown(s))
        /\ WF_vars(KillTimerFires(s))
        /\ WF_vars(ReceiveReady(s) \/ ReceiveDone(s) \/ ReceiveError(s)
                     \/ ReceiveIdle(s))
        /\ WF_vars(HandleExit(s))
    /\ \A j \in Jobs : WF_vars(BackoffElapses(j))
    /\ WF_vars(\E j \in Jobs : ClaimAndDispatch(j))

FairSpec == Spec /\ Fairness

(* The further assumption that no job runs for ever, which nothing in the  *)
(* code enforces.                                                          *)
JobsEnd ==
    \A s \in Slots : WF_vars(\E ok \in BOOLEAN : WorkerFinishes(s, ok))
-----------------------------------------------------------------------------
(* Properties.                                                             *)

TypeOK ==
    /\ rows \in [Jobs -> Row]
    /\ phase \in {"down", "up", "stopping"}
    /\ running \subseteq Jobs
    /\ cancelled \subseteq Jobs
    /\ slot \in [Slots -> Slot]
    /\ worker \in [Slots -> Worker]
    /\ toWorker \in [Slots -> Seq(Request)]
    /\ toMain \in [Slots -> Seq(Response)]
    /\ used \in Bounds

(* A suppression never outlives the cancellation it was recorded for: a    *)
(* job in `cancelled` has a cancelled row, so no genuine failure of a job  *)
(* that runs again can be swallowed (runner.ts:84-89, 263-266).            *)
SuppressionMatchesRow == \A j \in cancelled : rows[j].status = "cancelled"

(* The runner keeps heartbeating and reporting progress only for jobs whose*)
(* row is running: a settled row is never written by a heartbeat.          *)
BooksMatchRows == \A j \in running : rows[j].status = "running"

(* The two books of the runner never say of a row what it no longer is,    *)
(* whatever order the reports, the exits, the cancellations and the retries*)
(* come in (runner.ts:82-90).                                              *)
BooksAgree == SuppressionMatchesRow /\ BooksMatchRows

(* A row that says running, of a job no process has any more: nothing will *)
(* settle it before the next launch or a cancellation.                     *)
Stranded(j) == rows[j].status = "running" /\ Holders(j) = {}

(* While the app is up, every running row is held by a slot of the pool, so*)
(* its end is always observed: an outcome, or the exit of the worker.  The *)
(* exceptions are an outcome main cannot read (pool.ts:172-177) and one    *)
(* whose write fails (runner.ts:134-135): the slot and the books forget the*)
(* job, and its row stays running.                                         *)
NoStrandedJob ==
    phase = "up" /\ used.unrecorded = 0 => \A j \in Jobs : ~Stranded(j)

(* A job spends at most its attempts, and one more for each relaunch that  *)
(* found it running: orphan recovery re-queues without counting.           *)
AttemptsBounded ==
    \A j \in Jobs : rows[j].attempts + 1 <= MaxAttempts + used.launches

(* The inductive invariant behind the three of them: nothing is booked     *)
(* while the app is down, and a job waiting in the queue still has an      *)
(* attempt to spend.                                                       *)
BooksInv ==
    /\ TypeOK
    /\ SuppressionMatchesRow
    /\ BooksMatchRows
    /\ AttemptsBounded
    /\ phase = "down" => running = {} /\ cancelled = {}
    /\ phase # "down" => used.launches >= 1
    /\ \A j \in Jobs : rows[j].status = "queued" =>
           rows[j].attempts + 2 <= MaxAttempts + used.launches

(* Two worker processes never run the same job at once, as long as nobody  *)
(* retries a job whose cancelled run is still winding down.                *)
NoDoubleRun ==
    used.retries = 0 =>
        \A s, t \in Slots :
            s # t /\ worker[s].current # None =>
                worker[s].current # worker[t].current

(* While the app is up, nothing but a retry puts a cancelled job back in   *)
(* the queue (runner.ts:84-89).  TLC refutes it: an error spends the       *)
(* suppression, and the exit that follows fails the row.                   *)
CancelledStaysOffLadder ==
    [][\A j \in Jobs :
         /\ rows[j].status = "cancelled"
         /\ rows'[j].status = "queued"
         /\ phase = "up"
         => Retry(j)]_vars

(* No slot has a process any more: each died before it was ready, holding  *)
(* nothing, and was not respawned (pool.ts:202-207).                       *)
PoolGone == \A s \in Slots : slot[s].proc = "none"

(* If no job runs for ever, a job in the queue gets a final outcome, unless*)
(* the app goes down first, the outcome of its own run is not recorded, or *)
(* every worker dies at its start (runner.ts:211-290, pool.ts:182-209).    *)
QueuedJobSettles ==
    JobsEnd =>
        \A j \in Jobs :
            rows[j].status \in {"queued", "running"}
                ~> \/ Terminal(rows[j])
                   \/ phase # "up"
                   \/ used.unrecorded > 0 /\ Stranded(j)
                   \/ PoolGone

(* A worker on a cancelled job stops, whether or not the job heeds its     *)
(* abort signal (pool.ts:271-274), if no two slots ever held the job: a    *)
(* retry may hand it out again while its cancelled run winds down, and a   *)
(* further cancellation then finds the first of the two only               *)
(* (pool.ts:276-277).                                                      *)
CancelledWorkerStops ==
    \A j \in Jobs :
        [](\A s, t \in Holders(j) : s = t) =>
            \A s \in Slots :
                rows[j].status = "cancelled" /\ worker[s].current = j
                    ~> worker[s].current # j

(* "cancelling stops the worker" (pool.ts:271-274), whoever retries.  TLC  *)
(* refutes it: the second slot that holds the job is not told.             *)
CancelStopsTheWorker ==
    \A j \in Jobs, s \in Slots :
        rows[j].status = "cancelled" /\ worker[s].current = j
            ~> worker[s].current # j \/ rows[j].status # "cancelled"
=============================================================================
