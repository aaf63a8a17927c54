-------------------------- MODULE JobRunnerProofs --------------------------
(***************************************************************************)
(* Proofs about JobRunner, for any set of jobs, any pool size, any         *)
(* priorities and any bounds.                                              *)
(***************************************************************************)
EXTENDS JobRunner, TLAPS, SequenceTheorems

(* Every write of the repository returns a row of the table.               *)
LEMMA RowWrites ==
    ASSUME NEW r \in Row
    PROVE  /\ NoRow \in Row /\ FreshRow \in Row
           /\ Claimed(r) \in Row /\ Succeeded(r) \in Row
           /\ Cancelled(r) \in Row /\ Failed(r) \in Row
           /\ Requeued(r) \in Row /\ Retried(r) \in Row
  <1> USE DEF Row, Status
  <1>1. NoRow \in Row /\ FreshRow \in Row
    BY DEF NoRow, FreshRow
  <1>2. Claimed(r) \in Row
    <2>1. r.attempts + 1 \in Nat
      OBVIOUS
    <2> QED
      BY <2>1 DEF Claimed
  <1>3. Succeeded(r) \in Row /\ Cancelled(r) \in Row
    BY DEF Succeeded, Cancelled
  <1>4. Failed(r) \in Row
    BY MaxAttemptsAssumption DEF Failed
  <1>5. Requeued(r) \in Row /\ Retried(r) \in Row
    BY DEF Requeued, Retried
  <1> QED
    BY <1>1, <1>2, <1>3, <1>4, <1>5

(* The messages are well formed, and so are the records of an empty slot.  *)
LEMMA MessageTypes ==
    /\ \A j \in Jobs, a \in BOOLEAN :
           /\ Start(j) \in Request /\ CancelRequest(j) \in Request
           /\ Done(j) \in Response /\ Error(j, a) \in Response
    /\ Shutdown \in Request /\ Ready \in Response /\ Idle \in Response
    /\ EmptySlot \in Slot /\ Spawned \in Slot /\ IdleWorker \in Worker
  BY DEF Start, CancelRequest, Done, Error, Shutdown, Ready, Idle, Request,
         Response, EmptySlot, Spawned, Slot, IdleWorker, Worker, JobOrNone

(* A message posted to a slot leaves the ports well typed.                 *)
LEMMA PostType ==
    ASSUME TypeOK, NEW s \in Slots, NEW m \in Request, Post(s, m)
    PROVE  toWorker' \in [Slots -> Seq(Request)]
  BY AppendProperties DEF TypeOK, Post

(* What survives a death is a sequence of the same messages.               *)
LEMMA SurvivorsType ==
    ASSUME NEW q \in Seq(Response), NEW left \in Survivors(q)
    PROVE  left \in Seq(Response)
  BY SubSeqProperties DEF Survivors

(* Counting one more against a bound keeps the record of the bounds.       *)
LEMMA CountType ==
    ASSUME NEW u \in Bounds
    PROVE  /\ [u EXCEPT !.launches = @ + 1] \in Bounds
           /\ [u EXCEPT !.deaths = @ + 1] \in Bounds
           /\ [u EXCEPT !.cancels = @ + 1] \in Bounds
           /\ [u EXCEPT !.retries = @ + 1] \in Bounds
           /\ [u EXCEPT !.unrecorded = @ + 1] \in Bounds
  BY DEF Bounds

(* The steps of the main process's own life.                               *)
LEMMA TypeLaunchStop ==
    ASSUME TypeOK, Launch \/ Stop \/ MainExits
    PROVE  TypeOK'
  <1>1. CASE Launch
    <2>1. used' \in Bounds
      BY <1>1, CountType DEF TypeOK, Launch
    <2> QED
      BY <1>1, <2>1, RowWrites, MessageTypes DEF TypeOK, Launch
  <1>2. CASE Stop
    <2>1. \A s \in Slots : [slot[s] EXCEPT !.proc = "none", !.ready = FALSE,
                                          !.kill = None] \in Slot
      BY DEF TypeOK, Slot, JobOrNone
    <2>2. slot' \in [Slots -> Slot]
      BY <1>2, <2>1 DEF Stop
    <2> QED
      BY <1>2, <2>2, MessageTypes, EmptySeq DEF TypeOK, Stop
  <1>3. CASE MainExits
    BY <1>3, MessageTypes DEF TypeOK, MainExits
  <1> QED
    BY <1>1, <1>2, <1>3

(* What the queue and the scheduler do to a job keeps the types.           *)
LEMMA TypeJobStep ==
    ASSUME TypeOK, NEW j \in Jobs, JobStep(j)
    PROVE  TypeOK'
  <1>1. CASE Enqueue(j)
    BY <1>1, RowWrites DEF TypeOK, Enqueue
  <1>2. CASE BackoffElapses(j)
    BY <1>2 DEF TypeOK, BackoffElapses, Row
  <1>3. CASE ClaimAndDispatch(j)
    <2> PICK s \in Slots : slot' = [slot EXCEPT ![s].job = j]
                           /\ Post(s, Start(j))
      BY <1>3 DEF ClaimAndDispatch
    <2>1. slot' \in [Slots -> Slot]
      BY DEF TypeOK, Slot, JobOrNone
    <2>2. toWorker' \in [Slots -> Seq(Request)]
      BY PostType, MessageTypes
    <2>3. rows' \in [Jobs -> Row]
      BY <1>3, RowWrites DEF TypeOK, ClaimAndDispatch
    <2> QED
      BY <1>3, <2>1, <2>2, <2>3 DEF TypeOK, ClaimAndDispatch, ForgetCancellation
  <1>4. CASE Cancel(j)
    <2>1. slot' \in [Slots -> Slot] /\ toWorker' \in [Slots -> Seq(Request)]
      <3>1. CASE Holders(j) = {}
        BY <1>4, <3>1 DEF TypeOK, Cancel
      <3>2. CASE Holders(j) # {}
        <4> PICK s \in Slots : slot' = [slot EXCEPT ![s].kill = j]
                               /\ Post(s, CancelRequest(j))
          BY <1>4, <3>2 DEF Cancel, StopWorker
        <4>1. slot' \in [Slots -> Slot]
          BY DEF TypeOK, Slot, JobOrNone
        <4> QED
          BY <4>1, PostType, MessageTypes
      <3> QED
        BY <3>1, <3>2
    <2>2. rows' \in [Jobs -> Row]
      BY <1>4, RowWrites DEF TypeOK, Cancel
    <2>3. used' \in Bounds
      BY <1>4, CountType DEF TypeOK, Cancel
    <2> QED
      BY <1>4, <2>1, <2>2, <2>3 DEF TypeOK, Cancel
  <1>5. CASE Retry(j)
    <2>1. rows' \in [Jobs -> Row]
      BY <1>5, RowWrites DEF TypeOK, Retry
    <2>2. used' \in Bounds
      BY <1>5, CountType DEF TypeOK, Retry
    <2> QED
      BY <1>5, <2>1, <2>2 DEF TypeOK, Retry, ForgetCancellation
  <1> QED
    BY <1>1, <1>2, <1>3, <1>4, <1>5 DEF JobStep

(* A death leaves every port and record well typed.                        *)
LEMMA TypeDies ==
    ASSUME TypeOK, NEW s \in Slots, NEW q \in Seq(Response), Dies(s, q)
    PROVE  /\ slot' \in [Slots -> Slot]
           /\ worker' \in [Slots -> Worker]
           /\ toWorker' \in [Slots -> Seq(Request)]
           /\ toMain' \in [Slots -> Seq(Response)]
  <1>1. slot' \in [Slots -> Slot]
    <2>1. slot[s] \in Slot /\ slot \in [Slots -> Slot]
      BY DEF TypeOK
    <2>2. [slot[s] EXCEPT !.proc = "dead"] \in Slot
      BY <2>1 DEF Slot
    <2>3. slot' = [slot EXCEPT ![s] = [slot[s] EXCEPT !.proc = "dead"]]
      BY DEF Dies
    <2> QED
      BY <2>1, <2>2, <2>3
  <1>2. worker' \in [Slots -> Worker] /\ toWorker' \in [Slots -> Seq(Request)]
    BY MessageTypes DEF Dies, TypeOK
  <1>3. toMain' \in [Slots -> Seq(Response)]
    BY SurvivorsType DEF Dies, TypeOK
  <1> QED
    BY <1>1, <1>2, <1>3

(* What a job that ends posts is a sequence of messages.                   *)
LEMMA ReportTypes ==
    ASSUME NEW m \in Response
    PROVE  <<m, Idle>> \in Seq(Response) /\ <<Idle>> \in Seq(Response)
  BY MessageTypes

(* So does the end of a job, whatever report it posts.                     *)
LEMMA TypeEnds ==
    ASSUME TypeOK, NEW s \in Slots, NEW report \in Seq(Response),
           Ends(s, report), used' \in Bounds
    PROVE  TypeOK'
  <1>1. toMain[s] \o report \in Seq(Response)
    BY ConcatProperties DEF TypeOK
  <1>2. CASE worker[s].retiring
    <2>1. Dies(s, toMain[s] \o report)
      BY <1>2 DEF Ends
    <2> QED
      BY <1>1, <2>1, TypeDies DEF TypeOK, Ends
  <1>3. CASE ~worker[s].retiring
    <2>1. [worker[s] EXCEPT !.current = None, !.aborted = FALSE] \in Worker
      BY DEF TypeOK, Worker, JobOrNone
    <2>2. worker' \in [Slots -> Worker]
      BY <1>3, <2>1 DEF TypeOK, Ends
    <2>3. toMain' \in [Slots -> Seq(Response)]
      BY <1>1, <1>3 DEF TypeOK, Ends
    <2> QED
      BY <1>3, <2>2, <2>3 DEF TypeOK, Ends
  <1> QED
    BY <1>2, <1>3

(* What a worker process does keeps the types.                             *)
LEMMA TypeWorkerStep ==
    ASSUME TypeOK, NEW s \in Slots, WorkerStep(s)
    PROVE  TypeOK'
  <1>1. CASE WorkerBoots(s)
    BY <1>1, MessageTypes, AppendProperties DEF TypeOK, WorkerBoots, Slot
  <1>2. CASE WorkerStarts(s)
    <2>1. Head(toWorker[s]) \in Request /\ Tail(toWorker[s]) \in Seq(Request)
      BY <1>2, HeadTailProperties DEF TypeOK, WorkerStarts
    <2>2. [worker[s] EXCEPT !.current = Head(toWorker[s]).job,
                            !.aborted = FALSE] \in Worker
      BY <2>1 DEF TypeOK, Worker, Request
    <2>3. worker' \in [Slots -> Worker]
      BY <1>2, <2>2 DEF TypeOK, WorkerStarts
    <2> QED
      BY <1>2, <2>1, <2>3 DEF TypeOK, WorkerStarts
  <1>3. CASE WorkerAborts(s)
    BY <1>3, HeadTailProperties DEF TypeOK, WorkerAborts, Worker
  <1>4. CASE WorkerShutsDown(s)
    <2>1. CASE worker[s].current = None
      <3>1. Dies(s, toMain[s]) /\ toMain[s] \in Seq(Response)
        BY <1>4, <2>1 DEF TypeOK, WorkerShutsDown
      <3> QED
        BY <1>4, <3>1, TypeDies DEF TypeOK, WorkerShutsDown
    <2>2. CASE worker[s].current # None
      <3>1. worker' \in [Slots -> Worker]
        <4>1. worker[s] \in Worker /\ worker \in [Slots -> Worker]
          BY DEF TypeOK
        <4>2. [worker[s] EXCEPT !.retiring = TRUE] \in Worker
          BY <4>1 DEF Worker
        <4>3. worker' = [worker EXCEPT ![s] = [worker[s] EXCEPT !.retiring = TRUE]]
          BY <1>4, <2>2 DEF WorkerShutsDown
        <4> QED
          BY <4>1, <4>2, <4>3
      <3>2. toWorker' \in [Slots -> Seq(Request)]
        <4>1. Tail(toWorker[s]) \in Seq(Request)
          BY <1>4, HeadTailProperties DEF TypeOK, WorkerShutsDown
        <4> QED
          BY <1>4, <2>2, <4>1 DEF TypeOK, WorkerShutsDown
      <3> QED
        BY <1>4, <2>2, <3>1, <3>2 DEF TypeOK, WorkerShutsDown
    <2> QED
      BY <2>1, <2>2
  <1>5. CASE \E ok \in BOOLEAN : WorkerFinishes(s, ok)
    <2> PICK ok \in BOOLEAN : WorkerFinishes(s, ok)
      BY <1>5
    <2> DEFINE j == worker[s].current
               outcome == IF ok THEN Done(j) ELSE Error(j, worker[s].aborted)
    <2>1. Ends(s, <<outcome, Idle>>) /\ used' = used
      BY DEF WorkerFinishes
    <2>2. outcome \in Response
      BY <2>1
         DEF Ends, TypeOK, Worker, JobOrNone, Done, Error, Response
    <2>3. <<outcome, Idle>> \in Seq(Response)
      BY <2>2, ReportTypes
    <2>4. used' \in Bounds
      BY <2>1 DEF TypeOK
    <2> QED
      BY <2>1, <2>3, <2>4, TypeEnds
  <1>6. CASE WorkerThrows(s)
    <2> DEFINE posted == Append(toMain[s], Error(worker[s].current, FALSE))
    <2>1. Error(worker[s].current, FALSE) \in Response
      BY DEF TypeOK, Worker, Error, Response
    <2>2. posted \in Seq(Response)
      BY <2>1, AppendProperties DEF TypeOK
    <2>3. Dies(s, posted)
      BY <1>6 DEF WorkerThrows
    <2>4. used' \in Bounds
      BY <1>6, CountType DEF TypeOK, WorkerThrows
    <2> QED
      BY <1>6, <2>2, <2>3, <2>4, TypeDies DEF TypeOK, WorkerThrows
  <1>7. CASE WorkerCrashes(s)
    <2>1. Dies(s, toMain[s]) /\ toMain[s] \in Seq(Response)
      BY <1>7 DEF TypeOK, WorkerCrashes
    <2>2. used' \in Bounds
      BY <1>7, CountType DEF TypeOK, WorkerCrashes
    <2> QED
      BY <1>7, <2>1, <2>2, TypeDies DEF TypeOK, WorkerCrashes
  <1>8. CASE WorkerFinishesUnheard(s)
    <2>1. Ends(s, <<Idle>>) /\ used' \in Bounds
      BY <1>8, CountType DEF TypeOK, WorkerFinishesUnheard, Unrecorded
    <2>2. <<Idle>> \in Seq(Response)
      BY MessageTypes, ReportTypes
    <2> QED
      BY <2>1, <2>2, TypeEnds
  <1> QED
    BY <1>1, <1>2, <1>3, <1>4, <1>5, <1>6, <1>7, <1>8 DEF WorkerStep

(* What a write counts against the bounds: nothing, or one outcome more    *)
(* that is not recorded.                                                   *)
Counted ==
    /\ used' \in Bounds
    /\ used'.launches = used.launches
    /\ used'.retries = used.retries
    /\ used' = used \/ used'.unrecorded # 0

(* An outcome that is not recorded is counted, and nothing else is.        *)
LEMMA UnrecordedCounts ==
    ASSUME TypeOK, Unrecorded
    PROVE  Counted /\ used'.unrecorded # 0
  <1>1. used \in Bounds /\ used' = [used EXCEPT !.unrecorded = @ + 1]
    BY DEF TypeOK, Unrecorded
  <1>2. /\ used'.launches = used.launches /\ used'.retries = used.retries
        /\ used'.unrecorded = used.unrecorded + 1 /\ used.unrecorded \in Nat
    BY <1>1 DEF Bounds
  <1>3. used'.unrecorded # 0
    BY <1>2
  <1> QED
    BY <1>1, <1>2, <1>3, CountType DEF Counted

(* A settled row is written, or is left and counted; either way it is a    *)
(* row, and the books stay sets of jobs.                                   *)
LEMMA TypeSettle ==
    ASSUME TypeOK, NEW j \in Jobs, NEW r \in Row, Settle(j, r) \/ Suppress(j)
    PROVE  /\ rows' \in [Jobs -> Row]
           /\ running' \subseteq Jobs
           /\ cancelled' \subseteq Jobs
           /\ Counted
           /\ Settle(j, r) =>
                \/ (rows' = [rows EXCEPT ![j] = r] /\ used' = used)
                \/ (rows' = rows /\ used'.unrecorded # 0)
  <1>1. Counted /\ (used' = used \/ (Unrecorded /\ used'.unrecorded # 0))
    <2>1. used' = used \/ Unrecorded
      BY DEF Settle, Suppress
    <2> QED
      BY <2>1, UnrecordedCounts DEF Counted, TypeOK
  <1>2. rows' = rows \/ rows' = [rows EXCEPT ![j] = r]
    BY DEF Settle, Suppress
  <1>3. rows' \in [Jobs -> Row]
    BY <1>2 DEF TypeOK
  <1>4. running' \subseteq Jobs /\ cancelled' \subseteq Jobs
    BY DEF TypeOK, Settle, Suppress
  <1>5. Settle(j, r) =>
          \/ (rows' = [rows EXCEPT ![j] = r] /\ used' = used)
          \/ (rows' = rows /\ used'.unrecorded # 0)
    <2>1. Unrecorded => used'.unrecorded # 0
      BY UnrecordedCounts
    <2> QED
      BY <2>1 DEF Settle
  <1> QED
    BY <1>1, <1>3, <1>4, <1>5

(* Main takes the head of a queue of responses.                            *)
LEMMA TypeReceives ==
    ASSUME TypeOK, NEW s \in Slots, NEW m, Receives(s, m)
    PROVE  toMain' \in [Slots -> Seq(Response)]
  BY HeadTailProperties DEF TypeOK, Receives

(* What the pool does about a slot keeps the types.                        *)
LEMMA TypePoolStep ==
    ASSUME TypeOK, NEW s \in Slots, PoolStep(s)
    PROVE  TypeOK'
  <1>1. CASE KillTimerFires(s)
    <2>1. [slot[s] EXCEPT !.proc = "dead", !.kill = None] \in Slot
          /\ [slot[s] EXCEPT !.kill = None] \in Slot
      BY DEF TypeOK, Slot, JobOrNone
    <2>2. slot' \in [Slots -> Slot]
      BY <1>1, <2>1 DEF TypeOK, KillTimerFires
    <2>3. worker' \in [Slots -> Worker]
      BY <1>1, MessageTypes DEF TypeOK, KillTimerFires
    <2>4. toWorker' \in [Slots -> Seq(Request)]
      <3>1. toWorker' \in {toWorker, [toWorker EXCEPT ![s] = <<>>]}
        BY <1>1 DEF KillTimerFires
      <3>2. <<>> \in Seq(Request)
        OBVIOUS
      <3> QED
        BY <3>1, <3>2 DEF TypeOK
    <2>5. toMain' \in [Slots -> Seq(Response)]
      <3>1. \/ toMain' = toMain
            \/ \E left \in Survivors(toMain[s]) :
                   toMain' = [toMain EXCEPT ![s] = left]
        BY <1>1 DEF KillTimerFires
      <3>2. toMain[s] \in Seq(Response)
        BY DEF TypeOK
      <3> QED
        BY <3>1, <3>2, SurvivorsType DEF TypeOK
    <2> QED
      BY <1>1, <2>2, <2>3, <2>4, <2>5 DEF TypeOK, KillTimerFires
  <1>2. CASE ReceiveReady(s)
    BY <1>2, TypeReceives DEF TypeOK, ReceiveReady, Receives, Slot
  <1>3. CASE ReceiveDone(s)
    BY <1>3, TypeReceives, TypeSettle, RowWrites
       DEF TypeOK, ReceiveDone, Receives, Counted
  <1>4. CASE ReceiveError(s)
    BY <1>4, TypeReceives, TypeSettle, RowWrites
       DEF TypeOK, ReceiveError, Receives, Counted
  <1>5. CASE ReceiveIdle(s)
    <2>1. [slot[s] EXCEPT !.job = None, !.retiring = TRUE,
                          !.kill = "shutdown"] \in Slot
          /\ [slot[s] EXCEPT !.job = None, !.kill = None] \in Slot
      BY DEF TypeOK, Slot, JobOrNone
    <2>2. slot' \in [Slots -> Slot]
      BY <1>5, <2>1 DEF TypeOK, ReceiveIdle
    <2>3. toWorker' \in [Slots -> Seq(Request)]
      BY <1>5, PostType, MessageTypes DEF TypeOK, ReceiveIdle
    <2>4. toMain' \in [Slots -> Seq(Response)]
      BY <1>5, TypeReceives DEF ReceiveIdle
    <2> QED
      BY <1>5, <2>2, <2>3, <2>4 DEF TypeOK, ReceiveIdle, Receives
  <1>6. CASE HandleExit(s)
    BY <1>6, TypeSettle, RowWrites, MessageTypes
       DEF TypeOK, HandleExit, Lose, Slot, JobOrNone, Counted
  <1> QED
    BY <1>1, <1>2, <1>3, <1>4, <1>5, <1>6 DEF PoolStep

(* Every variable keeps its type in every reachable state.                 *)
THEOREM TypeCorrect == Spec => []TypeOK
  <1>1. Init => TypeOK
    BY RowWrites, MessageTypes, EmptySeq
       DEF Init, TypeOK, Bounds, NoRow, Row, Status
  <1>2. TypeOK /\ [Next]_vars => TypeOK'
    <2> SUFFICES ASSUME TypeOK, [Next]_vars
                 PROVE  TypeOK'
      OBVIOUS
    <2>1. CASE UNCHANGED vars
      BY <2>1 DEF vars, TypeOK
    <2>2. CASE Launch \/ Stop \/ MainExits
      BY <2>2, TypeLaunchStop
    <2>3. CASE \E s \in Slots : WorkerStep(s) \/ PoolStep(s)
      BY <2>3, TypeWorkerStep, TypePoolStep
    <2>4. CASE \E j \in Jobs : JobStep(j)
      BY <2>4, TypeJobStep
    <2> QED
      BY <2>1, <2>2, <2>3, <2>4 DEF Next
  <1> QED
    BY <1>1, <1>2, PTL DEF Spec

(* What each write does to the count of attempts and to the status.        *)
LEMMA RowEffects ==
    ASSUME NEW r \in Row
    PROVE  /\ Claimed(r).attempts = r.attempts + 1
           /\ Claimed(r).status = "running"
           /\ Succeeded(r).attempts = r.attempts
           /\ Succeeded(r).status = "succeeded"
           /\ Cancelled(r).attempts = r.attempts
           /\ Cancelled(r).status = "cancelled"
           /\ Failed(r).attempts = r.attempts
           /\ Failed(r).status = "queued" => r.attempts < MaxAttempts
           /\ Requeued(r).attempts = r.attempts
           /\ Retried(r).attempts = 0
  <1> USE DEF Row
  <1>1. /\ Claimed(r).attempts = r.attempts + 1
        /\ Claimed(r).status = "running"
    BY DEF Claimed
  <1>2. /\ Succeeded(r).attempts = r.attempts
        /\ Succeeded(r).status = "succeeded"
        /\ Cancelled(r).attempts = r.attempts
        /\ Cancelled(r).status = "cancelled"
    BY DEF Succeeded, Cancelled
  <1>3. /\ Failed(r).attempts = r.attempts
        /\ Failed(r).status = "queued" => r.attempts < MaxAttempts
    BY DEF Failed
  <1>4. Requeued(r).attempts = r.attempts /\ Retried(r).attempts = 0
    BY DEF Requeued, Retried
  <1> QED
    BY <1>1, <1>2, <1>3, <1>4

(* A step that leaves the rows, the books, the phase and the launches alone*)
(* keeps the invariant.                                                    *)
LEMMA BooksFrame ==
    ASSUME BooksInv, TypeOK',
           UNCHANGED <<rows, phase, running, cancelled>>,
           used'.launches = used.launches
    PROVE  BooksInv'
  BY DEF BooksInv, SuppressionMatchesRow, BooksMatchRows, AttemptsBounded

(* Settling or suppressing a job while the app is up keeps the invariant:  *)
(* the row that moves leaves both books.                                   *)
LEMMA BooksSettle ==
    ASSUME BooksInv, TypeOK', NEW j \in Jobs, phase # "down",
           \/ Settle(j, Succeeded(rows[j]))
           \/ Settle(j, Failed(rows[j]))
           \/ Suppress(j),
           UNCHANGED phase
    PROVE  BooksInv'
  <1>1. rows[j] \in Row /\ rows \in [Jobs -> Row] /\ used.launches \in Nat
        /\ used.launches >= 1
    BY DEF BooksInv, TypeOK, Bounds
  <1>2. ASSUME rows' = rows, running' = running \ {j}, cancelled' = cancelled \ {j},
               used'.launches = used.launches
        PROVE  BooksInv'
    BY <1>2 DEF BooksInv, SuppressionMatchesRow, BooksMatchRows,
                AttemptsBounded
  <1>3. ASSUME NEW r \in Row, rows' = [rows EXCEPT ![j] = r], used' = used,
               running' = running \ {j}, cancelled' = cancelled \ {j},
               r.attempts = rows[j].attempts,
               r.status = "queued" => r.attempts < MaxAttempts
        PROVE  BooksInv'
    <2>1. SuppressionMatchesRow' /\ BooksMatchRows'
      BY <1>1, <1>3
         DEF BooksInv, SuppressionMatchesRow, BooksMatchRows
    <2>2. AttemptsBounded'
      BY <1>1, <1>3 DEF BooksInv, AttemptsBounded
    <2>3. \A k \in Jobs : rows'[k].status = "queued" =>
             rows'[k].attempts + 2 <= MaxAttempts + used.launches
      BY <1>1, <1>3, MaxAttemptsAssumption DEF BooksInv, Row
    <2> QED
      BY <1>1, <1>3, <2>1, <2>2, <2>3 DEF BooksInv
  <1>4. /\ running' = running \ {j} /\ cancelled' = cancelled \ {j}
        /\ used'.launches = used.launches
    BY <1>1, TypeSettle, RowWrites DEF Settle, Suppress, Counted, BooksInv
  <1>5. CASE rows' = rows
    BY <1>2, <1>4, <1>5
  <1>6. CASE rows' # rows
    <2>1. \/ rows' = [rows EXCEPT ![j] = Succeeded(rows[j])] /\ used' = used
          \/ rows' = [rows EXCEPT ![j] = Failed(rows[j])] /\ used' = used
      BY <1>6 DEF Settle, Suppress
    <2> QED
      BY <1>1, <1>3, <1>4, <2>1, RowEffects, RowWrites
  <1> QED
    BY <1>5, <1>6

(* What happens to a job outside the pool keeps the books.                 *)
LEMMA BooksJobStep ==
    ASSUME BooksInv, TypeOK', NEW j \in Jobs, JobStep(j)
    PROVE  BooksInv'
  <1>1. /\ rows \in [Jobs -> Row] /\ rows[j] \in Row
        /\ used \in Bounds /\ used' \in Bounds
        /\ running \subseteq Jobs /\ cancelled \subseteq Jobs
    BY DEF BooksInv, TypeOK
  <1>2. used'.launches = used.launches /\ phase' = phase
    BY <1>1 DEF JobStep, Enqueue, BackoffElapses, ClaimAndDispatch, Cancel,
                Retry, Bounds
  (* One row moves to r, and the books follow.                             *)
  <1>3. ASSUME NEW r \in Row, rows' = [rows EXCEPT ![j] = r],
               running' \ {j} \subseteq running,
               cancelled' \ {j} \subseteq cancelled,
               j \in running' => r.status = "running",
               j \in cancelled' => r.status = "cancelled",
               r.attempts + 1 <= MaxAttempts + used.launches,
               r.status = "queued" =>
                   r.attempts + 2 <= MaxAttempts + used.launches,
               phase = "down" => running' = {} /\ cancelled' = {}
        PROVE  BooksInv'
    <2>1. SuppressionMatchesRow' /\ BooksMatchRows'
      BY <1>1, <1>3 DEF BooksInv, SuppressionMatchesRow, BooksMatchRows
    <2>2. AttemptsBounded'
      BY <1>1, <1>2, <1>3 DEF BooksInv, AttemptsBounded
    <2>3. \A k \in Jobs : rows'[k].status = "queued" =>
             rows'[k].attempts + 2 <= MaxAttempts + used'.launches
      BY <1>1, <1>2, <1>3 DEF BooksInv
    <2> QED
      BY <1>2, <1>3, <2>1, <2>2, <2>3 DEF BooksInv
  <1>4. CASE Enqueue(j)
    <2>1. FreshRow.status = "queued" /\ FreshRow.attempts = 0
          /\ used.launches >= 1 /\ used.launches \in Nat
      BY <1>1, <1>4 DEF FreshRow, Enqueue, BooksInv, Bounds
    <2>2. j \notin running /\ j \notin cancelled
      BY <1>4 DEF Enqueue, BooksInv, SuppressionMatchesRow, BooksMatchRows
    <2>3. /\ FreshRow.attempts + 1 <= MaxAttempts + used.launches
          /\ FreshRow.attempts + 2 <= MaxAttempts + used.launches
      BY <2>1, MaxAttemptsAssumption
    <2>4. FreshRow \in Row
      BY <1>1, RowWrites
    <2>5. rows' = [rows EXCEPT ![j] = FreshRow] /\ phase = "up"
          /\ running' = running /\ cancelled' = cancelled
      BY <1>4 DEF Enqueue
    <2> QED
      BY <1>3, <2>2, <2>3, <2>4, <2>5
  <1>5. CASE BackoffElapses(j)
    <2> DEFINE r == [rows[j] EXCEPT !.due = TRUE]
    <2>1. r \in Row /\ r.status = "queued" /\ r.attempts = rows[j].attempts
      BY <1>1, <1>5 DEF BackoffElapses, Row
    <2>2. j \notin running /\ j \notin cancelled
      BY <1>5 DEF BackoffElapses, BooksInv, SuppressionMatchesRow,
                  BooksMatchRows
    <2>3. /\ r.attempts + 1 <= MaxAttempts + used.launches
          /\ r.attempts + 2 <= MaxAttempts + used.launches
      BY <1>5, <2>1 DEF BackoffElapses, BooksInv, AttemptsBounded
    <2>4. rows' = [rows EXCEPT ![j] = r]
      BY <1>1, <1>5 DEF BackoffElapses
    <2> QED
      BY <1>3, <1>5, <2>1, <2>2, <2>3, <2>4 DEF BackoffElapses, BooksInv
  <1>6. CASE ClaimAndDispatch(j)
    <2>1. rows[j].status = "queued"
      BY <1>6 DEF ClaimAndDispatch, Claimable
    <2>2. rows[j].attempts + 2 <= MaxAttempts + used.launches
      BY <2>1 DEF BooksInv
    <2>3. Claimed(rows[j]).attempts + 1 <= MaxAttempts + used.launches
      BY <1>1, <2>2, RowEffects, MaxAttemptsAssumption DEF Row, Bounds
    <2> QED
      BY <1>1, <1>3, <1>6, <2>3, RowEffects, RowWrites
         DEF ClaimAndDispatch, ForgetCancellation
  <1>7. CASE Cancel(j)
    <2>1. Cancelled(rows[j]).attempts + 1 <= MaxAttempts + used.launches
      BY <1>1, RowEffects DEF BooksInv, AttemptsBounded
    <2> QED
      BY <1>1, <1>3, <1>7, <2>1, RowEffects, RowWrites DEF Cancel
  <1>8. CASE Retry(j)
    <2>1. used.launches >= 1 /\ used.launches \in Nat
      BY <1>1, <1>8 DEF Retry, BooksInv, Bounds
    <2>2. j \notin running
      BY <1>8 DEF Retry, Retryable, BooksInv, BooksMatchRows
    <2>3. /\ Retried(rows[j]).attempts + 1 <= MaxAttempts + used.launches
          /\ Retried(rows[j]).attempts + 2 <= MaxAttempts + used.launches
      BY <1>1, <2>1, RowEffects, MaxAttemptsAssumption
    <2> QED
      BY <1>1, <1>3, <1>8, <2>2, <2>3, RowWrites
         DEF Retry, ForgetCancellation
  <1> QED
    BY <1>4, <1>5, <1>6, <1>7, <1>8 DEF JobStep

(* A launch empties the books of the life before it.                       *)
LEMMA BooksLaunch ==
    ASSUME BooksInv, TypeOK', Launch
    PROVE  BooksInv'
  <1>1. /\ rows \in [Jobs -> Row] /\ used.launches \in Nat
        /\ used'.launches = used.launches + 1 /\ phase' = "up"
        /\ running' = {} /\ cancelled' = {}
    BY DEF BooksInv, TypeOK, Launch, Bounds
  <1>2. \A j \in Jobs :
           /\ rows'[j].attempts = rows[j].attempts
           /\ rows'[j].attempts \in Nat
           /\ rows'[j].status = "queued" =>
                  rows[j].status \in {"queued", "running"}
    BY <1>1, RowEffects DEF Launch, Row
  <1>3. \A j \in Jobs : /\ rows[j].attempts + 1 <= MaxAttempts + used.launches
                        /\ rows[j].status = "queued" =>
                             rows[j].attempts + 2 <= MaxAttempts + used.launches
    BY DEF BooksInv, AttemptsBounded
  <1>4. \A j \in Jobs : rows'[j].attempts + 2 <= MaxAttempts + used'.launches
    BY <1>1, <1>2, <1>3, MaxAttemptsAssumption
  <1>5. \A j \in Jobs : rows'[j].attempts + 1 <= MaxAttempts + used'.launches
    BY <1>1, <1>2, <1>4, MaxAttemptsAssumption
  <1> QED
    BY <1>1, <1>4, <1>5
       DEF BooksInv, SuppressionMatchesRow, BooksMatchRows, AttemptsBounded

(* What the pool does about a slot keeps the books.                        *)
LEMMA BooksPoolStep ==
    ASSUME BooksInv, TypeOK', NEW s \in Slots, PoolStep(s)
    PROVE  BooksInv'
  <1>1. CASE KillTimerFires(s) \/ ReceiveReady(s) \/ ReceiveIdle(s)
    BY <1>1, BooksFrame
       DEF KillTimerFires, ReceiveReady, ReceiveIdle, Receives
  <1>2. CASE ReceiveDone(s)
    <2> PICK j \in Jobs :
          /\ Receives(s, Done(j))
          /\ IF j = slot[s].job
             THEN Settle(j, Succeeded(rows[j]))
             ELSE UNCHANGED <<rows, running, cancelled, used>>
      BY <1>2 DEF ReceiveDone
    <2>1. phase # "down" /\ UNCHANGED phase
      BY DEF Receives
    <2> QED
      BY <2>1, BooksFrame, BooksSettle
  <1>3. CASE ReceiveError(s)
    <2> PICK j \in Jobs :
          /\ \E a \in BOOLEAN : Receives(s, Error(j, a))
          /\ \/ UNCHANGED <<rows, running, cancelled, used>>
             \/ Suppress(j)
             \/ Settle(j, Failed(rows[j]))
      BY <1>3 DEF ReceiveError
    <2>1. phase # "down" /\ UNCHANGED phase
      BY DEF Receives
    <2> QED
      BY <2>1, BooksFrame, BooksSettle
  <1>4. CASE HandleExit(s)
    <2> DEFINE lost == slot[s].job
    <2>1. phase # "down" /\ UNCHANGED phase
      BY <1>4 DEF HandleExit
    <2>2. CASE lost = None
      BY <1>4, <2>1, <2>2, BooksFrame DEF HandleExit
    <2>3. CASE lost # None
      <3>1. lost \in Jobs
        BY <2>3 DEF BooksInv, TypeOK, Slot, JobOrNone
      <3>2. Suppress(lost) \/ Settle(lost, Failed(rows[lost]))
        BY <1>4, <2>3 DEF HandleExit, Lose
      <3> QED
        BY <2>1, <3>1, <3>2, BooksSettle
    <2> QED
      BY <2>2, <2>3
  <1> QED
    BY <1>1, <1>2, <1>3, <1>4 DEF PoolStep

(* A worker touches its process and its queues, and no book.               *)
LEMMA BooksWorkerStep ==
    ASSUME BooksInv, TypeOK', NEW s \in Slots, WorkerStep(s)
    PROVE  BooksInv'
  <1>1. UNCHANGED <<rows, phase, running, cancelled>>
    BY DEF WorkerStep, WorkerBoots, WorkerStarts, WorkerAborts,
           WorkerShutsDown, WorkerFinishes, WorkerFinishesUnheard, Ends,
           WorkerThrows, WorkerCrashes
  <1>2. used'.launches = used.launches
    BY DEF WorkerStep, WorkerBoots, WorkerStarts, WorkerAborts,
           WorkerShutsDown, WorkerFinishes, WorkerFinishesUnheard, Ends,
           WorkerThrows, WorkerCrashes, Unrecorded,
           BooksInv, TypeOK, Bounds
  <1> QED
    BY <1>1, <1>2, BooksFrame

(* The runner's two books never disagree with the table, and attempts are  *)
(* bounded by the attempts of the job and the launches of the app.         *)
THEOREM BooksCorrect == Spec => []BooksInv
  <1>1. Init => BooksInv
    <2> SUFFICES ASSUME Init PROVE BooksInv
      OBVIOUS
    <2>1. TypeOK
      BY RowWrites, MessageTypes, EmptySeq
         DEF Init, TypeOK, Bounds, NoRow, Row, Status
    <2>2. \A j \in Jobs : rows[j].status = "absent" /\ rows[j].attempts = 0
      BY DEF Init, NoRow
    <2> QED
      BY <2>1, <2>2, MaxAttemptsAssumption
         DEF Init, BooksInv, SuppressionMatchesRow, BooksMatchRows,
             AttemptsBounded
  <1>2. TypeOK /\ TypeOK' /\ BooksInv /\ [Next]_vars => BooksInv'
    <2> SUFFICES ASSUME TypeOK', BooksInv, [Next]_vars
                 PROVE  BooksInv'
      OBVIOUS
    <2>1. CASE UNCHANGED vars
      BY <2>1, BooksFrame DEF vars
    <2>2. CASE Launch
      BY <2>2, BooksLaunch
    <2>3. CASE Stop \/ MainExits
      <3>1. /\ UNCHANGED <<rows, used>> /\ phase # "down"
            /\ running' = {} /\ cancelled' = {}
        BY <2>3 DEF Stop, MainExits
      <3> QED
        BY <3>1 DEF BooksInv, SuppressionMatchesRow, BooksMatchRows,
                    AttemptsBounded
    <2>4. CASE \E s \in Slots : WorkerStep(s) \/ PoolStep(s)
      BY <2>4, BooksWorkerStep, BooksPoolStep
    <2>5. CASE \E j \in Jobs : JobStep(j)
      BY <2>5, BooksJobStep
    <2> QED
      BY <2>1, <2>2, <2>3, <2>4, <2>5 DEF Next
  <1> QED
    BY <1>1, <1>2, TypeCorrect, PTL DEF Spec

(* No failure of a job that runs again is swallowed by a suppression left  *)
(* from an earlier cancellation.                                           *)
THEOREM SuppressionCorrect == Spec => []SuppressionMatchesRow
  <1>1. BooksInv => SuppressionMatchesRow
    BY DEF BooksInv
  <1> QED
    BY <1>1, BooksCorrect, PTL

(* Heartbeats and progress are only written to running rows.               *)
THEOREM HeartbeatsCorrect == Spec => []BooksMatchRows
  <1>1. BooksInv => BooksMatchRows
    BY DEF BooksInv
  <1> QED
    BY <1>1, BooksCorrect, PTL

(* Both books agree with the rows.                                         *)
THEOREM BooksAgreeCorrect == Spec => []BooksAgree
  <1>1. BooksInv => BooksAgree
    BY DEF BooksInv, BooksAgree
  <1> QED
    BY <1>1, BooksCorrect, PTL

(* A job spends at most its attempts and one more for each relaunch.       *)
THEOREM AttemptsCorrect == Spec => []AttemptsBounded
  <1>1. BooksInv => AttemptsBounded
    BY DEF BooksInv
  <1> QED
    BY <1>1, BooksCorrect, PTL
-----------------------------------------------------------------------------
(* The ports.  What is on them, next to what the slot and the worker say.  *)

OnlyCancels(q) == \A i \in 1 .. Len(q) : q[i].type = "cancel"

(* One start, of job j, among cancellations.                               *)
StartAt(q, i, j) ==
    /\ i \in 1 .. Len(q) /\ q[i] = Start(j)
    /\ \A k \in 1 .. Len(q) : k # i => q[k].type = "cancel"

Asks(q, j) == \E i \in 1 .. Len(q) : StartAt(q, i, j)

Outcomes(j) == {Done(j), Error(j, TRUE), Error(j, FALSE)}
Reports(j) == {<<Idle>>} \cup {<<o, Idle>> : o \in Outcomes(j)}

(* A slot that has no process yet, or none any more.                       *)
Unborn(s) ==
    /\ slot[s].proc \in {"none", "booting"}
    /\ ~slot[s].ready /\ slot[s].job = None /\ ~slot[s].retiring
    /\ toWorker[s] = <<>> /\ toMain[s] = <<>> /\ worker[s].current = None

Booted(s) ==
    /\ slot[s].proc = "up" /\ ~slot[s].ready /\ slot[s].job = None /\ ~slot[s].retiring
    /\ toWorker[s] = <<>> /\ toMain[s] = <<Ready>> /\ worker[s].current = None

Resting(s) ==
    /\ slot[s].proc = "up" /\ slot[s].ready /\ slot[s].job = None
    /\ toMain[s] = <<>> /\ worker[s].current = None
    /\ \A i \in 1 .. Len(toWorker[s]) : toWorker[s][i].type # "start"
    /\ ~slot[s].retiring => OnlyCancels(toWorker[s])

(* The job is on its way, in hand, or reported.                            *)
Waiting(s) ==
    /\ toMain[s] = <<>> /\ worker[s].current = None /\ Asks(toWorker[s], slot[s].job)
Working(s) ==
    /\ toMain[s] = <<>> /\ worker[s].current = slot[s].job /\ OnlyCancels(toWorker[s])
Reported(s) ==
    /\ toMain[s] \in Reports(slot[s].job)
    /\ worker[s].current = None /\ OnlyCancels(toWorker[s])

Held(s) ==
    /\ slot[s].proc = "up" /\ slot[s].ready /\ slot[s].job # None
    /\ Waiting(s) \/ Working(s) \/ Reported(s)

(* What a dead process had posted and is not lost.                         *)
Dead(s) ==
    /\ slot[s].proc = "dead" /\ toWorker[s] = <<>> /\ worker[s].current = None
    /\ \/ slot[s].job = None /\ toMain[s] = <<>>
       \/ slot[s].job = None /\ ~slot[s].ready /\ toMain[s] = <<Ready>>
       \/ /\ slot[s].job # None /\ slot[s].ready
          /\ \/ toMain[s] = <<>>
             \/ toMain[s] \in Reports(slot[s].job)
             \/ \E o \in Outcomes(slot[s].job) : toMain[s] = <<o>>

Port(s) ==
    /\ ~worker[s].retiring
    /\ phase = "up" => Unborn(s) \/ Booted(s) \/ Resting(s) \/ Held(s) \/ Dead(s)
    /\ phase # "up" => slot[s].proc = "none" /\ worker[s].current = None
    /\ phase = "down" => toMain[s] = <<>>
    /\ phase # "up" => toWorker[s] = <<>>

NoCancelOf(q, j) == \A i \in 1 .. Len(q) : q[i] # CancelRequest(j)

(* What comes after the start of j does not cancel it.                     *)
KeptGoing(q, j) ==
    \A i, k \in 1 .. Len(q) : i < k /\ q[i] = Start(j) => q[k] # CancelRequest(j)

(* Nothing aborts the run of j that the slot was given.                    *)
Undisturbed(s, j) ==
    /\ worker[s].current = j => ~worker[s].aborted /\ NoCancelOf(toWorker[s], j)
    /\ KeptGoing(toWorker[s], j)

(* Slot s has still to say how j ended, and what it says will be written.  *)
Owes(s, j) ==
    /\ slot[s].job = j
    /\ IF toMain[s] = <<>> THEN Undisturbed(s, j)
       ELSE Head(toMain[s]) \in {Done(j), Error(j, FALSE)}

Watched ==
    phase = "up" /\ used.unrecorded = 0 =>
        \A j \in Jobs : rows[j].status = "running" => \E s \in Slots : Owes(s, j)

(* Slot s has said how its job ended, or will by its exit.                 *)
Spoken(s) == slot[s].proc = "dead" \/ toMain[s] = <<Idle>>

(* As long as nobody retries.                                              *)
OneHolder ==
    phase = "up" /\ used.retries = 0 =>
        \A j \in Jobs :
            /\ \A s, t \in Slots : slot[s].job = j /\ slot[t].job = j => s = t
            /\ rows[j].status = "queued" \/ rows[j].status = "absent" =>
                 \A s \in Slots :
                     slot[s].job = j => rows[j].status = "queued" /\ ~rows[j].due /\ Spoken(s)

PortsInv == (\A s \in Slots : Port(s)) /\ Watched /\ OneHolder

(* The two kinds of messages a worker is sent, and the order they come in. *)
LEMMA CancelsTail ==
    ASSUME NEW q \in Seq(Request), q # <<>>, NEW j
    PROVE  /\ OnlyCancels(q) => Head(q).type = "cancel" /\ OnlyCancels(Tail(q))
           /\ NoCancelOf(q, j) => Head(q) # CancelRequest(j) /\ NoCancelOf(Tail(q), j)
           /\ KeptGoing(q, j) => KeptGoing(Tail(q), j)
           /\ KeptGoing(q, j) /\ Head(q) = Start(j) => NoCancelOf(Tail(q), j)
  <1>1. /\ Len(q) \in Nat \ {0} /\ Len(Tail(q)) = Len(q) - 1 /\ Head(q) = q[1]
        /\ \A i \in 1 .. Len(q) - 1 : Tail(q)[i] = q[i + 1]
    BY HeadTailProperties, LenProperties
  <1>2. \A i \in 1 .. Len(q) - 1 : i + 1 \in 1 .. Len(q)
    BY <1>1
  <1>3. OnlyCancels(q) => Head(q).type = "cancel" /\ OnlyCancels(Tail(q))
    BY <1>1, <1>2 DEF OnlyCancels
  <1>4. NoCancelOf(q, j) => Head(q) # CancelRequest(j) /\ NoCancelOf(Tail(q), j)
    BY <1>1, <1>2 DEF NoCancelOf
  <1>5. KeptGoing(q, j) => KeptGoing(Tail(q), j)
    <2> SUFFICES ASSUME KeptGoing(q, j), NEW i \in 1 .. Len(q) - 1, NEW k \in 1 .. Len(q) - 1,
                        i < k, Tail(q)[i] = Start(j)
                 PROVE  Tail(q)[k] # CancelRequest(j)
      BY <1>1 DEF KeptGoing
    <2> QED
      BY <1>1, <1>2 DEF KeptGoing
  <1>6. KeptGoing(q, j) /\ Head(q) = Start(j) => NoCancelOf(Tail(q), j)
    <2> SUFFICES ASSUME KeptGoing(q, j), q[1] = Start(j), NEW k \in 1 .. Len(q) - 1
                 PROVE  Tail(q)[k] # CancelRequest(j)
      BY <1>1 DEF NoCancelOf
    <2> QED
      BY <1>1, <1>2 DEF KeptGoing
  <1> QED
    BY <1>3, <1>4, <1>5, <1>6

(* A queue that asks for a job begins with that start, or with a           *)
(* cancellation.                                                           *)
LEMMA AsksTail ==
    ASSUME NEW q \in Seq(Request), NEW j \in Jobs, Asks(q, j)
    PROVE  /\ q # <<>>
           /\ \/ Head(q).type = "cancel" /\ Asks(Tail(q), j)
              \/ Head(q) = Start(j) /\ OnlyCancels(Tail(q))
  <1> PICK i \in 1 .. Len(q) : StartAt(q, i, j)
    BY DEF Asks, StartAt
  <1>1. q # <<>>
    OBVIOUS
  <1>2. /\ Len(q) \in Nat \ {0} /\ Len(Tail(q)) = Len(q) - 1 /\ Head(q) = q[1]
        /\ \A k \in 1 .. Len(q) - 1 : Tail(q)[k] = q[k + 1] /\ k + 1 \in 1 .. Len(q)
    BY <1>1, HeadTailProperties, LenProperties
  <1>3. CASE i = 1
    BY <1>2, <1>3 DEF StartAt, OnlyCancels
  <1>4. CASE i # 1
    <2>1. i - 1 \in 1 .. Len(Tail(q)) /\ Tail(q)[i - 1] = Start(j)
      BY <1>2, <1>4 DEF StartAt
    <2>2. \A k \in 1 .. Len(Tail(q)) : k # i - 1 => Tail(q)[k].type = "cancel"
      BY <1>2 DEF StartAt
    <2>3. Head(q).type = "cancel"
      BY <1>2, <1>4 DEF StartAt
    <2>4. StartAt(Tail(q), i - 1, j)
      BY <2>1, <2>2 DEF StartAt
    <2> QED
      BY <2>1, <2>3, <2>4 DEF Asks
  <1> QED
    BY <1>1, <1>3, <1>4

(* What a request added at the end of a queue changes of what it asks.     *)
LEMMA RequestsAppended ==
    ASSUME NEW q \in Seq(Request), NEW j \in Jobs, NEW k \in Jobs
    PROVE  /\ OnlyCancels(q) => OnlyCancels(Append(q, CancelRequest(k)))
           /\ Asks(q, j) => Asks(Append(q, CancelRequest(k)), j)
           /\ OnlyCancels(q) => /\ Asks(Append(q, Start(j)), j)
                                /\ KeptGoing(Append(q, Start(j)), j)
           /\ k # j /\ NoCancelOf(q, j) => NoCancelOf(Append(q, CancelRequest(k)), j)
           /\ k # j /\ KeptGoing(q, j) => KeptGoing(Append(q, CancelRequest(k)), j)
  <1> DEFINE c == Append(q, CancelRequest(k))
             b == Append(q, Start(j))
  <1>1. /\ Len(q) \in Nat /\ Len(c) = Len(q) + 1 /\ c[Len(q) + 1] = CancelRequest(k)
        /\ \A i \in 1 .. Len(q) : c[i] = q[i] /\ i \in 1 .. Len(c)
        /\ Len(b) = Len(q) + 1 /\ b[Len(q) + 1] = Start(j)
        /\ \A i \in 1 .. Len(q) : b[i] = q[i] /\ i \in 1 .. Len(b)
        /\ \A i \in 1 .. Len(q) + 1 : i \in 1 .. Len(q) \/ i = Len(q) + 1
    BY MessageTypes, AppendProperties, LenProperties
  <1>2. /\ CancelRequest(k).type = "cancel" /\ Start(j).type = "start"
        /\ k # j => CancelRequest(k) # CancelRequest(j)
        /\ \A r : r.type = "cancel" => r # Start(j)
        /\ Start(j) # CancelRequest(j)
    BY DEF CancelRequest, Start
  <1> HIDE DEF c, b
  <1>3. OnlyCancels(q) => OnlyCancels(c)
    BY <1>1, <1>2 DEF OnlyCancels
  <1>4. Asks(q, j) => Asks(c, j)
    <2> SUFFICES ASSUME NEW i \in 1 .. Len(q), StartAt(q, i, j)
                 PROVE  StartAt(c, i, j)
      BY <1>1 DEF Asks, StartAt
    <2> QED
      BY <1>1, <1>2 DEF StartAt
  <1>5. OnlyCancels(q) => Asks(b, j) /\ KeptGoing(b, j)
    <2> SUFFICES ASSUME OnlyCancels(q)
                 PROVE  StartAt(b, Len(q) + 1, j) /\ KeptGoing(b, j)
      BY <1>1 DEF Asks
    <2>1. StartAt(b, Len(q) + 1, j)
      BY <1>1, <1>2 DEF OnlyCancels, StartAt
    <2>2. KeptGoing(b, j)
      <3> SUFFICES ASSUME NEW i \in 1 .. Len(b), NEW n \in 1 .. Len(b), i < n, b[i] = Start(j)
                   PROVE  b[n] # CancelRequest(j)
        BY DEF KeptGoing
      <3>1. i \in 1 .. Len(q)
        BY <1>1
      <3> QED
        BY <1>1, <1>2, <3>1 DEF OnlyCancels
    <2> QED
      BY <2>1, <2>2
  <1>6. k # j /\ NoCancelOf(q, j) => NoCancelOf(c, j)
    BY <1>1, <1>2 DEF NoCancelOf
  <1>7. k # j /\ KeptGoing(q, j) => KeptGoing(c, j)
    <2> SUFFICES ASSUME k # j, KeptGoing(q, j),
                        NEW i \in 1 .. Len(c), NEW n \in 1 .. Len(c), i < n, c[i] = Start(j)
                 PROVE  c[n] # CancelRequest(j)
      BY DEF KeptGoing
    <2>1. i \in 1 .. Len(q) /\ q[i] = Start(j)
      BY <1>1
    <2> QED
      BY <1>1, <1>2, <2>1 DEF KeptGoing
  <1> QED
    BY <1>3, <1>4, <1>5, <1>6, <1>7 DEF c, b

(* What a process leaves begins as it began.                               *)
LEMMA SurvivorsBegin ==
    ASSUME NEW q \in Seq(Response), NEW left \in Survivors(q)
    PROVE  left = <<>> \/ (left # <<>> /\ q # <<>> /\ Head(left) = Head(q))
  <1> PICK n \in 0 .. Len(q) : left = SubSeq(q, 1, n)
    BY DEF Survivors
  <1>1. /\ Len(q) \in Nat /\ \A i \in 1 .. n : q[i] \in Response
    BY LenProperties, ElementOfSeq
  <1>2. /\ left \in Seq(Response) /\ Len(left) = (IF 1 <= n THEN n - 1 + 1 ELSE 0)
        /\ \A i \in 1 .. n - 1 + 1 : left[i] = q[1 + i - 1]
    BY <1>1, SubSeqProperties
  <1>3. CASE n = 0
    <2>1. left = SubSeq(q, 1, 0)
      BY <1>3
    <2>2. SubSeq(q, 1, 0) = <<>>
      BY SubSeqEmpty
    <2> QED
      BY <2>1, <2>2
  <1>4. CASE n # 0
    BY <1>1, <1>2, <1>4, EmptySeq
  <1> QED
    BY <1>3, <1>4

(* What can survive in a queue of at most two responses.                   *)
LEMMA SurvivorsShort ==
    /\ \A left \in Survivors(<<>>) : left = <<>>
    /\ \A o : \A left \in Survivors(<<o>>) : left \in {<<>>, <<o>>}
    /\ \A o, p : \A left \in Survivors(<<o, p>>) : left \in {<<>>, <<o>>, <<o, p>>}
  <1>1. \A left \in Survivors(<<>>) : left = <<>>
    BY SubSeqEmpty DEF Survivors
  <1>2. ASSUME NEW o, NEW left \in Survivors(<<o>>) PROVE left \in {<<>>, <<o>>}
    BY DEF Survivors
  <1>3. ASSUME NEW o, NEW p, NEW left \in Survivors(<<o, p>>)
        PROVE  left \in {<<>>, <<o>>, <<o, p>>}
    <2> PICK n \in 0 .. 2 : left = SubSeq(<<o, p>>, 1, n)
      BY DEF Survivors
    <2>1. n = 0 \/ n = 1 \/ n = 2
      OBVIOUS
    <2>2. SubSeq(<<o, p>>, 1, 0) = <<>>
      BY SubSeqEmpty
    <2>3. SubSeq(<<o, p>>, 1, 1) = <<o>>
      <3>1. <<o, p>> \in Seq({o, p}) /\ <<o>> \in Seq({o, p})
        OBVIOUS
      <3>2. /\ SubSeq(<<o, p>>, 1, 1) \in Seq({o, p}) /\ Len(SubSeq(<<o, p>>, 1, 1)) = 1
            /\ SubSeq(<<o, p>>, 1, 1)[1] = o
        BY SubSeqProperties
      <3>3. Len(<<o>>) = 1 /\ <<o>>[1] = o
        OBVIOUS
      <3> DEFINE a == SubSeq(<<o, p>>, 1, 1)
                 b == <<o>>
      <3>4. /\ a \in Seq({o, p}) /\ b \in Seq({o, p}) /\ Len(a) = Len(b)
            /\ \A i \in 1 .. Len(a) : a[i] = b[i]
        BY <3>1, <3>2, <3>3
      <3> HIDE DEF a, b
      <3>5. a = b
        BY <3>4, SeqEqual
      <3> QED
        BY <3>5 DEF a, b
    <2>4. SubSeq(<<o, p>>, 1, 2) = <<o, p>>
      <3>1. <<o, p>> \in Seq({o, p}) /\ Len(<<o, p>>) = 2
        OBVIOUS
      <3> QED
        BY <3>1, SubSeqFull
    <2> QED
      BY <2>1, <2>2, <2>3, <2>4
  <1> QED
    BY <1>1, <1>2, <1>3

(* The port of a slot nothing happens to stays as it is.                   *)
LEMMA PortFrame ==
    ASSUME NEW s \in Slots, Port(s), phase' = phase,
           slot'[s] = slot[s], worker'[s] = worker[s],
           toWorker'[s] = toWorker[s], toMain'[s] = toMain[s]
    PROVE  Port(s)'
  BY DEF Port, Unborn, Booted, Resting, Held, Waiting, Working, Reported, Dead

(* A slot that nothing touched still owes its job an end.                  *)
LEMMA OwesFrame ==
    ASSUME NEW s \in Slots, NEW j \in Jobs, Owes(s, j),
           slot'[s].job = slot[s].job, worker'[s] = worker[s],
           toWorker'[s] = toWorker[s], toMain'[s] = toMain[s]
    PROVE  Owes(s, j)'
  BY DEF Owes, Undisturbed

(* The messages of a report, told apart.                                   *)
LEMMA ReportForms ==
    ASSUME NEW j \in Jobs, NEW q
    PROVE  /\ q \in Reports(j) => /\ q \in Seq(Response) /\ q # <<>>
                                  /\ \/ q = <<Idle>>
                                     \/ /\ Head(q) \in Outcomes(j) /\ Head(q) # Idle
                                        /\ Head(q) # Ready
                                        /\ q = <<Head(q), Idle>> /\ Tail(q) = <<Idle>>
           /\ \A o \in Outcomes(j) :
                 /\ o \in Response /\ o # Idle /\ o # Ready
                 /\ <<o>> \in Seq(Response) /\ Tail(<<o>>) = <<>> /\ Head(<<o>>) = o
                 /\ <<o, Idle>> \in Reports(j)
           /\ <<Idle>> \in Reports(j) /\ Head(<<Idle>>) = Idle /\ Tail(<<Idle>>) = <<>>
           /\ <<Ready>> \in Seq(Response) /\ Head(<<Ready>>) = Ready /\ Tail(<<Ready>>) = <<>>
           /\ Idle # Ready
  <1>1. \A o \in Outcomes(j) : o \in Response /\ o # Idle /\ o # Ready
    <2>1. /\ Done(j).type = "done" /\ Idle.type = "idle" /\ Ready.type = "ready"
          /\ \A a \in BOOLEAN : Error(j, a).type = "error"
      BY DEF Done, Error, Idle, Ready
    <2>2. Done(j) \in Response /\ Error(j, TRUE) \in Response /\ Error(j, FALSE) \in Response
      BY MessageTypes
    <2> QED
      BY <2>1, <2>2 DEF Outcomes
  <1>2. Idle \in Response /\ Ready \in Response /\ Idle # Ready
    BY DEF Idle, Ready, Response, JobOrNone
  <1>3. ASSUME NEW o \in Outcomes(j)
        PROVE  /\ <<o>> \in Seq(Response) /\ Tail(<<o>>) = <<>> /\ Head(<<o>>) = o
               /\ <<o, Idle>> \in Seq(Response) /\ Head(<<o, Idle>>) = o
               /\ Tail(<<o, Idle>>) = <<Idle>> /\ <<o, Idle>> # <<>>
    BY <1>1, <1>2
  <1>4. /\ <<Idle>> \in Seq(Response) /\ <<Idle>> # <<>>
        /\ Head(<<Idle>>) = Idle /\ Tail(<<Idle>>) = <<>>
        /\ <<Ready>> \in Seq(Response) /\ Head(<<Ready>>) = Ready /\ Tail(<<Ready>>) = <<>>
    BY <1>2
  <1>5. /\ \A o \in Outcomes(j) : <<o, Idle>> \in Reports(j)
        /\ <<Idle>> \in Reports(j)
        /\ q \in Reports(j) => q = <<Idle>> \/ \E o \in Outcomes(j) : q = <<o, Idle>>
    BY DEF Reports
  <1>6. q \in Reports(j) => /\ q \in Seq(Response) /\ q # <<>>
                            /\ \/ q = <<Idle>>
                               \/ /\ Head(q) \in Outcomes(j) /\ Head(q) # Idle
                                  /\ Head(q) # Ready
                                  /\ q = <<Head(q), Idle>> /\ Tail(q) = <<Idle>>
    <2> SUFFICES ASSUME q \in Reports(j), q # <<Idle>>
                 PROVE  /\ q \in Seq(Response) /\ q # <<>>
                        /\ Head(q) \in Outcomes(j) /\ Head(q) # Idle /\ Head(q) # Ready
                        /\ q = <<Head(q), Idle>> /\ Tail(q) = <<Idle>>
      BY <1>4
    <2> PICK o \in Outcomes(j) : q = <<o, Idle>>
      BY <1>5
    <2> QED
      BY <1>1, <1>3
  <1> QED
    BY <1>1, <1>2, <1>3, <1>4, <1>5, <1>6

(* A death, whatever killed the process.                                   *)
Killed(s, q) ==
    /\ slot'[s].proc = "dead" /\ slot'[s].job = slot[s].job /\ slot'[s].ready = slot[s].ready
    /\ worker'[s] = IdleWorker /\ toWorker'[s] = <<>> /\ toMain'[s] \in Survivors(q)

(* A killed process leaves a port that its exit will settle.               *)
LEMMA PortKilled ==
    ASSUME TypeOK, NEW s \in Slots, NEW q, Killed(s, q), phase = "up", phase' = "up",
           \/ slot[s].job = None /\ q = <<>>
           \/ slot[s].job = None /\ ~slot[s].ready /\ q = <<Ready>>
           \/ /\ slot[s].job # None /\ slot[s].ready
              /\ \/ q = <<>>
                 \/ q \in Reports(slot[s].job)
                 \/ \E o \in Outcomes(slot[s].job) : q = <<o>>
    PROVE  Port(s)'
  <1>1. /\ slot[s].job = None => toMain'[s] = <<>> \/ (~slot[s].ready /\ toMain'[s] = <<Ready>>)
        /\ slot[s].job # None =>
              /\ slot[s].ready
              /\ \/ toMain'[s] = <<>>
                 \/ toMain'[s] \in Reports(slot[s].job)
                 \/ \E o \in Outcomes(slot[s].job) : toMain'[s] = <<o>>
    <2>1. CASE slot[s].job = None
      BY <2>1, SurvivorsShort DEF Killed
    <2>2. CASE slot[s].job # None
      <3>1. slot[s].job \in Jobs
        BY <2>2 DEF TypeOK, Slot, JobOrNone
      <3>2. CASE q = <<>>
        BY <2>2, <3>2, SurvivorsShort DEF Killed
      <3>3. CASE q \in Reports(slot[s].job)
        <4>1. q = <<Idle>> \/ \E o \in Outcomes(slot[s].job) : q = <<o, Idle>>
          BY <3>3 DEF Reports
        <4> QED
          BY <2>2, <3>1, <4>1, SurvivorsShort, ReportForms DEF Killed
      <3>4. CASE \E o \in Outcomes(slot[s].job) : q = <<o>>
        BY <2>2, <3>4, SurvivorsShort DEF Killed
      <3> QED
        BY <2>2, <3>2, <3>3, <3>4
    <2> QED
      BY <2>1, <2>2
  <1>2. worker'[s].current = None /\ ~worker'[s].retiring
    BY DEF Killed, IdleWorker
  <1>3. Dead(s)'
    BY <1>1, <1>2 DEF Dead, Killed
  <1> QED
    BY <1>2, <1>3 DEF Port

(* A slot that owes a report owes it still, or its exit, when it dies.     *)
LEMMA OwesKilled ==
    ASSUME TypeOK, NEW s \in Slots, NEW j \in Jobs, Owes(s, j), NEW q \in Seq(Response),
           Killed(s, q),
           \/ q = toMain[s]
           \/ q = <<>>
           \/ q # <<>> /\ Head(q) \in {Done(j), Error(j, FALSE)}
    PROVE  Owes(s, j)'
  <1>1. toMain'[s] = <<>> \/ (toMain'[s] # <<>> /\ q # <<>> /\ Head(toMain'[s]) = Head(q))
    BY SurvivorsBegin DEF Killed
  <1>2. worker'[s].current # j
    BY NoneAssumption DEF Killed, IdleWorker
  <1>3. KeptGoing(toWorker'[s], j)
    BY DEF Killed, KeptGoing
  <1> QED
    BY <1>1, <1>2, <1>3 DEF Owes, Undisturbed, Killed
-----------------------------------------------------------------------------
(* What only concerns other slots.                                         *)

SameSlot(t) ==
    /\ slot'[t] = slot[t] /\ worker'[t] = worker[t]
    /\ toWorker'[t] = toWorker[t] /\ toMain'[t] = toMain[t]

(* A step at one slot.                                                     *)
LEMMA PortsLocal ==
    ASSUME \A t \in Slots : Port(t), NEW s \in Slots, phase' = phase,
           \A t \in Slots \ {s} : SameSlot(t), Port(s)'
    PROVE  \A t \in Slots : Port(t)'
  BY PortFrame DEF SameSlot

(* The step makes no row running, and what was owed still is.              *)
LEMMA WatchedKept ==
    ASSUME Watched, phase' = phase, used'.unrecorded = 0 => used.unrecorded = 0,
           \A j \in Jobs : rows'[j].status = "running" => rows[j].status = "running",
           NEW s \in Slots, \A t \in Slots \ {s} : SameSlot(t),
           \A j \in Jobs :
               rows'[j].status = "running" /\ used'.unrecorded = 0 /\ Owes(s, j)
                 => Owes(s, j)'
    PROVE  Watched'
  <1> SUFFICES ASSUME phase = "up", used'.unrecorded = 0,
                      NEW j \in Jobs, rows'[j].status = "running"
               PROVE  \E t \in Slots : Owes(t, j)'
    BY DEF Watched
  <1> PICK t \in Slots : Owes(t, j)
    BY DEF Watched
  <1>1. CASE t = s
    BY <1>1
  <1>2. CASE t # s
    BY <1>2, OwesFrame DEF SameSlot
  <1> QED
    BY <1>1, <1>2

(* A step of one slot that takes up no job leaves each job one holder.     *)
LEMMA HoldersKept ==
    ASSUME OneHolder, phase' = phase, rows' = rows, used'.retries = 0 => used.retries = 0,
           NEW s \in Slots, \A t \in Slots \ {s} : SameSlot(t),
           slot'[s].job \in {slot[s].job, None},
           Spoken(s) /\ slot'[s].job # None => Spoken(s)'
    PROVE  OneHolder'
  <1>1. \A t \in Slots : slot'[t].job \in {slot[t].job, None}
    BY DEF SameSlot
  <1>2. \A t \in Slots : Spoken(t) /\ slot'[t].job # None => Spoken(t)'
    BY DEF SameSlot, Spoken
  <1> QED
    BY <1>1, <1>2, NoneAssumption DEF OneHolder

(* A step at one slot that writes no row.                                  *)
LEMMA PortsStep ==
    ASSUME PortsInv, phase' = phase, rows' = rows,
           used'.retries = 0 => used.retries = 0, used'.unrecorded = 0 => used.unrecorded = 0,
           NEW s \in Slots, \A t \in Slots \ {s} : SameSlot(t), Port(s)',
           slot'[s].job \in {slot[s].job, None},
           Spoken(s) /\ slot'[s].job # None => Spoken(s)',
           \A j \in Jobs : used'.unrecorded = 0 /\ Owes(s, j) => Owes(s, j)'
    PROVE  PortsInv'
  BY PortsLocal, WatchedKept, HoldersKept DEF PortsInv

(* A live process only runs while the app is up.                           *)
LEMMA UpOrDown ==
    ASSUME PortsInv, NEW s \in Slots
    PROVE  /\ Port(s)
           /\ slot[s].proc # "none" => phase = "up"
           /\ phase = "up" => Unborn(s) \/ Booted(s) \/ Resting(s) \/ Held(s) \/ Dead(s)
  BY DEF PortsInv, Port

(* A worker that boots says it is ready.                                   *)
LEMMA PortsBoots ==
    ASSUME TypeOK, PortsInv, NEW s \in Slots, WorkerBoots(s)
    PROVE  PortsInv'
  <1>1. phase = "up" /\ phase' = "up" /\ Unborn(s)
    BY UpOrDown DEF WorkerBoots, Booted, Resting, Held, Dead
  <1>2. toMain'[s] = <<Ready>>
    BY <1>1 DEF WorkerBoots, TypeOK, Unborn
  <1>3. Booted(s)' /\ ~worker'[s].retiring
    BY <1>1, <1>2 DEF Booted, Unborn, WorkerBoots, TypeOK, IdleWorker, Slot
  <1>4. Port(s)'
    BY <1>1, <1>3 DEF Port
  <1>5. \A t \in Slots \ {s} : SameSlot(t)
    BY DEF WorkerBoots, TypeOK, SameSlot
  <1>6. slot[s].job = None /\ slot'[s].job = None
    BY <1>1, <1>3 DEF Unborn, Booted
  <1>7. \A j \in Jobs : ~Owes(s, j)
    BY <1>6, NoneAssumption DEF Owes
  <1> QED
    BY <1>4, <1>5, <1>6, <1>7, PortsStep DEF WorkerBoots

(* A worker takes the start from its queue.                                *)
LEMMA PortsStarts ==
    ASSUME TypeOK, PortsInv, NEW s \in Slots, WorkerStarts(s)
    PROVE  PortsInv'
  <1> DEFINE q == toWorker[s]
             j == slot[s].job
  <1>1. /\ q \in Seq(Request) /\ q # <<>> /\ Len(q) \in Nat \ {0} /\ Head(q) = q[1]
        /\ slot[s] \in Slot /\ worker[s] \in Worker
    BY HeadTailProperties, LenProperties, EmptySeq DEF WorkerStarts, TypeOK
  <1>2. phase = "up" /\ phase' = "up" /\ Held(s) /\ Waiting(s) /\ j \in Jobs
    <2>1. phase = "up" /\ phase' = "up" /\ Head(q).type = "start"
      BY UpOrDown DEF WorkerStarts
    <2>2. ~Unborn(s) /\ ~Booted(s) /\ ~Dead(s)
      BY <1>1 DEF Unborn, Booted, Dead
    <2>3. ~Resting(s)
      BY <1>1, <2>1 DEF Resting
    <2>4. ~OnlyCancels(q)
      BY <1>1, <2>1, CancelsTail
    <2>5. Held(s) /\ Waiting(s)
      BY <2>1, <2>2, <2>3, <2>4, UpOrDown DEF Held, Working, Reported
    <2> QED
      BY <1>1, <2>1, <2>5 DEF Held, Slot, JobOrNone
  <1>3. Head(q) = Start(j) /\ OnlyCancels(Tail(q))
    <2>1. Head(q).type # "cancel"
      BY DEF WorkerStarts
    <2> QED
      BY <1>1, <1>2, <2>1, AsksTail DEF Waiting
  <1>4. /\ worker'[s].current = j /\ ~worker'[s].aborted /\ ~worker'[s].retiring
        /\ toWorker'[s] = Tail(q) /\ toMain'[s] = toMain[s] /\ slot' = slot
    <2>1. Head(q).job = j /\ ~worker[s].retiring
      BY <1>3, UpOrDown DEF Start, Port
    <2> QED
      BY <1>1, <2>1 DEF WorkerStarts, TypeOK, Worker
  <1>5. Port(s)'
    <2>1. Held(s)'
      BY <1>2, <1>3, <1>4 DEF Held, Waiting, Working
    <2> QED
      BY <1>2, <1>4, <2>1 DEF Port
  <1>6. \A t \in Slots \ {s} : SameSlot(t)
    BY DEF WorkerStarts, TypeOK, SameSlot
  <1>7. ASSUME NEW k \in Jobs, Owes(s, k)
        PROVE  Owes(s, k)'
    <2>1. k = j /\ toMain[s] = <<>> /\ KeptGoing(q, j)
      BY <1>2, <1>7 DEF Owes, Waiting, Undisturbed
    <2>2. NoCancelOf(Tail(q), j) /\ KeptGoing(Tail(q), j)
      BY <1>1, <1>3, <2>1, CancelsTail
    <2> QED
      BY <1>4, <2>1, <2>2 DEF Owes, Undisturbed
  <1>8. Spoken(s) => Spoken(s)'
    BY <1>4 DEF Spoken
  <1> QED
    BY <1>4, <1>5, <1>6, <1>7, <1>8, PortsStep DEF WorkerStarts

(* A worker takes a cancellation, of its own job or of a past one.         *)
LEMMA PortsAborts ==
    ASSUME TypeOK, PortsInv, NEW s \in Slots, WorkerAborts(s)
    PROVE  PortsInv'
  <1> DEFINE q == toWorker[s]
             j == slot[s].job
  <1>1. /\ q \in Seq(Request) /\ q # <<>> /\ Len(q) \in Nat \ {0} /\ Head(q) = q[1]
        /\ Tail(q) \in Seq(Request) /\ Len(Tail(q)) = Len(q) - 1
        /\ \A i \in 1 .. Len(q) - 1 : Tail(q)[i] = q[i + 1] /\ i + 1 \in 1 .. Len(q)
        /\ slot[s] \in Slot /\ worker[s] \in Worker
    BY HeadTailProperties, LenProperties, EmptySeq DEF WorkerAborts, TypeOK
  <1>2. phase = "up" /\ phase' = "up" /\ (Resting(s) \/ Held(s)) /\ Head(q).type = "cancel"
    <2>1. phase = "up" /\ phase' = "up" /\ Head(q).type = "cancel"
      BY UpOrDown DEF WorkerAborts
    <2>2. ~Unborn(s) /\ ~Booted(s) /\ ~Dead(s)
      BY <1>1 DEF Unborn, Booted, Dead
    <2> QED
      BY <2>1, <2>2, UpOrDown
  <1>3. /\ worker'[s].current = worker[s].current /\ ~worker'[s].retiring
        /\ worker'[s].aborted = (worker[s].aborted \/ worker[s].current = Head(q).job)
        /\ toWorker'[s] = Tail(q) /\ toMain'[s] = toMain[s] /\ slot' = slot
    <2>1. ~worker[s].retiring
      BY UpOrDown DEF Port
    <2> QED
      BY <1>1, <2>1 DEF WorkerAborts, TypeOK, Worker
  <1>4. Port(s)'
    <2>1. CASE Resting(s)
      <3>1. Resting(s)'
        BY <1>1, <1>3, <2>1 DEF Resting, OnlyCancels
      <3> QED
        BY <1>2, <1>3, <3>1 DEF Port
    <2>2. CASE Held(s)
      <3>1. j \in Jobs
        BY <1>1, <2>2 DEF Held, Slot, JobOrNone
      <3>2. Asks(q, j) => Asks(Tail(q), j)
        <4>1. Head(q) # Start(j)
          BY <1>2 DEF Start
        <4> QED
          BY <1>1, <3>1, <4>1, AsksTail
      <3>3. OnlyCancels(q) => OnlyCancels(Tail(q))
        BY <1>1, CancelsTail
      <3>4. Held(s)'
        BY <1>3, <2>2, <3>2, <3>3 DEF Held, Waiting, Working, Reported
      <3> QED
        BY <1>2, <1>3, <3>4 DEF Port
    <2> QED
      BY <1>2, <2>1, <2>2
  <1>5. \A t \in Slots \ {s} : SameSlot(t)
    BY DEF WorkerAborts, TypeOK, SameSlot
  <1>6. ASSUME NEW k \in Jobs, Owes(s, k)
        PROVE  Owes(s, k)'
    <2>1. CASE toMain[s] # <<>>
      BY <1>3, <1>6, <2>1 DEF Owes
    <2>2. CASE toMain[s] = <<>>
      <3>1. KeptGoing(Tail(q), k) /\ (NoCancelOf(q, k) => NoCancelOf(Tail(q), k))
        BY <1>1, <1>6, <2>2, CancelsTail DEF Owes, Undisturbed
      <3>2. worker[s].current = k => Head(q) # CancelRequest(k)
        BY <1>1, <1>6, <2>2, CancelsTail DEF Owes, Undisturbed
      <3>3. Head(q).job = k => Head(q) = CancelRequest(k)
        <4>1. Head(q) \in Request
          BY <1>1
        <4> QED
          BY <1>2, <4>1 DEF CancelRequest, Request
      <3> QED
        BY <1>3, <1>6, <2>2, <3>1, <3>2, <3>3 DEF Owes, Undisturbed
    <2> QED
      BY <2>1, <2>2
  <1>7. Spoken(s) => Spoken(s)'
    BY <1>3 DEF Spoken
  <1> QED
    BY <1>3, <1>4, <1>5, <1>6, <1>7, PortsStep DEF WorkerAborts

(* The slot of a death, and the others.                                    *)
LEMMA DiesKills ==
    ASSUME TypeOK, NEW s \in Slots, NEW q, Dies(s, q)
    PROVE  /\ Killed(s, q)
           /\ \A t \in Slots \ {s} : SameSlot(t)
  BY DEF Dies, Killed, TypeOK, Slot, SameSlot

(* A death of a process, and what it had posted when it died.              *)
LEMMA PortsKilled ==
    ASSUME TypeOK, PortsInv, NEW s \in Slots, slot[s].proc \in {"booting", "up"},
           NEW q \in Seq(Response), Killed(s, q), phase' = phase, rows' = rows,
           \A t \in Slots \ {s} : SameSlot(t),
           used'.retries = 0 => used.retries = 0, used'.unrecorded = 0 => used.unrecorded = 0,
           \/ q = toMain[s]
           \/ /\ slot[s].job \in Jobs /\ Held(s)
              /\ q = <<Error(slot[s].job, FALSE)>>
    PROVE  PortsInv'
  <1>1. phase = "up" /\ ~Dead(s)
    BY UpOrDown DEF Dead
  <1>2. \/ slot[s].job = None /\ q = <<>>
        \/ slot[s].job = None /\ ~slot[s].ready /\ q = <<Ready>>
        \/ /\ slot[s].job # None /\ slot[s].ready
           /\ \/ q = <<>>
              \/ q \in Reports(slot[s].job)
              \/ \E o \in Outcomes(slot[s].job) : q = <<o>>
    <2>1. CASE q = toMain[s]
      BY <1>1, <2>1, UpOrDown DEF Unborn, Booted, Resting, Held, Waiting, Working, Reported
    <2>2. CASE Held(s) /\ q = <<Error(slot[s].job, FALSE)>>
      BY <2>2 DEF Held, Outcomes
    <2> QED
      BY <2>1, <2>2
  <1>3. Port(s)'
    BY <1>1, <1>2, PortKilled
  <1>4. ASSUME NEW k \in Jobs, Owes(s, k)
        PROVE  Owes(s, k)'
    <2>1. CASE q = toMain[s]
      BY <1>4, <2>1, OwesKilled
    <2>2. CASE q = <<Error(slot[s].job, FALSE)>>
      <3>1. q # <<>> /\ Head(q) = Error(k, FALSE)
        BY <1>4, <2>2 DEF Owes
      <3> QED
        BY <1>4, <3>1, OwesKilled
    <2> QED
      BY <2>1, <2>2
  <1>5. slot'[s].job = slot[s].job /\ Spoken(s)'
    BY DEF Killed, Spoken
  <1> QED
    BY <1>3, <1>4, <1>5, PortsStep

(* A worker asked to shut down leaves.                                     *)
LEMMA PortsShutsDown ==
    ASSUME TypeOK, PortsInv, NEW s \in Slots, WorkerShutsDown(s)
    PROVE  PortsInv'
  <1> DEFINE q == toWorker[s]
  <1>1. /\ q \in Seq(Request) /\ q # <<>> /\ Head(q).type = "shutdown"
        /\ slot[s].proc = "up" /\ slot[s] \in Slot /\ toMain[s] \in Seq(Response)
    BY DEF WorkerShutsDown, TypeOK
  <1>2. worker[s].current = None
    <2>1. ~OnlyCancels(q)
      BY <1>1, CancelsTail
    <2> QED
      BY <1>1, <2>1, UpOrDown
         DEF Unborn, Booted, Resting, Held, Waiting, Working, Reported, Dead
  <1>3. Dies(s, toMain[s]) /\ phase' = phase /\ rows' = rows /\ used' = used
    BY <1>2 DEF WorkerShutsDown
  <1> QED
    BY <1>1, <1>3, DiesKills, PortsKilled

(* A process with a job in hand has posted nothing yet.                    *)
LEMMA InHand ==
    ASSUME TypeOK, PortsInv, NEW s \in Slots, slot[s].proc = "up", worker[s].current # None
    PROVE  /\ phase = "up" /\ Held(s) /\ Working(s)
           /\ worker[s].current = slot[s].job /\ slot[s].job \in Jobs
           /\ toMain[s] = <<>> /\ ~worker[s].retiring
  <1>1. phase = "up" /\ ~Unborn(s) /\ ~Booted(s) /\ ~Resting(s) /\ ~Dead(s)
    BY UpOrDown DEF Unborn, Booted, Resting, Dead
  <1>2. Held(s) /\ Working(s)
    BY <1>1, UpOrDown DEF Held, Waiting, Reported
  <1> QED
    BY <1>1, <1>2, UpOrDown DEF Held, Working, Port, TypeOK, Slot, JobOrNone

(* The end of a job: a report, or nothing but the idle.                    *)
LEMMA PortsEnds ==
    ASSUME TypeOK, PortsInv, NEW s \in Slots, NEW report, Ends(s, report),
           report \in Reports(worker[s].current), used'.retries = used.retries,
           used'.unrecorded = 0 =>
               /\ used.unrecorded = 0
               /\ Head(report) \in {Done(worker[s].current),
                                    Error(worker[s].current, worker[s].aborted)}
    PROVE  PortsInv'
  <1>1. /\ phase = "up" /\ phase' = phase /\ rows' = rows
        /\ Held(s) /\ Working(s) /\ toMain[s] = <<>>
        /\ worker[s].current = slot[s].job /\ slot[s].job \in Jobs /\ ~worker[s].retiring
    BY InHand DEF Ends
  <1>2. report \in Seq(Response) /\ report # <<>>
    BY <1>1, ReportForms
  <1>3. <<>> \o report = report
    BY <1>2
  <1>4. /\ slot' = slot /\ toWorker' = toWorker /\ toMain'[s] = report
        /\ worker'[s].current = None /\ ~worker'[s].retiring
        /\ \A t \in Slots \ {s} : SameSlot(t)
    BY <1>1, <1>3 DEF Ends, TypeOK, Worker, SameSlot
  <1>5. Port(s)'
    <2>1. Held(s)'
      BY <1>1, <1>4 DEF Held, Working, Reported
    <2> QED
      BY <1>1, <1>4, <2>1 DEF Port
  <1>6. ASSUME NEW k \in Jobs, used'.unrecorded = 0, Owes(s, k)
        PROVE  Owes(s, k)'
    <2>1. k = worker[s].current /\ ~worker[s].aborted
      BY <1>1, <1>6 DEF Owes, Undisturbed
    <2>2. worker[s].aborted = FALSE
      BY <2>1 DEF TypeOK, Worker
    <2> QED
      BY <1>1, <1>2, <1>4, <1>6, <2>1, <2>2 DEF Owes
  <1>7. ~Spoken(s)
    BY <1>1 DEF Spoken, Held
  <1> QED
    BY <1>1, <1>4, <1>5, <1>6, <1>7, PortsStep

(* A worker reports the end of its job.                                    *)
LEMMA PortsFinishes ==
    ASSUME TypeOK, PortsInv, NEW s \in Slots, NEW ok \in BOOLEAN, WorkerFinishes(s, ok)
    PROVE  PortsInv'
  <1> DEFINE j == worker[s].current
             outcome == IF ok THEN Done(j) ELSE Error(j, worker[s].aborted)
  <1>1. Ends(s, <<outcome, Idle>>) /\ used' = used /\ worker[s] \in Worker
    BY DEF WorkerFinishes, TypeOK
  <1>2. outcome \in {Done(j), Error(j, worker[s].aborted)} /\ outcome \in Outcomes(j)
    BY <1>1 DEF Worker, Outcomes
  <1> HIDE DEF outcome
  <1>3. <<outcome, Idle>> \in Reports(j) /\ Head(<<outcome, Idle>>) = outcome
    BY <1>2 DEF Reports
  <1> QED
    BY <1>1, <1>2, <1>3, PortsEnds

(* A worker ends a job it has nobody to tell about.                        *)
LEMMA PortsUnheard ==
    ASSUME TypeOK, PortsInv, NEW s \in Slots, WorkerFinishesUnheard(s)
    PROVE  PortsInv'
  <1>1. <<Idle>> \in Reports(worker[s].current)
    BY DEF Reports
  <1>2. used'.unrecorded # 0 /\ used'.retries = used.retries
    BY DEF WorkerFinishesUnheard, Unrecorded, TypeOK, Bounds
  <1> QED
    BY <1>1, <1>2, PortsEnds DEF WorkerFinishesUnheard

(* A worker throws, and leaves what it had said in the queue.              *)
LEMMA PortsThrows ==
    ASSUME TypeOK, PortsInv, NEW s \in Slots, WorkerThrows(s)
    PROVE  PortsInv'
  <1> DEFINE j == slot[s].job
  <1>1. /\ slot[s].proc = "up" /\ phase' = phase /\ rows' = rows
        /\ Dies(s, Append(toMain[s], Error(worker[s].current, FALSE)))
        /\ used'.retries = used.retries /\ used'.unrecorded = used.unrecorded
    BY DEF WorkerThrows, TypeOK, Bounds
  <1>2. Held(s) /\ worker[s].current = j /\ j \in Jobs /\ toMain[s] = <<>>
    BY <1>1, InHand DEF WorkerThrows
  <1>3. /\ Append(<<>>, Error(j, FALSE)) = <<Error(j, FALSE)>>
        /\ <<Error(j, FALSE)>> \in Seq(Response)
    <2>1. Error(j, FALSE) \in Response
      BY <1>2, MessageTypes
    <2>2. \A o \in Response : Append(<<>>, o) = <<o>> /\ <<o>> \in Seq(Response)
      OBVIOUS
    <2> QED
      BY <2>1, <2>2
  <1>4. Dies(s, <<Error(j, FALSE)>>)
    BY <1>1, <1>2, <1>3
  <1> QED
    BY <1>1, <1>2, <1>3, <1>4, DiesKills, PortsKilled

(* A worker dies at any point.                                             *)
LEMMA PortsCrashes ==
    ASSUME TypeOK, PortsInv, NEW s \in Slots, WorkerCrashes(s)
    PROVE  PortsInv'
  <1>1. /\ slot[s].proc \in {"booting", "up"} /\ phase' = phase /\ rows' = rows
        /\ Dies(s, toMain[s]) /\ toMain[s] \in Seq(Response)
        /\ used'.retries = used.retries /\ used'.unrecorded = used.unrecorded
    BY DEF WorkerCrashes, TypeOK, Bounds
  <1> QED
    BY <1>1, DiesKills, PortsKilled

(* The kill timer ends a process that did not wind down.                   *)
LEMMA PortsKillTimer ==
    ASSUME TypeOK, PortsInv, NEW s \in Slots, KillTimerFires(s)
    PROVE  PortsInv'
  <1>1. phase' = phase /\ rows' = rows /\ used' = used /\ toMain[s] \in Seq(Response)
    BY DEF KillTimerFires, TypeOK
  <1>2. CASE Kills(s) /\ slot[s].proc \in {"booting", "up"}
    <2>1. Killed(s, toMain[s]) /\ \A t \in Slots \ {s} : SameSlot(t)
      BY <1>2 DEF KillTimerFires, Killed, TypeOK, Slot, SameSlot
    <2> QED
      BY <1>1, <1>2, <2>1, PortsKilled
  <1>3. CASE ~(Kills(s) /\ slot[s].proc \in {"booting", "up"})
    <2>1. /\ slot'[s] = [slot[s] EXCEPT !.kill = None]
          /\ worker' = worker /\ toWorker' = toWorker /\ toMain' = toMain
          /\ \A t \in Slots \ {s} : SameSlot(t)
      BY <1>3 DEF KillTimerFires, TypeOK, SameSlot
    <2>2. /\ slot'[s].proc = slot[s].proc /\ slot'[s].ready = slot[s].ready
          /\ slot'[s].job = slot[s].job /\ slot'[s].retiring = slot[s].retiring
      BY <2>1 DEF TypeOK, Slot
    <2>3. Port(s)'
      BY <1>1, <2>1, <2>2, UpOrDown
         DEF Port, Unborn, Booted, Resting, Held, Waiting, Working, Reported, Dead
    <2>4. \A k \in Jobs : Owes(s, k) => Owes(s, k)'
      BY <2>1, <2>2, OwesFrame
    <2>5. Spoken(s) => Spoken(s)'
      BY <2>1, <2>2 DEF Spoken
    <2> QED
      BY <1>1, <2>1, <2>2, <2>3, <2>4, <2>5, PortsStep
  <1> QED
    BY <1>2, <1>3
-----------------------------------------------------------------------------
(* What main does with what it receives.                                   *)

(* Once the pool is stopped, what a slot still says changes nothing.       *)
LEMMA PortsStopping ==
    ASSUME PortsInv, phase = "stopping", phase' = phase,
           worker' = worker, toWorker' = toWorker,
           \A t \in Slots : slot'[t].proc = slot[t].proc
    PROVE  PortsInv'
  <1>1. \A t \in Slots : Port(t)'
    BY DEF PortsInv, Port
  <1> QED
    BY <1>1 DEF PortsInv, Watched, OneHolder

(* A message comes from a process that has just come up, or that has a job *)
(* to report, dead or not.                                                 *)
Greets(s) == slot[s].job = None /\ toMain[s] = <<Ready>> /\ (Booted(s) \/ Dead(s))

Tells(s) ==
    /\ slot[s].job \in Jobs
    /\ \/ Held(s) /\ toMain[s] \in Reports(slot[s].job) /\ OnlyCancels(toWorker[s])
       \/ Dead(s) /\ toMain[s] \in Reports(slot[s].job)
       \/ Dead(s) /\ \E o \in Outcomes(slot[s].job) : toMain[s] = <<o>>

(* Main hears the head of a queue, and nothing else moves.                 *)
LEMMA Received ==
    ASSUME TypeOK, PortsInv, NEW s \in Slots, NEW m, Receives(s, m)
    PROVE  /\ phase' = phase /\ worker' = worker
           /\ toMain'[s] = Tail(toMain[s]) /\ toMain[s] # <<>> /\ Head(toMain[s]) = m
           /\ \A t \in Slots \ {s} : toMain'[t] = toMain[t]
           /\ phase = "up" => Greets(s) \/ Tells(s)
           /\ phase # "up" => phase = "stopping"
  <1>1. /\ phase' = phase /\ worker' = worker
        /\ toMain'[s] = Tail(toMain[s]) /\ toMain[s] # <<>> /\ Head(toMain[s]) = m
        /\ \A t \in Slots \ {s} : toMain'[t] = toMain[t]
        /\ phase # "up" => phase = "stopping"
    BY DEF Receives, TypeOK
  <1>2. slot[s].job \in Jobs \/ slot[s].job = None
    BY DEF TypeOK, Slot, JobOrNone
  <1>3. phase = "up" => Greets(s) \/ Tells(s)
    BY <1>1, <1>2, UpOrDown
       DEF Greets, Tells, Unborn, Booted, Resting, Held, Waiting, Working, Reported, Dead
  <1> QED
    BY <1>1, <1>3

(* An outcome says of which job it is, and how it ended.                   *)
LEMMA OutcomeOf ==
    ASSUME NEW j \in Jobs, NEW k \in Jobs, NEW a \in BOOLEAN
    PROVE  /\ Done(j) \in Outcomes(k) => j = k
           /\ Error(j, a) \in Outcomes(k) => j = k
           /\ Error(j, TRUE) \notin {Done(k), Error(k, FALSE)}
           /\ Done(j) # Idle /\ Done(j) # Ready /\ Error(j, a) # Idle /\ Error(j, a) # Ready
  <1>1. /\ Done(j).job = j /\ Done(k).job = k /\ Error(j, a).job = j
        /\ \A b \in BOOLEAN : Error(k, b).job = k
    BY DEF Done, Error
  <1>2. /\ Done(j).type = "done" /\ Done(k).type = "done" /\ Error(j, a).type = "error"
        /\ Error(j, TRUE).type = "error" /\ Error(j, TRUE).aborted = TRUE
        /\ Error(k, FALSE).aborted = FALSE /\ Idle.type = "idle" /\ Ready.type = "ready"
    BY DEF Done, Error, Idle, Ready
  <1>3. \A x \in Outcomes(k) : x.job = k
    BY <1>1 DEF Outcomes
  <1>4. Error(j, TRUE) # Done(k) /\ Error(j, TRUE) # Error(k, FALSE)
    BY <1>2
  <1>5. Done(j) # Idle /\ Done(j) # Ready /\ Error(j, a) # Idle /\ Error(j, a) # Ready
    BY <1>2
  <1> QED
    BY <1>1, <1>3, <1>4, <1>5

(* Main hears that a worker is ready.                                      *)
LEMMA PortsReady ==
    ASSUME TypeOK, PortsInv, NEW s \in Slots, ReceiveReady(s)
    PROVE  PortsInv'
  <1>1. /\ Receives(s, Ready) /\ rows' = rows /\ toWorker' = toWorker /\ used' = used
        /\ slot'[s].ready = TRUE /\ slot'[s].proc = slot[s].proc
        /\ slot'[s].job = slot[s].job /\ slot'[s].retiring = slot[s].retiring
        /\ \A t \in Slots \ {s} : slot'[t] = slot[t]
    BY DEF ReceiveReady, TypeOK, Slot
  <1>2. /\ phase' = phase /\ worker' = worker /\ toMain'[s] = Tail(toMain[s])
        /\ Head(toMain[s]) = Ready /\ \A t \in Slots \ {s} : SameSlot(t)
        /\ phase = "up" => Greets(s) \/ Tells(s)
        /\ phase # "up" => phase = "stopping"
    BY <1>1, Received DEF SameSlot
  <1>3. CASE phase = "stopping"
    <2>1. \A t \in Slots : slot'[t].proc = slot[t].proc
      BY <1>1
    <2> QED
      BY <1>1, <1>2, <1>3, <2>1, PortsStopping
  <1>4. CASE phase = "up"
    <2>1. ~Tells(s)
      BY <1>2, ReportForms DEF Tells
    <2>2. Greets(s) /\ Tail(<<Ready>>) = <<>>
      BY <1>2, <1>4, <2>1, ReportForms
    <2>3. toMain'[s] = <<>> /\ slot'[s].job = None
      BY <1>1, <1>2, <2>2 DEF Greets
    <2>4. Resting(s)' \/ Dead(s)'
      <3>1. CASE Booted(s)
        <4>1. OnlyCancels(toWorker'[s]) /\ toWorker'[s] = <<>>
          BY <1>1, <3>1 DEF Booted, OnlyCancels
        <4> QED
          BY <1>1, <1>2, <2>3, <3>1, <4>1 DEF Booted, Resting
      <3>2. CASE Dead(s)
        BY <1>1, <1>2, <2>3, <3>2 DEF Dead
      <3> QED
        BY <2>2, <3>1, <3>2 DEF Greets
    <2>5. Port(s)'
      BY <1>2, <1>4, <2>4, UpOrDown DEF Port
    <2>6. \A k \in Jobs : ~Owes(s, k)
      BY <1>1, <2>3, NoneAssumption DEF Owes
    <2> QED
      BY <1>1, <1>2, <2>3, <2>5, <2>6, PortsStep
  <1> QED
    BY <1>2, <1>3, <1>4

(* A queue without a start has none after the shutdown is added.           *)
LEMMA ShutdownAppended ==
    ASSUME NEW q \in Seq(Request), OnlyCancels(q)
    PROVE  \A i \in 1 .. Len(Append(q, Shutdown)) : Append(q, Shutdown)[i].type # "start"
  <1>1. /\ Len(q) \in Nat /\ Len(Append(q, Shutdown)) = Len(q) + 1
        /\ Append(q, Shutdown)[Len(q) + 1] = Shutdown
        /\ \A i \in 1 .. Len(q) : Append(q, Shutdown)[i] = q[i]
        /\ \A i \in 1 .. Len(q) + 1 : i \in 1 .. Len(q) \/ i = Len(q) + 1
    BY MessageTypes, AppendProperties, LenProperties
  <1>2. Shutdown.type = "shutdown"
    BY DEF Shutdown
  <1> QED
    BY <1>1, <1>2 DEF OnlyCancels

(* The head and the tail of a queue of one.                                *)
LEMMA HeadsOfOne ==
    ASSUME NEW m
    PROVE  Head(<<m>>) = m /\ Tail(<<m>>) = <<>> /\ <<m>> # <<>>
  OBVIOUS

(* After the outcome, main waits for the idle or for the exit.             *)
LEMMA PortTold ==
    ASSUME TypeOK, PortsInv, NEW s \in Slots, NEW m, Receives(s, m), phase = "up",
           m # Idle, m # Ready, slot' = slot, toWorker' = toWorker
    PROVE  /\ Port(s)' /\ Spoken(s)' /\ (Spoken(s) => slot[s].proc = "dead")
           /\ slot[s].job \in Jobs /\ m \in Outcomes(slot[s].job)
           /\ \A t \in Slots \ {s} : SameSlot(t)
  <1> DEFINE j == slot[s].job
  <1>1. /\ phase' = phase /\ worker' = worker /\ toMain'[s] = Tail(toMain[s])
        /\ Head(toMain[s]) = m /\ (Greets(s) \/ Tells(s))
        /\ \A t \in Slots \ {s} : SameSlot(t)
    BY Received DEF SameSlot
  <1> DEFINE q == toMain[s]
  <1>8. /\ Head(<<Ready>>) = Ready /\ Head(<<Idle>>) = Idle
        /\ <<Idle>> \in Reports(slot[s].job)
    BY HeadsOfOne DEF Reports
  <1>9. ASSUME slot[s].job \in Jobs, q \in Reports(slot[s].job)
        PROVE  m \in Outcomes(slot[s].job) /\ Tail(q) = <<Idle>>
    <2>1. Head(q) = m /\ q # <<Idle>>
      BY <1>1, <1>8
    <2> HIDE DEF q
    <2> QED
      BY <1>9, <2>1, ReportForms
  <1>10. ASSUME NEW o \in Outcomes(slot[s].job), slot[s].job \in Jobs, q = <<o>>
        PROVE  m = o /\ Tail(q) = <<>>
    <2>1. Head(q) = m
      BY <1>1
    <2> HIDE DEF q
    <2> QED
      BY <1>10, <2>1, ReportForms
  <1>2. ~Greets(s)
    BY <1>1, <1>8 DEF Greets
  <1>3. Tells(s) /\ j \in Jobs
    BY <1>1, <1>2 DEF Tells
  <1>4. toMain[s] # <<Idle>>
    BY <1>1, <1>8
  <1>5. CASE Held(s) /\ toMain[s] \in Reports(j) /\ OnlyCancels(toWorker[s])
    <2>1. m \in Outcomes(j) /\ toMain'[s] = <<Idle>> /\ <<Idle>> \in Reports(j)
      BY <1>1, <1>3, <1>5, <1>8, <1>9
    <2>2. worker[s].current = None
      <3>1. toMain[s] # <<>>
        BY <1>3, <1>5, ReportForms
      <3> QED
        BY <1>5, <3>1 DEF Held, Waiting, Working, Reported
    <2>3. Held(s)'
      BY <1>1, <1>3, <1>5, <2>1, <2>2 DEF Held, Reported
    <2> QED
      BY <1>1, <1>3, <1>4, <1>5, <2>1, <2>3, UpOrDown DEF Port, Spoken
  <1>6. CASE Dead(s) /\ toMain[s] \in Reports(j)
    <2>1. m \in Outcomes(j) /\ toMain'[s] = <<Idle>> /\ <<Idle>> \in Reports(j)
      BY <1>1, <1>3, <1>6, <1>8, <1>9
    <2>2. Dead(s)'
      BY <1>1, <1>3, <1>6, <2>1, NoneAssumption DEF Dead
    <2> QED
      BY <1>1, <1>3, <1>6, <2>1, <2>2, UpOrDown DEF Port, Spoken, Dead
  <1>7. CASE Dead(s) /\ \E o \in Outcomes(j) : toMain[s] = <<o>>
    <2>1. m \in Outcomes(j) /\ toMain'[s] = <<>>
      BY <1>1, <1>3, <1>7, <1>10
    <2>2. Dead(s)'
      BY <1>1, <1>3, <1>7, <2>1, NoneAssumption DEF Dead
    <2> QED
      BY <1>1, <1>3, <1>7, <2>1, <2>2, UpOrDown DEF Port, Spoken, Dead
  <1> QED
    BY <1>3, <1>5, <1>6, <1>7 DEF Tells

(* The row of the job that has just been told is settled, or left because  *)
(* its report is suppressed or could not be recorded; the slot holds it until the idle or the exit.               *)
LEMMA PortsTold ==
    ASSUME TypeOK, PortsInv, NEW s \in Slots, NEW m, Receives(s, m), phase = "up",
           m # Idle, m # Ready, slot' = slot, toWorker' = toWorker, Counted,
           \/ /\ rows' = rows
              /\ \/ rows[slot[s].job].status # "running"
                 \/ ~Owes(s, slot[s].job)
                 \/ used'.unrecorded # 0
           \/ \E r \in Row :
                 /\ rows' = [rows EXCEPT ![slot[s].job] = r]
                 /\ r.status \in {"succeeded", "failed"} \/ (r.status = "queued" /\ ~r.due)
    PROVE  PortsInv'
  <1> DEFINE j == slot[s].job
  <1>1. /\ Port(s)' /\ Spoken(s)' /\ (Spoken(s) => slot[s].proc = "dead")
        /\ j \in Jobs /\ m \in Outcomes(j)
        /\ \A t \in Slots \ {s} : SameSlot(t)
    BY PortTold
  <1>2. /\ phase' = phase /\ used'.retries = used.retries
        /\ used' = used \/ used'.unrecorded # 0
    BY Received DEF Counted
  <1>3. \A t \in Slots : Port(t)'
    BY <1>1, <1>2, PortsLocal DEF PortsInv
  <1>4. \A k \in Jobs :
            rows'[k].status = "running" =>
                /\ rows[k].status = "running"
                /\ k = j => ~Owes(s, j) \/ used'.unrecorded # 0
    <2>1. CASE rows' = rows /\ (\/ rows[j].status # "running" \/ ~Owes(s, j)
                                \/ used'.unrecorded # 0)
      BY <1>1, <2>1
    <2>2. ASSUME NEW r \in Row, rows' = [rows EXCEPT ![j] = r],
                 r.status \in {"succeeded", "failed"} \/ (r.status = "queued" /\ ~r.due)
          PROVE  \A k \in Jobs : rows'[k].status = "running" =>
                          rows[k].status = "running" /\ k # j
      BY <1>1, <2>2 DEF TypeOK
    <2> QED
      BY <2>1, <2>2
  <1>5. Watched'
    <2>1. \A k \in Jobs : rows'[k].status = "running" =>
                             ~Owes(s, k) \/ used'.unrecorded # 0
      BY <1>4 DEF Owes
    <2> QED
      BY <1>1, <1>2, <1>4, <2>1, WatchedKept DEF PortsInv
  <1>6. OneHolder'
    <2>1. CASE rows' = rows
      BY <1>1, <1>2, <2>1, HoldersKept DEF PortsInv
    <2>2. ASSUME NEW r \in Row, rows' = [rows EXCEPT ![j] = r],
                 r.status \in {"succeeded", "failed"} \/ (r.status = "queued" /\ ~r.due)
          PROVE  OneHolder'
      <3> SUFFICES ASSUME used.retries = 0, NEW k \in Jobs
                   PROVE  /\ \A t, u \in Slots : slot[t].job = k /\ slot[u].job = k => t = u
                          /\ rows'[k].status = "queued" \/ rows'[k].status = "absent" =>
                               \A t \in Slots :
                                   slot[t].job = k =>
                                       rows'[k].status = "queued" /\ ~rows'[k].due /\ Spoken(t)'
        BY <1>2 DEF OneHolder
      <3>1. \A t, u \in Slots : slot[t].job = k /\ slot[u].job = k => t = u
        BY <1>2 DEF PortsInv, OneHolder
      <3>2. CASE k = j
        <4>1. rows'[k] = r
          BY <1>1, <2>2, <3>2 DEF TypeOK
        <4> QED
          BY <1>1, <2>2, <3>1, <3>2, <4>1
      <3>3. CASE k # j
        <4>1. rows'[k] = rows[k]
          BY <2>2, <3>3 DEF TypeOK
        <4>2. \A t \in Slots : slot[t].job = k => t # s /\ (Spoken(t) => Spoken(t)')
          BY <1>1, <3>3 DEF SameSlot, Spoken
        <4> QED
          BY <1>2, <3>1, <4>1, <4>2 DEF PortsInv, OneHolder
      <3> QED
        BY <3>2, <3>3
    <2> QED
      BY <2>1, <2>2
  <1> QED
    BY <1>3, <1>5, <1>6 DEF PortsInv

(* The statuses a row can be given.                                        *)
LEMMA RowEnds ==
    ASSUME NEW r \in Row
    PROVE  /\ Succeeded(r) \in Row /\ Succeeded(r).status = "succeeded"
           /\ Failed(r) \in Row
           /\ \/ Failed(r).status = "failed"
              \/ Failed(r).status = "queued" /\ ~Failed(r).due
           /\ Cancelled(r).status = "cancelled" /\ Claimed(r).status = "running"
           /\ Requeued(r).status = "queued" /\ Retried(r).status = "queued"
  BY RowWrites, RowEffects DEF Failed, Requeued, Retried, Row

(* Main hears that a job is done, and settles its row.                     *)
LEMMA PortsDone ==
    ASSUME TypeOK, PortsInv, NEW s \in Slots, ReceiveDone(s)
    PROVE  PortsInv'
  <1> PICK j \in Jobs : /\ Receives(s, Done(j))
                        /\ IF j = slot[s].job THEN Settle(j, Succeeded(rows[j]))
                           ELSE UNCHANGED <<rows, running, cancelled, used>>
                        /\ UNCHANGED <<slot, toWorker>>
    BY DEF ReceiveDone
  <1>1. Done(j) # Idle /\ Done(j) # Ready
    BY OutcomeOf
  <1>2. CASE phase = "up"
    <2>1. slot[s].job \in Jobs /\ j = slot[s].job
      BY <1>1, <1>2, PortTold, OutcomeOf
    <2>2. /\ Succeeded(rows[j]) \in Row /\ Succeeded(rows[j]).status = "succeeded"
          /\ Counted
          /\ \/ rows' = [rows EXCEPT ![slot[s].job] = Succeeded(rows[j])]
             \/ rows' = rows /\ used'.unrecorded # 0
      <3>1. Succeeded(rows[j]) \in Row /\ Succeeded(rows[j]).status = "succeeded"
        BY RowEnds DEF TypeOK
      <3> QED
        BY <2>1, <3>1, TypeSettle
    <2> QED
      BY <1>1, <1>2, <2>2, PortsTold
  <1>3. CASE phase # "up"
    BY <1>3, Received, PortsStopping
  <1> QED
    BY <1>2, <1>3

(* Main hears that a job failed: a suppressed error settles nothing, for   *)
(* its row was settled when it was cancelled.                              *)
LEMMA PortsError ==
    ASSUME TypeOK, PortsInv, SuppressionMatchesRow, NEW s \in Slots, ReceiveError(s)
    PROVE  PortsInv'
  <1> PICK j \in Jobs, aborted \in BOOLEAN :
          /\ Receives(s, Error(j, aborted))
          /\ IF j # slot[s].job THEN UNCHANGED <<rows, running, cancelled, used>>
             ELSE IF aborted \/ j \in cancelled THEN Suppress(j) ELSE Settle(j, Failed(rows[j]))
          /\ UNCHANGED <<slot, toWorker>>
    BY DEF ReceiveError
  <1>1. Error(j, aborted) # Idle /\ Error(j, aborted) # Ready
    BY OutcomeOf
  <1>2. CASE phase = "up"
    <2>1. slot[s].job \in Jobs /\ j = slot[s].job
      BY <1>1, <1>2, PortTold, OutcomeOf
    <2>2. CASE aborted \/ j \in cancelled
      <3>1. rows' = rows /\ Counted
        BY <2>1, <2>2 DEF Suppress, Counted, TypeOK
      <3>2. rows[j].status # "running" \/ ~Owes(s, j)
        <4>1. CASE j \in cancelled
          BY <4>1 DEF SuppressionMatchesRow
        <4>2. CASE aborted
          <5>1. toMain[s] # <<>> /\ Head(toMain[s]) = Error(j, TRUE)
            BY <4>2, Received
          <5> QED
            BY <5>1, OutcomeOf DEF Owes
        <4> QED
          BY <2>2, <4>1, <4>2
      <3> QED
        BY <1>1, <1>2, <2>1, <3>1, <3>2, PortsTold
    <2>3. CASE ~(aborted \/ j \in cancelled)
      <3>1. /\ Failed(rows[j]) \in Row
            /\ \/ Failed(rows[j]).status \in {"succeeded", "failed"}
               \/ Failed(rows[j]).status = "queued" /\ ~Failed(rows[j]).due
            /\ Counted
            /\ \/ rows' = [rows EXCEPT ![slot[s].job] = Failed(rows[j])]
               \/ rows' = rows /\ used'.unrecorded # 0
        <4>1. /\ Failed(rows[j]) \in Row
              /\ \/ Failed(rows[j]).status = "failed"
                 \/ Failed(rows[j]).status = "queued" /\ ~Failed(rows[j]).due
          BY RowEnds DEF TypeOK
        <4> QED
          BY <2>1, <2>3, <4>1, TypeSettle
      <3> QED
        BY <1>1, <1>2, <3>1, PortsTold
    <2> QED
      BY <2>2, <2>3
  <1>3. CASE phase # "up"
    BY <1>3, Received, PortsStopping
  <1> QED
    BY <1>2, <1>3

(* Main hears that a worker is free, and frees the slot.                   *)
LEMMA PortsIdle ==
    ASSUME TypeOK, PortsInv, NEW s \in Slots, ReceiveIdle(s)
    PROVE  PortsInv'
  <1> DEFINE j == slot[s].job
             q == toWorker[s]
  <1>1. PICK recycle \in BOOLEAN :
          /\ Receives(s, Idle)
          /\ IF (slot[s].retiring \/ recycle) /\ phase = "up"
             THEN /\ slot' = [slot EXCEPT ![s].job = None, ![s].retiring = TRUE,
                                          ![s].kill = "shutdown"]
                  /\ Post(s, Shutdown)
             ELSE /\ slot' = [slot EXCEPT ![s].job = None, ![s].kill = None]
                  /\ UNCHANGED toWorker
          /\ UNCHANGED <<rows, running, cancelled, used>>
    BY DEF ReceiveIdle
  <1>2. /\ rows' = rows /\ used' = used /\ slot'[s].job = None /\ slot'[s].ready = slot[s].ready
        /\ slot'[s].proc = slot[s].proc /\ \A t \in Slots \ {s} : slot'[t] = slot[t]
        /\ \/ /\ toWorker' = toWorker
              /\ phase = "up" => /\ ~slot[s].retiring
                                 /\ slot'[s].retiring = slot[s].retiring
           \/ phase = "up" /\ Post(s, Shutdown) /\ slot'[s].retiring
        /\ phase # "up" => toWorker' = toWorker
    BY <1>1 DEF TypeOK, Slot
  <1>3. /\ phase' = phase /\ worker' = worker /\ toMain'[s] = Tail(toMain[s])
        /\ Head(toMain[s]) = Idle /\ toMain[s] # <<>>
        /\ \A t \in Slots \ {s} : toMain'[t] = toMain[t]
        /\ phase = "up" => Greets(s) \/ Tells(s)
        /\ phase # "up" => phase = "stopping"
    BY <1>1, Received
  <1>4. CASE phase = "stopping"
    <2>1. \A t \in Slots : slot'[t].proc = slot[t].proc
      BY <1>2
    <2> QED
      BY <1>2, <1>3, <1>4, <2>1, PortsStopping
  <1>5. CASE phase = "up"
    <2>1. ~Greets(s)
      <3>1. Idle # Ready
        BY DEF Idle, Ready
      <3> QED
        BY <1>3, <3>1, HeadsOfOne DEF Greets
    <2>2. Tells(s) /\ j \in Jobs
      BY <1>3, <1>5, <2>1 DEF Tells
    <2>3. \A o \in Outcomes(j) : Idle # o
      BY <2>2, ReportForms
    <2>4. toMain[s] = <<Idle>> /\ toMain'[s] = <<>>
      <3>1. ASSUME NEW o \in Outcomes(j), toMain[s] = <<o>>
            PROVE  FALSE
        BY <1>3, <2>3, <3>1, HeadsOfOne
      <3>2. ASSUME NEW o \in Outcomes(j), toMain[s] = <<o, Idle>>
            PROVE  FALSE
        BY <1>3, <2>3, <3>2
      <3>3. toMain[s] = <<Idle>>
        BY <2>2, <3>1, <3>2 DEF Tells, Reports
      <3> QED
        BY <1>3, <3>3, HeadsOfOne
    <2>5. /\ worker[s].current = None
          /\ \/ Held(s) /\ OnlyCancels(q)
             \/ Dead(s)
      BY <2>2, <2>4, UpOrDown DEF Tells, Held, Waiting, Working, Reported, Dead
    <2>6. \A t \in Slots \ {s} : toWorker'[t] = toWorker[t]
      BY <1>2 DEF Post, TypeOK
    <2>7. Resting(s)' \/ Dead(s)'
      <3>1. CASE Held(s) /\ OnlyCancels(q)
        <4>1. \/ toWorker'[s] = q /\ ~slot'[s].retiring
              \/ toWorker'[s] = Append(q, Shutdown) /\ slot'[s].retiring
          BY <1>2, <1>5, <3>1 DEF Post, Held, TypeOK, Slot
        <4>2. \A i \in 1 .. Len(toWorker'[s]) : toWorker'[s][i].type # "start"
          BY <3>1, <4>1, ShutdownAppended DEF OnlyCancels, TypeOK
        <4> QED
          BY <1>2, <1>3, <2>4, <2>5, <3>1, <4>1, <4>2 DEF Resting, Held
      <3>2. CASE Dead(s)
        <4>1. toWorker'[s] = <<>>
          BY <1>2, <3>2 DEF Post, Dead, TypeOK
        <4> QED
          BY <1>2, <1>3, <2>4, <3>2, <4>1 DEF Dead
      <3> QED
        BY <2>5, <3>1, <3>2
    <2>8. Port(s)'
      BY <1>3, <1>5, <2>7, UpOrDown DEF Port
    <2>9. \A t \in Slots \ {s} : SameSlot(t)
      BY <1>2, <1>3, <2>6 DEF SameSlot
    <2>10. \A k \in Jobs : ~Owes(s, k)
      <3>1. \A k \in Jobs : Idle # Done(k) /\ Idle # Error(k, FALSE)
        BY OutcomeOf
      <3> QED
        BY <1>3, <3>1 DEF Owes
    <2> QED
      BY <1>2, <1>3, <2>8, <2>9, <2>10, PortsStep
  <1> QED
    BY <1>3, <1>4, <1>5

(* The exit of a process settles the job of its slot, and its successor    *)
(* holds none.                                                             *)
LEMMA PortsExit ==
    ASSUME TypeOK, PortsInv, SuppressionMatchesRow, NEW s \in Slots, HandleExit(s)
    PROVE  PortsInv'
  <1> DEFINE j == slot[s].job
  <1>1. /\ phase = "up" /\ phase' = phase /\ worker' = worker /\ toWorker' = toWorker
        /\ toMain' = toMain /\ toMain[s] = <<>>
        /\ slot'[s] \in {EmptySlot, Spawned} /\ \A t \in Slots \ {s} : slot'[t] = slot[t]
        /\ j \in Jobs \/ j = None
    BY DEF HandleExit, TypeOK, Slot, JobOrNone
  <1>2. Dead(s) /\ \A t \in Slots \ {s} : SameSlot(t)
    BY <1>1, UpOrDown DEF HandleExit, Unborn, Booted, Resting, Held, SameSlot
  <1>3. /\ slot'[s].job = None /\ ~slot'[s].ready /\ ~slot'[s].retiring
        /\ slot'[s].proc \in {"none", "booting"}
    BY <1>1 DEF EmptySlot, Spawned
  <1>4. Port(s)'
    <2>1. Unborn(s)'
      BY <1>1, <1>2, <1>3 DEF Unborn, Dead
    <2> QED
      BY <1>1, <2>1, UpOrDown DEF Port
  <1>5. ASSUME rows' = rows, Counted,
               j = None \/ rows[j].status # "running" \/ used'.unrecorded # 0
        PROVE  PortsInv'
    <2>1. \A t \in Slots : Port(t)'
      BY <1>1, <1>2, <1>4, PortsLocal DEF PortsInv
    <2>2. \A k \in Jobs : rows'[k].status = "running" =>
                             ~Owes(s, k) \/ used'.unrecorded # 0
      BY <1>5, NoneAssumption DEF Owes
    <2>3. /\ used'.retries = 0 => used.retries = 0
          /\ used'.unrecorded = 0 => used.unrecorded = 0
      BY <1>5 DEF Counted
    <2>4. Watched'
      BY <1>1, <1>2, <1>5, <2>2, <2>3, WatchedKept DEF PortsInv
    <2>5. OneHolder'
      BY <1>1, <1>2, <1>3, <1>5, <2>3, HoldersKept DEF PortsInv
    <2> QED
      BY <2>1, <2>4, <2>5 DEF PortsInv
  <1>6. CASE j = None
    <2>1. rows' = rows /\ Counted
      BY <1>6 DEF HandleExit, Counted, TypeOK
    <2> QED
      BY <1>5, <1>6, <2>1
  <1>7. CASE j \in Jobs /\ j \in cancelled
    <2>1. rows' = rows /\ rows[j].status # "running" /\ Counted
      BY <1>7, NoneAssumption
         DEF HandleExit, Lose, Suppress, SuppressionMatchesRow, Counted, TypeOK
    <2> QED
      BY <1>5, <2>1
  <1>8. CASE j \in Jobs /\ j \notin cancelled
    <2>5. Settle(j, Failed(rows[j])) /\ rows[j] \in Row
      BY <1>8, NoneAssumption DEF HandleExit, Lose, TypeOK
    <2>6. /\ Counted
          /\ \/ rows' = [rows EXCEPT ![j] = Failed(rows[j])] /\ used' = used
             \/ rows' = rows /\ used'.unrecorded # 0
      BY <1>8, <2>5, RowWrites, TypeSettle
    <2>7. CASE rows' = rows /\ used'.unrecorded # 0
      BY <1>5, <2>6, <2>7
    <2> SUFFICES ASSUME rows' = [rows EXCEPT ![j] = Failed(rows[j])], used' = used
                 PROVE  PortsInv'
      BY <2>6, <2>7
    <2>1. /\ \/ rows'[j].status = "failed"
             \/ rows'[j].status = "queued" /\ ~rows'[j].due
          /\ \A k \in Jobs \ {j} : rows'[k] = rows[k]
      BY <1>8, <2>5, RowEnds DEF TypeOK
    <2>2. \A t \in Slots : Port(t)'
      BY <1>1, <1>2, <1>4, PortsLocal DEF PortsInv
    <2>3. Watched'
      <3>1. \A k \in Jobs : rows'[k].status = "running" =>
                               rows[k].status = "running" /\ ~Owes(s, k)
        BY <2>1 DEF Owes
      <3> QED
        BY <1>1, <1>2, <3>1, WatchedKept DEF PortsInv
    <2>4. OneHolder'
      <3> SUFFICES ASSUME used.retries = 0, NEW k \in Jobs
                   PROVE  /\ \A t, u \in Slots : slot'[t].job = k /\ slot'[u].job = k => t = u
                          /\ rows'[k].status = "queued" \/ rows'[k].status = "absent" =>
                               \A t \in Slots :
                                   slot'[t].job = k =>
                                       rows'[k].status = "queued" /\ ~rows'[k].due /\ Spoken(t)'
        BY <1>1 DEF OneHolder
      <3>1. \A t \in Slots : slot'[t].job = k =>
                                t # s /\ slot[t].job = k /\ (Spoken(t) => Spoken(t)')
        BY <1>2, <1>3, NoneAssumption DEF SameSlot, Spoken
      <3>2. \A t, u \in Slots : slot[t].job = k /\ slot[u].job = k => t = u
        BY <1>1 DEF PortsInv, OneHolder
      <3>3. CASE k = j
        BY <3>1, <3>2, <3>3
      <3>4. CASE k # j
        BY <1>1, <2>1, <3>1, <3>2, <3>4 DEF PortsInv, OneHolder
      <3> QED
        BY <3>3, <3>4
    <2> QED
      BY <2>2, <2>3, <2>4 DEF PortsInv
  <1> QED
    BY <1>1, <1>6, <1>7, <1>8
-----------------------------------------------------------------------------
(* What the user, the timers and the claim loop do.                        *)

(* A step of the rows alone.                                               *)
LEMMA PortsRows ==
    ASSUME PortsInv, phase' = phase, UNCHANGED <<slot, worker, toWorker, toMain>>,
           used'.unrecorded = used.unrecorded,
           \A k \in Jobs : rows'[k].status = "running" => rows[k].status = "running"
    PROVE  (\A s \in Slots : Port(s)') /\ Watched'
  <1>1. \A s \in Slots : Port(s)'
    BY PortFrame DEF PortsInv
  <1>2. \A s \in Slots, k \in Jobs : Owes(s, k) => Owes(s, k)'
    BY OwesFrame
  <1> QED
    BY <1>1, <1>2 DEF PortsInv, Watched

(* A new row is in no slot.                                                *)
LEMMA PortsEnqueue ==
    ASSUME TypeOK, PortsInv, NEW j \in Jobs, Enqueue(j)
    PROVE  PortsInv'
  <1>1. /\ phase' = phase /\ UNCHANGED <<slot, worker, toWorker, toMain, used>>
        /\ rows[j].status = "absent" /\ rows'[j].status = "queued"
        /\ \A k \in Jobs \ {j} : rows'[k] = rows[k]
    BY DEF Enqueue, TypeOK, FreshRow
  <1>2. (\A s \in Slots : Port(s)') /\ Watched'
    BY <1>1, PortsRows
  <1>3. OneHolder'
    BY <1>1 DEF PortsInv, OneHolder, Spoken
  <1> QED
    BY <1>2, <1>3 DEF PortsInv

(* A row whose backoff elapses is still queued.                            *)
LEMMA PortsBackoff ==
    ASSUME TypeOK, PortsInv, NEW j \in Jobs, BackoffElapses(j)
    PROVE  PortsInv'
  <1>1. /\ phase' = phase /\ UNCHANGED <<slot, worker, toWorker, toMain, used>>
        /\ rows[j].status = "queued" /\ rows'[j].status = "queued"
        /\ \A k \in Jobs \ {j} : rows'[k] = rows[k]
        /\ \A s \in Holders(j) : toMain[s] = <<>> /\ slot[s].proc # "dead"
    BY DEF BackoffElapses, TypeOK, Row
  <1>2. (\A s \in Slots : Port(s)') /\ Watched'
    BY <1>1, PortsRows
  <1>3. \A s \in Slots : slot[s].job = j => ~Spoken(s)
    BY <1>1 DEF Holders, Spoken
  <1>4. OneHolder'
    BY <1>1, <1>3 DEF PortsInv, OneHolder, Spoken
  <1> QED
    BY <1>2, <1>4 DEF PortsInv

(* A retried row is queued again, the only way two slots may hold it.      *)
LEMMA PortsRetry ==
    ASSUME TypeOK, PortsInv, NEW j \in Jobs, Retry(j)
    PROVE  PortsInv'
  <1>1. /\ phase' = phase /\ UNCHANGED <<slot, worker, toWorker, toMain>>
        /\ rows'[j].status = "queued" /\ \A k \in Jobs \ {j} : rows'[k] = rows[k]
    BY RowEnds DEF Retry, TypeOK
  <1>2. used'.retries # 0 /\ used'.unrecorded = used.unrecorded
    BY DEF Retry, TypeOK, Bounds
  <1>3. (\A s \in Slots : Port(s)') /\ Watched'
    BY <1>1, <1>2, PortsRows
  <1> QED
    BY <1>2, <1>3 DEF PortsInv, OneHolder

(* A free slot has nothing to say, and is sent the job at once.            *)
LEMMA PortsClaim ==
    ASSUME TypeOK, PortsInv, NEW j \in Jobs, ClaimAndDispatch(j)
    PROVE  PortsInv'
  <1>1. PICK s \in Slots : /\ IsFirst(s, FreeSlots)
                           /\ slot' = [slot EXCEPT ![s].job = j]
                           /\ Post(s, Start(j))
    BY DEF ClaimAndDispatch
  <1> DEFINE q == toWorker[s]
  <1>2. /\ phase = "up" /\ phase' = phase /\ worker' = worker
        /\ toMain' = toMain /\ used' = used
        /\ rows[j].status = "queued" /\ rows[j].due /\ rows'[j].status = "running"
        /\ \A k \in Jobs \ {j} : rows'[k] = rows[k]
    BY RowEnds DEF ClaimAndDispatch, Claimable, TypeOK
  <1>3. /\ slot[s].ready /\ slot[s].job = None /\ ~slot[s].retiring
        /\ slot'[s].job = j /\ slot'[s].ready /\ slot'[s].proc = slot[s].proc
        /\ q \in Seq(Request) /\ j # None
    BY <1>1, NoneAssumption DEF IsFirst, FreeSlots, Free, TypeOK, Slot
  <1>4. \A t \in Slots \ {s} : SameSlot(t)
    BY <1>1, <1>2 DEF Post, TypeOK, SameSlot
  <1>5. (Resting(s) /\ OnlyCancels(q)) \/ Dead(s)
    BY <1>2, <1>3, UpOrDown DEF Unborn, Booted, Resting, Held
  <1>6. /\ Port(s)' /\ toMain[s] = <<>> /\ worker[s].current = None
        /\ KeptGoing(toWorker'[s], j)
    <2>1. CASE Resting(s) /\ OnlyCancels(q)
      <3>1. toWorker'[s] = Append(q, Start(j))
        BY <1>1, <2>1 DEF Post, Resting, TypeOK
      <3>2. Asks(toWorker'[s], j) /\ KeptGoing(toWorker'[s], j)
        BY <1>3, <2>1, <3>1, RequestsAppended
      <3>3. Held(s)'
        BY <1>2, <1>3, <2>1, <3>2 DEF Resting, Held, Waiting
      <3> QED
        BY <1>2, <2>1, <3>2, <3>3, UpOrDown DEF Port, Resting
    <2>2. CASE Dead(s)
      <3>1. toWorker'[s] = <<>>
        BY <1>1, <2>2 DEF Post, Dead, TypeOK
      <3>2. Dead(s)' /\ toMain[s] = <<>>
        BY <1>2, <1>3, <2>2, <3>1 DEF Dead
      <3>3. KeptGoing(toWorker'[s], j)
        BY <3>1 DEF KeptGoing
      <3> QED
        BY <1>2, <2>2, <3>2, <3>3, UpOrDown DEF Port, Dead
    <2> QED
      BY <1>5, <2>1, <2>2
  <1>7. \A t \in Slots : Port(t)'
    BY <1>2, <1>4, <1>6, PortsLocal DEF PortsInv
  <1>8. Watched'
    <2>1. Owes(s, j)'
      BY <1>2, <1>3, <1>6 DEF Owes, Undisturbed
    <2>2. ASSUME used.unrecorded = 0, NEW k \in Jobs \ {j}, rows[k].status = "running"
          PROVE  \E t \in Slots : Owes(t, k)'
      <3>1. PICK t \in Slots : Owes(t, k)
        BY <1>2, <2>2 DEF PortsInv, Watched
      <3>2. t # s
        BY <1>3, <3>1, NoneAssumption DEF Owes
      <3> QED
        BY <1>4, <3>1, <3>2, OwesFrame DEF SameSlot
    <2> QED
      BY <1>2, <2>1, <2>2 DEF Watched
  <1>9. OneHolder'
    <2> SUFFICES ASSUME used.retries = 0, NEW k \in Jobs
                 PROVE  /\ \A t, u \in Slots : slot'[t].job = k /\ slot'[u].job = k => t = u
                        /\ rows'[k].status = "queued" \/ rows'[k].status = "absent" =>
                             \A t \in Slots :
                                 slot'[t].job = k =>
                                     rows'[k].status = "queued" /\ ~rows'[k].due /\ Spoken(t)'
      BY <1>2 DEF OneHolder
    <2>1. \A t \in Slots \ {s} : slot'[t].job = slot[t].job /\ (Spoken(t) => Spoken(t)')
      BY <1>4 DEF SameSlot, Spoken
    <2>2. CASE k = j
      <3>1. \A t \in Slots : slot[t].job # j
        BY <1>2 DEF PortsInv, OneHolder
      <3> QED
        BY <1>2, <2>1, <2>2, <3>1
    <2>3. CASE k # j
      BY <1>2, <1>3, <2>1, <2>3 DEF PortsInv, OneHolder
    <2> QED
      BY <2>2, <2>3
  <1> QED
    BY <1>7, <1>8, <1>9 DEF PortsInv

(* A cancellation reaches the process behind the start of the job, and     *)
(* leaves every other job alone.                                           *)
LEMMA PortsCancel ==
    ASSUME TypeOK, PortsInv, NEW j \in Jobs, Cancel(j)
    PROVE  PortsInv'
  <1>1. /\ phase = "up" /\ phase' = phase /\ worker' = worker /\ toMain' = toMain
        /\ used'.retries = used.retries /\ used'.unrecorded = used.unrecorded
        /\ rows'[j].status = "cancelled" /\ \A k \in Jobs \ {j} : rows'[k] = rows[k]
    BY RowEnds DEF Cancel, TypeOK, Bounds
  <1>2. CASE UNCHANGED <<slot, toWorker>>
    <2>1. (\A s \in Slots : Port(s)') /\ Watched'
      BY <1>1, <1>2, PortsRows
    <2>2. OneHolder'
      BY <1>1, <1>2 DEF PortsInv, OneHolder, Spoken
    <2> QED
      BY <2>1, <2>2 DEF PortsInv
  <1>3. ASSUME NEW s \in Slots, slot[s].job = j, StopWorker(s, j)
        PROVE  PortsInv'
    <2> DEFINE q == toWorker[s]
    <2>1. /\ slot'[s].proc = slot[s].proc /\ slot'[s].ready = slot[s].ready
          /\ slot'[s].job = j /\ slot'[s].retiring = slot[s].retiring
          /\ \A t \in Slots \ {s} : slot'[t] = slot[t]
          /\ q \in Seq(Request) /\ j # None
          /\ toWorker'[s] = IF slot[s].proc = "up" THEN Append(q, CancelRequest(j)) ELSE q
      BY <1>3, NoneAssumption DEF StopWorker, Post, TypeOK, Slot
    <2>2. \A t \in Slots \ {s} : SameSlot(t)
      BY <1>1, <1>3 DEF StopWorker, Post, TypeOK, SameSlot
    <2>3. Held(s) \/ Dead(s)
      BY <1>1, <1>3, <2>1, UpOrDown DEF Unborn, Booted, Resting
    <2>4. Port(s)'
      <3>1. CASE Held(s)
        <4>1. toWorker'[s] = Append(q, CancelRequest(j))
          BY <2>1, <3>1 DEF Held
        <4>2. /\ OnlyCancels(q) => OnlyCancels(toWorker'[s])
              /\ Asks(q, j) => Asks(toWorker'[s], j)
          BY <2>1, <4>1, RequestsAppended
        <4>3. Held(s)'
          BY <1>1, <1>3, <2>1, <3>1, <4>2 DEF Held, Waiting, Working, Reported
        <4> QED
          BY <1>1, <4>3, UpOrDown DEF Port
      <3>2. CASE Dead(s)
        <4>1. Dead(s)'
          BY <1>1, <1>3, <2>1, <3>2 DEF Dead
        <4> QED
          BY <1>1, <4>1, UpOrDown DEF Port
      <3> QED
        BY <2>3, <3>1, <3>2
    <2>5. \A t \in Slots : Port(t)'
      BY <1>1, <2>2, <2>4, PortsLocal DEF PortsInv
    <2>6. Watched'
      <3>1. \A k \in Jobs : rows'[k].status = "running" => rows[k].status = "running" /\ k # j
        BY <1>1
      <3>2. \A k \in Jobs : k # j => ~Owes(s, k)
        BY <1>3 DEF Owes
      <3> QED
        BY <1>1, <2>2, <3>1, <3>2, WatchedKept DEF PortsInv
    <2>7. OneHolder'
      <3>1. \A t \in Slots : slot'[t].job = slot[t].job /\ (Spoken(t) => Spoken(t)')
        BY <1>1, <1>3, <2>1 DEF Spoken
      <3> QED
        BY <1>1, <3>1 DEF PortsInv, OneHolder
    <2> QED
      BY <2>5, <2>6, <2>7 DEF PortsInv
  <1> QED
    BY <1>2, <1>3 DEF Cancel, IsFirst, Holders
-----------------------------------------------------------------------------
(* The app comes and goes.                                                 *)

(* The app starts with empty slots, stops, or is gone.                     *)
LEMMA PortsLaunch ==
    ASSUME TypeOK, PortsInv, Launch \/ Stop \/ MainExits
    PROVE  PortsInv'
  <1>1. CASE Launch
    <2>1. /\ phase = "down" /\ phase' = "up" /\ worker' = worker /\ toMain' = toMain
          /\ toWorker' = toWorker /\ \A s \in Slots : slot'[s] = Spawned
      BY <1>1 DEF Launch
    <2>2. \A s \in Slots : Unborn(s)' /\ Port(s)'
      <3> SUFFICES ASSUME NEW s \in Slots
                   PROVE  Unborn(s)' /\ Port(s)'
        OBVIOUS
      <3>1. /\ Spawned.proc = "booting" /\ ~Spawned.ready /\ Spawned.job = None
            /\ ~Spawned.retiring
        BY DEF Spawned, EmptySlot
      <3>2. /\ worker[s].current = None /\ ~worker[s].retiring
            /\ toWorker[s] = <<>> /\ toMain[s] = <<>>
        BY <2>1, UpOrDown DEF Port
      <3>3. Unborn(s)'
        BY <2>1, <3>1, <3>2 DEF Unborn
      <3> QED
        BY <2>1, <3>2, <3>3 DEF Port
    <2>3. \A k \in Jobs : rows'[k].status # "running"
      BY <1>1, RowEnds DEF Launch, TypeOK
    <2>4. \A s \in Slots, k \in Jobs : slot'[s].job # k
      BY <2>2, NoneAssumption DEF Unborn
    <2> QED
      BY <2>2, <2>3, <2>4 DEF PortsInv, Watched, OneHolder
  <1>2. CASE Stop \/ MainExits
    <2>1. /\ phase' \in {"stopping", "down"}
          /\ \A s \in Slots :
                 /\ worker'[s] = IdleWorker /\ toWorker'[s] = <<>>
                 /\ slot'[s].proc = "none"
                 /\ phase' = "down" => toMain'[s] = <<>>
      <3>1. CASE Stop
        BY <3>1 DEF Stop, TypeOK, Slot
      <3>2. CASE MainExits
        BY <3>2 DEF MainExits, EmptySlot
      <3> QED
        BY <1>2, <3>1, <3>2
    <2>2. ASSUME NEW s \in Slots
          PROVE  Port(s)'
      <3>1. worker'[s].current = None /\ ~worker'[s].retiring
        BY <2>1 DEF IdleWorker
      <3> QED
        BY <2>1, <3>1 DEF Port
    <2> QED
      BY <2>1, <2>2 DEF PortsInv, Watched, OneHolder
  <1> QED
    BY <1>1, <1>2

(* What a worker process does keeps the ports.                             *)
LEMMA PortsWorkerStep ==
    ASSUME TypeOK, PortsInv, NEW s \in Slots, WorkerStep(s)
    PROVE  PortsInv'
  BY PortsBoots, PortsStarts, PortsAborts, PortsShutsDown, PortsFinishes, PortsUnheard,
     PortsThrows, PortsCrashes DEF WorkerStep

(* What the pool does about a slot keeps the ports.                        *)
LEMMA PortsPoolStep ==
    ASSUME TypeOK, PortsInv, SuppressionMatchesRow, NEW s \in Slots, PoolStep(s)
    PROVE  PortsInv'
  BY PortsKillTimer, PortsReady, PortsDone, PortsError, PortsIdle, PortsExit DEF PoolStep

(* What happens to a job outside the pool keeps the ports.                 *)
LEMMA PortsJobStep ==
    ASSUME TypeOK, PortsInv, NEW j \in Jobs, JobStep(j)
    PROVE  PortsInv'
  BY PortsEnqueue, PortsBackoff, PortsClaim, PortsCancel, PortsRetry DEF JobStep

(* At every moment each slot, its process and its two ports are in one of  *)
(* five situations, a running job is watched by the slot that will say how *)
(* it ended, and, as long as nobody retries, no two slots hold one job     *)
(* (pool.ts:151-252, runner.ts:227-290).                                   *)
THEOREM PortsCorrect == Spec => []PortsInv
  <1>1. Init => PortsInv
    BY SlotsAssumption
       DEF Init, PortsInv, Port, Watched, OneHolder, EmptySlot, IdleWorker
  <1>2. ASSUME PortsInv, TypeOK, SuppressionMatchesRow, [Next]_vars
        PROVE  PortsInv'
    <2>1. CASE UNCHANGED vars
      <3>1. \A s \in Slots : Port(s)'
        BY <1>2, <2>1, PortFrame DEF vars, PortsInv
      <3>2. \A s \in Slots, k \in Jobs : Owes(s, k) => Owes(s, k)'
        BY <1>2, <2>1, OwesFrame DEF vars
      <3>3. Watched' /\ OneHolder'
        BY <1>2, <2>1, <3>2 DEF vars, PortsInv, Watched, OneHolder, Spoken
      <3> QED
        BY <3>1, <3>3 DEF PortsInv
    <2>2. CASE Launch \/ Stop \/ MainExits
      BY <1>2, <2>2, PortsLaunch
    <2>3. CASE \E s \in Slots : WorkerStep(s) \/ PoolStep(s)
      BY <1>2, <2>3, PortsWorkerStep, PortsPoolStep
    <2>4. CASE \E j \in Jobs : JobStep(j)
      BY <1>2, <2>4, PortsJobStep
    <2> QED
      BY <1>2, <2>1, <2>2, <2>3, <2>4 DEF Next
  <1> QED
    BY <1>1, <1>2, TypeCorrect, SuppressionCorrect, PTL DEF Spec

(* While the app is up, a running job is held by a slot of the pool, so its*)
(* end is observed, unless main could not read an outcome (pool.ts:172-177,*)
(* 196-223).                                                               *)
THEOREM NoStrandedCorrect == Spec => []NoStrandedJob
  <1>1. PortsInv => NoStrandedJob
    BY DEF PortsInv, Watched, Owes, NoStrandedJob, Stranded, Holders
  <1> QED
    BY <1>1, PortsCorrect, PTL

(* No two worker processes run one job, as long as nobody retries a job    *)
(* whose cancelled run is still winding down (runner.ts:194-210).          *)
THEOREM NoDoubleRunCorrect == Spec => []NoDoubleRun
  <1>1. ASSUME PortsInv, NEW s \in Slots, worker[s].current # None
        PROVE  phase = "up" /\ slot[s].job = worker[s].current
    <2>1. phase = "up"
      BY <1>1, UpOrDown DEF Port
    <2> QED
      BY <1>1, <2>1, UpOrDown
         DEF Unborn, Booted, Resting, Held, Waiting, Working, Reported, Dead
  <1>2. TypeOK /\ PortsInv => NoDoubleRun
    <2> SUFFICES ASSUME TypeOK, PortsInv, used.retries = 0, NEW s \in Slots, NEW t \in Slots,
                        s # t, worker[s].current # None
                 PROVE  worker[s].current # worker[t].current
      BY DEF NoDoubleRun
    <2>1. worker[s].current \in Jobs
      BY DEF TypeOK, Worker, JobOrNone
    <2> QED
      BY <1>1, <2>1 DEF PortsInv, OneHolder
  <1> QED
    BY <1>2, TypeCorrect, PortsCorrect, PTL
=============================================================================
