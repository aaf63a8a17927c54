------------------------- MODULE BatchRunnerProofs -------------------------
(***************************************************************************)
(* Proofs about BatchRunner, for any set of batches, whichever of them go  *)
(* to a provider with a Batch API, any finite work and any bounds.         *)
(***************************************************************************)
EXTENDS BatchRunner, TLAPS, FiniteSetTheorems, SequenceTheorems
-----------------------------------------------------------------------------
(* The first submission of the batch is on the wire.                       *)
First(b) == polls[b].at = "none" /\ wire[b] # "none"

(* The process still has the requests of the batch at hand.                *)
AtHand(b) == b \in inFlight \/ polls[b].held

(* A poll may start, or has, and has not reconciled anything.              *)
Flow(b) ==
    /\ rows[b].job <= Len(jobs[b]) /\ cancelling[b] <= Len(jobs[b])
    /\ rows[b].status \in {"submitted", "in_progress"} => rows[b].job # 0
    /\ rows[b].status \in {"absent", "submitting"} => rows[b].job = 0
    /\ rows[b].status = "submitting" /\ phase # "down" => First(b)
    /\ First(b) => rows[b].job = 0
    /\ b \in timers => rows[b].job # 0
    /\ wire[b] = "accepted" => Len(jobs[b]) # 0
    /\ polls[b].at = "none" => polls[b] = NoPoll
    /\ polls[b].at # "none" =>
           /\ rows[b].job # 0 /\ rows[b].job = polls[b].seen.job
           /\ rows[b].succeeded = polls[b].seen.succeeded
           /\ rows[b].failed = polls[b].seen.failed
           /\ polls[b].seen.status \in Active
           /\ (wire[b] # "none") <=> (polls[b].at = "resubmitting")
           /\ polls[b].at # "failures" => polls[b].failed = 0
           /\ polls[b].at = "asking" => polls[b].succeeded = 0
    /\ polls[b].open # None => polls[b].at = "answers" /\ polls[b].open \in polls[b].todo
    /\ phase = "down" =>
           /\ wire[b] = "none" /\ polls[b].at = "none"
           /\ b \notin inFlight /\ memory[b] = NoMemory /\ cancelling[b] = 0
    /\ rows[b].status = "absent" =>
           Len(jobs[b]) = 0 /\ wire[b] = "none" /\ memory[b] = NoMemory
    /\ memory[b].requests \subseteq Work[b]

(* A job of batch b answers what it was asked, once; a Batch API, all of it*)
(* at its end.                                                             *)
Sound(b, j) ==
    /\ j.items \subseteq Work[b]
    /\ j.ok \cup j.bad \subseteq j.items
    /\ j.ok \cap j.bad = {}
    /\ b \in Durable => j.ok \cup j.bad = (IF j.ended THEN j.items ELSE {})

(* A job asks what no earlier one has answered, and no more than is held.  *)
JobsInv(b) ==
    /\ memory[b].reconciled \subseteq memory[b].requests
    /\ \A k \in 1 .. Len(jobs[b]) :
           /\ Sound(b, jobs[b][k])
           /\ AtHand(b) \/ First(b) => jobs[b][k].items \subseteq memory[b].requests
    /\ \A k, m \in 1 .. Len(jobs[b]) :
           k < m => jobs[b][k].ended /\ jobs[b][k].ok \cap jobs[b][m].items = {}

(* What the poll under way was told of the job it asked about.             *)
Told(b) ==
    polls[b].at \in {"answers", "resubmitting", "failures"} =>
        /\ polls[b].reply.ok \subseteq CurrentJob(b).ok
        /\ polls[b].reply.bad \subseteq CurrentJob(b).bad
        /\ polls[b].todo \subseteq (IF polls[b].at = "failures" THEN polls[b].reply.bad
                                    ELSE polls[b].reply.ok)
        /\ polls[b].at = "resubmitting" =>
               polls[b].reply.status = "completed" /\ polls[b].todo = {}
        /\ polls[b].at = "failures" => polls[b].reply.status # "in_progress"
        /\ polls[b].reply.status = "completed" =>
               /\ CurrentJob(b).ended
               /\ polls[b].reply.ok = CurrentJob(b).ok
               /\ polls[b].reply.bad = CurrentJob(b).bad
        /\ b \in Durable /\ polls[b].reply.status = "in_progress" => polls[b].reply.ok = {}

(* The jobs the provider was given, against the retries: the first one, and*)
(* one more for each retry that is counted.                                *)
Asked(b) ==
    /\ Len(jobs[b]) <= MaxRetries + 1
    /\ memory[b].retries <= MaxRetries
    /\ AtHand(b) => Len(jobs[b]) <= memory[b].retries + 1
    /\ First(b) => /\ (Len(jobs[b]) = 0) <=> (wire[b] = "sent")
                   /\ Len(jobs[b]) <= 1
                   /\ \A k \in 1 .. Len(jobs[b]) : jobs[b][k].items = memory[b].requests
    /\ polls[b].at = "resubmitting" =>
           /\ polls[b].held
           /\ wire[b] = "sent" => /\ Len(jobs[b]) <= memory[b].retries
                                  /\ polls[b].seen.job = Len(jobs[b])
           /\ wire[b] = "accepted" => /\ polls[b].seen.job + 1 = Len(jobs[b])
                                      /\ jobs[b][Len(jobs[b])].items = Retryable(b)
    /\ polls[b].held /\ polls[b].at \in {"asking", "answers"} =>
           polls[b].seen.job = Len(jobs[b])
    /\ b \in inFlight /\ polls[b].at # "none" => polls[b].held
    /\ b \in inFlight /\ polls[b].at = "none" /\ wire[b] = "none"
         /\ rows[b].status \in Active => rows[b].job = Len(jobs[b])

(* As long as nothing is cancelled: a batch the provider was given has its *)
(* job on the row, or failed, or its submission is still to return.        *)
Recorded(b) ==
    /\ cancelling[b] # 0 => used.cancels # 0
    /\ used.cancels = 0 =>
           /\ First(b) => rows[b].status = "submitting"
           /\ Len(jobs[b]) # 0 /\ ~First(b) =>
                 \/ rows[b].job # 0
                 \/ rows[b].status = "failed"
                 \/ rows[b].status = "submitting" /\ phase = "down"

(* What the row of a batch of a provider's says of the batch's requests.   *)
Left(b, k) == Cardinality(Work[b]) - Cardinality(jobs[b][k].items)

OnRow(b) == (rows[b].status \in Active /\ rows[b].job # 0) \/ polls[b].at # "none"

(* The counters of a row never pass what was asked, and those of a batch a *)
(* provider completed account for all of it.                               *)
Sums(b) ==
    /\ rows[b].succeeded + rows[b].failed <= Cardinality(Work[b])
    /\ b \in Durable /\ rows[b].status = "completed" =>
           rows[b].succeeded + rows[b].failed = Cardinality(Work[b])
    /\ OnRow(b) \/ First(b) \/ rows[b].status \in Active \cup {"absent"}
           => rows[b].failed = 0
    /\ First(b) => memory[b].reconciled = {}

(* The count of a batch of a provider's: the requests the current job does *)
(* not have, and those of its answers that are reconciled.                 *)
Remote(b) ==
    /\ OnRow(b) => rows[b].succeeded = Left(b, rows[b].job)
    /\ polls[b].at = "answers" =>
           polls[b].succeeded + Cardinality(polls[b].todo) = Cardinality(polls[b].reply.ok)
    /\ polls[b].at \in {"resubmitting", "failures"} =>
           polls[b].succeeded = Cardinality(polls[b].reply.ok)
    /\ polls[b].at = "failures" =>
           polls[b].failed + Cardinality(polls[b].todo) = Cardinality(polls[b].reply.bad)
    /\ AtHand(b) /\ polls[b].at \in {"none", "asking"} /\ OnRow(b) =>
           memory[b].reconciled \cap jobs[b][rows[b].job].items = {}
    /\ polls[b].held /\ polls[b].at \in {"answers", "resubmitting"} =>
           memory[b].reconciled \cap CurrentJob(b).items = polls[b].reply.ok \ polls[b].todo

(* The count of a batch of the fallback's: what this process remembers.    *)
Fallback(b) ==
    /\ First(b) \/ polls[b].held => b \in inFlight
    /\ OnRow(b) /\ AtHand(b) =>
          rows[b].succeeded + polls[b].succeeded + polls[b].failed
              = Cardinality(Work[b] \ memory[b].requests) + Cardinality(memory[b].reconciled)
    /\ OnRow(b) /\ ~AtHand(b) /\ phase # "stopping" => jobs[b][rows[b].job].forgotten
    /\ polls[b].at # "none" /\ ~polls[b].held =>
          /\ jobs[b][rows[b].job].forgotten
          /\ polls[b].succeeded = 0 /\ polls[b].failed = 0
          /\ polls[b].todo = {} /\ polls[b].reply.bad = {}
    /\ polls[b].held /\ polls[b].at \in {"answers", "failures"} =>
          polls[b].todo \cap memory[b].reconciled = {}

(* The counters, for the one kind of batch and the other.                  *)
Counted(b) ==
    /\ Sums(b)
    /\ b \in Durable => Remote(b)
    /\ b \notin Durable => Fallback(b)

(* The answers that are counted are stored, as long as no write failed.    *)
Collected(b) ==
    used.writes = 0 =>
        /\ rows[b].status = "completed" =>
               \A k \in 1 .. rows[b].job : jobs[b][k].ended /\ jobs[b][k].ok \subseteq answers
        /\ OnRow(b) => \A k \in 1 .. rows[b].job - 1 : jobs[b][k].ok \subseteq answers
        /\ AtHand(b) /\ polls[b].at # "failures" => memory[b].reconciled \subseteq answers
        /\ polls[b].at \in {"answers", "resubmitting"} =>
               polls[b].reply.ok \ polls[b].todo \subseteq answers
        /\ polls[b].at = "failures" => polls[b].reply.ok \subseteq answers

(* Nothing happens to the batch.                                           *)
Apart(c) ==
    /\ rows'[c] = rows[c] /\ memory'[c] = memory[c] /\ wire'[c] = wire[c]
    /\ polls'[c] = polls[c] /\ cancelling'[c] = cancelling[c] /\ jobs'[c] = jobs[c]
    /\ c \in inFlight' <=> c \in inFlight
    /\ c \in timers' <=> c \in timers

(* A step of batch b.                                                      *)
Local(b) ==
    /\ phase' = phase /\ answers \subseteq answers'
    /\ used'.writes = 0 => used.writes = 0
    /\ used'.cancels = 0 => used.cancels = 0
    /\ \A c \in Batches \ {b} : Apart(c)

(* A job goes on.                                                          *)
Onward(b, old, new) ==
    /\ new.items = old.items
    /\ old.ended => new.ended /\ new.ok = old.ok /\ new.bad = old.bad
    /\ old.forgotten => new.forgotten
    /\ Sound(b, old) => Sound(b, new) /\ old.ok \subseteq new.ok /\ old.bad \subseteq new.bad

JobsOn(b) ==
    /\ Len(jobs'[b]) = Len(jobs[b])
    /\ \A k \in 1 .. Len(jobs[b]) : Onward(b, jobs[b][k], jobs'[b][k])

(* The records of the model are well formed.                               *)
LEMMA BatchTypes ==
    /\ NoRow \in Row /\ NoMemory \in Memory /\ NoPoll \in Poll
    /\ \A S \in SUBSET Items : NewJob(S) \in Job
    /\ \A b \in Batches : Work[b] \subseteq Items
    /\ \A b \in Batches : \A S \in SUBSET Work[b] : Cardinality(S) \in Nat
  <1>1. NoRow \in Row /\ NoMemory \in Memory
    BY DEF NoRow, Row, NoMemory, Memory, Active, Final
  <1>2. NoPoll \in Poll
    BY <1>1 DEF NoPoll, Poll, Reply, ReplyStatus
  <1>3. \A S \in SUBSET Items : NewJob(S) \in Job
    BY DEF NewJob, Job
  <1>4. ASSUME NEW b \in Batches
        PROVE  /\ Work[b] \subseteq Items
               /\ \A S \in SUBSET Work[b] : Cardinality(S) \in Nat
    BY WorkAssumption, FiniteAssumption, FS_Subset, FS_CardinalityType
  <1> QED
    BY <1>1, <1>2, <1>3, <1>4

(* What a patch of a row leaves is a row.                                   *)
LEMMA RowPatched ==
    ASSUME NEW r \in Row, NEW st \in Active \cup Final \cup {"absent"},
           NEW k \in Nat, NEW n \in Nat, NEW m \in Nat
    PROVE  /\ [r EXCEPT !.status = st] \in Row
           /\ [r EXCEPT !.status = st, !.succeeded = n] \in Row
           /\ [r EXCEPT !.status = st, !.job = k, !.succeeded = n] \in Row
           /\ [r EXCEPT !.status = st, !.succeeded = n, !.failed = m] \in Row
  BY DEF Row

(* A launch, a crash and a stop keep the types.                            *)
LEMMA TypeGlobal ==
    ASSUME TypeOK, Launch \/ Crash \/ Stop
    PROVE  TypeOK'
  <1>1. CASE Launch
    <2>1. \A b \in Batches : Retired(rows[b]) \in Row
      BY DEF Retired, TypeOK, Row, Active, Final
    <2>2. used' \in Bounds
      <3>1. used \in Bounds /\ used' = [used EXCEPT !.launches = @ + 1]
        BY <1>1 DEF Launch, TypeOK
      <3> QED
        BY <3>1 DEF Bounds
    <2> QED
      BY <1>1, <2>1, <2>2 DEF Launch, TypeOK, memoryVars, callVars
  <1>2. CASE Crash
    <2>1. ASSUME NEW b \in Batches
          PROVE  [k \in DOMAIN jobs[b] |-> [jobs[b][k] EXCEPT !.ended = TRUE, !.forgotten = TRUE]]
                   \in Seq(Job)
      <3>1. jobs[b] \in Seq(Job) /\ DOMAIN jobs[b] = 1 .. Len(jobs[b]) /\ Len(jobs[b]) \in Nat
        BY DEF TypeOK
      <3>2. ASSUME NEW k \in 1 .. Len(jobs[b])
            PROVE  [jobs[b][k] EXCEPT !.ended = TRUE, !.forgotten = TRUE] \in Job
        <4>1. jobs[b][k] \in Job
          BY <3>1, ElementOfSeq
        <4> QED
          BY <4>1 DEF Job
      <3> DEFINE e(k) == [jobs[b][k] EXCEPT !.ended = TRUE, !.forgotten = TRUE]
      <3>3. \A k \in 1 .. Len(jobs[b]) : e(k) \in Job
        BY <3>2
      <3> HIDE DEF e
      <3>4. [k \in 1 .. Len(jobs[b]) |-> e(k)] \in Seq(Job)
        BY <3>1, <3>3
      <3> QED
        BY <3>1, <3>4 DEF e
    <2>2. jobs' \in [Batches -> Seq(Job)]
      BY <1>2, <2>1 DEF Crash, TypeOK
    <2> QED
      BY <1>2, <2>2, BatchTypes DEF Crash, TypeOK
  <1>3. CASE Stop
    BY <1>3 DEF Stop, TypeOK, callVars
  <1> QED
    BY <1>1, <1>2, <1>3

(* A submission keeps the types and touches its batch only.                *)
LEMMA TypeSubmit ==
    ASSUME TypeOK, NEW b \in Batches,
           SubmitBatch(b) \/ SubmitReturns(b) \/ SubmitFails(b)
    PROVE  TypeOK' /\ Local(b)
  <1> USE DEF TypeOK, Local, Apart
  <1>0. rows[b] \in Row /\ memory[b] \in Memory /\ {"completed", "submitting", "submitted", "failed"}
          \subseteq Active \cup Final \cup {"absent"}
    BY DEF Active, Final
  <1>1. CASE SubmitBatch(b)
    <2>1. rows' \in [Batches -> Row] /\ \A c \in Batches \ {b} : rows'[c] = rows[c]
      <3>1. Cardinality(Work[b]) \in Nat
        BY BatchTypes
      <3>2. /\ [rows[b] EXCEPT !.status = "completed", !.succeeded = Cardinality(Work[b])] \in Row
            /\ [rows[b] EXCEPT !.status = "submitting"] \in Row
        BY <1>0, <3>1, RowPatched
      <3> QED
        BY <1>1, <3>2 DEF SubmitBatch
    <2>2. memory' \in [Batches -> Memory] /\ \A c \in Batches \ {b} : memory'[c] = memory[c]
      <3>1. [memory[b] EXCEPT !.requests = Work[b] \ answers] \in Memory
        BY <1>0, BatchTypes DEF Memory
      <3> QED
        BY <1>1, <3>1 DEF SubmitBatch
    <2>3. TypeOK'
      <3>1. wire' \in [Batches -> {"none", "sent", "accepted"}]
        <4>1. wire' = wire \/ wire' = [wire EXCEPT ![b] = "sent"]
          BY <1>1 DEF SubmitBatch
        <4> QED
          BY <4>1
      <3>2. inFlight' \subseteq Batches
        <4>1. inFlight' = inFlight \/ inFlight' = inFlight \cup {b}
          BY <1>1 DEF SubmitBatch
        <4> QED
          BY <4>1
      <3>3. UNCHANGED <<phase, answers, logged, failures, timers, polls, cancelling, jobs, used>>
        BY <1>1 DEF SubmitBatch
      <3> QED
        BY <2>1, <2>2, <3>1, <3>2, <3>3
    <2>4. Local(b)
      <3>1. inFlight' = inFlight \/ inFlight' = inFlight \cup {b}
        BY <1>1 DEF SubmitBatch
      <3>2. \A c \in Batches \ {b} : wire'[c] = wire[c]
        BY <1>1 DEF SubmitBatch
      <3>3. UNCHANGED <<phase, answers, timers, polls, cancelling, jobs, used>>
        BY <1>1 DEF SubmitBatch
      <3> QED
        BY <2>1, <2>2, <3>1, <3>2, <3>3
    <2> QED
      BY <2>3, <2>4
  <1>2. CASE SubmitReturns(b)
    <2>1. Cardinality(Work[b] \ memory[b].requests) \in Nat /\ Len(jobs[b]) \in Nat
      <3>1. Work[b] \ memory[b].requests \in SUBSET Work[b]
        OBVIOUS
      <3>2. Cardinality(Work[b] \ memory[b].requests) \in Nat
        BY <3>1, BatchTypes
      <3>3. Len(jobs[b]) \in Nat
        BY LenProperties
      <3> QED
        BY <3>2, <3>3
    <2>2. rows' \in [Batches -> Row]
      BY <1>0, <1>2, <2>1, RowPatched DEF SubmitReturns
    <2> QED
      BY <1>2, <2>2 DEF SubmitReturns, Schedule
  <1>3. CASE SubmitFails(b)
    <2>1. rows' \in [Batches -> Row]
      BY <1>0, <1>3, RowPatched DEF SubmitFails
    <2> QED
      BY <1>3, <2>1 DEF SubmitFails
  <1> QED
    BY <1>1, <1>2, <1>3

(* Membership is a truth value.                                            *)
LEMMA BoolForm == \A x, S : (x \in S) \in BOOLEAN
  OBVIOUS

(* The start of a poll, and one that fails, keep the types and touch their *)
(* batch only.                                                             *)
LEMMA TypePoll ==
    ASSUME TypeOK, NEW b \in Batches,
           PollStarts(b) \/ PollUnresolved(b) \/ PollFails(b)
    PROVE  TypeOK' /\ Local(b)
  <1> USE DEF TypeOK, Local, Apart
  <1>0. rows[b] \in Row /\ polls[b] \in Poll /\ "failed" \in Active \cup Final \cup {"absent"}
    BY DEF Active, Final
  <1>1. CASE PollStarts(b)
    <2>1. polls' \in [Batches -> Poll]
      <3>1. \A h \in BOOLEAN :
               [polls[b] EXCEPT !.at = "asking", !.seen = rows[b], !.held = h] \in Poll
        BY <1>0 DEF Poll
      <3>2. \/ polls' = polls
            \/ \E h \in BOOLEAN :
                 polls' = [polls EXCEPT ![b].at = "asking", ![b].seen = rows[b], ![b].held = h]
        BY <1>1, BoolForm DEF PollStarts
      <3> QED
        BY <3>1, <3>2
    <2> QED
      BY <1>1, <2>1 DEF PollStarts
  <1>2. CASE PollUnresolved(b)
    <2>1. rows' \in [Batches -> Row]
      BY <1>0, <1>2, RowPatched DEF PollUnresolved
    <2> QED
      BY <1>2, <2>1 DEF PollUnresolved, callVars
  <1>3. CASE PollFails(b)
    <2>1. rows' \in [Batches -> Row]
      <3>1. [rows[b] EXCEPT !.status = "failed"] \in Row
        BY <1>0, RowPatched
      <3> QED
        BY <1>3, <3>1 DEF PollFails
    <2>2. polls' \in [Batches -> Poll]
      BY <1>3, BatchTypes DEF PollFails
    <2> QED
      BY <1>3, <2>1, <2>2 DEF PollFails, Schedule
  <1> QED
    BY <1>1, <1>2, <1>3

(* What a poll in progress may become is a poll.                           *)
LEMMA PollPatched ==
    ASSUME NEW p \in Poll, NEW S \in SUBSET Items, NEW n \in Nat,
           NEW a \in {"none", "asking", "answers", "resubmitting", "failures"},
           NEW i \in Items \cup {None}
    PROVE  /\ [p EXCEPT !.at = a] \in Poll /\ [p EXCEPT !.open = i] \in Poll
           /\ [p EXCEPT !.at = a, !.todo = S] \in Poll
           /\ [p EXCEPT !.todo = S, !.succeeded = n] \in Poll
           /\ [p EXCEPT !.todo = S, !.open = i, !.succeeded = n] \in Poll
           /\ [p EXCEPT !.todo = S, !.failed = n] \in Poll
  BY DEF Poll

(* What a poll may be told.                                                *)
LEMMA ReplyTypes ==
    ASSUME TypeOK, NEW b \in Batches, CurrentJob(b) \in Job, NEW r \in Replies(b)
    PROVE  /\ r \in [status : ReplyStatus, ok : SUBSET Items, bad : SUBSET Items]
           /\ [polls[b] EXCEPT !.at = "answers", !.reply = r, !.todo = Fresh(b, r.ok)] \in Poll
  <1>1. r \in [status : ReplyStatus, ok : SUBSET Items, bad : SUBSET Items]
    BY DEF Replies, Reply, ReplyStatus, Job
  <1>2. polls[b] \in Poll
    BY DEF TypeOK
  <1>3. Fresh(b, r.ok) \in SUBSET Items
    BY <1>1 DEF Fresh
  <1> QED
    BY <1>1, <1>2, <1>3 DEF Poll

(* The jobs of a batch whose jobs are left alone go on, and so do those of *)
(* which one does.                                                         *)
LEMMA JobsGoOn ==
    ASSUME TypeOK, NEW b \in Batches
    PROVE  /\ jobs'[b] = jobs[b] => JobsOn(b)
           /\ \A k \in 1 .. Len(jobs[b]) : \A j \in Job :
                 jobs' = [jobs EXCEPT ![b][k] = j] /\ Onward(b, jobs[b][k], j)
                   => /\ jobs' \in [Batches -> Seq(Job)]
                      /\ \A c \in Batches \ {b} : jobs'[c] = jobs[c]
                      /\ JobsOn(b)
  <1>1. \A j : Onward(b, j, j)
    BY DEF Onward
  <1>2. jobs'[b] = jobs[b] => JobsOn(b)
    BY <1>1 DEF JobsOn
  <1>3. ASSUME NEW k \in 1 .. Len(jobs[b]), NEW j \in Job,
               jobs' = [jobs EXCEPT ![b][k] = j], Onward(b, jobs[b][k], j)
        PROVE  /\ jobs' \in [Batches -> Seq(Job)]
               /\ \A c \in Batches \ {b} : jobs'[c] = jobs[c]
               /\ JobsOn(b)
    <2>1. /\ jobs' \in [Batches -> Seq(Job)]
          /\ \A c \in Batches \ {b} : jobs'[c] = jobs[c]
          /\ Len(jobs'[b]) = Len(jobs[b]) /\ jobs'[b][k] = j
          /\ \A m \in 1 .. Len(jobs[b]) : m # k => jobs'[b][m] = jobs[b][m]
      <3>1. jobs[b] \in Seq(Job) /\ jobs \in [Batches -> Seq(Job)]
        BY DEF TypeOK
      <3>2. /\ [jobs[b] EXCEPT ![k] = j] \in Seq(Job)
            /\ Len([jobs[b] EXCEPT ![k] = j]) = Len(jobs[b])
            /\ [jobs[b] EXCEPT ![k] = j][k] = j
            /\ \A m \in 1 .. Len(jobs[b]) : m # k => [jobs[b] EXCEPT ![k] = j][m] = jobs[b][m]
        BY <3>1, ExceptSeq
      <3>3. /\ jobs'[b] = [jobs[b] EXCEPT ![k] = j]
            /\ \A c \in Batches \ {b} : jobs'[c] = jobs[c]
            /\ DOMAIN jobs' = Batches /\ jobs' = [d \in Batches |-> jobs'[d]]
        BY <1>3, <3>1
      <3>4. jobs' \in [Batches -> Seq(Job)]
        BY <3>1, <3>2, <3>3
      <3> QED
        BY <3>2, <3>3, <3>4
    <2> QED
      BY <1>1, <1>3, <2>1 DEF JobsOn
  <1> QED
    BY <1>2, <1>3

(* Each way a job goes on.                                                 *)
LEMMA JobMoves ==
    ASSUME NEW b \in Batches, NEW j \in Job
    PROVE  /\ \A h \in BOOLEAN :
                 LET n == [j EXCEPT !.forgotten = (j.forgotten \/ h)]
                 IN  n \in Job /\ Onward(b, j, n)
           /\ LET n == [j EXCEPT !.cancelled = TRUE]
              IN  n \in Job /\ Onward(b, j, n)
           /\ LET n == [j EXCEPT !.ended = TRUE, !.forgotten = TRUE]
              IN  b \notin Durable => n \in Job /\ Onward(b, j, n)
           /\ ~j.ended =>
                 /\ b \in Durable =>
                      \A ok \in SUBSET j.items :
                         LET n == [j EXCEPT !.ended = TRUE, !.ok = ok, !.bad = j.items \ ok]
                         IN  n \in Job /\ Onward(b, j, n)
                 /\ b \notin Durable =>
                      /\ LET n == [j EXCEPT !.ended = TRUE]
                         IN  n \in Job /\ Onward(b, j, n)
                      /\ \A i \in j.items \ (j.ok \cup j.bad) :
                            /\ LET n == [j EXCEPT !.ok = j.ok \cup {i}]
                               IN  n \in Job /\ Onward(b, j, n)
                            /\ LET n == [j EXCEPT !.bad = j.bad \cup {i}]
                               IN  n \in Job /\ Onward(b, j, n)
                            /\ LET n == [j EXCEPT !.ended = TRUE, !.ok = j.ok \cup {i}]
                               IN  n \in Job /\ Onward(b, j, n)
                            /\ LET n == [j EXCEPT !.ended = TRUE, !.bad = j.bad \cup {i}]
                               IN  n \in Job /\ Onward(b, j, n)
  <1> USE DEF Job, Onward, Sound
  <1>1. ASSUME NEW h \in BOOLEAN
        PROVE  LET n == [j EXCEPT !.forgotten = (j.forgotten \/ h)]
               IN  n \in Job /\ Onward(b, j, n)
    OBVIOUS
  <1>2. LET n == [j EXCEPT !.cancelled = TRUE]
        IN  n \in Job /\ Onward(b, j, n)
    OBVIOUS
  <1>3. LET n == [j EXCEPT !.ended = TRUE, !.forgotten = TRUE]
        IN  b \notin Durable => n \in Job /\ Onward(b, j, n)
    OBVIOUS
  <1>4. ASSUME ~j.ended, b \in Durable, NEW ok \in SUBSET j.items
        PROVE  LET n == [j EXCEPT !.ended = TRUE, !.ok = ok, !.bad = j.items \ ok]
               IN  n \in Job /\ Onward(b, j, n)
    BY <1>4
  <1>5. ASSUME ~j.ended, b \notin Durable
        PROVE  LET n == [j EXCEPT !.ended = TRUE]
               IN  n \in Job /\ Onward(b, j, n)
    BY <1>5
  <1>6. ASSUME ~j.ended, b \notin Durable, NEW i \in j.items \ (j.ok \cup j.bad)
        PROVE  /\ LET n == [j EXCEPT !.ok = j.ok \cup {i}]
                  IN  n \in Job /\ Onward(b, j, n)
               /\ LET n == [j EXCEPT !.bad = j.bad \cup {i}]
                  IN  n \in Job /\ Onward(b, j, n)
    BY <1>6
  <1>7. ASSUME ~j.ended, b \notin Durable, NEW i \in j.items \ (j.ok \cup j.bad)
        PROVE  /\ LET n == [j EXCEPT !.ended = TRUE, !.ok = j.ok \cup {i}]
                  IN  n \in Job /\ Onward(b, j, n)
               /\ LET n == [j EXCEPT !.ended = TRUE, !.bad = j.bad \cup {i}]
                  IN  n \in Job /\ Onward(b, j, n)
    BY <1>7
  <1> HIDE DEF Job, Onward, Sound
  <1> QED
    BY <1>1, <1>2, <1>3, <1>4, <1>5, <1>6, <1>7

(* A step of the provider's side.                                          *)
LEMMA TypeProvider ==
    ASSUME TypeOK, NEW b \in Batches, cancelling[b] <= Len(jobs[b]),
           \/ ProviderCancels(b)
           \/ \E k \in DOMAIN jobs[b] : JobEnds(b, k) \/ ItemEnds(b, k) \/ RunEnds(b, k)
    PROVE  /\ TypeOK' /\ Local(b) /\ JobsOn(b)
           /\ UNCHANGED <<rows, answers, logged, phase, memoryVars, callVars, used>>
  <1>1. jobs[b] \in Seq(Job) /\ DOMAIN jobs[b] = 1 .. Len(jobs[b]) /\ cancelling[b] \in Nat
    BY DEF TypeOK
  <1>2. \A k \in 1 .. Len(jobs[b]) : jobs[b][k] \in Job
    BY <1>1, ElementOfSeq
  <1>3. UNCHANGED <<rows, answers, logged, phase, memoryVars, callVars, used>>
    BY DEF ProviderCancels, JobEnds, ItemEnds, RunEnds
  <1>4. \E k \in 1 .. Len(jobs[b]) : \E j \in Job :
            jobs' = [jobs EXCEPT ![b][k] = j] /\ Onward(b, jobs[b][k], j)
    <2>1. CASE ProviderCancels(b)
      <3> DEFINE k == cancelling[b]
                 j == [jobs[b][k] EXCEPT !.cancelled = TRUE]
      <3>1. k \in 1 .. Len(jobs[b]) /\ jobs' = [jobs EXCEPT ![b][k] = j]
        BY <1>1, <2>1 DEF ProviderCancels
      <3>2. j \in Job /\ Onward(b, jobs[b][k], j)
        BY <1>2, <3>1, JobMoves
      <3> QED
        BY <3>1, <3>2
    <2>2. ASSUME NEW k \in 1 .. Len(jobs[b]), JobEnds(b, k)
          PROVE  \E j \in Job : jobs' = [jobs EXCEPT ![b][k] = j] /\ Onward(b, jobs[b][k], j)
      <3>1. PICK ok \in SUBSET jobs[b][k].items :
               jobs' = [jobs EXCEPT ![b][k].ended = TRUE, ![b][k].ok = ok,
                                    ![b][k].bad = jobs[b][k].items \ ok]
        BY <2>2 DEF JobEnds
      <3> DEFINE j == [jobs[b][k] EXCEPT !.ended = TRUE, !.ok = ok, !.bad = jobs[b][k].items \ ok]
      <3>2. jobs' = [jobs EXCEPT ![b][k] = j]
        BY <1>1, <1>2, <3>1 DEF TypeOK
      <3>3. j \in Job /\ Onward(b, jobs[b][k], j)
        BY <1>2, <2>2, JobMoves DEF JobEnds
      <3> QED
        BY <3>2, <3>3
    <2>3. ASSUME NEW k \in 1 .. Len(jobs[b]), ItemEnds(b, k)
          PROVE  \E j \in Job : jobs' = [jobs EXCEPT ![b][k] = j] /\ Onward(b, jobs[b][k], j)
      <3>1. PICK i \in jobs[b][k].items \ (jobs[b][k].ok \cup jobs[b][k].bad) :
               \/ jobs' = [jobs EXCEPT ![b][k].ok = @ \cup {i}]
               \/ jobs' = [jobs EXCEPT ![b][k].bad = @ \cup {i}]
        BY <2>3 DEF ItemEnds
      <3> DEFINE j == [jobs[b][k] EXCEPT !.ok = jobs[b][k].ok \cup {i}]
                 n == [jobs[b][k] EXCEPT !.bad = jobs[b][k].bad \cup {i}]
      <3>2. jobs' = [jobs EXCEPT ![b][k] = j] \/ jobs' = [jobs EXCEPT ![b][k] = n]
        BY <1>1, <1>2, <3>1 DEF TypeOK, Job
      <3>3. /\ j \in Job /\ Onward(b, jobs[b][k], j)
            /\ n \in Job /\ Onward(b, jobs[b][k], n)
        BY <1>2, <2>3, JobMoves DEF ItemEnds
      <3> QED
        BY <3>2, <3>3
    <2>4. ASSUME NEW k \in 1 .. Len(jobs[b]), RunEnds(b, k)
          PROVE  \E j \in Job : jobs' = [jobs EXCEPT ![b][k] = j] /\ Onward(b, jobs[b][k], j)
      <3>1. CASE jobs' = [jobs EXCEPT ![b][k].ended = TRUE]
        <4> DEFINE j == [jobs[b][k] EXCEPT !.ended = TRUE]
        <4>1. jobs' = [jobs EXCEPT ![b][k] = j]
          BY <3>1
        <4>2. j \in Job /\ Onward(b, jobs[b][k], j)
          BY <1>2, <2>4, JobMoves DEF RunEnds
        <4> QED
          BY <4>1, <4>2
      <3>2. ASSUME NEW i \in jobs[b][k].items \ (jobs[b][k].ok \cup jobs[b][k].bad),
                   \/ jobs' = [jobs EXCEPT ![b][k].ended = TRUE, ![b][k].ok = @ \cup {i}]
                   \/ jobs' = [jobs EXCEPT ![b][k].ended = TRUE, ![b][k].bad = @ \cup {i}]
            PROVE  \E j \in Job : jobs' = [jobs EXCEPT ![b][k] = j] /\ Onward(b, jobs[b][k], j)
        <4> DEFINE j == [jobs[b][k] EXCEPT !.ended = TRUE, !.ok = jobs[b][k].ok \cup {i}]
                   n == [jobs[b][k] EXCEPT !.ended = TRUE, !.bad = jobs[b][k].bad \cup {i}]
        <4>1. jobs' = [jobs EXCEPT ![b][k] = j] \/ jobs' = [jobs EXCEPT ![b][k] = n]
          <5>1. jobs[b][k] \in Job
            BY <1>1, <1>2 DEF TypeOK
          <5>2. CASE jobs' = [jobs EXCEPT ![b][k].ended = TRUE, ![b][k].ok = @ \cup {i}]
            BY <1>1, <1>2, <5>1, <5>2 DEF TypeOK, Job
          <5>3. CASE jobs' = [jobs EXCEPT ![b][k].ended = TRUE, ![b][k].bad = @ \cup {i}]
            BY <1>1, <1>2, <5>1, <5>3 DEF TypeOK, Job
          <5> QED
            BY <3>2, <5>2, <5>3
        <4>2. /\ j \in Job /\ Onward(b, jobs[b][k], j)
              /\ n \in Job /\ Onward(b, jobs[b][k], n)
          BY <1>2, <2>4, JobMoves DEF RunEnds
        <4> QED
          BY <4>1, <4>2
      <3> QED
        BY <2>4, <3>1, <3>2 DEF RunEnds
    <2> QED
      BY <1>1, <2>1, <2>2, <2>3, <2>4
  <1>5. /\ jobs' \in [Batches -> Seq(Job)]
        /\ \A c \in Batches \ {b} : jobs'[c] = jobs[c]
        /\ JobsOn(b)
    BY <1>4, JobsGoOn
  <1>6. TypeOK'
    BY <1>3, <1>5 DEF TypeOK, memoryVars, callVars
  <1>7. Local(b)
    BY <1>3, <1>5 DEF Local, Apart, memoryVars, callVars
  <1> QED
    BY <1>3, <1>5, <1>6, <1>7

(* What the provider answers, and the job it is asked for.                 *)
LEMMA TypeCalls ==
    ASSUME TypeOK, NEW b \in Batches,
           polls[b].at # "none" => polls[b].seen.job \in 1 .. Len(jobs[b]),
           ProviderAccepts(b) \/ PollAnswers(b)
    PROVE  TypeOK' /\ Local(b) /\ (PollAnswers(b) => JobsOn(b))
  <1>0. /\ jobs[b] \in Seq(Job) /\ memory[b] \in Memory /\ polls[b] \in Poll
        /\ memory[b].requests \subseteq Items /\ polls[b].reply.bad \subseteq Items
    BY DEF TypeOK, Memory, Poll
  <1>1. CASE ProviderAccepts(b)
    <2>1. Submitted(b) \in SUBSET Items
      BY <1>0 DEF Submitted, Retryable
    <2>2. Append(jobs[b], NewJob(Submitted(b))) \in Seq(Job)
      BY <1>0, <2>1, BatchTypes
    <2>3. jobs' \in [Batches -> Seq(Job)] /\ \A c \in Batches \ {b} : jobs'[c] = jobs[c]
      BY <1>1, <2>2 DEF ProviderAccepts, TypeOK
    <2>4. TypeOK' /\ Local(b)
      BY <1>1, <2>3 DEF ProviderAccepts, TypeOK, Local, Apart, memoryVars
    <2>5. ~PollAnswers(b)
      <3>1. wire[b] = "sent" /\ wire'[b] = "accepted"
        BY <1>1 DEF ProviderAccepts, TypeOK
      <3> QED
        BY <3>1 DEF PollAnswers
    <2> QED
      BY <2>4, <2>5
  <1>2. CASE PollAnswers(b)
    <2> DEFINE k == polls[b].seen.job
    <2>1. k \in 1 .. Len(jobs[b]) /\ jobs[b][k] \in Job
      BY <1>0, <1>2, ElementOfSeq DEF PollAnswers
    <2>2. PICK r \in Replies(b) :
             polls' = [polls EXCEPT ![b].at = "answers", ![b].reply = r,
                                    ![b].todo = Fresh(b, r.ok)]
      BY <1>2 DEF PollAnswers
    <2>3. polls' \in [Batches -> Poll] /\ \A c \in Batches \ {b} : polls'[c] = polls[c]
      <3>1. [polls[b] EXCEPT !.at = "answers", !.reply = r, !.todo = Fresh(b, r.ok)] \in Poll
        BY <2>1, ReplyTypes DEF CurrentJob
      <3> QED
        BY <2>2, <3>1 DEF TypeOK
    <2>4. \E h \in BOOLEAN :
             jobs' = [jobs EXCEPT ![b][k] = [jobs[b][k] EXCEPT !.forgotten = (jobs[b][k].forgotten \/ h)]]
      <3>1. jobs' = [jobs EXCEPT ![b][k].forgotten =
                              @ \/ (b \notin Durable /\ CurrentJob(b).ended)]
        BY <1>2 DEF PollAnswers
      <3>2. CASE b \notin Durable /\ CurrentJob(b).ended
        BY <3>1, <3>2
      <3>3. CASE ~(b \notin Durable /\ CurrentJob(b).ended)
        BY <3>1, <3>3
      <3> QED
        BY <3>2, <3>3
    <2>5. /\ jobs' \in [Batches -> Seq(Job)]
          /\ \A c \in Batches \ {b} : jobs'[c] = jobs[c]
          /\ JobsOn(b)
      <3>1. PICK h \in BOOLEAN :
               jobs' = [jobs EXCEPT ![b][k] = [jobs[b][k] EXCEPT !.forgotten = (jobs[b][k].forgotten \/ h)]]
        BY <2>4
      <3> DEFINE j == [jobs[b][k] EXCEPT !.forgotten = (jobs[b][k].forgotten \/ h)]
      <3>2. j \in Job /\ Onward(b, jobs[b][k], j)
        BY <2>1, JobMoves
      <3>3. jobs' = [jobs EXCEPT ![b][k] = j]
        BY <3>1
      <3> HIDE DEF j
      <3> QED
        BY <2>1, <3>2, <3>3, JobsGoOn
    <2>6. failures' \in [Batches -> Nat]
      BY <1>2 DEF PollAnswers, TypeOK
    <2> QED
      BY <1>2, <2>3, <2>5, <2>6 DEF PollAnswers, TypeOK, Local, Apart
  <1> QED
    BY <1>1, <1>2

(* A reconciliation, an outcome at a time.                                 *)
LEMMA TypeItems ==
    ASSUME TypeOK, NEW b \in Batches,
           \/ \E i \in polls[b].todo :
                 \/ SkipAnswered(b, i)
                 \/ \E written \in BOOLEAN : RecordAnswer(b, i, written)
                 \/ RecordFailure(b, i)
           \/ \E written \in BOOLEAN : StoreAnswer(b, written)
    PROVE  TypeOK' /\ Local(b) /\ UNCHANGED <<rows, phase, inFlight, timers, wire, cancelling, jobs>>
  <1>0. /\ memory[b] \in Memory /\ polls[b] \in Poll /\ polls[b].todo \in SUBSET Items
        /\ polls[b].open \in Items \cup {None} /\ used \in Bounds
        /\ polls[b].succeeded + 1 \in Nat /\ polls[b].failed + 1 \in Nat
    BY DEF TypeOK, Poll
  <1>1. \A i \in Items : Remember(b, i) =>
             memory' \in [Batches -> Memory] /\ \A c \in Batches \ {b} : memory'[c] = memory[c]
    <2>1. \A i \in Items :
             [memory[b] EXCEPT !.reconciled = memory[b].reconciled \cup {i}] \in Memory
      BY <1>0 DEF Memory
    <2> QED
      BY <2>1 DEF Remember, TypeOK
  <1>2. /\ [used EXCEPT !.writes = @ + 1] \in Bounds
        /\ [used EXCEPT !.writes = @ + 1].writes # 0
        /\ [used EXCEPT !.writes = @ + 1].cancels = used.cancels
    BY <1>0 DEF Bounds
  <1>3. ASSUME NEW i \in polls[b].todo, SkipAnswered(b, i) \/ RecordFailure(b, i)
        PROVE  TypeOK' /\ Local(b) /\ UNCHANGED <<rows, phase, inFlight, timers, wire, cancelling, jobs>>
    <2>1. /\ [polls[b] EXCEPT !.todo = polls[b].todo \ {i}, !.succeeded = polls[b].succeeded + 1] \in Poll
          /\ [polls[b] EXCEPT !.todo = polls[b].todo \ {i}, !.failed = polls[b].failed + 1] \in Poll
      BY <1>0, PollPatched
    <2>2. polls' \in [Batches -> Poll] /\ \A c \in Batches \ {b} : polls'[c] = polls[c]
      BY <1>3, <2>1 DEF SkipAnswered, RecordFailure, TypeOK
    <2>3. memory' \in [Batches -> Memory] /\ \A c \in Batches \ {b} : memory'[c] = memory[c]
      BY <1>0, <1>1, <1>3 DEF SkipAnswered, RecordFailure
    <2>4. UNCHANGED <<rows, answers, logged, phase, inFlight, failures, timers, wire,
                      cancelling, jobs, used>>
      BY <1>3 DEF SkipAnswered, RecordFailure
    <2> QED
      BY <2>2, <2>3, <2>4 DEF TypeOK, Local, Apart
  <1>4. ASSUME NEW i \in polls[b].todo, NEW written \in BOOLEAN, RecordAnswer(b, i, written)
        PROVE  TypeOK' /\ Local(b) /\ UNCHANGED <<rows, phase, inFlight, timers, wire, cancelling, jobs>>
    <2>1. [polls[b] EXCEPT !.open = i] \in Poll
      BY <1>0 DEF Poll
    <2>2. polls' \in [Batches -> Poll] /\ \A c \in Batches \ {b} : polls'[c] = polls[c]
      BY <1>4, <2>1 DEF RecordAnswer, TypeOK
    <2>3. logged' \in [Batches -> [Items -> Nat]]
      <3>1. /\ logged \in [Batches -> [Items -> Nat]] /\ logged[b] \in [Items -> Nat]
            /\ i \in Items /\ logged[b][i] + 1 \in Nat
        BY <1>0 DEF TypeOK
      <3>2. [logged[b] EXCEPT ![i] = logged[b][i] + 1] \in [Items -> Nat]
        BY <3>1
      <3>3. \/ logged' = logged
            \/ logged' = [logged EXCEPT ![b] = [logged[b] EXCEPT ![i] = logged[b][i] + 1]]
        BY <1>4, <3>1 DEF RecordAnswer
      <3> QED
        BY <3>1, <3>2, <3>3
    <2>4. used' \in Bounds /\ (used'.writes = 0 => used.writes = 0) /\ used'.cancels = used.cancels
      BY <1>0, <1>2, <1>4 DEF RecordAnswer
    <2>5. UNCHANGED <<rows, answers, phase, memoryVars, wire, cancelling, jobs>>
      BY <1>4 DEF RecordAnswer
    <2> QED
      BY <2>2, <2>3, <2>4, <2>5 DEF TypeOK, Local, Apart, memoryVars
  <1>5. ASSUME NEW written \in BOOLEAN, StoreAnswer(b, written)
        PROVE  TypeOK' /\ Local(b) /\ UNCHANGED <<rows, phase, inFlight, timers, wire, cancelling, jobs>>
    <2> DEFINE i == polls[b].open
    <2>0. i \in Items
      BY <1>0, <1>5 DEF StoreAnswer
    <2>1. [polls[b] EXCEPT !.todo = polls[b].todo \ {i}, !.open = None,
                           !.succeeded = polls[b].succeeded + 1] \in Poll
      BY <1>0, PollPatched
    <2>2. polls' \in [Batches -> Poll] /\ \A c \in Batches \ {b} : polls'[c] = polls[c]
      BY <1>5, <2>1 DEF StoreAnswer, TypeOK
    <2>3. answers' \subseteq Items /\ answers \subseteq answers'
      BY <1>5, <2>0 DEF StoreAnswer, TypeOK
    <2>4. used' \in Bounds /\ (used'.writes = 0 => used.writes = 0) /\ used'.cancels = used.cancels
      BY <1>0, <1>2, <1>5 DEF StoreAnswer
    <2>5. memory' \in [Batches -> Memory] /\ \A c \in Batches \ {b} : memory'[c] = memory[c]
      BY <1>1, <1>5, <2>0 DEF StoreAnswer
    <2>6. UNCHANGED <<rows, logged, phase, inFlight, failures, timers, wire, cancelling, jobs>>
      BY <1>5 DEF StoreAnswer
    <2> QED
      BY <2>2, <2>3, <2>4, <2>5, <2>6 DEF TypeOK, Local, Apart
  <1> QED
    BY <1>3, <1>4, <1>5

(* The end of a turn, and the cancellation of a row.                       *)
LEMMA TypeTurn ==
    ASSUME TypeOK, NEW b \in Batches,
           \/ KeepPolling(b) \/ Resubmit(b) \/ ResubmitReturns(b) \/ ResubmitFails(b)
           \/ NoMoreRetries(b) \/ Finish(b)
    PROVE  TypeOK' /\ Local(b)
  <1>0. /\ rows[b] \in Row /\ polls[b] \in Poll /\ memory[b] \in Memory
        /\ Len(jobs[b]) \in Nat /\ memory[b].retries + 1 \in Nat
        /\ polls[b].seen.succeeded + polls[b].succeeded \in Nat
        /\ polls[b].seen.failed + polls[b].failed \in Nat
        /\ polls[b].reply.status \in ReplyStatus /\ Fresh(b, polls[b].reply.bad) \in SUBSET Items
    <2>1. jobs[b] \in Seq(Job)
      BY DEF TypeOK
    <2>2. Len(jobs[b]) \in Nat
      BY <2>1, LenProperties
    <2>3. rows[b] \in Row /\ polls[b] \in Poll /\ memory[b] \in Memory
      BY DEF TypeOK
    <2>4. memory[b].retries + 1 \in Nat
      BY <2>3 DEF Memory
    <2>5. /\ polls[b].seen \in Row /\ polls[b].succeeded \in Nat /\ polls[b].failed \in Nat
          /\ polls[b].reply.status \in ReplyStatus /\ polls[b].reply.bad \subseteq Items
      BY <2>3 DEF Poll
    <2>6. polls[b].seen.succeeded \in Nat /\ polls[b].seen.failed \in Nat
      BY <2>5 DEF Row
    <2>7. Fresh(b, polls[b].reply.bad) \in SUBSET Items
      BY <2>5 DEF Fresh
    <2>8. polls[b].seen.succeeded + polls[b].succeeded \in Nat
      BY <2>5, <2>6
    <2>9. polls[b].seen.failed + polls[b].failed \in Nat
      BY <2>5, <2>6
    <2> QED
      BY <2>2, <2>3, <2>4, <2>5, <2>7, <2>8, <2>9
  <1> DEFINE n == polls[b].seen.succeeded + polls[b].succeeded
             m == polls[b].seen.failed + polls[b].failed
  <1>1. ReplyStatus \subseteq Active \cup Final \cup {"absent"}
    BY DEF ReplyStatus, Active, Final
  <1>2. /\ [rows[b] EXCEPT !.status = "in_progress", !.succeeded = n] \in Row
        /\ [rows[b] EXCEPT !.status = "in_progress", !.job = Len(jobs[b]), !.succeeded = n] \in Row
        /\ [rows[b] EXCEPT !.status = polls[b].reply.status, !.succeeded = n, !.failed = m] \in Row
    <2>1. "in_progress" \in Active \cup Final \cup {"absent"}
      BY DEF Active
    <2> HIDE DEF n, m
    <2>2. n \in Nat /\ m \in Nat
      BY <1>0 DEF n, m
    <2> QED
      BY <1>0, <1>1, <2>1, <2>2, RowPatched
  <1>3. CASE KeepPolling(b)
    <2>1. rows' \in [Batches -> Row] /\ \A c \in Batches \ {b} : rows'[c] = rows[c]
      BY <1>2, <1>3 DEF KeepPolling, TypeOK
    <2>2. polls' \in [Batches -> Poll] /\ \A c \in Batches \ {b} : polls'[c] = polls[c]
      BY <1>3, BatchTypes DEF KeepPolling, TypeOK
    <2> QED
      BY <1>3, <2>1, <2>2 DEF KeepPolling, Schedule, TypeOK, Local, Apart
  <1>4. CASE Resubmit(b)
    <2>1. memory' \in [Batches -> Memory] /\ \A c \in Batches \ {b} : memory'[c] = memory[c]
      <3>1. [memory[b] EXCEPT !.retries = memory[b].retries + 1] \in Memory
        BY <1>0 DEF Memory
      <3> QED
        BY <1>4, <3>1 DEF Resubmit, TypeOK
    <2>2. polls' \in [Batches -> Poll] /\ \A c \in Batches \ {b} : polls'[c] = polls[c]
      <3>1. [polls[b] EXCEPT !.at = "resubmitting"] \in Poll
        BY <1>0 DEF Poll
      <3> QED
        BY <1>4, <3>1 DEF Resubmit, TypeOK
    <2> QED
      BY <1>4, <2>1, <2>2 DEF Resubmit, TypeOK, Local, Apart
  <1>5. CASE ResubmitReturns(b)
    <2>1. rows' \in [Batches -> Row] /\ \A c \in Batches \ {b} : rows'[c] = rows[c]
      BY <1>2, <1>5 DEF ResubmitReturns, TypeOK
    <2>2. polls' \in [Batches -> Poll] /\ \A c \in Batches \ {b} : polls'[c] = polls[c]
      BY <1>5, BatchTypes DEF ResubmitReturns, TypeOK
    <2> QED
      BY <1>5, <2>1, <2>2 DEF ResubmitReturns, Schedule, TypeOK, Local, Apart
  <1>6. CASE ResubmitFails(b) \/ NoMoreRetries(b)
    <2>1. polls' \in [Batches -> Poll] /\ \A c \in Batches \ {b} : polls'[c] = polls[c]
      <3>1. [polls[b] EXCEPT !.at = "failures", !.todo = Fresh(b, polls[b].reply.bad)] \in Poll
        BY <1>0 DEF Poll
      <3> QED
        BY <1>6, <3>1 DEF ResubmitFails, NoMoreRetries, CountFailures, TypeOK
    <2> QED
      BY <1>6, <2>1 DEF ResubmitFails, NoMoreRetries, TypeOK, Local, Apart, memoryVars
  <1>7. CASE Finish(b)
    <2>1. rows' \in [Batches -> Row] /\ \A c \in Batches \ {b} : rows'[c] = rows[c]
      BY <1>2, <1>7 DEF Finish, TypeOK
    <2>2. polls' \in [Batches -> Poll] /\ \A c \in Batches \ {b} : polls'[c] = polls[c]
      BY <1>7, BatchTypes DEF Finish, TypeOK
    <2> QED
      BY <1>7, <2>1, <2>2 DEF Finish, TypeOK, Local, Apart
  <1> QED
    BY <1>3, <1>4, <1>5, <1>6, <1>7

(* A cancellation keeps the types and touches its batch only.              *)
LEMMA TypeCancel ==
    ASSUME TypeOK, NEW b \in Batches, rows[b].job <= Len(jobs[b]),
           Cancel(b) \/ CancelReturns(b)
    PROVE  TypeOK' /\ Local(b) /\ JobsOn(b)
  <1>0. /\ rows[b] \in Row /\ rows[b].job \in Nat /\ jobs[b] \in Seq(Job) /\ used \in Bounds
        /\ "cancelled" \in Active \cup Final \cup {"absent"}
    BY DEF TypeOK, Row, Final
  <1>1. CancelRow(b) => /\ rows' \in [Batches -> Row] /\ \A c \in Batches \ {b} : rows'[c] = rows[c]
                        /\ inFlight' = inFlight \ {b} /\ failures' \in [Batches -> Nat]
    <2>1. [rows[b] EXCEPT !.status = "cancelled"] \in Row
      BY <1>0, RowPatched
    <2> QED
      BY <2>1 DEF CancelRow, TypeOK
  <1>2. CASE Cancel(b)
    <2>1. used' \in Bounds /\ used'.writes = used.writes /\ used'.cancels # 0
      <3>1. used' = [used EXCEPT !.cancels = @ + 1]
        BY <1>2 DEF Cancel
      <3> QED
        BY <1>0, <3>1 DEF Bounds
    <2>2. \/ CancelRow(b)
          \/ UNCHANGED <<rows, inFlight, failures>>
      BY <1>2 DEF Cancel
    <2>3. /\ jobs' \in [Batches -> Seq(Job)]
          /\ \A c \in Batches \ {b} : jobs'[c] = jobs[c]
          /\ JobsOn(b)
      <3>1. CASE jobs' = jobs
        BY <3>1, JobsGoOn DEF TypeOK
      <3>2. CASE jobs' # jobs
        <4> DEFINE k == rows[b].job
                   j == [jobs[b][k] EXCEPT !.cancelled = TRUE]
        <4>1. k # 0 /\ jobs' = [jobs EXCEPT ![b][k].cancelled = TRUE]
          BY <1>2, <3>2 DEF Cancel
        <4>2. k \in 1 .. Len(jobs[b]) /\ jobs[b][k] \in Job
          BY <1>0, <4>1, ElementOfSeq
        <4>3. j \in Job /\ Onward(b, jobs[b][k], j)
          BY <4>2, JobMoves
        <4>4. jobs' = [jobs EXCEPT ![b][k] = j]
          BY <4>1
        <4> HIDE DEF j
        <4> QED
          BY <4>2, <4>3, <4>4, JobsGoOn
      <3> QED
        BY <3>1, <3>2
    <2>4. cancelling' \in [Batches -> Nat] /\ \A c \in Batches \ {b} : cancelling'[c] = cancelling[c]
      BY <1>0, <1>2 DEF Cancel, TypeOK
    <2>5. UNCHANGED <<answers, logged, phase, memory, timers, wire, polls>>
      BY <1>2 DEF Cancel
    <2>6. TypeOK'
      BY <1>1, <2>1, <2>2, <2>3, <2>4, <2>5 DEF TypeOK
    <2>7. Local(b)
      BY <1>1, <2>1, <2>2, <2>3, <2>4, <2>5 DEF Local, Apart
    <2> QED
      BY <2>3, <2>6, <2>7
  <1>3. CASE CancelReturns(b)
    <2>1. TypeOK'
      BY <1>1, <1>3 DEF CancelReturns, TypeOK
    <2>2. Local(b)
      BY <1>1, <1>3 DEF CancelReturns, Local, Apart, TypeOK
    <2> QED
      BY <1>3, <2>1, <2>2, JobsGoOn DEF CancelReturns
  <1> QED
    BY <1>2, <1>3
-----------------------------------------------------------------------------
(* What each step does to its batch.                                       *)
Same(b) ==
    /\ memory'[b] = memory[b] /\ cancelling'[b] = cancelling[b] /\ jobs'[b] = jobs[b]

(* What a submission does, and when.                                       *)
LEMMA SubmitEffects ==
    ASSUME TypeOK, NEW b \in Batches
    PROVE  /\ SubmitBatch(b) =>
                /\ phase = "up" /\ Quiet /\ rows[b].status = "absent"
                /\ polls'[b] = polls[b] /\ cancelling'[b] = cancelling[b] /\ jobs'[b] = jobs[b]
                /\ b \in timers' <=> b \in timers
                /\ rows'[b].job = rows[b].job /\ rows'[b].failed = rows[b].failed
                /\ \/ /\ rows'[b].status = "completed" /\ Work[b] \subseteq answers
                      /\ rows'[b].succeeded = Cardinality(Work[b])
                      /\ memory'[b] = memory[b] /\ wire'[b] = wire[b]
                      /\ b \in inFlight' <=> b \in inFlight
                   \/ /\ rows'[b].status = "submitting" /\ rows'[b].succeeded = rows[b].succeeded
                      /\ b \in inFlight' /\ wire'[b] = "sent"
                      /\ memory'[b].requests = Work[b] \ answers
                      /\ memory'[b].reconciled = memory[b].reconciled
                      /\ memory'[b].retries = memory[b].retries
           /\ SubmitReturns(b) =>
                /\ phase # "down" /\ polls[b].at = "none" /\ wire[b] = "accepted"
                /\ Same(b) /\ polls'[b] = polls[b] /\ wire'[b] = "none" /\ b \in timers'
                /\ b \in inFlight' <=> b \in inFlight
                /\ rows'[b].status = "submitted" /\ rows'[b].job = Len(jobs[b])
                /\ rows'[b].succeeded = Cardinality(Work[b] \ memory[b].requests)
                /\ rows'[b].failed = rows[b].failed
           /\ SubmitFails(b) =>
                /\ phase # "down" /\ b \in Durable /\ polls[b].at = "none" /\ wire[b] # "none"
                /\ Same(b) /\ polls'[b] = polls[b] /\ wire'[b] = "none" /\ b \notin inFlight'
                /\ b \in timers' <=> b \in timers
                /\ rows'[b].status = "failed" /\ rows'[b].job = rows[b].job
                /\ rows'[b].succeeded = rows[b].succeeded /\ rows'[b].failed = rows[b].failed
  <1>0. rows[b] \in Row /\ memory[b] \in Memory
    BY DEF TypeOK
  <1>1. ASSUME SubmitBatch(b), Work[b] \ answers # {}
        PROVE  /\ memory'[b].requests = Work[b] \ answers
               /\ memory'[b].reconciled = memory[b].reconciled
               /\ memory'[b].retries = memory[b].retries
    <2>1. memory'[b] = [memory[b] EXCEPT !.requests = Work[b] \ answers]
      BY <1>1 DEF SubmitBatch, TypeOK
    <2> QED
      BY <1>0, <2>1 DEF Memory
  <1>2. ASSUME SubmitBatch(b)
        PROVE  /\ rows'[b].job = rows[b].job /\ rows'[b].failed = rows[b].failed
               /\ \/ /\ rows'[b].status = "completed" /\ Work[b] \subseteq answers
                     /\ rows'[b].succeeded = Cardinality(Work[b])
                     /\ memory'[b] = memory[b] /\ wire'[b] = wire[b]
                     /\ b \in inFlight' <=> b \in inFlight
                  \/ /\ rows'[b].status = "submitting" /\ rows'[b].succeeded = rows[b].succeeded
                     /\ Work[b] \ answers # {} /\ b \in inFlight' /\ wire'[b] = "sent"
    <2>1. CASE Work[b] \ answers = {}
      <3>1. rows'[b] = [rows[b] EXCEPT !.status = "completed", !.succeeded = Cardinality(Work[b])]
        BY <1>2, <2>1 DEF SubmitBatch, TypeOK
      <3> QED
        BY <1>0, <1>2, <2>1, <3>1 DEF SubmitBatch, Row
    <2>2. CASE Work[b] \ answers # {}
      <3>1. rows'[b] = [rows[b] EXCEPT !.status = "submitting"]
        BY <1>2, <2>2 DEF SubmitBatch, TypeOK
      <3>2. b \in inFlight' /\ wire'[b] = "sent"
        BY <1>2, <2>2 DEF SubmitBatch, TypeOK
      <3> QED
        BY <1>0, <2>2, <3>1, <3>2 DEF Row
    <2> QED
      BY <2>1, <2>2
  <1>3. SubmitReturns(b) =>
          /\ rows'[b].status = "submitted" /\ rows'[b].job = Len(jobs[b])
          /\ rows'[b].succeeded = Cardinality(Work[b] \ memory[b].requests)
          /\ rows'[b].failed = rows[b].failed
    BY <1>0 DEF SubmitReturns, TypeOK, Row
  <1>4. SubmitFails(b) =>
          /\ rows'[b].status = "failed" /\ rows'[b].job = rows[b].job
          /\ rows'[b].succeeded = rows[b].succeeded /\ rows'[b].failed = rows[b].failed
    BY <1>0 DEF SubmitFails, TypeOK, Row
  <1>5. SubmitBatch(b) =>
          /\ phase = "up" /\ Quiet /\ rows[b].status = "absent"
          /\ polls'[b] = polls[b] /\ cancelling'[b] = cancelling[b] /\ jobs'[b] = jobs[b]
          /\ b \in timers' <=> b \in timers
    BY DEF SubmitBatch
  <1>6. SubmitReturns(b) =>
          /\ phase # "down" /\ polls[b].at = "none" /\ wire[b] = "accepted"
          /\ Same(b) /\ polls'[b] = polls[b] /\ wire'[b] = "none" /\ b \in timers'
          /\ b \in inFlight' <=> b \in inFlight
    BY DEF SubmitReturns, Running, Schedule, Same, TypeOK
  <1>7. SubmitFails(b) =>
          /\ phase # "down" /\ b \in Durable /\ polls[b].at = "none" /\ wire[b] # "none"
          /\ Same(b) /\ polls'[b] = polls[b] /\ wire'[b] = "none" /\ b \notin inFlight'
          /\ b \in timers' <=> b \in timers
    BY DEF SubmitFails, Running, Same, TypeOK
  <1> QED
    BY <1>1, <1>2, <1>3, <1>4, <1>5, <1>6, <1>7

(* What the start of a poll does, and when.                                *)
LEMMA PollEffects ==
    ASSUME TypeOK, NEW b \in Batches
    PROVE  /\ PollStarts(b) =>
                /\ phase = "up" /\ Quiet /\ polls[b].at = "none" /\ rows[b].status # "absent"
                /\ wire[b] = "none" /\ b \notin timers'
                /\ Same(b) /\ rows'[b] = rows[b] /\ wire'[b] = wire[b]
                /\ b \in inFlight' <=> b \in inFlight
                /\ \/ polls'[b] = polls[b]
                   \/ /\ rows[b].status \in Active
                      /\ polls'[b].at = "asking" /\ polls'[b].seen = rows[b]
                      /\ polls'[b].held <=> b \in inFlight
                      /\ polls'[b].reply = polls[b].reply /\ polls'[b].todo = polls[b].todo
                      /\ polls'[b].open = polls[b].open
                      /\ polls'[b].succeeded = polls[b].succeeded /\ polls'[b].failed = polls[b].failed
           /\ PollUnresolved(b) =>
                /\ phase = "up" /\ Quiet /\ polls[b].at = "none" /\ b \in timers
                /\ rows[b].status \in Active
                /\ Same(b) /\ polls'[b] = polls[b] /\ wire'[b] = wire[b] /\ b \notin timers'
                /\ b \in inFlight' <=> b \in inFlight
                /\ rows'[b].status = "failed" /\ rows'[b].job = rows[b].job
                /\ rows'[b].succeeded = rows[b].succeeded /\ rows'[b].failed = rows[b].failed
           /\ PollFails(b) =>
                /\ phase # "down" /\ b \in Durable /\ polls[b].at = "asking"
                /\ Same(b) /\ polls'[b] = NoPoll /\ wire'[b] = wire[b]
                /\ b \in inFlight' <=> b \in inFlight
                /\ b \in timers' => b \in timers \/ rows'[b] = rows[b]
                /\ rows'[b].status \in {rows[b].status, "failed"} /\ rows'[b].job = rows[b].job
                /\ rows'[b].succeeded = rows[b].succeeded /\ rows'[b].failed = rows[b].failed
  <1>0. rows[b] \in Row /\ polls[b] \in Poll
    BY DEF TypeOK
  <1>1. ASSUME PollStarts(b)
        PROVE  \/ polls'[b] = polls[b]
               \/ /\ rows[b].status \in Active
                  /\ polls'[b].at = "asking" /\ polls'[b].seen = rows[b]
                  /\ polls'[b].held <=> b \in inFlight
                  /\ polls'[b].reply = polls[b].reply /\ polls'[b].todo = polls[b].todo
                  /\ polls'[b].open = polls[b].open
                  /\ polls'[b].succeeded = polls[b].succeeded /\ polls'[b].failed = polls[b].failed
    <2>1. CASE rows[b].status \in Final
      BY <1>1, <2>1 DEF PollStarts
    <2>2. CASE rows[b].status \notin Final
      <3> DEFINE h == b \in inFlight
      <3>1. polls' = [polls EXCEPT ![b].at = "asking", ![b].seen = rows[b], ![b].held = h]
        BY <1>1, <2>2 DEF PollStarts
      <3>2. h \in BOOLEAN
        BY BoolForm
      <3> HIDE DEF h
      <3>3. polls'[b] = [polls[b] EXCEPT !.at = "asking", !.seen = rows[b], !.held = h]
        BY <3>1 DEF TypeOK
      <3>4. /\ polls'[b].at = "asking" /\ polls'[b].seen = rows[b] /\ polls'[b].held = h
            /\ polls'[b].reply = polls[b].reply /\ polls'[b].todo = polls[b].todo
            /\ polls'[b].open = polls[b].open
            /\ polls'[b].succeeded = polls[b].succeeded /\ polls'[b].failed = polls[b].failed
        BY <1>0, <3>2, <3>3 DEF Poll
      <3>5. rows[b].status \in Active
        BY <1>0, <1>1, <2>2 DEF PollStarts, Row
      <3> QED
        BY <3>2, <3>4, <3>5 DEF h
    <2> QED
      BY <2>1, <2>2
  <1>2. PollStarts(b) =>
          /\ phase = "up" /\ Quiet /\ polls[b].at = "none" /\ rows[b].status # "absent"
          /\ wire[b] = "none" /\ b \notin timers'
          /\ Same(b) /\ rows'[b] = rows[b] /\ wire'[b] = wire[b]
          /\ b \in inFlight' <=> b \in inFlight
    BY DEF PollStarts, Same
  <1>3. PollUnresolved(b) =>
          /\ phase = "up" /\ Quiet /\ polls[b].at = "none" /\ b \in timers
          /\ rows[b].status \in Active
          /\ Same(b) /\ polls'[b] = polls[b] /\ wire'[b] = wire[b] /\ b \notin timers'
          /\ b \in inFlight' <=> b \in inFlight
    BY DEF PollUnresolved, Same, callVars
  <1>4. PollUnresolved(b) =>
          /\ rows'[b].status = "failed" /\ rows'[b].job = rows[b].job
          /\ rows'[b].succeeded = rows[b].succeeded /\ rows'[b].failed = rows[b].failed
    BY <1>0 DEF PollUnresolved, TypeOK, Row
  <1>5. PollFails(b) =>
          /\ phase # "down" /\ b \in Durable /\ polls[b].at = "asking"
          /\ Same(b) /\ polls'[b] = NoPoll /\ wire'[b] = wire[b]
          /\ b \in inFlight' <=> b \in inFlight
    BY DEF PollFails, Running, Same, TypeOK
  <1>6. ASSUME PollFails(b)
        PROVE  /\ b \in timers' => b \in timers \/ rows'[b] = rows[b]
               /\ rows'[b].status \in {rows[b].status, "failed"} /\ rows'[b].job = rows[b].job
               /\ rows'[b].succeeded = rows[b].succeeded /\ rows'[b].failed = rows[b].failed
    <2>1. \/ rows' = [rows EXCEPT ![b].status = "failed"] /\ timers' = timers
          \/ rows' = rows
      BY <1>6 DEF PollFails
    <2> QED
      BY <1>0, <2>1 DEF TypeOK, Row
  <1> QED
    BY <1>1, <1>2, <1>3, <1>4, <1>5, <1>6

(* The reply is what the job asked about gives.                            *)
LEMMA AnswerEffects ==
    ASSUME TypeOK, NEW b \in Batches, PollAnswers(b),
           polls[b].seen.job \in 1 .. Len(jobs[b])
    PROVE  /\ phase = "up" /\ Turn(b) /\ polls[b].at = "asking"
           /\ rows'[b] = rows[b] /\ memory'[b] = memory[b] /\ wire'[b] = wire[b]
           /\ cancelling'[b] = cancelling[b]
           /\ b \in inFlight' <=> b \in inFlight
           /\ b \in timers' <=> b \in timers
           /\ polls'[b].at = "answers" /\ polls'[b].seen = polls[b].seen
           /\ polls'[b].held = polls[b].held /\ polls'[b].open = polls[b].open
           /\ polls'[b].succeeded = polls[b].succeeded /\ polls'[b].failed = polls[b].failed
           /\ \E r \in Replies(b) : /\ polls'[b].reply = r
                                    /\ polls'[b].todo = Fresh(b, r.ok)
  <1>1. jobs[b] \in Seq(Job) /\ polls[b] \in Poll
    BY DEF TypeOK
  <1>2. CurrentJob(b) \in Job
    BY <1>1, ElementOfSeq DEF CurrentJob
  <1>3. PICK r \in Replies(b) :
           polls' = [polls EXCEPT ![b].at = "answers", ![b].reply = r, ![b].todo = Fresh(b, r.ok)]
    BY DEF PollAnswers
  <1>4. /\ r \in [status : ReplyStatus, ok : SUBSET Items, bad : SUBSET Items]
        /\ polls'[b] = [polls[b] EXCEPT !.at = "answers", !.reply = r, !.todo = Fresh(b, r.ok)]
    BY <1>2, <1>3, ReplyTypes DEF TypeOK
  <1>5. /\ polls'[b].at = "answers" /\ polls'[b].seen = polls[b].seen
        /\ polls'[b].held = polls[b].held /\ polls'[b].open = polls[b].open
        /\ polls'[b].succeeded = polls[b].succeeded /\ polls'[b].failed = polls[b].failed
        /\ polls'[b].reply = r /\ polls'[b].todo = Fresh(b, r.ok)
    BY <1>1, <1>4 DEF Poll
  <1> QED
    BY <1>5 DEF PollAnswers

(* The provider's side of a submission: one more job.                      *)
LEMMA AcceptEffects ==
    ASSUME TypeOK, NEW b \in Batches, ProviderAccepts(b)
    PROVE  /\ wire[b] = "sent" /\ wire'[b] = "accepted"
           /\ rows'[b] = rows[b] /\ memory'[b] = memory[b] /\ polls'[b] = polls[b]
           /\ cancelling'[b] = cancelling[b]
           /\ b \in inFlight' <=> b \in inFlight
           /\ b \in timers' <=> b \in timers
           /\ Len(jobs'[b]) = Len(jobs[b]) + 1
           /\ \A k \in 1 .. Len(jobs[b]) : jobs'[b][k] = jobs[b][k]
           /\ jobs'[b][Len(jobs[b]) + 1] = NewJob(Submitted(b))
           /\ Submitted(b) \in SUBSET Items
  <1>1. jobs[b] \in Seq(Job) /\ memory[b].requests \in SUBSET Items /\ polls[b].reply.bad \in SUBSET Items
    BY DEF TypeOK, Memory, Poll
  <1>2. Submitted(b) \in SUBSET Items
    BY <1>1 DEF Submitted, Retryable
  <1>3. jobs'[b] = Append(jobs[b], NewJob(Submitted(b)))
    BY DEF ProviderAccepts, TypeOK
  <1>4. NewJob(Submitted(b)) \in Job
    BY <1>2, BatchTypes
  <1>5. /\ Len(jobs'[b]) = Len(jobs[b]) + 1
        /\ \A k \in 1 .. Len(jobs[b]) : jobs'[b][k] = jobs[b][k]
        /\ jobs'[b][Len(jobs[b]) + 1] = NewJob(Submitted(b))
    BY <1>1, <1>3, <1>4, AppendProperties
  <1> QED
    BY <1>2, <1>5 DEF ProviderAccepts, TypeOK, memoryVars

(* An outcome leaves what is still to reconcile, and is remembered.        *)
Settled(b, i) ==
    /\ polls[b].at \in {"answers", "failures"} /\ i \in polls[b].todo
    /\ polls'[b].at = polls[b].at /\ polls'[b].seen = polls[b].seen
    /\ polls'[b].held = polls[b].held /\ polls'[b].reply = polls[b].reply
    /\ polls'[b].todo = polls[b].todo \ {i} /\ polls'[b].open = None
    /\ memory'[b].requests = memory[b].requests /\ memory'[b].retries = memory[b].retries
    /\ memory'[b].reconciled = (IF polls[b].held THEN memory[b].reconciled \cup {i}
                                ELSE memory[b].reconciled)
    /\ polls'[b].succeeded = polls[b].succeeded + (IF polls[b].at = "answers" THEN 1 ELSE 0)
    /\ polls'[b].failed = polls[b].failed + (IF polls[b].at = "failures" THEN 1 ELSE 0)

(* What one answer of a poll does: it is skipped, recorded or failed.      *)
LEMMA ItemEffects ==
    ASSUME TypeOK, NEW b \in Batches,
           polls[b].open # None => polls[b].at = "answers" /\ polls[b].open \in polls[b].todo,
           \/ \E i \in polls[b].todo :
                 \/ SkipAnswered(b, i)
                 \/ \E written \in BOOLEAN : RecordAnswer(b, i, written)
                 \/ RecordFailure(b, i)
           \/ \E written \in BOOLEAN : StoreAnswer(b, written)
    PROVE  \/ \E i \in Items :
                 /\ Settled(b, i)
                 /\ polls[b].at = "answers" /\ used'.writes = 0 => i \in answers'
           \/ /\ memory'[b] = memory[b] /\ polls[b].at = "answers"
              /\ polls'[b].open \in polls[b].todo
              /\ polls'[b].at = polls[b].at /\ polls'[b].seen = polls[b].seen
              /\ polls'[b].held = polls[b].held /\ polls'[b].reply = polls[b].reply
              /\ polls'[b].todo = polls[b].todo
              /\ polls'[b].succeeded = polls[b].succeeded /\ polls'[b].failed = polls[b].failed
  <1>0. /\ memory[b] \in Memory /\ polls[b] \in Poll /\ polls[b].todo \subseteq Items
        /\ used \in Bounds /\ [used EXCEPT !.writes = @ + 1].writes # 0
        /\ polls[b].succeeded \in Nat /\ polls[b].failed \in Nat
    BY DEF TypeOK, Poll, Bounds
  <1>1. ASSUME NEW i \in Items, Remember(b, i)
        PROVE  /\ memory'[b].requests = memory[b].requests /\ memory'[b].retries = memory[b].retries
               /\ memory'[b].reconciled = (IF polls[b].held THEN memory[b].reconciled \cup {i}
                                           ELSE memory[b].reconciled)
    <2>1. CASE polls[b].held
      <3>1. memory'[b] = [memory[b] EXCEPT !.reconciled = memory[b].reconciled \cup {i}]
        BY <1>1, <2>1 DEF Remember, TypeOK
      <3> QED
        BY <1>0, <2>1, <3>1 DEF Memory
    <2>2. CASE ~polls[b].held
      BY <1>1, <2>2 DEF Remember
    <2> QED
      BY <2>1, <2>2
  <1>2. ASSUME NEW i \in polls[b].todo, SkipAnswered(b, i)
        PROVE  Settled(b, i) /\ i \in answers'
    <2>1. polls'[b] = [polls[b] EXCEPT !.todo = polls[b].todo \ {i}, !.succeeded = polls[b].succeeded + 1]
      BY <1>2 DEF SkipAnswered, TypeOK
    <2>2. /\ polls'[b].at = polls[b].at /\ polls'[b].seen = polls[b].seen
          /\ polls'[b].held = polls[b].held /\ polls'[b].reply = polls[b].reply
          /\ polls'[b].todo = polls[b].todo \ {i} /\ polls'[b].open = polls[b].open
          /\ polls'[b].succeeded = polls[b].succeeded + 1 /\ polls'[b].failed = polls[b].failed
      BY <1>0, <2>1 DEF Poll
    <2>3. polls[b].at = "answers" /\ polls[b].open = None /\ i \in answers' /\ Remember(b, i)
      BY <1>2 DEF SkipAnswered, Answered
    <2> QED
      BY <1>0, <1>1, <2>2, <2>3 DEF Settled
  <1>3. ASSUME NEW i \in polls[b].todo, RecordFailure(b, i)
        PROVE  Settled(b, i) /\ polls[b].at # "answers"
    <2>1. polls'[b] = [polls[b] EXCEPT !.todo = polls[b].todo \ {i}, !.failed = polls[b].failed + 1]
      BY <1>3 DEF RecordFailure, TypeOK
    <2>2. /\ polls'[b].at = polls[b].at /\ polls'[b].seen = polls[b].seen
          /\ polls'[b].held = polls[b].held /\ polls'[b].reply = polls[b].reply
          /\ polls'[b].todo = polls[b].todo \ {i} /\ polls'[b].open = polls[b].open
          /\ polls'[b].succeeded = polls[b].succeeded /\ polls'[b].failed = polls[b].failed + 1
      BY <1>0, <2>1 DEF Poll
    <2>3. polls[b].at = "failures" /\ polls[b].open = None /\ Remember(b, i)
      BY <1>3 DEF RecordFailure
    <2> QED
      BY <1>0, <1>1, <2>2, <2>3 DEF Settled
  <1>4. ASSUME NEW written \in BOOLEAN, StoreAnswer(b, written)
        PROVE  \E i \in Items : Settled(b, i) /\ (used'.writes = 0 => i \in answers')
    <2> DEFINE i == polls[b].open
    <2>1. i \in polls[b].todo /\ polls[b].at = "answers" /\ Remember(b, i)
      BY <1>4 DEF StoreAnswer
    <2>2. polls'[b] = [polls[b] EXCEPT !.todo = polls[b].todo \ {i}, !.open = None,
                                       !.succeeded = polls[b].succeeded + 1]
      BY <1>4 DEF StoreAnswer, TypeOK
    <2>3. /\ polls'[b].at = polls[b].at /\ polls'[b].seen = polls[b].seen
          /\ polls'[b].held = polls[b].held /\ polls'[b].reply = polls[b].reply
          /\ polls'[b].todo = polls[b].todo \ {i} /\ polls'[b].open = None
          /\ polls'[b].succeeded = polls[b].succeeded + 1 /\ polls'[b].failed = polls[b].failed
      BY <1>0, <2>2 DEF Poll
    <2>4. used'.writes = 0 => i \in answers'
      BY <1>0, <1>4 DEF StoreAnswer
    <2>5. i \in Items
      BY <1>0, <2>1
    <2> HIDE DEF i
    <2>6. Settled(b, i)
      <3>1. /\ memory'[b].requests = memory[b].requests /\ memory'[b].retries = memory[b].retries
            /\ memory'[b].reconciled = (IF polls[b].held THEN memory[b].reconciled \cup {i}
                                        ELSE memory[b].reconciled)
        BY <1>1, <2>1, <2>5
      <3> QED
        BY <1>0, <2>1, <2>3, <3>1 DEF Settled
    <2> QED
      BY <2>4, <2>5, <2>6
  <1>5. ASSUME NEW i \in polls[b].todo, NEW written \in BOOLEAN, RecordAnswer(b, i, written)
        PROVE  /\ memory'[b] = memory[b] /\ polls[b].at = "answers"
               /\ polls'[b].open \in polls[b].todo
               /\ polls'[b].at = polls[b].at /\ polls'[b].seen = polls[b].seen
               /\ polls'[b].held = polls[b].held /\ polls'[b].reply = polls[b].reply
               /\ polls'[b].todo = polls[b].todo
               /\ polls'[b].succeeded = polls[b].succeeded /\ polls'[b].failed = polls[b].failed
    <2>1. polls'[b] = [polls[b] EXCEPT !.open = i]
      BY <1>5 DEF RecordAnswer, TypeOK
    <2>2. memory'[b] = memory[b] /\ polls[b].at = "answers"
      BY <1>5 DEF RecordAnswer, memoryVars
    <2> QED
      BY <1>0, <2>1, <2>2 DEF Poll
  <1> QED
    BY <1>0, <1>2, <1>3, <1>4, <1>5

(* The row counts what the poll has counted.                               *)
Counts(b, k) ==
    /\ rows'[b].job = k
    /\ rows'[b].succeeded = polls[b].seen.succeeded + polls[b].succeeded

SamePoll(b) ==
    /\ polls'[b].seen = polls[b].seen /\ polls'[b].held = polls[b].held
    /\ polls'[b].reply = polls[b].reply /\ polls'[b].open = polls[b].open
    /\ polls'[b].succeeded = polls[b].succeeded /\ polls'[b].failed = polls[b].failed

SameRow(b) ==
    /\ rows'[b].job = rows[b].job
    /\ rows'[b].succeeded = rows[b].succeeded /\ rows'[b].failed = rows[b].failed

(* How a poll goes on when its answers are read: another poll, a job for   *)
(* what failed, or the end.                                                *)
LEMMA TurnEffects ==
    ASSUME TypeOK, NEW b \in Batches
    PROVE  /\ KeepPolling(b) \/ ResubmitReturns(b) =>
                /\ \/ /\ polls[b].at = "answers" /\ polls[b].todo = {} /\ wire'[b] = wire[b]
                      /\ polls[b].reply.status = "in_progress" /\ Counts(b, rows[b].job)
                   \/ /\ polls[b].at = "resubmitting" /\ wire[b] = "accepted"
                      /\ wire'[b] = "none" /\ Counts(b, Len(jobs[b]))
                /\ Same(b) /\ polls'[b] = NoPoll /\ b \in timers'
                /\ b \in inFlight' <=> b \in inFlight
                /\ rows'[b].status = "in_progress" /\ rows'[b].failed = rows[b].failed
           /\ Resubmit(b) =>
                /\ polls[b].at = "answers" /\ polls[b].todo = {} /\ WillRetry(b)
                /\ rows'[b] = rows[b] /\ jobs'[b] = jobs[b] /\ cancelling'[b] = cancelling[b]
                /\ b \in inFlight' <=> b \in inFlight
                /\ b \in timers' <=> b \in timers
                /\ wire'[b] = "sent" /\ polls'[b].at = "resubmitting"
                /\ polls'[b].todo = polls[b].todo /\ SamePoll(b)
                /\ memory'[b].requests = memory[b].requests
                /\ memory'[b].reconciled = memory[b].reconciled
                /\ memory'[b].retries = memory[b].retries + 1
           /\ ResubmitFails(b) \/ NoMoreRetries(b) =>
                /\ \/ /\ polls[b].at = "resubmitting" /\ wire'[b] = "none" /\ b \in Durable
                   \/ /\ polls[b].at = "answers" /\ polls[b].todo = {} /\ wire'[b] = wire[b]
                      /\ polls[b].reply.status # "in_progress"
                /\ Same(b) /\ rows'[b] = rows[b]
                /\ b \in inFlight' <=> b \in inFlight
                /\ b \in timers' <=> b \in timers
                /\ polls'[b].at = "failures" /\ polls'[b].todo = Fresh(b, polls[b].reply.bad)
                /\ SamePoll(b)
           /\ Finish(b) =>
                /\ polls[b].at = "failures" /\ polls[b].todo = {}
                /\ Same(b) /\ polls'[b] = NoPoll /\ wire'[b] = wire[b] /\ b \notin inFlight'
                /\ b \in timers' <=> b \in timers
                /\ rows'[b].status = polls[b].reply.status /\ Counts(b, rows[b].job)
                /\ rows'[b].failed = polls[b].seen.failed + polls[b].failed
  <1>0. /\ rows[b] \in Row /\ polls[b] \in Poll /\ memory[b] \in Memory
    BY DEF TypeOK
  <1> DEFINE n == polls[b].seen.succeeded + polls[b].succeeded
             m == polls[b].seen.failed + polls[b].failed
  <1>1. ASSUME KeepPolling(b)
        PROVE  /\ polls[b].at = "answers" /\ polls[b].todo = {} /\ wire'[b] = wire[b]
               /\ polls[b].reply.status = "in_progress" /\ Counts(b, rows[b].job)
               /\ Same(b) /\ polls'[b] = NoPoll /\ b \in timers'
               /\ b \in inFlight' <=> b \in inFlight
               /\ rows'[b].status = "in_progress" /\ rows'[b].failed = rows[b].failed
    <2>1. rows'[b] = [rows[b] EXCEPT !.status = "in_progress", !.succeeded = n]
      BY <1>1 DEF KeepPolling, TypeOK
    <2>2. /\ rows'[b].status = "in_progress" /\ rows'[b].failed = rows[b].failed
          /\ rows'[b].job = rows[b].job /\ rows'[b].succeeded = n
      BY <1>0, <2>1 DEF Row
    <2>3. polls'[b] = NoPoll /\ b \in timers' /\ inFlight' = inFlight /\ Same(b) /\ wire' = wire
      BY <1>1 DEF KeepPolling, Schedule, Same, TypeOK
    <2> QED
      BY <1>1, <2>2, <2>3 DEF KeepPolling, AnswersDone, Counts
  <1>2. ASSUME ResubmitReturns(b)
        PROVE  /\ polls[b].at = "resubmitting" /\ wire[b] = "accepted"
               /\ wire'[b] = "none" /\ Counts(b, Len(jobs[b]))
               /\ Same(b) /\ polls'[b] = NoPoll /\ b \in timers'
               /\ b \in inFlight' <=> b \in inFlight
               /\ rows'[b].status = "in_progress" /\ rows'[b].failed = rows[b].failed
    <2>1. rows'[b] = [rows[b] EXCEPT !.status = "in_progress", !.job = Len(jobs[b]), !.succeeded = n]
      BY <1>2 DEF ResubmitReturns, TypeOK
    <2>2. /\ rows'[b].status = "in_progress" /\ rows'[b].failed = rows[b].failed
          /\ rows'[b].job = Len(jobs[b]) /\ rows'[b].succeeded = n
      BY <1>0, <2>1 DEF Row
    <2>3. /\ polls'[b] = NoPoll /\ b \in timers' /\ inFlight' = inFlight /\ Same(b)
          /\ wire'[b] = "none"
      BY <1>2 DEF ResubmitReturns, Schedule, Same, TypeOK
    <2> QED
      BY <1>2, <2>2, <2>3 DEF ResubmitReturns, Counts
  <1>3. ASSUME Resubmit(b)
        PROVE  /\ wire'[b] = "sent" /\ polls'[b].at = "resubmitting"
               /\ polls'[b].todo = polls[b].todo /\ SamePoll(b)
               /\ memory'[b].requests = memory[b].requests
               /\ memory'[b].reconciled = memory[b].reconciled
               /\ memory'[b].retries = memory[b].retries + 1
    <2>1. polls'[b] = [polls[b] EXCEPT !.at = "resubmitting"] /\ wire'[b] = "sent"
      BY <1>3 DEF Resubmit, TypeOK
    <2>2. memory'[b] = [memory[b] EXCEPT !.retries = memory[b].retries + 1]
      BY <1>3 DEF Resubmit, TypeOK
    <2> QED
      BY <1>0, <2>1, <2>2 DEF Poll, Memory, SamePoll
  <1>4. ASSUME ResubmitFails(b) \/ NoMoreRetries(b)
        PROVE  /\ polls'[b].at = "failures" /\ polls'[b].todo = Fresh(b, polls[b].reply.bad)
               /\ SamePoll(b)
    <2>1. polls'[b] = [polls[b] EXCEPT !.at = "failures", !.todo = Fresh(b, polls[b].reply.bad)]
      BY <1>4 DEF ResubmitFails, NoMoreRetries, CountFailures, TypeOK
    <2> QED
      BY <1>0, <2>1 DEF Poll, SamePoll
  <1>5. ASSUME Finish(b)
        PROVE  /\ rows'[b].status = polls[b].reply.status /\ Counts(b, rows[b].job)
               /\ rows'[b].failed = m
    <2>1. rows'[b] = [rows[b] EXCEPT !.status = polls[b].reply.status, !.succeeded = n, !.failed = m]
      BY <1>5 DEF Finish, TypeOK
    <2> HIDE DEF n, m
    <2>2. /\ rows'[b].status = polls[b].reply.status /\ rows'[b].failed = m
          /\ rows'[b].job = rows[b].job /\ rows'[b].succeeded = n
      BY <1>0, <2>1 DEF Row
    <2> QED
      BY <2>2 DEF Counts, n
  <1>6. Resubmit(b) =>
          /\ polls[b].at = "answers" /\ polls[b].todo = {} /\ WillRetry(b)
          /\ rows'[b] = rows[b] /\ jobs'[b] = jobs[b] /\ cancelling'[b] = cancelling[b]
          /\ b \in inFlight' <=> b \in inFlight
          /\ b \in timers' <=> b \in timers
    BY DEF Resubmit, AnswersDone
  <1>7. ResubmitFails(b) =>
          /\ polls[b].at = "resubmitting" /\ wire'[b] = "none" /\ b \in Durable
          /\ Same(b) /\ rows'[b] = rows[b]
          /\ b \in inFlight' <=> b \in inFlight
          /\ b \in timers' <=> b \in timers
    BY DEF ResubmitFails, Same, TypeOK, memoryVars
  <1>8. NoMoreRetries(b) =>
          /\ polls[b].at = "answers" /\ polls[b].todo = {} /\ wire'[b] = wire[b]
          /\ polls[b].reply.status # "in_progress"
          /\ Same(b) /\ rows'[b] = rows[b]
          /\ b \in inFlight' <=> b \in inFlight
          /\ b \in timers' <=> b \in timers
    BY DEF NoMoreRetries, AnswersDone, Same, TypeOK, memoryVars
  <1>9. Finish(b) =>
          /\ polls[b].at = "failures" /\ polls[b].todo = {}
          /\ Same(b) /\ polls'[b] = NoPoll /\ wire'[b] = wire[b] /\ b \notin inFlight'
          /\ b \in timers' <=> b \in timers
    BY DEF Finish, Same, TypeOK
  <1> HIDE DEF n, m
  <1> QED
    BY <1>1, <1>2, <1>3, <1>4, <1>5, <1>6, <1>7, <1>8, <1>9 DEF m

(* What a cancellation does, and when.                                     *)
LEMMA CancelEffects ==
    ASSUME TypeOK, NEW b \in Batches, Cancel(b) \/ CancelReturns(b)
    PROVE  /\ phase # "down" /\ Quiet
           /\ memory'[b] = memory[b] /\ wire'[b] = wire[b] /\ polls'[b] = polls[b]
           /\ b \in timers' <=> b \in timers
           /\ SameRow(b)
           /\ Cancel(b) => rows[b].status \in Active /\ used'.cancels # 0
           /\ \/ /\ Cancel(b) /\ rows'[b] = rows[b] /\ jobs'[b] = jobs[b]
                 /\ rows[b].job # 0 /\ cancelling'[b] = rows[b].job
                 /\ b \in inFlight' <=> b \in inFlight
              \/ /\ rows'[b].status = "cancelled" /\ b \notin inFlight'
                 /\ cancelling'[b] = 0
                 /\ CancelReturns(b) => cancelling[b] # 0
  <1>0. rows[b] \in Row /\ (Cancel(b) => used'.cancels # 0)
    <2>1. Cancel(b) => used' = [used EXCEPT !.cancels = @ + 1] /\ used \in Bounds
      BY DEF Cancel, TypeOK
    <2> QED
      BY <2>1 DEF TypeOK, Bounds
  <1>1. CancelRow(b) => rows'[b].status = "cancelled" /\ b \notin inFlight' /\ SameRow(b)
    BY <1>0 DEF CancelRow, TypeOK, Row, SameRow
  <1>2. CASE Cancel(b)
    <2>1. CASE rows[b].job # 0 /\ b \in Durable
      BY <1>0, <1>2, <2>1 DEF Cancel, SameRow, TypeOK
    <2>2. CASE ~(rows[b].job # 0 /\ b \in Durable)
      <3>1. CancelRow(b) /\ cancelling' = cancelling /\ ~CancelReturns(b)
        <4>1. CancelRow(b) /\ cancelling' = cancelling /\ cancelling[b] = 0
          BY <1>2, <2>2 DEF Cancel
        <4> QED
          BY <4>1 DEF CancelReturns
      <3> QED
        BY <1>0, <1>1, <1>2, <2>2, <3>1 DEF Cancel
    <2> QED
      BY <2>1, <2>2
  <1>3. CASE CancelReturns(b)
    BY <1>1, <1>3 DEF CancelReturns, Running, TypeOK, Cancel
  <1> QED
    BY <1>2, <1>3
-----------------------------------------------------------------------------
(* The first layer: a poll may start, and where it stands.                 *)
LEMMA FlowTypes ==
    ASSUME TypeOK, NEW b \in Batches
    PROVE  /\ Len(jobs[b]) \in Nat /\ rows[b].job \in Nat /\ cancelling[b] \in Nat
           /\ rows[b].succeeded \in Nat /\ rows[b].failed \in Nat
           /\ rows[b].status \in Active \cup Final \cup {"absent"}
           /\ wire[b] \in {"none", "sent", "accepted"}
           /\ polls[b].at \in {"none", "asking", "answers", "resubmitting", "failures"}
           /\ polls[b].held \in BOOLEAN /\ polls[b].reply.status \in ReplyStatus
           /\ polls[b].seen \in Row /\ polls[b].succeeded \in Nat /\ polls[b].failed \in Nat
           /\ polls[b].todo \subseteq Items /\ polls[b].open \in Items \cup {None}
           /\ polls[b].reply.ok \subseteq Items /\ polls[b].reply.bad \subseteq Items
           /\ memory[b].retries \in Nat
           /\ memory[b].requests \subseteq Items /\ memory[b].reconciled \subseteq Items
  <1>1. jobs[b] \in Seq(Job)
    BY DEF TypeOK
  <1>2. Len(jobs[b]) \in Nat
    BY <1>1, LenProperties
  <1> QED
    BY <1>2 DEF TypeOK, Row, Poll, Memory

(* What nobody polls and nobody remembers is empty.                        *)
LEMMA NoPollFields ==
    /\ NoPoll.at = "none" /\ NoPoll.seen = NoRow /\ ~NoPoll.held /\ NoPoll.todo = {}
    /\ NoPoll.open = None /\ NoPoll.succeeded = 0 /\ NoPoll.failed = 0
    /\ NoPoll.reply = Reply("in_progress", {}, {})
    /\ NoMemory.requests = {} /\ NoMemory.reconciled = {} /\ NoMemory.retries = 0
  BY DEF NoPoll, NoMemory

(* A batch that another batch's step left apart keeps its flow.            *)
LEMMA FlowFrame ==
    ASSUME NEW c \in Batches, Flow(c), Apart(c), phase' = phase
    PROVE  Flow(c)'
  BY DEF Flow, Apart, First

(* A launch, a crash and a stop keep the flow of a batch.                  *)
LEMMA FlowGlobal ==
    ASSUME TypeOK, NEW b \in Batches, Flow(b), Launch \/ Crash \/ Stop
    PROVE  Flow(b)'
  <1>0. rows[b] \in Row
    BY DEF TypeOK
  <1>1. CASE Launch
    <2>1. /\ rows'[b].job = rows[b].job
          /\ rows'[b].succeeded = rows[b].succeeded /\ rows'[b].failed = rows[b].failed
          /\ rows'[b].status = IF rows[b].status \in Active /\ rows[b].job = 0
                               THEN "failed" ELSE rows[b].status
      BY <1>0, <1>1 DEF Launch, Retired, Row
    <2>2. phase = "down" /\ phase' = "up" /\ (b \in timers' => rows[b].job # 0)
      BY <1>1 DEF Launch
    <2>3. UNCHANGED <<inFlight, memory, wire, polls, cancelling, jobs>>
      BY <1>1 DEF Launch, callVars
    <2> QED
      BY <2>1, <2>2, <2>3 DEF Flow, First, Active
  <1>2. CASE Crash
    <2>1. Len(jobs'[b]) = Len(jobs[b])
      <3>1. jobs[b] \in Seq(Job) /\ DOMAIN jobs[b] = 1 .. Len(jobs[b]) /\ Len(jobs[b]) \in Nat
        BY DEF TypeOK
      <3>2. \/ jobs'[b] = jobs[b]
            \/ jobs'[b] = [k \in DOMAIN jobs[b] |->
                              [jobs[b][k] EXCEPT !.ended = TRUE, !.forgotten = TRUE]]
        BY <1>2 DEF Crash
      <3>3. CASE jobs'[b] = jobs[b]
        BY <3>3
      <3>4. CASE jobs'[b] = [k \in DOMAIN jobs[b] |->
                              [jobs[b][k] EXCEPT !.ended = TRUE, !.forgotten = TRUE]]
        <4>1. jobs'[b] \in Seq(Job)
          BY <1>2, TypeGlobal DEF TypeOK
        <4>2. DOMAIN jobs'[b] = 1 .. Len(jobs[b])
          BY <3>1, <3>4
        <4> QED
          BY <3>1, <4>1, <4>2, LenProperties
      <3> QED
        BY <3>2, <3>3, <3>4
    <2>2. /\ phase' = "down" /\ b \notin inFlight' /\ memory'[b] = NoMemory /\ b \notin timers'
          /\ wire'[b] = "none" /\ polls'[b] = NoPoll /\ cancelling'[b] = 0 /\ rows' = rows
      BY <1>2 DEF Crash
    <2> QED
      BY <2>1, <2>2, NoPollFields, FlowTypes DEF Flow, First
  <1>3. CASE Stop
    BY <1>3 DEF Stop, Flow, First, callVars
  <1> QED
    BY <1>1, <1>2, <1>3

(* Every step of a batch keeps its flow.                                   *)
LEMMA FlowStep ==
    ASSUME TypeOK, NEW b \in Batches, Flow(b), phase' = phase,
           \/ SubmitBatch(b) \/ PollStarts(b) \/ PollUnresolved(b) \/ Cancel(b)
           \/ CallStep(b) \/ TurnStep(b) \/ ProviderStep(b)
    PROVE  Flow(b)'
  <1>1. CASE SubmitBatch(b)
    BY <1>1, SubmitEffects, NoPollFields, FlowTypes DEF Flow, First
  <1>2. CASE SubmitReturns(b)
    <2>1. /\ polls[b].at = "none" /\ wire[b] = "accepted" /\ memory'[b] = memory[b]
          /\ cancelling'[b] = cancelling[b] /\ jobs'[b] = jobs[b] /\ polls'[b] = polls[b]
          /\ wire'[b] = "none" /\ (b \in inFlight' <=> b \in inFlight)
          /\ rows'[b].status = "submitted" /\ rows'[b].job = Len(jobs[b])
      BY <1>2, SubmitEffects DEF Same
    <2> QED
      BY <2>1, FlowTypes DEF Flow, First
  <1>3. CASE SubmitFails(b)
    BY <1>3, SubmitEffects, NoPollFields, FlowTypes DEF Flow, First, Same
  <1>4. CASE PollStarts(b)
    BY <1>4, PollEffects, NoPollFields, FlowTypes DEF Flow, First, Same, Active
  <1>5. CASE PollUnresolved(b)
    BY <1>5, PollEffects, NoPollFields, FlowTypes DEF Flow, First, Same
  <1>6. CASE PollFails(b)
    BY <1>6, PollEffects, NoPollFields, FlowTypes DEF Flow, First, Same
  <1>7. CASE PollAnswers(b)
    <2>1. polls[b].seen.job \in 1 .. Len(jobs[b])
      BY <1>7, FlowTypes DEF Flow, PollAnswers
    <2>2. Len(jobs'[b]) = Len(jobs[b])
      BY <1>7, <2>1, TypeCalls DEF JobsOn
    <2> QED
      BY <1>7, <2>1, <2>2, AnswerEffects, NoPollFields, FlowTypes DEF Flow, First
  <1>8. CASE ProviderAccepts(b)
    <2>1. /\ wire[b] = "sent" /\ wire'[b] = "accepted"
          /\ rows'[b] = rows[b] /\ memory'[b] = memory[b] /\ polls'[b] = polls[b]
          /\ cancelling'[b] = cancelling[b]
          /\ b \in inFlight' <=> b \in inFlight
          /\ b \in timers' <=> b \in timers
          /\ Len(jobs'[b]) = Len(jobs[b]) + 1
      BY <1>8, AcceptEffects
    <2>2. First(b)' <=> First(b)
      BY <2>1 DEF First
    <2> QED
      BY <2>1, <2>2, FlowTypes DEF Flow
  <1>9. CASE KeepPolling(b) \/ ResubmitReturns(b)
    BY <1>9, TurnEffects, NoPollFields, FlowTypes DEF Flow, First, Same, Counts
  <1>10. CASE Resubmit(b)
    BY <1>10, TurnEffects, NoPollFields, FlowTypes DEF Flow, First, SamePoll
  <1>11. CASE ResubmitFails(b) \/ NoMoreRetries(b)
    BY <1>11, TurnEffects, NoPollFields, FlowTypes DEF Flow, First, Same, SamePoll
  <1>12. CASE Finish(b)
    BY <1>12, TurnEffects, NoPollFields, FlowTypes DEF Flow, First, Same, Counts, ReplyStatus
  <1>13. CASE Cancel(b) \/ CancelReturns(b)
    BY <1>13, CancelEffects, TypeCancel, NoPollFields, FlowTypes DEF Flow, First, SameRow, JobsOn
  <1>14. CASE \/ ProviderCancels(b)
              \/ \E k \in DOMAIN jobs[b] : JobEnds(b, k) \/ ItemEnds(b, k) \/ RunEnds(b, k)
    <2>1. JobsOn(b) /\ UNCHANGED <<rows, answers, logged, phase, memoryVars, callVars, used>>
      BY <1>14, TypeProvider DEF Flow
    <2>2. UNCHANGED <<rows, phase, inFlight, memory, timers, wire, polls, cancelling>>
      BY <2>1 DEF memoryVars, callVars
    <2>3. Len(jobs'[b]) = Len(jobs[b])
      BY <2>1 DEF JobsOn
    <2> QED
      BY <2>2, <2>3 DEF Flow, First
  <1>15. CASE \/ \E i \in polls[b].todo :
                    \/ SkipAnswered(b, i)
                    \/ \E written \in BOOLEAN : RecordAnswer(b, i, written)
                    \/ RecordFailure(b, i)
              \/ \E written \in BOOLEAN : StoreAnswer(b, written)
    <2>1. UNCHANGED <<rows, phase, inFlight, timers, wire, cancelling, jobs>>
      BY <1>15, TypeItems
    <2>2. polls[b].open # None => polls[b].at = "answers" /\ polls[b].open \in polls[b].todo
      BY DEF Flow
    <2>3. CASE \E i \in Items : Settled(b, i)
      <3>1. PICK i \in Items : Settled(b, i)
        BY <2>3
      <3>2. /\ polls[b].at \in {"answers", "failures"} /\ polls'[b].at = polls[b].at
            /\ polls'[b].seen = polls[b].seen /\ polls'[b].open = None
            /\ memory'[b].requests = memory[b].requests
            /\ polls[b].at = "answers" => polls'[b].failed = polls[b].failed
        BY <3>1, FlowTypes DEF Settled
      <3>3. rows[b].job # 0 /\ rows[b].status # "absent" /\ phase # "down"
        BY <3>2 DEF Flow
      <3> QED
        BY <2>1, <3>2, <3>3 DEF Flow, First
    <2>4. CASE ~\E i \in Items : Settled(b, i)
      BY <1>15, <2>1, <2>2, <2>4, ItemEffects, NoPollFields, FlowTypes DEF Flow, First
    <2> QED
      BY <2>3, <2>4
  <1> QED
    BY <1>1, <1>2, <1>3, <1>4, <1>5, <1>6, <1>7, <1>8, <1>9, <1>10, <1>11, <1>12, <1>13, <1>14, <1>15
       DEF CallStep, TurnStep, ProviderStep

(* A step of batch b.                                                      *)
Moves(b) ==
    \/ SubmitBatch(b) \/ PollStarts(b) \/ PollUnresolved(b) \/ Cancel(b)
    \/ CallStep(b) \/ TurnStep(b) \/ ProviderStep(b)

(* Every step of a batch keeps the types and touches that batch only.      *)
LEMMA TypeStep ==
    ASSUME TypeOK, NEW b \in Batches, Flow(b), Moves(b)
    PROVE  TypeOK' /\ Local(b)
  <1>1. /\ cancelling[b] <= Len(jobs[b]) /\ rows[b].job <= Len(jobs[b])
        /\ polls[b].at # "none" => polls[b].seen.job \in 1 .. Len(jobs[b])
    BY FlowTypes DEF Flow
  <1> QED
    BY <1>1, TypeSubmit, TypePoll, TypeCalls, TypeItems, TypeTurn, TypeCancel, TypeProvider
       DEF Moves, CallStep, TurnStep, ProviderStep

FlowInv == TypeOK /\ \A b \in Batches : Flow(b)

(* The flow holds at the start.                                            *)
LEMMA FlowInit ==
    Init => FlowInv
  <1> SUFFICES ASSUME Init PROVE FlowInv
    OBVIOUS
  <1>1. TypeOK
    <2>1. /\ rows \in [Batches -> Row] /\ memory \in [Batches -> Memory]
          /\ polls \in [Batches -> Poll]
      BY BatchTypes DEF Init
    <2>2. used \in Bounds /\ <<>> \in Seq(Job)
      BY DEF Init, Bounds
    <2> QED
      BY <2>1, <2>2 DEF Init, TypeOK
  <1>2. ASSUME NEW b \in Batches
        PROVE  Flow(b)
    <2>1. /\ rows[b] = NoRow /\ memory[b] = NoMemory /\ polls[b] = NoPoll /\ wire[b] = "none"
          /\ b \notin inFlight /\ b \notin timers /\ cancelling[b] = 0 /\ Len(jobs[b]) = 0
      BY DEF Init
    <2>2. NoRow.status = "absent" /\ NoRow.job = 0
      BY DEF NoRow
    <2> QED
      BY <2>1, <2>2, NoPollFields DEF Flow, First
  <1> QED
    BY <1>1, <1>2 DEF FlowInv

(* Every step keeps the flow of every batch.                               *)
LEMMA FlowNext ==
    FlowInv /\ [Next]_vars => FlowInv'
  <1> SUFFICES ASSUME FlowInv, [Next]_vars PROVE FlowInv'
    OBVIOUS
  <1> USE DEF FlowInv
  <1>1. CASE Launch \/ Crash \/ Stop
    BY <1>1, TypeGlobal, FlowGlobal
  <1>2. ASSUME NEW b \in Batches, Moves(b)
        PROVE  FlowInv'
    <2>1. TypeOK' /\ Local(b)
      BY <1>2, TypeStep
    <2>2. phase' = phase /\ \A c \in Batches \ {b} : Apart(c)
      BY <2>1 DEF Local
    <2>3. Flow(b)'
      BY <1>2, <2>2, FlowStep DEF Moves
    <2>4. \A c \in Batches \ {b} : Flow(c)'
      BY <2>2, FlowFrame
    <2> QED
      BY <2>1, <2>3, <2>4
  <1>3. CASE UNCHANGED vars
    BY <1>3 DEF vars, memoryVars, callVars, TypeOK, Flow, First
  <1> QED
    BY <1>1, <1>2, <1>3 DEF Next, Moves

(* Types and flow hold in every reachable state.                           *)
LEMMA FlowCorrect ==
    Spec => []FlowInv
  BY FlowInit, FlowNext, PTL DEF Spec

(* Every variable keeps its type (TypeOK): a row keeps a status of its     *)
(* table, a patch never names a job the provider was not asked for, and no *)
(* step of a reconciliation reads a job or an outcome that is not there.   *)
THEOREM TypeCorrect ==
    Spec => []TypeOK
  <1>1. FlowInv => TypeOK
    BY DEF FlowInv
  <1> QED
    BY <1>1, FlowCorrect, PTL
-----------------------------------------------------------------------------
(* The second layer: how often the provider has been asked, and for what.  *)

(* What every step leaves of the jobs there were.                          *)
LEMMA JobsStep ==
    ASSUME TypeOK, NEW b \in Batches, Flow(b), Moves(b), ~ProviderAccepts(b)
    PROVE  JobsOn(b)
  <1>1. /\ cancelling[b] <= Len(jobs[b]) /\ rows[b].job <= Len(jobs[b])
        /\ polls[b].at # "none" => polls[b].seen.job \in 1 .. Len(jobs[b])
    BY FlowTypes DEF Flow
  <1>2. jobs'[b] = jobs[b] => JobsOn(b)
    BY JobsGoOn
  <1>3. CASE SubmitBatch(b) \/ SubmitReturns(b) \/ SubmitFails(b)
    BY <1>2, <1>3, SubmitEffects DEF Same
  <1>4. CASE PollStarts(b) \/ PollUnresolved(b) \/ PollFails(b)
    BY <1>2, <1>4, PollEffects DEF Same
  <1>5. CASE PollAnswers(b)
    BY <1>1, <1>5, TypeCalls DEF PollAnswers
  <1>6. CASE \/ KeepPolling(b) \/ ResubmitReturns(b) \/ Resubmit(b) \/ ResubmitFails(b)
             \/ NoMoreRetries(b) \/ Finish(b)
    BY <1>2, <1>6, TurnEffects DEF Same
  <1>7. CASE Cancel(b) \/ CancelReturns(b)
    BY <1>1, <1>7, TypeCancel
  <1>8. CASE \/ ProviderCancels(b)
             \/ \E k \in DOMAIN jobs[b] : JobEnds(b, k) \/ ItemEnds(b, k) \/ RunEnds(b, k)
    BY <1>1, <1>8, TypeProvider
  <1>9. CASE \/ \E i \in polls[b].todo :
                   \/ SkipAnswered(b, i)
                   \/ \E written \in BOOLEAN : RecordAnswer(b, i, written)
                   \/ RecordFailure(b, i)
             \/ \E written \in BOOLEAN : StoreAnswer(b, written)
    BY <1>2, <1>9, TypeItems
  <1> QED
    BY <1>3, <1>4, <1>5, <1>6, <1>7, <1>8, <1>9 DEF Moves, CallStep, TurnStep, ProviderStep

(* A crash leaves the jobs of a provider alone and ends the fallback's.    *)
LEMMA JobsGlobal ==
    ASSUME TypeOK, NEW b \in Batches, Launch \/ Crash \/ Stop
    PROVE  /\ JobsOn(b) /\ (b \in Durable => jobs'[b] = jobs[b])
           /\ Crash /\ b \notin Durable => \A k \in 1 .. Len(jobs[b]) : jobs'[b][k].forgotten
  <1>0. /\ jobs[b] \in Seq(Job) /\ DOMAIN jobs[b] = 1 .. Len(jobs[b]) /\ Len(jobs[b]) \in Nat
        /\ jobs'[b] \in Seq(Job)
    BY TypeGlobal DEF TypeOK
  <1>1. CASE Launch \/ Stop
    <2>1. jobs' = jobs /\ ~Crash
      BY <1>1 DEF Launch, Stop, Crash, Running
    <2> QED
      BY <2>1, JobsGoOn
  <1>2. CASE Crash
    <2>1. CASE b \in Durable
      BY <1>2, <2>1, JobsGoOn DEF Crash
    <2>2. CASE b \notin Durable
      <3> DEFINE e(k) == [jobs[b][k] EXCEPT !.ended = TRUE, !.forgotten = TRUE]
      <3>1. jobs'[b] = [k \in 1 .. Len(jobs[b]) |-> e(k)]
        BY <1>0, <1>2, <2>2 DEF Crash
      <3>2. Len(jobs'[b]) = Len(jobs[b])
        <4>1. DOMAIN jobs'[b] = 1 .. Len(jobs[b])
          BY <3>1
        <4> QED
          BY <1>0, <4>1, LenProperties
      <3>3. ASSUME NEW k \in 1 .. Len(jobs[b])
            PROVE  Onward(b, jobs[b][k], jobs'[b][k]) /\ jobs'[b][k].forgotten
        <4>1. jobs[b][k] \in Job
          BY <1>0, ElementOfSeq
        <4>2. jobs'[b][k] = [jobs[b][k] EXCEPT !.ended = TRUE, !.forgotten = TRUE]
          BY <3>1
        <4>3. jobs'[b][k].forgotten
          BY <4>1, <4>2 DEF Job
        <4> DEFINE n == [jobs[b][k] EXCEPT !.ended = TRUE, !.forgotten = TRUE]
        <4>4. Onward(b, jobs[b][k], n)
          BY <2>2, <4>1, JobMoves
        <4> QED
          BY <4>2, <4>3, <4>4
      <3> QED
        BY <2>2, <3>2, <3>3 DEF JobsOn
    <2> QED
      BY <2>1, <2>2
  <1> QED
    BY <1>1, <1>2

(* A batch that was left apart has asked what it had asked.                *)
LEMMA AskedFrame ==
    ASSUME NEW c \in Batches, Asked(c), Apart(c)
    PROVE  Asked(c)'
  BY DEF Asked, Apart, First, AtHand, Retryable

(* A launch, a crash and a stop ask nothing.                               *)
LEMMA AskedGlobal ==
    ASSUME TypeOK, NEW b \in Batches, Flow(b), Asked(b), Launch \/ Crash \/ Stop
    PROVE  Asked(b)'
  <1>1. Len(jobs'[b]) = Len(jobs[b])
    BY JobsGlobal DEF JobsOn
  <1>2. CASE Launch
    <2>1. /\ phase = "down" /\ UNCHANGED <<inFlight, memory, wire, polls>>
      BY <1>2 DEF Launch, callVars
    <2> QED
      BY <1>1, <2>1, NoPollFields DEF Flow, Asked, First, AtHand
  <1>3. CASE Crash
    <2>1. /\ b \notin inFlight' /\ memory'[b] = NoMemory /\ wire'[b] = "none" /\ polls'[b] = NoPoll
      BY <1>3 DEF Crash
    <2> QED
      BY <1>1, <2>1, NoPollFields, LimitsAssumption DEF Asked, First, AtHand
  <1>4. CASE Stop
    <2>1. b \notin inFlight' /\ UNCHANGED <<rows, memory, wire, polls, jobs>>
      BY <1>4 DEF Stop, callVars
    <2> QED
      BY <2>1 DEF Asked, First, AtHand, Retryable
  <1> QED
    BY <1>2, <1>3, <1>4

(* The jobs go on, and the batch is at hand no more than before.           *)
LEMMA AskedKept ==
    ASSUME TypeOK, NEW b \in Batches, Asked(b),
           memory'[b] = memory[b], wire'[b] = wire[b], polls'[b] = polls[b],
           rows'[b].job = rows[b].job, b \in inFlight' => b \in inFlight /\ rows'[b] = rows[b],
           Len(jobs'[b]) = Len(jobs[b]),
           \A k \in 1 .. Len(jobs[b]) : jobs'[b][k].items = jobs[b][k].items
    PROVE  Asked(b)'
  <1>1. wire[b] = "accepted" /\ polls[b].at = "resubmitting" => Len(jobs[b]) \in 1 .. Len(jobs[b])
    BY FlowTypes DEF Asked, Row
  <1>2. First(b)' <=> First(b)
    BY DEF First
  <1>3. AtHand(b)' => AtHand(b)
    BY DEF AtHand
  <1>4. polls[b].at = "resubmitting" /\ wire[b] = "accepted" =>
           jobs'[b][Len(jobs'[b])].items = Retryable(b)'
    <2>1. Retryable(b)' = Retryable(b)
      BY DEF Retryable
    <2> QED
      BY <1>1, <2>1 DEF Asked
  <1> QED
    BY <1>2, <1>3, <1>4 DEF Asked

(* Every step of a batch keeps what was asked within what was to be.       *)
LEMMA AskedStep ==
    ASSUME TypeOK, NEW b \in Batches, Flow(b), Asked(b), Moves(b)
    PROVE  Asked(b)'
  <1>0. MaxRetries \in Nat \ {0}
    BY LimitsAssumption
  <1>1. ~ProviderAccepts(b) => /\ Len(jobs'[b]) = Len(jobs[b])
                               /\ \A k \in 1 .. Len(jobs[b]) : jobs'[b][k].items = jobs[b][k].items
    BY JobsStep DEF JobsOn, Onward
  <1>2. CASE SubmitBatch(b)
    <2>1. rows[b].status = "absent" /\ jobs'[b] = jobs[b] /\ polls'[b] = polls[b]
      BY <1>2, SubmitEffects
    <2>2. Len(jobs[b]) = 0 /\ wire[b] = "none" /\ memory[b] = NoMemory /\ polls[b].at = "none"
      BY <2>1 DEF Flow
    <2>3. ~polls[b].held /\ memory'[b].retries = 0
      BY <1>2, <2>2, SubmitEffects, NoPollFields DEF Flow
    <2>4. wire'[b] \in {"none", "sent"}
      BY <1>2, <2>2, SubmitEffects
    <2>5. rows'[b].job = 0
      BY <1>2, <2>1, SubmitEffects DEF Flow
    <2> QED
      BY <1>0, <2>1, <2>2, <2>3, <2>4, <2>5 DEF Asked, First, AtHand
  <1>3. CASE SubmitReturns(b)
    <2>1. /\ polls[b].at = "none" /\ memory'[b] = memory[b] /\ jobs'[b] = jobs[b]
          /\ polls'[b] = polls[b] /\ wire'[b] = "none" /\ (b \in inFlight' <=> b \in inFlight)
          /\ rows'[b].job = Len(jobs[b])
      BY <1>3, SubmitEffects DEF Same
    <2> QED
      BY <2>1 DEF Asked, First, AtHand
  <1>4. CASE SubmitFails(b)
    BY <1>4, SubmitEffects, NoPollFields, FlowTypes DEF Flow, Asked, First, AtHand, Same
  <1>5. CASE PollStarts(b)
    BY <1>5, PollEffects, NoPollFields, FlowTypes DEF Flow, Asked, First, AtHand, Same
  <1>6. CASE PollUnresolved(b)
    BY <1>6, PollEffects, FlowTypes DEF Flow, Asked, First, AtHand, Same, Retryable, Active
  <1>7. CASE PollFails(b)
    BY <1>7, PollEffects, NoPollFields, FlowTypes DEF Flow, Asked, First, AtHand, Same, Active
  <1>8. CASE PollAnswers(b)
    <2>1. polls[b].seen.job \in 1 .. Len(jobs[b])
      BY <1>8, FlowTypes DEF Flow, PollAnswers
    <2>2. ~ProviderAccepts(b)
      BY <1>8, AcceptEffects, <2>1, AnswerEffects
    <2> QED
      BY <1>1, <1>8, <2>1, <2>2, AnswerEffects, FlowTypes DEF Flow, Asked, First, AtHand
  <1>9. CASE ProviderAccepts(b)
    <2> DEFINE n == Len(jobs[b])
    <2>1. /\ n \in Nat /\ memory[b].retries \in Nat /\ rows[b].job \in Nat
          /\ wire[b] = "sent" /\ wire'[b] = "accepted" /\ rows'[b] = rows[b]
          /\ memory'[b] = memory[b] /\ polls'[b] = polls[b] /\ (b \in inFlight' <=> b \in inFlight)
          /\ Len(jobs'[b]) = n + 1 /\ jobs'[b][n + 1].items = Submitted(b)
      <3>1. NewJob(Submitted(b)).items = Submitted(b)
        BY DEF NewJob
      <3>2. jobs'[b][n + 1] = NewJob(Submitted(b)) /\ Len(jobs'[b]) = n + 1
        BY <1>9, AcceptEffects
      <3>3. n \in Nat
        BY FlowTypes
      <3> HIDE DEF n
      <3> QED
        BY <1>9, <3>1, <3>2, <3>3, AcceptEffects, FlowTypes
    <2>2. CASE polls[b].at = "none"
      <3>1. n = 0 /\ Submitted(b) = memory[b].requests
        BY <2>1, <2>2 DEF Asked, First, Submitted
      <3> QED
        BY <1>0, <2>1, <2>2, <3>1 DEF Asked, First, AtHand
    <2>3. CASE polls[b].at # "none"
      <3>1. /\ polls[b].at = "resubmitting" /\ polls[b].held /\ n <= memory[b].retries
            /\ polls[b].seen.job = n /\ Submitted(b) = Retryable(b)
            /\ memory[b].retries <= MaxRetries
        BY <2>1, <2>3 DEF Flow, Asked, Submitted
      <3> QED
        BY <1>0, <2>1, <3>1 DEF Asked, First, AtHand, Retryable
    <2> QED
      BY <2>2, <2>3
  <1>10. CASE KeepPolling(b) \/ ResubmitReturns(b)
    <2>1. /\ memory'[b] = memory[b] /\ jobs'[b] = jobs[b] /\ polls'[b] = NoPoll
          /\ (b \in inFlight' <=> b \in inFlight) /\ wire'[b] = "none"
      BY <1>10, TurnEffects DEF Same, Flow
    <2>2. b \in inFlight => rows'[b].job = Len(jobs[b])
      BY <1>10, TurnEffects, FlowTypes DEF Counts, Flow, Asked, First
    <2> QED
      BY <2>1, <2>2, NoPollFields DEF Asked, First, AtHand
  <1>11. CASE Resubmit(b)
    <2>1. /\ polls[b].at = "answers" /\ polls[b].held /\ memory[b].retries < MaxRetries
          /\ jobs'[b] = jobs[b] /\ (b \in inFlight' <=> b \in inFlight)
          /\ wire'[b] = "sent" /\ polls'[b].at = "resubmitting" /\ polls'[b].held
          /\ polls'[b].seen = polls[b].seen /\ memory'[b].retries = memory[b].retries + 1
      BY <1>11, TurnEffects DEF SamePoll, WillRetry
    <2>2. polls[b].seen.job = Len(jobs[b]) /\ Len(jobs[b]) <= memory[b].retries + 1
      BY <2>1 DEF Asked, AtHand
    <2> QED
      BY <1>0, <2>1, <2>2, FlowTypes DEF Asked, First, AtHand
  <1>12. CASE ResubmitFails(b) \/ NoMoreRetries(b)
    BY <1>12, TurnEffects, FlowTypes DEF Flow, Asked, First, AtHand, Same, SamePoll
  <1>13. CASE Finish(b)
    BY <1>13, TurnEffects, NoPollFields, FlowTypes DEF Flow, Asked, First, AtHand, Same
  <1>14. CASE Cancel(b) \/ CancelReturns(b)
    <2>1. ~ProviderAccepts(b)
      BY <1>14, AcceptEffects, CancelEffects, FlowTypes
    <2> QED
      <3>1. /\ memory'[b] = memory[b] /\ wire'[b] = wire[b] /\ polls'[b] = polls[b]
            /\ rows'[b].job = rows[b].job /\ (b \in inFlight' => b \in inFlight)
            /\ b \in inFlight' => rows'[b] = rows[b]
        BY <1>14, CancelEffects DEF SameRow
      <3> QED
        BY <1>1, <2>1, <3>1, FlowTypes, AskedKept
  <1>15. CASE \/ ProviderCancels(b)
              \/ \E k \in DOMAIN jobs[b] : JobEnds(b, k) \/ ItemEnds(b, k) \/ RunEnds(b, k)
    <2>1. UNCHANGED <<rows, answers, logged, phase, memoryVars, callVars, used>> /\ JobsOn(b)
      BY <1>15, TypeProvider DEF Flow
    <2>2. UNCHANGED <<rows, inFlight, memory, wire, polls>>
      BY <2>1 DEF memoryVars, callVars
    <2>3. /\ Len(jobs'[b]) = Len(jobs[b])
          /\ \A k \in 1 .. Len(jobs[b]) : jobs'[b][k].items = jobs[b][k].items
      BY <2>1 DEF JobsOn, Onward
    <2> QED
      BY <2>2, <2>3, FlowTypes, AskedKept
  <1>16. CASE \/ \E i \in polls[b].todo :
                    \/ SkipAnswered(b, i)
                    \/ \E written \in BOOLEAN : RecordAnswer(b, i, written)
                    \/ RecordFailure(b, i)
              \/ \E written \in BOOLEAN : StoreAnswer(b, written)
    <2>1. UNCHANGED <<rows, phase, inFlight, timers, wire, cancelling, jobs>>
      BY <1>16, TypeItems
    <2>2. /\ memory'[b].retries = memory[b].retries
          /\ polls'[b].at = polls[b].at /\ polls[b].at \in {"answers", "failures"}
          /\ polls'[b].seen = polls[b].seen /\ polls'[b].held = polls[b].held
      BY <1>16, ItemEffects DEF Settled, Flow
    <2> QED
      BY <2>1, <2>2 DEF Asked, First, AtHand
  <1> QED
    BY <1>2, <1>3, <1>4, <1>5, <1>6, <1>7, <1>8, <1>9, <1>10, <1>11, <1>12, <1>13, <1>14, <1>15, <1>16
       DEF Moves, CallStep, TurnStep, ProviderStep
-----------------------------------------------------------------------------
(* The third layer: what the jobs hold, and what a poll was told of them.  *)
LEMMA JobsFrame ==
    ASSUME NEW c \in Batches, JobsInv(c), Told(c), Apart(c)
    PROVE  JobsInv(c)' /\ Told(c)'
  BY DEF JobsInv, Told, Apart, First, AtHand, CurrentJob

(* The job a poll asks about is one of the batch's.                        *)
LEMMA CurrentOne ==
    ASSUME TypeOK, NEW b \in Batches, Flow(b), polls[b].at # "none"
    PROVE  polls[b].seen.job \in 1 .. Len(jobs[b]) /\ CurrentJob(b) \in Job
  <1>1. jobs[b] \in Seq(Job) /\ polls[b].seen.job \in 1 .. Len(jobs[b])
    BY FlowTypes DEF Flow, TypeOK
  <1> QED
    BY <1>1, ElementOfSeq DEF CurrentJob

(* A step that gives the provider nothing keeps what its jobs say.         *)
LEMMA JobsKept ==
    ASSUME TypeOK, NEW b \in Batches, JobsInv(b), JobsOn(b),
           memory'[b].reconciled \subseteq memory'[b].requests,
           AtHand(b)' \/ First(b)' => (AtHand(b) \/ First(b)) /\ memory'[b].requests = memory[b].requests
    PROVE  JobsInv(b)'
  <1>1. ASSUME NEW k \in 1 .. Len(jobs[b])
        PROVE  /\ Sound(b, jobs'[b][k])
               /\ AtHand(b)' \/ First(b)' => jobs'[b][k].items \subseteq memory'[b].requests
    BY DEF JobsInv, JobsOn, Onward
  <1>2. ASSUME NEW k \in 1 .. Len(jobs[b]), NEW m \in 1 .. Len(jobs[b]), k < m
        PROVE  jobs'[b][k].ended /\ jobs'[b][k].ok \cap jobs'[b][m].items = {}
    BY <1>2 DEF JobsInv, JobsOn, Onward
  <1>3. Len(jobs'[b]) = Len(jobs[b])
    BY DEF JobsOn
  <1>4. \A k \in 1 .. Len(jobs[b]) : Sound(b, jobs'[b][k]) <=> Sound(b, jobs[b][k])'
    BY DEF Sound
  <1> QED
    BY <1>1, <1>2, <1>3, <1>4 DEF JobsInv

(* What a poll was told stays true of the job.                             *)
LEMMA ToldKept ==
    ASSUME TypeOK, NEW b \in Batches, Flow(b), JobsInv(b), Told(b), JobsOn(b),
           polls[b].at \in {"answers", "resubmitting", "failures"},
           polls'[b].seen = polls[b].seen, polls'[b].reply = polls[b].reply
    PROVE  /\ polls[b].reply.ok \subseteq CurrentJob(b)'.ok
           /\ polls[b].reply.bad \subseteq CurrentJob(b)'.bad
           /\ polls[b].reply.status = "completed" =>
                  /\ CurrentJob(b)'.ended
                  /\ polls[b].reply.ok = CurrentJob(b)'.ok
                  /\ polls[b].reply.bad = CurrentJob(b)'.bad
  <1>1. polls[b].seen.job \in 1 .. Len(jobs[b])
    BY CurrentOne
  <1>2. Onward(b, CurrentJob(b), CurrentJob(b)') /\ Sound(b, CurrentJob(b))
    BY <1>1 DEF CurrentJob, JobsOn, JobsInv
  <1> QED
    BY <1>2 DEF Onward, Told

(* A launch, a crash and a stop keep the jobs of a batch.                  *)
LEMMA JobsGlobalStep ==
    ASSUME TypeOK, NEW b \in Batches, Flow(b), JobsInv(b), Told(b), Launch \/ Crash \/ Stop
    PROVE  JobsInv(b)' /\ Told(b)'
  <1>1. JobsOn(b)
    BY JobsGlobal
  <1>2. CASE Launch
    <2>1. phase = "down" /\ UNCHANGED <<inFlight, memory, wire, polls>>
      BY <1>2 DEF Launch, callVars
    <2>2. polls'[b].at = "none" /\ ~AtHand(b)' /\ ~First(b)'
      BY <2>1, NoPollFields DEF Flow, AtHand, First
    <2> QED
      BY <1>1, <2>1, <2>2, JobsKept DEF Told, JobsInv
  <1>3. CASE Crash
    <2>1. /\ b \notin inFlight' /\ memory'[b] = NoMemory /\ wire'[b] = "none" /\ polls'[b] = NoPoll
      BY <1>3 DEF Crash
    <2>2. polls'[b].at = "none" /\ ~AtHand(b)' /\ ~First(b)' /\ memory'[b].reconciled = {}
      BY <2>1, NoPollFields DEF AtHand, First
    <2> QED
      BY <1>1, <2>2, JobsKept DEF Told
  <1>4. CASE Stop
    <2>1. b \notin inFlight' /\ UNCHANGED <<memory, wire, polls, jobs>>
      BY <1>4 DEF Stop, callVars
    <2>2. Told(b)'
      BY <2>1 DEF Told, CurrentJob
    <2>3. AtHand(b)' \/ First(b)' => AtHand(b) \/ First(b)
      BY <2>1 DEF AtHand, First
    <2> QED
      BY <1>1, <2>1, <2>2, <2>3, JobsKept DEF JobsInv
  <1> QED
    BY <1>2, <1>3, <1>4

(* A submission asks of the provider what it has not answered.             *)
LEMMA JobsAccept ==
    ASSUME TypeOK, NEW b \in Batches, Flow(b), Asked(b), JobsInv(b), Told(b), ProviderAccepts(b)
    PROVE  JobsInv(b)' /\ Told(b)'
  <1> DEFINE n == Len(jobs[b])
             S == Submitted(b)
  <1>1. /\ n \in Nat /\ wire[b] = "sent" /\ wire'[b] = "accepted" /\ Len(jobs'[b]) = n + 1
        /\ memory'[b] = memory[b] /\ polls'[b] = polls[b] /\ (b \in inFlight' <=> b \in inFlight)
        /\ \A k \in 1 .. n : jobs'[b][k] = jobs[b][k]
        /\ jobs'[b][n + 1] = NewJob(S)
    BY AcceptEffects, FlowTypes
  <1>2. S \subseteq memory[b].requests /\ S \subseteq Work[b]
    BY DEF Submitted, Retryable, Flow
  <1>3. NewJob(S).items = S /\ NewJob(S).ok = {} /\ NewJob(S).bad = {} /\ ~NewJob(S).ended
    BY DEF NewJob
  <1>4. Sound(b, NewJob(S))
    BY <1>2, <1>3 DEF Sound
  <1>5. ASSUME NEW k \in 1 .. n
        PROVE  jobs[b][k].ended /\ jobs[b][k].ok \cap S = {}
    <2>1. polls[b].at # "none"
      <3>1. polls[b].at = "none" => n = 0
        BY <1>1 DEF Asked, First
      <3> QED
        BY <1>1, <1>5, <3>1
    <2>2. /\ polls[b].at = "resubmitting" /\ polls[b].seen.job = n /\ S = Retryable(b)
      BY <1>1, <2>1 DEF Flow, Asked, Submitted
    <2>3. /\ CurrentJob(b) = jobs[b][n] /\ S \subseteq jobs[b][n].bad /\ jobs[b][n].ended
      BY <2>2 DEF Told, CurrentJob, Retryable
    <2>4. Sound(b, jobs[b][n]) /\ n \in 1 .. n
      BY <1>1, <1>5 DEF JobsInv
    <2>5. CASE k = n
      BY <2>3, <2>4, <2>5 DEF Sound
    <2>6. CASE k # n
      <3>1. k < n
        BY <1>1, <1>5, <2>6
      <3> QED
        BY <1>5, <2>3, <2>4, <3>1 DEF JobsInv, Sound
    <2> QED
      BY <2>5, <2>6
  <1>6. \A k \in 1 .. n + 1 : k \in 1 .. n \/ k = n + 1
    BY <1>1
  <1>7. (AtHand(b)' <=> AtHand(b)) /\ (First(b)' <=> First(b))
    BY <1>1 DEF AtHand, First
  <1>8. \A k \in 1 .. n + 1 :
           /\ Sound(b, jobs'[b][k])
           /\ AtHand(b)' \/ First(b)' => jobs'[b][k].items \subseteq memory'[b].requests
    BY <1>1, <1>2, <1>3, <1>4, <1>6, <1>7 DEF JobsInv
  <1>9. ASSUME NEW k \in 1 .. n + 1, NEW m \in 1 .. n + 1, k < m
        PROVE  jobs'[b][k].ended /\ jobs'[b][k].ok \cap jobs'[b][m].items = {}
    <2>1. k \in 1 .. n
      BY <1>1, <1>9
    <2>2. CASE m \in 1 .. n
      BY <1>1, <1>9, <2>1, <2>2 DEF JobsInv
    <2>3. CASE m = n + 1
      BY <1>1, <1>3, <1>5, <2>1, <2>3
    <2> QED
      BY <1>6, <2>2, <2>3
  <1>10. JobsInv(b)'
    <2>1. \A k \in 1 .. n + 1 : Sound(b, jobs'[b][k]) <=> Sound(b, jobs[b][k])'
      BY DEF Sound
    <2>2. memory'[b].reconciled \subseteq memory'[b].requests
      BY <1>1 DEF JobsInv
    <2> HIDE DEF n
    <2> QED
      BY <1>1, <1>8, <1>9, <2>1, <2>2 DEF JobsInv
  <1>11. Told(b)'
    <2>1. polls[b].at # "none" => CurrentJob(b)' = CurrentJob(b)
      BY <1>1, CurrentOne DEF CurrentJob
    <2> QED
      BY <1>1, <2>1 DEF Told
  <1> QED
    BY <1>10, <1>11

(* Every step of a batch keeps its jobs one after the other, each for what *)
(* the one before it failed.                                               *)
LEMMA JobsInvStep ==
    ASSUME TypeOK, NEW b \in Batches, Flow(b), Asked(b), JobsInv(b), Told(b), Moves(b)
    PROVE  JobsInv(b)' /\ Told(b)'
  <1>0. ~ProviderAccepts(b) => JobsOn(b)
    BY JobsStep
  <1>1. CASE ProviderAccepts(b)
    BY <1>1, JobsAccept
  <1>2. CASE ~ProviderAccepts(b) /\ SubmitBatch(b)
    <2>1. rows[b].status = "absent" /\ jobs'[b] = jobs[b] /\ polls'[b] = polls[b]
      BY <1>2, SubmitEffects
    <2>2. Len(jobs[b]) = 0 /\ memory[b] = NoMemory /\ polls[b].at = "none"
      BY <2>1 DEF Flow
    <2>3. memory'[b].reconciled = {}
      BY <1>2, <2>2, SubmitEffects, NoPollFields
    <2> QED
      BY <2>1, <2>2, <2>3 DEF JobsInv, Told
  <1>3. CASE ~ProviderAccepts(b) /\ (SubmitReturns(b) \/ SubmitFails(b))
    <2>1. /\ polls[b].at = "none" /\ memory'[b] = memory[b] /\ polls'[b] = polls[b] /\ wire'[b] = "none"
          /\ b \in inFlight' => b \in inFlight
      BY <1>3, SubmitEffects DEF Same
    <2>2. AtHand(b)' \/ First(b)' => AtHand(b) \/ First(b)
      BY <2>1 DEF AtHand, First
    <2> QED
      BY <1>0, <1>3, <2>1, <2>2, JobsKept DEF Told, JobsInv
  <1>4. CASE ~ProviderAccepts(b) /\ (PollStarts(b) \/ PollUnresolved(b) \/ PollFails(b))
    <2>1. /\ memory'[b] = memory[b] /\ wire'[b] = wire[b] /\ (b \in inFlight' <=> b \in inFlight)
          /\ polls'[b].at \in {"none", "asking"}
          /\ polls'[b].held => polls[b].held \/ b \in inFlight
          /\ First(b)' => First(b)
      BY <1>4, PollEffects, NoPollFields DEF Same, Flow, First
    <2>2. AtHand(b)' \/ First(b)' => AtHand(b) \/ First(b)
      BY <2>1 DEF AtHand
    <2> QED
      BY <1>0, <1>4, <2>1, <2>2, JobsKept DEF Told, JobsInv
  <1>5. CASE ~ProviderAccepts(b) /\ PollAnswers(b)
    <2>1. polls[b].seen.job \in 1 .. Len(jobs[b]) /\ CurrentJob(b) \in Job /\ Sound(b, CurrentJob(b))
      BY <1>5, CurrentOne DEF PollAnswers, JobsInv, CurrentJob
    <2>2. /\ memory'[b] = memory[b] /\ wire'[b] = wire[b] /\ (b \in inFlight' <=> b \in inFlight)
          /\ polls[b].at = "asking" /\ polls'[b].at = "answers"
          /\ polls'[b].held = polls[b].held /\ polls'[b].seen = polls[b].seen
      BY <1>5, <2>1, AnswerEffects
    <2>3. JobsInv(b)'
      BY <1>0, <1>5, <2>2, JobsKept DEF AtHand, First, JobsInv
    <2>4. PICK r \in Replies(b) : polls'[b].reply = r /\ polls'[b].todo = Fresh(b, r.ok)
      BY <1>5, <2>1, AnswerEffects
    <2>5. /\ r.ok \subseteq CurrentJob(b).ok /\ r.bad \subseteq CurrentJob(b).bad
          /\ r.status = "completed" => /\ CurrentJob(b).ended
                                       /\ r.ok = CurrentJob(b).ok /\ r.bad = CurrentJob(b).bad
          /\ b \in Durable /\ r.status = "in_progress" => r.ok = {}
      BY <2>4 DEF Replies, Reply
    <2>6. Onward(b, CurrentJob(b), CurrentJob(b)')
      BY <1>0, <1>5, <2>1, <2>2 DEF JobsOn, CurrentJob
    <2>7. polls'[b].todo \subseteq r.ok
      BY <2>4 DEF Fresh
    <2> QED
      BY <2>1, <2>2, <2>3, <2>4, <2>5, <2>6, <2>7 DEF Told, Onward
  <1>6. CASE ~ProviderAccepts(b) /\ (KeepPolling(b) \/ ResubmitReturns(b) \/ Finish(b))
    <2>1. /\ memory'[b] = memory[b] /\ polls'[b] = NoPoll /\ wire'[b] = "none"
          /\ b \in inFlight' => b \in inFlight
      BY <1>6, TurnEffects DEF Same, Flow
    <2>2. AtHand(b)' \/ First(b)' => AtHand(b) \/ First(b)
      BY <2>1, NoPollFields DEF AtHand, First
    <2> QED
      BY <1>0, <1>6, <2>1, <2>2, NoPollFields, JobsKept DEF Told, JobsInv
  <1>7. CASE ~ProviderAccepts(b) /\ (Resubmit(b) \/ ResubmitFails(b) \/ NoMoreRetries(b))
    <2>1. /\ memory'[b].requests = memory[b].requests /\ memory'[b].reconciled = memory[b].reconciled
          /\ b \in inFlight' <=> b \in inFlight
          /\ polls[b].at \in {"answers", "resubmitting"} /\ polls'[b].at \in {"resubmitting", "failures"}
          /\ SamePoll(b)
      BY <1>7, TurnEffects DEF Same
    <2>2. AtHand(b)' \/ First(b)' => AtHand(b) \/ First(b)
      BY <2>1 DEF AtHand, First, SamePoll
    <2>3. JobsInv(b)'
      BY <1>0, <1>7, <2>1, <2>2, JobsKept DEF JobsInv
    <2>4. /\ polls'[b].at = "resubmitting" =>
               polls[b].at = "answers" /\ polls[b].todo = {} /\ polls'[b].todo = {}
                 /\ polls[b].reply.status = "completed"
          /\ polls'[b].at = "failures" => /\ polls[b].at = "resubmitting"
                                             \/ polls[b].reply.status # "in_progress"
                                          /\ polls'[b].todo = Fresh(b, polls[b].reply.bad)
      BY <1>7, TurnEffects DEF WillRetry
    <2>5. Fresh(b, polls[b].reply.bad) \subseteq polls[b].reply.bad
      BY DEF Fresh
    <2> QED
      BY <1>0, <1>7, <2>1, <2>3, <2>4, <2>5, ToldKept DEF SamePoll, Told
  <1>8. CASE ~ProviderAccepts(b) /\ (Cancel(b) \/ CancelReturns(b))
    <2>1. /\ memory'[b] = memory[b] /\ wire'[b] = wire[b] /\ polls'[b] = polls[b]
          /\ b \in inFlight' => b \in inFlight
      BY <1>8, CancelEffects
    <2>2. AtHand(b)' \/ First(b)' => AtHand(b) \/ First(b)
      BY <2>1 DEF AtHand, First
    <2>3. JobsInv(b)'
      BY <1>0, <1>8, <2>1, <2>2, JobsKept DEF JobsInv
    <2> QED
      BY <1>0, <1>8, <2>1, <2>3, ToldKept DEF Told
  <1>9. CASE /\ ~ProviderAccepts(b)
             /\ \/ ProviderCancels(b)
                \/ \E k \in DOMAIN jobs[b] : JobEnds(b, k) \/ ItemEnds(b, k) \/ RunEnds(b, k)
    <2>1. UNCHANGED <<rows, answers, logged, phase, memoryVars, callVars, used>>
      BY <1>9, TypeProvider DEF Flow
    <2>2. UNCHANGED <<inFlight, memory, wire, polls>>
      BY <2>1 DEF memoryVars, callVars
    <2>3. JobsInv(b)'
      BY <1>0, <1>9, <2>2, JobsKept DEF JobsInv, AtHand, First
    <2> QED
      BY <1>0, <1>9, <2>2, <2>3, ToldKept DEF Told
  <1>10. CASE /\ ~ProviderAccepts(b)
              /\ \/ \E i \in polls[b].todo :
                       \/ SkipAnswered(b, i)
                       \/ \E written \in BOOLEAN : RecordAnswer(b, i, written)
                       \/ RecordFailure(b, i)
                 \/ \E written \in BOOLEAN : StoreAnswer(b, written)
    <2>1. UNCHANGED <<rows, phase, inFlight, timers, wire, cancelling, jobs>>
      BY <1>10, TypeItems
    <2>2. /\ polls'[b].at = polls[b].at /\ polls[b].at \in {"answers", "failures"}
          /\ polls'[b].seen = polls[b].seen /\ polls'[b].held = polls[b].held
          /\ polls'[b].reply = polls[b].reply /\ polls'[b].todo \subseteq polls[b].todo
          /\ memory'[b].requests = memory[b].requests
          /\ \/ memory'[b].reconciled = memory[b].reconciled
             \/ polls[b].held /\ \E i \in polls[b].todo :
                                    memory'[b].reconciled = memory[b].reconciled \cup {i}
      BY <1>10, ItemEffects DEF Settled, Flow
    <2>3. polls[b].held => polls[b].todo \subseteq memory[b].requests
      <3>1. polls[b].seen.job \in 1 .. Len(jobs[b])
        BY <2>2, CurrentOne
      <3>2. Sound(b, CurrentJob(b)) /\ (AtHand(b) => CurrentJob(b).items \subseteq memory[b].requests)
        BY <3>1 DEF JobsInv, CurrentJob
      <3> QED
        BY <2>2, <3>2 DEF Told, Sound, AtHand
    <2>4. memory'[b].reconciled \subseteq memory'[b].requests
      BY <2>2, <2>3 DEF JobsInv
    <2>5. JobsInv(b)'
      BY <1>0, <1>10, <2>1, <2>2, <2>4, JobsKept DEF AtHand, First
    <2> QED
      BY <1>0, <1>10, <2>2, <2>5, ToldKept DEF Told
  <1> QED
    BY <1>1, <1>2, <1>3, <1>4, <1>5, <1>6, <1>7, <1>8, <1>9, <1>10
       DEF Moves, CallStep, TurnStep, ProviderStep

JobsAll == FlowInv /\ \A b \in Batches : Asked(b) /\ JobsInv(b) /\ Told(b)

(* Every step keeps the jobs of every batch.                               *)
LEMMA JobsAllNext ==
    JobsAll /\ [Next]_vars => JobsAll'
  <1> SUFFICES ASSUME JobsAll, [Next]_vars PROVE JobsAll'
    OBVIOUS
  <1> USE DEF JobsAll
  <1>0. FlowInv' /\ TypeOK /\ \A b \in Batches : Flow(b)
    BY FlowNext DEF FlowInv
  <1>1. CASE Launch \/ Crash \/ Stop
    BY <1>0, <1>1, AskedGlobal, JobsGlobalStep
  <1>2. ASSUME NEW b \in Batches, Moves(b)
        PROVE  JobsAll'
    <2>1. \A c \in Batches \ {b} : Apart(c)
      BY <1>0, <1>2, TypeStep DEF Local
    <2>2. Asked(b)' /\ JobsInv(b)' /\ Told(b)'
      BY <1>0, <1>2, AskedStep, JobsInvStep
    <2>3. \A c \in Batches \ {b} : Asked(c)' /\ JobsInv(c)' /\ Told(c)'
      BY <2>1, AskedFrame, JobsFrame
    <2> QED
      BY <1>0, <2>2, <2>3
  <1>3. CASE UNCHANGED vars
    <2>1. UNCHANGED <<rows, inFlight, memory, wire, polls, cancelling, jobs, timers>>
      BY <1>3 DEF vars, memoryVars, callVars
    <2>2. \A c \in Batches : Apart(c)
      BY <2>1 DEF Apart
    <2> QED
      BY <1>0, <2>2, AskedFrame, JobsFrame
  <1> QED
    BY <1>1, <1>2, <1>3 DEF Next, Moves

(* No job exists at the start.                                             *)
LEMMA JobsAllInit ==
    Init => JobsAll
  <1> SUFFICES ASSUME Init PROVE JobsAll
    OBVIOUS
  <1>1. ASSUME NEW b \in Batches
        PROVE  Asked(b) /\ JobsInv(b) /\ Told(b)
    <2>1. /\ memory[b] = NoMemory /\ polls[b] = NoPoll /\ wire[b] = "none"
          /\ b \notin inFlight /\ Len(jobs[b]) = 0
      BY DEF Init
    <2>2. ~AtHand(b) /\ ~First(b) /\ polls[b].at = "none" /\ ~polls[b].held
      BY <2>1, NoPollFields DEF AtHand, First
    <2> QED
      BY <2>1, <2>2, NoPollFields, LimitsAssumption DEF Asked, JobsInv, Told
  <1> QED
    BY <1>1, FlowInit DEF JobsAll

(* The invariant of the jobs holds in every reachable state.               *)
LEMMA JobsAllCorrect ==
    Spec => []JobsAll
  BY JobsAllInit, JobsAllNext, PTL DEF Spec

(* A provider is asked at most MaxRetries times more than once, and never  *)
(* again for what it has answered (RetriesOnlyFailures), over partial      *)
(* results, cancellations, failed polls and restarts: when the request     *)
(* leaves, the job asked about is the last one and has ended, the failures *)
(* the poll was told are its own, and the requests held are no others.     *)
THEOREM RetriesCorrect ==
    Spec => []RetriesOnlyFailures
  <1>1. JobsAll => RetriesOnlyFailures
    <2> SUFFICES ASSUME JobsAll, NEW b \in Batches
                 PROVE  /\ Len(jobs[b]) <= MaxRetries + 1
                        /\ \A k, m \in DOMAIN jobs[b] :
                               k < m => jobs[b][k].ok \cap jobs[b][m].items = {}
      BY DEF RetriesOnlyFailures
    <2>1. DOMAIN jobs[b] = 1 .. Len(jobs[b])
      BY DEF JobsAll, FlowInv, TypeOK
    <2> QED
      BY <2>1 DEF JobsAll, Asked, JobsInv
  <1> QED
    BY <1>1, JobsAllCorrect, PTL
-----------------------------------------------------------------------------
(* What the row tells of the first submission.                             *)
LEMMA RecordedStep ==
    ASSUME TypeOK, NEW b \in Batches, Flow(b), Recorded(b), Moves(b)
    PROVE  Recorded(b)'
  <1>0. phase' = phase /\ (used'.cancels = 0 => used.cancels = 0)
    BY TypeStep DEF Local
  <1>1. ~ProviderAccepts(b) => Len(jobs'[b]) = Len(jobs[b])
    BY JobsStep DEF JobsOn
  <1>2. CASE SubmitBatch(b)
    BY <1>0, <1>2, SubmitEffects, NoPollFields, FlowTypes DEF Flow, Recorded, First
  <1>3. CASE SubmitReturns(b) \/ SubmitFails(b)
    <2>1. /\ cancelling'[b] = cancelling[b] /\ jobs'[b] = jobs[b] /\ wire'[b] = "none"
          /\ rows'[b].job = Len(jobs[b]) \/ rows'[b].status = "failed"
      BY <1>3, SubmitEffects DEF Same
    <2> QED
      BY <1>0, <2>1 DEF Recorded, First
  <1>4. CASE PollStarts(b) \/ PollUnresolved(b) \/ PollFails(b)
    BY <1>0, <1>4, PollEffects, NoPollFields, FlowTypes DEF Flow, Recorded, First, Same
  <1>5. CASE PollAnswers(b)
    <2>1. polls[b].seen.job \in 1 .. Len(jobs[b])
      BY <1>5, CurrentOne DEF PollAnswers
    <2>2. rows'[b] = rows[b] /\ cancelling'[b] = cancelling[b] /\ ~First(b)'
      BY <1>5, <2>1, AnswerEffects DEF First
    <2>3. rows[b].job # 0
      BY <1>5 DEF PollAnswers, Flow
    <2> QED
      BY <1>0, <2>2, <2>3 DEF Recorded
  <1>6. CASE ProviderAccepts(b)
    BY <1>0, <1>6, AcceptEffects DEF Flow, Recorded, First
  <1>7. CASE \/ KeepPolling(b) \/ ResubmitReturns(b) \/ Resubmit(b) \/ ResubmitFails(b)
             \/ NoMoreRetries(b) \/ Finish(b)
    <2>1. /\ cancelling'[b] = cancelling[b] /\ rows'[b].job \in {rows[b].job, Len(jobs[b])}
          /\ polls[b].at # "none" /\ (polls'[b].at # "none" \/ wire'[b] = "none")
      BY <1>7, TurnEffects DEF Counts, Same, Flow
    <2>2. rows'[b].job # 0 /\ ~First(b)'
      BY <2>1, CurrentOne, FlowTypes DEF Flow, First
    <2> QED
      BY <1>0, <2>1, <2>2 DEF Recorded
  <1>8. CASE Cancel(b) \/ CancelReturns(b)
    <2>1. used'.cancels # 0
      BY <1>0, <1>8, CancelEffects DEF Recorded, CancelReturns
    <2> QED
      BY <2>1 DEF Recorded
  <1>9. CASE \/ ProviderCancels(b)
             \/ \E k \in DOMAIN jobs[b] : JobEnds(b, k) \/ ItemEnds(b, k) \/ RunEnds(b, k)
    <2>1. UNCHANGED <<rows, answers, logged, phase, memoryVars, callVars, used>> /\ JobsOn(b)
      BY <1>9, TypeProvider DEF Flow
    <2> QED
      BY <2>1 DEF Recorded, First, callVars, JobsOn
  <1>10. CASE \/ \E i \in polls[b].todo :
                    \/ SkipAnswered(b, i)
                    \/ \E written \in BOOLEAN : RecordAnswer(b, i, written)
                    \/ RecordFailure(b, i)
              \/ \E written \in BOOLEAN : StoreAnswer(b, written)
    <2>1. UNCHANGED <<rows, phase, inFlight, timers, wire, cancelling, jobs>>
      BY <1>10, TypeItems
    <2>2. polls'[b].at = polls[b].at
      BY <1>10, ItemEffects DEF Settled, Flow
    <2> QED
      BY <1>0, <2>1, <2>2 DEF Recorded, First
  <1> QED
    BY <1>2, <1>3, <1>4, <1>5, <1>6, <1>7, <1>8, <1>9, <1>10
       DEF Moves, CallStep, TurnStep, ProviderStep

(* A launch, a crash and a stop keep the record of a batch.                *)
LEMMA RecordedGlobal ==
    ASSUME TypeOK, NEW b \in Batches, Flow(b), Recorded(b), Launch \/ Crash \/ Stop
    PROVE  Recorded(b)'
  <1>0. Len(jobs'[b]) = Len(jobs[b])
    BY JobsGlobal DEF JobsOn
  <1>1. CASE Launch
    <2>1. rows[b] \in Row /\ used \in Bounds /\ used' = [used EXCEPT !.launches = @ + 1]
      BY <1>1 DEF Launch, TypeOK
    <2>2. /\ rows'[b].job = rows[b].job /\ used'.cancels = used.cancels
          /\ rows'[b].status = IF rows[b].status \in Active /\ rows[b].job = 0
                               THEN "failed" ELSE rows[b].status
      BY <1>1, <2>1 DEF Launch, Retired, Row, Bounds
    <2>3. phase = "down" /\ UNCHANGED <<wire, polls, cancelling, jobs>>
      BY <1>1 DEF Launch, callVars
    <2> QED
      BY <2>2, <2>3 DEF Flow, Recorded, First, Active
  <1>2. CASE Crash
    <2>1. /\ phase' = "down" /\ rows' = rows /\ used' = used /\ wire'[b] = "none"
          /\ cancelling'[b] = 0
      BY <1>2 DEF Crash
    <2> QED
      BY <1>0, <2>1, FlowTypes DEF Recorded, First, Flow, Crash
  <1>3. CASE Stop
    BY <1>3 DEF Stop, Recorded, First, callVars
  <1> QED
    BY <1>1, <1>2, <1>3

RecordInv == FlowInv /\ \A b \in Batches : Recorded(b)

(* Every step keeps the record of every batch.                             *)
LEMMA RecordNext ==
    RecordInv /\ [Next]_vars => RecordInv'
  <1> SUFFICES ASSUME RecordInv, [Next]_vars PROVE RecordInv'
    OBVIOUS
  <1> USE DEF RecordInv
  <1>0. FlowInv' /\ TypeOK /\ \A b \in Batches : Flow(b)
    BY FlowNext DEF FlowInv
  <1>1. CASE Launch \/ Crash \/ Stop
    BY <1>0, <1>1, RecordedGlobal
  <1>2. ASSUME NEW b \in Batches, Moves(b)
        PROVE  RecordInv'
    <2>1. Local(b)
      BY <1>0, <1>2, TypeStep
    <2>2. Recorded(b)'
      BY <1>0, <1>2, RecordedStep
    <2>3. \A c \in Batches \ {b} : Recorded(c)'
      BY <2>1 DEF Local, Apart, Recorded, First
    <2> QED
      BY <1>0, <2>2, <2>3
  <1>3. CASE UNCHANGED vars
    BY <1>0, <1>3 DEF vars, callVars, Recorded, First
  <1> QED
    BY <1>1, <1>2, <1>3 DEF Next, Moves

(* No first job of a batch nobody cancels is unknown to its row            *)
(* (JobOnRecord): wherever a crash falls in a submission, the row names    *)
(* the job or says that the submission failed once the app is up again.    *)
THEOREM RecordCorrect ==
    Spec => []JobOnRecord
  <1>1. Init => RecordInv
    <2> SUFFICES ASSUME Init PROVE RecordInv
      OBVIOUS
    <2>1. \A b \in Batches : cancelling[b] = 0 /\ wire[b] = "none" /\ Len(jobs[b]) = 0
      BY DEF Init
    <2> QED
      BY <2>1, FlowInit DEF RecordInv, Recorded, First
  <1>2. RecordInv => JobOnRecord
    <2> SUFFICES ASSUME RecordInv, NEW b \in Batches, wire[b] = "none", Running,
                        Len(jobs[b]) = 1, used.cancels = 0
                 PROVE  rows[b].job = 1 \/ rows[b].status = "failed"
      BY DEF JobOnRecord
    <2>1. TypeOK /\ Flow(b) /\ Recorded(b)
      BY DEF RecordInv, FlowInv
    <2>2. rows[b].job # 0 \/ rows[b].status = "failed"
      BY <2>1 DEF Recorded, First, Running
    <2> QED
      BY <2>1, <2>2, FlowTypes DEF Flow
  <1> QED
    BY <1>1, <1>2, RecordNext, PTL DEF Spec
-----------------------------------------------------------------------------
(* The counts.  What they need of cardinalities.                           *)
LEMMA Cards ==
    ASSUME NEW b \in Batches, NEW S \in SUBSET Work[b], NEW T \in SUBSET Work[b]
    PROVE  /\ Cardinality(S) \in Nat /\ Cardinality({}) = 0
           /\ Cardinality(S) <= Cardinality(Work[b])
           /\ S \subseteq T => Cardinality(S) <= Cardinality(T)
           /\ S \cap T = {} => /\ Cardinality(S \cup T) = Cardinality(S) + Cardinality(T)
                               /\ Cardinality(S) + Cardinality(T) <= Cardinality(Work[b])
           /\ Cardinality(Work[b] \ S) = Cardinality(Work[b]) - Cardinality(S)
           /\ Cardinality(Work[b]) \in Nat
           /\ \A i \in S : Cardinality(S \ {i}) = Cardinality(S) - 1
           /\ \A i : i \notin S => Cardinality(S \cup {i}) = Cardinality(S) + 1
  <1>1. IsFiniteSet(Work[b]) /\ IsFiniteSet(S) /\ IsFiniteSet(T)
    BY FiniteAssumption, FS_Subset
  <1>2. /\ Cardinality(S) \in Nat /\ Cardinality(T) \in Nat /\ Cardinality({}) = 0
        /\ Cardinality(Work[b]) \in Nat
    BY <1>1, FS_CardinalityType, FS_EmptySet
  <1>3. S \subseteq T => Cardinality(S) <= Cardinality(T)
    BY <1>1, FS_Subset
  <1>4. Cardinality(S) <= Cardinality(Work[b]) /\ Cardinality(S \cup T) <= Cardinality(Work[b])
    BY <1>1, FS_Subset
  <1>5. ASSUME S \cap T = {}
        PROVE  Cardinality(S \cup T) = Cardinality(S) + Cardinality(T)
    <2>1. Cardinality(S \cup T) = Cardinality(S) + Cardinality(T) - Cardinality(S \cap T)
      BY <1>1, FS_Union
    <2>2. Cardinality(S \cap T) = 0
      BY <1>2, <1>5
    <2> QED
      BY <1>2, <2>1, <2>2
  <1>6. Cardinality(Work[b] \ S) = Cardinality(Work[b]) - Cardinality(S)
    <2>1. Work[b] \cap S = S
      OBVIOUS
    <2> QED
      BY <1>1, <2>1, FS_Difference
  <1>7. \A i \in S : Cardinality(S \ {i}) = Cardinality(S) - 1
    BY <1>1, FS_RemoveElement
  <1>8. \A i : i \notin S => Cardinality(S \cup {i}) = Cardinality(S) + 1
    BY <1>1, FS_AddElement
  <1> QED
    BY <1>2, <1>3, <1>4, <1>5, <1>6, <1>7, <1>8

(* What a poll was told is of the batch's work, and of the current job.    *)
LEMMA ToldSets ==
    ASSUME TypeOK, NEW b \in Batches, Flow(b), JobsInv(b), Told(b),
           polls[b].at \in {"answers", "resubmitting", "failures"}
    PROVE  /\ polls[b].reply.ok \in SUBSET Work[b] /\ polls[b].reply.bad \in SUBSET Work[b]
           /\ polls[b].todo \in SUBSET Work[b] /\ CurrentJob(b).items \in SUBSET Work[b]
           /\ polls[b].reply.ok \cap polls[b].reply.bad = {}
           /\ polls[b].reply.ok \cup polls[b].reply.bad \subseteq CurrentJob(b).items
           /\ polls[b].held => CurrentJob(b).items \subseteq memory[b].requests
           /\ b \in Durable /\ polls[b].reply.status = "completed" =>
                  polls[b].reply.ok \cup polls[b].reply.bad = CurrentJob(b).items
           /\ CurrentJob(b) = jobs[b][rows[b].job]
  <1>1. rows[b].job = polls[b].seen.job /\ polls[b].seen.job \in 1 .. Len(jobs[b])
    BY CurrentOne DEF Flow
  <1>2. /\ Sound(b, CurrentJob(b))
        /\ AtHand(b) => CurrentJob(b).items \subseteq memory[b].requests
        /\ CurrentJob(b) = jobs[b][rows[b].job]
    BY <1>1 DEF JobsInv, CurrentJob
  <1>3. polls[b].todo \subseteq polls[b].reply.ok \cup polls[b].reply.bad
    BY DEF Told
  <1>4. /\ polls[b].reply.ok \subseteq CurrentJob(b).ok /\ polls[b].reply.bad \subseteq CurrentJob(b).bad
        /\ polls[b].reply.status = "completed" =>
              /\ CurrentJob(b).ended
              /\ polls[b].reply.ok = CurrentJob(b).ok /\ polls[b].reply.bad = CurrentJob(b).bad
    BY DEF Told
  <1> QED
    BY <1>2, <1>3, <1>4 DEF Sound, AtHand

(* The items of the jobs there were are what they were.                    *)
LEMMA ItemsStay ==
    ASSUME TypeOK, NEW b \in Batches, Flow(b), Moves(b)
    PROVE  /\ \A k \in 1 .. Len(jobs[b]) :
                 /\ jobs'[b][k].items = jobs[b][k].items
                 /\ jobs[b][k].forgotten => jobs'[b][k].forgotten
                 /\ jobs[b][k].ended => jobs'[b][k].ended /\ jobs'[b][k].ok = jobs[b][k].ok
           /\ OnRow(b) => rows[b].job \in 1 .. Len(jobs[b])
  <1>1. \A k \in 1 .. Len(jobs[b]) :
           /\ jobs'[b][k].items = jobs[b][k].items
           /\ jobs[b][k].forgotten => jobs'[b][k].forgotten
           /\ jobs[b][k].ended => jobs'[b][k].ended /\ jobs'[b][k].ok = jobs[b][k].ok
    <2>1. CASE ProviderAccepts(b)
      BY <2>1, AcceptEffects
    <2>2. CASE ~ProviderAccepts(b)
      BY <2>2, JobsStep DEF JobsOn, Onward
    <2> QED
      BY <2>1, <2>2
  <1>2. OnRow(b) => rows[b].job \in 1 .. Len(jobs[b])
    BY FlowTypes DEF OnRow, Flow
  <1> QED
    BY <1>1, <1>2

(* A step that leaves the counters of the row of a provider's batch alone. *)
LEMMA RemoteKept ==
    ASSUME TypeOK, NEW b \in Batches, Flow(b), Remote(b),
           memory'[b] = memory[b],
           \A k \in 1 .. Len(jobs[b]) : jobs'[b][k].items = jobs[b][k].items,
           OnRow(b)' => OnRow(b) /\ rows'[b].job = rows[b].job /\ rows'[b].succeeded = rows[b].succeeded,
           AtHand(b)' => AtHand(b),
           \/ polls'[b] = polls[b]
           \/ /\ polls'[b].at \in {"none", "asking"}
              /\ AtHand(b)' => polls[b].at \in {"none", "asking"}
    PROVE  Remote(b)'
  <1>1. OnRow(b) => rows[b].job \in 1 .. Len(jobs[b])
    BY FlowTypes DEF OnRow, Flow
  <1>2. OnRow(b)' => rows'[b].succeeded = Left(b, rows[b].job)' /\ rows'[b].job = rows[b].job
    BY <1>1 DEF Remote, Left
  <1>3. CASE polls'[b] = polls[b]
    <2>1. polls[b].at # "none" => CurrentJob(b)'.items = CurrentJob(b).items
      BY <1>3, CurrentOne DEF CurrentJob
    <2> QED
      BY <1>1, <1>2, <1>3, <2>1 DEF Remote, Left
  <1>4. CASE /\ polls'[b].at \in {"none", "asking"}
             /\ AtHand(b)' => polls[b].at \in {"none", "asking"}
    BY <1>1, <1>2, <1>4 DEF Remote, Left
  <1> QED
    BY <1>3, <1>4

(* One answer read counts once for a batch at a provider.                  *)
LEMMA RemoteItems ==
    ASSUME TypeOK, NEW b \in Batches, Flow(b), JobsInv(b), Told(b), Remote(b),
           UNCHANGED <<rows, jobs>>,
           \/ \E i \in Items : Settled(b, i)
           \/ /\ memory'[b] = memory[b] /\ polls[b].at = "answers"
              /\ polls'[b].at = polls[b].at /\ polls'[b].seen = polls[b].seen
              /\ polls'[b].held = polls[b].held /\ polls'[b].reply = polls[b].reply
              /\ polls'[b].todo = polls[b].todo
              /\ polls'[b].succeeded = polls[b].succeeded /\ polls'[b].failed = polls[b].failed
    PROVE  Remote(b)'
  <1>1. CASE \E i \in Items : Settled(b, i)
    <2>1. PICK i \in Items : Settled(b, i)
      BY <1>1
    <2>2. polls[b].at \in {"answers", "failures"} /\ i \in polls[b].todo
      BY <2>1 DEF Settled
    <2>3. /\ polls'[b].at = polls[b].at /\ polls'[b].held = polls[b].held
          /\ polls'[b].reply = polls[b].reply /\ polls'[b].todo = polls[b].todo \ {i}
          /\ CurrentJob(b)' = CurrentJob(b)
      BY <2>1 DEF Settled, CurrentJob
    <2>4. Cardinality(polls'[b].todo) = Cardinality(polls[b].todo) - 1 /\ Cardinality(polls[b].todo) \in Nat
      <3>1. polls[b].todo \in SUBSET Work[b]
        BY <2>2, ToldSets
      <3> QED
        BY <2>2, <2>3, <3>1, Cards
    <2>5. /\ polls[b].at = "answers" =>
                polls'[b].succeeded = polls[b].succeeded + 1 /\ polls'[b].failed = polls[b].failed
          /\ polls[b].at = "failures" =>
                polls'[b].succeeded = polls[b].succeeded /\ polls'[b].failed = polls[b].failed + 1
          /\ polls[b].held => memory'[b].reconciled = memory[b].reconciled \cup {i}
      BY <2>1, FlowTypes DEF Settled
    <2>6. polls[b].succeeded \in Nat /\ polls[b].failed \in Nat
      BY FlowTypes
    <2>7. polls[b].at = "answers" => i \in polls[b].reply.ok /\ i \in CurrentJob(b).items
      <3>1. polls[b].at = "answers" => polls[b].todo \subseteq polls[b].reply.ok
        BY DEF Told
      <3> QED
        BY <2>2, <3>1, ToldSets
    <2>8. polls[b].held /\ polls[b].at = "answers" =>
             memory'[b].reconciled \cap CurrentJob(b).items = polls[b].reply.ok \ polls'[b].todo
      <3>1. polls[b].held /\ polls[b].at = "answers" =>
               memory[b].reconciled \cap CurrentJob(b).items = polls[b].reply.ok \ polls[b].todo
        BY DEF Remote
      <3> QED
        BY <2>3, <2>5, <2>7, <3>1
    <2>9. rows'[b] = rows[b] /\ OnRow(b) /\ Left(b, rows[b].job)' = Left(b, rows[b].job)
      BY <2>2 DEF OnRow, Left
    <2> QED
      BY <2>2, <2>3, <2>4, <2>5, <2>6, <2>8, <2>9 DEF Remote, AtHand
  <1>2. CASE ~\E i \in Items : Settled(b, i)
    BY <1>2 DEF Remote, OnRow, Left, AtHand, CurrentJob
  <1> QED
    BY <1>1, <1>2

(* The answers of a provider leave the counters to what is read.           *)
LEMMA RemoteAnswer ==
    ASSUME TypeOK, NEW b \in Batches, b \in Durable, Flow(b), JobsInv(b), Remote(b), PollAnswers(b),
           JobsInv(b)', Told(b)', Flow(b)', TypeOK'
    PROVE  Remote(b)'
  <1>1. polls[b].seen.job \in 1 .. Len(jobs[b]) /\ polls[b].at = "asking"
    BY CurrentOne DEF PollAnswers
  <1>2. /\ rows'[b] = rows[b] /\ memory'[b] = memory[b] /\ (b \in inFlight' <=> b \in inFlight)
        /\ polls'[b].at = "answers" /\ polls'[b].seen = polls[b].seen
        /\ polls'[b].held = polls[b].held /\ polls'[b].succeeded = polls[b].succeeded
    BY <1>1, AnswerEffects
  <1>3. PICK r \in Replies(b) : polls'[b].reply = r /\ polls'[b].todo = Fresh(b, r.ok)
    BY <1>1, AnswerEffects
  <1>4. CurrentJob(b)'.items = CurrentJob(b).items /\ CurrentJob(b) = jobs[b][rows[b].job]
    BY <1>1, <1>2, ItemsStay DEF CurrentJob, Moves, CallStep, Flow
  <1>5. polls[b].held => memory[b].reconciled \cap CurrentJob(b).items = {}
    BY <1>1, <1>4 DEF Remote, AtHand, OnRow
  <1>6. r.ok \subseteq CurrentJob(b).items
    BY <1>1, <1>3 DEF Replies, Reply, JobsInv, Sound, CurrentJob
  <1>7. Fresh(b, r.ok) = r.ok
    BY <1>5, <1>6 DEF Fresh
  <1>8. polls'[b].succeeded = 0 /\ rows[b].succeeded = Left(b, rows[b].job)
    BY <1>1, <1>2 DEF Flow, Remote, OnRow
  <1>9. Left(b, rows[b].job)' = Left(b, rows[b].job)
    BY <1>2, <1>4, <1>1 DEF Left, CurrentJob, Flow
  <1>10. Cardinality(r.ok) \in Nat
    <2>1. Work[b]' = Work[b]
      OBVIOUS
    <2> QED
      BY <1>1, <1>4, <1>6, Cards DEF JobsInv, Sound, CurrentJob
  <1> QED
    BY <1>2, <1>3, <1>4, <1>5, <1>7, <1>8, <1>9, <1>10 DEF Remote, AtHand, OnRow

(* The turn of a poll keeps the counters of a batch at a provider.         *)
LEMMA RemoteTurn ==
    ASSUME TypeOK, NEW b \in Batches, b \in Durable, Flow(b), Asked(b), JobsInv(b), Told(b), Remote(b),
           \/ KeepPolling(b) \/ Resubmit(b) \/ ResubmitReturns(b) \/ ResubmitFails(b)
           \/ NoMoreRetries(b) \/ Finish(b)
    PROVE  Remote(b)'
  <1> DEFINE ok == polls[b].reply.ok
             bad == polls[b].reply.bad
             items == CurrentJob(b).items
  <1>1. polls[b].at \in {"answers", "resubmitting", "failures"}
    BY TurnEffects
  <1>2. /\ ok \in SUBSET Work[b] /\ bad \in SUBSET Work[b] /\ items \in SUBSET Work[b]
        /\ ok \cap bad = {} /\ ok \cup bad \subseteq items
        /\ polls[b].reply.status = "completed" => ok \cup bad = items
        /\ CurrentJob(b) = jobs[b][rows[b].job]
    BY <1>1, ToldSets
  <1>3. jobs'[b] = jobs[b]
    BY TurnEffects DEF Same
  <1>4. /\ rows[b].job \in 1 .. Len(jobs[b]) /\ rows[b].job = polls[b].seen.job
        /\ rows[b].succeeded = polls[b].seen.succeeded
        /\ rows[b].succeeded = Cardinality(Work[b]) - Cardinality(items)
    BY <1>1, <1>2, CurrentOne DEF Flow, Remote, OnRow, Left
  <1>5. /\ Cardinality(ok) \in Nat /\ Cardinality(bad) \in Nat /\ Cardinality(items) \in Nat
        /\ Cardinality(Work[b]) \in Nat /\ Cardinality({}) = 0
        /\ Cardinality(ok \cup bad) = Cardinality(ok) + Cardinality(bad)
    <2>1. Cardinality(ok) \in Nat /\ Cardinality(ok \cup bad) = Cardinality(ok) + Cardinality(bad)
      BY <1>2, Cards
    <2>2. Cardinality(bad) \in Nat /\ Cardinality(items) \in Nat /\ Cardinality(Work[b]) \in Nat
      BY <1>2, Cards
    <2>3. Cardinality({}) = 0
      BY <1>2, Cards
    <2> QED
      BY <2>1, <2>2, <2>3
  <1>6. polls[b].succeeded \in Nat
    BY FlowTypes
  <1>7. CASE KeepPolling(b) \/ ResubmitReturns(b)
    <2>1. /\ memory'[b] = memory[b] /\ polls'[b] = NoPoll /\ (b \in inFlight' <=> b \in inFlight)
          /\ rows'[b].succeeded = rows[b].succeeded + polls[b].succeeded
      <3>1. /\ Same(b) /\ polls'[b] = NoPoll /\ (b \in inFlight' <=> b \in inFlight)
            /\ Counts(b, rows[b].job) \/ Counts(b, Len(jobs[b]))
        BY <1>7, TurnEffects
      <3> QED
        BY <1>4, <3>1 DEF Same, Counts
    <2>2. polls'[b].at = "none" /\ (AtHand(b)' => polls[b].held)
      BY <1>1, <2>1, NoPollFields DEF AtHand, Asked
    <2>3. CASE polls[b].at = "answers"
      <3>1. rows'[b].job = rows[b].job /\ ok = {} /\ polls[b].todo = {}
        BY <1>7, <2>3, TurnEffects DEF Counts, Told
      <3>2. polls[b].succeeded = 0
        BY <1>5, <1>6, <2>3, <3>1 DEF Remote
      <3>3. polls[b].held => memory[b].reconciled \cap items = {}
        BY <2>3, <3>1 DEF Remote
      <3>4. rows'[b].succeeded = rows[b].succeeded
        BY <2>1, <3>2, FlowTypes
      <3> HIDE DEF ok, bad, items
      <3> QED
        BY <1>2, <1>3, <1>4, <2>1, <2>2, <3>1, <3>3, <3>4 DEF Remote, Left, items
    <2>4. CASE polls[b].at # "answers"
      <3>1. polls[b].at = "resubmitting" /\ wire[b] = "accepted" /\ rows'[b].job = Len(jobs[b])
        BY <1>7, <2>4, TurnEffects DEF Counts
      <3>2. polls[b].held /\ jobs[b][Len(jobs[b])].items = bad
        <4>1. polls[b].held /\ jobs[b][Len(jobs[b])].items = bad \cap memory[b].requests
          BY <3>1 DEF Asked, Retryable
        <4>2. bad \subseteq memory[b].requests
          BY <1>1, <1>2, <4>1, ToldSets
        <4> QED
          BY <4>1, <4>2
      <3>3. ok \cup bad = items /\ polls[b].todo = {} /\ polls[b].succeeded = Cardinality(ok)
        BY <1>2, <3>1 DEF Told, Remote
      <3>4. rows'[b].succeeded = Cardinality(Work[b]) - Cardinality(bad)
        <4>1. Cardinality(items) = Cardinality(ok) + Cardinality(bad)
          BY <1>5, <3>3
        <4> HIDE DEF ok, bad, items
        <4> QED
          BY <1>4, <1>5, <2>1, <3>3, <4>1
      <3>5. memory[b].reconciled \cap items = ok
        BY <3>1, <3>2, <3>3 DEF Remote
      <3>6. memory[b].reconciled \cap bad = {}
        BY <1>2, <3>3, <3>5
      <3> HIDE DEF ok, bad, items
      <3> QED
        BY <1>3, <2>1, <2>2, <3>1, <3>2, <3>4, <3>6 DEF Remote, Left
    <2> QED
      BY <2>3, <2>4
  <1>8. CASE Resubmit(b)
    <2>1. /\ polls[b].at = "answers" /\ polls[b].todo = {} /\ rows'[b] = rows[b]
          /\ polls'[b].at = "resubmitting" /\ polls'[b].todo = {} /\ polls'[b].held = polls[b].held
          /\ polls'[b].reply = polls[b].reply /\ polls'[b].succeeded = polls[b].succeeded
          /\ memory'[b].reconciled = memory[b].reconciled /\ CurrentJob(b)' = CurrentJob(b)
      BY <1>3, <1>8, TurnEffects DEF SamePoll, CurrentJob
    <2>2. polls[b].succeeded = Cardinality(ok)
      BY <1>5, <1>6, <2>1 DEF Remote
    <2>3. polls[b].held => memory[b].reconciled \cap items = ok
      BY <2>1 DEF Remote
    <2> QED
      BY <1>2, <1>3, <1>4, <2>1, <2>2, <2>3 DEF Remote, Left
  <1>9. CASE ResubmitFails(b) \/ NoMoreRetries(b)
    <2>1. /\ polls[b].at \in {"answers", "resubmitting"} /\ rows'[b] = rows[b]
          /\ polls[b].at = "answers" => polls[b].todo = {}
          /\ polls'[b].at = "failures" /\ polls'[b].todo = Fresh(b, bad)
          /\ polls'[b].reply = polls[b].reply /\ polls'[b].succeeded = polls[b].succeeded
          /\ polls'[b].failed = polls[b].failed
      BY <1>9, TurnEffects DEF SamePoll
    <2>2. polls[b].todo = {} /\ polls[b].failed = 0
      BY <2>1 DEF Told, Flow
    <2>3. polls[b].succeeded = Cardinality(ok)
      BY <1>5, <1>6, <2>1, <2>2 DEF Remote
    <2>4. Fresh(b, bad) = bad
      <3>1. polls[b].held => memory[b].reconciled \cap items = ok
        BY <2>1, <2>2 DEF Remote
      <3> QED
        BY <1>2, <3>1 DEF Fresh
    <2>5. OnRow(b)' => (rows[b].succeeded = Left(b, rows[b].job))'
      BY <1>2, <1>3, <1>4, <2>1 DEF Left
    <2>6. /\ polls'[b].succeeded = Cardinality(polls'[b].reply.ok)
          /\ polls'[b].failed + Cardinality(polls'[b].todo) = Cardinality(polls'[b].reply.bad)
      BY <1>5, <2>1, <2>2, <2>3, <2>4
    <2> QED
      BY <2>1, <2>5, <2>6 DEF Remote
  <1>10. CASE Finish(b)
    <2>1. polls'[b] = NoPoll /\ b \notin inFlight' /\ rows'[b].status = polls[b].reply.status
      BY <1>10, TurnEffects
    <2>2. rows'[b].status \notin Active
      BY <1>10, <2>1, TurnEffects, FlowTypes DEF Told, ReplyStatus, Active
    <2> QED
      BY <2>1, <2>2, NoPollFields DEF Remote, OnRow, AtHand
  <1> QED
    BY <1>7, <1>8, <1>9, <1>10

(* Every step of a batch at a provider keeps its counters.                 *)
LEMMA RemoteStep ==
    ASSUME TypeOK, NEW b \in Batches, b \in Durable,
           Flow(b), Asked(b), JobsInv(b), Told(b), Sums(b), Remote(b), Moves(b),
           TypeOK', Flow(b)', JobsInv(b)', Told(b)'
    PROVE  Remote(b)'
  <1>0. \A k \in 1 .. Len(jobs[b]) : jobs'[b][k].items = jobs[b][k].items
    BY ItemsStay
  <1>1. CASE SubmitBatch(b)
    <2>1. rows[b].status = "absent" /\ polls'[b] = polls[b] /\ rows'[b].job = rows[b].job
      BY <1>1, SubmitEffects
    <2>2. polls[b].at = "none" /\ rows[b].job = 0
      BY <2>1 DEF Flow
    <2> QED
      BY <2>1, <2>2, NoPollFields DEF Remote, OnRow, Flow
  <1>2. CASE SubmitReturns(b)
    <2>1. /\ polls[b].at = "none" /\ wire[b] = "accepted" /\ jobs'[b] = jobs[b]
          /\ memory'[b] = memory[b] /\ polls'[b] = polls[b] /\ rows'[b].job = Len(jobs[b])
          /\ rows'[b].succeeded = Cardinality(Work[b] \ memory[b].requests)
      BY <1>2, SubmitEffects DEF Same
    <2>2. jobs[b][Len(jobs[b])].items = memory[b].requests /\ memory[b].reconciled = {}
      <3>1. Len(jobs[b]) \in 1 .. Len(jobs[b])
        BY <2>1, FlowTypes DEF Flow
      <3> QED
        BY <2>1, <3>1 DEF Asked, First, Sums
    <2>3. Cardinality(Work[b] \ memory[b].requests)
             = Cardinality(Work[b]) - Cardinality(memory[b].requests)
      <3>1. memory[b].requests \in SUBSET Work[b]
        BY DEF Flow
      <3> QED
        BY <3>1, Cards
    <2>4. ~polls[b].held
      BY <2>1, NoPollFields DEF Flow
    <2> QED
      BY <2>1, <2>2, <2>3, <2>4 DEF Remote, Left, OnRow
  <1>3. CASE SubmitFails(b)
    <2>1. /\ memory'[b] = memory[b] /\ polls'[b] = polls[b] /\ b \notin inFlight'
          /\ rows'[b].status = "failed" /\ polls[b].at = "none"
      BY <1>3, SubmitEffects DEF Same
    <2> QED
      BY <2>1, NoPollFields DEF Remote, OnRow, AtHand, Flow, Active
  <1>4. CASE PollStarts(b)
    <2>1. /\ memory'[b] = memory[b] /\ rows'[b] = rows[b] /\ polls[b].at = "none"
          /\ wire[b] = "none" /\ phase = "up"
          /\ b \in inFlight' <=> b \in inFlight
          /\ \/ polls'[b] = polls[b]
             \/ /\ rows[b].status \in Active /\ polls'[b].at = "asking"
                /\ polls'[b].held <=> b \in inFlight
      BY <1>4, PollEffects DEF Same
    <2>2. rows[b].status \in Active => rows[b].job # 0
      BY <2>1 DEF Flow, First, Active
    <2>3. OnRow(b)' => OnRow(b)
      BY <2>1, <2>2 DEF OnRow
    <2>4. AtHand(b)' => AtHand(b)
      BY <2>1 DEF AtHand
    <2> QED
      BY <1>0, <2>1, <2>3, <2>4, RemoteKept
  <1>5. CASE PollUnresolved(b) \/ PollFails(b)
    <2>1. /\ memory'[b] = memory[b] /\ SameRow(b)
          /\ b \in inFlight' <=> b \in inFlight
          /\ polls'[b] = polls[b] \/ (polls'[b] = NoPoll /\ polls[b].at = "asking")
          /\ rows'[b].status \in {rows[b].status, "failed"}
      BY <1>5, PollEffects DEF Same, SameRow
    <2>2. OnRow(b)' => OnRow(b)
      BY <2>1, NoPollFields DEF OnRow, SameRow, Active
    <2>3. AtHand(b)' => AtHand(b)
      BY <2>1, NoPollFields DEF AtHand
    <2> QED
      BY <1>0, <2>1, <2>2, <2>3, RemoteKept, NoPollFields DEF SameRow
  <1>6. CASE PollAnswers(b)
    BY <1>6, RemoteAnswer
  <1>7. CASE ProviderAccepts(b)
    BY <1>0, <1>7, AcceptEffects, RemoteKept DEF OnRow, AtHand
  <1>8. CASE \/ KeepPolling(b) \/ Resubmit(b) \/ ResubmitReturns(b) \/ ResubmitFails(b)
             \/ NoMoreRetries(b) \/ Finish(b)
    BY <1>8, RemoteTurn
  <1>9. CASE Cancel(b) \/ CancelReturns(b)
    <2>1. /\ memory'[b] = memory[b] /\ polls'[b] = polls[b] /\ SameRow(b)
          /\ b \in inFlight' => b \in inFlight
          /\ rows'[b].status \in {rows[b].status, "cancelled"}
      BY <1>9, CancelEffects
    <2>2. OnRow(b)' => OnRow(b)
      BY <2>1 DEF OnRow, SameRow, Active
    <2> QED
      BY <1>0, <2>1, <2>2, RemoteKept DEF SameRow, AtHand
  <1>10. CASE \/ ProviderCancels(b)
              \/ \E k \in DOMAIN jobs[b] : JobEnds(b, k) \/ ItemEnds(b, k) \/ RunEnds(b, k)
    <2>1. UNCHANGED <<rows, answers, logged, phase, memoryVars, callVars, used>>
      BY <1>10, TypeProvider DEF Flow
    <2>2. UNCHANGED <<rows, inFlight, memory, polls>>
      BY <2>1 DEF memoryVars, callVars
    <2> QED
      BY <1>0, <2>2, RemoteKept DEF OnRow, AtHand
  <1>11. CASE \/ \E i \in polls[b].todo :
                    \/ SkipAnswered(b, i)
                    \/ \E written \in BOOLEAN : RecordAnswer(b, i, written)
                    \/ RecordFailure(b, i)
              \/ \E written \in BOOLEAN : StoreAnswer(b, written)
    <2>1. UNCHANGED <<rows, phase, inFlight, timers, wire, cancelling, jobs>>
      BY <1>11, TypeItems
    <2>2. polls[b].open # None => polls[b].at = "answers" /\ polls[b].open \in polls[b].todo
      BY DEF Flow
    <2> QED
      BY <1>11, <2>1, <2>2, ItemEffects, RemoteItems
  <1> QED
    BY <1>1, <1>2, <1>3, <1>4, <1>5, <1>6, <1>7, <1>8, <1>9, <1>10, <1>11
       DEF Moves, CallStep, TurnStep, ProviderStep

(* The fallback's batches.                                                 *)
LEMMA FallbackTurn ==
    ASSUME TypeOK, NEW b \in Batches, b \notin Durable,
           Flow(b), Asked(b), JobsInv(b), Told(b), Fallback(b),
           \/ KeepPolling(b) \/ Resubmit(b) \/ ResubmitReturns(b) \/ ResubmitFails(b)
           \/ NoMoreRetries(b) \/ Finish(b)
    PROVE  Fallback(b)'
  <1>1. polls[b].at \in {"answers", "resubmitting", "failures"}
    BY TurnEffects
  <1>2. /\ rows[b].job \in 1 .. Len(jobs[b]) /\ rows[b].succeeded = polls[b].seen.succeeded
        /\ OnRow(b) /\ jobs'[b] = jobs[b]
        /\ rows[b].succeeded \in Nat /\ polls[b].succeeded \in Nat /\ polls[b].failed \in Nat
        /\ polls[b].at # "failures" => polls[b].failed = 0
    BY <1>1, CurrentOne, FlowTypes, TurnEffects DEF Flow, OnRow, Same
  <1>3. (polls[b].held <=> b \in inFlight) /\ (AtHand(b) <=> b \in inFlight)
    BY <1>1 DEF Fallback, AtHand, Asked
  <1>4. CASE KeepPolling(b) \/ ResubmitReturns(b)
    <2>1. /\ memory'[b] = memory[b] /\ polls'[b] = NoPoll /\ wire'[b] = "none"
          /\ b \in inFlight' <=> b \in inFlight
          /\ rows'[b].succeeded = rows[b].succeeded + polls[b].succeeded
          /\ \/ polls[b].at = "answers" /\ rows'[b].job = rows[b].job
             \/ polls[b].at = "resubmitting"
      BY <1>2, <1>4, TurnEffects DEF Same, Counts, Flow
    <2>2. polls'[b].at = "none" /\ ~polls'[b].held /\ polls'[b].succeeded = 0 /\ polls'[b].failed = 0
      BY <2>1, NoPollFields
    <2>3. AtHand(b)' <=> b \in inFlight
      BY <2>1, <2>2 DEF AtHand
    <2>4. polls[b].failed = 0
      BY <1>2, <2>1
    <2>5. b \in inFlight => rows'[b].succeeded + polls'[b].succeeded + polls'[b].failed
                 = Cardinality(Work[b] \ memory[b].requests) + Cardinality(memory[b].reconciled)
      <3>1. rows'[b].succeeded + polls'[b].succeeded + polls'[b].failed
               = rows[b].succeeded + polls[b].succeeded + polls[b].failed
        BY <1>2, <2>1, <2>2, <2>4
      <3> QED
        BY <1>2, <1>3, <3>1 DEF Fallback
    <2>6. b \notin inFlight => jobs'[b][rows'[b].job].forgotten
      <3>1. b \notin inFlight => polls[b].at = "answers"
        BY <1>3, <2>1 DEF Asked
      <3> QED
        BY <1>1, <1>2, <1>3, <2>1, <3>1 DEF Fallback
    <2> QED
      BY <2>1, <2>2, <2>3, <2>5, <2>6 DEF Fallback, First
  <1>5. CASE Resubmit(b)
    <2>1. /\ polls[b].at = "answers" /\ rows'[b] = rows[b] /\ polls[b].held
          /\ b \in inFlight' <=> b \in inFlight
          /\ polls'[b].at = "resubmitting" /\ polls'[b].held
          /\ polls'[b].succeeded = polls[b].succeeded /\ polls'[b].failed = polls[b].failed
          /\ memory'[b].requests = memory[b].requests
          /\ memory'[b].reconciled = memory[b].reconciled
      BY <1>5, TurnEffects DEF SamePoll, WillRetry
    <2> QED
      BY <1>2, <1>3, <2>1 DEF Fallback, First, AtHand
  <1>6. CASE ResubmitFails(b) \/ NoMoreRetries(b)
    <2>1. /\ polls[b].at \in {"answers", "resubmitting"} /\ rows'[b] = rows[b] /\ memory'[b] = memory[b]
          /\ b \in inFlight' <=> b \in inFlight
          /\ polls'[b].at = "failures" /\ polls'[b].held = polls[b].held
          /\ polls'[b].todo = Fresh(b, polls[b].reply.bad) /\ polls'[b].reply = polls[b].reply
          /\ polls'[b].succeeded = polls[b].succeeded /\ polls'[b].failed = polls[b].failed
      BY <1>6, TurnEffects DEF SamePoll, Same
    <2>2. /\ polls[b].held => Fresh(b, polls[b].reply.bad) \cap memory[b].reconciled = {}
          /\ ~polls[b].held => Fresh(b, polls[b].reply.bad) = {}
      BY <1>1 DEF Fresh, Fallback
    <2> QED
      BY <1>1, <1>2, <1>3, <2>1, <2>2 DEF Fallback, First, AtHand
  <1>7. CASE Finish(b)
    <2>1. /\ polls'[b] = NoPoll /\ wire'[b] = wire[b] /\ polls[b].at = "failures"
          /\ rows'[b].status = polls[b].reply.status
      BY <1>7, TurnEffects
    <2>2. wire[b] = "none" /\ rows'[b].status \notin Active
      BY <2>1, FlowTypes DEF Flow, Told, ReplyStatus, Active
    <2> QED
      BY <2>1, <2>2, NoPollFields DEF Fallback, First, OnRow
  <1> QED
    BY <1>4, <1>5, <1>6, <1>7

(* One answer read counts once for a batch of the fallback.                *)
LEMMA FallbackItems ==
    ASSUME TypeOK, NEW b \in Batches, b \notin Durable,
           Flow(b), Asked(b), JobsInv(b), Told(b), Fallback(b),
           UNCHANGED <<rows, phase, inFlight, wire, jobs>>,
           \/ \E i \in Items : Settled(b, i)
           \/ /\ memory'[b] = memory[b] /\ polls[b].at = "answers"
              /\ polls'[b].at = polls[b].at /\ polls'[b].seen = polls[b].seen
              /\ polls'[b].held = polls[b].held /\ polls'[b].reply = polls[b].reply
              /\ polls'[b].todo = polls[b].todo
              /\ polls'[b].succeeded = polls[b].succeeded /\ polls'[b].failed = polls[b].failed
    PROVE  Fallback(b)'
  <1>1. CASE \E i \in Items : Settled(b, i)
    <2>1. PICK i \in Items : Settled(b, i)
      BY <1>1
    <2>2. polls[b].at \in {"answers", "failures"} /\ i \in polls[b].todo
      BY <2>1 DEF Settled
    <2>3. polls[b].held /\ b \in inFlight
      BY <2>2 DEF Fallback
    <2>4. /\ polls'[b].at = polls[b].at /\ polls'[b].held /\ polls'[b].todo = polls[b].todo \ {i}
          /\ memory'[b].requests = memory[b].requests
          /\ memory'[b].reconciled = memory[b].reconciled \cup {i}
      BY <2>1, <2>3 DEF Settled
    <2>5. polls'[b].succeeded + polls'[b].failed = polls[b].succeeded + polls[b].failed + 1
      BY <2>1, <2>2, FlowTypes DEF Settled
    <2>6. i \notin memory[b].reconciled
      BY <2>2, <2>3 DEF Fallback
    <2>7. Cardinality(memory'[b].reconciled) = Cardinality(memory[b].reconciled) + 1
      <3>1. memory[b].reconciled \in SUBSET Work[b]
        BY DEF JobsInv, Flow
      <3> QED
        <4>1. Cardinality(memory[b].reconciled \cup {i}) = Cardinality(memory[b].reconciled) + 1
          BY <2>6, <3>1, Cards
        <4> QED
          BY <2>4, <4>1
    <2>8. /\ Cardinality(memory[b].reconciled) \in Nat /\ Cardinality(Work[b] \ memory[b].requests) \in Nat
          /\ polls'[b].succeeded \in Nat /\ polls'[b].failed \in Nat
      <3>1. memory[b].reconciled \in SUBSET Work[b] /\ Work[b] \ memory[b].requests \in SUBSET Work[b]
        BY DEF JobsInv, Flow
      <3>2. Cardinality(memory[b].reconciled) \in Nat
        BY <3>1, Cards
      <3>3. Cardinality(Work[b] \ memory[b].requests) \in Nat
        BY <3>1, Cards
      <3>4. polls'[b].succeeded \in Nat /\ polls'[b].failed \in Nat
        BY <2>1, FlowTypes DEF Settled
      <3> QED
        BY <3>2, <3>3, <3>4
    <2>9. rows[b].succeeded + polls'[b].succeeded + polls'[b].failed
             = Cardinality(Work[b] \ memory'[b].requests) + Cardinality(memory'[b].reconciled)
      <3>1. rows[b].succeeded + polls[b].succeeded + polls[b].failed
               = Cardinality(Work[b] \ memory[b].requests) + Cardinality(memory[b].reconciled)
        BY <2>2, <2>3 DEF Fallback, OnRow, AtHand
      <3>2. rows[b].succeeded \in Nat /\ polls[b].succeeded \in Nat /\ polls[b].failed \in Nat
        BY FlowTypes
      <3>3. Cardinality(Work[b] \ memory'[b].requests) = Cardinality(Work[b] \ memory[b].requests)
        BY <2>4
      <3>4. rows[b].succeeded + polls'[b].succeeded + polls'[b].failed
               = rows[b].succeeded + polls[b].succeeded + polls[b].failed + 1
        BY <2>5, <2>8, <3>2
      <3> QED
        BY <2>7, <2>8, <3>1, <3>3, <3>4
    <2>10. polls'[b].todo \cap memory'[b].reconciled = {}
      <3>1. polls[b].todo \cap memory[b].reconciled = {}
        BY <2>2, <2>3 DEF Fallback
      <3> QED
        BY <2>4, <3>1
    <2> QED
      BY <2>2, <2>3, <2>4, <2>9, <2>10 DEF Fallback, First, AtHand
  <1>2. CASE ~\E i \in Items : Settled(b, i)
    BY <1>2 DEF Fallback, OnRow, First, AtHand
  <1> QED
    BY <1>1, <1>2

(* The answers of the fallback leave the counters to what is read.         *)
LEMMA FallbackAnswer ==
    ASSUME TypeOK, NEW b \in Batches, b \notin Durable,
           Flow(b), Fallback(b), PollAnswers(b), phase' = phase
    PROVE  Fallback(b)'
  <1>1. polls[b].seen.job \in 1 .. Len(jobs[b]) /\ polls[b].at = "asking"
    BY CurrentOne DEF PollAnswers
  <1>2. /\ rows'[b] = rows[b] /\ memory'[b] = memory[b] /\ wire'[b] = wire[b]
        /\ b \in inFlight' <=> b \in inFlight
        /\ polls'[b].at = "answers" /\ polls'[b].held = polls[b].held
        /\ polls'[b].succeeded = polls[b].succeeded /\ polls'[b].failed = polls[b].failed
    BY <1>1, AnswerEffects
  <1>3. PICK r \in Replies(b) : polls'[b].reply = r /\ polls'[b].todo = Fresh(b, r.ok)
    BY <1>1, AnswerEffects
  <1>4. CurrentJob(b).forgotten => jobs'[b][rows[b].job].forgotten
    BY <1>1, ItemsStay DEF CurrentJob, Moves, CallStep, Flow
  <1>5. CurrentJob(b) = jobs[b][rows[b].job] /\ OnRow(b)
    BY <1>1 DEF CurrentJob, Flow, OnRow
  <1>6. ~polls[b].held =>
           /\ CurrentJob(b).forgotten /\ polls[b].succeeded = 0 /\ polls[b].failed = 0
           /\ polls'[b].todo = {} /\ polls'[b].reply.bad = {}
    <2>1. ~polls[b].held =>
             CurrentJob(b).forgotten /\ polls[b].succeeded = 0 /\ polls[b].failed = 0
      BY <1>1, <1>5 DEF Fallback
    <2>2. CurrentJob(b).forgotten => r = Reply("failed", {}, {})
      BY <1>3 DEF Replies
    <2>3. Reply("failed", {}, {}).ok = {} /\ Reply("failed", {}, {}).bad = {}
      BY DEF Reply
    <2> QED
      BY <1>3, <2>1, <2>2, <2>3 DEF Fresh
  <1>7. polls[b].held => polls'[b].todo \cap memory[b].reconciled = {}
    BY <1>3 DEF Fresh
  <1> QED
    BY <1>1, <1>2, <1>4, <1>5, <1>6, <1>7 DEF Fallback, First, AtHand, OnRow

(* Every step of a batch of the fallback keeps its counters.               *)
LEMMA FallbackStep ==
    ASSUME TypeOK, NEW b \in Batches, b \notin Durable,
           Flow(b), Asked(b), JobsInv(b), Told(b), Sums(b), Fallback(b), Moves(b)
    PROVE  Fallback(b)'
  <1>0. /\ phase' = phase
        /\ \A k \in 1 .. Len(jobs[b]) : jobs[b][k].forgotten => jobs'[b][k].forgotten
        /\ OnRow(b) => rows[b].job \in 1 .. Len(jobs[b])
    BY ItemsStay, TypeStep DEF Local
  <1>1. CASE SubmitBatch(b)
    <2>1. rows[b].status = "absent" /\ polls'[b] = polls[b] /\ rows'[b].job = rows[b].job
      BY <1>1, SubmitEffects
    <2>2. polls[b].at = "none" /\ rows[b].job = 0 /\ wire[b] = "none"
      BY <2>1 DEF Flow
    <2>3. wire'[b] # "none" => b \in inFlight'
      BY <1>1, <2>2, SubmitEffects
    <2> QED
      BY <2>1, <2>2, <2>3, NoPollFields DEF Fallback, OnRow, Flow, First
  <1>2. CASE SubmitReturns(b)
    <2>1. /\ polls[b].at = "none" /\ wire[b] = "accepted"
          /\ memory'[b] = memory[b] /\ polls'[b] = polls[b] /\ wire'[b] = "none"
          /\ b \in inFlight' <=> b \in inFlight
          /\ rows'[b].succeeded = Cardinality(Work[b] \ memory[b].requests)
      BY <1>2, SubmitEffects DEF Same
    <2>2. b \in inFlight /\ memory[b].reconciled = {} /\ polls[b] = NoPoll
      BY <2>1 DEF Fallback, First, Sums, Flow
    <2>3. Cardinality({}) = 0 /\ Cardinality(Work[b] \ memory[b].requests) \in Nat
      <3>1. Work[b] \ memory[b].requests \in SUBSET Work[b]
        OBVIOUS
      <3> QED
        BY <3>1, Cards
    <2>4. rows'[b].succeeded + polls'[b].succeeded + polls'[b].failed
             = Cardinality(Work[b] \ memory'[b].requests) + Cardinality(memory'[b].reconciled)
      BY <2>1, <2>2, <2>3, NoPollFields
    <2> QED
      BY <2>1, <2>2, <2>4, NoPollFields DEF Fallback, First, AtHand
  <1>3. CASE SubmitFails(b) \/ PollFails(b)
    BY <1>3, SubmitEffects, PollEffects
  <1>4. CASE PollStarts(b)
    <2>1. /\ memory'[b] = memory[b] /\ rows'[b] = rows[b] /\ polls[b].at = "none"
          /\ wire[b] = "none" /\ wire'[b] = "none" /\ phase = "up"
          /\ b \in inFlight' <=> b \in inFlight
          /\ \/ polls'[b] = polls[b]
             \/ /\ rows[b].status \in Active /\ polls'[b].at = "asking"
                /\ polls'[b].held <=> b \in inFlight
                /\ polls'[b].reply = polls[b].reply /\ polls'[b].todo = polls[b].todo
                /\ polls'[b].succeeded = polls[b].succeeded /\ polls'[b].failed = polls[b].failed
      BY <1>4, PollEffects DEF Same
    <2>2. polls[b] = NoPoll /\ (rows[b].status \in Active => rows[b].job # 0)
      BY <2>1 DEF Flow, First, Active
    <2>3. polls[b].todo = {} /\ polls[b].succeeded = 0 /\ polls[b].failed = 0
            /\ polls[b].reply.bad = {} /\ ~polls[b].held
      BY <2>2, NoPollFields DEF Reply
    <2>4. CASE polls'[b] = polls[b]
      BY <1>0, <2>1, <2>4 DEF Fallback, OnRow, First, AtHand
    <2>5. CASE polls'[b] # polls[b]
      <3>1. OnRow(b) /\ (AtHand(b)' <=> AtHand(b)) /\ (AtHand(b) <=> b \in inFlight)
        BY <2>1, <2>2, <2>3, <2>5 DEF OnRow, AtHand
      <3>2. b \notin inFlight => jobs'[b][rows[b].job].forgotten
        BY <1>0, <2>1, <3>1 DEF Fallback
      <3> QED
        BY <2>1, <2>3, <2>5, <3>1, <3>2 DEF Fallback, First
    <2> QED
      BY <2>4, <2>5
  <1>5. CASE PollUnresolved(b)
    <2>1. /\ polls'[b] = polls[b] /\ polls[b].at = "none" /\ b \in timers
          /\ wire'[b] = wire[b] /\ rows'[b].status = "failed"
      BY <1>5, PollEffects DEF Same
    <2>2. wire[b] = "none" /\ polls[b] = NoPoll
      BY <2>1 DEF Flow, First
    <2> QED
      BY <2>1, <2>2, NoPollFields DEF Fallback, OnRow, First, Active
  <1>6. CASE PollAnswers(b)
    BY <1>0, <1>6, FallbackAnswer
  <1>7. CASE ProviderAccepts(b)
    BY <1>0, <1>7, AcceptEffects DEF Fallback, OnRow, First, AtHand
  <1>8. CASE \/ KeepPolling(b) \/ Resubmit(b) \/ ResubmitReturns(b) \/ ResubmitFails(b)
             \/ NoMoreRetries(b) \/ Finish(b)
    BY <1>8, FallbackTurn
  <1>9. CASE Cancel(b) \/ CancelReturns(b)
    <2>1. /\ Quiet /\ polls'[b] = polls[b] /\ memory'[b] = memory[b] /\ wire'[b] = wire[b]
          /\ SameRow(b)
          /\ \/ rows'[b] = rows[b] /\ jobs'[b] = jobs[b] /\ (b \in inFlight' <=> b \in inFlight)
             \/ rows'[b].status = "cancelled"
      BY <1>9, CancelEffects
    <2>2. wire[b] = "none" /\ polls[b].at = "none"
      BY <2>1, FlowTypes DEF Quiet, Mid, Flow
    <2>3. polls[b] = NoPoll
      BY <2>2 DEF Flow
    <2> QED
      BY <1>0, <2>1, <2>2, <2>3, NoPollFields DEF Fallback, OnRow, First, AtHand, Active
  <1>10. CASE \/ ProviderCancels(b)
              \/ \E k \in DOMAIN jobs[b] : JobEnds(b, k) \/ ItemEnds(b, k) \/ RunEnds(b, k)
    <2>1. UNCHANGED <<rows, answers, logged, phase, memoryVars, callVars, used>>
      BY <1>10, TypeProvider DEF Flow
    <2>2. UNCHANGED <<rows, inFlight, memory, wire, polls>>
      BY <2>1 DEF memoryVars, callVars
    <2> QED
      BY <1>0, <2>2 DEF Fallback, OnRow, First, AtHand
  <1>11. CASE \/ \E i \in polls[b].todo :
                    \/ SkipAnswered(b, i)
                    \/ \E written \in BOOLEAN : RecordAnswer(b, i, written)
                    \/ RecordFailure(b, i)
              \/ \E written \in BOOLEAN : StoreAnswer(b, written)
    <2>1. UNCHANGED <<rows, phase, inFlight, timers, wire, cancelling, jobs>>
      BY <1>11, TypeItems
    <2>2. polls[b].open # None => polls[b].at = "answers" /\ polls[b].open \in polls[b].todo
      BY DEF Flow
    <2> QED
      BY <1>11, <2>1, <2>2, ItemEffects, FallbackItems
  <1> QED
    BY <1>1, <1>2, <1>3, <1>4, <1>5, <1>6, <1>7, <1>8, <1>9, <1>10, <1>11
       DEF Moves, CallStep, TurnStep, ProviderStep

(* What is remembered of the requests held is no more than was asked.      *)
LEMMA Remembered ==
    ASSUME NEW b \in Batches, Flow(b), JobsInv(b)
    PROVE  /\ Cardinality(Work[b] \ memory[b].requests) + Cardinality(memory[b].reconciled)
                <= Cardinality(Work[b])
           /\ Cardinality(Work[b] \ memory[b].requests) <= Cardinality(Work[b])
  <1>1. /\ memory[b].reconciled \in SUBSET Work[b] /\ Work[b] \ memory[b].requests \in SUBSET Work[b]
        /\ (Work[b] \ memory[b].requests) \cap memory[b].reconciled = {}
    BY DEF Flow, JobsInv
  <1> QED
    BY <1>1, Cards

(* The turn of a poll claims no more than was asked.                       *)
LEMMA SumsTurn ==
    ASSUME TypeOK, NEW b \in Batches,
           Flow(b), Asked(b), JobsInv(b), Told(b), Sums(b),
           b \in Durable => Remote(b) /\ Remote(b)', b \notin Durable => Fallback(b),
           TypeOK', Flow(b)', JobsInv(b)',
           \/ KeepPolling(b) \/ Resubmit(b) \/ ResubmitReturns(b) \/ ResubmitFails(b)
           \/ NoMoreRetries(b) \/ Finish(b)
    PROVE  Sums(b)'
  <1>1. /\ polls[b].at \in {"answers", "resubmitting", "failures"} /\ OnRow(b)
        /\ rows[b].failed = 0 /\ rows[b].succeeded = polls[b].seen.succeeded
        /\ rows[b].failed = polls[b].seen.failed
        /\ rows[b].succeeded \in Nat /\ polls[b].succeeded \in Nat /\ polls[b].failed \in Nat
        /\ rows[b].succeeded <= Cardinality(Work[b])
        /\ Cardinality(Work[b]) \in Nat
    <2>1. polls[b].at \in {"answers", "resubmitting", "failures"}
      BY TurnEffects
    <2>2. OnRow(b) /\ rows[b].failed = 0
      BY <2>1 DEF OnRow, Sums
    <2>3. Cardinality(Work[b]) \in Nat
      BY BatchTypes
    <2> QED
      BY <2>1, <2>2, <2>3, FlowTypes DEF Flow, Sums
  <1>2. b \notin Durable =>
           rows[b].succeeded + polls[b].succeeded + polls[b].failed <= Cardinality(Work[b])
    <2>1. CASE b \notin Durable /\ polls[b].held
      <3>1. rows[b].succeeded + polls[b].succeeded + polls[b].failed
               = Cardinality(Work[b] \ memory[b].requests) + Cardinality(memory[b].reconciled)
        BY <1>1, <2>1 DEF Fallback, AtHand
      <3> QED
        BY <3>1, Remembered
    <2>2. CASE b \notin Durable /\ ~polls[b].held
      BY <1>1, <2>2 DEF Fallback
    <2> QED
      BY <2>1, <2>2
  <1>3. CASE KeepPolling(b) \/ ResubmitReturns(b)
    <2>1. /\ polls'[b] = NoPoll /\ wire'[b] = "none" /\ rows'[b].failed = 0
          /\ rows'[b].status = "in_progress"
          /\ rows'[b].succeeded = rows[b].succeeded + polls[b].succeeded
      BY <1>1, <1>3, TurnEffects DEF Counts, Flow
    <2>2. rows'[b].succeeded <= Cardinality(Work[b])
      <3>1. CASE b \in Durable
        <4>1. OnRow(b)' /\ rows'[b].job \in 1 .. Len(jobs[b]) /\ jobs'[b] = jobs[b]
          <5>1. jobs'[b] = jobs[b] /\ rows'[b].job \in {rows[b].job, Len(jobs[b])}
            BY <1>3, TurnEffects DEF Same, Counts
          <5>2. rows'[b].job \in 1 .. Len(jobs[b])
            BY <1>1, <5>1, CurrentOne, FlowTypes DEF Flow
          <5> QED
            BY <2>1, <5>1, <5>2 DEF OnRow, Active
        <4>2. rows'[b].succeeded = Cardinality(Work[b]) - Cardinality(jobs[b][rows'[b].job].items)
          BY <3>1, <4>1 DEF Remote, Left
        <4>3. Cardinality(jobs[b][rows'[b].job].items) \in Nat
          BY <4>1, BatchTypes DEF JobsInv, Sound
        <4> QED
          BY <1>1, <4>2, <4>3
      <3>2. CASE b \notin Durable
        BY <1>1, <1>2, <2>1, <3>2
      <3> QED
        BY <3>1, <3>2
    <2>3. rows'[b].succeeded \in Nat
      BY <1>1, <2>1
    <2> QED
      BY <2>1, <2>2, <2>3, NoPollFields DEF Sums, First
  <1>4. CASE Resubmit(b)
    <2>1. rows'[b] = rows[b] /\ polls'[b].at = "resubmitting"
      BY <1>4, TurnEffects
    <2> QED
      BY <1>1, <2>1 DEF Sums, First
  <1>5. CASE ResubmitFails(b) \/ NoMoreRetries(b)
    <2>1. rows'[b] = rows[b] /\ polls'[b].at = "failures"
      BY <1>5, TurnEffects
    <2> QED
      BY <1>1, <2>1 DEF Sums, First
  <1>6. CASE Finish(b)
    <2>1. /\ polls[b].at = "failures" /\ polls[b].todo = {} /\ polls'[b] = NoPoll
          /\ wire'[b] = "none" /\ rows'[b].status = polls[b].reply.status
          /\ rows'[b].succeeded = rows[b].succeeded + polls[b].succeeded
          /\ rows'[b].failed = polls[b].failed
      BY <1>1, <1>6, TurnEffects, FlowTypes DEF Counts, Flow
    <2>2. rows'[b].status \notin Active \cup {"absent"}
      BY <2>1, FlowTypes DEF Told, ReplyStatus, Active
    <2>3. /\ rows'[b].succeeded + rows'[b].failed <= Cardinality(Work[b])
          /\ b \in Durable /\ rows'[b].status = "completed" =>
                rows'[b].succeeded + rows'[b].failed = Cardinality(Work[b])
      <3>1. CASE b \in Durable
        <4> DEFINE ok == polls[b].reply.ok
                   bad == polls[b].reply.bad
                   items == CurrentJob(b).items
        <4>1. /\ ok \in SUBSET Work[b] /\ bad \in SUBSET Work[b] /\ items \in SUBSET Work[b]
              /\ ok \cap bad = {} /\ ok \cup bad \in SUBSET items
              /\ polls[b].reply.status = "completed" => ok \cup bad = items
              /\ CurrentJob(b) = jobs[b][rows[b].job]
          BY <2>1, <3>1, ToldSets
        <4>2. /\ Cardinality(ok) \in Nat /\ Cardinality(bad) \in Nat /\ Cardinality({}) = 0
              /\ Cardinality(ok \cup bad) = Cardinality(ok) + Cardinality(bad)
          <5>1. Cardinality(ok) \in Nat /\ Cardinality({}) = 0
            BY <4>1, Cards
          <5>2. Cardinality(bad) \in Nat
            BY <4>1, Cards
          <5>3. Cardinality(ok \cup bad) = Cardinality(ok) + Cardinality(bad)
            BY <4>1, Cards
          <5> QED
            BY <5>1, <5>2, <5>3
        <4>3. Cardinality(ok \cup bad) <= Cardinality(items) /\ Cardinality(items) \in Nat
          <5>1. ok \cup bad \in SUBSET Work[b] /\ ok \cup bad \subseteq items
            BY <4>1
          <5> HIDE DEF ok, bad, items
          <5>2. Cardinality(ok \cup bad) <= Cardinality(items)
            BY <4>1, <5>1, Cards
          <5>3. Cardinality(items) \in Nat
            BY <4>1, Cards
          <5> QED
            BY <5>2, <5>3
        <4>4. /\ polls[b].succeeded = Cardinality(ok)
              /\ polls[b].failed + Cardinality(polls[b].todo) = Cardinality(bad)
              /\ rows[b].succeeded = Cardinality(Work[b]) - Cardinality(items)
          BY <1>1, <2>1, <3>1, <4>1 DEF Remote, Left
        <4>5. polls[b].failed = Cardinality(bad)
          BY <1>1, <2>1, <4>2, <4>4
        <4>6. rows'[b].status = "completed" => Cardinality(ok \cup bad) = Cardinality(items)
          BY <2>1, <4>1
        <4> HIDE DEF ok, bad, items
        <4> QED
          BY <1>1, <2>1, <4>2, <4>3, <4>4, <4>5, <4>6
      <3>2. CASE b \notin Durable
        BY <1>1, <1>2, <2>1, <3>2
      <3> QED
        BY <3>1, <3>2
    <2> QED
      BY <2>1, <2>2, <2>3, NoPollFields DEF Sums, OnRow, First
  <1> QED
    BY <1>3, <1>4, <1>5, <1>6

(* No step of a batch claims more than was asked.                          *)
LEMMA SumsStep ==
    ASSUME TypeOK, NEW b \in Batches,
           Flow(b), Asked(b), JobsInv(b), Told(b), Counted(b), Moves(b),
           TypeOK', Flow(b)', JobsInv(b)', b \in Durable => Remote(b)'
    PROVE  Sums(b)'
  <1>0. Sums(b) /\ (b \in Durable => Remote(b)) /\ (b \notin Durable => Fallback(b))
    BY DEF Counted
  <1>1. CASE SubmitBatch(b)
    <2>1. rows[b].status = "absent" /\ polls'[b] = polls[b] /\ rows'[b].job = rows[b].job
            /\ rows'[b].failed = rows[b].failed
      BY <1>1, SubmitEffects
    <2>2. /\ polls[b].at = "none" /\ rows[b].job = 0 /\ wire[b] = "none" /\ memory[b] = NoMemory
          /\ rows[b].failed = 0
      BY <1>0, <2>1 DEF Flow, Sums
    <2>3. Cardinality(Work[b]) \in Nat /\ memory[b].reconciled = {}
      BY <2>2, BatchTypes, NoPollFields
    <2>4. \/ /\ rows'[b].status = "completed" /\ rows'[b].succeeded = Cardinality(Work[b])
             /\ wire'[b] = "none"
          \/ /\ rows'[b].status = "submitting" /\ rows'[b].succeeded = rows[b].succeeded
             /\ memory'[b].reconciled = {}
      BY <1>1, <2>2, <2>3, SubmitEffects
    <2> QED
      BY <1>0, <2>1, <2>2, <2>3, <2>4 DEF Sums, First
  <1>2. CASE SubmitReturns(b)
    <2>1. /\ polls[b].at = "none" /\ wire[b] = "accepted" /\ wire'[b] = "none"
          /\ rows'[b].status = "submitted" /\ rows'[b].failed = rows[b].failed
          /\ rows'[b].succeeded = Cardinality(Work[b] \ memory[b].requests)
      BY <1>2, SubmitEffects DEF Same
    <2>2. rows[b].failed = 0
      BY <1>0, <2>1 DEF Sums, First
    <2>3. rows'[b].succeeded <= Cardinality(Work[b]) /\ rows'[b].succeeded \in Nat
      <3>1. Work[b] \ memory[b].requests \in SUBSET Work[b]
        OBVIOUS
      <3> QED
        BY <2>1, <3>1, Remembered, BatchTypes
    <2> QED
      BY <2>1, <2>2, <2>3 DEF Sums, First
  <1>3. CASE SubmitFails(b) \/ PollUnresolved(b) \/ PollFails(b)
    <2>1. /\ SameRow(b) /\ rows'[b].status \in {rows[b].status, "failed"}
          /\ memory'[b] = memory[b] /\ (wire'[b] = "none" \/ wire'[b] = wire[b])
          /\ polls'[b] = polls[b] \/ (polls'[b] = NoPoll /\ polls[b].at = "asking")
      BY <1>3, SubmitEffects, PollEffects DEF Same, SameRow
    <2>2. (OnRow(b)' => OnRow(b)) /\ (First(b)' => First(b))
      BY <2>1, NoPollFields DEF OnRow, First, SameRow, Active, Flow
    <2> QED
      BY <1>0, <2>1, <2>2 DEF Sums, SameRow, Active
  <1>4. CASE PollStarts(b)
    <2>1. /\ memory'[b] = memory[b] /\ rows'[b] = rows[b] /\ polls[b].at = "none"
          /\ wire[b] = "none" /\ wire'[b] = "none"
          /\ polls'[b] = polls[b] \/ rows[b].status \in Active
      BY <1>4, PollEffects DEF Same
    <2> QED
      BY <1>0, <2>1 DEF Sums, First, OnRow
  <1>5. CASE PollAnswers(b)
    <2>1. polls[b].seen.job \in 1 .. Len(jobs[b]) /\ polls[b].at = "asking"
      BY <1>5, CurrentOne DEF PollAnswers
    <2>2. rows'[b] = rows[b] /\ polls'[b].at = "answers"
      BY <1>5, <2>1, AnswerEffects
    <2> QED
      BY <1>0, <2>1, <2>2 DEF Sums, First, OnRow
  <1>6. CASE ProviderAccepts(b)
    BY <1>0, <1>6, AcceptEffects DEF Sums, First, OnRow
  <1>7. CASE \/ KeepPolling(b) \/ Resubmit(b) \/ ResubmitReturns(b) \/ ResubmitFails(b)
             \/ NoMoreRetries(b) \/ Finish(b)
    BY <1>0, <1>7, SumsTurn
  <1>8. CASE Cancel(b) \/ CancelReturns(b)
    <2>1. /\ polls'[b] = polls[b] /\ memory'[b] = memory[b] /\ wire'[b] = wire[b] /\ SameRow(b)
          /\ rows'[b].status \in {rows[b].status, "cancelled"}
      BY <1>8, CancelEffects
    <2> QED
      BY <1>0, <2>1 DEF Sums, First, OnRow, SameRow, Active
  <1>9. CASE \/ ProviderCancels(b)
             \/ \E k \in DOMAIN jobs[b] : JobEnds(b, k) \/ ItemEnds(b, k) \/ RunEnds(b, k)
    <2>1. UNCHANGED <<rows, answers, logged, phase, memoryVars, callVars, used>>
      BY <1>9, TypeProvider DEF Flow
    <2> QED
      BY <1>0, <2>1 DEF Sums, First, OnRow, memoryVars, callVars
  <1>10. CASE \/ \E i \in polls[b].todo :
                    \/ SkipAnswered(b, i)
                    \/ \E written \in BOOLEAN : RecordAnswer(b, i, written)
                    \/ RecordFailure(b, i)
              \/ \E written \in BOOLEAN : StoreAnswer(b, written)
    <2>1. UNCHANGED <<rows, phase, inFlight, timers, wire, cancelling, jobs>>
      BY <1>10, TypeItems
    <2>2. polls'[b].at = polls[b].at /\ polls[b].at # "none"
      BY <1>10, ItemEffects DEF Settled, Flow
    <2> QED
      BY <1>0, <2>1, <2>2 DEF Sums, First, OnRow
  <1> QED
    BY <1>1, <1>2, <1>3, <1>4, <1>5, <1>6, <1>7, <1>8, <1>9, <1>10
       DEF Moves, CallStep, TurnStep, ProviderStep

(* A launch, a crash and a stop keep the counters of a batch.              *)
LEMMA CountedGlobal ==
    ASSUME TypeOK, NEW b \in Batches, Flow(b), Counted(b), Launch \/ Crash \/ Stop
    PROVE  Counted(b)'
  <1>0. /\ \A k \in 1 .. Len(jobs[b]) :
              /\ jobs'[b][k].items = jobs[b][k].items
              /\ jobs[b][k].forgotten => jobs'[b][k].forgotten
        /\ OnRow(b) => rows[b].job \in 1 .. Len(jobs[b])
    BY JobsGlobal, FlowTypes DEF JobsOn, Onward, OnRow, Flow
  <1>1. CASE Launch
    <2>1. rows[b] \in Row
      BY DEF TypeOK
    <2>2. /\ SameRow(b) /\ rows'[b].status \in {rows[b].status, "failed"}
          /\ phase = "down" /\ UNCHANGED <<inFlight, memory, wire, polls, jobs>>
      BY <1>1, <2>1 DEF Launch, Retired, Row, SameRow, callVars
    <2>3. polls[b].at = "none" /\ wire[b] = "none" /\ b \notin inFlight
      BY <2>2 DEF Flow
    <2>4. polls[b] = NoPoll
      BY <2>3 DEF Flow
    <2> QED
      BY <2>2, <2>3, <2>4, NoPollFields
         DEF Counted, Sums, Remote, Fallback, OnRow, First, AtHand, SameRow, Active, Left
  <1>2. CASE Crash
    <2>1. /\ rows' = rows /\ b \notin inFlight' /\ memory'[b] = NoMemory
          /\ wire'[b] = "none" /\ polls'[b] = NoPoll
      BY <1>2 DEF Crash
    <2>2. polls'[b].at = "none" /\ ~polls'[b].held /\ ~First(b)' /\ ~AtHand(b)' /\ (OnRow(b)' => OnRow(b))
      BY <2>1, NoPollFields DEF First, AtHand, OnRow
    <2>3. Sums(b)'
      BY <2>1, <2>2 DEF Counted, Sums
    <2>4. CASE b \in Durable
      <3>1. Remote(b)'
        BY <1>0, <2>1, <2>2, <2>4 DEF Counted, Remote, Left
      <3> QED
        BY <2>3, <2>4, <3>1 DEF Counted
    <2>5. CASE b \notin Durable
      <3>1. OnRow(b)' => jobs'[b][rows'[b].job].forgotten
        BY <1>0, <1>2, <2>1, <2>2, <2>5, JobsGlobal
      <3>2. Fallback(b)'
        BY <2>2, <3>1 DEF Fallback
      <3> QED
        BY <2>3, <2>5, <3>2 DEF Counted
    <2> QED
      BY <2>4, <2>5
  <1>3. CASE Stop
    <2>1. /\ Quiet /\ phase' = "stopping" /\ b \notin inFlight'
          /\ UNCHANGED <<rows, memory, wire, polls, jobs>>
      BY <1>3 DEF Stop, callVars
    <2>2. Sums(b)'
      BY <2>1 DEF Counted, Sums, OnRow, First
    <2>3. CASE b \in Durable
      <3>1. Remote(b)'
        BY <2>1, <2>3 DEF Counted, Remote, Left, OnRow, AtHand, CurrentJob
      <3> QED
        BY <2>2, <2>3, <3>1 DEF Counted
    <2>4. CASE b \notin Durable
      <3>1. wire[b] = "none" /\ polls[b].at = "none"
        BY <2>1, <2>4, FlowTypes DEF Quiet, Mid, Flow
      <3>2. polls[b] = NoPoll
        BY <3>1 DEF Flow
      <3>3. Fallback(b)'
        BY <2>1, <3>1, <3>2, NoPollFields DEF Fallback, OnRow, First, AtHand
      <3> QED
        BY <2>2, <2>4, <3>3 DEF Counted
    <2> QED
      BY <2>3, <2>4
  <1> QED
    BY <1>1, <1>2, <1>3

(* A batch that was left apart keeps its counters.                         *)
LEMMA CountedFrame ==
    ASSUME NEW c \in Batches, Counted(c), Apart(c), phase' = phase
    PROVE  Counted(c)'
  BY DEF Counted, Sums, Remote, Fallback, Apart, OnRow, First, AtHand, Left, CurrentJob

CountInv == JobsAll /\ \A b \in Batches : Counted(b)

(* Every step keeps the counters of every batch.                           *)
LEMMA CountNext ==
    CountInv /\ [Next]_vars => CountInv'
  <1> SUFFICES ASSUME CountInv, [Next]_vars PROVE CountInv'
    OBVIOUS
  <1> USE DEF CountInv
  <1>0. /\ JobsAll' /\ TypeOK /\ TypeOK'
        /\ \A b \in Batches : Flow(b) /\ Flow(b)' /\ Asked(b)
        /\ \A b \in Batches : JobsInv(b) /\ Told(b) /\ JobsInv(b)' /\ Told(b)'
    BY JobsAllNext DEF JobsAll, FlowInv
  <1>1. CASE Launch \/ Crash \/ Stop
    BY <1>0, <1>1, CountedGlobal
  <1>2. ASSUME NEW b \in Batches, Moves(b)
        PROVE  CountInv'
    <2>1. Local(b)
      BY <1>0, <1>2, TypeStep
    <2>2. Counted(b)'
      <3>1. b \in Durable => Remote(b)'
        BY <1>0, <1>2, RemoteStep DEF Counted
      <3>2. b \notin Durable => Fallback(b)'
        BY <1>0, <1>2, FallbackStep DEF Counted
      <3>3. Sums(b)'
        BY <1>0, <1>2, <3>1, SumsStep
      <3> QED
        BY <3>1, <3>2, <3>3 DEF Counted
    <2>3. \A c \in Batches \ {b} : Counted(c)'
      BY <2>1, CountedFrame DEF Local
    <2> QED
      BY <1>0, <2>2, <2>3
  <1>3. CASE UNCHANGED vars
    <2>1. UNCHANGED <<rows, inFlight, memory, wire, polls, cancelling, jobs, timers, phase>>
      BY <1>3 DEF vars, memoryVars, callVars
    <2>2. \A c \in Batches : Apart(c)
      BY <2>1 DEF Apart
    <2> QED
      BY <1>0, <2>1, <2>2, CountedFrame
  <1> QED
    BY <1>1, <1>2, <1>3 DEF Next, Moves
-----------------------------------------------------------------------------
(* The answers.                                                            *)

(* The jobs before the row's have ended, and what has ended stays.         *)
LEMMA EarlierEnded ==
    ASSUME TypeOK, NEW b \in Batches, Flow(b), JobsInv(b), Moves(b)
    PROVE  \A k \in 1 .. rows[b].job - 1 :
              k \in 1 .. Len(jobs[b]) /\ jobs[b][k].ended /\ jobs'[b][k].ok = jobs[b][k].ok
  <1>1. rows[b].job \in Nat /\ rows[b].job <= Len(jobs[b]) /\ Len(jobs[b]) \in Nat
    BY FlowTypes DEF Flow
  <1>2. ASSUME NEW k \in 1 .. rows[b].job - 1
        PROVE  k \in 1 .. Len(jobs[b]) /\ rows[b].job \in 1 .. Len(jobs[b]) /\ k < rows[b].job
    BY <1>1
  <1>3. \A k \in 1 .. rows[b].job - 1 : k \in 1 .. Len(jobs[b]) /\ jobs[b][k].ended
    BY <1>2 DEF JobsInv
  <1> QED
    BY <1>3, ItemsStay

(* A step that reads no answer keeps the answers counted among the stored. *)
LEMMA CollectedKept ==
    ASSUME TypeOK, NEW b \in Batches, Flow(b), JobsInv(b), Collected(b), Moves(b),
           answers \subseteq answers', used'.writes = 0 => used.writes = 0,
           memory'[b] = memory[b],
           rows'[b].status = "completed" => rows[b].status = "completed" /\ rows'[b].job = rows[b].job,
           OnRow(b)' => OnRow(b) /\ rows'[b].job = rows[b].job,
           AtHand(b)' /\ polls'[b].at # "failures" => AtHand(b) /\ polls[b].at # "failures",
           polls'[b] = polls[b] \/ polls'[b].at \in {"none", "asking"}
    PROVE  Collected(b)'
  <1> SUFFICES ASSUME used'.writes = 0, used.writes = 0
               PROVE  Collected(b)'
    BY DEF Collected
  <1>1. rows[b].job \in Nat /\ rows[b].job <= Len(jobs[b]) /\ Len(jobs[b]) \in Nat
    BY FlowTypes DEF Flow
  <1>2. rows'[b].status = "completed" =>
           \A k \in 1 .. rows'[b].job : jobs'[b][k].ended /\ jobs'[b][k].ok \subseteq answers'
    <2>1. ASSUME rows'[b].status = "completed", NEW k \in 1 .. rows'[b].job
          PROVE  jobs'[b][k].ended /\ jobs'[b][k].ok \subseteq answers'
      <3>1. k \in 1 .. rows[b].job /\ k \in 1 .. Len(jobs[b])
        BY <1>1, <2>1
      <3>2. jobs[b][k].ended /\ jobs[b][k].ok \subseteq answers
        BY <2>1, <3>1 DEF Collected
      <3>3. jobs'[b][k].ended /\ jobs'[b][k].ok = jobs[b][k].ok
        BY <3>1, <3>2, ItemsStay
      <3> QED
        BY <3>2, <3>3
    <2> QED
      BY <2>1
  <1>3. OnRow(b)' => \A k \in 1 .. rows'[b].job - 1 : jobs'[b][k].ok \subseteq answers'
    BY EarlierEnded DEF Collected
  <1>4. AtHand(b)' /\ polls'[b].at # "failures" => memory'[b].reconciled \subseteq answers'
    BY DEF Collected
  <1>5. polls'[b].at \in {"answers", "resubmitting"} =>
           polls'[b].reply.ok \ polls'[b].todo \subseteq answers'
    BY DEF Collected
  <1>6. polls'[b].at = "failures" => polls'[b].reply.ok \subseteq answers'
    BY DEF Collected
  <1> QED
    BY <1>2, <1>3, <1>4, <1>5, <1>6 DEF Collected

(* The turn of a poll keeps the answers counted among the stored.          *)
LEMMA CollectedTurn ==
    ASSUME TypeOK, NEW b \in Batches, Flow(b), Asked(b), JobsInv(b), Told(b), Collected(b), Moves(b),
           answers \subseteq answers', used'.writes = 0 => used.writes = 0,
           \/ KeepPolling(b) \/ Resubmit(b) \/ ResubmitReturns(b) \/ ResubmitFails(b)
           \/ NoMoreRetries(b) \/ Finish(b)
    PROVE  Collected(b)'
  <1> SUFFICES ASSUME used'.writes = 0, used.writes = 0
               PROVE  Collected(b)'
    BY DEF Collected
  <1>1. polls[b].at \in {"answers", "resubmitting", "failures"} /\ jobs'[b] = jobs[b]
    BY TurnEffects DEF Same
  <1>2. /\ OnRow(b) /\ rows[b].job = polls[b].seen.job /\ rows[b].job \in 1 .. Len(jobs[b])
        /\ CurrentJob(b) = jobs[b][rows[b].job]
    BY <1>1, CurrentOne DEF OnRow, Flow, CurrentJob
  <1>3. \A k \in 1 .. rows[b].job - 1 : jobs[b][k].ended /\ jobs[b][k].ok \subseteq answers
    BY <1>2, EarlierEnded DEF Collected
  <1>4. CASE KeepPolling(b) \/ ResubmitReturns(b)
    <2>1. /\ memory'[b] = memory[b] /\ polls'[b] = NoPoll /\ (b \in inFlight' <=> b \in inFlight)
          /\ rows'[b].status = "in_progress" /\ polls[b].at \in {"answers", "resubmitting"}
          /\ \/ polls[b].at = "answers" /\ rows'[b].job = rows[b].job
             \/ polls[b].at = "resubmitting" /\ wire[b] = "accepted" /\ rows'[b].job = Len(jobs[b])
      BY <1>4, TurnEffects DEF Same, Counts
    <2>2. polls'[b].at = "none" /\ (AtHand(b)' => AtHand(b))
      BY <2>1, NoPollFields DEF AtHand
    <2>3. \A k \in 1 .. rows'[b].job - 1 : jobs'[b][k].ok \subseteq answers
      <3>1. CASE polls[b].at = "answers"
        BY <1>1, <1>3, <2>1, <3>1
      <3>2. CASE polls[b].at = "resubmitting"
        <4>1. rows'[b].job - 1 = rows[b].job
          BY <1>2, <2>1, <3>2, FlowTypes DEF Asked
        <4>2. jobs[b][rows[b].job].ok \subseteq answers
          BY <1>2, <3>2 DEF Told, Collected
        <4>3. \A k \in 1 .. rows[b].job : k \in 1 .. rows[b].job - 1 \/ k = rows[b].job
          BY <1>2
        <4> QED
          BY <1>1, <1>3, <4>1, <4>2, <4>3
      <3> QED
        BY <2>1, <3>1, <3>2
    <2>4. AtHand(b)' => memory'[b].reconciled \subseteq answers
      BY <2>1, <2>2 DEF Collected
    <2> QED
      BY <2>1, <2>2, <2>3, <2>4 DEF Collected
  <1>5. CASE Resubmit(b)
    <2>1. /\ polls[b].at = "answers" /\ rows'[b] = rows[b]
          /\ polls'[b].at = "resubmitting" /\ polls'[b].todo = polls[b].todo
          /\ polls'[b].held = polls[b].held /\ polls'[b].reply = polls[b].reply
          /\ b \in inFlight' <=> b \in inFlight
          /\ memory'[b].reconciled = memory[b].reconciled
      BY <1>5, TurnEffects DEF SamePoll
    <2>2. AtHand(b)' <=> AtHand(b)
      BY <2>1 DEF AtHand
    <2> QED
      BY <1>1, <1>2, <1>3, <2>1, <2>2 DEF Collected
  <1>6. CASE ResubmitFails(b) \/ NoMoreRetries(b)
    <2>1. /\ polls[b].at \in {"answers", "resubmitting"} /\ rows'[b] = rows[b]
          /\ polls[b].at = "answers" => polls[b].todo = {}
          /\ polls'[b].at = "failures" /\ polls'[b].reply = polls[b].reply
      BY <1>6, TurnEffects DEF SamePoll
    <2>2. polls[b].todo = {}
      BY <2>1 DEF Told
    <2>3. polls[b].reply.ok \subseteq answers
      BY <2>1, <2>2 DEF Collected
    <2> QED
      BY <1>1, <1>2, <1>3, <2>1, <2>3 DEF Collected
  <1>7. CASE Finish(b)
    <2>1. /\ polls[b].at = "failures" /\ polls'[b] = NoPoll /\ b \notin inFlight'
          /\ rows'[b].status = polls[b].reply.status /\ rows'[b].job = rows[b].job
      BY <1>7, TurnEffects DEF Counts
    <2>2. polls'[b].at = "none" /\ ~AtHand(b)' /\ rows'[b].status \notin Active
      BY <2>1, NoPollFields, FlowTypes DEF AtHand, Told, ReplyStatus, Active
    <2>3. rows'[b].status = "completed" =>
             jobs[b][rows[b].job].ended /\ jobs[b][rows[b].job].ok \subseteq answers
      BY <1>2, <2>1 DEF Told, Collected
    <2>4. \A k \in 1 .. rows[b].job : k \in 1 .. rows[b].job - 1 \/ k = rows[b].job
      BY <1>2
    <2> QED
      BY <1>1, <1>3, <2>1, <2>2, <2>3, <2>4 DEF Collected, OnRow
  <1> QED
    BY <1>4, <1>5, <1>6, <1>7

(* Every step of a batch keeps the answers counted among the stored.       *)
LEMMA CollectedStep ==
    ASSUME TypeOK, NEW b \in Batches, Flow(b), Asked(b), JobsInv(b), Told(b), Sums(b), Collected(b),
           Moves(b)
    PROVE  Collected(b)'
  <1>0. answers \subseteq answers' /\ (used'.writes = 0 => used.writes = 0)
    BY TypeStep DEF Local
  <1>1. CASE SubmitBatch(b)
    <2>1. rows[b].status = "absent" /\ polls'[b] = polls[b] /\ rows'[b].job = rows[b].job
      BY <1>1, SubmitEffects
    <2>2. polls[b].at = "none" /\ rows[b].job = 0 /\ memory[b] = NoMemory
      BY <2>1 DEF Flow
    <2>3. memory'[b].reconciled = {}
      BY <1>1, <2>2, SubmitEffects, NoPollFields
    <2> QED
      BY <2>1, <2>2, <2>3 DEF Collected, OnRow
  <1>2. CASE SubmitReturns(b)
    <2>1. /\ polls[b].at = "none" /\ wire[b] = "accepted" /\ memory'[b] = memory[b]
          /\ polls'[b] = polls[b] /\ rows'[b].status = "submitted" /\ rows'[b].job = Len(jobs[b])
      BY <1>2, SubmitEffects DEF Same
    <2>2. memory[b].reconciled = {} /\ Len(jobs[b]) <= 1 /\ Len(jobs[b]) \in Nat
      BY <2>1, FlowTypes DEF Sums, Asked, First
    <2>3. \A k \in 1 .. rows'[b].job - 1 : FALSE
      BY <2>1, <2>2
    <2> QED
      BY <2>1, <2>2, <2>3 DEF Collected
  <1>3. CASE SubmitFails(b) \/ PollUnresolved(b) \/ PollFails(b)
    <2>1. /\ SameRow(b) /\ rows'[b].status \in {rows[b].status, "failed"}
          /\ memory'[b] = memory[b] /\ (b \in inFlight' => b \in inFlight)
          /\ polls[b].at \in {"none", "asking"}
          /\ polls'[b] = polls[b] \/ polls'[b] = NoPoll
      BY <1>3, SubmitEffects, PollEffects DEF Same, SameRow
    <2>2. (OnRow(b)' => OnRow(b)) /\ (AtHand(b)' => AtHand(b)) /\ polls'[b].at \in {"none", "asking"}
      BY <2>1, NoPollFields DEF OnRow, AtHand, SameRow, Active
    <2> QED
      BY <1>0, <2>1, <2>2, CollectedKept DEF SameRow
  <1>4. CASE PollStarts(b)
    <2>1. /\ memory'[b] = memory[b] /\ rows'[b] = rows[b] /\ polls[b].at = "none"
          /\ wire[b] = "none" /\ phase = "up"
          /\ b \in inFlight' <=> b \in inFlight
          /\ \/ polls'[b] = polls[b]
             \/ /\ rows[b].status \in Active /\ polls'[b].at = "asking"
                /\ polls'[b].held <=> b \in inFlight
      BY <1>4, PollEffects DEF Same
    <2>2. rows[b].status \in Active => rows[b].job # 0
      BY <2>1 DEF Flow, First, Active
    <2>3. (OnRow(b)' => OnRow(b)) /\ (AtHand(b)' => AtHand(b))
      BY <2>1, <2>2 DEF OnRow, AtHand
    <2> QED
      BY <1>0, <2>1, <2>3, CollectedKept
  <1>5. CASE PollAnswers(b)
    <2>1. polls[b].seen.job \in 1 .. Len(jobs[b]) /\ polls[b].at = "asking"
      BY <1>5, CurrentOne DEF PollAnswers
    <2>2. /\ rows'[b] = rows[b] /\ memory'[b] = memory[b] /\ polls'[b].at = "answers"
          /\ b \in inFlight' <=> b \in inFlight
          /\ polls'[b].held = polls[b].held
      BY <1>5, <2>1, AnswerEffects
    <2>3. polls'[b].todo = Fresh(b, polls'[b].reply.ok)
      BY <1>5, <2>1, AnswerEffects
    <2>4. used.writes = 0 => /\ OnRow(b) => \A k \in 1 .. rows[b].job - 1 : jobs'[b][k].ok \subseteq answers
                             /\ AtHand(b) => memory[b].reconciled \subseteq answers
      BY <2>1, EarlierEnded DEF Collected
    <2>5. rows[b].status = "completed" /\ used.writes = 0 =>
             \A k \in 1 .. rows[b].job : jobs'[b][k].ended /\ jobs'[b][k].ok \subseteq answers
      <3>1. \A k \in 1 .. rows[b].job : k \in 1 .. Len(jobs[b])
        BY FlowTypes DEF Flow
      <3> QED
        BY <3>1, ItemsStay DEF Collected
    <2>6. used.writes = 0 => polls'[b].reply.ok \ polls'[b].todo \subseteq answers
      BY <2>3, <2>4 DEF Fresh, AtHand
    <2>7. OnRow(b) /\ (AtHand(b)' <=> AtHand(b))
      BY <2>1, <2>2 DEF OnRow, AtHand
    <2> QED
      BY <1>0, <2>2, <2>4, <2>5, <2>6, <2>7 DEF Collected
  <1>6. CASE ProviderAccepts(b)
    BY <1>0, <1>6, AcceptEffects, CollectedKept DEF OnRow, AtHand
  <1>7. CASE \/ KeepPolling(b) \/ Resubmit(b) \/ ResubmitReturns(b) \/ ResubmitFails(b)
             \/ NoMoreRetries(b) \/ Finish(b)
    BY <1>0, <1>7, CollectedTurn
  <1>8. CASE Cancel(b) \/ CancelReturns(b)
    <2>1. /\ polls'[b] = polls[b] /\ memory'[b] = memory[b] /\ SameRow(b)
          /\ b \in inFlight' => b \in inFlight
          /\ rows'[b].status \in {rows[b].status, "cancelled"}
      BY <1>8, CancelEffects
    <2>2. (OnRow(b)' => OnRow(b)) /\ (AtHand(b)' => AtHand(b))
      BY <2>1 DEF OnRow, AtHand, SameRow, Active
    <2> QED
      BY <1>0, <2>1, <2>2, CollectedKept DEF SameRow
  <1>9. CASE \/ ProviderCancels(b)
             \/ \E k \in DOMAIN jobs[b] : JobEnds(b, k) \/ ItemEnds(b, k) \/ RunEnds(b, k)
    <2>1. UNCHANGED <<rows, answers, logged, phase, memoryVars, callVars, used>>
      BY <1>9, TypeProvider DEF Flow
    <2>2. UNCHANGED <<rows, inFlight, memory, polls>>
      BY <2>1 DEF memoryVars, callVars
    <2> QED
      BY <1>0, <2>2, CollectedKept DEF OnRow, AtHand
  <1>10. CASE \/ \E i \in polls[b].todo :
                    \/ SkipAnswered(b, i)
                    \/ \E written \in BOOLEAN : RecordAnswer(b, i, written)
                    \/ RecordFailure(b, i)
              \/ \E written \in BOOLEAN : StoreAnswer(b, written)
    <2>1. UNCHANGED <<rows, phase, inFlight, timers, wire, cancelling, jobs>>
      BY <1>10, TypeItems
    <2>2. polls[b].open # None => polls[b].at = "answers" /\ polls[b].open \in polls[b].todo
      BY DEF Flow
    <2>3. CASE \E i \in Items : Settled(b, i) /\ (polls[b].at = "answers" /\ used'.writes = 0 => i \in answers')
      <3>1. PICK i \in Items : /\ Settled(b, i)
                               /\ polls[b].at = "answers" /\ used'.writes = 0 => i \in answers'
        BY <2>3
      <3>2. /\ polls'[b].at = polls[b].at /\ polls[b].at \in {"answers", "failures"}
            /\ polls'[b].held = polls[b].held /\ polls'[b].reply = polls[b].reply
            /\ polls'[b].todo = polls[b].todo \ {i}
            /\ memory'[b].reconciled \subseteq memory[b].reconciled \cup {i}
        BY <3>1 DEF Settled
      <3>3. OnRow(b) /\ (AtHand(b)' <=> AtHand(b))
        BY <2>1, <3>2 DEF OnRow, AtHand
      <3> QED
        BY <1>0, <2>1, <3>1, <3>2, <3>3 DEF Collected
    <2>4. CASE ~\E i \in Items : Settled(b, i) /\ (polls[b].at = "answers" /\ used'.writes = 0 => i \in answers')
      <3>1. /\ memory'[b] = memory[b] /\ polls'[b].at = polls[b].at
            /\ polls'[b].held = polls[b].held /\ polls'[b].reply = polls[b].reply
            /\ polls'[b].todo = polls[b].todo
        BY <1>10, <2>2, <2>4, ItemEffects
      <3> QED
        BY <1>0, <2>1, <3>1 DEF Collected, OnRow, AtHand
    <2> QED
      BY <2>3, <2>4
  <1> QED
    BY <1>1, <1>2, <1>3, <1>4, <1>5, <1>6, <1>7, <1>8, <1>9, <1>10
       DEF Moves, CallStep, TurnStep, ProviderStep

(* A launch, a crash and a stop lose no stored answer.                     *)
LEMMA CollectedGlobal ==
    ASSUME TypeOK, NEW b \in Batches, Flow(b), JobsInv(b), Collected(b), Launch \/ Crash \/ Stop
    PROVE  Collected(b)'
  <1>0. answers' = answers /\ (used'.writes = 0 => used.writes = 0)
    BY DEF Launch, Crash, Stop, TypeOK, Bounds
  <1> SUFFICES ASSUME used'.writes = 0, used.writes = 0
               PROVE  Collected(b)'
    BY <1>0 DEF Collected
  <1>1. rows[b].job \in Nat /\ rows[b].job <= Len(jobs[b]) /\ Len(jobs[b]) \in Nat
    BY FlowTypes DEF Flow
  <1>2. \A k \in 1 .. Len(jobs[b]) :
           jobs[b][k].ended => jobs'[b][k].ended /\ jobs'[b][k].ok = jobs[b][k].ok
    BY JobsGlobal DEF JobsOn, Onward
  <1>3. /\ rows'[b].job = rows[b].job
        /\ rows'[b].status = "completed" => rows[b].status = "completed"
        /\ OnRow(b)' => OnRow(b)
        /\ AtHand(b)' /\ polls'[b].at # "failures" => AtHand(b) /\ polls[b].at # "failures"
        /\ memory'[b] = memory[b] \/ memory'[b] = NoMemory
        /\ polls'[b] = polls[b] \/ polls'[b] = NoPoll
    <2>1. CASE Launch
      <3>1. rows[b] \in Row /\ UNCHANGED <<inFlight, memory, polls>> /\ rows'[b] = Retired(rows[b])
        BY <2>1 DEF Launch, callVars, TypeOK
      <3>2. rows'[b].job = rows[b].job /\ rows'[b].status \in {rows[b].status, "failed"}
        BY <3>1 DEF Retired, Row
      <3> QED
        BY <3>1, <3>2 DEF OnRow, AtHand, Active
    <2>2. CASE Crash
      <3>1. /\ rows' = rows /\ b \notin inFlight' /\ memory'[b] = NoMemory /\ polls'[b] = NoPoll
        BY <2>2 DEF Crash
      <3> QED
        BY <3>1, NoPollFields DEF OnRow, AtHand
    <2>3. CASE Stop
      <3>1. b \notin inFlight' /\ UNCHANGED <<rows, memory, polls>>
        BY <2>3 DEF Stop, callVars
      <3> QED
        BY <3>1 DEF OnRow, AtHand
    <2> QED
      BY <2>1, <2>2, <2>3
  <1>4. rows'[b].status = "completed" =>
           \A k \in 1 .. rows'[b].job : jobs'[b][k].ended /\ jobs'[b][k].ok \subseteq answers'
    <2> SUFFICES ASSUME rows'[b].status = "completed", NEW k \in 1 .. rows[b].job
                 PROVE  jobs'[b][k].ended /\ jobs'[b][k].ok \subseteq answers
      BY <1>0, <1>3
    <2>1. k \in 1 .. Len(jobs[b])
      BY <1>1
    <2>2. jobs[b][k].ended /\ jobs[b][k].ok \subseteq answers
      BY <1>3 DEF Collected
    <2> QED
      BY <1>2, <2>1, <2>2
  <1>5. OnRow(b)' => \A k \in 1 .. rows'[b].job - 1 : jobs'[b][k].ok \subseteq answers'
    <2> SUFFICES ASSUME OnRow(b)', NEW k \in 1 .. rows[b].job - 1
                 PROVE  jobs'[b][k].ok \subseteq answers
      BY <1>0, <1>3
    <2>1. k \in 1 .. Len(jobs[b]) /\ rows[b].job \in 1 .. Len(jobs[b]) /\ k < rows[b].job
      BY <1>1
    <2>2. jobs[b][k].ended /\ jobs[b][k].ok \subseteq answers
      BY <1>3, <2>1 DEF Collected, JobsInv
    <2> QED
      BY <1>2, <2>1, <2>2
  <1>6. AtHand(b)' /\ polls'[b].at # "failures" => memory'[b].reconciled \subseteq answers'
    BY <1>0, <1>3, NoPollFields DEF Collected
  <1>7. polls'[b].at \in {"answers", "resubmitting"} =>
           polls'[b].reply.ok \ polls'[b].todo \subseteq answers'
    BY <1>0, <1>3, NoPollFields DEF Collected
  <1>8. polls'[b].at = "failures" => polls'[b].reply.ok \subseteq answers'
    BY <1>0, <1>3, NoPollFields DEF Collected
  <1> QED
    BY <1>4, <1>5, <1>6, <1>7, <1>8 DEF Collected

(* A batch that was left apart keeps its answers.                          *)
LEMMA CollectedFrame ==
    ASSUME NEW c \in Batches, Collected(c), Apart(c), answers \subseteq answers',
           used'.writes = 0 => used.writes = 0
    PROVE  Collected(c)'
  BY DEF Collected, Apart, OnRow, AtHand

AccountInv == CountInv /\ \A b \in Batches : Collected(b)

(* The account is empty at the start.                                      *)
LEMMA AccountInit ==
    Init => AccountInv
  <1> SUFFICES ASSUME Init PROVE AccountInv
    OBVIOUS
  <1>1. JobsAll
    BY JobsAllInit
  <1>2. ASSUME NEW b \in Batches
        PROVE  Counted(b) /\ Collected(b)
    <2>1. /\ rows[b] = NoRow /\ memory[b] = NoMemory /\ polls[b] = NoPoll /\ wire[b] = "none"
          /\ b \notin inFlight /\ Len(jobs[b]) = 0
      BY DEF Init
    <2>2. /\ rows[b].status = "absent" /\ rows[b].job = 0
          /\ rows[b].succeeded = 0 /\ rows[b].failed = 0
      BY <2>1 DEF NoRow
    <2>3. ~OnRow(b) /\ ~AtHand(b) /\ ~First(b) /\ polls[b].at = "none" /\ ~polls[b].held
      BY <2>1, <2>2, NoPollFields DEF OnRow, AtHand, First
    <2>4. Cardinality(Work[b]) \in Nat
      BY WorkAssumption, FiniteAssumption, FS_CardinalityType
    <2> QED
      BY <2>1, <2>2, <2>3, <2>4, NoPollFields
         DEF Counted, Sums, Remote, Fallback, Collected
  <1> QED
    BY <1>1, <1>2 DEF AccountInv, CountInv

(* Every step keeps the account of every batch.                            *)
LEMMA AccountNext ==
    AccountInv /\ [Next]_vars => AccountInv'
  <1> SUFFICES ASSUME AccountInv, [Next]_vars PROVE AccountInv'
    OBVIOUS
  <1> USE DEF AccountInv
  <1>0. /\ CountInv' /\ TypeOK
        /\ \A b \in Batches : Flow(b) /\ Asked(b) /\ JobsInv(b) /\ Told(b) /\ Sums(b)
    BY CountNext DEF CountInv, Counted, JobsAll, FlowInv
  <1>1. CASE Launch \/ Crash \/ Stop
    BY <1>0, <1>1, CollectedGlobal
  <1>2. ASSUME NEW b \in Batches, Moves(b)
        PROVE  AccountInv'
    <2>1. Local(b)
      BY <1>0, <1>2, TypeStep
    <2>2. Collected(b)'
      BY <1>0, <1>2, CollectedStep
    <2>3. \A c \in Batches \ {b} : Collected(c)'
      BY <2>1, CollectedFrame DEF Local
    <2> QED
      BY <1>0, <2>2, <2>3
  <1>3. CASE UNCHANGED vars
    <2>1. UNCHANGED <<rows, inFlight, memory, wire, polls, cancelling, jobs, timers, answers, used>>
      BY <1>3 DEF vars, memoryVars, callVars
    <2>2. \A c \in Batches : Apart(c)
      BY <2>1 DEF Apart
    <2> QED
      BY <1>0, <2>1, <2>2, CollectedFrame
  <1> QED
    BY <1>1, <1>2, <1>3 DEF Next, Moves

(* What a batch says it did is what it did (Accounted): its counters never *)
(* claim more requests than it was asked, those of a batch the provider    *)
(* completed claim them all, and every answer that was counted is in the   *)
(* answer store unless its write failed; over any number of partial        *)
(* results, retries, cancellations, failed polls, restarts and batches     *)
(* that ask for the same ids.                                              *)
THEOREM AccountedCorrect ==
    Spec => []Accounted
  <1>1. AccountInv => Accounted
    <2> SUFFICES ASSUME AccountInv, NEW b \in Batches
                 PROVE  /\ rows[b].succeeded + rows[b].failed <= Cardinality(Work[b])
                        /\ b \in Durable /\ rows[b].status = "completed" =>
                               rows[b].succeeded + rows[b].failed = Cardinality(Work[b])
                        /\ rows[b].status = "completed" /\ used.writes = 0 =>
                               \A k \in 1 .. rows[b].job : jobs[b][k].ok \subseteq answers
      BY DEF Accounted, CountsAddUp, AnswersCollected
    <2>1. Sums(b) /\ Collected(b)
      BY DEF AccountInv, CountInv, Counted
    <2> QED
      BY <2>1 DEF Sums, Collected
  <1> QED
    BY <1>1, AccountInit, AccountNext, PTL DEF Spec
-----------------------------------------------------------------------------
(* The charges in the cost log.                                            *)

(* The process reconciles one batch at a time.                             *)
OneTurn == \A b, c \in Batches : Mid(b) /\ Mid(c) => b = c

(* An ok row was paid for.                                                 *)
Paid(b) ==
    \A i \in Items : logged[b][i] # 0 => \E k \in 1 .. Len(jobs[b]) : i \in jobs[b][k].ok

(* All the ok rows of the batch are of its first n jobs.                   *)
PaidBy(b, n) ==
    \A i \in Items : logged[b][i] # 0 => \E k \in 1 .. n : i \in jobs[b][k].ok

(* The job on the row has not been polled to its end.                      *)
Unread(b) ==
    \/ polls[b].at = "none" /\ rows[b].status \in Active /\ rows[b].job # 0
    \/ polls[b].at = "asking"
    \/ polls[b].at = "answers" /\ polls[b].reply.status = "in_progress"

(* Before there is a relaunch, an answer is logged once: what a poll still *)
(* has to reconcile is not logged, as the jobs of a provider's batch that  *)
(* were polled to their end are not polled again and, in the fallback, the *)
(* process remembers.                                                      *)
FirstLife(b) ==
    /\ used.launches = 0 => phase = "down" /\ rows[b].status = "absent"
    /\ used.launches <= 1 =>
        /\ \A i \in Items : logged[b][i] <= 1
        /\ First(b) => \A i \in Items : logged[b][i] = 0
        /\ polls[b].at = "answers" =>
               \A i \in polls[b].todo : logged[b][i] = 0 \/ i = polls[b].open
        /\ b \in Durable /\ phase # "down" =>
               /\ Unread(b) => PaidBy(b, rows[b].job - 1)
               /\ polls[b].at = "resubmitting" => PaidBy(b, rows[b].job)
        /\ b \notin Durable /\ AtHand(b) =>
               \A i \in Items : logged[b][i] # 0 =>
                   i \in memory[b].reconciled \/ i = polls[b].open

(* The n-th ok row of the batch and the id, if none of the answers stored, *)
(* nor of the one about to be, is that of the first.                       *)
Spare(b, i, n) ==
    /\ 1 <= n /\ n <= logged[b][i]
    /\ n >= 2 \/ (i \notin answers /\ polls[b].open # i)

SpareRows == {r \in Batches \X Items \X Nat : Spare(r[1], r[2], r[3])}

(* The ok rows of a batch and an id that come after the first.             *)
LaterRows == {r \in Batches \X Items \X Nat : 2 <= r[3] /\ r[3] <= logged[r[1]][r[2]]}

(* A crash spares one row at most, and a write that fails one more.        *)
Spent ==
    /\ Running => used.launches >= 1
    /\ IsFiniteSet(SpareRows) /\ IsFiniteSet(LaterRows)
    /\ Cardinality(SpareRows) <= used.writes + (IF Running THEN used.launches - 1
                                                ELSE used.launches)
    /\ used.launches >= 1 => Cardinality(LaterRows) <= used.writes + used.launches - 1

(* The moves of a batch, in the terms of what they write.                  *)
Reconciles(b) ==
    \/ \E i \in polls[b].todo :
          \/ SkipAnswered(b, i)
          \/ \E written \in BOOLEAN : RecordAnswer(b, i, written)
          \/ RecordFailure(b, i)
    \/ \E written \in BOOLEAN : StoreAnswer(b, written)

(* A poll keeps its outcomes to itself, or a turn may go on, or it had one.*)
LEMMA MidStep ==
    ASSUME TypeOK, NEW b \in Batches, Flow(b), Moves(b), Mid(b)'
    PROVE  Mid(b) \/ Turn(b)
  <1>1. Quiet => Turn(b)
    BY DEF Quiet, Turn
  <1>2. CASE SubmitBatch(b) \/ SubmitReturns(b) \/ SubmitFails(b)
    BY <1>1, <1>2 DEF SubmitBatch, SubmitReturns, SubmitFails
  <1>3. CASE PollStarts(b) \/ PollUnresolved(b) \/ PollFails(b)
    BY <1>1, <1>3 DEF PollStarts, PollUnresolved, PollFails
  <1>4. CASE PollAnswers(b) \/ ResubmitFails(b) \/ ResubmitReturns(b)
    BY <1>4 DEF PollAnswers, ResubmitFails, ResubmitReturns
  <1>5. CASE Cancel(b) \/ CancelReturns(b)
    BY <1>1, <1>5 DEF Cancel, CancelReturns
  <1>6. CASE Reconciles(b)
    BY <1>6 DEF Reconciles, SkipAnswered, RecordAnswer, RecordFailure, StoreAnswer, Mid
  <1>7. CASE KeepPolling(b) \/ Resubmit(b) \/ NoMoreRetries(b) \/ Finish(b)
    BY <1>7 DEF KeepPolling, Resubmit, NoMoreRetries, Finish, AnswersDone, Mid
  <1>8. CASE ProviderAccepts(b)
    <2>1. polls'[b] = polls[b] /\ wire[b] # "none"
      BY <1>8, AcceptEffects
    <2> QED
      BY <2>1 DEF Mid
  <1>9. CASE \/ ProviderCancels(b)
             \/ \E k \in DOMAIN jobs[b] : JobEnds(b, k) \/ ItemEnds(b, k) \/ RunEnds(b, k)
    <2>1. UNCHANGED <<wire, polls>>
      BY <1>9 DEF ProviderCancels, JobEnds, ItemEnds, RunEnds, callVars
    <2> QED
      BY <2>1 DEF Mid
  <1> QED
    BY <1>2, <1>3, <1>4, <1>5, <1>6, <1>7, <1>8, <1>9
       DEF Moves, CallStep, TurnStep, ProviderStep, Reconciles

(* Every step leaves one batch at most in the middle of its turn.          *)
LEMMA OneTurnNext ==
    ASSUME FlowInv, OneTurn, [Next]_vars
    PROVE  OneTurn'
  <1>1. ASSUME NEW b \in Batches, Moves(b)
        PROVE  OneTurn'
    <2>1. \A c \in Batches \ {b} : Apart(c)
      BY <1>1, TypeStep DEF FlowInv, Local
    <2>2. \A c \in Batches \ {b} : Mid(c)' <=> Mid(c)
      BY <2>1 DEF Apart, Mid
    <2>3. Mid(b)' => Mid(b) \/ \A c \in Batches \ {b} : ~Mid(c)
      BY <1>1, MidStep DEF FlowInv, Turn
    <2>4. ASSUME NEW c \in Batches, NEW d \in Batches, Mid(c)', Mid(d)'
          PROVE  c = d
      BY <2>2, <2>3, <2>4 DEF OneTurn
    <2> QED
      BY <2>4 DEF OneTurn
  <1>2. CASE Launch \/ Stop \/ UNCHANGED vars
    <2>1. UNCHANGED <<wire, polls>>
      BY <1>2 DEF Launch, Stop, vars, callVars
    <2> QED
      BY <2>1 DEF OneTurn, Mid
  <1>3. CASE Crash
    <2>1. ASSUME NEW b \in Batches
          PROVE  ~Mid(b)'
      <3>1. wire'[b] = "none" /\ polls'[b] = NoPoll
        BY <1>3 DEF Crash
      <3> QED
        BY <3>1, NoPollFields DEF Mid
    <2> QED
      BY <2>1 DEF OneTurn
  <1> QED
    BY <1>1, <1>2, <1>3 DEF Next, Moves

(* What a step of a batch does to the cost log and the answers: nothing,   *)
(* but for the two writes of an answer.                                    *)
Unwritten(b) ==
    /\ logged' = logged /\ answers' = answers
    /\ used'.writes = used.writes /\ polls'[b].open = polls[b].open

Charges(b, i, written) ==
    /\ polls[b].at = "answers" /\ i \in polls[b].todo /\ polls[b].open = None
    /\ i \notin answers /\ answers' = answers /\ polls'[b].open = i
    /\ IF written THEN logged' = [logged EXCEPT ![b][i] = @ + 1] /\ used'.writes = used.writes
       ELSE logged' = logged /\ used'.writes = used.writes + 1

Stores(b, written) ==
    /\ polls[b].at = "answers" /\ polls[b].open \in Items /\ polls'[b].open = None
    /\ polls'[b].todo = polls[b].todo \ {polls[b].open} /\ logged' = logged
    /\ IF written THEN answers' = answers \cup {polls[b].open} /\ used'.writes = used.writes
       ELSE answers' = answers /\ used'.writes = used.writes + 1

LEMMA ChargeEffects ==
    ASSUME TypeOK, NEW b \in Batches, Flow(b), Moves(b)
    PROVE  /\ used'.launches = used.launches
           /\ \/ Unwritten(b)
              \/ \E written \in BOOLEAN, i \in polls[b].todo :
                    RecordAnswer(b, i, written) /\ Charges(b, i, written)
              \/ \E written \in BOOLEAN : StoreAnswer(b, written) /\ Stores(b, written)
  <1>0. /\ used \in Bounds /\ polls[b] \in Poll /\ polls[b].todo \subseteq Items
        /\ NoPoll.open = None
    BY FlowTypes, NoPollFields DEF TypeOK
  <1>1. /\ [used EXCEPT !.writes = @ + 1].writes = used.writes + 1
        /\ [used EXCEPT !.writes = @ + 1].launches = used.launches
        /\ [used EXCEPT !.cancels = @ + 1].writes = used.writes
        /\ [used EXCEPT !.cancels = @ + 1].launches = used.launches
    BY <1>0 DEF Bounds
  <1>2. polls[b].open # None => polls[b].at = "answers" /\ polls[b].open \in polls[b].todo
    BY DEF Flow
  <1>3. CASE SubmitBatch(b) \/ SubmitReturns(b) \/ SubmitFails(b)
    BY <1>3 DEF SubmitBatch, SubmitReturns, SubmitFails, Unwritten
  <1>4. CASE PollStarts(b) \/ PollUnresolved(b) \/ PollFails(b)
    <2>1. polls'[b].open = polls[b].open
      BY <1>0, <1>2, <1>4, PollEffects
    <2> QED
      BY <1>4, <2>1 DEF PollStarts, PollUnresolved, PollFails, Unwritten
  <1>5. CASE PollAnswers(b)
    <2>1. polls[b].seen.job \in 1 .. Len(jobs[b])
      BY <1>5, FlowTypes DEF Flow, PollAnswers
    <2>2. polls'[b].open = polls[b].open
      BY <1>5, <2>1, AnswerEffects
    <2> QED
      BY <1>5, <2>2 DEF PollAnswers, Unwritten
  <1>6. CASE KeepPolling(b) \/ Resubmit(b) \/ NoMoreRetries(b) \/ Finish(b)
               \/ ResubmitFails(b) \/ ResubmitReturns(b)
    <2>1. polls'[b].open = polls[b].open
      BY <1>0, <1>2, <1>6, TurnEffects DEF SamePoll
    <2>2. UNCHANGED <<logged, answers, used>>
      BY <1>6 DEF KeepPolling, Resubmit, NoMoreRetries, Finish, ResubmitFails, ResubmitReturns
    <2> QED
      BY <2>1, <2>2 DEF Unwritten
  <1>7. CASE Cancel(b) \/ CancelReturns(b)
    BY <1>1, <1>7 DEF Cancel, CancelReturns, Unwritten
  <1>8. CASE ProviderAccepts(b)
    BY <1>8 DEF ProviderAccepts, Unwritten
  <1>9. CASE \/ ProviderCancels(b)
             \/ \E k \in DOMAIN jobs[b] : JobEnds(b, k) \/ ItemEnds(b, k) \/ RunEnds(b, k)
    BY <1>9 DEF ProviderCancels, JobEnds, ItemEnds, RunEnds, callVars, Unwritten
  <1>10. ASSUME NEW i \in polls[b].todo, SkipAnswered(b, i) \/ RecordFailure(b, i)
         PROVE  Unwritten(b) /\ used'.launches = used.launches
    <2>1. polls'[b].open = None /\ polls[b].open = None
      <3>1. \/ polls'[b] = [polls[b] EXCEPT !.todo = @ \ {i}, !.succeeded = @ + 1]
            \/ polls'[b] = [polls[b] EXCEPT !.todo = @ \ {i}, !.failed = @ + 1]
        BY <1>10 DEF SkipAnswered, RecordFailure, TypeOK
      <3>2. polls'[b].open = polls[b].open
        BY <1>0, <3>1 DEF Poll
      <3>3. polls[b].open = None
        BY <1>2, <1>10 DEF SkipAnswered, RecordFailure
      <3> QED
        BY <3>2, <3>3
    <2> QED
      BY <1>10, <2>1 DEF SkipAnswered, RecordFailure, Unwritten
  <1>11. ASSUME NEW i \in polls[b].todo, NEW written \in BOOLEAN, RecordAnswer(b, i, written)
         PROVE  Charges(b, i, written) /\ used'.launches = used.launches
    <2>1. polls'[b].open = i
      <3>1. polls'[b] = [polls[b] EXCEPT !.open = i]
        BY <1>11 DEF RecordAnswer, TypeOK
      <3> QED
        BY <1>0, <3>1 DEF Poll
    <2> QED
      BY <1>1, <1>11, <2>1 DEF RecordAnswer, Answered, Charges
  <1>12. ASSUME NEW written \in BOOLEAN, StoreAnswer(b, written)
         PROVE  Stores(b, written) /\ used'.launches = used.launches
    <2>1. polls'[b].open = None /\ polls'[b].todo = polls[b].todo \ {polls[b].open}
      <3>1. polls'[b] = [polls[b] EXCEPT !.todo = @ \ {polls[b].open}, !.open = None,
                                         !.succeeded = @ + 1]
        BY <1>12 DEF StoreAnswer, TypeOK
      <3> QED
        BY <1>0, <3>1 DEF Poll
    <2>2. polls[b].open \in Items
      BY <1>0, <1>2, <1>12 DEF StoreAnswer
    <2> QED
      BY <1>1, <1>12, <2>1, <2>2 DEF StoreAnswer, Stores
  <1> QED
    BY <1>3, <1>4, <1>5, <1>6, <1>7, <1>8, <1>9, <1>10, <1>11, <1>12
       DEF Moves, CallStep, TurnStep, ProviderStep

(* What a job has answered stays answered.                                 *)
AnswersStay(b) ==
    /\ Len(jobs[b]) \in Nat /\ Len(jobs'[b]) \in Nat /\ Len(jobs[b]) <= Len(jobs'[b])
    /\ \A k \in 1 .. Len(jobs[b]) : jobs[b][k].ok \subseteq jobs'[b][k].ok

LEMMA AnswersStayStep ==
    ASSUME TypeOK, NEW b \in Batches, Flow(b), JobsInv(b),
           Moves(b) \/ Launch \/ Crash \/ Stop
    PROVE  AnswersStay(b)
  <1>1. Len(jobs[b]) \in Nat
    BY FlowTypes
  <1>2. CASE ProviderAccepts(b)
    BY <1>1, <1>2, AcceptEffects DEF AnswersStay
  <1>3. CASE ~ProviderAccepts(b)
    <2>1. JobsOn(b)
      BY <1>3, JobsStep, JobsGlobal
    <2> QED
      BY <1>1, <2>1 DEF JobsOn, JobsInv, Onward, AnswersStay
  <1> QED
    BY <1>2, <1>3

(* A batch whose log is left alone stays paid for.                         *)
LEMMA PaidKept ==
    ASSUME NEW b \in Batches, Paid(b), AnswersStay(b), logged'[b] = logged[b]
    PROVE  Paid(b)'
  BY DEF Paid, AnswersStay

(* What is recorded is an answer of the job that is polled.                *)
LEMMA PaidStep ==
    ASSUME TypeOK, NEW b \in Batches, Flow(b), JobsInv(b), Told(b), Paid(b), Moves(b)
    PROVE  Paid(b)'
  <1>1. AnswersStay(b)
    BY AnswersStayStep
  <1>2. CASE logged' = logged
    BY <1>1, <1>2, PaidKept
  <1>3. CASE logged' # logged
    <2>1. PICK i \in polls[b].todo : Charges(b, i, TRUE)
      BY <1>3, ChargeEffects DEF Unwritten, Charges, Stores
    <2>2. polls[b].seen.job \in 1 .. Len(jobs[b]) /\ i \in jobs[b][polls[b].seen.job].ok
      BY <2>1, CurrentOne DEF Charges, Told, CurrentJob
    <2>3. \A h \in Items : logged'[b][h] = logged[b][h] \/ h = i
      BY <2>1 DEF Charges, TypeOK
    <2>4. ASSUME NEW h \in Items, logged'[b][h] # 0
          PROVE  \E k \in 1 .. Len(jobs[b]) : h \in jobs[b][k].ok
      BY <2>2, <2>3, <2>4 DEF Paid
    <2> QED
      BY <1>1, <2>4 DEF Paid, AnswersStay
  <1> QED
    BY <1>2, <1>3

(* Before the first submission returns, nothing is logged.                 *)
LEMMA FirstSubmit ==
    ASSUME TypeOK, NEW b \in Batches, Flow(b), Flow(b)', Paid(b), FirstLife(b), used'.launches = used.launches,
           phase' = phase, logged'[b] = logged[b],
           SubmitBatch(b) \/ SubmitReturns(b) \/ SubmitFails(b)
    PROVE  FirstLife(b)'
  <1>1. logged[b] \in [Items -> Nat] /\ Len(jobs[b]) \in Nat
    BY FlowTypes DEF TypeOK
  <1>2. used.launches <= 1 => \A i \in Items : logged[b][i] = 0
    <2>1. CASE SubmitBatch(b)
      <3>1. Len(jobs[b]) = 0
        BY <2>1, SubmitEffects DEF Flow
      <3> QED
        BY <3>1 DEF Paid
    <2>2. CASE SubmitReturns(b) \/ SubmitFails(b)
      <3>1. First(b)
        BY <2>2, SubmitEffects DEF First
      <3> QED
        BY <3>1 DEF FirstLife
    <2> QED
      BY <2>1, <2>2
  <1>3. phase # "down" /\ polls'[b] = polls[b]
    BY SubmitEffects
  <1> QED
    BY <1>2, <1>3 DEF FirstLife, PaidBy

(* A poll starts over what is not logged yet, and reads it.                *)
LEMMA FirstPoll ==
    ASSUME TypeOK, NEW b \in Batches, Flow(b), Flow(b)', JobsInv(b), Told(b)', Counted(b)',
           AnswersStay(b), FirstLife(b), used'.launches = used.launches,
           phase' = phase, logged'[b] = logged[b],
           PollStarts(b) \/ PollUnresolved(b) \/ PollFails(b) \/ PollAnswers(b)
    PROVE  FirstLife(b)'
  <1>1. /\ logged[b] \in [Items -> Nat] /\ Len(jobs[b]) \in Nat
        /\ rows[b].job \in Nat /\ rows[b].job <= Len(jobs[b])
    BY FlowTypes DEF TypeOK, Flow
  <1>2. rows'[b].job = rows[b].job /\ wire'[b] = wire[b] /\ phase # "down"
    <2>1. CASE PollAnswers(b)
      BY <2>1, CurrentOne, AnswerEffects DEF PollAnswers
    <2>2. CASE ~PollAnswers(b)
      BY <2>2, PollEffects DEF Same
    <2> QED
      BY <2>1, <2>2
  <1>3. PaidBy(b, rows[b].job - 1) => PaidBy(b, rows[b].job - 1)'
    BY <1>1, <1>2 DEF PaidBy, AnswersStay
  <1>4. CASE PollStarts(b)
    <2>1. /\ polls[b] = NoPoll /\ wire[b] = "none" /\ rows'[b] = rows[b]
          /\ memory'[b] = memory[b] /\ (b \in inFlight' <=> b \in inFlight)
          /\ \/ polls'[b] = polls[b]
             \/ /\ rows[b].status \in Active /\ polls'[b].at = "asking"
                /\ polls'[b].held <=> b \in inFlight
                /\ polls'[b].open = polls[b].open
      BY <1>4, PollEffects DEF Flow, Same
    <2>2. polls[b].at = "none" /\ ~First(b)' /\ (AtHand(b)' => AtHand(b)) /\ polls'[b].open = polls[b].open
          /\ polls'[b].at \in {"none", "asking"}
      BY <1>2, <2>1, NoPollFields DEF First, AtHand
    <2>3. polls'[b].at = "asking" => rows[b].status \in Active /\ rows[b].job # 0
      BY <1>2, <2>1, <2>2 DEF Flow
    <2>4. used.launches <= 1 /\ b \notin Durable /\ AtHand(b)' =>
            \A i \in Items : logged'[b][i] # 0 =>
                i \in memory'[b].reconciled \/ i = polls'[b].open
      BY <2>1, <2>2 DEF FirstLife
    <2>5. Unread(b)' => Unread(b)
      BY <2>1, <2>2, <2>3 DEF Unread
    <2> QED
      BY <1>2, <1>3, <2>1, <2>2, <2>4, <2>5 DEF FirstLife
  <1>5. CASE PollUnresolved(b) \/ PollFails(b)
    <2>1. /\ polls[b].at \in {"none", "asking"} /\ polls'[b].at = "none"
          /\ (wire'[b] # "none" => First(b))
          /\ memory'[b] = memory[b] /\ (b \in inFlight' <=> b \in inFlight)
          /\ polls'[b].open = polls[b].open /\ (polls'[b].held => polls[b].held)
          /\ rows'[b].status \in {rows[b].status, "failed"}
      BY <1>2, <1>5, PollEffects, NoPollFields DEF Flow, Same, First
    <2>2. (First(b)' => First(b)) /\ (AtHand(b)' => AtHand(b)) /\ "failed" \notin Active
      BY <2>1 DEF First, AtHand, Active
    <2> QED
      BY <1>2, <1>3, <2>1, <2>2 DEF FirstLife, Unread
  <1>6. CASE PollAnswers(b)
    <2>1. polls[b].seen.job \in 1 .. Len(jobs[b]) /\ polls[b].at = "asking"
          /\ polls[b].seen.job = rows[b].job
      BY <1>6, CurrentOne DEF PollAnswers, Flow
    <2>2. /\ rows'[b] = rows[b] /\ memory'[b] = memory[b]
          /\ (b \in inFlight' <=> b \in inFlight)
          /\ polls'[b].at = "answers" /\ polls'[b].held = polls[b].held
          /\ polls'[b].seen = polls[b].seen
          /\ polls'[b].open = polls[b].open
      BY <1>6, <2>1, AnswerEffects
    <2>3. PICK r \in Replies(b) : polls'[b].reply = r /\ polls'[b].todo = Fresh(b, r.ok)
      BY <1>6, <2>1, AnswerEffects
    <2>4. polls[b].open = None
      BY <2>1 DEF Flow
    <2>5. ~First(b)' /\ (AtHand(b)' => AtHand(b))
      BY <2>2 DEF First, AtHand
    <2>6. r.ok \subseteq CurrentJob(b).ok /\ polls'[b].todo \subseteq r.ok
      BY <2>3 DEF Replies, Reply, Fresh
    <2>7. used.launches <= 1 => \A i \in polls'[b].todo : logged[b][i] = 0
      <3> SUFFICES ASSUME used.launches <= 1, NEW i \in polls'[b].todo, logged[b][i] # 0
                   PROVE  FALSE
        OBVIOUS
      <3>1. i \in jobs[b][polls[b].seen.job].ok
        BY <2>6 DEF CurrentJob
      <3>2. /\ Sound(b, jobs[b][polls[b].seen.job])
            /\ i \in jobs[b][polls[b].seen.job].items /\ i \in Items
        <4>1. Sound(b, jobs[b][polls[b].seen.job])
          BY <2>1 DEF JobsInv
        <4> QED
          BY <3>1, <4>1, WorkAssumption DEF Sound
      <3>3. CASE b \in Durable
        <4>1. PaidBy(b, rows[b].job - 1)
          BY <1>2, <2>1, <3>3 DEF FirstLife, Unread
        <4>2. PICK k \in 1 .. rows[b].job - 1 : i \in jobs[b][k].ok
          BY <3>2, <4>1 DEF PaidBy
        <4>3. k \in 1 .. Len(jobs[b]) /\ k < polls[b].seen.job
          BY <1>1, <2>1
        <4> QED
          BY <2>1, <3>2, <4>2, <4>3 DEF JobsInv
      <3>4. CASE b \notin Durable
        <4>1. polls'[b].held
          BY <2>2, <3>4 DEF Counted, Fallback
        <4>2. AtHand(b) /\ polls'[b].todo = r.ok \ memory[b].reconciled
          BY <2>2, <2>3, <4>1 DEF AtHand, Fresh
        <4>3. i # None
          BY <3>2, BatchNoneAssumption
        <4> QED
          BY <2>4, <3>2, <3>4, <4>2, <4>3 DEF FirstLife
      <3> QED
        BY <3>3, <3>4
    <2>8. used.launches <= 1 /\ b \notin Durable /\ AtHand(b)' =>
            \A i \in Items : logged'[b][i] # 0 =>
                i \in memory'[b].reconciled \/ i = polls'[b].open
      BY <2>2, <2>5 DEF FirstLife
    <2>9. used.launches <= 1 /\ b \in Durable => PaidBy(b, rows[b].job - 1)'
      BY <1>2, <1>3, <2>1 DEF FirstLife, Unread
    <2> QED
      BY <1>2, <2>1, <2>2, <2>5, <2>7, <2>8, <2>9 DEF FirstLife
  <1> QED
    BY <1>4, <1>5, <1>6

(* A poll that ends leaves its job behind, unless it told nothing.         *)
LEMMA FirstTurn ==
    ASSUME TypeOK, NEW b \in Batches, Flow(b), Flow(b)', Asked(b), Told(b), Paid(b),
           FirstLife(b), used'.launches = used.launches,
           phase' = phase, logged'[b] = logged[b],
           \/ KeepPolling(b) \/ ResubmitReturns(b) \/ Resubmit(b) \/ ResubmitFails(b)
           \/ NoMoreRetries(b) \/ Finish(b)
    PROVE  FirstLife(b)'
  <1>1. /\ logged[b] \in [Items -> Nat] /\ Len(jobs[b]) \in Nat
        /\ rows[b].job \in Nat /\ rows[b].job <= Len(jobs[b])
        /\ polls[b].at # "none" => polls[b].seen.job = rows[b].job
    BY FlowTypes DEF TypeOK, Flow
  <1>2. CASE KeepPolling(b) \/ ResubmitReturns(b)
    <2>1. /\ \/ /\ polls[b].at = "answers" /\ polls[b].todo = {} /\ wire'[b] = wire[b]
                /\ polls[b].reply.status = "in_progress" /\ rows'[b].job = rows[b].job
             \/ /\ polls[b].at = "resubmitting" /\ wire[b] = "accepted" /\ wire'[b] = "none"
                /\ rows'[b].job = Len(jobs[b])
          /\ polls'[b] = NoPoll /\ jobs'[b] = jobs[b] /\ memory'[b] = memory[b]
          /\ b \in inFlight' <=> b \in inFlight
      BY <1>2, TurnEffects DEF Counts, Same
    <2>2. polls[b].open = None /\ polls'[b].open = None /\ ~polls'[b].held /\ polls'[b].at = "none"
      BY <2>1, NoPollFields DEF Flow
    <2>3. ~First(b)' /\ (AtHand(b)' => AtHand(b))
      BY <2>1, <2>2 DEF First, AtHand, Flow
    <2>4. ASSUME used.launches <= 1, b \in Durable, phase # "down"
          PROVE  PaidBy(b, rows[b].job - 1)'
      <3>1. CASE polls[b].at = "answers"
        BY <2>1, <2>4, <3>1 DEF FirstLife, PaidBy, Unread
      <3>2. CASE polls[b].at = "resubmitting"
        <4>1. PaidBy(b, rows[b].job)
          BY <2>4, <3>2 DEF FirstLife
        <4>2. rows'[b].job - 1 = rows[b].job
          <5>1. wire[b] = "accepted" /\ rows'[b].job = Len(jobs[b])
            BY <2>1, <3>2
          <5>2. polls[b].seen.job + 1 = Len(jobs[b])
            BY <3>2, <5>1 DEF Asked
          <5> QED
            BY <1>1, <3>2, <5>1, <5>2
        <4> QED
          BY <2>1, <4>1, <4>2 DEF PaidBy
      <3> QED
        BY <2>1, <3>1, <3>2
    <2>5. phase # "down" /\ rows[b].status # "absent"
      BY <1>1, <2>1 DEF Flow
    <2> QED
      BY <2>1, <2>2, <2>3, <2>4, <2>5 DEF FirstLife
  <1>3. CASE Resubmit(b)
    <2>1. /\ polls[b].at = "answers" /\ polls[b].held /\ polls'[b].at = "resubmitting"
          /\ rows'[b] = rows[b] /\ jobs'[b] = jobs[b]
          /\ (b \in inFlight' <=> b \in inFlight)
          /\ polls'[b].held = polls[b].held /\ polls'[b].open = polls[b].open
          /\ memory'[b].reconciled = memory[b].reconciled
      BY <1>3, TurnEffects DEF WillRetry, SamePoll
    <2>2. ~First(b)' /\ AtHand(b) /\ phase # "down"
      BY <2>1 DEF First, AtHand, Flow
    <2>3. PaidBy(b, rows[b].job)'
      <3>1. rows'[b].job = Len(jobs[b])
        BY <1>1, <2>1 DEF Asked
      <3> QED
        BY <2>1, <3>1 DEF Paid, PaidBy
    <2> QED
      BY <2>1, <2>2, <2>3 DEF FirstLife, Unread
  <1>4. CASE ResubmitFails(b) \/ NoMoreRetries(b)
    <2>1. /\ polls[b].at \in {"answers", "resubmitting"} /\ polls'[b].at = "failures"
          /\ rows'[b] = rows[b] /\ memory'[b] = memory[b]
          /\ (b \in inFlight' <=> b \in inFlight)
          /\ polls'[b].held = polls[b].held /\ polls'[b].open = polls[b].open
      BY <1>4, TurnEffects DEF Same, SamePoll
    <2>2. ~First(b)' /\ (AtHand(b)' => AtHand(b)) /\ phase # "down"
      BY <2>1 DEF First, AtHand, Flow
    <2> QED
      BY <2>1, <2>2 DEF FirstLife, Unread
  <1>5. CASE Finish(b)
    <2>1. /\ polls[b].at = "failures" /\ polls'[b] = NoPoll /\ wire'[b] = wire[b]
          /\ b \notin inFlight' /\ rows'[b].status = polls[b].reply.status
      BY <1>5, TurnEffects
    <2>2. rows'[b].status \notin Active /\ phase # "down"
      BY <2>1, FlowTypes DEF Told, ReplyStatus, Active, Flow
    <2>3. ~First(b)' /\ ~AtHand(b)' /\ polls'[b].at = "none"
      BY <2>1, NoPollFields DEF First, AtHand, Flow
    <2> QED
      BY <2>2, <2>3 DEF FirstLife, Unread
  <1> QED
    BY <1>2, <1>3, <1>4, <1>5

(* Neither a cancellation nor a provider logs anything.                    *)
LEMMA FirstApart ==
    ASSUME TypeOK, NEW b \in Batches, Flow(b), AnswersStay(b),
           FirstLife(b), used'.launches = used.launches,
           phase' = phase, logged'[b] = logged[b],
           \/ Cancel(b) \/ CancelReturns(b) \/ ProviderStep(b)
    PROVE  FirstLife(b)'
  <1>1. /\ Len(jobs[b]) \in Nat /\ rows[b].job \in Nat /\ rows[b].job <= Len(jobs[b])
    BY FlowTypes DEF Flow
  <1>2. /\ rows'[b].job = rows[b].job /\ rows'[b].status \in {rows[b].status, "cancelled"}
        /\ memory'[b] = memory[b] /\ polls'[b] = polls[b]
        /\ (b \in inFlight' => b \in inFlight)
        /\ (wire'[b] # "none" => wire[b] # "none")
        /\ used.launches = 0 => rows'[b] = rows[b]
    <2>1. CASE Cancel(b) \/ CancelReturns(b)
      <3>1. phase # "down"
        BY <2>1, CancelEffects
      <3> QED
        BY <2>1, <3>1, CancelEffects DEF SameRow, FirstLife
    <2>2. CASE ProviderAccepts(b)
      BY <2>2, AcceptEffects
    <2>3. CASE \/ ProviderCancels(b)
               \/ \E k \in DOMAIN jobs[b] : JobEnds(b, k) \/ ItemEnds(b, k) \/ RunEnds(b, k)
      BY <2>3 DEF ProviderCancels, JobEnds, ItemEnds, RunEnds, memoryVars, callVars
    <2> QED
      BY <2>1, <2>2, <2>3 DEF ProviderStep
  <1>3. /\ PaidBy(b, rows[b].job - 1) => PaidBy(b, rows[b].job - 1)'
        /\ PaidBy(b, rows[b].job) => PaidBy(b, rows[b].job)'
    <2>1. rows'[b].job = rows[b].job
      BY <1>2
    <2>2. \A n \in {rows[b].job - 1, rows[b].job} : \A k \in 1 .. n : jobs[b][k].ok \subseteq jobs'[b][k].ok
      BY <1>1 DEF AnswersStay
    <2> QED
      BY <2>1, <2>2 DEF PaidBy
  <1>4. /\ First(b)' => First(b)
        /\ AtHand(b)' => AtHand(b)
        /\ Unread(b)' => Unread(b)
    BY <1>2 DEF First, AtHand, Unread, Active
  <1> QED
    BY <1>2, <1>3, <1>4 DEF FirstLife

(* An answer is logged when it is opened, and leaves what is to do with it.*)
LEMMA FirstItems ==
    ASSUME TypeOK, NEW b \in Batches, Flow(b), Told(b), Counted(b),
           FirstLife(b), Reconciles(b)
    PROVE  FirstLife(b)'
  <1>0. /\ UNCHANGED <<rows, phase, inFlight, timers, wire, cancelling, jobs>>
        /\ logged \in [Batches -> [Items -> Nat]] /\ polls[b].todo \subseteq Items
    BY TypeItems, FlowTypes DEF TypeOK, Reconciles
  <1>1. polls[b].open # None => polls[b].at = "answers" /\ polls[b].open \in polls[b].todo
    BY DEF Flow
  <1>2. Moves(b)
    BY DEF Moves, TurnStep, Reconciles
  <1>3. /\ used'.launches = used.launches
        /\ \/ Unwritten(b)
           \/ \E written \in BOOLEAN, i \in polls[b].todo : Charges(b, i, written)
           \/ \E written \in BOOLEAN : Stores(b, written)
    BY <1>2, ChargeEffects
  <1>4. phase # "down" /\ polls'[b].at \in {"answers", "failures"} /\ ~First(b)'
        /\ polls'[b].at = polls[b].at /\ polls'[b].reply = polls[b].reply
        /\ polls'[b].held = polls[b].held
    <2>1. CASE \E i \in Items : Settled(b, i)
      BY <1>0, <2>1 DEF Settled, Flow, First
    <2>2. CASE ~\E i \in Items : Settled(b, i)
      BY <1>0, <1>1, <2>2, ItemEffects DEF Reconciles, Flow, First
    <2> QED
      BY <2>1, <2>2
  <1>5. used.launches # 0
    BY <1>4 DEF FirstLife
  <1>6. ASSUME NEW i \in polls[b].todo, polls[b].at = "answers"
        PROVE  ~(b \in Durable /\ Unread(b)') /\ (b \notin Durable => polls[b].held)
    BY <1>4, <1>6 DEF Unread, Told, Counted, Fallback
  <1>7. AtHand(b)' <=> AtHand(b)
    BY <1>0, <1>4 DEF AtHand
  <1>8. ASSUME NEW i \in Items, Settled(b, i)
        PROVE  FirstLife(b)'
    <2>1. /\ polls'[b].todo = polls[b].todo \ {i} /\ polls'[b].open = None /\ i \in polls[b].todo
          /\ memory'[b].reconciled = (IF polls[b].held THEN memory[b].reconciled \cup {i}
                                      ELSE memory[b].reconciled)
      BY <1>8 DEF Settled
    <2>2. polls[b].open \in {None, i} /\ logged' = logged
      BY <1>0, <1>1, <1>3, <2>1, BatchNoneAssumption DEF Unwritten, Charges, Stores
    <2>3. b \notin Durable /\ polls[b].open = i => polls[b].held
      BY <1>1, <1>6, <2>1, BatchNoneAssumption
    <2>4. used.launches <= 1 /\ b \notin Durable /\ AtHand(b)' =>
            \A h \in Items : logged'[b][h] # 0 =>
                h \in memory'[b].reconciled \/ h = polls'[b].open
      BY <1>7, <2>1, <2>2, <2>3, BatchNoneAssumption DEF FirstLife
    <2>5. used.launches <= 1 /\ polls'[b].at = "answers" =>
            \A h \in polls'[b].todo : logged'[b][h] = 0 \/ h = polls'[b].open
      BY <1>4, <2>1, <2>2 DEF FirstLife
    <2>6. Unread(b)' => ~(b \in Durable)
      BY <1>4, <1>6, <2>1 DEF Unread
    <2> QED
      BY <1>3, <1>4, <1>5, <2>2, <2>4, <2>5, <2>6 DEF FirstLife
  <1>9. CASE ~\E i \in Items : Settled(b, i)
    <2>1. /\ memory'[b] = memory[b] /\ polls[b].at = "answers" /\ polls'[b].todo = polls[b].todo
          /\ polls'[b].open \in polls[b].todo
      BY <1>1, <1>9, ItemEffects DEF Reconciles
    <2>2. polls'[b].open # None /\ ~(b \in Durable /\ Unread(b)')
      BY <1>0, <1>6, <2>1, BatchNoneAssumption
    <2>3. CASE Unwritten(b)
      BY <1>3, <1>4, <1>5, <1>7, <2>1, <2>2, <2>3 DEF FirstLife, Unwritten
    <2>4. ASSUME NEW i \in polls[b].todo, NEW written \in BOOLEAN, Charges(b, i, written)
          PROVE  FirstLife(b)'
      <3>1. i \in Items /\ polls[b].open = None /\ polls'[b].open = i /\ i # None
        BY <1>0, <2>4, BatchNoneAssumption DEF Charges
      <3>2. \A h \in Items : h # i => logged'[b][h] = logged[b][h]
        BY <1>0, <2>4 DEF Charges
      <3>3. logged'[b][i] \in {logged[b][i], logged[b][i] + 1}
        BY <1>0, <2>4, <3>1 DEF Charges
      <3>4. used.launches <= 1 => logged[b][i] = 0
        BY <2>1, <3>1 DEF FirstLife
      <3>5. used.launches <= 1 => \A h \in Items : logged'[b][h] <= 1
        BY <3>2, <3>3, <3>4 DEF FirstLife
      <3>6. used.launches <= 1 => \A h \in polls[b].todo : logged'[b][h] = 0 \/ h = i
        BY <1>0, <2>1, <3>1, <3>2, BatchNoneAssumption DEF FirstLife
      <3>7. used.launches <= 1 /\ b \notin Durable /\ AtHand(b) =>
              \A h \in Items : logged'[b][h] # 0 => h \in memory[b].reconciled \/ h = i
        BY <3>1, <3>2, BatchNoneAssumption DEF FirstLife
      <3> QED
        BY <1>3, <1>4, <1>5, <1>7, <2>1, <2>2, <3>1, <3>5, <3>6, <3>7 DEF FirstLife
    <2> QED
      BY <1>3, <2>2, <2>3, <2>4 DEF Stores
  <1> QED
    BY <1>8, <1>9

(* A batch that was left apart logs nothing.                               *)
LEMMA FirstFrame ==
    ASSUME NEW c \in Batches, FirstLife(c), Apart(c), phase' = phase,
           used'.launches = used.launches, logged'[c] = logged[c]
    PROVE  FirstLife(c)'
  <1>1. AtHand(c)' <=> AtHand(c)
    BY DEF Apart, AtHand
  <1>2. PaidBy(c, rows[c].job - 1)' <=> PaidBy(c, rows[c].job - 1)
    BY DEF Apart, PaidBy
  <1>3. PaidBy(c, rows[c].job)' <=> PaidBy(c, rows[c].job)
    BY DEF Apart, PaidBy
  <1>4. (First(c)' <=> First(c)) /\ (Unread(c)' <=> Unread(c))
    BY DEF Apart, First, Unread
  <1> QED
    BY <1>1, <1>2, <1>3, <1>4 DEF Apart, FirstLife

(* A launch, a crash and a stop log nothing; after the second launch there *)
(* is a relaunch.                                                          *)
LEMMA FirstGlobal ==
    ASSUME TypeOK, NEW b \in Batches, Flow(b), Paid(b), FirstLife(b), Launch \/ Crash \/ Stop
    PROVE  FirstLife(b)'
  <1>0. used.launches \in Nat /\ logged[b] \in [Items -> Nat]
    BY DEF TypeOK, Bounds
  <1>1. CASE Launch
    <2>1. /\ used'.launches = used.launches + 1 /\ logged' = logged /\ phase' = "up"
          /\ UNCHANGED <<wire, polls, inFlight, memory, jobs>> /\ phase = "down"
      BY <1>1 DEF Launch, callVars, TypeOK, Bounds
    <2>2. used.launches = 0 => Len(jobs[b]) = 0
      BY DEF FirstLife, Flow
    <2>3. used'.launches <= 1 => \A i \in Items : logged'[b][i] = 0
      BY <1>0, <2>1, <2>2 DEF Paid
    <2>4. used'.launches # 0
      BY <1>0, <2>1
    <2>5. polls'[b].at # "answers"
      BY <2>1 DEF Flow
    <2> QED
      BY <2>3, <2>4, <2>5 DEF FirstLife, PaidBy
  <1>2. CASE Crash
    <2>1. /\ phase' = "down" /\ b \notin inFlight' /\ wire'[b] = "none" /\ polls'[b] = NoPoll
          /\ logged' = logged /\ used' = used /\ phase # "down"
      BY <1>2 DEF Crash, Running
    <2>2. ~First(b)' /\ ~AtHand(b)' /\ polls'[b].at = "none"
      BY <2>1, NoPollFields DEF First, AtHand
    <2> QED
      BY <2>1, <2>2 DEF FirstLife
  <1>3. CASE Stop
    <2>1. /\ phase = "up" /\ b \notin inFlight' /\ logged' = logged /\ used' = used
          /\ UNCHANGED <<rows, memory, wire, polls, jobs>>
      BY <1>3 DEF Stop, callVars
    <2>2. /\ First(b)' <=> First(b)
          /\ AtHand(b)' => AtHand(b)
          /\ Unread(b)' <=> Unread(b)
      BY <2>1 DEF First, AtHand, Unread
    <2>3. /\ PaidBy(b, rows[b].job - 1)' <=> PaidBy(b, rows[b].job - 1)
          /\ PaidBy(b, rows[b].job)' <=> PaidBy(b, rows[b].job)
      BY <2>1 DEF PaidBy
    <2> QED
      BY <2>1, <2>2, <2>3 DEF FirstLife
  <1> QED
    BY <1>1, <1>2, <1>3

(* The charges of each batch.                                              *)
LifeInv == CountInv /\ OneTurn /\ \A b \in Batches : Paid(b) /\ FirstLife(b)

LEMMA LifeInit ==
    Init => LifeInv
  <1> SUFFICES ASSUME Init PROVE LifeInv
    OBVIOUS
  <1>1. CountInv
    BY AccountInit DEF AccountInv
  <1>2. ASSUME NEW b \in Batches
        PROVE  ~Mid(b) /\ Paid(b) /\ FirstLife(b)
    <2>1. /\ rows[b] = NoRow /\ polls[b] = NoPoll /\ wire[b] = "none"
          /\ b \notin inFlight /\ phase = "down"
          /\ \A i \in Items : logged[b][i] = 0
      BY DEF Init
    <2>2. rows[b].status = "absent" /\ polls[b].at = "none" /\ ~AtHand(b) /\ ~First(b)
      BY <2>1, NoPollFields DEF NoRow, AtHand, First
    <2> QED
      BY <2>1, <2>2 DEF Mid, Paid, FirstLife
  <1> QED
    BY <1>1, <1>2 DEF LifeInv, OneTurn

(* Every step keeps the charges of every batch.                            *)
LEMMA LifeNext ==
    LifeInv /\ [Next]_vars => LifeInv'
  <1> SUFFICES ASSUME LifeInv, [Next]_vars PROVE LifeInv'
    OBVIOUS
  <1>0. /\ CountInv' /\ TypeOK /\ FlowInv /\ OneTurn
        /\ \A b \in Batches : Flow(b) /\ Asked(b) /\ JobsInv(b) /\ Told(b) /\ Counted(b)
        /\ \A b \in Batches : Flow(b)' /\ Told(b)' /\ Counted(b)'
        /\ \A b \in Batches : Paid(b) /\ FirstLife(b)
    BY CountNext DEF LifeInv, CountInv, JobsAll, FlowInv
  <1>1. OneTurn'
    BY <1>0, OneTurnNext
  <1>2. ASSUME NEW b \in Batches, Launch \/ Crash \/ Stop
        PROVE  Paid(b)' /\ FirstLife(b)'
    <2>1. AnswersStay(b)
      BY <1>0, <1>2, AnswersStayStep
    <2>2. logged' = logged
      BY <1>2 DEF Launch, Crash, Stop
    <2> QED
      BY <1>0, <1>2, <2>1, <2>2, PaidKept, FirstGlobal
  <1>3. ASSUME NEW b \in Batches, Moves(b), NEW c \in Batches
        PROVE  Paid(c)' /\ FirstLife(c)'
    <2>1. Local(b) /\ AnswersStay(b) /\ used'.launches = used.launches /\ phase' = phase
      BY <1>0, <1>3, TypeStep, AnswersStayStep, ChargeEffects DEF Local
    <2>2. CASE c = b
      <3>1. Paid(b)'
        BY <1>0, <1>3, PaidStep
      <3>2. CASE Reconciles(b)
        BY <1>0, <2>2, <3>1, <3>2, FirstItems
      <3>3. CASE ~Reconciles(b)
        <4>1. logged' = logged
          BY <1>0, <1>3, <3>3, ChargeEffects DEF Unwritten, Stores, Reconciles
        <4> QED
          BY <1>0, <1>3, <2>1, <2>2, <3>1, <3>3, <4>1, FirstSubmit, FirstPoll, FirstTurn, FirstApart
             DEF Moves, CallStep, TurnStep, Reconciles
      <3> QED
        BY <3>2, <3>3
    <2>3. CASE c # b
      <3>1. Apart(c)
        BY <2>1, <2>3 DEF Local
      <3>2. logged'[c] = logged[c]
        BY <1>0, <1>3, <2>3, ChargeEffects DEF Unwritten, Charges, Stores, TypeOK
      <3>3. AnswersStay(c)
        BY <1>0, <3>1, FlowTypes DEF Apart, AnswersStay
      <3> QED
        BY <1>0, <2>1, <3>1, <3>2, <3>3, PaidKept, FirstFrame
    <2> QED
      BY <2>2, <2>3
  <1>4. ASSUME UNCHANGED vars, NEW c \in Batches
        PROVE  Paid(c)' /\ FirstLife(c)'
    <2>1. /\ UNCHANGED <<rows, inFlight, memory, wire, polls, cancelling, jobs, timers, phase>>
          /\ UNCHANGED <<logged, used>>
      BY <1>4 DEF vars, memoryVars, callVars
    <2>2. Apart(c) /\ AnswersStay(c)
      BY <1>0, <2>1, FlowTypes DEF Apart, AnswersStay
    <2> QED
      BY <1>0, <2>1, <2>2, PaidKept, FirstFrame
  <1>5. \A c \in Batches : Paid(c)' /\ FirstLife(c)'
    BY <1>2, <1>3, <1>4 DEF Next, Moves
  <1> QED
    BY <1>0, <1>1, <1>5 DEF LifeInv

(* Which rows are spare, and which come after the first.                   *)
LEMMA RowSets ==
    ASSUME NEW b \in Batches, NEW i \in Items, NEW n \in Nat
    PROVE  /\ <<b, i, n>> \in SpareRows <=> Spare(b, i, n)
           /\ <<b, i, n>> \in LaterRows <=> 2 <= n /\ n <= logged[b][i]
           /\ <<b, i, n>> \in SpareRows' <=> Spare(b, i, n)'
           /\ <<b, i, n>> \in LaterRows' <=> 2 <= n /\ n <= logged'[b][i]
  BY DEF SpareRows, LaterRows

LEMMA RowTuples ==
    /\ SpareRows \subseteq Batches \X Items \X Nat
    /\ LaterRows \subseteq Batches \X Items \X Nat
    /\ SpareRows' \subseteq Batches \X Items \X Nat
    /\ LaterRows' \subseteq Batches \X Items \X Nat
  BY DEF SpareRows, LaterRows

(* Rows after the first are spare.                                         *)
LEMMA LaterSpare ==
    LaterRows \subseteq SpareRows /\ LaterRows' \subseteq SpareRows'
  BY DEF LaterRows, SpareRows, Spare

(* A row that is spare after a step was so before it, or is one of T.      *)
LEMMA SpareIn ==
    ASSUME NEW T,
           \A b \in Batches, i \in Items, n \in Nat :
               Spare(b, i, n)' => Spare(b, i, n) \/ <<b, i, n>> \in T
    PROVE  SpareRows' \subseteq SpareRows \cup T
  <1> SUFFICES ASSUME NEW r \in SpareRows', r \notin SpareRows
               PROVE  r \in T
    OBVIOUS
  <1>1. PICK b \in Batches, i \in Items, n \in Nat : r = <<b, i, n>>
    BY RowTuples
  <1> QED
    BY <1>1, RowSets

(* How many there may be more of.                                          *)
LEMMA OneMore ==
    ASSUME NEW S, NEW T, NEW x, IsFiniteSet(S), T \subseteq S \cup {x}
    PROVE  /\ IsFiniteSet(T) /\ Cardinality(T) \in Nat /\ Cardinality(S) \in Nat
           /\ Cardinality(T) <= Cardinality(S) + 1
           /\ T \subseteq S => Cardinality(T) <= Cardinality(S)
  <1>1. IsFiniteSet(S \cup {x}) /\ Cardinality(S \cup {x}) <= Cardinality(S) + 1
        /\ Cardinality(S) \in Nat
    BY FS_AddElement, FS_CardinalityType
  <1>2. IsFiniteSet(T) /\ Cardinality(T) <= Cardinality(S \cup {x}) /\ Cardinality(T) \in Nat
        /\ Cardinality(S \cup {x}) \in Nat
    BY <1>1, FS_Subset, FS_CardinalityType
  <1>3. T \subseteq S => Cardinality(T) <= Cardinality(S)
    BY FS_Subset
  <1> QED
    BY <1>1, <1>2, <1>3

(* One for another.                                                        *)
LEMMA OneForOne ==
    ASSUME NEW S, NEW T, NEW x, NEW y \in S, IsFiniteSet(S), T \subseteq (S \ {y}) \cup {x}
    PROVE  IsFiniteSet(T) /\ Cardinality(T) <= Cardinality(S)
  <1>1. IsFiniteSet(S \ {y}) /\ Cardinality(S \ {y}) = Cardinality(S) - 1
    BY FS_RemoveElement
  <1>2. IsFiniteSet(T) /\ Cardinality(T) <= Cardinality(S \ {y}) + 1
    BY <1>1, OneMore
  <1> QED
    BY <1>1, <1>2, FS_CardinalityType

(* What the spare rows become.  Each more is a crash's or a failed write's.*)
LEMMA SpareStep ==
    ASSUME TypeOK, NEW b \in Batches, Flow(b), Moves(b), IsFiniteSet(SpareRows),
           \A c \in Batches \ {b} : Apart(c)
    PROVE  /\ IsFiniteSet(SpareRows')
           /\ Cardinality(SpareRows') + used.writes <= Cardinality(SpareRows) + used'.writes
  <1>0. /\ logged \in [Batches -> [Items -> Nat]] /\ used.writes \in Nat
        /\ polls[b].todo \subseteq Items /\ Cardinality(SpareRows) \in Nat
    BY FlowTypes, FS_CardinalityType DEF TypeOK, Bounds
  <1>1. \A c \in Batches \ {b} : polls'[c] = polls[c]
    BY DEF Apart
  <1>2. SpareRows' \subseteq SpareRows =>
            /\ IsFiniteSet(SpareRows') /\ Cardinality(SpareRows') \in Nat
            /\ Cardinality(SpareRows') <= Cardinality(SpareRows)
    BY FS_Subset, FS_CardinalityType
  <1>3. CASE Unwritten(b)
    <2>1. \A c \in Batches, i \in Items, n \in Nat : Spare(c, i, n)' => Spare(c, i, n) \/ <<c, i, n>> \in {}
      BY <1>1, <1>3 DEF Unwritten, Spare
    <2>2. SpareRows' \subseteq SpareRows
      BY <2>1, SpareIn
    <2> QED
      BY <1>0, <1>2, <1>3, <2>2 DEF Unwritten
  <1>4. ASSUME NEW i \in polls[b].todo, Charges(b, i, FALSE)
        PROVE  /\ IsFiniteSet(SpareRows')
               /\ Cardinality(SpareRows') + used.writes <= Cardinality(SpareRows) + used'.writes
    <2>1. /\ polls[b].open = None /\ polls'[b].open = i /\ logged' = logged /\ answers' = answers
          /\ used'.writes = used.writes + 1
      BY <1>4 DEF Charges
    <2>2. \A c \in Batches, h \in Items, n \in Nat : Spare(c, h, n)' => Spare(c, h, n) \/ <<c, h, n>> \in {}
      BY <1>1, <2>1, BatchNoneAssumption DEF Spare
    <2>3. SpareRows' \subseteq SpareRows
      BY <2>2, SpareIn
    <2> QED
      BY <1>0, <1>2, <2>1, <2>3
  <1>5. ASSUME NEW i \in polls[b].todo, Charges(b, i, TRUE)
        PROVE  /\ IsFiniteSet(SpareRows')
               /\ Cardinality(SpareRows') + used.writes <= Cardinality(SpareRows) + used'.writes
    <2> DEFINE m == logged[b][i]
    <2>1. /\ polls[b].open = None /\ polls'[b].open = i /\ i \in Items /\ i # None
          /\ i \notin answers /\ answers' = answers
          /\ used'.writes = used.writes /\ m \in Nat
      BY <1>0, <1>5, BatchNoneAssumption DEF Charges
    <2>2. /\ logged'[b][i] = m + 1
          /\ \A c \in Batches, h \in Items : <<c, h>> # <<b, i>> => logged'[c][h] = logged[c][h]
      BY <1>0, <1>5, <2>1 DEF Charges
    <2>3. ASSUME NEW c \in Batches, NEW h \in Items, NEW n \in Nat, Spare(c, h, n)'
          PROVE  /\ Spare(c, h, n) \/ (<<c, h, n>> = <<b, i, m + 1>> /\ m # 0)
                 /\ <<c, h, n>> # <<b, i, 1>>
      <3>1. CASE <<c, h>> = <<b, i>>
        <4>1. 1 <= n /\ n <= m + 1 /\ n >= 2
          BY <2>1, <2>2, <2>3, <3>1 DEF Spare
        <4> QED
          BY <2>1, <3>1, <4>1 DEF Spare
      <3>2. CASE <<c, h>> # <<b, i>>
        <4>1. logged'[c][h] = logged[c][h] /\ (polls'[c].open # h => polls[c].open # h)
          BY <1>1, <2>1, <2>2, <3>2, BatchNoneAssumption
        <4> QED
          BY <2>1, <2>3, <3>2, <4>1 DEF Spare
      <3> QED
        BY <3>1, <3>2
    <2>4. CASE m = 0
      <3>1. \A c \in Batches, h \in Items, n \in Nat :
               Spare(c, h, n)' => Spare(c, h, n) \/ <<c, h, n>> \in {}
        BY <2>3, <2>4
      <3>2. SpareRows' \subseteq SpareRows
        BY <3>1, SpareIn
      <3> QED
        BY <1>0, <1>2, <2>1, <3>2
    <2>5. CASE m # 0
      <3>1. <<b, i, 1>> \in SpareRows
        <4>1. Spare(b, i, 1)
          BY <2>1, <2>5 DEF Spare
        <4> QED
          BY <2>1, <4>1, RowSets
      <3>2. \A c \in Batches, h \in Items, n \in Nat :
               Spare(c, h, n)' => Spare(c, h, n) \/ <<c, h, n>> \in {<<b, i, m + 1>>}
        BY <2>3
      <3>3. SpareRows' \subseteq SpareRows \cup {<<b, i, m + 1>>}
        <4> HIDE DEF m
        <4> QED
          BY <3>2, SpareIn
      <3>4. <<b, i, 1>> \notin SpareRows'
        BY <2>1, <2>3, RowSets
      <3>5. SpareRows' \subseteq (SpareRows \ {<<b, i, 1>>}) \cup {<<b, i, m + 1>>}
        BY <3>3, <3>4
      <3> HIDE DEF m
      <3>6. IsFiniteSet(SpareRows') /\ Cardinality(SpareRows') <= Cardinality(SpareRows)
        BY <3>1, <3>5, OneForOne
      <3> QED
        BY <1>0, <2>1, <3>6, FS_CardinalityType
    <2> QED
      BY <2>4, <2>5
  <1>6. ASSUME NEW written \in BOOLEAN, Stores(b, written)
        PROVE  /\ IsFiniteSet(SpareRows')
               /\ Cardinality(SpareRows') + used.writes <= Cardinality(SpareRows) + used'.writes
    <2> DEFINE o == polls[b].open
    <2>1. o \in Items /\ polls'[b].open = None /\ logged' = logged
      BY <1>6 DEF Stores
    <2>2. CASE written
      <3>1. answers' = answers \cup {o} /\ used'.writes = used.writes
        BY <1>6, <2>2 DEF Stores
      <3>2. \A c \in Batches, h \in Items, n \in Nat :
               Spare(c, h, n)' => Spare(c, h, n) \/ <<c, h, n>> \in {}
        BY <1>1, <2>1, <3>1 DEF Spare
      <3>3. SpareRows' \subseteq SpareRows
        BY <3>2, SpareIn
      <3> QED
        BY <1>0, <1>2, <3>1, <3>3
    <2>3. CASE ~written
      <3>1. answers' = answers /\ used'.writes = used.writes + 1
        BY <1>6, <2>3 DEF Stores
      <3>2. \A c \in Batches, h \in Items, n \in Nat :
               Spare(c, h, n)' => Spare(c, h, n) \/ <<c, h, n>> \in {<<b, o, 1>>}
        BY <1>1, <2>1, <3>1 DEF Spare
      <3>3. SpareRows' \subseteq SpareRows \cup {<<b, o, 1>>}
        <4> HIDE DEF o
        <4> QED
          BY <3>2, SpareIn
      <3> HIDE DEF o
      <3>4. /\ IsFiniteSet(SpareRows') /\ Cardinality(SpareRows') \in Nat
            /\ Cardinality(SpareRows') <= Cardinality(SpareRows) + 1
        BY <3>3, OneMore
      <3> QED
        BY <1>0, <3>1, <3>4
    <2> QED
      BY <2>2, <2>3
  <1> QED
    BY <1>3, <1>4, <1>5, <1>6, ChargeEffects

(* A crash leaves one more row spare, of the batch in its turn.            *)
LEMMA SpareCrash ==
    ASSUME LifeInv, IsFiniteSet(SpareRows), Crash
    PROVE  /\ IsFiniteSet(SpareRows') /\ Cardinality(SpareRows') \in Nat
           /\ Cardinality(SpareRows) \in Nat
           /\ Cardinality(SpareRows') <= Cardinality(SpareRows) + 1
  <1>1. \A b \in Batches : polls[b].open # None => Mid(b)
    BY DEF LifeInv, CountInv, JobsAll, FlowInv, Flow, Mid
  <1>2. \A b, c \in Batches : polls[b].open # None /\ polls[c].open # None => b = c
    BY <1>1 DEF LifeInv, OneTurn
  <1>3. PICK x : \A b \in Batches : polls[b].open # None => <<b, polls[b].open, 1>> = x
    <2>1. CASE \E b \in Batches : polls[b].open # None
      BY <1>2, <2>1
    <2>2. CASE \A b \in Batches : polls[b].open = None
      BY <2>2
    <2> QED
      BY <2>1, <2>2
  <1>4. logged' = logged /\ answers' = answers
    BY DEF Crash
  <1>5. ASSUME NEW b \in Batches, NEW i \in Items, NEW n \in Nat, Spare(b, i, n)'
        PROVE  Spare(b, i, n) \/ <<b, i, n>> \in {x}
    <2>1. CASE polls[b].open = i
      <3>1. <<b, i, 1>> = x
        BY <1>3, <2>1, BatchNoneAssumption
      <3> QED
        BY <1>4, <1>5, <3>1 DEF Spare
    <2>2. CASE polls[b].open # i
      BY <1>4, <1>5, <2>2 DEF Spare
    <2> QED
      BY <2>1, <2>2
  <1>6. SpareRows' \subseteq SpareRows \cup {x}
    BY <1>5, SpareIn
  <1> QED
    BY <1>6, OneMore

SpentInv == LifeInv /\ Spent

LEMMA SpentInit ==
    Init => SpentInv
  <1> SUFFICES ASSUME Init PROVE SpentInv
    OBVIOUS
  <1>1. /\ \A b \in Batches, i \in Items : logged[b][i] = 0
        /\ used.launches = 0 /\ used.writes = 0 /\ ~Running
    BY DEF Init, Running
  <1>2. SpareRows = {} /\ LaterRows = {}
    <2>1. SpareRows = {}
      BY <1>1 DEF SpareRows, Spare
    <2> QED
      BY <2>1, LaterSpare
  <1> QED
    BY <1>1, <1>2, LifeInit, FS_EmptySet DEF SpentInv, Spent

(* A launch, a crash and a stop spare one row for each relaunch.           *)
LEMMA SpentGlobal ==
    ASSUME LifeInv, Spent, Launch \/ Crash \/ Stop
    PROVE  Spent'
  <1>1. /\ used \in Bounds /\ used.launches \in Nat /\ used.writes \in Nat
        /\ Cardinality(SpareRows) \in Nat /\ Cardinality(LaterRows) \in Nat
    BY FS_CardinalityType DEF LifeInv, CountInv, JobsAll, FlowInv, TypeOK, Bounds, Spent
  <1>2. LaterRows' = LaterRows
    <2>1. logged' = logged
      BY DEF Launch, Crash, Stop
    <2> QED
      BY <2>1 DEF LaterRows
  <1>3. CASE Launch
    <2>1. /\ ~Running /\ Running' /\ used'.launches = used.launches + 1
          /\ used'.writes = used.writes
      BY <1>1, <1>3 DEF Launch, Running, Bounds
    <2>2. SpareRows' = SpareRows
      BY <1>3 DEF Launch, callVars, SpareRows, Spare
    <2>3. Cardinality(LaterRows) <= Cardinality(SpareRows)
      BY LaterSpare, FS_Subset DEF Spent
    <2> QED
      BY <1>1, <1>2, <2>1, <2>2, <2>3 DEF Spent
  <1>4. CASE Crash
    <2>1. Running /\ ~Running' /\ used' = used
      BY <1>4 DEF Crash, Running
    <2>2. /\ IsFiniteSet(SpareRows') /\ Cardinality(SpareRows') \in Nat
          /\ Cardinality(SpareRows') <= Cardinality(SpareRows) + 1
      BY <1>4, SpareCrash DEF Spent
    <2> QED
      BY <1>1, <1>2, <2>1, <2>2 DEF Spent
  <1>5. CASE Stop
    <2>1. Running /\ Running' /\ used' = used
      BY <1>5 DEF Stop, Running
    <2>2. SpareRows' = SpareRows
      BY <1>5 DEF Stop, callVars, SpareRows, Spare
    <2> QED
      BY <1>1, <1>2, <2>1, <2>2 DEF Spent
  <1> QED
    BY <1>3, <1>4, <1>5

(* Every step keeps the bounds.                                            *)
LEMMA SpentNext ==
    SpentInv /\ [Next]_vars => SpentInv'
  <1> SUFFICES ASSUME LifeInv, Spent, [Next]_vars PROVE Spent'
    BY LifeNext DEF SpentInv
  <1>1. /\ TypeOK /\ \A b \in Batches : Flow(b)
        /\ used.launches \in Nat /\ used.writes \in Nat
        /\ Cardinality(SpareRows) \in Nat /\ Cardinality(LaterRows) \in Nat
    BY FS_CardinalityType DEF LifeInv, CountInv, JobsAll, FlowInv, TypeOK, Bounds, Spent
  <1>2. CASE Launch \/ Crash \/ Stop
    BY <1>2, SpentGlobal
  <1>3. ASSUME NEW b \in Batches, Moves(b)
        PROVE  Spent'
    <2>1. /\ TypeOK' /\ phase' = phase /\ used'.launches = used.launches
          /\ \A c \in Batches \ {b} : Apart(c)
      BY <1>1, <1>3, TypeStep, ChargeEffects DEF Local
    <2>2. used'.writes \in Nat /\ used.writes <= used'.writes
      BY <1>1, <1>3, <2>1, ChargeEffects DEF Unwritten, Charges, Stores
    <2>3. /\ IsFiniteSet(SpareRows') /\ Cardinality(SpareRows') \in Nat
          /\ Cardinality(SpareRows') + used.writes <= Cardinality(SpareRows) + used'.writes
      BY <1>1, <1>3, <2>1, SpareStep, FS_CardinalityType DEF Spent
    <2>4. /\ IsFiniteSet(LaterRows') /\ Cardinality(LaterRows') \in Nat
          /\ Cardinality(LaterRows') <= Cardinality(SpareRows')
      BY <2>3, LaterSpare, FS_Subset, FS_CardinalityType
    <2>5. (Running' <=> Running) /\ (~Running => LaterRows' = LaterRows)
      <3>1. ASSUME ~Running
            PROVE  logged' = logged
        <4>1. polls[b].at = "none"
          BY <1>1, <3>1 DEF Running, Flow, TypeOK
        <4> QED
          BY <1>1, <1>3, <4>1, ChargeEffects DEF Unwritten, Charges, Stores
      <3> QED
        BY <2>1, <3>1 DEF Running, LaterRows
    <2>6. CASE Running
      BY <1>1, <2>1, <2>2, <2>3, <2>4, <2>5, <2>6 DEF Spent
    <2>7. CASE ~Running
      BY <1>1, <2>1, <2>2, <2>3, <2>4, <2>5, <2>7 DEF Spent
    <2> QED
      BY <2>6, <2>7
  <1>4. CASE UNCHANGED vars
    <2>1. UNCHANGED <<logged, answers, polls, used, phase>>
      BY <1>4 DEF vars, callVars
    <2>2. SpareRows' = SpareRows /\ LaterRows' = LaterRows
      BY <2>1 DEF SpareRows, LaterRows, Spare
    <2> QED
      BY <2>1, <2>2 DEF Spent, Running
  <1> QED
    BY <1>2, <1>3, <1>4 DEF Next, Moves

(* Only the rows after the first of a batch and an id are logged again.    *)
LEMMA AgainLater ==
    ASSUME LifeInv
    PROVE  RowsAgain \subseteq LaterRows
  <1> SUFFICES ASSUME NEW b \in Batches, NEW i \in Items, NEW n \in LoggedAgain(b, i)
               PROVE  <<b, i, n>> \in LaterRows
    BY DEF RowsAgain
  <1> DEFINE S == {k \in DOMAIN jobs[b] : i \in jobs[b][k].ok}
  <1>1. /\ TypeOK /\ Paid(b) /\ logged[b][i] \in Nat /\ DOMAIN jobs[b] = 1 .. Len(jobs[b])
        /\ Len(jobs[b]) \in Nat
    BY FlowTypes DEF LifeInv, CountInv, JobsAll, FlowInv, TypeOK
  <1>2. IsFiniteSet(S) /\ Cardinality(S) \in Nat
    <2>1. IsFiniteSet(1 .. Len(jobs[b])) /\ S \subseteq 1 .. Len(jobs[b])
      BY <1>1, FS_Interval
    <2> HIDE DEF S
    <2> QED
      BY <2>1, FS_Subset, FS_CardinalityType
  <1>3. n \in Cardinality(S) + 1 .. logged[b][i]
    BY DEF LoggedAgain
  <1>4. S # {}
    <2>1. logged[b][i] # 0
      BY <1>1, <1>2, <1>3
    <2> QED
      BY <1>1, <2>1 DEF Paid
  <1> HIDE DEF S
  <1>5. Cardinality(S) # 0
    BY <1>2, <1>4, FS_EmptySet
  <1>6. n \in Nat /\ 2 <= n /\ n <= logged[b][i]
    BY <1>1, <1>2, <1>3, <1>5
  <1> QED
    BY <1>6, RowSets

(* A result is written to the cost log once for each time it was paid for  *)
(* (OneRowPerCharge), over any partial results, retries, failed polls and  *)
(* cancellations, as long as the process lives; each relaunch may write    *)
(* one row again, and each answer that failed to be stored one more, for   *)
(* any number of batches, requests, launches and failing writes.           *)
THEOREM ChargesCorrect ==
    Spec => []OneRowPerCharge
  <1>1. SpentInv => OneRowPerCharge
    <2> SUFFICES ASSUME LifeInv, Spent
                 PROVE  OneRowPerCharge
      BY DEF SpentInv
    <2>1. /\ used.launches \in Nat /\ used.writes \in Nat
          /\ \A b \in Batches, i \in Items : logged[b][i] \in Nat
      BY DEF LifeInv, CountInv, JobsAll, FlowInv, TypeOK, Bounds
    <2>2. /\ IsFiniteSet(LaterRows) /\ RowsAgain \subseteq LaterRows
          /\ IsFiniteSet(RowsAgain) /\ Cardinality(RowsAgain) <= Cardinality(LaterRows)
          /\ Cardinality(RowsAgain) \in Nat /\ Cardinality(LaterRows) \in Nat
      BY AgainLater, FS_Subset, FS_CardinalityType DEF Spent
    <2>3. CASE used.launches <= 1
      <3>1. LaterRows = {}
        BY <2>1, <2>3 DEF LifeInv, FirstLife, LaterRows
      <3> QED
        BY <2>2, <2>3, <3>1, FS_EmptySet DEF OneRowPerCharge
    <2>4. CASE ~(used.launches <= 1)
      BY <2>1, <2>2, <2>4 DEF OneRowPerCharge, Spent
    <2> QED
      BY <2>3, <2>4
  <1> QED
    BY <1>1, SpentInit, SpentNext, PTL DEF Spec
=============================================================================
