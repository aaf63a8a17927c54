----------------------- MODULE LessonExpansionProofs -----------------------
(***************************************************************************)
(* Proofs about LessonExpansion, for any number of lessons, any head, any  *)
(* faults the gates may find and any bound.                                *)
(***************************************************************************)
EXTENDS LessonExpansion, TLAPS, FiniteSetTheorems, SequenceTheorems

USE LessonsAssumption, GatesAssumption, BoundsAssumption

Words == {"good", "low", "mute", "mend", "applied", "nothing", "done"}
Phases ==
    {"done", "replay", "again", "await", "calls", "submitting", "booking", "waiting", "readback"}
Stages ==
    Waves \cup {"idle", "preparing", "composing", "verdict", "rewriting", "closing"}
Statuses == {"pending", "generating", "qa", "ready", "failed"}

Opinion ==
    [failed : BOOLEAN, gate : BOOLEAN, faith : Words \cup {"none"},
     ped : Words \cup {"none"}, edited : BOOLEAN]
Attempt ==
    [stage : Stages, phase : Phases, row : Nat, kind : {"expand", "regenerate", "examples"},
     only : Lessons \cup {0}, waiting : BOOLEAN, watch : BOOLEAN, paused : BOOLEAN,
     wanted : SUBSET Lessons, group : SUBSET Lessons, tail : SUBSET Lessons,
     todo : SUBSET Lessons, flying : SUBSET Lessons, failed : SUBSET Lessons,
     written : SUBSET Lessons, pools : SUBSET Lessons, again : SUBSET Lessons,
     batch : Nat, ledger : [Lessons -> LedgerType], rev : [Lessons -> Nat],
     attempt : [Lessons -> 0 .. 1], review : [Lessons -> Opinion]]
TextType == [rev : Nat \cup {-1}, edited : BOOLEAN]
Row ==
    [status : Statuses, ledger : LedgerType, text : TextType,
     exercises : SUBSET [rev : Nat, variant : Nat], cards : Nat, reviewed : BOOLEAN]
Run == [status : {"expanding", "completed", "blocked_budget", "failed"}, ids : SUBSET Nat]
Batch == [asks : SUBSET AskType, over : BOOLEAN]

(* The types, of all the proofs need.                                      *)
Typed ==
    /\ lessons \in [Lessons -> Row]
    /\ \A a \in answers : a.ask \in AskType /\ a.says \in Says(a.ask) \cup {"bad"}
    /\ runs \in Seq(Run)
    /\ \A r \in DOMAIN runs : runs[r].ids \subseteq DOMAIN batches
    /\ batches \in Seq(Batch)
    /\ mem \in Attempt
    /\ charged \in [once : SUBSET AskType, again : SUBSET AskType, lost : SUBSET AskType]
    /\ used \in [events : Nat, rewrites : [Lessons -> Nat]]

Early == {"theory", "practice", "composing", "cards"}
Writing == {"practice", "composing", "cards"} \cup Gates
Going(m) == m.stage \notin {"idle", "preparing"}

(* No lesson, and no lesson judged: names that stay closed in the proofs.   *)
Nobody == {}
Unreviewed == [l \in Lessons |-> NoReview]

(* Where an attempt is: what its phase, its group and its lists say of one *)
(* another.                                                                *)
Course(m) ==
    /\ m.stage = "idle" => m = NoAttempt
    /\ m.stage \notin Waves => m.phase = "done"
    /\ m.phase # "calls" => m.flying = {}
    /\ m.flying \subseteq m.todo /\ m.todo \subseteq m.group /\ m.group \subseteq m.wanted
    /\ m.written \cup m.again \subseteq m.group /\ m.tail \subseteq m.wanted
    /\ m.tail \cap m.group = {}
    /\ m.stage \in Writing \cup {"verdict"} => m.todo \subseteq m.written
    /\ m.kind # "expand" => m.only # 0
    /\ m.stage = "preparing" => m.group = {} /\ m.tail = {} /\ ~m.paused
    /\ Going(m) /\ ~m.watch => m.only = 0
    /\ m.tail # {} => m.only = 0
    /\ m.only = 0 => ~m.waiting
    /\ m.stage \in Waves \cup {"composing"} => m.again = {}
    /\ m.stage = "verdict" => m.todo \cap m.again = {}
    /\ m.stage = "verdict" => \A l \in m.again : m.attempt[l] = 0
    /\ m.stage = "rewriting" => m.todo \subseteq m.again /\ \A l \in m.todo : m.attempt[l] = 0
    /\ m.stage = "closing" /\ ~m.paused => m.tail = {}
    /\ m.paused \/ (m.phase = "done" /\ m.stage \in Waves => m.todo = {})
    /\ m.paused \/ (m.phase = "calls" => m.todo = m.flying)

(* Only the last row expands, and it is the one in memory.                 *)
OnLastRow ==
    /\ mem.phase \in {"booking", "waiting"} => mem.batch \in DOMAIN batches
    /\ \A r \in DOMAIN runs : Expanding(r) => r = Len(runs)
    /\ mem.stage # "idle" => mem.row \in DOMAIN runs /\ mem.row = Len(runs) /\ Expanding(mem.row)

Base == Typed /\ Course(mem) /\ OnLastRow

(* A step of the attempt that leaves these fields alone.                   *)
SameGoal(n, m) ==
    /\ n.row = m.row /\ n.kind = m.kind /\ n.only = m.only /\ n.waiting = m.waiting
    /\ n.wanted = m.wanted
SameGroup(n, m) == n.group = m.group /\ n.tail = m.tail /\ n.watch = m.watch
SameText(n, m) == n.ledger = m.ledger /\ n.rev = m.rev /\ n.attempt = m.attempt
SameDone(n, m) ==
    n.written = m.written /\ n.pools = m.pools /\ n.again = m.again /\ n.review = m.review
SameWork(n, m) == SameGoal(n, m) /\ SameGroup(n, m) /\ SameText(n, m) /\ SameDone(n, m)
SameAsked(n, m) ==
    /\ n.stage = m.stage /\ n.phase = m.phase /\ n.todo = m.todo /\ n.flying = m.flying
    /\ n.failed = m.failed /\ n.batch = m.batch
-----------------------------------------------------------------------------
(* The operators on an attempt.                                            *)

(* runWave begins a wave and keeps all but what it asks.                   *)
LEMMA OpenedIs ==
    ASSUME NEW m \in Attempt, NEW stage \in Stages, NEW asked \in SUBSET Lessons
    PROVE  LET n == Opened(m, stage, asked)
           IN  /\ n \in Attempt
               /\ SameGoal(n, m) /\ SameGroup(n, m) /\ SameText(n, m) /\ SameDone(n, m)
               /\ n.paused = m.paused
               /\ n.stage = stage /\ n.todo = asked /\ n.flying = Nobody /\ n.failed = Nobody
               /\ n.batch = 0
               /\ n.phase = IF asked = {} THEN "done" ELSE "replay"
  <1> DEFINE n == Opened(m, stage, asked)
  <1>1. n \in Attempt
    BY DEF Attempt, Opened, Phases
  <1>2. SameGoal(n, m)
    BY DEF Attempt, Opened, SameGoal
  <1>3. SameGroup(n, m) /\ SameText(n, m)
    BY DEF Attempt, Opened, SameGroup, SameText
  <1>4. SameDone(n, m) /\ n.paused = m.paused
    BY DEF Attempt, Opened, SameDone
  <1>5. /\ n.stage = stage /\ n.todo = asked /\ n.flying = Nobody /\ n.failed = Nobody
        /\ n.batch = 0 /\ n.phase = IF asked = {} THEN "done" ELSE "replay"
    BY DEF Attempt, Opened, Nobody
  <1> QED
    BY <1>1, <1>2, <1>3, <1>4, <1>5

(* Nothing is known of a lesson that is not written.                       *)
LEMMA NoReviewTyped == Unreviewed \in [Lessons -> Opinion]
  BY DEF Unreviewed, NoReview, Opinion

(* A group begins with its theory.                                         *)
LEMMA StartGroupTyped ==
    ASSUME NEW m \in Attempt, NEW g \in SUBSET Lessons, NEW w, w \in BOOLEAN
    PROVE  StartGroup(m, g, w) \in Attempt
  <1> DEFINE o == [m EXCEPT !.group = g, !.watch = w, !.written = {}, !.pools = {},
                            !.again = {}, !.review = Unreviewed]
  <1>1. StartGroup(m, g, w) = Opened(o, "theory", g)
    BY DEF StartGroup, Unreviewed
  <1>2. o \in Attempt
    BY NoReviewTyped DEF Attempt
  <1>3. "theory" \in Stages
    BY DEF Stages, Waves
  <1> QED
    BY <1>1, <1>2, <1>3, OpenedIs

(* A group begins with nothing written and nothing reviewed.               *)
LEMMA StartGroupIs ==
    ASSUME NEW m \in Attempt, NEW g \in SUBSET Lessons, NEW w
    PROVE  LET n == StartGroup(m, g, w)
           IN  /\ SameGoal(n, m) /\ SameText(n, m)
               /\ n.paused = m.paused /\ n.tail = m.tail
               /\ n.group = g /\ n.watch = w
               /\ n.written = Nobody /\ n.again = Nobody /\ n.review = Unreviewed
               /\ n.stage = "theory" /\ n.todo = g /\ n.flying = Nobody /\ n.failed = Nobody
               /\ n.phase = IF g = {} THEN "done" ELSE "replay"
  <1> DEFINE o == [m EXCEPT !.group = g, !.watch = w, !.written = {}, !.pools = {},
                            !.again = {}, !.review = Unreviewed]
             n == StartGroup(m, g, w)
  <1>1. n = Opened(o, "theory", g)
    BY DEF StartGroup, Unreviewed
  <1>2. n.tail = m.tail /\ n.group = g /\ n.watch = w /\ n.paused = m.paused
    BY <1>1 DEF Opened, Attempt, Nobody
  <1>3. n.written = Nobody /\ n.again = Nobody /\ n.review = Unreviewed
    BY <1>1 DEF Opened, Attempt, Nobody
  <1>4. /\ n.stage = "theory" /\ n.todo = g /\ n.flying = Nobody /\ n.failed = Nobody
        /\ n.phase = IF g = {} THEN "done" ELSE "replay"
    BY <1>1 DEF Opened, Attempt, Nobody
  <1>5. SameGoal(n, m) /\ SameText(n, m)
    BY <1>1 DEF Opened, Attempt, SameGoal, SameText
  <1> QED
    BY <1>2, <1>3, <1>4, <1>5

(* The next group is the tail, or there is none.                           *)
LEMMA NextGroupIs ==
    ASSUME NEW m \in Attempt
    PROVE  LET n == NextGroup(m)
           IN  /\ n \in Attempt
               /\ SameGoal(n, m) /\ SameText(n, m) /\ n.paused = m.paused /\ n.tail = Nobody
               /\ m.tail = {} => /\ n.stage = "closing" /\ n.phase = "done"
                                 /\ n.todo = m.todo /\ n.flying = m.flying
                                 /\ SameGroup(n, m) /\ SameDone(n, m)
               /\ m.tail # {} => /\ n.group = m.tail /\ n.watch = m.waiting
                                 /\ n.written = Nobody /\ n.again = Nobody
                                 /\ n.review = Unreviewed
                                 /\ n.stage = "theory" /\ n.todo = m.tail /\ n.flying = Nobody
                                 /\ n.failed = Nobody /\ n.phase = "replay"
  <1>1. CASE m.tail = {}
    <2> DEFINE n == [m EXCEPT !.stage = "closing", !.phase = "done"]
    <2>1. n \in Attempt
      BY DEF Attempt, Stages, Phases
    <2>2. SameGoal(n, m) /\ SameText(n, m) /\ SameGroup(n, m)
      BY DEF Attempt, SameGoal, SameText, SameGroup
    <2>3. /\ SameDone(n, m) /\ n.paused = m.paused /\ n.stage = "closing" /\ n.phase = "done"
          /\ n.todo = m.todo /\ n.flying = m.flying /\ n.tail = m.tail
      BY DEF Attempt, SameDone
    <2>4. NextGroup(m) = n
      BY <1>1 DEF NextGroup
    <2> HIDE DEF n
    <2> QED
      BY <1>1, <2>1, <2>2, <2>3, <2>4 DEF Nobody
  <1>2. CASE m.tail # {}
    <2> DEFINE o == [m EXCEPT !.tail = {}]
    <2>1. o \in Attempt /\ m.tail \in SUBSET Lessons
      BY DEF Attempt
    <2>2. SameGoal(o, m) /\ SameText(o, m) /\ o.paused = m.paused /\ o.tail = {}
      BY DEF Attempt, SameGoal, SameText
    <2>3. NextGroup(m) = StartGroup(o, m.tail, m.waiting)
      BY <1>2 DEF NextGroup
    <2> HIDE DEF o
    <2>4. PICK n : n = StartGroup(o, m.tail, m.waiting)
      OBVIOUS
    <2>5. n \in Attempt
      <3>1. m.waiting \in BOOLEAN
        BY DEF Attempt
      <3> QED
        BY <2>1, <2>4, <3>1, StartGroupTyped
    <2>6. /\ SameGoal(n, o) /\ SameText(n, o)
          /\ n.paused = o.paused /\ n.tail = o.tail
          /\ n.group = m.tail /\ n.watch = m.waiting
      BY <2>1, <2>4, StartGroupIs
    <2>7. n.written = Nobody /\ n.again = Nobody /\ n.review = Unreviewed
      BY <2>1, <2>4, StartGroupIs
    <2>8. /\ n.stage = "theory" /\ n.todo = m.tail /\ n.flying = Nobody /\ n.failed = Nobody
          /\ n.phase = IF m.tail = {} THEN "done" ELSE "replay"
      BY <2>1, <2>4, StartGroupIs
    <2> QED
      BY <1>2, <2>2, <2>3, <2>4, <2>5, <2>6, <2>7, <2>8 DEF SameGoal, SameText, Nobody
  <1> QED
    BY <1>1, <1>2

(* What the gates may say.                                                 *)
LEMMA SaysWords == \A ask : Says(ask) \subseteq Words
  BY DEF Says, Words

(* What a gate leaves of a review is a review.                             *)
LEMMA ReviewedTyped ==
    ASSUME NEW m \in Attempt, NEW l \in Lessons, NEW says \in Words
    PROVE  Reviewed(m, l, says) \in Opinion
  <1>1. m.review[l] \in Opinion
    BY DEF Attempt
  <1> QED
    BY <1>1 DEF Reviewed, Edited, Opinion

(* What an answer leaves of the attempt.                                   *)
Without(s, l) == s \ {l}
WrittenBy(m, l) == IF m.stage = "theory" THEN m.written \cup {l} ELSE m.written
LedgerBy(m, l) ==
    IF m.stage = "theory" THEN [m.ledger EXCEPT ![l] = [@ EXCEPT !.rev = m.rev[l]]]
    ELSE m.ledger
ReviewBy(m, l, says) ==
    IF m.stage \in Gates THEN [m.review EXCEPT ![l] = Reviewed(m, l, says)] ELSE m.review

(* An answer settles its lesson, and writes only what its stage writes.    *)
LEMMA LandedIs ==
    ASSUME NEW m \in Attempt, NEW l \in Lessons, NEW says \in Words
    PROVE  LET n == Landed(m, l, says)
           IN  /\ n \in Attempt
               /\ SameGoal(n, m) /\ SameGroup(n, m) /\ n.paused = m.paused
               /\ n.stage = m.stage /\ n.phase = m.phase /\ n.batch = m.batch
               /\ n.failed = m.failed /\ n.again = m.again
               /\ n.todo = Without(m.todo, l) /\ n.flying = Without(m.flying, l)
               /\ n.rev = m.rev /\ n.attempt = m.attempt
               /\ n.written = WrittenBy(m, l) /\ n.ledger = LedgerBy(m, l)
               /\ n.review = ReviewBy(m, l, says)
  <1> DEFINE s == [m EXCEPT !.todo = @ \ {l}, !.flying = @ \ {l}]
             n == Landed(m, l, says)
  <1>1. /\ s \in Attempt /\ SameGoal(s, m) /\ SameGroup(s, m) /\ SameText(s, m)
    BY DEF Attempt, SameGoal, SameGroup, SameText
  <1>2. /\ SameDone(s, m) /\ s.paused = m.paused
        /\ s.stage = m.stage /\ s.phase = m.phase /\ s.batch = m.batch /\ s.failed = m.failed
        /\ s.todo = m.todo \ {l} /\ s.flying = m.flying \ {l}
    BY DEF Attempt, SameDone
  <1>3. /\ m.stage = "theory" =>
             n = [s EXCEPT !.written = @ \cup {l}, !.ledger[l].rev = m.rev[l]]
        /\ m.stage = "practice" => n = [s EXCEPT !.pools = @ \cup {l}]
        /\ m.stage \in Gates => n = [s EXCEPT !.review[l] = Reviewed(m, l, says)]
        /\ m.stage \notin Gates \cup {"theory", "practice"} => n = s
    BY DEF Landed, Gates
  <1> HIDE DEF s, n
  <1>4. CASE m.stage = "theory"
    <2> DEFINE o == [s EXCEPT !.written = @ \cup {l}, !.ledger[l].rev = m.rev[l]]
    <2>1. /\ s.ledger \in [Lessons -> LedgerType] /\ s.ledger[l] \in LedgerType
          /\ m.rev[l] \in Nat
      BY <1>1 DEF Attempt
    <2>2. [s.ledger EXCEPT ![l] = [@ EXCEPT !.rev = m.rev[l]]] \in [Lessons -> LedgerType]
      BY <2>1 DEF LedgerType
    <2>3. /\ o.written = s.written \cup {l}
          /\ o.ledger = [s.ledger EXCEPT ![l] = [@ EXCEPT !.rev = m.rev[l]]]
          /\ o.review = s.review /\ o.again = s.again
      BY <1>1 DEF Attempt
    <2>4. o \in Attempt
      BY <1>1, <2>2 DEF Attempt
    <2>5. /\ SameGoal(o, s) /\ SameGroup(o, s) /\ o.paused = s.paused
          /\ SameAsked(o, s) /\ o.rev = s.rev /\ o.attempt = s.attempt
      BY <1>1 DEF Attempt, SameGoal, SameGroup, SameAsked
    <2>6. n = o /\ m.stage \notin Gates
      BY <1>3, <1>4 DEF Gates
    <2> HIDE DEF o
    <2> QED
      BY <1>1, <1>2, <1>4, <2>3, <2>4, <2>5, <2>6
         DEF SameGoal, SameGroup, SameAsked, SameText, SameDone, n,
             Without, WrittenBy, LedgerBy, ReviewBy
  <1>5. CASE m.stage = "practice"
    <2> DEFINE o == [s EXCEPT !.pools = @ \cup {l}]
    <2>1. o \in Attempt /\ o.written = s.written /\ o.review = s.review /\ o.again = s.again
      BY <1>1 DEF Attempt
    <2>2. /\ SameGoal(o, s) /\ SameGroup(o, s) /\ o.paused = s.paused
          /\ SameAsked(o, s) /\ SameText(o, s)
      BY <1>1 DEF Attempt, SameGoal, SameGroup, SameAsked, SameText
    <2>3. n = o /\ m.stage \notin Gates /\ m.stage # "theory"
      BY <1>3, <1>5 DEF Gates
    <2> HIDE DEF o
    <2> QED
      BY <1>1, <1>2, <1>5, <2>1, <2>2, <2>3
         DEF SameGoal, SameGroup, SameAsked, SameText, SameDone, n,
             Without, WrittenBy, LedgerBy, ReviewBy
  <1>6. CASE m.stage \in Gates
    <2> DEFINE o == [s EXCEPT !.review[l] = Reviewed(m, l, says)]
    <2>1. Reviewed(m, l, says) \in Opinion
      BY ReviewedTyped
    <2>2. /\ o \in Attempt /\ o.written = s.written /\ o.again = s.again
          /\ o.review = [s.review EXCEPT ![l] = Reviewed(m, l, says)]
      BY <1>1, <2>1 DEF Attempt
    <2>3. /\ SameGoal(o, s) /\ SameGroup(o, s) /\ o.paused = s.paused
          /\ SameAsked(o, s) /\ SameText(o, s)
      BY <1>1 DEF Attempt, SameGoal, SameGroup, SameAsked, SameText
    <2>4. n = o /\ m.stage # "theory"
      BY <1>3, <1>6 DEF Gates
    <2> HIDE DEF o
    <2> QED
      BY <1>1, <1>2, <1>6, <2>2, <2>3, <2>4
         DEF SameGoal, SameGroup, SameAsked, SameText, SameDone, n,
             Without, WrittenBy, LedgerBy, ReviewBy
  <1>7. CASE m.stage \notin Gates \cup {"theory", "practice"}
    BY <1>1, <1>2, <1>3, <1>7 DEF SameGoal, SameGroup, SameText, SameDone, n,
             Without, WrittenBy, LedgerBy, ReviewBy
  <1> QED
    BY <1>4, <1>5, <1>6, <1>7

(* What is left to ask is asked, by calls or by a batch.                   *)
LEMMA DispatchedIs ==
    ASSUME NEW m \in Attempt
    PROVE  LET n == Dispatched(m)
           IN  /\ n \in Attempt
               /\ SameWork(n, m) /\ n.paused = m.paused
               /\ n.stage = m.stage /\ n.todo = m.todo /\ n.failed = m.failed
               /\ n.batch = m.batch
               /\ \/ m.todo = {} /\ n.phase = "done" /\ n.flying = m.flying
                  \/ m.todo # {} /\ n.phase = "calls" /\ n.flying = m.todo
                  \/ /\ m.todo # {} /\ ~m.watch /\ m.phase # "readback"
                     /\ n.phase = "submitting" /\ n.flying = m.flying
  <1> DEFINE n == Dispatched(m)
  <1>1. n \in Attempt
    BY DEF Dispatched, Attempt, Phases
  <1>2. SameGoal(n, m) /\ SameGroup(n, m)
    BY DEF Dispatched, Attempt, SameGoal, SameGroup
  <1>3. SameText(n, m) /\ SameDone(n, m)
    BY DEF Dispatched, Attempt, SameText, SameDone
  <1>4. /\ n.paused = m.paused /\ n.stage = m.stage /\ n.todo = m.todo
        /\ n.failed = m.failed /\ n.batch = m.batch
    BY DEF Dispatched, Attempt
  <1>5. \/ m.todo = {} /\ n.phase = "done" /\ n.flying = m.flying
        \/ m.todo # {} /\ n.phase = "calls" /\ n.flying = m.todo
        \/ /\ m.todo # {} /\ ~m.watch /\ m.phase # "readback"
           /\ n.phase = "submitting" /\ n.flying = m.flying
    BY DEF Dispatched, Attempt
  <1> QED
    BY <1>1, <1>2, <1>3, <1>4, <1>5 DEF SameWork

(* A pause on the budget ends the work.                                    *)
LEMMA StoppingIs ==
    ASSUME NEW m \in Attempt
    PROVE  LET n == Stopping(m)
           IN  /\ n \in Attempt
               /\ SameWork(n, m) /\ n.paused = m.paused
               /\ n.stage = "closing" /\ n.phase = "done"
               /\ n.todo = m.todo /\ n.flying = m.flying
  <1> DEFINE n == Stopping(m)
  <1>1. n \in Attempt
    BY DEF Stopping, Attempt, Phases, Stages
  <1>2. SameGoal(n, m) /\ SameGroup(n, m)
    BY DEF Stopping, Attempt, SameGoal, SameGroup
  <1>3. SameText(n, m) /\ SameDone(n, m)
    BY DEF Stopping, Attempt, SameText, SameDone
  <1>4. /\ n.paused = m.paused /\ n.stage = "closing" /\ n.phase = "done"
        /\ n.todo = m.todo /\ n.flying = m.flying
    BY DEF Stopping, Attempt
  <1> QED
    BY <1>1, <1>2, <1>3, <1>4 DEF SameWork

(* The gates have all answered, or failed.                                 *)
LEMMA JudgingIs ==
    ASSUME NEW m \in Attempt
    PROVE  LET n == Judging(m)
           IN  /\ n \in Attempt
               /\ SameWork(n, m) /\ n.paused = m.paused
               /\ n.stage = "verdict" /\ n.phase = "done"
               /\ n.todo = m.written /\ n.flying = m.flying
  <1> DEFINE n == Judging(m)
  <1>1. n \in Attempt
    BY DEF Judging, Attempt, Phases, Stages
  <1>2. SameGoal(n, m) /\ SameGroup(n, m)
    BY DEF Judging, Attempt, SameGoal, SameGroup
  <1>3. SameText(n, m) /\ SameDone(n, m)
    BY DEF Judging, Attempt, SameText, SameDone
  <1>4. /\ n.paused = m.paused /\ n.stage = "verdict" /\ n.phase = "done"
        /\ n.todo = m.written /\ n.flying = m.flying
    BY DEF Judging, Attempt
  <1> QED
    BY <1>1, <1>2, <1>3, <1>4 DEF SameWork

(* A failing call of a gate fails the review, and changes nothing else.    *)
LEMMA ReviewingIs ==
    ASSUME NEW m \in Attempt
    PROVE  LET n == Reviewing(m)
           IN  /\ n \in Attempt
               /\ SameGoal(n, m) /\ SameGroup(n, m) /\ SameText(n, m) /\ SameAsked(n, m)
               /\ n.written = m.written /\ n.again = m.again /\ n.paused = m.paused
               /\ \A l \in Lessons :
                    /\ n.review[l].edited = m.review[l].edited
                    /\ n.review[l].gate = m.review[l].gate
                    /\ m.review[l].failed => n.review[l].failed
  <1> DEFINE f == [l \in Lessons |-> IF l \in m.failed THEN [m.review[l] EXCEPT !.failed = TRUE]
                                     ELSE m.review[l]]
             n == Reviewing(m)
  <1>1. m.review \in [Lessons -> Opinion]
    BY DEF Attempt
  <1>2. /\ f \in [Lessons -> Opinion]
        /\ \A l \in Lessons : /\ f[l].edited = m.review[l].edited
                              /\ f[l].gate = m.review[l].gate
                              /\ m.review[l].failed => f[l].failed
    BY <1>1 DEF Opinion
  <1>3. n = [m EXCEPT !.review = f]
    BY DEF Reviewing
  <1> HIDE DEF f, n
  <1>4. n \in Attempt /\ n.review = f
    BY <1>2, <1>3 DEF Attempt
  <1>5. SameGoal(n, m) /\ SameGroup(n, m) /\ SameText(n, m)
    BY <1>3 DEF Attempt, SameGoal, SameGroup, SameText
  <1>6. /\ SameAsked(n, m)
        /\ n.written = m.written /\ n.again = m.again /\ n.paused = m.paused
    BY <1>3 DEF Attempt, SameAsked
  <1> QED
    BY <1>2, <1>4, <1>5, <1>6 DEF n

(* What is asked has a type, and says which lesson it is about.            *)
LEMMA AskTyped ==
    ASSUME NEW m \in Attempt, m.stage \in Waves, NEW l \in Lessons
    PROVE  Ask(m, l) \in AskType /\ Ask(m, l).lesson = l
  <1>1. m.rev[l] \in Nat /\ m.ledger[l].variant \in Nat
    BY DEF Attempt, LedgerType
  <1>2. (IF m.stage = "p6again" THEN "p6" ELSE m.stage) \in Waves \ {"p6again"}
    BY DEF Waves
  <1> QED
    BY <1>1, <1>2 DEF Ask, AskType

(* The same question by two attempts.                                      *)
LEMMA SameQuestion ==
    ASSUME NEW m, NEW n, NEW l \in Lessons, n.stage = m.stage, n.kind = m.kind,
           n.rev[l] = m.rev[l], n.ledger[l].variant = m.ledger[l].variant
    PROVE  Ask(n, l) = Ask(m, l)
  BY DEF Ask

(* A least natural number.                                                 *)
LEMMA LeastNat ==
    ASSUME NEW X \in SUBSET Nat, X # {}
    PROVE  \E n \in X : \A m \in X : n <= m
  <1> DEFINE R == OpToRel(<, Nat)
  <1>1. IsWellFoundedOn(R, Nat)
    BY NatLessThanWellFounded
  <1>2. \A m, n \in Nat : m < n => <<m, n>> \in R
    BY DEF OpToRel
  <1> HIDE DEF R
  <1>3. PICK n \in X : \A m \in X : ~(<<m, n>> \in R)
    BY <1>1, WFMin
  <1>4. \A m \in X : ~(m < n) /\ m \in Nat /\ n \in Nat
    BY <1>2, <1>3
  <1> QED
    BY <1>4

(* The lessons are positive numbers: 0 is none of them.                    *)
LEMMA LessonsAreNumbers == Lessons \subseteq Nat \ {0}
  BY DEF Lessons

(* The next lesson in order is one of those left.                          *)
LEMMA FirstIsOne ==
    ASSUME NEW s \in SUBSET Lessons, s # {}
    PROVE  First(s) \in s
  <1>1. \E x \in s : \A y \in s : x <= y
    BY LeastNat, LessonsAreNumbers
  <1> QED
    BY <1>1 DEF First, Min

(* The head of what is wanted: one lesson at least, and all of a single    *)
(* one.                                                                    *)
LEMMA FirstsBegin ==
    ASSUME NEW s \in SUBSET Lessons, s # {}
    PROVE  Firsts(s) \subseteq s /\ Firsts(s) # {}
  <1>1. PICK x \in s : \A y \in s : x <= y
    BY LeastNat, LessonsAreNumbers
  <1>2. \A k \in s : ~(k < x)
    <2>1. \A k \in s : x <= k /\ x \in Nat /\ k \in Nat
      BY <1>1, LessonsAreNumbers
    <2> QED
      BY <2>1
  <1>3. {k \in s : k < x} = {}
    BY <1>2
  <1>4. Cardinality({k \in s : k < x}) < HeadSize
    <2>1. Cardinality({k \in s : k < x}) = 0
      BY <1>3, FS_EmptySet
    <2> QED
      BY <2>1
  <1>5. x \in Firsts(s)
    BY <1>4 DEF Firsts
  <1>6. Firsts(s) \subseteq s
    BY DEF Firsts
  <1> QED
    BY <1>5, <1>6

(* The head of a single lesson is that lesson.                             *)
LEMMA FirstsOfOne ==
    ASSUME NEW l \in Lessons
    PROVE  Firsts({l}) = {l}
  <1>1. Firsts({l}) \subseteq {l} /\ Firsts({l}) # {}
    BY FirstsBegin
  <1> QED
    BY <1>1

(* Nothing in memory.                                                      *)
LEMMA NoAttemptTyped ==
    /\ NoAttempt \in Attempt /\ NoAttempt.stage = "idle" /\ NoAttempt.phase = "done"
    /\ NoAttempt.flying = {} /\ NoAttempt.todo = {} /\ NoAttempt.tail = {}
  <1>1. [l \in Lessons |-> NewLedger] \in [Lessons -> LedgerType]
    BY DEF NewLedger, LedgerType
  <1>2. [l \in Lessons |-> NoReview] \in [Lessons -> Opinion]
    BY NoReviewTyped DEF Unreviewed
  <1> QED
    BY <1>1, <1>2 DEF NoAttempt, Attempt, Stages, Phases

(* What an answer writes on the row of its lesson, and on no other.        *)
LEMMA RowLandedTyped ==
    ASSUME lessons \in [Lessons -> Row], NEW m \in Attempt, NEW l \in Lessons
    PROVE  /\ RowLanded(m, l) \in [Lessons -> Row]
           /\ \A k \in Lessons \ {l} : RowLanded(m, l)[k] = lessons[k]
           /\ RowLanded(m, l)[l] =
                CASE m.stage = "theory" ->
                       [lessons[l] EXCEPT !.text = [rev |-> m.rev[l], edited |-> FALSE],
                                          !.ledger = [m.ledger[l] EXCEPT !.rev = m.rev[l]],
                                          !.status = "generating"]
                  [] m.stage = "cards" ->
                       [lessons[l] EXCEPT !.cards = @ + 1, !.ledger = m.ledger[l],
                                          !.status = "qa"]
                  [] OTHER -> lessons[l]
  <1>1. lessons[l] \in Row /\ m.rev[l] \in Nat /\ m.ledger[l] \in LedgerType
    BY DEF Attempt
  <1>2. CASE m.stage = "theory"
    <2> DEFINE w == [lessons[l] EXCEPT !.text = [rev |-> m.rev[l], edited |-> FALSE],
                                       !.ledger = [m.ledger[l] EXCEPT !.rev = m.rev[l]],
                                       !.status = "generating"]
    <2>1. w \in Row
      BY <1>1 DEF Row, TextType, LedgerType, Statuses
    <2>2. RowLanded(m, l) = [lessons EXCEPT ![l] = w]
      BY <1>2 DEF RowLanded
    <2> QED
      BY <1>2, <2>1, <2>2
  <1>3. CASE m.stage = "cards"
    <2> DEFINE w == [lessons[l] EXCEPT !.cards = @ + 1, !.ledger = m.ledger[l], !.status = "qa"]
    <2>1. w \in Row
      <3>1. lessons[l].cards + 1 \in Nat /\ "qa" \in Statuses
        BY <1>1 DEF Row, Statuses
      <3> QED
        BY <1>1, <3>1 DEF Row
    <2>2. RowLanded(m, l) = [lessons EXCEPT ![l] = w]
      BY <1>3 DEF RowLanded
    <2> QED
      BY <1>3, <2>1, <2>2
  <1>4. CASE m.stage \notin {"theory", "cards"}
    BY <1>1, <1>4 DEF RowLanded
  <1> QED
    BY <1>2, <1>3, <1>4

(* failLesson keeps the lesson's text and cards.                           *)
LEMMA FailingIs ==
    ASSUME lessons \in [Lessons -> Row], NEW m \in Attempt
    PROVE  /\ Failing(m) \in [Lessons -> Row]
           /\ \A l \in Lessons :
                /\ Failing(m)[l].text = lessons[l].text
                /\ Failing(m)[l].cards = lessons[l].cards
                /\ \/ Failing(m)[l] = lessons[l] /\ l \notin m.failed
                   \/ /\ Failing(m)[l].status = "failed"
                      /\ l \in m.failed
                      /\ Failing(m)[l].ledger.rev = m.rev[l]
                      /\ Failing(m)[l].ledger.regens = m.ledger[l].regens
  <1>1. ASSUME NEW l \in Lessons
        PROVE  /\ lessons[l] \in Row
               /\ [m.ledger[l] EXCEPT !.rev = m.rev[l]] \in LedgerType
               /\ [m.ledger[l] EXCEPT !.rev = m.rev[l]].rev = m.rev[l]
               /\ [m.ledger[l] EXCEPT !.rev = m.rev[l]].regens = m.ledger[l].regens
    BY DEF Attempt, LedgerType
  <1>2. ASSUME NEW l \in Lessons
        PROVE  /\ Failing(m)[l] \in Row
               /\ Failing(m)[l].text = lessons[l].text
               /\ Failing(m)[l].cards = lessons[l].cards
               /\ \/ Failing(m)[l] = lessons[l] /\ l \notin m.failed
                  \/ /\ Failing(m)[l].status = "failed"
                     /\ l \in m.failed
                     /\ Failing(m)[l].ledger.rev = m.rev[l]
                     /\ Failing(m)[l].ledger.regens = m.ledger[l].regens
    <2>1. PICK g : g = [m.ledger[l] EXCEPT !.rev = m.rev[l]]
      OBVIOUS
    <2>2. PICK x : x = lessons[l]
      OBVIOUS
    <2>3. /\ g \in LedgerType /\ g.rev = m.rev[l] /\ g.regens = m.ledger[l].regens
          /\ x \in Row
      BY <1>1, <2>1, <2>2
    <2>4. CASE l \in m.failed
      <3>1. Failing(m)[l] = [x EXCEPT !.status = "failed", !.ledger = g]
        BY <2>1, <2>2, <2>4 DEF Failing
      <3>2. /\ Failing(m)[l] \in Row
            /\ Failing(m)[l].text = x.text /\ Failing(m)[l].cards = x.cards
            /\ Failing(m)[l].status = "failed" /\ Failing(m)[l].ledger = g
        BY <2>3, <3>1 DEF Row, Statuses
      <3> QED
        BY <2>2, <2>3, <2>4, <3>2
    <2>5. CASE l \notin m.failed
      <3>1. Failing(m)[l] = lessons[l]
        BY <2>5 DEF Failing
      <3> QED
        BY <1>1, <2>5, <3>1
    <2> QED
      BY <2>4, <2>5
  <1>3. Failing(m) \in [Lessons -> Row]
    BY <1>2 DEF Failing
  <1> QED
    BY <1>2, <1>3
-----------------------------------------------------------------------------
(* What every action does to the attempt, and that the types, the course   *)
(* of the attempt and its row come out of it right.                        *)

(* The variables an action leaves alone keep their types.                  *)
LEMMA TypedFrame ==
    ASSUME Typed, mem' \in Attempt,
           lessons' \in [Lessons -> Row],
           UNCHANGED <<answers, runs, batches, charged>>, used' = used
    PROVE  Typed'
  BY DEF Typed

(* A fault is counted, and no press is.                                    *)
LEMMA EventTyped ==
    ASSUME Typed, Event
    PROVE  used' \in [events : Nat, rewrites : [Lessons -> Nat]] /\ used'.rewrites = used.rewrites
  <1>1. used \in [events : Nat, rewrites : [Lessons -> Nat]]
    BY DEF Typed
  <1> QED
    BY <1>1 DEF Event

(* What a charge leaves of the books.                                      *)
LEMMA ChargeTyped ==
    ASSUME Typed, NEW asks \in SUBSET AskType, NEW kept \in SUBSET AskType,
           NEW gone \in SUBSET AskType, Charge(asks, kept, gone)
    PROVE  /\ charged' \in [once : SUBSET AskType, again : SUBSET AskType, lost : SUBSET AskType]
           /\ charged'.once = charged.once \cup kept
           /\ charged'.again = charged.again \cup (asks \cap charged.once)
           /\ charged'.lost = charged.lost \cup gone
  BY DEF Typed, Charge

(* A row that is changed in place.                                         *)
LEMMA RowChanged ==
    ASSUME Typed, NEW r \in DOMAIN runs, NEW e \in Run, runs' = [runs EXCEPT ![r] = e]
    PROVE  /\ runs' \in Seq(Run) /\ Len(runs') = Len(runs) /\ DOMAIN runs' = DOMAIN runs
           /\ runs'[r] = e
           /\ \A q \in DOMAIN runs \ {r} : runs'[q] = runs[q]
  <1>1. runs \in Seq(Run)
    BY DEF Typed
  <1> QED
    BY <1>1, ExceptSeq, LenProperties

(* The rows and the batches, one by one.                                   *)
LEMMA RunsTyped ==
    ASSUME Typed
    PROVE  /\ Len(runs) \in Nat /\ DOMAIN runs = 1 .. Len(runs)
           /\ \A r \in DOMAIN runs : runs[r] \in Run
           /\ Len(batches) \in Nat /\ DOMAIN batches = 1 .. Len(batches)
           /\ \A b \in DOMAIN batches : batches[b] \in Batch
  BY LenProperties, ElementOfSeq DEF Typed

(* The last row there is.                                                  *)
LEMMA LastRow ==
    ASSUME Typed, runs # <<>>
    PROVE  Len(runs) \in DOMAIN runs
  BY RunsTyped, EmptySeq DEF Typed

(* An attempt begins.                                                      *)
LEMMA BegunCourse ==
    ASSUME NEW n,
           n.stage = "preparing", n.phase = "done", n.kind # "expand" => n.only # 0,
           n.waiting => n.only # 0,
           n.todo = {}, n.flying = {}, n.group = {}, n.wanted = {}, n.written = {},
           n.again = {}, n.tail = {}, ~n.paused
    PROVE  Course(n)
  BY DEF Course, Going, Waves, Writing, Gates

(* The row of an attempt that goes on.                                     *)
LEMMA RowKept ==
    ASSUME OnLastRow, runs' = runs, batches' = batches, mem.stage # "idle", mem'.row = mem.row,
           mem'.phase \in {"booking", "waiting"} =>
               mem.phase \in {"booking", "waiting"} /\ mem'.batch = mem.batch
    PROVE  OnLastRow'
  BY DEF OnLastRow, Expanding

(* A row is added when none expands.                                       *)
LEMMA RowAdded ==
    ASSUME Typed, OnLastRow,
           runs' = Append(runs, [status |-> "expanding", ids |-> {}]),
           ~(runs # <<>> /\ Expanding(Len(runs)))
    PROVE  /\ runs' \in Seq(Run) /\ Len(runs') = Len(runs) + 1
           /\ DOMAIN runs' = 1 .. Len(runs) + 1
           /\ runs'[Len(runs')] = [status |-> "expanding", ids |-> {}]
           /\ \A r \in DOMAIN runs : runs'[r] = runs[r] /\ ~Expanding(r)
  <1> DEFINE e == [status |-> "expanding", ids |-> {}]
  <1>1. runs \in Seq(Run) /\ e \in Run /\ Len(runs) \in Nat /\ DOMAIN runs = 1 .. Len(runs)
    BY RunsTyped DEF Typed, Run
  <1>2. /\ Append(runs, e) \in Seq(Run) /\ Len(Append(runs, e)) = Len(runs) + 1
        /\ \A r \in 1 .. Len(runs) : Append(runs, e)[r] = runs[r]
        /\ Append(runs, e)[Len(runs) + 1] = e
    BY <1>1, AppendProperties
  <1>3. DOMAIN runs' = 1 .. Len(runs')
    BY <1>2, LenProperties
  <1>4. \A r \in DOMAIN runs : ~Expanding(r)
    BY <1>1, EmptySeq DEF OnLastRow
  <1> QED
    BY <1>1, <1>2, <1>3, <1>4

(* A press begins an attempt on the last row, or on a new one.             *)
LEMMA PressStep ==
    ASSUME Base, NEW k \in {"expand", "regenerate", "examples"}, NEW l \in Lessons \cup {0},
           Press(k, l)
    PROVE  /\ Base'
           /\ mem.stage = "idle" /\ mem'.stage = "preparing" /\ mem'.phase = "done"
           /\ mem'.kind = k /\ mem'.only = l
           /\ k # "expand" => l \in Lessons
           /\ used'.rewrites = IF k = "regenerate"
                               THEN [used.rewrites EXCEPT ![l] = @ + 1] ELSE used.rewrites
           /\ UNCHANGED <<lessons, answers, batches, charged>>
           /\ \/ runs' = runs
              \/ /\ runs' = Append(runs, [status |-> "expanding", ids |-> {}])
                 /\ ~(runs # <<>> /\ Expanding(Len(runs)))
  <1>1. k # "expand" => l # 0
    BY DEF Press, Pressable
  <1>2. /\ mem.stage = "idle" /\ UNCHANGED <<lessons, answers, batches, charged>>
        /\ \/ runs' = runs /\ runs # <<>> /\ Expanding(Len(runs))
           \/ /\ runs' = Append(runs, [status |-> "expanding", ids |-> {}])
              /\ ~(runs # <<>> /\ Expanding(Len(runs)))
    BY DEF Press
  <1>3. /\ runs' \in Seq(Run) /\ Len(runs') \in DOMAIN runs' /\ Len(runs') \in Nat
        /\ runs'[Len(runs')].status = "expanding"
        /\ \A r \in DOMAIN runs' : Expanding(r)' => r = Len(runs')
        /\ \A r \in DOMAIN runs' : runs'[r].ids \subseteq DOMAIN batches'
    <2>1. CASE runs' = runs /\ runs # <<>> /\ Expanding(Len(runs))
      BY <1>2, <2>1, RunsTyped, LastRow DEF Base, Typed, OnLastRow, Expanding
    <2>2. CASE /\ runs' = Append(runs, [status |-> "expanding", ids |-> {}])
               /\ ~(runs # <<>> /\ Expanding(Len(runs)))
      <3>1. /\ runs' \in Seq(Run) /\ Len(runs') = Len(runs) + 1
            /\ DOMAIN runs' = 1 .. Len(runs) + 1
            /\ runs'[Len(runs')] = [status |-> "expanding", ids |-> {}]
            /\ \A r \in DOMAIN runs : runs'[r] = runs[r] /\ ~Expanding(r)
        BY <2>2, RowAdded DEF Base
      <3>2. /\ Len(runs) \in Nat /\ DOMAIN runs = 1 .. Len(runs)
            /\ \A r \in DOMAIN runs : runs[r].ids \subseteq DOMAIN batches
        BY RunsTyped DEF Base, Typed
      <3> QED
        BY <1>2, <3>1, <3>2 DEF Expanding
    <2> QED
      BY <1>2, <2>1, <2>2
  <1>4. /\ used' \in [events : Nat, rewrites : [Lessons -> Nat]]
        /\ used'.rewrites = IF k = "regenerate"
                            THEN [used.rewrites EXCEPT ![l] = @ + 1] ELSE used.rewrites
    <2>1. used \in [events : Nat, rewrites : [Lessons -> Nat]]
      BY DEF Base, Typed
    <2> DEFINE w == [used.rewrites EXCEPT ![l] = @ + 1]
    <2>2. used' = [events |-> used.events + 1,
                   rewrites |-> IF k = "regenerate" THEN w ELSE used.rewrites]
      BY DEF Press
    <2>3. used.rewrites \in [Lessons -> Nat] /\ used.events + 1 \in Nat
      BY <2>1
    <2>4. k = "regenerate" => w \in [Lessons -> Nat]
      BY <1>1, <2>3
    <2> HIDE DEF w
    <2>5. /\ used' \in [events : Nat, rewrites : [Lessons -> Nat]]
          /\ used'.rewrites = IF k = "regenerate" THEN w ELSE used.rewrites
      BY <2>2, <2>3, <2>4
    <2> QED
      BY <2>5 DEF w
  <1>5. /\ mem' \in Attempt /\ Course(mem')
        /\ mem'.stage = "preparing" /\ mem'.phase = "done" /\ mem'.row = Len(runs')
        /\ mem'.kind = k /\ mem'.only = l
    <2>1. mem' = [NoAttempt EXCEPT !.stage = "preparing", !.row = Len(runs'), !.kind = k,
                                   !.only = l, !.waiting = l # 0]
      BY DEF Press
    <2>2. mem' \in Attempt
      <3>1. PICK r \in Nat : r = Len(runs')
        BY <1>3
      <3>2. PICK w \in BOOLEAN : w = (l # 0)
        OBVIOUS
      <3>3. PICK n \in Attempt : n = NoAttempt
        BY NoAttemptTyped
      <3>4. mem' = [n EXCEPT !.stage = "preparing", !.row = r, !.kind = k,
                             !.only = l, !.waiting = w]
        BY <2>1, <3>1, <3>2, <3>3
      <3> QED
        BY <3>4 DEF Attempt, Stages
    <2>3. /\ mem'.stage = "preparing" /\ mem'.phase = "done" /\ mem'.row = Len(runs')
          /\ mem'.kind = k /\ mem'.only = l
      BY <2>1 DEF NoAttempt
    <2>4. /\ mem'.todo = {} /\ mem'.flying = {} /\ mem'.group = {} /\ mem'.wanted = {}
          /\ mem'.written = {} /\ mem'.again = {} /\ mem'.tail = {} /\ ~mem'.paused
          /\ mem'.waiting = (l # 0)
      BY <2>1 DEF NoAttempt
    <2> QED
      BY <1>1, <2>2, <2>3, <2>4, BegunCourse
  <1>6. Typed'
    BY <1>2, <1>3, <1>4, <1>5 DEF Base, Typed
  <1>7. OnLastRow'
    BY <1>3, <1>5 DEF OnLastRow, Expanding
  <1> QED
    BY <1>1, <1>2, <1>4, <1>5, <1>6, <1>7 DEF Base

(* The sweep adopts a row that was left expanding.                         *)
LEMMA ResumeStep ==
    ASSUME Base, NEW r \in DOMAIN runs, Resume(r)
    PROVE  /\ Base'
           /\ mem.stage = "idle" /\ mem'.stage = "preparing" /\ mem'.phase = "done"
           /\ mem'.kind = "expand"
           /\ UNCHANGED <<lessons, answers, runs, batches, charged, used>>
  <1>1. /\ mem.stage = "idle" /\ Expanding(r) /\ mem' = [NoAttempt EXCEPT !.stage = "preparing", !.row = r]
        /\ UNCHANGED <<lessons, answers, runs, batches, charged, used>>
    BY DEF Resume
  <1>2. r \in Nat /\ r = Len(runs)
    BY <1>1, RunsTyped DEF Base, OnLastRow
  <1>3. mem' \in Attempt
    BY <1>1, <1>2, NoAttemptTyped DEF Attempt, Stages
  <1>4. /\ mem'.stage = "preparing" /\ mem'.phase = "done"
        /\ mem'.row = r /\ mem'.kind = "expand" /\ Course(mem')
    <2>1. /\ mem'.stage = "preparing" /\ mem'.phase = "done"
          /\ mem'.row = r /\ mem'.kind = "expand" /\ ~mem'.waiting
      BY <1>1 DEF NoAttempt
    <2>2. /\ mem'.todo = {} /\ mem'.flying = {} /\ mem'.group = {} /\ mem'.wanted = {}
          /\ mem'.written = {} /\ mem'.again = {} /\ mem'.tail = {} /\ ~mem'.paused
      BY <1>1 DEF NoAttempt
    <2> QED
      BY <2>1, <2>2, BegunCourse
  <1>5. Typed'
    BY <1>1, <1>3, TypedFrame DEF Base, Typed
  <1>6. OnLastRow'
    BY <1>1, <1>2, <1>4 DEF Base, OnLastRow, Expanding
  <1> QED
    BY <1>1, <1>3, <1>4, <1>5, <1>6 DEF Base

(* An attempt that is over.                                                *)
LEMMA RestStep ==
    ASSUME Base, mem' = NoAttempt
    PROVE  /\ mem' \in Attempt /\ Course(mem') /\ mem'.stage = "idle" /\ mem'.phase = "done"
           /\ mem'.flying = {} /\ mem'.todo = {}
  <1>1. NoAttempt.stage = "idle" /\ NoAttempt.phase = "done" /\ NoAttempt \in Attempt
    BY NoAttemptTyped
  <1>2. Course(NoAttempt)
    BY DEF NoAttempt, Course, Going, Waves, Writing, Gates
  <1> QED
    BY <1>1, <1>2, NoAttemptTyped

(* The row of an attempt that is over no longer expands.                   *)
LEMMA RowSettled ==
    ASSUME Base, mem.stage # "idle", NEW s \in {"completed", "blocked_budget", "failed"},
           runs' = [runs EXCEPT ![mem.row].status = s], mem' = NoAttempt, batches' = batches
    PROVE  /\ runs' \in Seq(Run) /\ DOMAIN runs' = DOMAIN runs /\ Len(runs') = Len(runs)
           /\ \A r \in DOMAIN runs : runs'[r].ids = runs[r].ids
           /\ \A r \in DOMAIN runs \ {mem.row} : runs'[r] = runs[r]
           /\ runs'[mem.row].status = s /\ Expanding(mem.row) /\ mem.row \in DOMAIN runs
           /\ \A r \in DOMAIN runs : ~Expanding(r)'
           /\ OnLastRow'
  <1> DEFINE e == [runs[mem.row] EXCEPT !.status = s]
  <1>1. /\ mem.row \in DOMAIN runs /\ Expanding(mem.row) /\ mem.row = Len(runs)
        /\ \A r \in DOMAIN runs : Expanding(r) => r = Len(runs)
    BY DEF Base, OnLastRow
  <1>2. runs[mem.row] \in Run
    BY <1>1, RunsTyped DEF Base
  <1>3. e \in Run /\ e.ids = runs[mem.row].ids /\ e.status = s
    BY <1>2 DEF Run
  <1>4. /\ runs' \in Seq(Run) /\ Len(runs') = Len(runs) /\ DOMAIN runs' = DOMAIN runs
        /\ runs'[mem.row] = e
        /\ \A q \in DOMAIN runs \ {mem.row} : runs'[q] = runs[q]
    BY <1>1, <1>3, RowChanged DEF Base
  <1>5. \A r \in DOMAIN runs : ~Expanding(r)'
    BY <1>1, <1>3, <1>4 DEF Expanding
  <1>6. OnLastRow'
    BY <1>4, <1>5, NoAttemptTyped DEF OnLastRow
  <1> HIDE DEF e
  <1> QED
    BY <1>1, <1>3, <1>4, <1>5, <1>6

(* The last checkpoint: no row expands after it.                           *)
LEMMA CloseStep ==
    ASSUME Base, Close
    PROVE  /\ Base'
           /\ mem.stage = "closing" /\ mem' = NoAttempt
           /\ DOMAIN runs' = DOMAIN runs /\ \A r \in DOMAIN runs : ~Expanding(r)'
           /\ \A r \in DOMAIN runs \ {mem.row} : runs'[r] = runs[r]
           /\ Len(runs') = Len(runs)
           /\ runs'[mem.row].status = IF mem.paused THEN "blocked_budget" ELSE "completed"
           /\ UNCHANGED <<lessons, answers, batches, charged, used>>
  <1> DEFINE s == IF mem.paused THEN "blocked_budget" ELSE "completed"
  <1>1. /\ mem.stage = "closing" /\ mem.stage # "idle" /\ s \in {"completed", "blocked_budget", "failed"}
        /\ runs' = [runs EXCEPT ![mem.row].status = s] /\ mem' = NoAttempt
        /\ UNCHANGED <<lessons, answers, batches, charged, used>>
    BY DEF Close
  <1> HIDE DEF s
  <1>2. /\ runs' \in Seq(Run) /\ DOMAIN runs' = DOMAIN runs /\ Len(runs') = Len(runs)
        /\ \A r \in DOMAIN runs : runs'[r].ids = runs[r].ids
        /\ \A r \in DOMAIN runs \ {mem.row} : runs'[r] = runs[r]
        /\ runs'[mem.row].status = s
        /\ \A r \in DOMAIN runs : ~Expanding(r)'
        /\ OnLastRow'
    BY <1>1, RowSettled
  <1>3. mem' \in Attempt /\ Course(mem')
    BY <1>1, RestStep
  <1>4. Typed'
    BY <1>1, <1>2, <1>3 DEF Base, Typed
  <1> QED
    BY <1>1, <1>2, <1>3, <1>4 DEF Base, s

(* The preparation throws: the row fails, what it had out is lost.         *)
LEMMA PrepareThrowsStep ==
    ASSUME Base, PrepareThrows
    PROVE  /\ Base'
           /\ mem.stage = "preparing" /\ mem' = NoAttempt
           /\ DOMAIN runs' = DOMAIN runs /\ \A r \in DOMAIN runs : ~Expanding(r)'
           /\ \A r \in DOMAIN runs \ {mem.row} : runs'[r] = runs[r]
           /\ Len(runs') = Len(runs) /\ runs'[mem.row].status = "failed"
           /\ charged'.once = charged.once /\ charged'.again = charged.again
           /\ charged'.lost = charged.lost \cup UNION {batches[b].asks : b \in Out(mem.row)}
           /\ UNCHANGED <<lessons, answers, batches>> /\ used'.rewrites = used.rewrites
  <1> DEFINE gone == UNION {batches[b].asks : b \in Out(mem.row)}
  <1>1. /\ mem.stage = "preparing" /\ mem.stage # "idle" /\ mem' = NoAttempt
        /\ runs' = [runs EXCEPT ![mem.row].status = "failed"]
        /\ Event /\ Charge({}, {}, gone) /\ UNCHANGED <<lessons, answers, batches>>
    BY DEF PrepareThrows
  <1>2. gone \in SUBSET AskType
    <2>1. Out(mem.row) \subseteq DOMAIN batches
      BY <1>1 DEF Base, Typed, OnLastRow, Out, ReadIds
    <2>2. \A b \in DOMAIN batches : batches[b].asks \subseteq AskType
      BY RunsTyped DEF Base, Batch
    <2> QED
      BY <2>1, <2>2
  <1> HIDE DEF gone
  <1>3. /\ runs' \in Seq(Run) /\ DOMAIN runs' = DOMAIN runs /\ Len(runs') = Len(runs)
        /\ \A r \in DOMAIN runs : runs'[r].ids = runs[r].ids
        /\ \A r \in DOMAIN runs \ {mem.row} : runs'[r] = runs[r]
        /\ runs'[mem.row].status = "failed"
        /\ \A r \in DOMAIN runs : ~Expanding(r)'
        /\ OnLastRow'
    BY <1>1, RowSettled
  <1>4. mem' \in Attempt /\ Course(mem')
    BY <1>1, RestStep
  <1>5. /\ charged' \in [once : SUBSET AskType, again : SUBSET AskType, lost : SUBSET AskType]
        /\ charged'.once = charged.once /\ charged'.again = charged.again
        /\ charged'.lost = charged.lost \cup gone
    <2>1. {} \in SUBSET AskType /\ Typed
      BY DEF Base
    <2>2. /\ charged' \in [once : SUBSET AskType, again : SUBSET AskType, lost : SUBSET AskType]
          /\ charged'.once = charged.once \cup {}
          /\ charged'.again = charged.again \cup ({} \cap charged.once)
          /\ charged'.lost = charged.lost \cup gone
      BY <1>1, <1>2, <2>1, ChargeTyped
    <2> QED
      BY <2>2
  <1>6. used' \in [events : Nat, rewrites : [Lessons -> Nat]] /\ used'.rewrites = used.rewrites
    BY <1>1, EventTyped DEF Base
  <1>7. Typed'
    BY <1>1, <1>3, <1>4, <1>5, <1>6 DEF Base, Typed
  <1> QED
    BY <1>1, <1>3, <1>4, <1>5, <1>6, <1>7 DEF Base, gone

(* What an expansion, or a lesson pressed, asks for.                       *)
Asked == IF mem.only = 0 THEN {l \in Lessons : lessons[l].status # "ready"} ELSE {mem.only}

(* What the rows of the lessons say when the attempt begins.               *)
Prepared(n) ==
    \A l \in Lessons :
        /\ n.ledger[l].rev = lessons[l].ledger.rev
        /\ n.attempt[l] = n.ledger[l].regens
        /\ IF mem.kind = "regenerate" /\ l \in Asked
           THEN n.attempt[l] = 0 /\ n.rev[l] = lessons[l].ledger.rev + 1
           ELSE n.attempt[l] = lessons[l].ledger.regens /\ n.rev[l] = lessons[l].ledger.rev

(* The preparation takes the lessons wanted, and opens the head of them.   *)
LEMMA PrepareStep ==
    ASSUME Base, Prepare
    PROVE  /\ Base'
           /\ mem.stage = "preparing" /\ mem'.kind = mem.kind /\ mem'.only = mem.only
           /\ mem'.row = mem.row /\ ~mem'.paused
           /\ Prepared(mem') /\ mem'.wanted = Asked
           /\ \/ /\ Asked = {} /\ mem.only = 0 /\ mem'.stage = "closing" /\ mem'.phase = "done"
                 /\ mem'.tail = {}
              \/ /\ Asked # {} /\ mem'.stage = "theory" /\ mem'.phase = "replay"
                 /\ mem'.todo = mem'.group /\ mem'.group = Firsts(Asked)
                 /\ mem'.tail = Asked \ mem'.group
                 /\ mem'.written = {} /\ mem'.again = {} /\ mem'.review = Unreviewed
                 /\ mem'.failed = {}
           /\ UNCHANGED <<lessons, answers, runs, batches, charged, used>>
  <1> DEFINE g == [l \in Lessons |->
                     IF mem.kind = "regenerate" /\ l \in Asked
                     THEN [lessons[l].ledger EXCEPT !.regens = 0]
                     ELSE lessons[l].ledger]
             v == [l \in Lessons |-> g[l].rev
                     + (IF mem.kind = "regenerate" /\ l \in Asked THEN 1 ELSE 0)]
             a == [l \in Lessons |-> g[l].regens]
             t == Asked \ Firsts(Asked)
             m == [mem EXCEPT !.wanted = Asked, !.ledger = g, !.rev = v, !.attempt = a,
                              !.tail = t]
  <1>1. /\ mem.stage = "preparing"
        /\ UNCHANGED <<lessons, answers, runs, batches, charged, used>>
        /\ mem' = IF Asked = {} THEN [m EXCEPT !.stage = "closing"]
                  ELSE StartGroup(m, Firsts(Asked), TRUE)
    BY DEF Prepare, Asked
  <1>2. /\ mem \in Attempt /\ Course(mem) /\ mem.only \in Lessons \cup {0}
        /\ \A l \in Lessons : lessons[l] \in Row
    BY DEF Base, Typed, Attempt
  <1>3. Asked \in SUBSET Lessons /\ (Asked = {} => mem.only = 0)
    BY <1>2 DEF Asked
  <1>4. ASSUME NEW l \in Lessons
        PROVE  /\ g[l] \in LedgerType /\ v[l] \in Nat /\ a[l] \in 0 .. 1
               /\ g[l].rev = lessons[l].ledger.rev
               /\ a[l] = g[l].regens
               /\ IF mem.kind = "regenerate" /\ l \in Asked
                  THEN a[l] = 0 /\ v[l] = lessons[l].ledger.rev + 1
                  ELSE a[l] = lessons[l].ledger.regens /\ v[l] = lessons[l].ledger.rev
    <2>1. lessons[l].ledger \in LedgerType
      BY <1>2 DEF Row
    <2>2. CASE mem.kind = "regenerate" /\ l \in Asked
      BY <2>1, <2>2 DEF LedgerType
    <2>3. CASE ~(mem.kind = "regenerate" /\ l \in Asked)
      BY <2>1, <2>3 DEF LedgerType
    <2> QED
      BY <2>2, <2>3
  <1>5. g \in [Lessons -> LedgerType] /\ v \in [Lessons -> Nat] /\ a \in [Lessons -> 0 .. 1]
    BY <1>4
  <1>6. Firsts(Asked) \subseteq Asked /\ (Asked # {} => Firsts(Asked) # {})
    BY <1>3, FirstsBegin DEF Firsts
  <1> HIDE DEF g, v, a
  <1>7. m \in Attempt
    BY <1>2, <1>3, <1>5 DEF Attempt
  <1>8. /\ m.kind = mem.kind /\ m.only = mem.only /\ m.row = mem.row /\ m.waiting = mem.waiting
        /\ m.paused = mem.paused /\ m.phase = mem.phase /\ m.group = mem.group
        /\ m.written = mem.written /\ m.again = mem.again /\ m.todo = mem.todo
        /\ m.flying = mem.flying
        /\ m.wanted = Asked /\ m.ledger = g /\ m.rev = v /\ m.attempt = a /\ m.tail = t
    BY <1>2 DEF Attempt
  <1>9. /\ mem.phase = "done" /\ mem.group = {} /\ mem.todo = {} /\ mem.flying = {}
        /\ mem.written = {} /\ mem.again = {} /\ ~mem.paused
        /\ (mem.kind # "expand" => mem.only # 0) /\ (mem.only = 0 => ~mem.waiting)
    BY <1>1, <1>2 DEF Course, Waves
  <1> HIDE DEF m
  <1>10. CASE Asked = {}
    <2>1. mem' = [m EXCEPT !.stage = "closing"]
      BY <1>1, <1>10
    <2>2. mem' \in Attempt
      BY <1>7, <2>1 DEF Attempt, Stages
    <2>3. /\ mem'.kind = m.kind /\ mem'.only = m.only /\ mem'.row = m.row
          /\ mem'.waiting = m.waiting /\ mem'.paused = m.paused /\ mem'.phase = m.phase
          /\ mem'.group = m.group /\ mem'.written = m.written /\ mem'.again = m.again
          /\ mem'.todo = m.todo /\ mem'.flying = m.flying /\ mem'.wanted = m.wanted
          /\ mem'.ledger = m.ledger /\ mem'.rev = m.rev /\ mem'.attempt = m.attempt
          /\ mem'.tail = m.tail /\ mem'.stage = "closing"
      BY <1>7, <2>1 DEF Attempt
    <2>4. mem'.tail = {} /\ mem'.only = 0
      BY <1>3, <1>8, <1>10, <2>3
    <2>5. Course(mem')
      BY <1>8, <1>9, <2>3, <2>4 DEF Course, Going, Waves, Writing, Gates
    <2>6. Prepared(mem')
      BY <1>4, <1>8, <2>3 DEF Prepared
    <2>7. Typed' /\ OnLastRow'
      BY <1>1, <1>8, <1>9, <2>2, <2>3, TypedFrame, RowKept DEF Base, Typed
    <2> QED
      BY <1>1, <1>8, <1>9, <1>10, <2>3, <2>4, <2>5, <2>6, <2>7 DEF Base
  <1>11. CASE Asked # {}
    <2>1. mem' = StartGroup(m, Firsts(Asked), TRUE)
      BY <1>1, <1>11
    <2>2. Firsts(Asked) \in SUBSET Lessons /\ TRUE \in BOOLEAN
      BY <1>3, <1>6
    <2>3. mem' \in Attempt
      BY <1>7, <2>1, <2>2, StartGroupTyped
    <2>4. /\ SameGoal(mem', m) /\ SameText(mem', m)
          /\ mem'.paused = m.paused /\ mem'.tail = m.tail
          /\ mem'.group = Firsts(Asked) /\ mem'.watch = TRUE
          /\ mem'.written = Nobody /\ mem'.again = Nobody /\ mem'.review = Unreviewed
          /\ mem'.stage = "theory" /\ mem'.todo = Firsts(Asked) /\ mem'.flying = Nobody
          /\ mem'.failed = Nobody
          /\ mem'.phase = IF Firsts(Asked) = {} THEN "done" ELSE "replay"
      <3>1. PICK w : w = TRUE
        OBVIOUS
      <3>2. mem' = StartGroup(m, Firsts(Asked), w)
        BY <2>1, <3>1
      <3>3. /\ SameGoal(mem', m) /\ SameText(mem', m)
            /\ mem'.paused = m.paused /\ mem'.tail = m.tail
            /\ mem'.group = Firsts(Asked) /\ mem'.watch = w
            /\ mem'.written = Nobody /\ mem'.again = Nobody /\ mem'.review = Unreviewed
            /\ mem'.stage = "theory" /\ mem'.todo = Firsts(Asked) /\ mem'.flying = Nobody
            /\ mem'.failed = Nobody
            /\ mem'.phase = IF Firsts(Asked) = {} THEN "done" ELSE "replay"
        BY <1>7, <2>2, <3>2, StartGroupIs
      <3> QED
        BY <3>1, <3>3
    <2>5. mem'.phase = "replay"
      BY <1>6, <1>11, <2>4
    <2>6. mem'.only # 0 => mem'.tail = {}
      <3>1. ASSUME mem.only # 0 PROVE t = {}
        <4>1. mem.only \in Lessons /\ Asked = {mem.only}
          BY <1>2, <3>1 DEF Asked
        <4> QED
          BY <4>1, FirstsOfOne
      <3> QED
        BY <3>1, <1>8, <2>4 DEF SameGoal
    <2>7. Course(mem')
      BY <1>6, <1>8, <1>9, <2>4, <2>5, <2>6
         DEF Course, Going, Waves, Writing, Gates, SameGoal, Nobody
    <2>8. Prepared(mem')
      BY <1>4, <1>8, <2>4 DEF Prepared, SameText
    <2>9. Typed'
      BY <1>1, <2>3, TypedFrame DEF Base, Typed
    <2>10. OnLastRow'
      <3>1. mem'.row = mem.row
        BY <1>8, <2>4 DEF SameGoal
      <3> QED
        BY <1>1, <2>5, <3>1, RowKept DEF Base
    <2> QED
      BY <1>1, <1>8, <1>9, <1>11, <2>4, <2>5, <2>7, <2>8, <2>9, <2>10
         DEF Base, SameGoal, Nobody
  <1> QED
    BY <1>10, <1>11

(* What an answer, replayed or just heard, does to the attempt and to the  *)
(* lesson it is about.                                                     *)
Lands(l, says) ==
    /\ l \in mem.todo /\ mem.stage \in Waves
    /\ SameGoal(mem', mem) /\ SameGroup(mem', mem) /\ mem'.paused = mem.paused
    /\ mem'.stage = mem.stage /\ mem'.phase = mem.phase /\ mem'.batch = mem.batch
    /\ mem'.failed = mem.failed /\ mem'.again = mem.again
    /\ mem'.todo = mem.todo \ {l} /\ mem'.flying = mem.flying \ {l}
    /\ mem'.rev = mem.rev /\ mem'.attempt = mem.attempt
    /\ mem'.written = IF mem.stage = "theory" THEN mem.written \cup {l} ELSE mem.written
    /\ mem'.ledger = IF mem.stage = "theory"
                     THEN [mem.ledger EXCEPT ![l] = [@ EXCEPT !.rev = mem.rev[l]]]
                     ELSE mem.ledger
    /\ mem'.review = IF mem.stage \in Gates
                     THEN [mem.review EXCEPT ![l] = Reviewed(mem, l, says)]
                     ELSE mem.review
    /\ \A k \in Lessons \ {l} : lessons'[k] = lessons[k]
    /\ lessons'[l] =
         CASE mem.stage = "theory" ->
                [lessons[l] EXCEPT !.text = [rev |-> mem.rev[l], edited |-> FALSE],
                                   !.ledger = [mem.ledger[l] EXCEPT !.rev = mem.rev[l]],
                                   !.status = "generating"]
           [] mem.stage = "cards" ->
                [lessons[l] EXCEPT !.cards = @ + 1, !.ledger = mem.ledger[l],
                                   !.status = "qa"]
           [] OTHER -> lessons[l]

(* What Landed and RowLanded do is Lands.                                  *)
LEMMA LandStep ==
    ASSUME Base, NEW l \in mem.todo, NEW says \in Words, mem.phase # "done",
           mem' = Landed(mem, l, says), lessons' = RowLanded(mem, l)
    PROVE  /\ Lands(l, says) /\ mem' \in Attempt /\ Course(mem')
           /\ lessons' \in [Lessons -> Row]
  <1>1. /\ mem \in Attempt /\ Course(mem) /\ l \in Lessons /\ lessons \in [Lessons -> Row]
        /\ mem.stage \in Waves
    BY DEF Base, Typed, Attempt, Course
  <1>2. /\ mem' \in Attempt
        /\ SameGoal(mem', mem) /\ SameGroup(mem', mem) /\ mem'.paused = mem.paused
        /\ mem'.stage = mem.stage /\ mem'.phase = mem.phase /\ mem'.batch = mem.batch
        /\ mem'.failed = mem.failed /\ mem'.again = mem.again
        /\ mem'.todo = mem.todo \ {l} /\ mem'.flying = mem.flying \ {l}
        /\ mem'.rev = mem.rev /\ mem'.attempt = mem.attempt
    BY <1>1, LandedIs DEF Without
  <1>3. /\ mem'.written = IF mem.stage = "theory" THEN mem.written \cup {l} ELSE mem.written
        /\ mem'.ledger = IF mem.stage = "theory"
                         THEN [mem.ledger EXCEPT ![l] = [@ EXCEPT !.rev = mem.rev[l]]]
                         ELSE mem.ledger
        /\ mem'.review = IF mem.stage \in Gates
                         THEN [mem.review EXCEPT ![l] = Reviewed(mem, l, says)]
                         ELSE mem.review
    BY <1>1, LandedIs DEF WrittenBy, LedgerBy, ReviewBy
  <1>4. Lands(l, says) /\ lessons' \in [Lessons -> Row]
    <2>1. /\ lessons' \in [Lessons -> Row]
          /\ \A k \in Lessons \ {l} : lessons'[k] = lessons[k]
          /\ lessons'[l] =
               CASE mem.stage = "theory" ->
                      [lessons[l] EXCEPT !.text = [rev |-> mem.rev[l], edited |-> FALSE],
                                         !.ledger = [mem.ledger[l] EXCEPT !.rev = mem.rev[l]],
                                         !.status = "generating"]
                 [] mem.stage = "cards" ->
                      [lessons[l] EXCEPT !.cards = @ + 1, !.ledger = mem.ledger[l],
                                         !.status = "qa"]
                 [] OTHER -> lessons[l]
      BY <1>1, RowLandedTyped
    <2> QED
      BY <1>1, <1>2, <1>3, <2>1 DEF Lands
  <1>5. mem'.written \subseteq mem.written \cup {l} /\ mem.written \subseteq mem'.written
    BY <1>3
  <1>6. Course(mem')
    BY <1>1, <1>2, <1>5 DEF Course, Going, Waves, Writing, Gates, SameGoal, SameGroup
  <1> QED
    BY <1>2, <1>4, <1>6

(* An answer of ai_results lands, and nothing is paid.                     *)
LEMMA ReplayStep ==
    ASSUME Base, Replay
    PROVE  /\ Base'
           /\ \E l \in Lessons, a \in answers :
                a.ask = Ask(mem, l) /\ a.says # "bad" /\ Lands(l, a.says)
           /\ mem.phase \in {"replay", "again", "readback"}
           /\ UNCHANGED <<answers, runs, batches, charged, used>>
  <1> DEFINE l == First(Replayable)
  <1>1. /\ Replayable # {} /\ Replayable \subseteq mem.todo /\ mem.todo \subseteq Lessons
        /\ mem.phase \in {"replay", "again", "readback"} /\ mem.stage # "idle"
    BY DEF Replay, Replaying, Replayable, Base, Typed, Attempt, Course, Waves
  <1>2. l \in mem.todo /\ l \in Lessons
    BY <1>1, FirstIsOne
  <1>3. PICK a \in Stored(mem, l) : lessons' = RowLanded(mem, l) /\ mem' = Landed(mem, l, a.says)
    BY DEF Replay
  <1> HIDE DEF l
  <1>4. a \in answers /\ a.ask = Ask(mem, l) /\ a.says # "bad" /\ a.says \in Words
    BY <1>3, SaysWords DEF Stored, Base, Typed
  <1>5. /\ Lands(l, a.says) /\ mem' \in Attempt /\ Course(mem')
        /\ lessons' \in [Lessons -> Row]
    BY <1>1, <1>2, <1>3, <1>4, LandStep
  <1>6. UNCHANGED <<answers, runs, batches, charged, used>>
    BY DEF Replay
  <1>7. Typed' /\ OnLastRow'
    BY <1>1, <1>5, <1>6, TypedFrame, RowKept DEF Base, Lands, SameGoal
  <1> QED
    BY <1>1, <1>2, <1>4, <1>5, <1>6, <1>7 DEF Base

(* An answer of use stays where it is stored.                              *)
AnswersStay == \A a \in answers : a.says # "bad" => a \in answers'

(* An answer to a call lands, and is paid and stored.                      *)
LEMMA AnswerStep ==
    ASSUME Base, NEW l \in Lessons, AnswerCall(l)
    PROVE  /\ Base'
           /\ mem.phase = "calls" /\ l \in mem.flying
           /\ Ask(mem, l) \in AskType
           /\ \E says \in Says(Ask(mem, l)) :
                Lands(l, says) /\ [ask |-> Ask(mem, l), says |-> says] \in answers'
           /\ AnswersStay
           /\ charged'.once = charged.once \cup {Ask(mem, l)}
           /\ charged'.again = charged.again \cup ({Ask(mem, l)} \cap charged.once)
           /\ charged'.lost = charged.lost
           /\ UNCHANGED <<runs, batches, used>>
  <1>1. /\ mem.phase = "calls" /\ l \in mem.flying /\ l \in mem.todo /\ mem.stage \in Waves
        /\ mem.stage # "idle" /\ mem \in Attempt
    BY DEF AnswerCall, Calling, Base, Course, Waves, Typed
  <1>2. PICK says \in Says(Ask(mem, l)) :
           /\ answers' = (answers \ {Unreadable(Ask(mem, l))})
                            \cup {[ask |-> Ask(mem, l), says |-> says]}
           /\ mem' = Landed(mem, l, says)
    BY DEF AnswerCall
  <1>3. /\ lessons' = RowLanded(mem, l) /\ Charge({Ask(mem, l)}, {Ask(mem, l)}, {})
        /\ UNCHANGED <<runs, batches, used>>
    BY DEF AnswerCall
  <1>4. Ask(mem, l) \in AskType
    BY <1>1, AskTyped
  <1>5. /\ Lands(l, says) /\ mem' \in Attempt /\ Course(mem')
        /\ lessons' \in [Lessons -> Row]
    BY <1>1, <1>2, <1>3, SaysWords, LandStep
  <1>6. /\ charged' \in [once : SUBSET AskType, again : SUBSET AskType, lost : SUBSET AskType]
        /\ charged'.once = charged.once \cup {Ask(mem, l)}
        /\ charged'.again = charged.again \cup ({Ask(mem, l)} \cap charged.once)
        /\ charged'.lost = charged.lost \cup {}
    <2>1. {Ask(mem, l)} \in SUBSET AskType /\ {} \in SUBSET AskType
      BY <1>4
    <2> QED
      BY <1>3, <2>1, ChargeTyped DEF Base
  <1>7. /\ \A a \in answers' : a.ask \in AskType /\ a.says \in Says(a.ask) \cup {"bad"}
        /\ AnswersStay /\ [ask |-> Ask(mem, l), says |-> says] \in answers'
    BY <1>2, <1>4 DEF Base, Typed, AnswersStay, Unreadable
  <1>8. Typed'
    BY <1>3, <1>5, <1>6, <1>7 DEF Base, Typed
  <1>9. OnLastRow'
    BY <1>1, <1>3, <1>5, RowKept DEF Base, Lands, SameGoal
  <1> QED
    BY <1>1, <1>3, <1>4, <1>5, <1>6, <1>7, <1>8, <1>9 DEF Base

(* A step of a wave that asks nothing else and hears nothing.              *)
Waits ==
    /\ SameWork(mem', mem) /\ mem'.stage = mem.stage /\ mem.stage \in Waves
    /\ UNCHANGED <<lessons, answers>>

(* When nothing more is found: the wait, the end, the calls or a batch.    *)
LEMMA ReplayedStep ==
    ASSUME Base, Replayed
    PROVE  /\ Base' /\ Waits
           /\ mem.phase \in {"replay", "again", "readback"} /\ Replayable = {}
           /\ mem'.todo = mem.todo /\ mem'.batch = mem.batch /\ mem'.paused = mem.paused
           /\ mem'.failed = mem.failed
           /\ \/ /\ mem.phase = "replay" /\ Awaits(mem) /\ Out(mem.row) # {}
                 /\ mem'.phase = "await"
              \/ /\ ~(mem.phase = "replay" /\ Awaits(mem) /\ Out(mem.row) # {})
                 /\ \/ mem.todo = {} /\ mem'.phase = "done" /\ mem'.flying = mem.flying
                    \/ mem.todo # {} /\ mem'.phase = "calls" /\ mem'.flying = mem.todo
                    \/ /\ mem.todo # {} /\ ~mem.watch /\ mem.phase # "readback"
                       /\ mem'.phase = "submitting" /\ mem'.flying = mem.flying
           /\ UNCHANGED <<runs, batches, charged, used>>
  <1>1. /\ mem.phase \in {"replay", "again", "readback"} /\ Replayable = {}
        /\ mem.stage \in Waves /\ mem.stage # "idle" /\ mem \in Attempt /\ Course(mem)
        /\ UNCHANGED <<lessons, answers, runs, batches, charged, used>>
    BY DEF Replayed, Replaying, Base, Course, Typed, Waves
  <1>2. CASE mem.phase = "replay" /\ Awaits(mem) /\ Out(mem.row) # {}
    <2>1. mem' = [mem EXCEPT !.phase = "await"]
      BY <1>2 DEF Replayed
    <2>2. mem' \in Attempt /\ SameGoal(mem', mem) /\ SameGroup(mem', mem)
      BY <1>1, <2>1 DEF Attempt, Phases, SameGoal, SameGroup
    <2>3. SameText(mem', mem) /\ SameDone(mem', mem) /\ mem'.paused = mem.paused
      BY <1>1, <2>1 DEF Attempt, SameText, SameDone
    <2>4. /\ mem'.stage = mem.stage /\ mem'.todo = mem.todo /\ mem'.batch = mem.batch
          /\ mem'.flying = mem.flying /\ mem'.phase = "await" /\ mem'.failed = mem.failed
      BY <1>1, <2>1 DEF Attempt
    <2>5. Course(mem')
      BY <1>1, <1>2, <2>2, <2>3, <2>4
         DEF Course, Going, Waves, Writing, Gates, SameGoal, SameGroup, SameText, SameDone
    <2>6. Typed' /\ OnLastRow'
      BY <1>1, <2>2, <2>4, TypedFrame, RowKept DEF Base, Typed, SameGoal
    <2> QED
      BY <1>1, <1>2, <2>2, <2>3, <2>4, <2>5, <2>6 DEF Base, Waits, SameWork
  <1>3. CASE ~(mem.phase = "replay" /\ Awaits(mem) /\ Out(mem.row) # {})
    <2>1. mem' = Dispatched(mem)
      BY <1>3 DEF Replayed
    <2>2. /\ mem' \in Attempt /\ SameWork(mem', mem) /\ mem'.paused = mem.paused
          /\ mem'.stage = mem.stage /\ mem'.todo = mem.todo /\ mem'.batch = mem.batch
          /\ mem'.failed = mem.failed
      BY <1>1, <2>1, DispatchedIs
    <2>3. \/ mem.todo = {} /\ mem'.phase = "done" /\ mem'.flying = mem.flying
          \/ mem.todo # {} /\ mem'.phase = "calls" /\ mem'.flying = mem.todo
          \/ /\ mem.todo # {} /\ ~mem.watch /\ mem.phase # "readback"
             /\ mem'.phase = "submitting" /\ mem'.flying = mem.flying
      BY <1>1, <2>1, DispatchedIs
    <2>4. Course(mem')
      BY <1>1, <2>2, <2>3
         DEF Course, Going, Waves, Writing, Gates, SameGoal, SameGroup, SameText, SameDone,
             SameWork
    <2>5. Typed'
      BY <1>1, <2>2, TypedFrame DEF Base, Typed
    <2>6. OnLastRow'
      BY <1>1, <2>2, <2>3, RowKept DEF Base, SameWork, SameGoal
    <2> QED
      BY <1>1, <1>3, <2>2, <2>3, <2>4, <2>5, <2>6 DEF Base, Waits
  <1> QED
    BY <1>2, <1>3

(* The batches of the row are over, and ai_results is read again.          *)
LEMMA AwaitStep ==
    ASSUME Base, Await
    PROVE  /\ Base' /\ Waits
           /\ mem.phase = "await" /\ mem'.phase = "again" /\ Out(mem.row) = {}
           /\ mem'.todo = mem.todo /\ mem'.paused = mem.paused /\ mem'.flying = {}
           /\ mem'.failed = mem.failed
           /\ UNCHANGED <<runs, batches, charged, used>>
  <1>1. /\ mem.phase = "await" /\ mem.stage \in Waves /\ mem.stage # "idle"
        /\ mem \in Attempt /\ Course(mem) /\ Out(mem.row) = {}
        /\ mem' = [mem EXCEPT !.phase = "again"]
        /\ UNCHANGED <<lessons, answers, runs, batches, charged, used>>
    BY DEF Await, Base, Course, Typed, Waves
  <1>2. mem' \in Attempt /\ SameGoal(mem', mem) /\ SameGroup(mem', mem)
    BY <1>1 DEF Attempt, Phases, SameGoal, SameGroup
  <1>3. SameText(mem', mem) /\ SameDone(mem', mem) /\ mem'.paused = mem.paused
    BY <1>1 DEF Attempt, SameText, SameDone
  <1>4. /\ mem'.stage = mem.stage /\ mem'.todo = mem.todo
        /\ mem'.flying = mem.flying /\ mem'.phase = "again" /\ mem'.failed = mem.failed
    BY <1>1 DEF Attempt
  <1>5. Course(mem') /\ mem.flying = {}
    BY <1>1, <1>2, <1>3, <1>4
       DEF Course, Going, Waves, Writing, Gates, SameGoal, SameGroup, SameText, SameDone
  <1>6. Typed' /\ OnLastRow'
    BY <1>1, <1>2, <1>4, TypedFrame, RowKept DEF Base, Typed, SameGoal
  <1> QED
    BY <1>1, <1>2, <1>3, <1>4, <1>5, <1>6 DEF Base, Waits, SameWork

(* The batch of the wave is over, and ai_results is read again.            *)
LEMMA WaitOverStep ==
    ASSUME Base, WaitOver
    PROVE  /\ Base' /\ Waits
           /\ mem.phase = "waiting" /\ mem'.phase = "readback" /\ batches[mem.batch].over
           /\ mem'.todo = mem.todo /\ mem'.paused = mem.paused /\ mem'.flying = {}
           /\ mem'.failed = mem.failed
           /\ UNCHANGED <<runs, batches, charged, used>>
  <1>1. /\ mem.phase = "waiting" /\ mem.stage \in Waves /\ mem.stage # "idle"
        /\ mem \in Attempt /\ Course(mem) /\ batches[mem.batch].over
        /\ mem' = [mem EXCEPT !.phase = "readback"]
        /\ UNCHANGED <<lessons, answers, runs, batches, charged, used>>
    BY DEF WaitOver, Ended, Base, Course, Typed, Waves
  <1>2. mem' \in Attempt /\ SameGoal(mem', mem) /\ SameGroup(mem', mem)
    BY <1>1 DEF Attempt, Phases, SameGoal, SameGroup
  <1>3. SameText(mem', mem) /\ SameDone(mem', mem) /\ mem'.paused = mem.paused
    BY <1>1 DEF Attempt, SameText, SameDone
  <1>4. /\ mem'.stage = mem.stage /\ mem'.todo = mem.todo
        /\ mem'.flying = mem.flying /\ mem'.phase = "readback" /\ mem'.failed = mem.failed
    BY <1>1 DEF Attempt
  <1>5. Course(mem') /\ mem.flying = {}
    BY <1>1, <1>2, <1>3, <1>4
       DEF Course, Going, Waves, Writing, Gates, SameGoal, SameGroup, SameText, SameDone
  <1>6. Typed' /\ OnLastRow'
    BY <1>1, <1>2, <1>4, TypedFrame, RowKept DEF Base, Typed, SameGoal
  <1> QED
    BY <1>1, <1>2, <1>3, <1>4, <1>5, <1>6 DEF Base, Waits, SameWork

(* A call fails: its lesson is no longer asked about, and what its attempts*)
(* were billed buys nothing.                                               *)
LEMMA FailStep ==
    ASSUME Base, NEW l \in Lessons, FailCall(l)
    PROVE  /\ Base' /\ Waits
           /\ mem.phase = "calls" /\ mem'.phase = "calls" /\ l \in mem.todo
           /\ mem'.todo = mem.todo \ {l} /\ mem'.flying = mem.flying \ {l}
           /\ mem'.failed = mem.failed \cup {l} /\ mem'.paused = mem.paused
           /\ l \in mem.flying /\ charged'.once = charged.once /\ charged'.lost = charged.lost
           /\ charged'.again \subseteq charged.again \cup ({Ask(mem, l)} \cap charged.once)
           /\ UNCHANGED <<runs, batches>> /\ used'.rewrites = used.rewrites
  <1>1. /\ mem.phase = "calls" /\ mem.stage \in Waves /\ mem.stage # "idle"
        /\ mem \in Attempt /\ Course(mem) /\ l \in mem.flying /\ l \in mem.todo /\ Event
        /\ mem' = [mem EXCEPT !.todo = @ \ {l}, !.flying = @ \ {l}, !.failed = @ \cup {l}]
        /\ UNCHANGED <<lessons, answers, runs, batches>>
    BY DEF FailCall, Calling, Base, Course, Typed, Waves
  <1>2. mem' \in Attempt
    BY <1>1 DEF Attempt
  <1>3. SameGoal(mem', mem) /\ SameGroup(mem', mem)
    BY <1>1 DEF Attempt, SameGoal, SameGroup
  <1>4. SameText(mem', mem) /\ SameDone(mem', mem) /\ mem'.paused = mem.paused
    BY <1>1 DEF Attempt, SameText, SameDone
  <1>5. /\ mem'.stage = mem.stage /\ mem'.todo = mem.todo \ {l} /\ mem'.phase = "calls"
        /\ mem'.flying = mem.flying \ {l} /\ mem'.failed = mem.failed \cup {l}
    BY <1>1 DEF Attempt
  <1>6. Course(mem')
    BY <1>1, <1>3, <1>4, <1>5
       DEF Course, Going, Waves, Writing, Gates, SameGoal, SameGroup, SameText, SameDone
  <1>7. used' \in [events : Nat, rewrites : [Lessons -> Nat]] /\ used'.rewrites = used.rewrites
    BY <1>1, EventTyped DEF Base
  <1>8. PICK billed \in SUBSET {Ask(mem, l)} : Charge(billed, {}, {})
    BY DEF FailCall
  <1>9. /\ charged' \in [once : SUBSET AskType, again : SUBSET AskType, lost : SUBSET AskType]
        /\ charged'.once = charged.once /\ charged'.lost = charged.lost
        /\ charged'.again = charged.again \cup (billed \cap charged.once)
    <2>1. Ask(mem, l) \in AskType
      BY <1>1, AskTyped
    <2>2. billed \in SUBSET AskType /\ {} \in SUBSET AskType
      BY <2>1
    <2>3. /\ charged' \in [once : SUBSET AskType, again : SUBSET AskType, lost : SUBSET AskType]
          /\ charged'.once = charged.once \cup {} /\ charged'.lost = charged.lost \cup {}
          /\ charged'.again = charged.again \cup (billed \cap charged.once)
      BY <1>8, <2>2, ChargeTyped DEF Base
    <2> QED
      BY <2>3
  <1>10. Typed' /\ OnLastRow'
    BY <1>1, <1>2, <1>3, <1>5, <1>7, <1>9, RowKept DEF Base, Typed, SameGoal
  <1> QED
    BY <1>1, <1>3, <1>4, <1>5, <1>6, <1>7, <1>9, <1>10 DEF Base, Waits, SameWork

(* The budget refuses a call: the attempt is paused.                       *)
LEMMA RefuseStep ==
    ASSUME Base, NEW l \in Lessons, RefuseCall(l)
    PROVE  /\ Base' /\ Waits
           /\ mem.phase = "calls" /\ mem'.phase = "calls"
           /\ mem'.todo = mem.todo /\ mem'.flying = mem.flying \ {l}
           /\ mem'.failed = mem.failed /\ mem'.paused
           /\ UNCHANGED <<runs, batches, charged>> /\ used'.rewrites = used.rewrites
  <1>1. /\ mem.phase = "calls" /\ mem.stage \in Waves /\ mem.stage # "idle"
        /\ mem \in Attempt /\ Course(mem) /\ l \in mem.flying /\ Event
        /\ mem' = [mem EXCEPT !.flying = @ \ {l}, !.paused = TRUE]
        /\ UNCHANGED <<lessons, answers, runs, batches, charged>>
    BY DEF RefuseCall, Calling, Base, Course, Typed, Waves
  <1>2. mem' \in Attempt
    BY <1>1 DEF Attempt
  <1>3. SameGoal(mem', mem) /\ SameGroup(mem', mem)
    BY <1>1 DEF Attempt, SameGoal, SameGroup
  <1>4. SameText(mem', mem) /\ SameDone(mem', mem) /\ mem'.paused
    BY <1>1 DEF Attempt, SameText, SameDone
  <1>5. /\ mem'.stage = mem.stage /\ mem'.todo = mem.todo /\ mem'.phase = "calls"
        /\ mem'.flying = mem.flying \ {l} /\ mem'.failed = mem.failed
    BY <1>1 DEF Attempt
  <1>6. Course(mem')
    BY <1>1, <1>3, <1>4, <1>5
       DEF Course, Going, Waves, Writing, Gates, SameGoal, SameGroup, SameText, SameDone
  <1>7. used' \in [events : Nat, rewrites : [Lessons -> Nat]] /\ used'.rewrites = used.rewrites
    BY <1>1, EventTyped DEF Base
  <1>8. Typed' /\ OnLastRow'
    BY <1>1, <1>2, <1>3, <1>5, <1>7, RowKept DEF Base, Typed, SameGoal
  <1> QED
    BY <1>1, <1>3, <1>4, <1>5, <1>6, <1>7, <1>8 DEF Base, Waits, SameWork

(* A new batch asks for what is left to do.                                *)
LEMMA SubmitStep ==
    ASSUME Base, Submit
    PROVE  /\ Base' /\ Waits
           /\ mem.phase = "submitting" /\ mem'.phase = "booking"
           /\ mem'.todo = mem.todo /\ mem'.paused = mem.paused /\ mem'.flying = {}
           /\ mem'.failed = mem.failed
           /\ mem'.batch = Len(batches) + 1
           /\ DOMAIN batches' = DOMAIN batches \cup {mem'.batch} /\ mem'.batch \notin DOMAIN batches
           /\ \A b \in DOMAIN batches : batches'[b] = batches[b]
           /\ batches'[mem'.batch].asks = {ask \in {Ask(mem, l) : l \in mem.todo} : ~Answered(ask)}
           /\ batches'[mem'.batch].over <=> batches'[mem'.batch].asks = {}
           /\ UNCHANGED <<runs, charged, used>>
  <1> DEFINE asks == {ask \in {Ask(mem, l) : l \in mem.todo} : ~Answered(ask)}
             e == [asks |-> asks, over |-> asks = {}]
  <1>1. /\ mem.phase = "submitting" /\ mem.stage \in Waves /\ mem.stage # "idle"
        /\ mem \in Attempt /\ Course(mem) /\ batches' = Append(batches, e)
        /\ mem' = [mem EXCEPT !.phase = "booking", !.batch = Len(batches')]
        /\ UNCHANGED <<lessons, answers, runs, charged, used>>
    BY DEF Submit, Base, Course, Typed, Waves
  <1>2. e \in Batch /\ e.asks = asks /\ (e.over <=> asks = {})
    <2>1. \A l \in mem.todo : Ask(mem, l) \in AskType
      BY <1>1, AskTyped DEF Attempt
    <2> QED
      BY <2>1 DEF Batch
  <1>3. batches \in Seq(Batch) /\ Len(batches) \in Nat /\ DOMAIN batches = 1 .. Len(batches)
    BY RunsTyped DEF Base, Typed
  <1> HIDE DEF e
  <1>4. /\ batches' \in Seq(Batch) /\ Len(batches') = Len(batches) + 1
        /\ \A b \in 1 .. Len(batches) : batches'[b] = batches[b]
        /\ batches'[Len(batches) + 1] = e
    BY <1>1, <1>2, <1>3, AppendProperties
  <1>5. DOMAIN batches' = 1 .. Len(batches) + 1
    BY <1>4, LenProperties
  <1>6. mem' \in Attempt /\ mem'.batch = Len(batches) + 1
    <2>1. Len(batches') \in Nat /\ Len(batches') = Len(batches) + 1
      BY <1>3, <1>4
    <2>2. mem' \in Attempt
      BY <1>1, <2>1 DEF Attempt, Phases
    <2>3. mem'.batch = Len(batches')
      BY <1>1 DEF Attempt
    <2> QED
      BY <2>1, <2>2, <2>3
  <1>7. SameGoal(mem', mem) /\ SameGroup(mem', mem)
    BY <1>1 DEF Attempt, SameGoal, SameGroup
  <1>8. SameText(mem', mem) /\ SameDone(mem', mem) /\ mem'.paused = mem.paused
    BY <1>1 DEF Attempt, SameText, SameDone
  <1>9. /\ mem'.stage = mem.stage /\ mem'.todo = mem.todo
        /\ mem'.flying = mem.flying /\ mem'.phase = "booking" /\ mem'.failed = mem.failed
    BY <1>1 DEF Attempt
  <1>10. Course(mem') /\ mem.flying = {}
    BY <1>1, <1>7, <1>8, <1>9
       DEF Course, Going, Waves, Writing, Gates, SameGoal, SameGroup, SameText, SameDone
  <1>11. \A r \in DOMAIN runs : runs[r].ids \subseteq DOMAIN batches'
    BY <1>3, <1>5 DEF Base, Typed
  <1>12. Typed'
    BY <1>1, <1>4, <1>6, <1>11 DEF Base, Typed
  <1>13. OnLastRow'
    BY <1>1, <1>3, <1>5, <1>6, <1>7 DEF Base, OnLastRow, Expanding, SameGoal
  <1> QED
    BY <1>1, <1>2, <1>3, <1>4, <1>5, <1>6, <1>7, <1>8, <1>9, <1>10, <1>12, <1>13
       DEF Base, Waits, SameWork

(* A batch that cannot be submitted: calls instead, or a pause.            *)
LEMMA SubmitFailsStep ==
    ASSUME Base, SubmitFails
    PROVE  /\ Base' /\ Waits
           /\ mem.phase = "submitting" /\ mem'.todo = mem.todo /\ mem'.failed = mem.failed
           /\ \/ mem'.phase = "calls" /\ mem'.paused = mem.paused /\ mem'.flying = mem.todo
              \/ mem'.phase = "done" /\ mem'.paused /\ mem'.flying = {}
           /\ UNCHANGED <<runs, batches, charged>> /\ used'.rewrites = used.rewrites
  <1>1. /\ mem.phase = "submitting" /\ mem.stage \in Waves /\ mem.stage # "idle"
        /\ mem \in Attempt /\ Course(mem) /\ Event
        /\ UNCHANGED <<lessons, answers, runs, batches, charged>>
    BY DEF SubmitFails, Base, Course, Typed, Waves
  <1>2. \/ mem' = [mem EXCEPT !.phase = "calls", !.flying = mem.todo]
        \/ mem' = [mem EXCEPT !.phase = "done", !.paused = TRUE]
    BY DEF SubmitFails
  <1>3. /\ mem' \in Attempt /\ SameGoal(mem', mem) /\ SameGroup(mem', mem)
        /\ SameText(mem', mem) /\ SameDone(mem', mem)
        /\ mem'.stage = mem.stage /\ mem'.todo = mem.todo /\ mem'.failed = mem.failed
        /\ \/ mem'.phase = "calls" /\ mem'.paused = mem.paused /\ mem'.flying = mem.todo
           \/ mem'.phase = "done" /\ mem'.paused /\ mem'.flying = mem.flying
    <2>1. CASE mem' = [mem EXCEPT !.phase = "calls", !.flying = mem.todo]
      <3>1. mem' \in Attempt /\ SameGoal(mem', mem) /\ SameGroup(mem', mem)
        BY <1>1, <2>1 DEF Attempt, Phases, SameGoal, SameGroup
      <3>2. SameText(mem', mem) /\ SameDone(mem', mem)
        BY <1>1, <2>1 DEF Attempt, SameText, SameDone
      <3>3. /\ mem'.stage = mem.stage /\ mem'.todo = mem.todo /\ mem'.failed = mem.failed
            /\ mem'.phase = "calls" /\ mem'.paused = mem.paused /\ mem'.flying = mem.todo
        BY <1>1, <2>1 DEF Attempt
      <3> QED
        BY <3>1, <3>2, <3>3
    <2>2. CASE mem' = [mem EXCEPT !.phase = "done", !.paused = TRUE]
      <3>1. mem' \in Attempt /\ SameGoal(mem', mem) /\ SameGroup(mem', mem)
        BY <1>1, <2>2 DEF Attempt, Phases, SameGoal, SameGroup
      <3>2. SameText(mem', mem) /\ SameDone(mem', mem)
        BY <1>1, <2>2 DEF Attempt, SameText, SameDone
      <3>3. /\ mem'.stage = mem.stage /\ mem'.todo = mem.todo /\ mem'.failed = mem.failed
            /\ mem'.phase = "done" /\ mem'.paused /\ mem'.flying = mem.flying
        BY <1>1, <2>2 DEF Attempt
      <3> QED
        BY <3>1, <3>2, <3>3
    <2> QED
      BY <1>2, <2>1, <2>2
  <1>4. Course(mem') /\ mem.flying = {}
    BY <1>1, <1>3
       DEF Course, Going, Waves, Writing, Gates, SameGoal, SameGroup, SameText, SameDone
  <1>5. used' \in [events : Nat, rewrites : [Lessons -> Nat]] /\ used'.rewrites = used.rewrites
    BY <1>1, EventTyped DEF Base
  <1>6. Typed' /\ OnLastRow'
    BY <1>1, <1>3, <1>5, RowKept DEF Base, Typed, SameGoal
  <1> QED
    BY <1>1, <1>3, <1>4, <1>5, <1>6 DEF Base, Waits, SameWork

(* The id of the batch is added to the row in memory.                      *)
LEMMA BookStep ==
    ASSUME Base, Book
    PROVE  /\ Base' /\ Waits
           /\ mem.phase = "booking" /\ mem'.phase = "waiting" /\ mem'.batch = mem.batch
           /\ mem'.todo = mem.todo /\ mem'.paused = mem.paused /\ mem'.flying = {}
           /\ mem'.failed = mem.failed
           /\ DOMAIN runs' = DOMAIN runs /\ Len(runs') = Len(runs)
           /\ runs'[mem.row].ids = runs[mem.row].ids \cup {mem.batch}
           /\ runs'[mem.row].status = runs[mem.row].status
           /\ \A r \in DOMAIN runs \ {mem.row} : runs'[r] = runs[r]
           /\ UNCHANGED <<batches, charged, used>>
  <1> DEFINE e == [runs[mem.row] EXCEPT !.ids = @ \cup {mem.batch}]
  <1>1. /\ mem.phase = "booking" /\ mem.stage \in Waves /\ mem.stage # "idle"
        /\ mem \in Attempt /\ Course(mem)
        /\ runs' = [runs EXCEPT ![mem.row] = e]
        /\ mem' = [mem EXCEPT !.phase = "waiting"]
        /\ UNCHANGED <<lessons, answers, batches, charged, used>>
    BY DEF Book, Base, Course, Typed, Waves
  <1>2. /\ mem.row \in DOMAIN runs /\ mem.row = Len(runs) /\ Expanding(mem.row)
        /\ mem.batch \in DOMAIN batches
    BY <1>1 DEF Base, OnLastRow
  <1>3. runs[mem.row] \in Run /\ mem.batch \in Nat
    BY <1>1, <1>2, RunsTyped DEF Base, Attempt
  <1>4. e \in Run /\ e.ids = runs[mem.row].ids \cup {mem.batch} /\ e.status = runs[mem.row].status
    BY <1>3 DEF Run
  <1> HIDE DEF e
  <1>5. /\ runs' \in Seq(Run) /\ Len(runs') = Len(runs) /\ DOMAIN runs' = DOMAIN runs
        /\ runs'[mem.row] = e
        /\ \A q \in DOMAIN runs \ {mem.row} : runs'[q] = runs[q]
    BY <1>1, <1>2, <1>4, RowChanged DEF Base
  <1>6. mem' \in Attempt /\ SameGoal(mem', mem) /\ SameGroup(mem', mem)
    BY <1>1 DEF Attempt, Phases, SameGoal, SameGroup
  <1>7. SameText(mem', mem) /\ SameDone(mem', mem) /\ mem'.paused = mem.paused
    BY <1>1 DEF Attempt, SameText, SameDone
  <1>8. /\ mem'.stage = mem.stage /\ mem'.todo = mem.todo /\ mem'.batch = mem.batch
        /\ mem'.flying = mem.flying /\ mem'.phase = "waiting" /\ mem'.failed = mem.failed
    BY <1>1 DEF Attempt
  <1>9. Course(mem') /\ mem.flying = {}
    BY <1>1, <1>6, <1>7, <1>8
       DEF Course, Going, Waves, Writing, Gates, SameGoal, SameGroup, SameText, SameDone
  <1>10. \A r \in DOMAIN runs' : runs'[r].ids \subseteq DOMAIN batches'
    BY <1>1, <1>2, <1>4, <1>5 DEF Base, Typed
  <1>11. Typed'
    BY <1>1, <1>5, <1>6, <1>10 DEF Base, Typed
  <1>12. OnLastRow'
    BY <1>1, <1>2, <1>4, <1>5, <1>6, <1>8 DEF Base, OnLastRow, Expanding, SameGoal
  <1> QED
    BY <1>1, <1>4, <1>5, <1>6, <1>7, <1>8, <1>9, <1>11, <1>12
       DEF Base, Waits, SameWork

(* A batch ends: what it answered is paid and stored, and no attempt moves.*)
LEMMA BatchEndsStep ==
    ASSUME Base, NEW b \in DOMAIN batches, BatchEnds(b)
    PROVE  /\ Base'
           /\ ~batches[b].over
           /\ mem.stage = "idle" \/ mem.phase \in {"await", "waiting", "calls"}
           /\ DOMAIN batches' = DOMAIN batches /\ batches'[b].over
           /\ \A c \in DOMAIN batches : batches'[c].asks = batches[c].asks
           /\ \A c \in DOMAIN batches \ {b} : batches'[c] = batches[c]
           /\ \E done \in SUBSET batches[b].asks, kept \in SUBSET batches[b].asks :
                /\ charged'.once = charged.once \cup kept
                /\ charged'.again = charged.again \cup (done \cap charged.once)
                /\ \A ask \in kept : Usable(ask)'
           /\ charged'.lost = charged.lost
           /\ AnswersStay
           /\ UNCHANGED <<lessons, runs, mem>> /\ used'.rewrites = used.rewrites
  <1> DEFINE e == [batches[b] EXCEPT !.over = TRUE]
  <1>1. /\ ~batches[b].over /\ batches' = [batches EXCEPT ![b] = e]
        /\ mem.stage = "idle" \/ mem.phase \in {"await", "waiting", "calls"}
        /\ UNCHANGED <<lessons, runs, mem>>
    BY DEF BatchEnds
  <1>2. batches[b] \in Batch /\ batches \in Seq(Batch)
    BY RunsTyped DEF Base, Typed
  <1>3. e \in Batch /\ e.asks = batches[b].asks /\ e.over
    BY <1>2 DEF Batch
  <1> HIDE DEF e
  <1>4. /\ batches' \in Seq(Batch) /\ DOMAIN batches' = DOMAIN batches /\ batches'[b] = e
        /\ \A c \in DOMAIN batches \ {b} : batches'[c] = batches[c]
    BY <1>1, <1>2, <1>3, ExceptSeq, LenProperties
  <1>5. PICK done \in SUBSET batches[b].asks :
          \E bad \in SUBSET done, says \in [done -> UNION {Says(a) : a \in done}] :
            LET new == {a \in done : ~Answered(a)}
            IN  /\ IF done = batches[b].asks /\ bad = {} THEN UNCHANGED used ELSE Event
                /\ \A a \in done : says[a] \in Says(a)
                /\ Charge(done, new \ bad, {})
                /\ answers' = answers \cup {[ask |-> a, says |-> says[a]] : a \in new \ bad}
                                     \cup {Unreadable(a) : a \in new \cap bad}
    BY DEF BatchEnds
  <1> DEFINE new == {a \in done : ~Answered(a)}
  <1>12. PICK bad \in SUBSET done, says \in [done -> UNION {Says(a) : a \in done}] :
          /\ IF done = batches[b].asks /\ bad = {} THEN UNCHANGED used ELSE Event
          /\ \A a \in done : says[a] \in Says(a)
          /\ Charge(done, new \ bad, {})
          /\ answers' = answers \cup {[ask |-> a, says |-> says[a]] : a \in new \ bad}
                               \cup {Unreadable(a) : a \in new \cap bad}
    BY <1>5
  <1> DEFINE kept == new \ bad
  <1>6. done \in SUBSET AskType /\ kept \in SUBSET done
    BY <1>2 DEF Batch
  <1>7. /\ charged' \in [once : SUBSET AskType, again : SUBSET AskType, lost : SUBSET AskType]
        /\ charged'.once = charged.once \cup kept
        /\ charged'.again = charged.again \cup (done \cap charged.once)
        /\ charged'.lost = charged.lost
    <2>1. {} \in SUBSET AskType
      OBVIOUS
    <2>3. kept \in SUBSET AskType /\ Charge(done, kept, {})
      BY <1>6, <1>12
    <2> HIDE DEF kept
    <2>2. /\ charged' \in [once : SUBSET AskType, again : SUBSET AskType, lost : SUBSET AskType]
          /\ charged'.once = charged.once \cup kept
          /\ charged'.again = charged.again \cup (done \cap charged.once)
          /\ charged'.lost = charged.lost \cup {}
      BY <1>6, <2>1, <2>3, ChargeTyped DEF Base
    <2> QED
      BY <2>2
  <1>8. /\ \A a \in answers' : a.ask \in AskType /\ a.says \in Says(a.ask) \cup {"bad"}
        /\ AnswersStay
        /\ \A ask \in kept : Usable(ask)'
    <2>1. \A a \in answers' :
            \/ a \in answers
            \/ a.ask \in done /\ (a.says = says[a.ask] \/ a.says = "bad")
      BY <1>12 DEF Unreadable
    <2>2. \A a \in answers : a.ask \in AskType /\ a.says \in Says(a.ask) \cup {"bad"}
      BY DEF Base, Typed
    <2>3. \A a \in answers' : a.ask \in AskType /\ a.says \in Says(a.ask) \cup {"bad"}
      BY <1>6, <1>12, <2>1, <2>2
    <2>4. ASSUME NEW ask \in kept PROVE Usable(ask)'
      <3>1. [ask |-> ask, says |-> says[ask]] \in answers' /\ ask \in done
        BY <1>12
      <3>2. says[ask] # "bad"
        BY <1>12, <3>1, SaysWords DEF Words
      <3> QED
        BY <3>1, <3>2 DEF Usable
    <2>5. AnswersStay
      BY <1>12 DEF AnswersStay
    <2> QED
      BY <2>3, <2>4, <2>5
  <1>9. used' \in [events : Nat, rewrites : [Lessons -> Nat]] /\ used'.rewrites = used.rewrites
    BY <1>12, EventTyped DEF Base, Typed
  <1>10. Typed'
    BY <1>1, <1>4, <1>7, <1>8, <1>9 DEF Base, Typed
  <1>11. Course(mem') /\ OnLastRow'
    BY <1>1, <1>4 DEF Base, OnLastRow, Expanding
  <1> QED
    BY <1>1, <1>3, <1>4, <1>6, <1>7, <1>8, <1>9, <1>10, <1>11 DEF Base

(* A crash forgets the attempt; rows, answers and batches stay.            *)
LEMMA CrashStep ==
    ASSUME Base, Crash
    PROVE  /\ Base'
           /\ mem.stage # "idle" /\ mem' = NoAttempt
           /\ charged'.once = charged.once
           /\ charged'.again \subseteq
                charged.again \cup ({Ask(mem, l) : l \in mem.flying} \cap charged.once)
           /\ charged'.lost = charged.lost \cup
                (IF mem.phase = "booking" THEN batches[mem.batch].asks ELSE {})
           /\ UNCHANGED <<lessons, answers, runs, batches>> /\ used'.rewrites = used.rewrites
  <1> DEFINE more == IF mem.phase = "booking" THEN batches[mem.batch].asks ELSE {}
  <1>1. /\ mem.stage # "idle" /\ mem' = NoAttempt /\ Event
        /\ UNCHANGED <<lessons, answers, runs, batches>>
        /\ \E heard \in SUBSET {Ask(mem, l) : l \in mem.flying} : Charge(heard, {}, more)
    BY DEF Crash
  <1>2. more \in SUBSET AskType
    <2>1. mem.phase = "booking" => batches[mem.batch] \in Batch
      BY RunsTyped DEF Base, OnLastRow
    <2> QED
      BY <2>1 DEF Batch
  <1>3. \A l \in mem.flying : Ask(mem, l) \in AskType
    <2>1. ASSUME NEW l \in mem.flying PROVE Ask(mem, l) \in AskType
      <3>1. mem \in Attempt /\ mem.stage \in Waves /\ l \in Lessons
        BY DEF Base, Typed, Attempt, Course
      <3> QED
        BY <3>1, AskTyped
    <2> QED
      BY <2>1
  <1> HIDE DEF more
  <1>4. PICK heard \in SUBSET {Ask(mem, l) : l \in mem.flying} : Charge(heard, {}, more)
    BY <1>1
  <1>5. heard \in SUBSET AskType /\ {} \in SUBSET AskType
    BY <1>3
  <1>6. /\ charged' \in [once : SUBSET AskType, again : SUBSET AskType, lost : SUBSET AskType]
        /\ charged'.once = charged.once \cup {}
        /\ charged'.again = charged.again \cup (heard \cap charged.once)
        /\ charged'.lost = charged.lost \cup more
    BY <1>2, <1>4, <1>5, ChargeTyped DEF Base
  <1>7. used' \in [events : Nat, rewrites : [Lessons -> Nat]] /\ used'.rewrites = used.rewrites
    BY <1>1, EventTyped DEF Base
  <1>8. /\ mem' \in Attempt /\ Course(mem') /\ mem'.stage = "idle" /\ mem'.phase = "done"
    BY <1>1, RestStep
  <1>9. Typed'
    BY <1>1, <1>6, <1>7, <1>8 DEF Base, Typed
  <1>10. OnLastRow'
    BY <1>1, <1>8 DEF Base, OnLastRow, Expanding
  <1> QED
    BY <1>1, <1>6, <1>7, <1>8, <1>9, <1>10 DEF Base, more

(* The end of a wave, and what follows it.                                 *)
LEMMA WaveOverMeans ==
    ASSUME Base, WaveOver, mem.stage \in Waves
    PROVE  /\ mem.flying = {} /\ (mem.paused \/ mem.todo = {})
           /\ mem.phase \in {"done", "calls"} /\ mem.again = {} /\ Going(mem)
           /\ mem.stage # "idle" /\ mem \in Attempt /\ Course(mem)
  BY DEF WaveOver, Calling, Base, Course, Going, Waves, Typed

Alike(n, m) ==
    /\ SameGoal(n, m) /\ SameGroup(n, m) /\ SameText(n, m)
    /\ n.written = m.written /\ n.again = m.again /\ n.paused = m.paused

(* A wave opens for lessons that are written, and the course is kept.      *)
LEMMA OpensStep ==
    ASSUME Base, NEW m \in Attempt, Alike(m, mem), NEW stage \in Waves,
           NEW asked \in SUBSET mem.written, mem' = Opened(m, stage, asked),
           mem.again = {}, Going(mem), runs' = runs, batches' = batches
    PROVE  /\ Alike(mem', mem) /\ mem'.review = m.review
           /\ mem'.stage = stage /\ mem'.todo = asked /\ mem'.flying = {} /\ mem'.failed = {}
           /\ mem'.phase \in {"done", "replay"}
           /\ mem' \in Attempt /\ Course(mem') /\ OnLastRow'
  <1>1. mem \in Attempt /\ Course(mem) /\ OnLastRow /\ mem.stage # "idle" /\ mem.stage # "preparing"
    BY DEF Base, Typed, Going
  <1>2. stage \in Stages /\ asked \in SUBSET Lessons
    BY <1>1 DEF Stages, Attempt
  <1>3. /\ mem' \in Attempt
        /\ SameGoal(mem', m) /\ SameGroup(mem', m) /\ SameText(mem', m) /\ SameDone(mem', m)
        /\ mem'.paused = m.paused
        /\ mem'.stage = stage /\ mem'.todo = asked /\ mem'.flying = Nobody
        /\ mem'.failed = Nobody /\ mem'.batch = 0
        /\ mem'.phase = IF asked = {} THEN "done" ELSE "replay"
    BY <1>2, OpenedIs
  <1>4. Alike(mem', mem) /\ mem'.review = m.review
    BY <1>3 DEF Alike, SameGoal, SameGroup, SameText, SameDone
  <1>5. Course(mem')
    BY <1>1, <1>3, <1>4
       DEF Course, Going, Waves, Writing, Gates, Alike, SameGoal, SameGroup, SameText, Nobody
  <1>6. OnLastRow'
    BY <1>1, <1>3, <1>4, RowKept DEF Alike, SameGoal
  <1> QED
    BY <1>3, <1>4, <1>5, <1>6 DEF Nobody

(* A wave of P6: the lessons without claims have their gate and are not    *)
(* asked about; nothing else of what is known of a lesson changes.         *)
Skipped(m, asked) ==
    [m EXCEPT !.review = [l \in Lessons |->
        IF l \in asked /\ ~HasClaims(m, l)
        THEN [m.review[l] EXCEPT !.gate = TRUE, !.faith = "none"] ELSE m.review[l]]]

LEMMA SkippedIs ==
    ASSUME NEW m \in Attempt, NEW asked \in SUBSET Lessons
    PROVE  LET n == Skipped(m, asked)
           IN  /\ n \in Attempt /\ Alike(n, m)
               /\ \A l \in Lessons :
                    /\ n.review[l].edited = m.review[l].edited
                    /\ n.review[l].failed = m.review[l].failed
                    /\ n.review[l].gate =>
                         m.review[l].gate \/ <<l, m.rev[l], m.review[l].edited>> \in Claimless
  <1> DEFINE n == Skipped(m, asked)
             view(l) == IF l \in asked /\ ~HasClaims(m, l)
                        THEN [m.review[l] EXCEPT !.gate = TRUE, !.faith = "none"]
                        ELSE m.review[l]
             views == [l \in Lessons |-> view(l)]
  <1>1. n = [m EXCEPT !.review = views]
    BY DEF Skipped
  <1>2. m.review \in [Lessons -> Opinion]
    BY DEF Attempt
  <1>3. ASSUME NEW l \in Lessons
        PROVE  /\ view(l) \in Opinion /\ view(l).edited = m.review[l].edited
               /\ view(l).failed = m.review[l].failed
               /\ view(l).gate =>
                    m.review[l].gate \/ <<l, m.rev[l], m.review[l].edited>> \in Claimless
    <2>1. m.review[l] \in Opinion
      BY <1>2
    <2>2. CASE l \in asked /\ ~HasClaims(m, l)
      <3>1. view(l) = [m.review[l] EXCEPT !.gate = TRUE, !.faith = "none"]
        BY <2>2
      <3> HIDE DEF view
      <3>2. /\ view(l) \in Opinion /\ view(l).edited = m.review[l].edited
            /\ view(l).failed = m.review[l].failed
        BY <2>1, <3>1 DEF Opinion
      <3> QED
        BY <2>2, <3>2 DEF HasClaims
    <2>3. CASE ~(l \in asked /\ ~HasClaims(m, l))
      <3>1. view(l) = m.review[l]
        BY <2>3
      <3> QED
        BY <2>1, <3>1
    <2> QED
      BY <2>2, <2>3
  <1> HIDE DEF view
  <1>4. views \in [Lessons -> Opinion] /\ \A l \in Lessons : views[l] = view(l)
    BY <1>3
  <1> HIDE DEF n, views
  <1>5. n \in Attempt /\ n.review = views
    BY <1>1, <1>4 DEF Attempt
  <1>6. Alike(n, m)
    BY <1>1 DEF Attempt, Alike, SameGoal, SameGroup, SameText
  <1> QED
    BY <1>3, <1>4, <1>5, <1>6 DEF n

(* A wave of P6 opens for lessons that are written.                        *)
LEMMA VerifyingStep ==
    ASSUME Base, NEW m \in Attempt, Alike(m, mem), NEW stage \in Waves,
           NEW asked \in SUBSET mem.written, mem' = Verifying(m, stage, asked),
           mem.again = {}, Going(mem), runs' = runs, batches' = batches
    PROVE  /\ Alike(mem', mem)
           /\ mem'.stage = stage /\ mem'.todo \subseteq asked
           /\ mem'.phase \in {"done", "replay"}
           /\ mem' \in Attempt /\ Course(mem') /\ OnLastRow'
           /\ \A l \in Lessons :
                /\ mem'.review[l].edited = m.review[l].edited
                /\ mem'.review[l].failed = m.review[l].failed
                /\ mem'.review[l].gate =>
                     m.review[l].gate \/ <<l, mem.rev[l], m.review[l].edited>> \in Claimless
  <1> DEFINE n == Skipped(m, asked)
             claiming == {l \in asked : HasClaims(m, l)}
  <1>1. mem' = Opened(n, stage, claiming)
    BY DEF Verifying, Skipped
  <1>2. asked \in SUBSET Lessons /\ claiming \in SUBSET mem.written /\ claiming \subseteq asked
    BY DEF Base, Typed, Attempt
  <1>3. /\ n \in Attempt /\ Alike(n, m)
        /\ \A l \in Lessons :
             /\ n.review[l].edited = m.review[l].edited
             /\ n.review[l].failed = m.review[l].failed
             /\ n.review[l].gate =>
                  m.review[l].gate \/ <<l, m.rev[l], m.review[l].edited>> \in Claimless
    BY <1>2, SkippedIs
  <1> HIDE DEF n, claiming
  <1>4. Alike(n, mem) /\ m.rev = mem.rev
    BY <1>3 DEF Alike, SameGoal, SameGroup, SameText
  <1>5. /\ Alike(mem', mem) /\ mem'.review = n.review
        /\ mem'.stage = stage /\ mem'.todo = claiming
        /\ mem'.phase \in {"done", "replay"}
        /\ mem' \in Attempt /\ Course(mem') /\ OnLastRow'
    BY <1>1, <1>2, <1>3, <1>4, OpensStep
  <1> QED
    BY <1>2, <1>3, <1>4, <1>5

(* A paused attempt stops, and the course is kept.                         *)
LEMMA StopsStep ==
    ASSUME Base, NEW m \in Attempt, Alike(m, mem), m.todo = mem.todo, m.flying = {},
           mem' = Stopping(m), mem.paused, Going(mem), runs' = runs, batches' = batches
    PROVE  /\ Alike(mem', mem) /\ mem'.stage = "closing" /\ mem'.phase = "done"
           /\ mem'.flying = {} /\ mem'.paused
           /\ mem' \in Attempt /\ Course(mem') /\ OnLastRow'
  <1>1. mem \in Attempt /\ Course(mem) /\ OnLastRow /\ mem.stage # "idle" /\ mem.stage # "preparing"
    BY DEF Base, Typed, Going
  <1>2. /\ mem' \in Attempt /\ SameWork(mem', m) /\ mem'.paused = m.paused
        /\ mem'.stage = "closing" /\ mem'.phase = "done"
        /\ mem'.todo = m.todo /\ mem'.flying = m.flying
    BY StoppingIs
  <1>3. Alike(mem', mem)
    BY <1>2 DEF Alike, SameWork, SameGoal, SameGroup, SameText, SameDone
  <1>4. Course(mem')
    BY <1>1, <1>2, <1>3
       DEF Course, Going, Waves, Writing, Gates, Alike, SameGoal, SameGroup, SameText
  <1>5. OnLastRow'
    BY <1>1, <1>2, <1>3, RowKept DEF Alike, SameGoal
  <1> QED
    BY <1>2, <1>3, <1>4, <1>5 DEF Alike

(* The tail of what is wanted, or the end.                                 *)
Nexts ==
    /\ SameGoal(mem', mem) /\ SameText(mem', mem) /\ mem'.paused = mem.paused
    /\ mem'.tail = {} /\ mem'.flying = {}
    /\ \/ /\ mem.tail = {} /\ mem'.stage = "closing" /\ mem'.phase = "done"
       \/ /\ mem.tail # {} /\ mem'.stage = "theory" /\ mem'.phase = "replay"
          /\ mem'.group = mem.tail /\ mem'.todo = mem.tail /\ mem'.failed = {}
          /\ mem'.written = {} /\ mem'.again = {} /\ mem'.review = Unreviewed

(* The tail begins or the attempt closes, and the course is kept.          *)
LEMMA NextGroupStep ==
    ASSUME Base, mem' = NextGroup(mem), mem.flying = {}, Going(mem),
           runs' = runs, batches' = batches
    PROVE  Nexts /\ mem' \in Attempt /\ Course(mem') /\ OnLastRow'
  <1>1. mem \in Attempt /\ Course(mem) /\ OnLastRow /\ mem.stage # "idle" /\ mem.stage # "preparing"
    BY DEF Base, Typed, Going
  <1>2. /\ mem' \in Attempt
        /\ SameGoal(mem', mem) /\ SameText(mem', mem) /\ mem'.paused = mem.paused
        /\ mem'.tail = Nobody
    BY <1>1, NextGroupIs
  <1>3. CASE mem.tail = {}
    <2>1. /\ mem'.stage = "closing" /\ mem'.phase = "done"
          /\ mem'.todo = mem.todo /\ mem'.flying = mem.flying
          /\ SameGroup(mem', mem) /\ SameDone(mem', mem)
      BY <1>1, <1>3, NextGroupIs
    <2>2. Course(mem')
      BY <1>1, <1>2, <1>3, <2>1
         DEF Course, Going, Waves, Writing, Gates, SameGoal, SameGroup, SameText, SameDone, Nobody
    <2>3. OnLastRow'
      BY <1>1, <1>2, <2>1, RowKept DEF SameGoal
    <2> QED
      BY <1>2, <1>3, <2>1, <2>2, <2>3 DEF Nexts, Nobody
  <1>4. CASE mem.tail # {}
    <2>1. /\ mem'.group = mem.tail /\ mem'.watch = mem.waiting
          /\ mem'.written = Nobody /\ mem'.again = Nobody /\ mem'.review = Unreviewed
          /\ mem'.stage = "theory" /\ mem'.todo = mem.tail /\ mem'.flying = Nobody
          /\ mem'.failed = Nobody /\ mem'.phase = "replay"
      BY <1>1, <1>4, NextGroupIs
    <2>2. Course(mem')
      BY <1>1, <1>2, <1>4, <2>1
         DEF Course, Going, Waves, Writing, Gates, SameGoal, SameText, Nobody
    <2>3. OnLastRow'
      BY <1>1, <1>2, <2>1, RowKept DEF SameGoal
    <2> QED
      BY <1>2, <1>4, <2>1, <2>2, <2>3 DEF Nexts, Nobody
  <1> QED
    BY <1>3, <1>4

(* What failLesson leaves of the lessons.                                  *)
Fails ==
    \A l \in Lessons :
        /\ lessons'[l].text = lessons[l].text
        /\ lessons'[l].cards = lessons[l].cards
        /\ \/ lessons'[l] = lessons[l]
           \/ /\ lessons'[l].status = "failed" /\ l \in mem.failed
              /\ lessons'[l].ledger.rev = mem.rev[l]
              /\ lessons'[l].ledger.regens = mem.ledger[l].regens

(* After the theory: the practice of what was written, or the stop.        *)
LEMMA TheoryOverStep ==
    ASSUME Base, TheoryOver
    PROVE  /\ Base' /\ Fails
           /\ mem.stage = "theory" /\ mem.phase \in {"done", "calls"}
           /\ (mem.paused \/ mem.todo = {})
           /\ \A l \in mem.failed : lessons'[l].status = "failed"
           /\ Alike(mem', mem)
           /\ \/ mem.paused /\ mem'.stage = "closing" /\ mem'.phase = "done"
              \/ /\ ~mem.paused /\ mem'.stage = "practice" /\ mem'.phase \in {"done", "replay"}
                 /\ mem'.todo = mem.written /\ mem'.review = mem.review
           /\ UNCHANGED <<answers, runs, batches, charged, used>>
  <1>1. /\ mem.stage = "theory" /\ WaveOver /\ mem.stage \in Waves
        /\ lessons' = Failing(mem)
        /\ mem' = IF mem.paused THEN Stopping(mem) ELSE Opened(mem, "practice", mem.written)
        /\ UNCHANGED <<answers, runs, batches, charged, used>>
    BY DEF TheoryOver, Waves
  <1>2. /\ mem.flying = {} /\ (mem.paused \/ mem.todo = {})
        /\ mem.phase \in {"done", "calls"} /\ mem.again = {} /\ Going(mem)
        /\ mem \in Attempt /\ Alike(mem, mem)
    BY <1>1, WaveOverMeans DEF Alike, SameGoal, SameGroup, SameText
  <1>3. /\ lessons' \in [Lessons -> Row] /\ Fails
        /\ \A l \in mem.failed : lessons'[l].status = "failed"
    <2>1. mem \in Attempt /\ lessons \in [Lessons -> Row] /\ mem.failed \subseteq Lessons
      BY <1>2 DEF Base, Typed, Attempt
    <2> QED
      BY <1>1, <2>1, FailingIs DEF Fails
  <1>4. /\ Alike(mem', mem) /\ mem' \in Attempt /\ Course(mem') /\ OnLastRow'
        /\ \/ mem.paused /\ mem'.stage = "closing" /\ mem'.phase = "done"
           \/ /\ ~mem.paused /\ mem'.stage = "practice" /\ mem'.phase \in {"done", "replay"}
              /\ mem'.todo = mem.written /\ mem'.review = mem.review
    <2>1. CASE mem.paused
      BY <1>1, <1>2, <2>1, StopsStep
    <2>2. CASE ~mem.paused
      <3>1. "practice" \in Waves /\ mem.written \in SUBSET mem.written
        BY DEF Waves
      <3>2. mem' = Opened(mem, "practice", mem.written)
        BY <1>1, <2>2
      <3> QED
        BY <1>1, <1>2, <2>2, <3>1, <3>2, OpensStep
    <2> QED
      BY <2>1, <2>2
  <1>5. Typed'
    BY <1>1, <1>3, <1>4, TypedFrame DEF Base
  <1> QED
    BY <1>1, <1>2, <1>3, <1>4, <1>5 DEF Base

(* After the practice: a block for every lesson written.                   *)
LEMMA PracticeOverStep ==
    ASSUME Base, PracticeOver
    PROVE  /\ Base' /\ Alike(mem', mem)
           /\ mem.stage = "practice" /\ mem.phase \in {"done", "calls"}
           /\ mem'.stage = "composing" /\ mem'.phase = "done" /\ mem'.todo = mem.written
           /\ mem'.failed = {} /\ mem'.flying = {} /\ mem'.review = mem.review
           /\ UNCHANGED <<lessons, answers, runs, batches, charged, used>>
  <1>1. /\ mem.stage = "practice" /\ WaveOver /\ mem.stage \in Waves
        /\ mem' = [mem EXCEPT !.stage = "composing", !.phase = "done", !.todo = mem.written,
                              !.failed = {}]
        /\ UNCHANGED <<lessons, answers, runs, batches, charged, used>>
    BY DEF PracticeOver, Waves
  <1>2. /\ mem.flying = {} /\ mem.phase \in {"done", "calls"} /\ mem.again = {} /\ Going(mem)
        /\ mem \in Attempt /\ Course(mem) /\ mem.stage # "idle"
    BY <1>1, WaveOverMeans
  <1>3. mem' \in Attempt
    BY <1>1, <1>2 DEF Attempt, Stages, Phases
  <1>4. SameGoal(mem', mem) /\ SameGroup(mem', mem) /\ SameText(mem', mem)
    BY <1>1, <1>2 DEF Attempt, SameGoal, SameGroup, SameText
  <1>5. /\ mem'.written = mem.written /\ mem'.again = mem.again /\ mem'.paused = mem.paused
        /\ mem'.review = mem.review
        /\ mem'.stage = "composing" /\ mem'.phase = "done" /\ mem'.todo = mem.written
        /\ mem'.failed = {} /\ mem'.flying = mem.flying
    BY <1>1, <1>2 DEF Attempt
  <1>6. Course(mem')
    BY <1>2, <1>4, <1>5
       DEF Course, Going, Waves, Writing, Gates, SameGoal, SameGroup, SameText
  <1>7. Typed' /\ OnLastRow'
    BY <1>1, <1>2, <1>3, <1>4, <1>5, TypedFrame, RowKept DEF Base, Typed, SameGoal
  <1> QED
    BY <1>1, <1>2, <1>4, <1>5, <1>6, <1>7 DEF Base, Alike

(* One block of exercises is written on its row.                           *)
LEMMA ComposeStep ==
    ASSUME Base, Compose
    PROVE  /\ Base'
           /\ mem.stage = "composing" /\ mem'.stage = "composing" /\ mem'.phase = "done"
           /\ SameGoal(mem', mem) /\ SameGroup(mem', mem) /\ SameDone(mem', mem)
           /\ mem'.rev = mem.rev /\ mem'.attempt = mem.attempt /\ mem'.paused = mem.paused
           /\ \A k \in Lessons : /\ mem'.ledger[k].rev = mem.ledger[k].rev
                                 /\ mem'.ledger[k].regens = mem.ledger[k].regens
           /\ \E l \in mem.todo :
                /\ mem'.todo = mem.todo \ {l}
                /\ \A k \in Lessons \ {l} : lessons'[k] = lessons[k]
                /\ lessons'[l].status = "generating" /\ lessons'[l].text = lessons[l].text
                /\ lessons'[l].cards = lessons[l].cards
                /\ lessons'[l].ledger.rev = mem.ledger[l].rev
                /\ lessons'[l].ledger.regens = mem.ledger[l].regens
           /\ UNCHANGED <<answers, runs, batches, charged, used>>
  <1> DEFINE l == First(mem.todo)
             more == mem.kind = "examples"
             block == {[rev |-> mem.rev[l],
                        variant |-> Ask([mem EXCEPT !.stage = "practice"], l).mark]
                         : k \in mem.pools \cap {l}}
             ledger == [mem.ledger[l] EXCEPT !.variant = @ + (IF more THEN 1 ELSE 0)]
             w == IF more THEN lessons[l].exercises \cup block ELSE block
             row == [lessons[l] EXCEPT !.exercises = w, !.ledger = ledger, !.status = "generating"]
  <1>1. /\ mem.stage = "composing" /\ mem.todo # {} /\ mem.stage # "idle"
        /\ mem \in Attempt /\ Course(mem) /\ mem.todo \subseteq Lessons
        /\ UNCHANGED <<answers, runs, batches, charged, used>>
    BY DEF Compose, Base, Typed, Attempt
  <1>2. l \in mem.todo /\ l \in Lessons
    BY <1>1, FirstIsOne
  <1>3. /\ lessons' = [lessons EXCEPT ![l].exercises = w, ![l].ledger = ledger,
                                      ![l].status = "generating"]
        /\ mem' = [mem EXCEPT !.todo = @ \ {l}, !.ledger[l] = ledger]
    BY DEF Compose
  <1>4. lessons' = [lessons EXCEPT ![l] = row]
    BY <1>2, <1>3 DEF Base, Typed
  <1>5. /\ mem.ledger[l] \in LedgerType /\ mem.rev[l] \in Nat /\ lessons[l] \in Row
    BY <1>1, <1>2 DEF Attempt, Base, Typed
  <1>6. /\ ledger \in LedgerType /\ ledger.rev = mem.ledger[l].rev
        /\ ledger.regens = mem.ledger[l].regens
    BY <1>5 DEF LedgerType
  <1>7. w \subseteq [rev : Nat, variant : Nat]
    <2>1. Ask([mem EXCEPT !.stage = "practice"], l).mark \in Nat
      <3>1. [mem EXCEPT !.stage = "practice"] \in Attempt
        BY <1>1 DEF Attempt, Stages, Waves
      <3>2. [mem EXCEPT !.stage = "practice"].stage \in Waves
        BY <1>1 DEF Attempt, Waves
      <3> QED
        BY <1>2, <3>1, <3>2, AskTyped DEF AskType
    <2> QED
      BY <1>5, <2>1 DEF Row
  <1> HIDE DEF ledger, w, l, block
  <1>8. /\ row \in Row /\ row.status = "generating" /\ row.text = lessons[l].text
        /\ row.cards = lessons[l].cards /\ row.ledger = ledger
    BY <1>5, <1>6, <1>7 DEF Row, Statuses
  <1> HIDE DEF row
  <1>9. /\ lessons' \in [Lessons -> Row] /\ lessons'[l] = row
        /\ \A k \in Lessons \ {l} : lessons'[k] = lessons[k]
    BY <1>2, <1>4, <1>8 DEF Base, Typed
  <1>10. SameGoal(mem', mem) /\ SameGroup(mem', mem) /\ SameDone(mem', mem)
    BY <1>1, <1>3 DEF Attempt, SameGoal, SameGroup, SameDone
  <1>11. /\ mem'.stage = mem.stage /\ mem'.phase = mem.phase /\ mem'.todo = mem.todo \ {l}
         /\ mem'.flying = mem.flying /\ mem'.paused = mem.paused
         /\ mem'.rev = mem.rev /\ mem'.attempt = mem.attempt
         /\ mem'.ledger = [mem.ledger EXCEPT ![l] = ledger]
    BY <1>1, <1>3 DEF Attempt
  <1>12. mem' \in Attempt
    <2>1. [mem.ledger EXCEPT ![l] = ledger] \in [Lessons -> LedgerType]
      BY <1>1, <1>6 DEF Attempt
    <2> QED
      BY <1>1, <1>3, <2>1 DEF Attempt
  <1>13. \A k \in Lessons : /\ mem'.ledger[k].rev = mem.ledger[k].rev
                            /\ mem'.ledger[k].regens = mem.ledger[k].regens
    BY <1>1, <1>6, <1>11 DEF Attempt
  <1>14. Course(mem') /\ mem.phase = "done"
    BY <1>1, <1>10, <1>11
       DEF Course, Going, Waves, Writing, Gates, SameGoal, SameGroup, SameDone
  <1>15. Typed' /\ OnLastRow'
    BY <1>1, <1>9, <1>10, <1>11, <1>12, <1>14, TypedFrame, RowKept DEF Base, SameGoal
  <1> QED
    BY <1>1, <1>2, <1>6, <1>8, <1>9, <1>10, <1>11, <1>13, <1>14, <1>15 DEF Base

(* After the blocks: the cards of the lessons that have none.              *)
LEMMA ComposedStep ==
    ASSUME Base, Composed
    PROVE  /\ Base' /\ Alike(mem', mem)
           /\ mem.stage = "composing" /\ mem.todo = {}
           /\ \/ /\ mem.paused /\ mem'.stage = "closing" /\ mem'.phase = "done"
                 /\ lessons' = lessons
              \/ /\ ~mem.paused /\ mem'.stage = "cards" /\ mem'.phase \in {"done", "replay"}
                 /\ mem'.todo = {l \in mem.written : lessons[l].cards = 0}
                 /\ mem'.review = mem.review
           /\ \A l \in Lessons :
                /\ lessons'[l].text = lessons[l].text
                /\ lessons'[l].cards = lessons[l].cards
                /\ \/ lessons'[l] = lessons[l]
                   \/ /\ l \in mem.written /\ lessons'[l].status = "qa"
                      /\ lessons'[l].ledger = mem.ledger[l]
           /\ UNCHANGED <<answers, runs, batches, charged, used>>
  <1>1. /\ mem.stage = "composing" /\ mem.todo = {}
        /\ UNCHANGED <<answers, runs, batches, charged, used>>
        /\ mem \in Attempt /\ Course(mem) /\ Alike(mem, mem) /\ Going(mem)
        /\ mem.flying = {} /\ mem.again = {} /\ lessons \in [Lessons -> Row]
    BY DEF Composed, Base, Typed, Course, Alike, SameGoal, SameGroup, SameText, Going, Waves
  <1>2. CASE mem.paused
    <2>1. mem' = Stopping(mem) /\ lessons' = lessons
      BY <1>2 DEF Composed
    <2>2. /\ Alike(mem', mem) /\ mem'.stage = "closing" /\ mem'.phase = "done"
          /\ mem' \in Attempt /\ Course(mem') /\ OnLastRow'
      BY <1>1, <1>2, <2>1, StopsStep
    <2>3. Typed'
      BY <1>1, <2>1, <2>2, TypedFrame DEF Base
    <2> QED
      BY <1>1, <1>2, <2>1, <2>2, <2>3 DEF Base
  <1>3. CASE ~mem.paused
    <2>1. /\ lessons' = [l \in Lessons |->
                           IF l \in mem.written \ LackingCards(mem)
                           THEN [lessons[l] EXCEPT !.status = "qa", !.ledger = mem.ledger[l]]
                           ELSE lessons[l]]
          /\ mem' = Opened(mem, "cards", LackingCards(mem))
      BY <1>3 DEF Composed
    <2>2. LackingCards(mem) \in SUBSET mem.written /\ "cards" \in Waves
      BY DEF LackingCards, Waves
    <2>3. /\ Alike(mem', mem) /\ mem'.review = mem.review
          /\ mem'.stage = "cards" /\ mem'.todo = LackingCards(mem)
          /\ mem'.phase \in {"done", "replay"}
          /\ mem' \in Attempt /\ Course(mem') /\ OnLastRow'
      <3>1. PICK asked \in SUBSET mem.written : asked = LackingCards(mem)
        BY <2>2
      <3>2. mem' = Opened(mem, "cards", asked) /\ runs' = runs /\ batches' = batches
        BY <1>1, <2>1, <3>1
      <3>3. mem \in Attempt /\ Alike(mem, mem) /\ mem.again = {} /\ Going(mem)
        BY <1>1
      <3> QED
        BY <2>2, <3>1, <3>2, <3>3, OpensStep
    <2>4. ASSUME NEW l \in Lessons
          PROVE  /\ lessons'[l] \in Row /\ lessons'[l].text = lessons[l].text
                 /\ lessons'[l].cards = lessons[l].cards
                 /\ \/ lessons'[l] = lessons[l]
                    \/ /\ l \in mem.written /\ lessons'[l].status = "qa"
                       /\ lessons'[l].ledger = mem.ledger[l]
      <3>1. lessons[l] \in Row /\ mem.ledger[l] \in LedgerType
        BY <1>1 DEF Attempt
      <3>2. CASE l \in mem.written \ LackingCards(mem)
        <4>1. lessons'[l] = [lessons[l] EXCEPT !.status = "qa", !.ledger = mem.ledger[l]]
          BY <2>1, <3>2
        <4> QED
          BY <3>1, <3>2, <4>1 DEF Row, Statuses
      <3>3. CASE l \notin mem.written \ LackingCards(mem)
        <4>1. lessons'[l] = lessons[l]
          BY <2>1, <3>3
        <4> QED
          BY <3>1, <4>1
      <3> QED
        BY <3>2, <3>3
    <2>5. lessons' \in [Lessons -> Row]
      BY <2>1, <2>4
    <2>6. Typed'
      BY <1>1, <2>3, <2>5, TypedFrame DEF Base
    <2>7. mem'.todo = {l \in mem.written : lessons[l].cards = 0}
      BY <2>3 DEF LackingCards
    <2> QED
      BY <1>1, <1>3, <2>3, <2>4, <2>6, <2>7 DEF Base
  <1> QED
    BY <1>2, <1>3

(* What the end of a wave leaves of the reviews: a failing call fails the  *)
(* review of its lesson, and a text without claims has its gate.           *)
Reviews ==
    \A l \in Lessons :
        /\ mem'.review[l].edited = mem.review[l].edited
        /\ mem'.review[l].gate =>
             mem.review[l].gate \/ <<l, mem.rev[l], mem.review[l].edited>> \in Claimless
        /\ mem.review[l].failed => mem'.review[l].failed

(* After the cards: the gates, the next group, or the stop.                *)
LEMMA CardsOverStep ==
    ASSUME Base, CardsOver
    PROVE  /\ Base' /\ Fails
           /\ mem.stage = "cards" /\ mem.phase \in {"done", "calls"}
           /\ \/ /\ mem.paused /\ Alike(mem', mem)
                 /\ mem'.stage = "closing" /\ mem'.phase = "done"
              \/ /\ ~mem.paused /\ mem.written = {} /\ Nexts
              \/ /\ ~mem.paused /\ Alike(mem', mem)
                 /\ mem'.stage = "p6" /\ mem'.phase \in {"done", "replay"}
                 /\ Reviews
           /\ UNCHANGED <<answers, runs, batches, charged, used>>
  <1>1. /\ mem.stage = "cards" /\ WaveOver /\ mem.stage \in Waves
        /\ lessons' = Failing(mem)
        /\ UNCHANGED <<answers, runs, batches, charged, used>>
    BY DEF CardsOver, Waves
  <1>2. /\ mem.flying = {} /\ (mem.paused \/ mem.todo = {})
        /\ mem.phase \in {"done", "calls"} /\ mem.again = {} /\ Going(mem)
        /\ mem \in Attempt /\ Alike(mem, mem)
    BY <1>1, WaveOverMeans DEF Alike, SameGoal, SameGroup, SameText
  <1>3. lessons' \in [Lessons -> Row] /\ Fails
    <2>1. mem \in Attempt /\ lessons \in [Lessons -> Row]
      BY <1>2 DEF Base, Typed
    <2> QED
      BY <1>1, <2>1, FailingIs DEF Fails
  <1>4. /\ mem' \in Attempt /\ Course(mem') /\ OnLastRow'
        /\ \/ /\ mem.paused /\ Alike(mem', mem)
              /\ mem'.stage = "closing" /\ mem'.phase = "done"
           \/ /\ ~mem.paused /\ mem.written = {} /\ Nexts
           \/ /\ ~mem.paused /\ Alike(mem', mem)
              /\ mem'.stage = "p6" /\ mem'.phase \in {"done", "replay"}
              /\ Reviews
    <2>1. CASE mem.paused
      <3>1. mem' = Stopping(mem)
        BY <2>1 DEF CardsOver
      <3> QED
        BY <1>1, <1>2, <2>1, <3>1, StopsStep
    <2>2. CASE ~mem.paused /\ mem.written = {}
      <3>1. mem' = NextGroup(mem)
        BY <2>2 DEF CardsOver
      <3> QED
        BY <1>1, <1>2, <2>2, <3>1, NextGroupStep
    <2>3. CASE ~mem.paused /\ mem.written # {}
      <3>1. mem' = Verifying(mem, "p6", mem.written)
        BY <2>3 DEF CardsOver
      <3>2. "p6" \in Waves /\ mem.written \in SUBSET mem.written
        BY DEF Waves
      <3> QED
        BY <1>1, <1>2, <2>3, <3>1, <3>2, VerifyingStep DEF Reviews
    <2> QED
      BY <2>1, <2>2, <2>3
  <1>5. Typed'
    BY <1>1, <1>3, <1>4, TypedFrame DEF Base
  <1> QED
    BY <1>1, <1>2, <1>3, <1>4, <1>5 DEF Base

(* After a gate: the next one the mode has, or the verdict.                *)
LEMMA GateOverStep ==
    ASSUME Base, GateOver
    PROVE  /\ Base' /\ Alike(mem', mem)
           /\ mem.stage \in Gates /\ mem.phase \in {"done", "calls"}
           /\ \/ mem.paused /\ mem'.stage = "closing" /\ mem'.phase = "done"
              \/ /\ ~mem.paused /\ Reviews /\ mem'.stage \in {"p7", "p8", "p6again"}
                 /\ mem'.phase \in {"done", "replay"} /\ mem'.todo \subseteq mem.written
                 /\ mem'.stage = "p6again" => \A l \in mem'.todo : mem'.review[l].edited
              \/ /\ ~mem.paused /\ Reviews /\ mem'.stage = "verdict" /\ mem'.phase = "done"
                 /\ mem'.todo = mem.written
           /\ UNCHANGED <<lessons, answers, runs, batches, charged, used>>
  <1> DEFINE m == Reviewing(mem)
             open == {l \in Live(m) : ~Wants(m, l)}
  <1>1. /\ mem.stage \in Gates /\ WaveOver /\ mem.stage \in Waves /\ mem.stage # "theory"
        /\ mem' = CASE m.paused -> Stopping(m)
                    [] ~m.paused /\ m.stage = "p6" /\ FullQa -> Opened(m, "p7", open)
                    [] ~m.paused /\ m.stage = "p7" ->
                         Opened(m, "p8", {l \in open : Edits(m, l)})
                    [] ~m.paused /\ m.stage = "p8" ->
                         Verifying(m, "p6again", {l \in Live(m) : m.review[l].edited})
                    [] OTHER -> Judging(m)
        /\ UNCHANGED <<lessons, answers, runs, batches, charged, used>>
    BY DEF GateOver, Waves, Gates
  <1>2. /\ mem.flying = {} /\ mem.phase \in {"done", "calls"} /\ mem.again = {} /\ Going(mem)
        /\ mem \in Attempt /\ Course(mem)
    BY <1>1, WaveOverMeans
  <1>3. /\ m \in Attempt /\ Alike(m, mem) /\ m.stage = mem.stage /\ m.todo = mem.todo
        /\ m.flying = {} /\ m.paused = mem.paused /\ m.written = mem.written
        /\ \A l \in Lessons :
             /\ m.review[l].edited = mem.review[l].edited
             /\ m.review[l].gate = mem.review[l].gate
             /\ mem.review[l].failed => m.review[l].failed
    BY <1>2, ReviewingIs DEF Alike, SameAsked
  <1>4. Live(m) \subseteq mem.written /\ open \subseteq mem.written
    BY <1>3 DEF Live
  <1> DEFINE back == {l \in Live(m) : m.review[l].edited}
             mended == {l \in open : Edits(m, l)}
  <1>5. back \in SUBSET mem.written /\ mended \in SUBSET mem.written /\ open \in SUBSET mem.written
    BY <1>4
  <1>6. \A l \in back : l \in Lessons /\ m.review[l].edited
    BY <1>2, <1>5 DEF Attempt
  <1> HIDE DEF m, open, back, mended
  <1>7. CASE mem.paused
    <2>1. mem' = Stopping(m)
      BY <1>1, <1>3, <1>7
    <2>2. /\ Alike(mem', mem) /\ mem'.stage = "closing" /\ mem'.phase = "done"
          /\ mem' \in Attempt /\ Course(mem') /\ OnLastRow'
      BY <1>1, <1>2, <1>3, <1>7, <2>1, StopsStep
    <2>3. Typed'
      BY <1>1, <2>2, TypedFrame DEF Base, Typed
    <2> QED
      BY <1>1, <1>2, <1>7, <2>2, <2>3 DEF Base
  <1>8. ASSUME NEW stage \in {"p7", "p8"}, NEW asked \in SUBSET mem.written,
               mem' = Opened(m, stage, asked), ~mem.paused
        PROVE  /\ Base' /\ Alike(mem', mem) /\ Reviews /\ mem'.stage = stage
               /\ mem'.phase \in {"done", "replay"} /\ mem'.todo \subseteq mem.written
    <2>1. stage \in Waves
      BY DEF Waves
    <2>2. /\ Alike(mem', mem) /\ mem'.review = m.review
          /\ mem'.stage = stage /\ mem'.todo = asked
          /\ mem'.phase \in {"done", "replay"}
          /\ mem' \in Attempt /\ Course(mem') /\ OnLastRow'
      <3>1. m \in Attempt /\ Alike(m, mem)
        BY <1>3
      <3>2. mem' = Opened(m, stage, asked) /\ asked \in SUBSET mem.written
        BY <1>8
      <3>3. mem.again = {} /\ Going(mem) /\ runs' = runs /\ batches' = batches
        BY <1>1, <1>2
      <3> QED
        BY <2>1, <3>1, <3>2, <3>3, OpensStep
    <2>3. Typed'
      BY <1>1, <2>2, TypedFrame DEF Base, Typed
    <2>4. Reviews
      BY <1>3, <2>2 DEF Reviews
    <2> QED
      BY <1>8, <2>2, <2>3, <2>4 DEF Base
  <1>9. CASE ~mem.paused /\ mem.stage = "p6" /\ FullQa
    <2>1. mem' = Opened(m, "p7", open)
      BY <1>1, <1>3, <1>9
    <2> QED
      BY <1>1, <1>2, <1>5, <1>8, <1>9, <2>1
  <1>10. CASE ~mem.paused /\ mem.stage = "p7"
    <2>1. mem' = Opened(m, "p8", mended)
      BY <1>1, <1>3, <1>10 DEF mended
    <2> QED
      BY <1>1, <1>2, <1>5, <1>8, <1>10, <2>1
  <1>11. CASE ~mem.paused /\ mem.stage = "p8"
    <2>1. mem' = Verifying(m, "p6again", back) /\ "p6again" \in Waves
      BY <1>1, <1>3, <1>11 DEF back, Waves
    <2>2. /\ Alike(mem', mem)
          /\ mem'.stage = "p6again" /\ mem'.todo \subseteq back
          /\ mem'.phase \in {"done", "replay"}
          /\ mem' \in Attempt /\ Course(mem') /\ OnLastRow'
          /\ \A l \in Lessons :
               /\ mem'.review[l].edited = m.review[l].edited
               /\ mem'.review[l].failed = m.review[l].failed
               /\ mem'.review[l].gate =>
                    m.review[l].gate \/ <<l, mem.rev[l], m.review[l].edited>> \in Claimless
      <3>1. m \in Attempt /\ Alike(m, mem) /\ back \in SUBSET mem.written
        BY <1>3, <1>5
      <3>2. mem.again = {} /\ Going(mem) /\ runs' = runs /\ batches' = batches
        BY <1>1, <1>2
      <3> QED
        BY <2>1, <3>1, <3>2, VerifyingStep
    <2>3. Typed'
      BY <1>1, <2>2, TypedFrame DEF Base, Typed
    <2>4. Reviews
      BY <1>3, <2>2 DEF Reviews
    <2>5. \A l \in mem'.todo : mem'.review[l].edited
      BY <1>6, <2>2
    <2> QED
      BY <1>1, <1>2, <1>5, <1>11, <2>2, <2>3, <2>4, <2>5 DEF Base
  <1>12. CASE ~mem.paused /\ (mem.stage = "p6again" \/ (mem.stage = "p6" /\ ~FullQa))
    <2>1. mem' = Judging(m)
      BY <1>1, <1>3, <1>12
    <2>2. /\ mem' \in Attempt /\ SameWork(mem', m) /\ mem'.paused = m.paused
          /\ mem'.stage = "verdict" /\ mem'.phase = "done"
          /\ mem'.todo = m.written /\ mem'.flying = m.flying
      BY <1>3, <2>1, JudgingIs
    <2>3. Alike(mem', mem) /\ mem'.review = m.review
      BY <1>3, <2>2 DEF Alike, SameWork, SameGoal, SameGroup, SameText, SameDone
    <2>4. Course(mem')
      BY <1>2, <1>3, <2>2, <2>3
         DEF Course, Going, Waves, Writing, Gates, Alike, SameGoal, SameGroup, SameText
    <2>5. OnLastRow'
      BY <1>1, <1>2, <2>2, <2>3, RowKept DEF Alike, SameGoal, Base, Going
    <2>6. Typed'
      BY <1>1, <2>2, TypedFrame DEF Base, Typed
    <2>7. Reviews
      BY <1>3, <2>3 DEF Reviews
    <2> QED
      BY <1>1, <1>2, <1>3, <1>12, <2>2, <2>3, <2>4, <2>5, <2>6, <2>7 DEF Base
  <1>13. mem.stage \in {"p6", "p7", "p8", "p6again"} /\ mem.paused \in BOOLEAN
    BY <1>1, <1>2 DEF Gates, Attempt
  <1> QED
    BY <1>7, <1>9, <1>10, <1>11, <1>12, <1>13

(* The verdict on one lesson: finished, or sent back to P3.                *)
LEMMA VerdictStep ==
    ASSUME Base, Verdict
    PROVE  /\ Base'
           /\ mem.stage = "verdict" /\ mem'.stage = "verdict" /\ mem'.phase = "done"
           /\ SameGoal(mem', mem) /\ SameGroup(mem', mem) /\ SameText(mem', mem)
           /\ mem'.written = mem.written /\ mem'.review = mem.review
           /\ mem'.paused = mem.paused
           /\ \E l \in mem.todo :
                /\ mem'.todo = mem.todo \ {l}
                /\ \A k \in Lessons \ {l} : lessons'[k] = lessons[k]
                /\ \/ mem'.again = mem.again \cup {l} /\ lessons'[l] = lessons[l]
                   \/ /\ mem'.again = mem.again
                      /\ lessons'[l].status = "ready"
                      /\ lessons'[l].cards = lessons[l].cards
                      /\ lessons'[l].ledger = lessons[l].ledger
                      /\ lessons'[l].text.rev = lessons[l].text.rev
                      /\ lessons'[l].text.edited = (mem.review[l].edited /\ mem.review[l].gate)
                      /\ lessons'[l].reviewed = (~mem.review[l].failed /\ mem.review[l].gate)
           /\ UNCHANGED <<answers, runs, batches, charged, used>>
  <1> DEFINE l == First(mem.todo)
             v == mem.review[l]
             row == [lessons[l] EXCEPT !.text = [@ EXCEPT !.edited = v.edited /\ v.gate],
                                       !.reviewed = ~v.failed /\ v.gate,
                                       !.status = "ready"]
  <1>1. /\ mem.stage = "verdict" /\ mem.todo # {} /\ mem.stage # "idle" /\ mem.phase = "done"
        /\ mem \in Attempt /\ Course(mem) /\ mem.todo \subseteq Lessons
        /\ UNCHANGED <<answers, runs, batches, charged, used>>
    BY DEF Verdict, Base, Typed, Attempt, Course, Waves
  <1>2. l \in mem.todo /\ l \in Lessons
    BY <1>1, FirstIsOne
  <1>3. /\ lessons' = IF Rewrites(mem, l) THEN lessons
                      ELSE [lessons EXCEPT ![l].text.edited = v.edited /\ v.gate,
                                           ![l].reviewed = ~v.failed /\ v.gate,
                                           ![l].status = "ready"]
        /\ mem' = [mem EXCEPT !.todo = @ \ {l},
                              !.again = IF Rewrites(mem, l) THEN @ \cup {l} ELSE @]
    BY DEF Verdict
  <1>4. lessons[l] \in Row /\ v \in Opinion /\ lessons \in [Lessons -> Row]
    BY <1>1, <1>2 DEF Attempt, Base, Typed
  <1>5. ~Rewrites(mem, l) => lessons' = [lessons EXCEPT ![l] = row]
    BY <1>2, <1>3, <1>4 DEF Row
  <1>6. /\ row \in Row /\ row.status = "ready" /\ row.cards = lessons[l].cards
        /\ row.ledger = lessons[l].ledger /\ row.text.rev = lessons[l].text.rev
        /\ row.text.edited = (v.edited /\ v.gate) /\ row.reviewed = (~v.failed /\ v.gate)
    <2>1. (v.edited /\ v.gate) \in BOOLEAN /\ (~v.failed /\ v.gate) \in BOOLEAN
      OBVIOUS
    <2>2. lessons[l].text \in TextType
      BY <1>4 DEF Row
    <2> DEFINE e == (v.edited /\ v.gate)
               f == (~v.failed /\ v.gate)
               t == [lessons[l].text EXCEPT !.edited = e]
    <2> HIDE DEF e, f
    <2>3. e \in BOOLEAN /\ f \in BOOLEAN
      BY <2>1 DEF e, f
    <2>4. t \in TextType /\ t.rev = lessons[l].text.rev /\ t.edited = e
      BY <2>2, <2>3 DEF TextType
    <2> HIDE DEF t
    <2> DEFINE w == [lessons[l] EXCEPT !.text = t, !.reviewed = f, !.status = "ready"]
    <2>5. /\ w \in Row /\ w.status = "ready" /\ w.cards = lessons[l].cards
          /\ w.ledger = lessons[l].ledger /\ w.text = t /\ w.reviewed = f
      BY <1>4, <2>3, <2>4 DEF Row, Statuses
    <2>6. row = w
      BY DEF t, e, f
    <2> HIDE DEF row, w
    <2> QED
      BY <2>4, <2>5, <2>6 DEF e, f
  <1> HIDE DEF row
  <1>7. /\ lessons' \in [Lessons -> Row]
        /\ \A k \in Lessons \ {l} : lessons'[k] = lessons[k]
        /\ Rewrites(mem, l) => lessons'[l] = lessons[l]
        /\ ~Rewrites(mem, l) => lessons'[l] = row
    <2>1. CASE Rewrites(mem, l)
      <3>1. lessons' = lessons
        BY <1>3, <2>1
      <3> QED
        BY <1>4, <2>1, <3>1
    <2>2. CASE ~Rewrites(mem, l)
      <3>1. PICK q \in Lessons : q = l
        BY <1>2
      <3>2. PICK x \in Row : x = row
        BY <1>6
      <3>3. lessons' = [lessons EXCEPT ![q] = x]
        BY <1>5, <2>2, <3>1, <3>2
      <3>4. /\ lessons' \in [Lessons -> Row] /\ lessons'[q] = x
            /\ \A k \in Lessons \ {q} : lessons'[k] = lessons[k]
        BY <1>4, <3>3
      <3> QED
        BY <2>2, <3>1, <3>2, <3>4
    <2> QED
      BY <2>1, <2>2
  <1>8. mem' \in Attempt
    <2>1. PICK s \in SUBSET Lessons : s = mem.todo \ {l}
      BY <1>1
    <2>2. PICK a \in SUBSET Lessons : a = IF Rewrites(mem, l) THEN mem.again \cup {l}
                                         ELSE mem.again
      BY <1>1, <1>2 DEF Attempt
    <2>3. mem' = [mem EXCEPT !.todo = s, !.again = a]
      BY <1>3, <2>1, <2>2
    <2> QED
      BY <1>1, <2>3 DEF Attempt
  <1>9. SameGoal(mem', mem) /\ SameGroup(mem', mem) /\ SameText(mem', mem)
    BY <1>1, <1>3 DEF Attempt, SameGoal, SameGroup, SameText
  <1>10. /\ mem'.stage = mem.stage /\ mem'.phase = mem.phase /\ mem'.todo = mem.todo \ {l}
         /\ mem'.flying = mem.flying /\ mem'.paused = mem.paused
         /\ mem'.written = mem.written /\ mem'.review = mem.review
         /\ mem'.again = IF Rewrites(mem, l) THEN mem.again \cup {l} ELSE mem.again
    BY <1>1, <1>3 DEF Attempt
  <1>11. Rewrites(mem, l) => mem.attempt[l] = 0
    BY DEF Rewrites
  <1> HIDE DEF l
  <1>12. Course(mem')
    BY <1>1, <1>2, <1>9, <1>10, <1>11
       DEF Course, Going, Waves, Writing, Gates, SameGoal, SameGroup, SameText
  <1>13. Typed' /\ OnLastRow'
    BY <1>1, <1>7, <1>8, <1>9, <1>10, TypedFrame, RowKept DEF Base, SameGoal
  <1>14. \/ mem'.again = mem.again \cup {l} /\ lessons'[l] = lessons[l]
         \/ mem'.again = mem.again /\ lessons'[l] = row
    BY <1>7, <1>10
  <1> QED
    BY <1>1, <1>2, <1>6, <1>7, <1>9, <1>10, <1>12, <1>13, <1>14 DEF Base

(* Every verdict is in: the lessons sent back are rewritten, or the tail   *)
(* begins.                                                                 *)
LEMMA JudgedStep ==
    ASSUME Base, Judged
    PROVE  /\ Base'
           /\ mem.stage = "verdict" /\ mem.todo = {}
           /\ \/ mem.again = {} /\ Nexts
              \/ /\ mem.again # {} /\ Alike(mem', mem) /\ mem'.stage = "rewriting"
                 /\ mem'.phase = "done" /\ mem'.todo = mem.again /\ mem'.flying = {}
           /\ UNCHANGED <<lessons, answers, runs, batches, charged, used>>
  <1>1. /\ mem.stage = "verdict" /\ mem.todo = {} /\ mem.stage # "idle" /\ mem.phase = "done"
        /\ mem \in Attempt /\ Course(mem) /\ Going(mem) /\ mem.flying = {}
        /\ UNCHANGED <<lessons, answers, runs, batches, charged, used>>
    BY DEF Judged, Base, Typed, Course, Waves, Going
  <1>2. CASE mem.again = {}
    <2>1. mem' = NextGroup(mem)
      BY <1>2 DEF Judged
    <2>2. Nexts /\ mem' \in Attempt /\ Course(mem') /\ OnLastRow'
      BY <1>1, <2>1, NextGroupStep
    <2>3. Typed'
      BY <1>1, <2>2, TypedFrame DEF Base, Typed
    <2> QED
      BY <1>1, <1>2, <2>2, <2>3 DEF Base
  <1>3. CASE mem.again # {}
    <2>1. mem' = [mem EXCEPT !.stage = "rewriting", !.todo = mem.again]
      BY <1>3 DEF Judged
    <2>2. mem' \in Attempt
      BY <1>1, <2>1 DEF Attempt, Stages
    <2>3. SameGoal(mem', mem) /\ SameGroup(mem', mem) /\ SameText(mem', mem)
      BY <1>1, <2>1 DEF Attempt, SameGoal, SameGroup, SameText
    <2>4. /\ mem'.stage = "rewriting" /\ mem'.phase = mem.phase /\ mem'.todo = mem.again
          /\ mem'.flying = mem.flying /\ mem'.paused = mem.paused
          /\ mem'.written = mem.written /\ mem'.again = mem.again
      BY <1>1, <2>1 DEF Attempt
    <2>5. Course(mem')
      BY <1>1, <2>3, <2>4
         DEF Course, Going, Waves, Writing, Gates, SameGoal, SameGroup, SameText
    <2>6. Typed' /\ OnLastRow'
      BY <1>1, <2>2, <2>3, <2>4, TypedFrame, RowKept DEF Base, Typed, SameGoal
    <2> QED
      BY <1>1, <1>3, <2>3, <2>4, <2>5, <2>6 DEF Base, Alike
  <1> QED
    BY <1>2, <1>3

(* A rewrite is counted on the row of its lesson before P3 is asked.       *)
LEMMA RewriteStep ==
    ASSUME Base, Rewrite
    PROVE  /\ Base'
           /\ mem.stage = "rewriting" /\ mem'.stage = "rewriting" /\ mem'.phase = "done"
           /\ SameGoal(mem', mem) /\ SameGroup(mem', mem) /\ SameDone(mem', mem)
           /\ mem'.paused = mem.paused
           /\ \E l \in mem.todo :
                /\ mem.attempt[l] = 0
                /\ mem'.todo = mem.todo \ {l}
                /\ \A k \in Lessons \ {l} : /\ lessons'[k] = lessons[k]
                                            /\ mem'.rev[k] = mem.rev[k]
                                            /\ mem'.ledger[k] = mem.ledger[k]
                                            /\ mem'.attempt[k] = mem.attempt[k]
                /\ mem'.attempt[l] = 1 /\ mem'.rev[l] = mem.rev[l] + 1
                /\ mem'.ledger[l].regens = 1 /\ mem'.ledger[l].rev = mem.rev[l] + 1
                /\ lessons'[l].status = "generating" /\ lessons'[l].text = lessons[l].text
                /\ lessons'[l].cards = lessons[l].cards
                /\ lessons'[l].ledger = mem'.ledger[l]
           /\ UNCHANGED <<answers, runs, batches, charged, used>>
  <1> DEFINE l == First(mem.todo)
             ledger == [mem.ledger[l] EXCEPT !.regens = mem.attempt[l] + 1,
                                             !.rev = mem.rev[l] + 1]
             row == [lessons[l] EXCEPT !.ledger = ledger, !.status = "generating"]
  <1>1. /\ mem.stage = "rewriting" /\ mem.todo # {} /\ mem.stage # "idle" /\ mem.phase = "done"
        /\ mem \in Attempt /\ Course(mem) /\ mem.todo \subseteq Lessons
        /\ UNCHANGED <<answers, runs, batches, charged, used>>
    BY DEF Rewrite, Base, Typed, Attempt, Course, Waves
  <1>2. l \in mem.todo /\ l \in Lessons
    BY <1>1, FirstIsOne
  <1>3. mem.attempt[l] = 0
    BY <1>1, <1>2 DEF Course
  <1>4. /\ lessons' = [lessons EXCEPT ![l] = row]
        /\ mem' = [mem EXCEPT !.todo = @ \ {l}, !.ledger[l] = ledger,
                              !.rev[l] = @ + 1, !.attempt[l] = @ + 1]
    BY <1>2 DEF Rewrite, Counted, Base, Typed
  <1>5. /\ mem.ledger[l] \in LedgerType /\ mem.rev[l] \in Nat /\ lessons[l] \in Row
        /\ mem.ledger \in [Lessons -> LedgerType] /\ mem.rev \in [Lessons -> Nat]
        /\ mem.attempt \in [Lessons -> 0 .. 1] /\ lessons \in [Lessons -> Row]
    BY <1>1, <1>2 DEF Attempt, Base, Typed
  <1>6. ledger \in LedgerType /\ ledger.rev = mem.rev[l] + 1 /\ ledger.regens = 1
    <2>1. PICK g : g = mem.ledger[l]
      OBVIOUS
    <2>2. PICK r : r = mem.rev[l] + 1
      OBVIOUS
    <2>3. g \in LedgerType /\ r \in Nat /\ 1 \in 0 .. 1
      BY <1>5, <2>1, <2>2
    <2>4. ledger = [g EXCEPT !.regens = 1, !.rev = r]
      <3>1. mem.attempt[l] + 1 = 1
        BY <1>3
      <3> QED
        BY <2>1, <2>2, <3>1
    <2> HIDE DEF l, ledger
    <2>5. ledger \in LedgerType /\ ledger.rev = r /\ ledger.regens = 1
      BY <2>3, <2>4 DEF LedgerType
    <2> QED
      BY <2>2, <2>5
  <1> HIDE DEF ledger, l
  <1>7. /\ row \in Row /\ row.status = "generating" /\ row.text = lessons[l].text
        /\ row.cards = lessons[l].cards /\ row.ledger = ledger
    BY <1>5, <1>6 DEF Row, Statuses
  <1> HIDE DEF row
  <1>8. /\ lessons' \in [Lessons -> Row] /\ lessons'[l] = row
        /\ \A k \in Lessons \ {l} : lessons'[k] = lessons[k]
    BY <1>2, <1>4, <1>5, <1>7
  <1>9. SameGoal(mem', mem) /\ SameGroup(mem', mem) /\ SameDone(mem', mem)
    BY <1>1, <1>4 DEF Attempt, SameGoal, SameGroup, SameDone
  <1>10. /\ mem'.stage = mem.stage /\ mem'.phase = mem.phase /\ mem'.todo = mem.todo \ {l}
         /\ mem'.flying = mem.flying /\ mem'.paused = mem.paused
         /\ mem'.ledger = [mem.ledger EXCEPT ![l] = ledger]
         /\ mem'.rev = [mem.rev EXCEPT ![l] = @ + 1]
         /\ mem'.attempt = [mem.attempt EXCEPT ![l] = @ + 1]
    BY <1>1, <1>4 DEF Attempt
  <1>11. /\ mem'.ledger \in [Lessons -> LedgerType] /\ mem'.rev \in [Lessons -> Nat]
         /\ mem'.attempt \in [Lessons -> 0 .. 1]
    BY <1>2, <1>3, <1>5, <1>6, <1>10
  <1>12. mem' \in Attempt
    <2>1. PICK g \in [Lessons -> LedgerType] : g = [mem.ledger EXCEPT ![l] = ledger]
      BY <1>10, <1>11
    <2>2. PICK r \in [Lessons -> Nat] : r = [mem.rev EXCEPT ![l] = @ + 1]
      BY <1>10, <1>11
    <2>3. PICK a \in [Lessons -> 0 .. 1] : a = [mem.attempt EXCEPT ![l] = @ + 1]
      BY <1>10, <1>11
    <2>4. PICK t : t = mem.todo \ {l}
      OBVIOUS
    <2>5. mem' = [mem EXCEPT !.todo = t, !.ledger = g, !.rev = r, !.attempt = a]
      BY <1>4, <2>1, <2>2, <2>3, <2>4
    <2>6. t \in SUBSET Lessons
      BY <1>1, <2>4 DEF Attempt
    <2> QED
      BY <1>1, <2>5, <2>6 DEF Attempt
  <1>13. /\ mem'.attempt[l] = 1 /\ mem'.rev[l] = mem.rev[l] + 1 /\ mem'.ledger[l] = ledger
         /\ \A k \in Lessons \ {l} : /\ mem'.rev[k] = mem.rev[k]
                                     /\ mem'.ledger[k] = mem.ledger[k]
                                     /\ mem'.attempt[k] = mem.attempt[k]
    BY <1>2, <1>3, <1>5, <1>10
  <1>14. Course(mem')
    <2>1. mem'.todo \subseteq mem'.again /\ \A k \in mem'.todo : mem'.attempt[k] = 0
      BY <1>1, <1>9, <1>10, <1>13 DEF Course, SameDone
    <2> QED
      BY <1>1, <1>9, <1>10, <2>1
         DEF Course, Going, Waves, Writing, Gates, SameGoal, SameGroup, SameDone
  <1>15. Typed' /\ OnLastRow'
    BY <1>1, <1>8, <1>9, <1>10, <1>12, TypedFrame, RowKept DEF Base, SameGoal
  <1> QED
    BY <1>1, <1>2, <1>3, <1>6, <1>7, <1>8, <1>9, <1>10, <1>13, <1>14, <1>15 DEF Base

(* The lessons sent back are a group of their own.                         *)
LEMMA RewrittenStep ==
    ASSUME Base, Rewritten
    PROVE  /\ Base'
           /\ mem.stage = "rewriting" /\ mem.todo = {}
           /\ SameGoal(mem', mem) /\ SameText(mem', mem) /\ mem'.paused = mem.paused
           /\ mem'.tail = mem.tail
           /\ mem'.stage = "theory" /\ mem'.phase \in {"done", "replay"}
           /\ mem'.group = mem.again /\ mem'.todo = mem.again
           /\ mem'.written = {} /\ mem'.again = {} /\ mem'.failed = {}
           /\ mem'.review = Unreviewed
           /\ UNCHANGED <<lessons, answers, runs, batches, charged, used>>
  <1>1. /\ mem.stage = "rewriting" /\ mem.todo = {} /\ mem.stage # "idle" /\ mem.phase = "done"
        /\ mem \in Attempt /\ Course(mem) /\ Going(mem) /\ mem.flying = {}
        /\ mem' = StartGroup(mem, mem.again, mem.watch)
        /\ UNCHANGED <<lessons, answers, runs, batches, charged, used>>
    BY DEF Rewritten, Base, Typed, Course, Waves, Going
  <1>2. mem.again \in SUBSET Lessons /\ mem.watch \in BOOLEAN
    BY <1>1 DEF Attempt
  <1>3. mem' \in Attempt
    BY <1>1, <1>2, StartGroupTyped
  <1>4. /\ SameGoal(mem', mem) /\ SameText(mem', mem)
        /\ mem'.paused = mem.paused /\ mem'.tail = mem.tail
        /\ mem'.group = mem.again /\ mem'.watch = mem.watch
        /\ mem'.written = Nobody /\ mem'.again = Nobody /\ mem'.review = Unreviewed
        /\ mem'.stage = "theory" /\ mem'.todo = mem.again /\ mem'.flying = Nobody
        /\ mem'.failed = Nobody
        /\ mem'.phase = IF mem.again = {} THEN "done" ELSE "replay"
    BY <1>1, <1>2, StartGroupIs
  <1>5. mem.again \subseteq mem.group /\ mem.group \subseteq mem.wanted /\ mem.tail \cap mem.group = {}
    BY <1>1 DEF Course
  <1>6. Course(mem')
    BY <1>1, <1>4, <1>5
       DEF Course, Going, Waves, Writing, Gates, SameGoal, SameText, Nobody
  <1>7. Typed' /\ OnLastRow'
    BY <1>1, <1>3, <1>4, TypedFrame, RowKept DEF Base, Typed, SameGoal
  <1> QED
    BY <1>1, <1>4, <1>6, <1>7 DEF Base, Nobody
-----------------------------------------------------------------------------
(* The types and the course of the attempt hold in every state.            *)

(* A step that changes nothing.                                            *)
LEMMA BaseStutters ==
    ASSUME Base, UNCHANGED vars
    PROVE  Base'
  BY DEF Base, Typed, OnLastRow, Expanding, vars

(* Every step keeps the types, the course and the last row.                *)
LEMMA BaseStep ==
    ASSUME Base, [Next]_vars
    PROVE  Base'
  <1>1. CASE User
    BY <1>1, PressStep DEF User
  <1>2. CASE Prepare \/ Close \/ Replay \/ Replayed \/ Await \/ Submit \/ Book \/ WaitOver
    BY <1>2, PrepareStep, CloseStep, ReplayStep, ReplayedStep, AwaitStep, SubmitStep,
       BookStep, WaitOverStep
  <1>3. CASE TheoryOver \/ PracticeOver \/ Compose \/ Composed \/ CardsOver
    BY <1>3, TheoryOverStep, PracticeOverStep, ComposeStep, ComposedStep, CardsOverStep
  <1>4. CASE GateOver \/ Verdict \/ Judged \/ Rewrite \/ Rewritten
    BY <1>4, GateOverStep, VerdictStep, JudgedStep, RewriteStep, RewrittenStep
  <1>5. CASE \E l \in Lessons : AnswerCall(l)
    BY <1>5, AnswerStep
  <1>6. CASE Faults
    BY <1>6, PrepareThrowsStep, SubmitFailsStep, CrashStep, FailStep, RefuseStep DEF Faults
  <1>7. CASE Sweep \/ Provider
    BY <1>7, ResumeStep, BatchEndsStep DEF Sweep, Provider
  <1>8. CASE UNCHANGED vars
    BY <1>8, BaseStutters
  <1> QED
    BY <1>1, <1>2, <1>3, <1>4, <1>5, <1>6, <1>7, <1>8 DEF Next, Work

(* They hold at the start.                                                 *)
LEMMA BaseInit ==
    ASSUME Init
    PROVE  Base
  <1> DEFINE row == [status |-> "pending", ledger |-> NewLedger, text |-> NoText,
                     exercises |-> {}, cards |-> 0, reviewed |-> FALSE]
  <1>1. row \in Row
    BY DEF Row, Statuses, NewLedger, LedgerType, NoText, TextType
  <1> HIDE DEF row
  <1>2. /\ lessons = [l \in Lessons |-> row] /\ answers = {} /\ runs = <<>> /\ batches = <<>>
        /\ mem = NoAttempt
        /\ charged = [once |-> {}, again |-> {}, lost |-> {}]
        /\ used = [events |-> 0, rewrites |-> [l \in Lessons |-> 0]]
    BY DEF Init, row
  <1>3. lessons \in [Lessons -> Row]
    BY <1>1, <1>2
  <1>4. runs \in Seq(Run) /\ batches \in Seq(Batch) /\ DOMAIN runs = {}
    BY <1>2, EmptySeq
  <1>5. charged \in [once : SUBSET AskType, again : SUBSET AskType, lost : SUBSET AskType]
    BY <1>2
  <1>6. used \in [events : Nat, rewrites : [Lessons -> Nat]]
    BY <1>2
  <1>7. Typed
    BY <1>2, <1>3, <1>4, <1>5, <1>6, NoAttemptTyped DEF Typed
  <1>8. Course(mem)
    BY <1>2 DEF NoAttempt, Course, Going, Waves, Writing, Gates
  <1>9. OnLastRow
    BY <1>2, <1>4, NoAttemptTyped DEF OnLastRow
  <1> QED
    BY <1>7, <1>8, <1>9 DEF Base

(* Every run is well typed: what is on the rows, what was asked, and what  *)
(* an attempt has in memory.                                               *)
THEOREM TypeCorrect == Spec => []TypeOK
  <1>1. Base => TypeOK
    <2> SUFFICES ASSUME Base PROVE TypeOK
      OBVIOUS
    <2>1. lessons \in [Lessons -> [status : {"pending", "generating", "qa", "ready", "failed"},
                                   ledger : LedgerType,
                                   text : [rev : Nat \cup {-1}, edited : BOOLEAN],
                                   exercises : SUBSET [rev : Nat, variant : Nat],
                                   cards : Nat, reviewed : BOOLEAN]]
      BY DEF Base, Typed, Row, Statuses, TextType
    <2>2. \A a \in answers : a.ask \in AskType /\ a.says \in Says(a.ask) \cup {"bad"}
      BY DEF Base, Typed
    <2>3. \A r \in DOMAIN runs :
            /\ runs[r].status \in {"expanding", "completed", "blocked_budget", "failed"}
            /\ runs[r].ids \subseteq DOMAIN batches
      BY RunsTyped DEF Base, Typed, Run
    <2>4. \A b \in DOMAIN batches : batches[b].asks \subseteq AskType
      BY RunsTyped DEF Base, Batch
    <2>5. mem.stage \in Stages /\ mem.ledger \in [Lessons -> LedgerType] /\ mem.wanted \subseteq Lessons
      BY DEF Base, Typed, Attempt
    <2>6. /\ mem.flying \subseteq mem.todo /\ mem.todo \subseteq mem.group
          /\ mem.group \subseteq mem.wanted
          /\ mem.stage # "idle" => mem.row \in DOMAIN runs
      BY DEF Base, Course, OnLastRow
    <2> QED
      BY <2>1, <2>2, <2>3, <2>4, <2>5, <2>6 DEF TypeOK, Stages
  <1> QED
    BY <1>1, BaseInit, BaseStep, PTL DEF Spec
-----------------------------------------------------------------------------
(* What is done once: the cards, and the rewrites of the gates.            *)

(* A row says no more revisions than the presses on its lesson and the one *)
(* regeneration of the gates allow.                                        *)
RowCounted(l) ==
    lessons[l].ledger.rev <= 2 * used.rewrites[l] + lessons[l].ledger.regens

(* And so does the attempt in memory, which is ahead of the rows.          *)
TextCounted(l) ==
    /\ mem.attempt[l] = mem.ledger[l].regens
    /\ mem.ledger[l].rev <= mem.rev[l]
    /\ mem.rev[l] <= 2 * used.rewrites[l] + mem.attempt[l]

Revised ==
    /\ \A l \in Lessons : RowCounted(l)
    /\ mem.stage = "preparing" /\ mem.kind = "regenerate" =>
         lessons[mem.only].ledger.rev + 1 <= 2 * used.rewrites[mem.only]
    /\ Going(mem) => \A l \in Lessons : TextCounted(l)

(* A lesson whose cards are asked for has none yet.                        *)
Carded ==
    /\ CardsOnce
    /\ mem.stage = "cards" => \A l \in mem.todo : lessons[l].cards = 0

(* The numbers of a state that is well typed.                              *)
LEMMA CountsAreNat ==
    ASSUME Base, NEW l \in Lessons
    PROVE  /\ lessons[l].ledger.rev \in Nat /\ lessons[l].ledger.regens \in 0 .. 1
           /\ lessons[l].cards \in Nat /\ used.rewrites[l] \in Nat
           /\ mem.ledger[l].rev \in Nat /\ mem.ledger[l].regens \in 0 .. 1
           /\ mem.rev[l] \in Nat /\ mem.attempt[l] \in 0 .. 1
  <1>1. /\ lessons[l] \in Row /\ mem.ledger[l] \in LedgerType /\ mem.rev[l] \in Nat
        /\ mem.attempt[l] \in 0 .. 1 /\ used.rewrites[l] \in Nat
    BY DEF Base, Typed, Attempt
  <1>2. lessons[l].ledger \in LedgerType /\ lessons[l].cards \in Nat
    BY <1>1 DEF Row
  <1> QED
    BY <1>1, <1>2 DEF LedgerType

(* A step that writes on the rows only what the attempt has in memory.     *)
RowsFollow ==
    \A l \in Lessons :
        \/ lessons'[l].ledger = lessons[l].ledger
        \/ /\ Going(mem) /\ lessons'[l].ledger.regens = mem.ledger[l].regens
           /\ lessons'[l].ledger.rev \in {mem.ledger[l].rev, mem.rev[l]}

(* A step that revises no text.                                            *)
TextFollows ==
    \/ mem'.stage = "idle"
    \/ /\ Going(mem) /\ Going(mem')
       /\ \A l \in Lessons :
            /\ mem'.rev[l] = mem.rev[l] /\ mem'.attempt[l] = mem.attempt[l]
            /\ mem'.ledger[l].regens = mem.ledger[l].regens
            /\ mem'.ledger[l].rev \in {mem.ledger[l].rev, mem.rev[l]}

(* A step whose rows and text follow what was counted keeps the count.     *)
LEMMA RevisedFollows ==
    ASSUME Base, Revised, RowsFollow, TextFollows, used'.rewrites = used.rewrites
    PROVE  Revised'
  <1>1. ASSUME NEW l \in Lessons
        PROVE  RowCounted(l)'
    <2>1. RowCounted(l) /\ (Going(mem) => TextCounted(l))
      BY DEF Revised
    <2>2. \/ lessons'[l].ledger = lessons[l].ledger
          \/ /\ Going(mem) /\ lessons'[l].ledger.regens = mem.ledger[l].regens
             /\ lessons'[l].ledger.rev \in {mem.ledger[l].rev, mem.rev[l]}
      BY DEF RowsFollow
    <2> QED
      BY <2>1, <2>2, CountsAreNat DEF RowCounted, TextCounted
  <1>2. ASSUME NEW l \in Lessons, Going(mem')
        PROVE  TextCounted(l)'
    <2>1. /\ Going(mem)
          /\ mem'.rev[l] = mem.rev[l] /\ mem'.attempt[l] = mem.attempt[l]
          /\ mem'.ledger[l].regens = mem.ledger[l].regens
          /\ mem'.ledger[l].rev \in {mem.ledger[l].rev, mem.rev[l]}
      BY <1>2 DEF TextFollows, Going
    <2>2. TextCounted(l)
      BY <2>1 DEF Revised
    <2> QED
      BY <2>1, <2>2, CountsAreNat DEF TextCounted
  <1>3. mem'.stage # "preparing"
    BY DEF TextFollows, Going
  <1> QED
    BY <1>1, <1>2, <1>3 DEF Revised

(* A step that writes no card and asks for none.                           *)
LEMMA CardedKept ==
    ASSUME Carded, \A l \in Lessons : lessons'[l].cards = lessons[l].cards,
           mem'.todo \subseteq Lessons,
           mem'.stage = "cards" => mem.stage = "cards" /\ mem'.todo \subseteq mem.todo
    PROVE  Carded'
  BY DEF Carded, CardsOnce

(* An answer writes on its row what the attempt has.                       *)
LEMMA LandsFollows ==
    ASSUME Base, NEW l \in Lessons, NEW says, Lands(l, says)
    PROVE  RowsFollow /\ TextFollows
  <1>1. /\ Going(mem) /\ Going(mem') /\ mem.ledger[l] \in LedgerType
        /\ mem.ledger \in [Lessons -> LedgerType] /\ lessons[l] \in Row
    BY DEF Lands, Waves, Going, Base, Typed, Attempt
  <1>2. \/ lessons'[l].ledger = lessons[l].ledger
        \/ /\ lessons'[l].ledger.regens = mem.ledger[l].regens
           /\ lessons'[l].ledger.rev \in {mem.ledger[l].rev, mem.rev[l]}
    <2>1. CASE mem.stage = "theory"
      <3>1. lessons'[l].ledger = [mem.ledger[l] EXCEPT !.rev = mem.rev[l]]
        BY <1>1, <2>1 DEF Lands, Row
      <3> QED
        BY <1>1, <3>1 DEF LedgerType
    <2>2. CASE mem.stage = "cards"
      BY <1>1, <2>2 DEF Lands, Row
    <2>3. CASE mem.stage \notin {"theory", "cards"}
      BY <2>3 DEF Lands
    <2> QED
      BY <2>1, <2>2, <2>3
  <1>3. RowsFollow
    <2>1. \A k \in Lessons \ {l} : lessons'[k] = lessons[k]
      BY DEF Lands
    <2> QED
      BY <1>1, <1>2, <2>1 DEF RowsFollow
  <1>4. ASSUME NEW k \in Lessons
        PROVE  /\ mem'.ledger[k].regens = mem.ledger[k].regens
               /\ mem'.ledger[k].rev \in {mem.ledger[k].rev, mem.rev[k]}
    <2>1. CASE mem.stage = "theory" /\ k = l
      <3>1. mem'.ledger[l] = [mem.ledger[l] EXCEPT !.rev = mem.rev[l]]
        BY <1>1, <2>1 DEF Lands
      <3> QED
        BY <1>1, <2>1, <3>1 DEF LedgerType
    <2>2. CASE ~(mem.stage = "theory" /\ k = l)
      <3>1. mem'.ledger[k] = mem.ledger[k]
        BY <1>1, <2>2 DEF Lands
      <3> QED
        BY <3>1
    <2> QED
      BY <2>1, <2>2
  <1>5. mem'.rev = mem.rev /\ mem'.attempt = mem.attempt
    BY DEF Lands
  <1> QED
    BY <1>1, <1>3, <1>4, <1>5 DEF TextFollows

(* The attempt keeps its text and goes on, and the rows keep theirs.       *)
LEMMA TextKeptFollows ==
    ASSUME Going(mem), Going(mem'), SameText(mem', mem)
    PROVE  TextFollows
  BY DEF TextFollows, SameText

(* Rows that are left alone follow.                                        *)
LEMMA RowsKeptFollow ==
    ASSUME lessons' = lessons
    PROVE  RowsFollow
  BY DEF RowsFollow

(* Nothing is in memory any more.                                          *)
LEMMA RestFollows ==
    ASSUME mem' = NoAttempt, lessons' = lessons
    PROVE  RowsFollow /\ TextFollows
  BY NoAttemptTyped DEF RowsFollow, TextFollows

(* A lesson that fails says what the attempt was about.                    *)
LEMMA FailsFollow ==
    ASSUME Fails, Going(mem)
    PROVE  RowsFollow
  BY DEF RowsFollow, Fails

(* A step of a wave that hears nothing revises nothing.                    *)
LEMMA WaitsFollow ==
    ASSUME Waits
    PROVE  RowsFollow /\ TextFollows
  <1>1. Going(mem) /\ Going(mem') /\ SameText(mem', mem) /\ lessons' = lessons
    BY DEF Waits, Going, Waves, SameWork
  <1> QED
    BY <1>1, TextKeptFollows, RowsKeptFollow

(* No step but a press, the reading of the rows and a rewrite of the gates *)
(* revises anything.                                                       *)
LEMMA RevisedKept ==
    ASSUME Base, Revised,
           \/ Close \/ PrepareThrows \/ Crash \/ Replay \/ Replayed \/ Await \/ WaitOver
           \/ Submit \/ SubmitFails \/ Book \/ TheoryOver \/ PracticeOver \/ Compose
           \/ Composed \/ CardsOver \/ GateOver \/ Verdict \/ Judged \/ Rewritten
           \/ \E l \in Lessons : AnswerCall(l) \/ FailCall(l) \/ RefuseCall(l)
    PROVE  Revised'
  <1>1. CASE Close \/ PrepareThrows \/ Crash
    <2>1. mem' = NoAttempt /\ lessons' = lessons /\ used'.rewrites = used.rewrites
      BY <1>1, CloseStep, PrepareThrowsStep, CrashStep
    <2> QED
      BY <2>1, RestFollows, RevisedFollows
  <1>2. CASE Replay
    <2>1. PICK l \in Lessons, a \in answers : Lands(l, a.says)
      BY <1>2, ReplayStep
    <2>2. used'.rewrites = used.rewrites
      BY <1>2, ReplayStep
    <2> QED
      BY <2>1, <2>2, LandsFollows, RevisedFollows
  <1>3. ASSUME NEW l \in Lessons, AnswerCall(l) PROVE Revised'
    <2>1. PICK says \in Says(Ask(mem, l)) : Lands(l, says)
      BY <1>3, AnswerStep
    <2>2. used'.rewrites = used.rewrites
      BY <1>3, AnswerStep
    <2> QED
      BY <2>1, <2>2, LandsFollows, RevisedFollows
  <1>4. CASE Replayed \/ Await \/ WaitOver \/ Submit \/ SubmitFails \/ Book
    <2>1. Waits /\ used'.rewrites = used.rewrites
      BY <1>4, ReplayedStep, AwaitStep, WaitOverStep, SubmitStep, SubmitFailsStep, BookStep
    <2> QED
      BY <2>1, WaitsFollow, RevisedFollows
  <1>5. ASSUME NEW l \in Lessons, FailCall(l) \/ RefuseCall(l) PROVE Revised'
    <2>1. Waits /\ used'.rewrites = used.rewrites
      BY <1>5, FailStep, RefuseStep
    <2> QED
      BY <2>1, WaitsFollow, RevisedFollows
  <1>6. CASE TheoryOver
    <2>1. Going(mem) /\ Going(mem') /\ Alike(mem', mem) /\ Fails /\ used' = used
      BY <1>6, TheoryOverStep DEF Going
    <2> QED
      BY <2>1, FailsFollow, TextKeptFollows, RevisedFollows DEF Alike
  <1>7. CASE CardsOver
    <2>1. /\ Going(mem) /\ Going(mem') /\ SameText(mem', mem) /\ Fails /\ used' = used
      BY <1>7, CardsOverStep DEF Going, Alike, Nexts
    <2> QED
      BY <2>1, FailsFollow, TextKeptFollows, RevisedFollows
  <1>8. CASE PracticeOver
    <2>1. /\ Going(mem) /\ Going(mem') /\ SameText(mem', mem) /\ lessons' = lessons
          /\ used' = used
      BY <1>8, PracticeOverStep DEF Going, Alike
    <2> QED
      BY <2>1, RowsKeptFollow, TextKeptFollows, RevisedFollows
  <1>9. CASE GateOver
    <2>1. /\ Going(mem) /\ Going(mem') /\ Alike(mem', mem) /\ lessons' = lessons
          /\ used' = used
      BY <1>9, GateOverStep DEF Going, Gates
    <2> QED
      BY <2>1, RowsKeptFollow, TextKeptFollows, RevisedFollows DEF Alike
  <1>10. CASE Judged
    <2>1. /\ Going(mem) /\ Going(mem') /\ SameText(mem', mem) /\ lessons' = lessons
          /\ used' = used
      BY <1>10, JudgedStep DEF Going, Alike, Nexts
    <2> QED
      BY <2>1, RowsKeptFollow, TextKeptFollows, RevisedFollows
  <1>11. CASE Rewritten
    <2>1. /\ Going(mem) /\ Going(mem') /\ SameText(mem', mem) /\ lessons' = lessons
          /\ used' = used
      BY <1>11, RewrittenStep DEF Going
    <2> QED
      BY <2>1, RowsKeptFollow, TextKeptFollows, RevisedFollows
  <1>12. CASE Compose
    <2>1. /\ Going(mem) /\ Going(mem') /\ used' = used
          /\ mem'.rev = mem.rev /\ mem'.attempt = mem.attempt
          /\ \A k \in Lessons : /\ mem'.ledger[k].rev = mem.ledger[k].rev
                                /\ mem'.ledger[k].regens = mem.ledger[k].regens
      BY <1>12, ComposeStep DEF Going
    <2>2. PICK l \in mem.todo :
            /\ \A k \in Lessons \ {l} : lessons'[k] = lessons[k]
            /\ lessons'[l].ledger.rev = mem.ledger[l].rev
            /\ lessons'[l].ledger.regens = mem.ledger[l].regens
      BY <1>12, ComposeStep
    <2>3. RowsFollow
      BY <2>1, <2>2 DEF RowsFollow
    <2>4. TextFollows
      BY <2>1 DEF TextFollows
    <2> QED
      BY <2>1, <2>3, <2>4, RevisedFollows
  <1>13. CASE Composed
    <2>1. /\ Going(mem) /\ Going(mem') /\ Alike(mem', mem) /\ used' = used
          /\ \A l \in Lessons : \/ lessons'[l] = lessons[l]
                                \/ lessons'[l].ledger = mem.ledger[l]
      BY <1>13, ComposedStep DEF Going
    <2>2. RowsFollow
      BY <2>1 DEF RowsFollow
    <2> QED
      BY <2>1, <2>2, TextKeptFollows, RevisedFollows DEF Alike
  <1>14. CASE Verdict
    <2>1. Going(mem) /\ Going(mem') /\ SameText(mem', mem) /\ used' = used
      BY <1>14, VerdictStep DEF Going
    <2>2. PICK l \in mem.todo :
            /\ \A k \in Lessons \ {l} : lessons'[k] = lessons[k]
            /\ lessons'[l].ledger = lessons[l].ledger
      BY <1>14, VerdictStep
    <2>3. RowsFollow
      BY <2>2 DEF RowsFollow
    <2> QED
      BY <2>1, <2>3, TextKeptFollows, RevisedFollows
  <1> QED
    BY <1>1, <1>2, <1>3, <1>4, <1>5, <1>6, <1>7, <1>8, <1>9, <1>10, <1>11, <1>12, <1>13, <1>14

(* A press on "Regenerar" makes room for two revisions of its lesson.      *)
LEMMA RevisedPress ==
    ASSUME Base, Revised, NEW k \in {"expand", "regenerate", "examples"},
           NEW l \in Lessons \cup {0}, Press(k, l)
    PROVE  Revised'
  <1>1. /\ mem'.stage = "preparing" /\ mem'.kind = k /\ mem'.only = l /\ lessons' = lessons
        /\ k # "expand" => l \in Lessons
        /\ used'.rewrites = IF k = "regenerate"
                            THEN [used.rewrites EXCEPT ![l] = @ + 1] ELSE used.rewrites
    BY PressStep
  <1>2. used.rewrites \in [Lessons -> Nat]
    BY DEF Base, Typed
  <1>3. ASSUME NEW j \in Lessons
        PROVE  /\ used'.rewrites[j] >= used.rewrites[j] /\ used'.rewrites[j] \in Nat
               /\ k = "regenerate" /\ j = l => used'.rewrites[j] = used.rewrites[j] + 1
    BY <1>1, <1>2
  <1>4. ASSUME NEW j \in Lessons
        PROVE  RowCounted(j)'
    <2>1. RowCounted(j)
      BY DEF Revised
    <2> QED
      BY <1>1, <1>3, <2>1, CountsAreNat DEF RowCounted
  <1>5. k = "regenerate" => lessons'[l].ledger.rev + 1 <= 2 * used'.rewrites[l]
    <2> SUFFICES ASSUME k = "regenerate"
                 PROVE  lessons'[l].ledger.rev + 1 <= 2 * used'.rewrites[l]
      OBVIOUS
    <2>1. l \in Lessons /\ used'.rewrites[l] = used.rewrites[l] + 1
      BY <1>1, <1>3
    <2>2. lessons[l].ledger.rev <= 2 * used.rewrites[l] + lessons[l].ledger.regens
      BY <2>1 DEF Revised, RowCounted
    <2> QED
      BY <1>1, <2>1, <2>2, CountsAreNat
  <1> QED
    BY <1>1, <1>4, <1>5 DEF Revised, Going

(* Reading the rows, the attempt is at most one revision ahead of them.    *)
LEMMA RevisedPrepare ==
    ASSUME Base, Revised, Prepare
    PROVE  Revised'
  <1>1. /\ mem.stage = "preparing" /\ mem'.stage # "preparing" /\ Prepared(mem')
        /\ lessons' = lessons /\ used' = used /\ Base'
    BY PrepareStep
  <1>2. ASSUME NEW l \in Lessons
        PROVE  TextCounted(l)'
    <2>1. RowCounted(l)
      BY DEF Revised
    <2>2. /\ mem'.ledger[l].rev = lessons[l].ledger.rev
          /\ mem'.attempt[l] = mem'.ledger[l].regens
          /\ IF mem.kind = "regenerate" /\ l \in Asked
             THEN mem'.attempt[l] = 0 /\ mem'.rev[l] = lessons[l].ledger.rev + 1
             ELSE mem'.attempt[l] = lessons[l].ledger.regens
                  /\ mem'.rev[l] = lessons[l].ledger.rev
      BY <1>1 DEF Prepared
    <2>3. CASE mem.kind = "regenerate" /\ l \in Asked
      <3>1. mem.only = l
        <4>1. mem.only # 0
          BY <2>3 DEF Base, Course
        <4> QED
          BY <2>3, <4>1 DEF Asked
      <3>2. lessons[l].ledger.rev + 1 <= 2 * used.rewrites[l]
        BY <1>1, <2>3, <3>1 DEF Revised
      <3> QED
        BY <1>1, <2>2, <2>3, <3>2, CountsAreNat DEF TextCounted
    <2>4. CASE ~(mem.kind = "regenerate" /\ l \in Asked)
      BY <1>1, <2>1, <2>2, <2>4, CountsAreNat DEF TextCounted, RowCounted
    <2> QED
      BY <2>3, <2>4
  <1>3. \A l \in Lessons : RowCounted(l)'
    BY <1>1 DEF Revised, RowCounted
  <1> QED
    BY <1>1, <1>2, <1>3 DEF Revised

(* The rewrite of the gates is the one regeneration of its attempt.        *)
LEMMA RevisedRewrite ==
    ASSUME Base, Revised, Rewrite
    PROVE  Revised'
  <1>1. mem.stage = "rewriting" /\ mem'.stage = "rewriting" /\ used' = used
    BY RewriteStep
  <1>2. PICK l \in mem.todo :
          /\ mem.attempt[l] = 0
          /\ \A k \in Lessons \ {l} : /\ lessons'[k] = lessons[k]
                                      /\ mem'.rev[k] = mem.rev[k]
                                      /\ mem'.ledger[k] = mem.ledger[k]
                                      /\ mem'.attempt[k] = mem.attempt[k]
          /\ mem'.attempt[l] = 1 /\ mem'.rev[l] = mem.rev[l] + 1
          /\ mem'.ledger[l].regens = 1 /\ mem'.ledger[l].rev = mem.rev[l] + 1
          /\ lessons'[l].ledger = mem'.ledger[l]
    BY RewriteStep
  <1>3. ASSUME NEW k \in Lessons
        PROVE  RowCounted(k)' /\ TextCounted(k)'
    <2>1. RowCounted(k) /\ TextCounted(k)
      BY <1>1 DEF Revised, Going
    <2>2. CASE k = l
      BY <1>1, <1>2, <2>1, <2>2, CountsAreNat DEF RowCounted, TextCounted
    <2>3. CASE k # l
      <3>1. /\ lessons'[k] = lessons[k] /\ mem'.rev[k] = mem.rev[k]
            /\ mem'.ledger[k] = mem.ledger[k] /\ mem'.attempt[k] = mem.attempt[k]
        BY <1>2, <2>3
      <3> QED
        BY <1>1, <2>1, <3>1 DEF RowCounted, TextCounted
    <2> QED
      BY <2>2, <2>3
  <1> QED
    BY <1>1, <1>3 DEF Revised

(* Every step keeps the count of the revisions.                            *)
LEMMA RevisedStep ==
    ASSUME Base, Revised, [Next]_vars
    PROVE  Revised'
  <1>1. CASE User
    BY <1>1, RevisedPress DEF User
  <1>2. CASE Prepare
    BY <1>2, RevisedPrepare
  <1>3. CASE Rewrite
    BY <1>3, RevisedRewrite
  <1>4. CASE Sweep
    <2>1. /\ mem'.stage = "preparing" /\ mem'.kind = "expand"
          /\ UNCHANGED <<lessons, used>>
      BY <1>4, ResumeStep DEF Sweep
    <2> QED
      BY <2>1 DEF Revised, Going, RowCounted
  <1>5. CASE Provider
    <2>1. UNCHANGED <<lessons, mem>> /\ used'.rewrites = used.rewrites
      BY <1>5, BatchEndsStep DEF Provider
    <2> QED
      BY <2>1 DEF Revised, Going, RowCounted, TextCounted
  <1>6. CASE UNCHANGED vars
    BY <1>6 DEF vars, Revised, Going, RowCounted, TextCounted
  <1>7. CASE \/ Close \/ PrepareThrows \/ Crash \/ Replay \/ Replayed \/ Await \/ WaitOver
             \/ Submit \/ SubmitFails \/ Book \/ TheoryOver \/ PracticeOver \/ Compose
             \/ Composed \/ CardsOver \/ GateOver \/ Verdict \/ Judged \/ Rewritten
             \/ \E l \in Lessons : AnswerCall(l) \/ FailCall(l) \/ RefuseCall(l)
    BY <1>7, RevisedKept
  <1> QED
    BY <1>1, <1>2, <1>3, <1>4, <1>5, <1>6, <1>7 DEF Next, Work, Faults

(* A card is written by the answer of P5 alone, for a lesson that has none.*)
LEMMA CardedLands ==
    ASSUME Base, Carded, NEW l \in Lessons, NEW says, Lands(l, says)
    PROVE  Carded'
  <1>1. /\ \A k \in Lessons \ {l} : lessons'[k] = lessons[k]
        /\ mem'.stage = mem.stage /\ mem'.todo = mem.todo \ {l} /\ l \in mem.todo
        /\ lessons[l] \in Row /\ mem.todo \subseteq Lessons
    BY DEF Lands, Base, Typed, Attempt
  <1>2. CASE mem.stage = "cards"
    <2>1. lessons'[l].cards = lessons[l].cards + 1
      BY <1>1, <1>2 DEF Lands, Row
    <2>2. lessons[l].cards = 0 /\ \A k \in mem.todo : lessons[k].cards = 0
      BY <1>1, <1>2 DEF Carded
    <2> QED
      BY <1>1, <2>1, <2>2 DEF Carded, CardsOnce
  <1>3. CASE mem.stage # "cards"
    <2>1. lessons'[l].cards = lessons[l].cards
      <3>1. CASE mem.stage = "theory"
        BY <1>1, <3>1 DEF Lands, Row
      <3>2. CASE mem.stage # "theory"
        BY <1>3, <3>2 DEF Lands
      <3> QED
        BY <3>1, <3>2
    <2> QED
      BY <1>1, <1>3, <2>1 DEF Carded, CardsOnce
  <1> QED
    BY <1>2, <1>3

(* Every step keeps the cards at one a lesson: P5 is asked for those with  *)
(* none, and no lesson that has its card is asked for again.               *)
LEMMA CardedStep ==
    ASSUME Base, Carded, [Next]_vars
    PROVE  Carded'
  <1>0. mem'.todo \subseteq Lessons
    BY BaseStep DEF Base, Typed, Attempt
  <1>1. CASE User \/ Sweep \/ Prepare \/ Close \/ PrepareThrows \/ Crash
    <2>1. lessons' = lessons /\ mem'.stage # "cards"
      BY <1>1, PressStep, ResumeStep, PrepareStep, CloseStep, PrepareThrowsStep, CrashStep,
         NoAttemptTyped DEF User, Sweep
    <2> QED
      BY <1>0, <2>1, CardedKept
  <1>2. CASE Replayed \/ Await \/ WaitOver \/ Submit \/ SubmitFails \/ Book
    <2>1. Waits /\ mem'.todo = mem.todo
      BY <1>2, ReplayedStep, AwaitStep, WaitOverStep, SubmitStep, SubmitFailsStep, BookStep
    <2> QED
      BY <1>0, <2>1, CardedKept DEF Waits
  <1>3. ASSUME NEW l \in Lessons, FailCall(l) \/ RefuseCall(l) PROVE Carded'
    <2>1. Waits /\ mem'.todo \subseteq mem.todo
      BY <1>3, FailStep, RefuseStep
    <2> QED
      BY <1>0, <2>1, CardedKept DEF Waits
  <1>4. CASE Replay \/ \E l \in Lessons : AnswerCall(l)
    BY <1>4, ReplayStep, AnswerStep, CardedLands
  <1>5. CASE TheoryOver
    <2>1. mem'.stage # "cards" /\ Fails
      BY <1>5, TheoryOverStep
    <2> QED
      BY <1>0, <2>1, CardedKept DEF Fails
  <1>6. CASE CardsOver
    <2>1. mem'.stage # "cards" /\ Fails
      BY <1>6, CardsOverStep DEF Nexts
    <2> QED
      BY <1>0, <2>1, CardedKept DEF Fails
  <1>7. CASE PracticeOver \/ GateOver \/ Judged \/ Rewritten
    <2>1. mem'.stage # "cards" /\ lessons' = lessons
      BY <1>7, PracticeOverStep, GateOverStep, JudgedStep, RewrittenStep DEF Nexts
    <2> QED
      BY <1>0, <2>1, CardedKept
  <1>8. CASE Compose
    <2>1. mem'.stage # "cards" /\ \A k \in Lessons : lessons'[k].cards = lessons[k].cards
      BY <1>8, ComposeStep
    <2> QED
      BY <1>0, <2>1, CardedKept
  <1>9. CASE Verdict
    <2>1. mem'.stage # "cards" /\ \A k \in Lessons : lessons'[k].cards = lessons[k].cards
      BY <1>9, VerdictStep
    <2> QED
      BY <1>0, <2>1, CardedKept
  <1>10. CASE Rewrite
    <2>1. mem'.stage # "cards" /\ \A k \in Lessons : lessons'[k].cards = lessons[k].cards
      BY <1>10, RewriteStep
    <2> QED
      BY <1>0, <2>1, CardedKept
  <1>11. CASE Composed
    <2>1. /\ \A k \in Lessons : lessons'[k].cards = lessons[k].cards
          /\ mem'.stage = "cards" => mem'.todo = {l \in mem.written : lessons[l].cards = 0}
      BY <1>11, ComposedStep
    <2>2. mem.written \subseteq Lessons
      BY DEF Base, Typed, Attempt
    <2> QED
      BY <2>1, <2>2 DEF Carded, CardsOnce
  <1>12. CASE Provider \/ UNCHANGED vars
    <2>1. lessons' = lessons /\ mem' = mem
      BY <1>12, BatchEndsStep DEF Provider, vars
    <2> QED
      BY <1>0, <2>1, CardedKept
  <1> QED
    BY <1>1, <1>2, <1>3, <1>4, <1>5, <1>6, <1>7, <1>8, <1>9, <1>10, <1>11, <1>12
       DEF Next, Work, Faults

(* However often the run is resumed, a lesson regenerated or sent back by  *)
(* the gates: its cards are written once, and the gates rewrite it at most *)
(* once by press of "Regenerar" and once on their own.                     *)
THEOREM DoneOnceCorrect == Spec => []DoneOnce
  <1>1. Init => Revised /\ Carded
    <2> SUFFICES ASSUME Init PROVE Revised /\ Carded
      OBVIOUS
    <2>1. /\ \A l \in Lessons : /\ lessons[l].ledger = NewLedger /\ lessons[l].cards = 0
                                /\ used.rewrites[l] = 0
          /\ mem.stage = "idle"
      BY NoAttemptTyped DEF Init
    <2> QED
      BY <2>1 DEF Revised, Carded, CardsOnce, RowCounted, Going, NewLedger
  <1>2. Base /\ Revised /\ Carded => DoneOnce
    <2> SUFFICES ASSUME Base, Revised, Carded, NEW l \in Lessons
                 PROVE  lessons[l].cards <= 1 /\ lessons[l].ledger.rev <= 2 * used.rewrites[l] + 1
      BY DEF DoneOnce, CardsOnce, RewrittenOnce
    <2>1. RowCounted(l) /\ lessons[l].cards <= 1
      BY DEF Revised, Carded, CardsOnce
    <2> QED
      BY <2>1, CountsAreNat DEF RowCounted
  <1> QED
    BY <1>1, <1>2, BaseInit, BaseStep, RevisedStep, CardedStep, PTL DEF Spec
-----------------------------------------------------------------------------
(* What P6 was shown, if there is a claim to show: the verdict is on the   *)
(* text the lesson carries.                                                *)

P6Ask(l, rev, edited) ==
    [stage |-> "p6", lesson |-> l, rev |-> rev, mark |-> IF edited THEN 1 ELSE 0]
Put(l, rev, edited) ==
    \/ <<l, rev, edited>> \in Claimless
    \/ \E a \in answers : a.ask = P6Ask(l, rev, edited) /\ a.says # "bad"
Vouches(l, rev, edited) ==
    \/ <<l, rev, edited>> \in Claimless
    \/ \E a \in answers : a.ask = P6Ask(l, rev, edited) /\ a.says \notin {"mute", "bad"}

RowVouched(l) ==
    lessons[l].status = "ready" =>
        /\ lessons[l].text.edited => Put(l, lessons[l].text.rev, TRUE)
        /\ lessons[l].reviewed =>
             Vouches(l, lessons[l].text.rev, lessons[l].text.edited)

(* What the attempt knows of a lesson it has written: its text is that of  *)
(* the row, and the gate of P6 is closed on that text only.                *)
TextVouched(l) ==
    /\ lessons[l].text.rev = mem.rev[l]
    /\ mem.review[l].gate =>
         /\ Put(l, mem.rev[l], mem.review[l].edited)
         /\ ~mem.review[l].failed => Vouches(l, mem.rev[l], mem.review[l].edited)

Judgeable == Early \cup Gates \cup {"verdict"}

Vouched ==
    /\ \A l \in Lessons : RowVouched(l)
    /\ mem.stage \in Early => mem.review = Unreviewed
    /\ mem.stage = "p6" => \A l \in Lessons : ~mem.review[l].edited
    /\ mem.stage = "p6again" => \A l \in mem.todo : mem.review[l].edited
    /\ mem.stage \in Judgeable => \A l \in mem.written : TextVouched(l)

(* A step that finishes no lesson and rewrites no text.                    *)
NoneFinished ==
    \A l \in Lessons : /\ lessons'[l].status = "ready" => lessons'[l] = lessons[l]
                       /\ lessons'[l].text = lessons[l].text

(* A step that leaves the reviews as they are, or begins a group.          *)
ReviewsKept ==
    mem'.stage \in Judgeable =>
        \/ mem'.written = {}
        \/ mem.stage \in Judgeable /\ mem'.rev = mem.rev /\ mem'.written \subseteq mem.written
           /\ Reviews

(* A step that finishes nothing and changes no text keeps what vouches for *)
(* it, for an answer of use is never removed.                              *)
LEMMA VouchedKept ==
    ASSUME Base, Vouched, NoneFinished, ReviewsKept,
           \A a \in answers : a.says # "bad" => a \in answers',
           mem'.stage \in Early => mem'.review = Unreviewed,
           mem'.stage = "p6" => \A l \in Lessons : ~mem'.review[l].edited,
           mem'.stage = "p6again" => \A l \in mem'.todo : mem'.review[l].edited
    PROVE  Vouched'
  <1>1. ASSUME NEW l \in Lessons
        PROVE  RowVouched(l)'
    <2>1. RowVouched(l) /\ (lessons'[l].status = "ready" => lessons'[l] = lessons[l])
      BY DEF Vouched, NoneFinished
    <2> QED
      BY <2>1 DEF RowVouched, Put, Vouches
  <1>2. ASSUME mem'.stage \in Judgeable, NEW l \in mem'.written
        PROVE  TextVouched(l)'
    <2>1. /\ mem.stage \in Judgeable /\ mem'.rev = mem.rev /\ l \in mem.written /\ Reviews
          /\ l \in Lessons
      BY <1>2 DEF ReviewsKept, Base, Typed, Attempt
    <2>2. TextVouched(l) /\ lessons'[l].text = lessons[l].text
      BY <2>1 DEF Vouched, NoneFinished
    <2>3. /\ mem'.review[l].edited = mem.review[l].edited
          /\ mem'.review[l].gate =>
               mem.review[l].gate \/ <<l, mem.rev[l], mem.review[l].edited>> \in Claimless
          /\ mem.review[l].failed => mem'.review[l].failed
      BY <2>1 DEF Reviews
    <2> QED
      BY <2>1, <2>2, <2>3 DEF TextVouched, Put, Vouches
  <1> QED
    BY <1>1, <1>2 DEF Vouched

(* Reviews that are left alone are kept.                                   *)
LEMMA ReviewsSame ==
    ASSUME mem'.review = mem.review
    PROVE  Reviews
  BY DEF Reviews

(* What an answer says of a lesson's text.                                 *)
LEMMA VouchedLands ==
    ASSUME Base, Vouched, NEW l \in Lessons, NEW says \in Words, Lands(l, says),
           \A a \in answers : a.says # "bad" => a \in answers',
           \E a \in answers' : a.ask = Ask(mem, l) /\ a.says = says
    PROVE  Vouched'
  <1>1. /\ mem.stage \in Waves /\ mem'.stage = mem.stage /\ l \in mem.todo
        /\ mem'.todo = mem.todo \ {l} /\ mem'.rev = mem.rev
        /\ \A k \in Lessons \ {l} : lessons'[k] = lessons[k]
        /\ mem.stage \in Judgeable
        /\ mem \in Attempt /\ lessons[l] \in Row /\ Course(mem)
    BY DEF Lands, Judgeable, Early, Gates, Waves, Base, Typed
  <1>2. /\ mem.review \in [Lessons -> Opinion] /\ mem.written \subseteq Lessons
        /\ mem.todo \subseteq Lessons /\ mem.rev[l] \in Nat
    BY <1>1 DEF Attempt
  <1>3. CASE mem.stage = "theory"
    <2>1. /\ mem'.written = mem.written \cup {l} /\ mem'.review = mem.review
          /\ lessons'[l] = [lessons[l] EXCEPT !.text = [rev |-> mem.rev[l], edited |-> FALSE],
                                     !.ledger = [mem.ledger[l] EXCEPT !.rev = mem.rev[l]],
                                     !.status = "generating"]
      BY <1>3 DEF Lands, Gates
    <2>2. lessons'[l].status = "generating" /\ lessons'[l].text.rev = mem.rev[l]
      BY <1>1, <2>1 DEF Row
    <2>3. mem.review = Unreviewed
      BY <1>3 DEF Vouched, Early
    <2>4. ASSUME NEW k \in Lessons PROVE RowVouched(k)'
      <3>1. RowVouched(k) /\ (k # l => lessons'[k] = lessons[k])
        BY <1>1 DEF Vouched
      <3> QED
        BY <2>2, <3>1 DEF RowVouched, Put, Vouches
    <2>5. ASSUME NEW k \in mem'.written PROVE TextVouched(k)'
      <3>1. k \in Lessons /\ ~mem'.review[k].gate
        BY <1>2, <2>1, <2>3 DEF Unreviewed, NoReview
      <3>2. lessons'[k].text.rev = mem'.rev[k]
        <4>1. CASE k = l
          BY <1>1, <2>2, <4>1
        <4>2. CASE k # l
          <5>1. k \in mem.written
            BY <2>1, <4>2
          <5> QED
            BY <1>1, <3>1, <4>2, <5>1 DEF Vouched, TextVouched
        <4> QED
          BY <4>1, <4>2
      <3> QED
        BY <3>1, <3>2 DEF TextVouched
    <2> QED
      BY <1>1, <1>3, <2>1, <2>3, <2>4, <2>5 DEF Vouched
  <1>4. CASE mem.stage \in {"practice", "cards"}
    <2>1. mem'.written = mem.written /\ mem'.review = mem.review
      BY <1>4 DEF Lands, Gates
    <2>2. lessons'[l].text = lessons[l].text /\ (lessons'[l].status = "ready" => lessons'[l] = lessons[l])
      <3>1. CASE mem.stage = "cards"
        BY <1>1, <3>1 DEF Lands, Row
      <3>2. CASE mem.stage = "practice"
        BY <3>2 DEF Lands
      <3> QED
        BY <1>4, <3>1, <3>2
    <2>3. NoneFinished
      BY <1>1, <2>2 DEF NoneFinished
    <2>4. ReviewsKept
      BY <1>1, <2>1, ReviewsSame DEF ReviewsKept
    <2> QED
      BY <1>1, <1>4, <2>1, <2>3, <2>4, VouchedKept DEF Vouched, Early
  <1>5. CASE mem.stage \in Gates
    <2>1. /\ mem'.written = mem.written
          /\ mem'.review = [mem.review EXCEPT ![l] = Reviewed(mem, l, says)]
          /\ lessons'[l] = lessons[l]
      BY <1>5 DEF Lands, Gates
    <2> DEFINE v == mem.review[l]
               w == Reviewed(mem, l, says)
    <2>2. mem'.review[l] = w /\ \A k \in Lessons \ {l} : mem'.review[k] = mem.review[k]
      BY <1>2, <2>1
    <2>3. v \in Opinion
      BY <1>2
    <2>4. \/ /\ mem.stage \in {"p6", "p6again"} /\ w.edited = v.edited
             /\ w.gate /\ (says = "mute" => w.failed)
          \/ /\ mem.stage \in {"p7", "p8"}
             /\ \/ ~w.gate
                \/ w.gate = v.gate /\ w.edited = v.edited /\ w.failed = v.failed
      <3>1. CASE mem.stage \in {"p6", "p6again"} /\ says = "mute"
        <4>1. w = [v EXCEPT !.gate = TRUE, !.faith = "none", !.failed = TRUE]
          BY <3>1 DEF Reviewed
        <4> HIDE DEF w, v
        <4> QED
          BY <2>3, <3>1, <4>1 DEF Opinion
      <3>2. CASE mem.stage \in {"p6", "p6again"} /\ says # "mute"
        <4>1. w = [v EXCEPT !.gate = TRUE, !.faith = says]
          BY <3>2 DEF Reviewed
        <4> HIDE DEF w, v
        <4> QED
          BY <2>3, <3>2, <4>1 DEF Opinion
      <3>3. CASE mem.stage = "p7"
        <4>1. w = [v EXCEPT !.ped = says]
          BY <3>3 DEF Reviewed
        <4> HIDE DEF w, v
        <4> QED
          BY <2>3, <3>3, <4>1 DEF Opinion
      <3>4. CASE mem.stage = "p8" /\ says = "applied"
        <4>1. w = [v EXCEPT !.edited = TRUE, !.gate = FALSE, !.faith = "none"]
          BY <3>4 DEF Reviewed, Edited
        <4> HIDE DEF w, v
        <4> QED
          BY <2>3, <3>4, <4>1 DEF Opinion
      <3>5. CASE mem.stage = "p8" /\ says # "applied"
        BY <3>5 DEF Reviewed
      <3> QED
        BY <1>5, <3>1, <3>2, <3>3, <3>4, <3>5 DEF Gates
    <2>5. mem.stage \in {"p6", "p6again"} => Ask(mem, l) = P6Ask(l, mem.rev[l], v.edited)
      <3>1. CASE mem.stage = "p6"
        <4>1. ~v.edited
          BY <3>1 DEF Vouched
        <4> QED
          BY <3>1, <4>1 DEF Ask, P6Ask
      <3>2. CASE mem.stage = "p6again"
        <4>1. v.edited
          BY <1>1, <3>2 DEF Vouched
        <4> QED
          BY <3>2, <4>1 DEF Ask, P6Ask
      <3> QED
        BY <3>1, <3>2
    <2> HIDE DEF w, v
    <2>6. ASSUME NEW k \in Lessons PROVE RowVouched(k)'
      <3>1. RowVouched(k) /\ lessons'[k] = lessons[k]
        BY <1>1, <2>1 DEF Vouched
      <3> QED
        BY <3>1 DEF RowVouched, Put, Vouches
    <2>7. l \in mem.written
      BY <1>1, <1>5 DEF Course, Writing
    <2>8. TextVouched(l)'
      <3>1. TextVouched(l) /\ lessons'[l] = lessons[l] /\ mem'.rev[l] = mem.rev[l]
        BY <1>1, <2>1, <2>7 DEF Vouched
      <3>2. CASE mem.stage \in {"p6", "p6again"}
        <4>1. /\ mem'.review[l].edited = v.edited /\ mem'.review[l].gate
              /\ (says = "mute" => mem'.review[l].failed)
          BY <2>2, <2>4, <3>2
        <4>2. PICK a \in answers' : a.ask = P6Ask(l, mem.rev[l], v.edited) /\ a.says = says
          BY <2>5, <3>2
        <4>3. says # "bad"
          BY DEF Words
        <4> QED
          BY <3>1, <4>1, <4>2, <4>3 DEF TextVouched, Put, Vouches, P6Ask
      <3>3. CASE mem.stage \in {"p7", "p8"}
        <4>1. \/ ~mem'.review[l].gate
              \/ /\ mem'.review[l].gate = v.gate /\ mem'.review[l].edited = v.edited
                 /\ mem'.review[l].failed = v.failed
          BY <2>2, <2>4, <3>3
        <4> QED
          BY <3>1, <4>1 DEF TextVouched, Put, Vouches, P6Ask, v
      <3> QED
        BY <1>5, <3>2, <3>3 DEF Gates
    <2>9. ASSUME NEW k \in mem'.written PROVE TextVouched(k)'
      <3>1. CASE k = l
        BY <2>8, <3>1
      <3>2. CASE k # l
        <4>1. k \in mem.written /\ k \in Lessons
          BY <1>2, <2>1
        <4>2. /\ TextVouched(k) /\ lessons'[k] = lessons[k] /\ mem'.rev[k] = mem.rev[k]
              /\ mem'.review[k] = mem.review[k]
          BY <1>1, <2>2, <3>2, <4>1 DEF Vouched
        <4> QED
          BY <4>2 DEF TextVouched, Put, Vouches, P6Ask
      <3> QED
        BY <3>1, <3>2
    <2>10. mem'.stage = "p6" => \A k \in Lessons : ~mem'.review[k].edited
      <3> SUFFICES ASSUME mem.stage = "p6", NEW k \in Lessons PROVE ~mem'.review[k].edited
        BY <1>1
      <3>1. ~mem.review[k].edited /\ ~v.edited
        BY DEF Vouched, v
      <3> QED
        BY <2>2, <2>4, <3>1
    <2>11. mem'.stage = "p6again" => \A k \in mem'.todo : mem'.review[k].edited
      <3> SUFFICES ASSUME mem.stage = "p6again", NEW k \in mem'.todo PROVE mem'.review[k].edited
        BY <1>1
      <3>1. k \in mem.todo /\ k # l /\ k \in Lessons
        BY <1>1, <1>2
      <3> QED
        BY <2>2, <3>1 DEF Vouched
    <2> QED
      BY <1>1, <1>5, <2>6, <2>9, <2>10, <2>11 DEF Vouched, Early, Gates
  <1> QED
    BY <1>1, <1>3, <1>4, <1>5 DEF Waves, Gates

(* The lessons are left alone.                                             *)
LEMMA RowsKeptUnfinished ==
    ASSUME lessons' = lessons
    PROVE  NoneFinished
  BY DEF NoneFinished

(* A lesson that failed is not finished, and keeps its text.               *)
LEMMA FailsUnfinished ==
    ASSUME Fails
    PROVE  NoneFinished
  BY DEF Fails, NoneFinished

(* A group begins.                                                         *)
LEMMA BeginsVouched ==
    ASSUME Base, Vouched, NoneFinished, answers' = answers,
           mem'.stage = "theory" => mem'.written = {} /\ mem'.review = Unreviewed,
           mem'.stage \in {"idle", "preparing", "closing", "theory", "rewriting"}
    PROVE  Vouched'
  BY VouchedKept DEF ReviewsKept, Judgeable, Early, Gates

(* A step of a wave that hears nothing changes no verdict.                 *)
LEMMA WaitsVouched ==
    ASSUME Base, Vouched, Waits, mem'.todo \subseteq mem.todo
    PROVE  Vouched'
  <1>1. /\ lessons' = lessons /\ answers' = answers /\ mem'.stage = mem.stage
        /\ mem'.review = mem.review /\ mem'.written = mem.written /\ mem'.rev = mem.rev
    BY DEF Waits, SameWork, SameDone, SameText
  <1>2. NoneFinished /\ Reviews
    BY <1>1, RowsKeptUnfinished, ReviewsSame
  <1>3. ReviewsKept
    BY <1>1, <1>2 DEF ReviewsKept
  <1> QED
    BY <1>1, <1>2, <1>3, VouchedKept DEF Vouched

(* The end of a wave, of the attempt or of a gate.                         *)
LEMMA VouchedOver ==
    ASSUME Base, Vouched,
           TheoryOver \/ PracticeOver \/ Compose \/ Composed \/ CardsOver \/ GateOver
    PROVE  Vouched'
  <1>1. CASE TheoryOver
    <2>1. /\ NoneFinished /\ answers' = answers /\ mem.stage = "theory" /\ Alike(mem', mem)
          /\ \/ mem'.stage = "closing"
             \/ mem'.stage = "practice" /\ mem'.review = mem.review
      BY <1>1, TheoryOverStep, FailsUnfinished
    <2>2. ReviewsKept
      BY <2>1, ReviewsSame DEF ReviewsKept, Judgeable, Early, Gates, Alike, SameText
    <2> QED
      BY <2>1, <2>2, VouchedKept DEF Vouched, Early
  <1>2. CASE PracticeOver
    <2>1. /\ NoneFinished /\ answers' = answers /\ mem.stage = "practice" /\ Alike(mem', mem)
          /\ mem'.stage = "composing" /\ mem'.review = mem.review
      BY <1>2, PracticeOverStep, RowsKeptUnfinished
    <2>2. ReviewsKept
      BY <2>1, ReviewsSame DEF ReviewsKept, Judgeable, Early, Gates, Alike, SameText
    <2> QED
      BY <2>1, <2>2, VouchedKept DEF Vouched, Early
  <1>3. CASE Compose
    <2>1. /\ answers' = answers /\ mem.stage = "composing" /\ SameDone(mem', mem)
          /\ mem'.stage = "composing" /\ mem'.rev = mem.rev
      BY <1>3, ComposeStep
    <2>2. NoneFinished
      BY <1>3, ComposeStep DEF NoneFinished
    <2>3. ReviewsKept
      BY <2>1, ReviewsSame DEF ReviewsKept, Judgeable, Early, Gates, SameDone
    <2> QED
      BY <2>1, <2>2, <2>3, VouchedKept DEF Vouched, Early, SameDone
  <1>4. CASE Composed
    <2>1. /\ answers' = answers /\ mem.stage = "composing" /\ Alike(mem', mem)
          /\ \/ mem'.stage = "closing"
             \/ mem'.stage = "cards" /\ mem'.review = mem.review
      BY <1>4, ComposedStep
    <2>2. NoneFinished
      BY <1>4, ComposedStep DEF NoneFinished
    <2>3. ReviewsKept
      BY <2>1, ReviewsSame DEF ReviewsKept, Judgeable, Early, Gates, Alike, SameText
    <2> QED
      BY <2>1, <2>2, <2>3, VouchedKept DEF Vouched, Early
  <1>5. CASE CardsOver
    <2>1. /\ NoneFinished /\ answers' = answers /\ mem.stage = "cards"
          /\ \/ mem'.stage = "closing"
             \/ Nexts
             \/ Alike(mem', mem) /\ mem'.stage = "p6" /\ Reviews
      BY <1>5, CardsOverStep, FailsUnfinished
    <2>2. CASE mem'.stage = "closing" \/ Nexts
      BY <2>1, <2>2, BeginsVouched DEF Nexts
    <2>3. CASE Alike(mem', mem) /\ mem'.stage = "p6" /\ Reviews
      <3>1. ReviewsKept
        BY <2>1, <2>3 DEF ReviewsKept, Judgeable, Early, Gates, Alike, SameText
      <3>2. \A l \in Lessons : ~mem'.review[l].edited
        <4>1. \A l \in Lessons : ~mem.review[l].edited
          BY <2>1 DEF Vouched, Early, Unreviewed, NoReview
        <4> QED
          BY <2>3, <4>1 DEF Reviews
      <3> QED
        BY <2>1, <2>3, <3>1, <3>2, VouchedKept DEF Early
    <2> QED
      BY <2>1, <2>2, <2>3
  <1>6. CASE GateOver
    <2>1. /\ NoneFinished /\ answers' = answers /\ mem.stage \in Gates /\ Alike(mem', mem)
          /\ \/ mem'.stage = "closing"
             \/ Reviews /\ mem'.stage \in {"p7", "p8", "p6again", "verdict"}
      BY <1>6, GateOverStep, RowsKeptUnfinished
    <2>2. mem'.stage = "p6again" => \A l \in mem'.todo : mem'.review[l].edited
      BY <1>6, GateOverStep
    <2>3. ReviewsKept
      BY <2>1 DEF ReviewsKept, Judgeable, Early, Gates, Alike, SameText
    <2> QED
      BY <2>1, <2>2, <2>3, VouchedKept DEF Early
  <1> QED
    BY <1>1, <1>2, <1>3, <1>4, <1>5, <1>6

(* persistQa: the edit is kept, and the lesson marked reviewed, only when  *)
(* P6 answered for the text as it is.                                      *)
LEMMA VouchedVerdict ==
    ASSUME Base, Vouched, Verdict
    PROVE  Vouched'
  <1>1. /\ mem.stage = "verdict" /\ mem'.stage = "verdict" /\ answers' = answers
        /\ mem'.written = mem.written /\ mem'.review = mem.review /\ mem'.rev = mem.rev
        /\ mem.todo \subseteq mem.written /\ mem.written \subseteq Lessons
        /\ mem.stage \in Judgeable
    BY VerdictStep DEF SameText, Judgeable, Base, Course, Typed, Attempt
  <1>2. PICK l \in mem.todo :
          /\ \A k \in Lessons \ {l} : lessons'[k] = lessons[k]
          /\ \/ lessons'[l] = lessons[l]
             \/ /\ lessons'[l].status = "ready"
                /\ lessons'[l].text.rev = lessons[l].text.rev
                /\ lessons'[l].text.edited = (mem.review[l].edited /\ mem.review[l].gate)
                /\ lessons'[l].reviewed = (~mem.review[l].failed /\ mem.review[l].gate)
    BY VerdictStep
  <1>3. /\ TextVouched(l) /\ l \in Lessons /\ mem.review[l] \in Opinion
    BY <1>1 DEF Vouched, Base, Typed, Attempt
  <1>4. ASSUME NEW k \in Lessons PROVE RowVouched(k)'
    <2>1. RowVouched(k)
      BY DEF Vouched
    <2>2. CASE lessons'[k] = lessons[k]
      BY <1>1, <2>1, <2>2 DEF RowVouched, Put, Vouches
    <2>3. CASE lessons'[k] # lessons[k]
      <3>1. /\ k = l
            /\ lessons'[l].text.rev = mem.rev[l]
            /\ lessons'[l].text.edited = (mem.review[l].edited /\ mem.review[l].gate)
            /\ lessons'[l].reviewed = (~mem.review[l].failed /\ mem.review[l].gate)
        BY <1>2, <1>3, <2>3 DEF TextVouched
      <3>2. CASE mem.review[l].gate /\ mem.review[l].edited
        <4>1. Put(l, mem.rev[l], TRUE) /\ (~mem.review[l].failed => Vouches(l, mem.rev[l], TRUE))
          BY <1>3, <3>2 DEF TextVouched, Opinion, Put, Vouches, P6Ask
        <4>2. lessons'[l].text.edited
          BY <3>1, <3>2
        <4> QED
          BY <1>1, <3>1, <4>1, <4>2 DEF RowVouched, Put, Vouches, P6Ask
      <3>3. CASE mem.review[l].gate /\ ~mem.review[l].edited
        <4>1. ~mem.review[l].failed => Vouches(l, mem.rev[l], FALSE)
          BY <1>3, <3>3 DEF TextVouched, Opinion, Put, Vouches, P6Ask
        <4>2. ~lessons'[l].text.edited
          BY <3>1, <3>3
        <4> QED
          BY <1>1, <3>1, <4>1, <4>2 DEF RowVouched, Put, Vouches, P6Ask
      <3>4. CASE ~mem.review[l].gate
        BY <3>1, <3>4 DEF RowVouched
      <3> QED
        BY <3>2, <3>3, <3>4
    <2> QED
      BY <2>2, <2>3
  <1>5. ASSUME NEW k \in mem'.written PROVE TextVouched(k)'
    <2>1. TextVouched(k) /\ k \in Lessons
      BY <1>1 DEF Vouched
    <2>2. lessons'[k].text.rev = lessons[k].text.rev
      BY <1>2, <2>1
    <2> QED
      BY <1>1, <2>1, <2>2 DEF TextVouched, Put, Vouches
  <1> QED
    BY <1>1, <1>4, <1>5 DEF Vouched, Early

(* Every step keeps what vouches for the texts.                            *)
LEMMA VouchedStep ==
    ASSUME Base, Vouched, [Next]_vars
    PROVE  Vouched'
  <1>1. CASE User \/ Sweep \/ Prepare \/ Close \/ PrepareThrows \/ Crash
    <2>1. /\ lessons' = lessons /\ answers' = answers
          /\ mem'.stage = "theory" => mem'.written = {} /\ mem'.review = Unreviewed
          /\ mem'.stage \in {"idle", "preparing", "closing", "theory"}
      BY <1>1, PressStep, ResumeStep, PrepareStep, CloseStep, PrepareThrowsStep, CrashStep,
         NoAttemptTyped DEF User, Sweep
    <2> QED
      BY <2>1, RowsKeptUnfinished, BeginsVouched
  <1>2. CASE Replayed \/ Await \/ WaitOver \/ Submit \/ SubmitFails \/ Book
    <2>1. Waits /\ mem'.todo = mem.todo
      BY <1>2, ReplayedStep, AwaitStep, WaitOverStep, SubmitStep, SubmitFailsStep, BookStep
    <2> QED
      BY <2>1, WaitsVouched
  <1>3. ASSUME NEW l \in Lessons, FailCall(l) \/ RefuseCall(l) PROVE Vouched'
    <2>1. Waits /\ mem'.todo \subseteq mem.todo
      BY <1>3, FailStep, RefuseStep
    <2> QED
      BY <2>1, WaitsVouched
  <1>4. CASE Replay
    <2>1. PICK l \in Lessons, a \in answers :
            a.ask = Ask(mem, l) /\ a.says # "bad" /\ Lands(l, a.says)
      BY <1>4, ReplayStep
    <2>2. answers' = answers /\ a.says \in Words
      <3>1. a.says \in Says(a.ask) /\ Says(a.ask) \subseteq Words
        BY <2>1, SaysWords DEF Base, Typed
      <3> QED
        BY <1>4, <3>1, ReplayStep
    <2> QED
      BY <2>1, <2>2, VouchedLands
  <1>5. ASSUME NEW l \in Lessons, AnswerCall(l) PROVE Vouched'
    <2>1. PICK says \in Says(Ask(mem, l)) :
            Lands(l, says) /\ [ask |-> Ask(mem, l), says |-> says] \in answers'
      BY <1>5, AnswerStep
    <2>2. \A a \in answers : a.says # "bad" => a \in answers'
      BY <1>5, AnswerStep DEF AnswersStay
    <2>3. says \in Words /\ \E a \in answers' : a.ask = Ask(mem, l) /\ a.says = says
      <3>1. [ask |-> Ask(mem, l), says |-> says] \in answers'
        BY <2>1
      <3> QED
        BY <3>1, SaysWords
    <2> QED
      BY <2>1, <2>2, <2>3, VouchedLands
  <1>6. CASE TheoryOver \/ PracticeOver \/ Compose \/ Composed \/ CardsOver \/ GateOver
    BY <1>6, VouchedOver
  <1>7. CASE Verdict
    BY <1>7, VouchedVerdict
  <1>8. CASE Judged
    <2>1. /\ lessons' = lessons /\ answers' = answers
          /\ mem'.stage = "theory" => mem'.written = {} /\ mem'.review = Unreviewed
          /\ mem'.stage \in {"closing", "theory", "rewriting"}
      BY <1>8, JudgedStep DEF Nexts
    <2> QED
      BY <2>1, RowsKeptUnfinished, BeginsVouched
  <1>9. CASE Rewrite
    <2>1. answers' = answers /\ mem'.stage = "rewriting"
      BY <1>9, RewriteStep
    <2>2. NoneFinished
      BY <1>9, RewriteStep DEF NoneFinished
    <2> QED
      BY <2>1, <2>2, BeginsVouched
  <1>10. CASE Rewritten
    <2>1. /\ lessons' = lessons /\ answers' = answers
          /\ mem'.written = {} /\ mem'.review = Unreviewed /\ mem'.stage = "theory"
      BY <1>10, RewrittenStep
    <2> QED
      BY <2>1, RowsKeptUnfinished, BeginsVouched
  <1>11. CASE Provider \/ UNCHANGED vars
    <2>1. /\ lessons' = lessons /\ mem' = mem
          /\ \A a \in answers : a.says # "bad" => a \in answers'
      BY <1>11, BatchEndsStep DEF Provider, vars, AnswersStay
    <2>2. ReviewsKept
      BY <2>1, ReviewsSame DEF ReviewsKept
    <2> QED
      BY <2>1, <2>2, RowsKeptUnfinished, VouchedKept DEF Vouched
  <1> QED
    BY <1>1, <1>2, <1>3, <1>4, <1>5, <1>6, <1>7, <1>8, <1>9, <1>10, <1>11
       DEF Next, Work, Faults

(* A finished lesson with P8's edits had them put to P6, and one marked    *)
(* reviewed has a verdict of P6 on the very text it carries, unless that   *)
(* text has no claim to put to P6.                                         *)
THEOREM VerdictCorrect == Spec => []VerdictOnText
  <1>1. Init => Vouched
    <2> SUFFICES ASSUME Init PROVE Vouched
      OBVIOUS
    <2>1. (\A l \in Lessons : lessons[l].status = "pending") /\ mem.stage = "idle"
      BY NoAttemptTyped DEF Init
    <2> QED
      BY <2>1 DEF Vouched, RowVouched, Judgeable, Early, Gates
  <1>2. Base /\ Vouched => VerdictOnText
    <2> SUFFICES ASSUME Base, Vouched, NEW l \in Lessons, lessons[l].status = "ready",
                        <<l, lessons[l].text.rev, lessons[l].text.edited>> \notin Claimless
                 PROVE  LET row == lessons[l]
                            shown == {a \in answers :
                                        /\ a.ask.stage = "p6" /\ a.ask.lesson = l
                                        /\ a.ask.rev = row.text.rev
                                        /\ a.ask.mark = (IF row.text.edited THEN 1 ELSE 0)
                                        /\ a.says # "bad"}
                        IN  /\ row.text.edited => shown # {}
                            /\ row.reviewed => \E a \in shown : a.says # "mute"
      BY DEF VerdictOnText
    <2>1. RowVouched(l) /\ lessons[l].text.edited \in BOOLEAN
      BY DEF Vouched, Base, Typed, Row, TextType
    <2>2. /\ lessons[l].text.edited => Put(l, lessons[l].text.rev, TRUE)
          /\ lessons[l].text.edited => <<l, lessons[l].text.rev, TRUE>> \notin Claimless
          /\ lessons[l].reviewed => Vouches(l, lessons[l].text.rev, lessons[l].text.edited)
      BY <2>1 DEF RowVouched
    <2> QED
      BY <2>2 DEF Put, Vouches, P6Ask
  <1> QED
    BY <1>1, <1>2, BaseInit, BaseStep, VouchedStep, PTL DEF Spec
-----------------------------------------------------------------------------
(* What is still to be brought to its end: the tail, and of the group what *)
(* its stage has not settled.                                              *)

Left(l) ==
    \/ l \in mem.tail
    \/ mem.stage = "theory" /\ l \in mem.todo \cup mem.written \cup mem.failed
    \/ mem.stage \in Writing /\ l \in mem.written
    \/ mem.stage = "verdict" /\ l \in mem.todo \cup mem.again
    \/ mem.stage = "rewriting" /\ l \in mem.again

Settled(l) == lessons[l].status \in {"ready", "failed"}

(* Every lesson wanted that is not left has ended, unless the budget       *)
(* paused the run; and an expansion of the path is left none that was      *)
(* finished already.                                                       *)
Brought ==
    Going(mem) =>
        /\ ~mem.paused => \A l \in mem.wanted : Left(l) \/ Settled(l)
        /\ mem.only = 0 => \A l \in Lessons : Left(l) => lessons[l].status # "ready"

(* A step that leaves no lesson behind, and takes up none again.           *)
Progress ==
    /\ Going(mem) /\ SameGoal(mem', mem)
    /\ mem.paused => mem'.paused
    /\ \A l \in Lessons :
         /\ mem'.paused \/ Left(l)' \/ Settled(l)' \/ (~Left(l) /\ lessons'[l] = lessons[l])
         /\ Left(l)' => Left(l) /\ (lessons'[l].status = "ready" => lessons'[l] = lessons[l])

(* Progress leaves no lesson behind.                                       *)
LEMMA BroughtProgress ==
    ASSUME Base, Brought, Progress
    PROVE  Brought'
  <1> SUFFICES ASSUME Going(mem') PROVE Brought'
    BY DEF Brought
  <1>1. /\ Going(mem) /\ mem'.only = mem.only /\ mem'.wanted = mem.wanted
        /\ mem.wanted \subseteq Lessons
        /\ mem.paused => mem'.paused
    BY DEF Progress, SameGoal, Base, Typed, Attempt
  <1>2. ASSUME ~mem'.paused, NEW l \in mem'.wanted PROVE Left(l)' \/ Settled(l)'
    <2>1. l \in mem.wanted /\ l \in Lessons /\ ~mem.paused
      BY <1>1, <1>2
    <2>2. Left(l) \/ Settled(l)
      BY <1>1, <2>1 DEF Brought
    <2>3. Left(l)' \/ Settled(l)' \/ (~Left(l) /\ lessons'[l] = lessons[l])
      BY <1>2, <2>1 DEF Progress
    <2> QED
      BY <2>2, <2>3 DEF Settled
  <1>3. ASSUME mem'.only = 0, NEW l \in Lessons, Left(l)' PROVE lessons'[l].status # "ready"
    <2>1. Left(l) /\ (lessons'[l].status = "ready" => lessons'[l] = lessons[l])
      BY <1>3 DEF Progress
    <2>2. lessons[l].status # "ready"
      BY <1>1, <1>3, <2>1 DEF Brought
    <2> QED
      BY <2>1, <2>2
  <1> QED
    BY <1>2, <1>3 DEF Brought

(* A step that leaves the same lessons, and changes the rows of those only.*)
LEMMA SameLeftProgress ==
    ASSUME Going(mem), SameGoal(mem', mem), mem.paused => mem'.paused,
           \A l \in Lessons : Left(l)' <=> Left(l),
           \A l \in Lessons : \/ lessons'[l] = lessons[l]
                              \/ lessons'[l].status = "failed"
                              \/ Left(l) /\ lessons'[l].status # "ready"
    PROVE  Progress
  BY DEF Progress, Settled

(* The wave goes on.                                                       *)
LEMMA WaitsProgress ==
    ASSUME Base, Waits, mem.paused => mem'.paused,
           mem.stage = "theory" => mem'.todo \cup mem'.failed = mem.todo \cup mem.failed
    PROVE  Progress
  <1>1. /\ Going(mem) /\ SameGoal(mem', mem) /\ mem'.tail = mem.tail
        /\ mem'.stage = mem.stage /\ mem'.written = mem.written /\ lessons' = lessons
        /\ mem.stage \in Waves
    BY DEF Waits, Going, Waves, SameWork, SameGroup, SameDone
  <1>2. \A l \in Lessons : Left(l)' <=> Left(l)
    BY <1>1 DEF Left, Waves
  <1> QED
    BY <1>1, <1>2, SameLeftProgress

(* An answer leaves its lesson to the stages that follow.                  *)
LEMMA LandsProgress ==
    ASSUME Base, NEW l \in Lessons, NEW says, Lands(l, says)
    PROVE  Progress
  <1>1. /\ Going(mem) /\ SameGoal(mem', mem) /\ mem'.tail = mem.tail
        /\ mem'.stage = mem.stage /\ mem'.paused = mem.paused /\ mem.stage \in Waves
        /\ mem'.failed = mem.failed /\ mem'.todo = mem.todo \ {l} /\ l \in mem.todo
        /\ \A k \in Lessons \ {l} : lessons'[k] = lessons[k]
        /\ lessons[l] \in Row /\ Course(mem)
    BY DEF Lands, Going, Waves, SameGroup, Base, Typed
  <1>2. mem'.written = IF mem.stage = "theory" THEN mem.written \cup {l} ELSE mem.written
    BY DEF Lands
  <1>3. \A k \in Lessons : Left(k)' <=> Left(k)
    BY <1>1, <1>2 DEF Left, Waves
  <1>4. \/ lessons'[l] = lessons[l]
        \/ Left(l) /\ lessons'[l].status # "ready"
    <2>1. CASE mem.stage = "theory"
      BY <1>1, <2>1 DEF Lands, Row, Left
    <2>2. CASE mem.stage = "cards"
      <3>1. l \in mem.written
        BY <1>1, <2>2 DEF Course, Writing
      <3>2. lessons'[l].status = "qa"
        BY <1>1, <2>2 DEF Lands, Row
      <3> QED
        BY <2>2, <3>1, <3>2 DEF Left, Writing
    <2>3. CASE mem.stage \notin {"theory", "cards"}
      BY <2>3 DEF Lands
    <2> QED
      BY <2>1, <2>2, <2>3
  <1> QED
    BY <1>1, <1>3, <1>4, SameLeftProgress

(* A stage is over.                                                        *)
LEMMA ProgressOver ==
    ASSUME Base, TheoryOver \/ PracticeOver \/ Composed \/ CardsOver \/ GateOver
    PROVE  Progress
  <1>1. CASE TheoryOver
    <2>1. /\ mem.stage = "theory" /\ Alike(mem', mem) /\ Fails
          /\ (mem.paused \/ mem.todo = {})
          /\ \A l \in mem.failed : lessons'[l].status = "failed"
          /\ \/ mem.paused /\ mem'.stage = "closing"
             \/ ~mem.paused /\ mem'.stage = "practice"
      BY <1>1, TheoryOverStep
    <2>2. /\ Going(mem) /\ SameGoal(mem', mem) /\ mem'.paused = mem.paused
          /\ mem'.tail = mem.tail /\ mem'.written = mem.written
      BY <2>1 DEF Going, Alike, SameGroup
    <2>3. ASSUME NEW l \in Lessons
          PROVE  /\ \/ mem'.paused \/ Left(l)' \/ Settled(l)'
                    \/ (~Left(l) /\ lessons'[l] = lessons[l])
                 /\ Left(l)' => Left(l) /\ (lessons'[l].status = "ready" => lessons'[l] = lessons[l])
      <3>1. lessons'[l] = lessons[l] \/ (l \in mem.failed /\ lessons'[l].status = "failed")
        BY <2>1 DEF Fails
      <3>2. Left(l)' => Left(l)
        BY <2>1, <2>2 DEF Left, Writing, Gates
      <3>3. mem'.paused \/ Left(l)' \/ Settled(l)' \/ ~Left(l)
        BY <2>1, <2>2 DEF Left, Writing, Gates, Settled
      <3> QED
        BY <3>1, <3>2, <3>3 DEF Settled
    <2> QED
      BY <2>2, <2>3 DEF Progress
  <1>2. CASE PracticeOver
    <2>1. /\ mem.stage = "practice" /\ Alike(mem', mem) /\ lessons' = lessons
          /\ mem'.stage = "composing"
      BY <1>2, PracticeOverStep
    <2>2. \A l \in Lessons : Left(l)' <=> Left(l)
      BY <2>1 DEF Left, Writing, Gates, Alike, SameGroup
    <2> QED
      BY <2>1, <2>2, SameLeftProgress DEF Going, Alike
  <1>3. CASE Composed
    <2>1. /\ mem.stage = "composing" /\ Alike(mem', mem)
          /\ \/ mem.paused /\ mem'.stage = "closing" /\ lessons' = lessons
             \/ ~mem.paused /\ mem'.stage = "cards"
          /\ \A l \in Lessons : \/ lessons'[l] = lessons[l]
                                \/ l \in mem.written /\ lessons'[l].status = "qa"
      BY <1>3, ComposedStep
    <2>2. /\ Going(mem) /\ SameGoal(mem', mem) /\ mem'.paused = mem.paused
          /\ mem'.tail = mem.tail /\ mem'.written = mem.written
      BY <2>1 DEF Going, Alike, SameGroup
    <2>3. CASE mem.paused
      <3>1. \A l \in Lessons : Left(l)' => Left(l)
        BY <2>1, <2>2, <2>3 DEF Left, Writing, Gates
      <3> QED
        BY <2>1, <2>2, <2>3, <3>1 DEF Progress
    <2>4. CASE ~mem.paused
      <3>1. \A l \in Lessons : Left(l)' <=> Left(l)
        BY <2>1, <2>2, <2>4 DEF Left, Writing, Gates
      <3>2. \A l \in Lessons : \/ lessons'[l] = lessons[l]
                               \/ Left(l) /\ lessons'[l].status # "ready"
        BY <2>1 DEF Left, Writing
      <3> QED
        BY <2>2, <3>1, <3>2, SameLeftProgress
    <2> QED
      BY <2>1, <2>3, <2>4
  <1>4. CASE CardsOver
    <2>1. /\ mem.stage = "cards" /\ Fails
          /\ \/ mem.paused /\ Alike(mem', mem) /\ mem'.stage = "closing"
             \/ ~mem.paused /\ mem.written = {} /\ Nexts
             \/ ~mem.paused /\ Alike(mem', mem) /\ mem'.stage = "p6"
      BY <1>4, CardsOverStep
    <2>2. Going(mem) /\ SameGoal(mem', mem) /\ mem'.paused = mem.paused
      BY <2>1 DEF Going, Alike, Nexts
    <2>3. \A l \in Lessons : lessons'[l] = lessons[l] \/ lessons'[l].status = "failed"
      BY <2>1 DEF Fails
    <2>4. CASE mem.paused
      <3>1. Alike(mem', mem) /\ mem'.stage = "closing"
        BY <2>1, <2>4
      <3>2. \A l \in Lessons : Left(l)' => Left(l)
        BY <3>1 DEF Left, Writing, Gates, Alike, SameGroup
      <3> QED
        BY <2>2, <2>3, <2>4, <3>2 DEF Progress
    <2>5. CASE ~mem.paused
      <3>1. \A l \in Lessons : Left(l)' <=> Left(l)
        BY <2>1, <2>5 DEF Left, Writing, Gates, Alike, SameGroup, Nexts
      <3> QED
        BY <2>2, <2>3, <3>1, SameLeftProgress
    <2> QED
      BY <2>1, <2>4, <2>5
  <1>5. CASE GateOver
    <2>1. /\ mem.stage \in Gates /\ Alike(mem', mem) /\ lessons' = lessons
          /\ \/ mem.paused /\ mem'.stage = "closing"
             \/ ~mem.paused /\ mem'.stage \in {"p7", "p8", "p6again"}
             \/ ~mem.paused /\ mem'.stage = "verdict" /\ mem'.todo = mem.written
      BY <1>5, GateOverStep
    <2>2. /\ Going(mem) /\ SameGoal(mem', mem) /\ mem'.paused = mem.paused
          /\ mem'.tail = mem.tail /\ mem'.written = mem.written /\ mem'.again = mem.again
          /\ mem.again = {}
      BY <2>1 DEF Going, Alike, SameGroup, Gates, Base, Course, Waves
    <2>3. CASE mem.paused
      <3>1. \A l \in Lessons : Left(l)' => Left(l)
        BY <2>1, <2>2, <2>3 DEF Left, Writing, Gates
      <3> QED
        BY <2>1, <2>2, <2>3, <3>1 DEF Progress
    <2>4. CASE ~mem.paused
      <3>1. \A l \in Lessons : Left(l)' <=> Left(l)
        BY <2>1, <2>2, <2>4 DEF Left, Writing, Gates
      <3> QED
        BY <2>1, <2>2, <3>1, SameLeftProgress
    <2> QED
      BY <2>1, <2>3, <2>4
  <1> QED
    BY <1>1, <1>2, <1>3, <1>4, <1>5

(* One lesson is settled.                                                  *)
LEMMA ProgressOnOne ==
    ASSUME Base, Compose \/ Verdict \/ Judged \/ Rewrite \/ Rewritten
    PROVE  Progress
  <1>1. CASE Compose
    <2>1. /\ mem.stage = "composing" /\ mem'.stage = "composing" /\ SameGoal(mem', mem)
          /\ mem'.tail = mem.tail /\ mem'.written = mem.written /\ mem'.paused = mem.paused
          /\ mem.todo \subseteq mem.written
      BY <1>1, ComposeStep DEF SameGroup, SameDone, Base, Course, Writing
    <2>2. \A l \in Lessons : lessons'[l] = lessons[l]
                             \/ (l \in mem.written /\ lessons'[l].status = "generating")
      BY <1>1, <2>1, ComposeStep
    <2>3. \A l \in Lessons : Left(l)' <=> Left(l)
      BY <2>1 DEF Left, Writing, Gates
    <2>4. \A l \in Lessons : lessons'[l] = lessons[l] \/ (Left(l) /\ lessons'[l].status # "ready")
      BY <2>1, <2>2 DEF Left, Writing
    <2> QED
      BY <2>1, <2>3, <2>4, SameLeftProgress DEF Going
  <1>2. CASE Verdict
    <2>1. /\ mem.stage = "verdict" /\ mem'.stage = "verdict" /\ SameGoal(mem', mem)
          /\ mem'.tail = mem.tail /\ mem'.paused = mem.paused
          /\ mem.todo \cap mem.again = {} /\ mem.tail \cap mem.group = {}
          /\ mem.todo \subseteq mem.group
      BY <1>2, VerdictStep DEF SameGroup, Base, Course
    <2>2. PICK l \in mem.todo :
            /\ mem'.todo = mem.todo \ {l}
            /\ \A k \in Lessons \ {l} : lessons'[k] = lessons[k]
            /\ \/ mem'.again = mem.again \cup {l} /\ lessons'[l] = lessons[l]
               \/ mem'.again = mem.again /\ lessons'[l].status = "ready"
      BY <1>2, VerdictStep
    <2>3. ASSUME NEW k \in Lessons
          PROVE  /\ Left(k)' \/ Settled(k)' \/ (~Left(k) /\ lessons'[k] = lessons[k])
                 /\ Left(k)' => Left(k) /\ (lessons'[k].status = "ready" => lessons'[k] = lessons[k])
      <3>1. CASE k # l
        <4>1. lessons'[k] = lessons[k]
          BY <2>2, <3>1
        <4>2. Left(k)' <=> Left(k)
          BY <2>1, <2>2, <3>1 DEF Left, Writing, Gates
        <4> QED
          BY <4>1, <4>2
      <3>2. CASE k = l /\ mem'.again = mem.again \cup {l} /\ lessons'[l] = lessons[l]
        BY <2>1, <2>2, <3>2 DEF Left
      <3>3. CASE k = l /\ mem'.again = mem.again /\ lessons'[l].status = "ready"
        <4>1. Settled(k)'
          BY <3>3 DEF Settled
        <4>2. l \notin mem'.todo \cup mem'.again /\ l \notin mem'.tail
          BY <2>1, <2>2, <3>3
        <4>3. ~Left(k)'
          BY <2>1, <3>3, <4>2 DEF Left, Writing, Gates
        <4> QED
          BY <4>1, <4>3
      <3> QED
        BY <2>2, <3>1, <3>2, <3>3
    <2> QED
      BY <2>1, <2>3 DEF Progress, Going
  <1>3. CASE Judged
    <2>1. /\ mem.stage = "verdict" /\ mem.todo = {} /\ lessons' = lessons
          /\ \/ mem.again = {} /\ Nexts
             \/ Alike(mem', mem) /\ mem'.stage = "rewriting"
      BY <1>3, JudgedStep
    <2>2. \A l \in Lessons : Left(l)' <=> Left(l)
      BY <2>1 DEF Left, Writing, Gates, Alike, SameGroup, Nexts
    <2> QED
      BY <2>1, <2>2, SameLeftProgress DEF Going, Alike, Nexts
  <1>4. CASE Rewrite
    <2>1. /\ mem.stage = "rewriting" /\ mem'.stage = "rewriting" /\ SameGoal(mem', mem)
          /\ mem'.tail = mem.tail /\ mem'.again = mem.again /\ mem'.paused = mem.paused
          /\ mem.todo \subseteq mem.again
      BY <1>4, RewriteStep DEF SameGroup, SameDone, Base, Course
    <2>2. \A l \in Lessons : lessons'[l] = lessons[l]
                             \/ (l \in mem.again /\ lessons'[l].status = "generating")
      BY <1>4, <2>1, RewriteStep
    <2>3. \A l \in Lessons : Left(l)' <=> Left(l)
      BY <2>1 DEF Left, Writing, Gates
    <2>4. \A l \in Lessons : lessons'[l] = lessons[l] \/ (Left(l) /\ lessons'[l].status # "ready")
      BY <2>1, <2>2 DEF Left
    <2> QED
      BY <2>1, <2>3, <2>4, SameLeftProgress DEF Going
  <1>5. CASE Rewritten
    <2>1. /\ mem.stage = "rewriting" /\ lessons' = lessons /\ SameGoal(mem', mem)
          /\ mem'.paused = mem.paused /\ mem'.tail = mem.tail
          /\ mem'.stage = "theory" /\ mem'.todo = mem.again
          /\ mem'.written = {} /\ mem'.failed = {}
      BY <1>5, RewrittenStep
    <2>2. \A l \in Lessons : Left(l)' <=> Left(l)
      BY <2>1 DEF Left, Writing, Gates
    <2> QED
      BY <2>1, <2>2, SameLeftProgress DEF Going
  <1> QED
    BY <1>1, <1>2, <1>3, <1>4, <1>5

(* Every step leaves no lesson behind.                                     *)
LEMMA BroughtStep ==
    ASSUME Base, Brought, [Next]_vars
    PROVE  Brought'
  <1>1. CASE User \/ Sweep \/ Close \/ PrepareThrows \/ Crash
    <2>1. mem'.stage \in {"idle", "preparing"}
      BY <1>1, PressStep, ResumeStep, CloseStep, PrepareThrowsStep, CrashStep,
         NoAttemptTyped DEF User, Sweep
    <2> QED
      BY <2>1 DEF Brought, Going
  <1>2. CASE Prepare
    <2>1. /\ mem'.only = mem.only /\ mem'.wanted = Asked /\ lessons' = lessons
          /\ \/ Asked = {} /\ mem'.stage = "closing" /\ mem'.tail = {}
             \/ /\ mem'.stage = "theory" /\ mem'.todo = mem'.group
                /\ mem'.tail = Asked \ mem'.group /\ mem'.written = {} /\ mem'.failed = {}
          /\ Course(mem')
      BY <1>2, PrepareStep DEF Base
    <2>2. \A l \in Asked : Left(l)'
      BY <2>1 DEF Left
    <2>3. \A l \in Lessons : Left(l)' => l \in Asked
      BY <2>1 DEF Left, Course, Writing, Gates
    <2>4. mem.only = 0 => \A l \in Asked : lessons[l].status # "ready"
      BY DEF Asked
    <2> QED
      BY <2>1, <2>2, <2>3, <2>4 DEF Brought
  <1>3. CASE Replayed \/ Await \/ WaitOver \/ Submit \/ SubmitFails \/ Book
    <2>1. /\ Waits /\ mem'.todo = mem.todo /\ mem'.failed = mem.failed
          /\ mem.paused => mem'.paused
      BY <1>3, ReplayedStep, AwaitStep, WaitOverStep, SubmitStep, SubmitFailsStep, BookStep
    <2> QED
      BY <2>1, WaitsProgress, BroughtProgress
  <1>4. ASSUME NEW l \in Lessons, FailCall(l) PROVE Brought'
    <2>1. /\ Waits /\ mem'.todo = mem.todo \ {l} /\ mem'.failed = mem.failed \cup {l}
          /\ l \in mem.todo /\ mem'.paused = mem.paused
      BY <1>4, FailStep
    <2>2. mem'.todo \cup mem'.failed = mem.todo \cup mem.failed
      BY <2>1
    <2> QED
      BY <2>1, <2>2, WaitsProgress, BroughtProgress
  <1>5. ASSUME NEW l \in Lessons, RefuseCall(l) PROVE Brought'
    <2>1. Waits /\ mem'.todo = mem.todo /\ mem'.failed = mem.failed /\ mem'.paused
      BY <1>5, RefuseStep
    <2> QED
      BY <2>1, WaitsProgress, BroughtProgress
  <1>6. CASE Replay \/ \E l \in Lessons : AnswerCall(l)
    BY <1>6, ReplayStep, AnswerStep, LandsProgress, BroughtProgress
  <1>7. CASE TheoryOver \/ PracticeOver \/ Composed \/ CardsOver \/ GateOver
    BY <1>7, ProgressOver, BroughtProgress
  <1>8. CASE Compose \/ Verdict \/ Judged \/ Rewrite \/ Rewritten
    BY <1>8, ProgressOnOne, BroughtProgress
  <1>9. CASE Provider \/ UNCHANGED vars
    <2>1. lessons' = lessons /\ mem' = mem
      BY <1>9, BatchEndsStep DEF Provider, vars
    <2> QED
      BY <2>1 DEF Brought, Going, Left, Settled
  <1> QED
    BY <1>1, <1>2, <1>3, <1>4, <1>5, <1>6, <1>7, <1>8, <1>9 DEF Next, Work, Faults

(* Only the last checkpoint completes a row.                               *)
LEMMA OnlyCloseCompletes ==
    ASSUME Base, [Next]_vars, ~Close, NEW r \in DOMAIN runs
    PROVE  ~(runs[r].status = "expanding" /\ runs'[r].status = "completed")
  <1>1. CASE User
    BY <1>1, PressStep, RowAdded DEF User, Base
  <1>2. CASE PrepareThrows
    <2>1. /\ mem.row \in DOMAIN runs /\ runs'[mem.row].status = "failed"
          /\ \A q \in DOMAIN runs \ {mem.row} : runs'[q] = runs[q]
      BY <1>2, PrepareThrowsStep DEF Base, OnLastRow
    <2> QED
      BY <2>1
  <1>3. CASE Book
    BY <1>3, BookStep
  <1>4. CASE ~(User \/ PrepareThrows \/ Book)
    <2>1. runs' = runs
      BY <1>4 DEF Next, Work, Faults, Sweep, Provider, vars, Prepare, Replay, Replayed, Await,
         Submit, WaitOver, TheoryOver, PracticeOver, Compose, Composed, CardsOver, GateOver,
         Verdict, Judged, Rewrite, Rewritten, AnswerCall, SubmitFails, Crash, FailCall,
         RefuseCall, Resume, BatchEnds
    <2> QED
      BY <2>1
  <1> QED
    BY <1>1, <1>2, <1>3, <1>4

(* A run that says it completed has brought every lesson it took to its    *)
(* end.                                                                    *)
THEOREM CompletedCorrect == Spec => CompletedLeavesNone
  <1>1. Init => Brought
    BY NoAttemptTyped DEF Init, Brought, Going
  <1>2. ASSUME Base, Brought, [Next]_vars, NEW r \in DOMAIN runs,
               runs[r].status = "expanding", runs'[r].status = "completed",
               NEW l \in mem.wanted
        PROVE  lessons'[l].status \in {"ready", "failed"}
    <2>1. Close
      BY <1>2, OnlyCloseCompletes
    <2>2. /\ mem.stage = "closing" /\ lessons' = lessons
          /\ \A q \in DOMAIN runs \ {mem.row} : runs'[q] = runs[q]
          /\ runs'[mem.row].status = IF mem.paused THEN "blocked_budget" ELSE "completed"
      BY <1>2, <2>1, CloseStep
    <2>3. ~mem.paused
      BY <1>2, <2>2
    <2>4. mem.tail = {}
      BY <1>2, <2>2, <2>3 DEF Base, Course
    <2>5. ~Left(l)
      BY <2>2, <2>4 DEF Left, Writing, Gates
    <2> QED
      BY <1>2, <2>2, <2>3, <2>5 DEF Brought, Going, Settled
  <1>3. Base /\ Brought /\ [Next]_vars =>
          [\A r \in DOMAIN runs :
             runs[r].status = "expanding" /\ runs'[r].status = "completed" =>
               \A l \in mem.wanted : lessons'[l].status \in {"ready", "failed"}]_vars
    BY <1>2
  <1> QED
    BY <1>1, <1>3, BaseInit, BaseStep, BroughtStep, PTL DEF Spec, CompletedLeavesNone
-----------------------------------------------------------------------------
(* What is paid: nothing after an answer of use, unless nobody awaits the  *)
(* batch that brings it.                                                   *)

(* The batches on the row that expands, and those still at the provider.   *)
OnRow(b) == runs # <<>> /\ Expanding(Len(runs)) /\ b \in ReadIds(Len(runs))
Flight(b) == OnRow(b) /\ ~batches[b].over
NoFlight == \A b \in DOMAIN batches : ~Flight(b)

(* A batch somebody will wait for; and one that can still bring something  *)
(* that was not lost already.                                              *)
Held(b) == OnRow(b) \/ (mem.phase = "booking" /\ b = mem.batch)
Lone(b) == ~batches[b].over /\ ~(batches[b].asks \subseteq charged.lost)

(* What can be asked without paying twice.                                 *)
Fresh(ask) == ask \in charged.once => ask \in charged.lost

Bills == PaidOnce /\ \A ask \in charged.once : ask \in charged.lost \/ Usable(ask)

(* A batch that can still bring something is held, asks for nothing that   *)
(* was paid and kept, and is the only one; and a batch that is held asks   *)
(* about a lesson that is not finished, so that an expansion will meet it. *)
Batched ==
    /\ \A b \in DOMAIN batches : Lone(b) => Held(b) /\ \A ask \in batches[b].asks : Fresh(ask)
    /\ \A b, c \in DOMAIN batches : Lone(b) /\ Lone(c) => b = c
    /\ \A b \in DOMAIN batches : ~batches[b].over /\ Held(b) =>
         \E ask \in batches[b].asks : lessons[ask.lesson].status # "ready"

(* What is about to be paid.                                               *)
Calls ==
    /\ mem.phase = "calls" => \A l \in mem.flying : Fresh(Ask(mem, l))
    /\ mem.phase = "submitting" =>
         mem.todo # {} /\ ~mem.watch /\ \A l \in mem.todo : Fresh(Ask(mem, l))

(* When a batch may be at the provider: before the first wave has awaited  *)
(* it, and while the one of this wave is waited for.                       *)
Loose ==
    \/ mem.stage \in {"idle", "preparing"}
    \/ mem.stage = "theory" /\ mem.phase \in {"replay", "await"}
    \/ mem.phase = "waiting"

Awaited ==
    /\ mem.phase = "waiting" => \A b \in DOMAIN batches : Flight(b) => b = mem.batch
    /\ Loose \/ NoFlight

Paid == Bills /\ Batched /\ Calls /\ Awaited

(* The batches out, of a row in memory.                                    *)
LEMMA OutIsFlight ==
    ASSUME Base, mem.stage # "idle"
    PROVE  /\ Out(mem.row) = {} <=> NoFlight
           /\ \A b \in Out(mem.row) : b \in DOMAIN batches /\ Flight(b)
           /\ \A b \in DOMAIN batches : Flight(b) => b \in Out(mem.row)
  <1>1. /\ mem.row \in DOMAIN runs /\ mem.row = Len(runs) /\ Expanding(mem.row)
        /\ runs[mem.row].ids \subseteq DOMAIN batches
    BY DEF Base, Typed, OnLastRow
  <1>2. runs # <<>>
    BY <1>1, RunsTyped DEF Base
  <1> QED
    BY <1>1, <1>2 DEF Out, ReadIds, NoFlight, Flight, OnRow

(* With nothing at the provider, no batch can bring anything.              *)
LEMMA NoneLone ==
    ASSUME Base, Paid, NoFlight, mem.phase # "booking"
    PROVE  \A b \in DOMAIN batches : ~Lone(b) /\ (~batches[b].over => ~Held(b))
  BY DEF Paid, Batched, NoFlight, Flight, Held, Lone

(* Between two waves nothing is at the provider.                           *)
LEMMA ClearBetween ==
    ASSUME Base, Paid, Going(mem), ~Loose
    PROVE  NoFlight
  BY DEF Paid, Awaited

(* A step that gets, submits and books nothing, and finishes no lesson.    *)
LEMMA PaidQuiet ==
    ASSUME Base, Paid, UNCHANGED <<answers, runs, batches>>,
           charged'.once = charged.once, charged'.lost = charged.lost,
           charged'.again \subseteq charged.again \cup charged.lost,
           \A l \in Lessons : lessons'[l].status = "ready" => lessons[l].status = "ready",
           mem.phase # "booking", mem'.phase # "booking", Calls', Awaited'
    PROVE  Paid'
  <1>1. Bills'
    BY DEF Paid, Bills, PaidOnce, Usable
  <1>2. Batched'
    <2>1. \A b \in DOMAIN batches : /\ Held(b)' <=> Held(b)
                                    /\ Lone(b)' <=> Lone(b)
      BY DEF Held, OnRow, Expanding, ReadIds, Lone
    <2>2. \A b \in DOMAIN batches : \A ask \in batches[b].asks :
             (Fresh(ask)' <=> Fresh(ask)) /\ ask.lesson \in Lessons
      BY RunsTyped DEF Fresh, Base, Batch, AskType
    <2> QED
      BY <2>1, <2>2 DEF Paid, Batched
  <1> QED
    BY <1>1, <1>2 DEF Paid

(* A step between two waves.                                               *)
LEMMA PaidClear ==
    ASSUME Base, Paid, UNCHANGED <<answers, runs, batches, charged>>,
           Going(mem), mem.phase \in {"done", "calls"}, mem'.phase \in {"done", "replay"}
    PROVE  Paid'
  <1>1. NoFlight
    BY ClearBetween DEF Loose, Going
  <1>2. \A b \in DOMAIN batches : ~Lone(b) /\ (~batches[b].over => ~Held(b))
    BY <1>1, NoneLone
  <1>3. Bills'
    BY DEF Paid, Bills, PaidOnce, Usable
  <1>4. \A b \in DOMAIN batches : /\ Held(b)' => Held(b)
                                  /\ Lone(b)' <=> Lone(b)
    BY DEF Held, OnRow, Expanding, ReadIds, Lone
  <1>5. Batched'
    BY <1>2, <1>4 DEF Batched
  <1>6. Calls' /\ Awaited'
    BY <1>1 DEF Calls, Awaited, NoFlight, Flight, OnRow, Expanding, ReadIds
  <1> QED
    BY <1>3, <1>5, <1>6 DEF Paid

(* The wave goes on asking what it asked.                                  *)
LEMMA AskKept ==
    ASSUME Base, NEW l \in Lessons, Waits
    PROVE  Ask(mem', l) = Ask(mem, l)
  <1>1. mem'.stage = mem.stage /\ mem'.kind = mem.kind /\ mem'.rev = mem.rev /\ mem'.ledger = mem.ledger
    BY DEF Waits, SameWork, SameGoal, SameText
  <1> QED
    BY <1>1 DEF Ask

(* An answer changes nothing of what the other calls ask.                  *)
LEMMA AskLandsKept ==
    ASSUME Base, NEW l \in Lessons, NEW says, Lands(l, says), NEW k \in Lessons
    PROVE  Ask(mem', k) = Ask(mem, k)
  <1>1. /\ mem'.stage = mem.stage /\ mem'.kind = mem.kind /\ mem'.rev = mem.rev
        /\ mem.ledger \in [Lessons -> LedgerType]
    BY DEF Lands, SameGoal, Base, Typed, Attempt
  <1>2. mem'.ledger[k].variant = mem.ledger[k].variant
    <2>1. CASE mem.stage = "theory" /\ k = l
      <3>1. mem'.ledger[l] = [mem.ledger[l] EXCEPT !.rev = mem.rev[l]]
        BY <1>1, <2>1 DEF Lands
      <3> QED
        BY <1>1, <2>1, <3>1 DEF LedgerType
    <2>2. CASE ~(mem.stage = "theory" /\ k = l)
      BY <1>1, <2>2 DEF Lands
    <2> QED
      BY <2>1, <2>2
  <1> QED
    BY <1>1, <1>2 DEF Ask

(* No answer finishes a lesson.                                            *)
LEMMA LandsUnready ==
    ASSUME Base, NEW l \in Lessons, NEW says, Lands(l, says)
    PROVE  \A k \in Lessons : lessons'[k].status = "ready" => lessons[k].status = "ready"
  <1>1. lessons[l] \in Row /\ \A k \in Lessons \ {l} : lessons'[k] = lessons[k]
    BY DEF Lands, Base, Typed
  <1>2. lessons'[l].status = "ready" => lessons[l].status = "ready"
    <2>1. CASE mem.stage = "theory"
      BY <1>1, <2>1 DEF Lands, Row
    <2>2. CASE mem.stage = "cards"
      BY <1>1, <2>2 DEF Lands, Row
    <2>3. CASE mem.stage \notin {"theory", "cards"}
      BY <2>3 DEF Lands
    <2> QED
      BY <2>1, <2>2, <2>3
  <1> QED
    BY <1>1, <1>2

(* Between two waves nothing is paid, and nothing is at the provider.      *)
LEMMA PaidBetween ==
    ASSUME Base, Paid,
           \/ TheoryOver \/ PracticeOver \/ Compose \/ Composed \/ CardsOver
           \/ GateOver \/ Verdict \/ Judged \/ Rewrite \/ Rewritten
    PROVE  Paid'
  <1> DEFINE P == /\ UNCHANGED <<answers, runs, batches, charged>> /\ Going(mem)
                  /\ mem.phase \in {"done", "calls"} /\ mem'.phase \in {"done", "replay"}
  <1>1. mem.stage \in {"composing", "verdict", "rewriting"} => mem.phase = "done"
    BY DEF Base, Course, Waves
  <1>2. CASE TheoryOver
    <2>1. P
      BY <1>2, TheoryOverStep DEF Going
    <2> QED
      BY <2>1, PaidClear
  <1>3. CASE PracticeOver
    <2>1. P
      BY <1>3, PracticeOverStep DEF Going
    <2> QED
      BY <2>1, PaidClear
  <1>4. CASE Compose
    <2>1. P
      BY <1>1, <1>4, ComposeStep DEF Going
    <2> QED
      BY <2>1, PaidClear
  <1>5. CASE Composed
    <2>1. P
      BY <1>1, <1>5, ComposedStep DEF Going
    <2> QED
      BY <2>1, PaidClear
  <1>6. CASE CardsOver
    <2>1. P
      BY <1>6, CardsOverStep DEF Going, Nexts
    <2> QED
      BY <2>1, PaidClear
  <1>7. CASE GateOver
    <2>1. P
      BY <1>7, GateOverStep DEF Going, Gates
    <2> QED
      BY <2>1, PaidClear
  <1>8. CASE Verdict
    <2>1. P
      BY <1>1, <1>8, VerdictStep DEF Going
    <2> QED
      BY <2>1, PaidClear
  <1>9. CASE Judged
    <2>1. P
      BY <1>1, <1>9, JudgedStep DEF Going, Nexts
    <2> QED
      BY <2>1, PaidClear
  <1>10. CASE Rewrite
    <2>1. P
      BY <1>1, <1>10, RewriteStep DEF Going
    <2> QED
      BY <2>1, PaidClear
  <1>11. CASE Rewritten
    <2>1. P
      BY <1>1, <1>11, RewrittenStep DEF Going
    <2> QED
      BY <2>1, PaidClear
  <1> QED
    BY <1>2, <1>3, <1>4, <1>5, <1>6, <1>7, <1>8, <1>9, <1>10, <1>11

(* What is on the row does not change with the attempt.                    *)
LEMMA FlightKept ==
    ASSUME runs' = runs, batches' = batches
    PROVE  /\ NoFlight' <=> NoFlight
           /\ \A b \in DOMAIN batches : Flight(b)' <=> Flight(b)
  BY DEF NoFlight, Flight, OnRow, Expanding, ReadIds

(* A wave that is not the first of its group asks with nothing at the      *)
(* provider; the first one once it has awaited.                            *)
LEMMA ReplayedClear ==
    ASSUME Base, Paid, Replayed, mem'.phase # "await"
    PROVE  NoFlight
  <1>1. /\ mem.phase \in {"replay", "again", "readback"} /\ Waits
        /\ ~(mem.phase = "replay" /\ Awaits(mem) /\ Out(mem.row) # {})
    BY ReplayedStep
  <1>2. mem.stage \in Waves /\ mem.stage # "idle" /\ mem.stage # "preparing"
    BY <1>1 DEF Waits, Waves
  <1>3. CASE Loose
    <2>1. mem.stage = "theory" /\ mem.phase = "replay"
      BY <1>1, <1>2, <1>3 DEF Loose
    <2>2. Out(mem.row) = {}
      BY <1>1, <2>1 DEF Awaits
    <2> QED
      BY <1>2, <2>2, OutIsFlight
  <1>4. CASE ~Loose
    BY <1>4 DEF Paid, Awaited
  <1> QED
    BY <1>3, <1>4

(* What nothing was found for can be asked.                                *)
LEMMA NotFoundFresh ==
    ASSUME Base, Paid, Replayable = {}, NEW l \in mem.todo
    PROVE  Fresh(Ask(mem, l))
  BY DEF Replayable, Paid, Bills, Fresh

(* When nothing more is found, what is left to ask is fresh.               *)
LEMMA PaidReplayed ==
    ASSUME Base, Paid, Replayed
    PROVE  Paid'
  <1>1. /\ Waits /\ UNCHANGED <<lessons, answers, runs, batches, charged>>
        /\ mem.phase \in {"replay", "again", "readback"} /\ Replayable = {}
        /\ mem'.todo = mem.todo /\ mem'.stage = mem.stage /\ mem'.watch = mem.watch
        /\ mem'.phase \in {"await", "done", "calls", "submitting"}
        /\ mem'.phase = "await" => mem.phase = "replay" /\ Awaits(mem) /\ Out(mem.row) # {}
        /\ mem'.phase = "calls" => mem'.flying = mem.todo
        /\ mem'.phase = "submitting" => mem.todo # {} /\ ~mem.watch
    BY ReplayedStep DEF Waits, SameWork, SameGroup
  <1>2. mem.stage \in Waves /\ mem.stage # "idle" /\ mem.stage # "preparing" /\ mem.todo \subseteq Lessons
    BY <1>1 DEF Waits, Waves, Base, Typed, Attempt
  <1>3. Calls'
    <2>1. ASSUME NEW l \in mem.todo PROVE Fresh(Ask(mem, l))'
      <3>1. Fresh(Ask(mem, l))
        BY <1>1, NotFoundFresh
      <3>2. Ask(mem', l) = Ask(mem, l)
        BY <1>1, <1>2, AskKept
      <3> QED
        BY <1>1, <3>1, <3>2 DEF Fresh
    <2> QED
      BY <1>1, <2>1 DEF Calls
  <1>4. Awaited'
    <2>1. CASE mem'.phase = "await"
      <3>1. ~NoFlight
        BY <1>1, <1>2, <2>1, OutIsFlight
      <3>2. mem.stage = "theory"
        BY <1>1, <1>2, <2>1, <3>1 DEF Paid, Awaited, Loose
      <3> QED
        BY <1>1, <2>1, <3>2 DEF Awaited, Loose
    <2>2. CASE mem'.phase # "await"
      <3>1. NoFlight'
        BY <1>1, <2>2, ReplayedClear, FlightKept
      <3> QED
        BY <1>1, <3>1 DEF Awaited
    <2> QED
      BY <2>1, <2>2
  <1> QED
    BY <1>1, <1>3, <1>4, PaidQuiet

(* A wait ends with nothing at the provider.                               *)
LEMMA PaidAwait ==
    ASSUME Base, Paid, Await \/ WaitOver
    PROVE  Paid'
  <1>1. /\ UNCHANGED <<lessons, answers, runs, batches, charged>>
        /\ mem.stage \in Waves /\ mem.stage # "idle"
    BY AwaitStep, WaitOverStep DEF Waits, Waves
  <1>2. NoFlight /\ mem.phase # "booking" /\ mem'.phase \in {"again", "readback"}
    <2>1. CASE Await
      BY <1>1, <2>1, AwaitStep, OutIsFlight
    <2>2. CASE WaitOver
      <3>1. mem.phase = "waiting" /\ mem'.phase = "readback" /\ batches[mem.batch].over
        BY <2>2, WaitOverStep
      <3>2. \A b \in DOMAIN batches : Flight(b) => b = mem.batch
        BY <3>1 DEF Paid, Awaited
      <3> QED
        BY <3>1, <3>2 DEF NoFlight, Flight
    <2> QED
      BY <2>1, <2>2
  <1>3. Calls' /\ Awaited'
    BY <1>1, <1>2, FlightKept DEF Calls, Awaited
  <1> QED
    BY <1>1, <1>2, <1>3, PaidQuiet

(* A call that fails or is refused, and a batch that cannot be submitted:  *)
(* what was fresh stays so, what is billed for nothing was fresh, and      *)
(* nothing is at the provider.                                             *)
LEMMA PaidFails ==
    ASSUME Base, Paid, SubmitFails \/ \E l \in Lessons : FailCall(l) \/ RefuseCall(l)
    PROVE  Paid'
  <1>1. /\ Waits /\ UNCHANGED <<lessons, answers, runs, batches>>
        /\ charged'.once = charged.once /\ charged'.lost = charged.lost
        /\ mem.phase \in {"submitting", "calls"} /\ mem'.phase \in {"calls", "done"}
    BY SubmitFailsStep, FailStep, RefuseStep DEF Waits
  <1>2. mem.stage \in Waves /\ mem.stage # "idle" /\ mem.stage # "preparing"
        /\ mem.todo \subseteq Lessons /\ mem.flying \subseteq Lessons
    BY <1>1 DEF Waits, Waves, Base, Typed, Attempt
  <1>3. mem'.phase = "calls" =>
          \/ mem.phase = "submitting" /\ mem'.flying = mem.todo
          \/ mem.phase = "calls" /\ mem'.flying \subseteq mem.flying
    BY SubmitFailsStep, FailStep, RefuseStep
  <1>4. NoFlight
    BY <1>1, <1>2 DEF Paid, Awaited, Loose
  <1>5. Calls'
    <2>1. ASSUME mem'.phase = "calls", NEW l \in mem'.flying PROVE Fresh(Ask(mem, l))'
      <3>1. Fresh(Ask(mem, l)) /\ l \in Lessons
        BY <1>2, <1>3, <2>1 DEF Paid, Calls
      <3>2. Ask(mem', l) = Ask(mem, l)
        BY <1>1, <3>1, AskKept
      <3> QED
        BY <1>1, <3>1, <3>2 DEF Fresh
    <2> QED
      BY <1>1, <2>1 DEF Calls
  <1>6. Awaited'
    BY <1>1, <1>4, FlightKept DEF Awaited
  <1>7. charged'.again \subseteq charged.again \cup charged.lost
    <2>1. CASE charged' = charged
      BY <2>1
    <2>2. ASSUME NEW l \in Lessons, FailCall(l)
          PROVE  charged'.again \subseteq charged.again \cup charged.lost
      <3>1. /\ mem.phase = "calls" /\ l \in mem.flying
            /\ charged'.again \subseteq charged.again \cup ({Ask(mem, l)} \cap charged.once)
        BY <2>2, FailStep
      <3>2. Fresh(Ask(mem, l))
        BY <3>1 DEF Paid, Calls
      <3> QED
        BY <3>1, <3>2 DEF Fresh
    <2>3. charged' = charged \/ \E l \in Lessons : FailCall(l)
      BY SubmitFailsStep, RefuseStep
    <2> QED
      BY <2>1, <2>2, <2>3
  <1> QED
    BY <1>1, <1>5, <1>6, <1>7, PaidQuiet

(* An answer that is replayed is not paid.                                 *)
LEMMA PaidReplay ==
    ASSUME Base, Paid, Replay
    PROVE  Paid'
  <1>1. PICK l \in Lessons, a \in answers :
          a.ask = Ask(mem, l) /\ a.says # "bad" /\ Lands(l, a.says)
    BY ReplayStep
  <1>2. /\ UNCHANGED <<answers, runs, batches, charged>>
        /\ mem.phase \in {"replay", "again", "readback"}
        /\ mem'.stage = mem.stage /\ mem'.phase = mem.phase
    BY <1>1, ReplayStep DEF Lands
  <1>3. \A k \in Lessons : lessons'[k].status = "ready" => lessons[k].status = "ready"
    BY <1>1, LandsUnready
  <1>4. Calls'
    BY <1>2 DEF Calls
  <1>5. Awaited'
    BY <1>2, FlightKept DEF Paid, Awaited, Loose
  <1> QED
    BY <1>2, <1>3, <1>4, <1>5, PaidQuiet

(* A call answered: its ask was fresh, and no other call asks the same.    *)
LEMMA PaidAnswer ==
    ASSUME Base, Paid, NEW l \in Lessons, AnswerCall(l)
    PROVE  Paid'
  <1> DEFINE ask == Ask(mem, l)
  <1>1. /\ mem.phase = "calls" /\ l \in mem.flying
        /\ charged'.once = charged.once \cup {ask}
        /\ charged'.again = charged.again \cup ({ask} \cap charged.once)
        /\ charged'.lost = charged.lost
        /\ UNCHANGED <<runs, batches>>
    BY AnswerStep
  <1>2. PICK says \in Says(ask) :
          Lands(l, says) /\ [ask |-> ask, says |-> says] \in answers'
    BY AnswerStep
  <1>3. /\ mem'.stage = mem.stage /\ mem'.phase = "calls" /\ mem'.flying = mem.flying \ {l}
        /\ mem.stage \in Waves
    BY <1>1, <1>2 DEF Lands
  <1>4. mem.stage # "idle" /\ mem.stage # "preparing" /\ mem.flying \subseteq Lessons /\ mem \in Attempt
    BY <1>3 DEF Waves, Base, Typed, Attempt
  <1>5. NoFlight
    BY <1>1, <1>4 DEF Paid, Awaited, Loose
  <1>6. Fresh(ask)
    BY <1>1 DEF Paid, Calls
  <1>7. \A k \in mem.flying : Ask(mem, k).lesson = k
    BY <1>3, <1>4, AskTyped
  <1> HIDE DEF ask
  <1>8. Bills'
    <2>1. charged'.again \subseteq charged'.lost
      BY <1>1, <1>6 DEF Paid, Bills, PaidOnce, Fresh
    <2>2. ASSUME NEW x \in charged'.once, x \notin charged'.lost
          PROVE  \E a \in answers' : a.ask = x /\ a.says # "bad"
      <3>1. CASE x = ask
        <4>1. [ask |-> ask, says |-> says] \in answers' /\ says # "bad"
          BY <1>2, SaysWords DEF Words
        <4> QED
          BY <3>1, <4>1
      <3>2. CASE x # ask
        <4>1. x \in charged.once /\ x \notin charged.lost
          BY <1>1, <2>2, <3>2
        <4>2. Usable(x)
          BY <4>1 DEF Paid, Bills
        <4> QED
          BY <4>2, AnswerStep DEF Usable, AnswersStay
      <3> QED
        BY <3>1, <3>2
    <2> QED
      BY <2>1, <2>2 DEF Bills, PaidOnce, Usable
  <1>9. Batched'
    <2>1. \A b \in DOMAIN batches : ~Lone(b) /\ (~batches[b].over => ~Held(b))
      BY <1>1, <1>5, NoneLone
    <2>2. \A b \in DOMAIN batches : (Held(b)' => Held(b)) /\ (Lone(b)' <=> Lone(b))
      BY <1>1, <1>3 DEF Held, OnRow, Expanding, ReadIds, Lone
    <2> QED
      BY <1>1, <2>1, <2>2 DEF Batched
  <1>10. Calls'
    <2>1. ASSUME NEW k \in mem'.flying PROVE Fresh(Ask(mem, k))'
      <3>1. k \in mem.flying /\ k # l /\ k \in Lessons
        BY <1>3, <1>4, <2>1
      <3>2. Fresh(Ask(mem, k))
        BY <1>1, <3>1 DEF Paid, Calls
      <3>3. Ask(mem', k) = Ask(mem, k)
        BY <1>2, <3>1, AskLandsKept
      <3>4. Ask(mem, k) # ask
        BY <1>1, <1>7, <3>1 DEF ask
      <3> QED
        BY <1>1, <3>2, <3>3, <3>4 DEF Fresh
    <2> QED
      BY <1>3, <2>1 DEF Calls
  <1>11. Awaited'
    BY <1>1, <1>3, <1>5, FlightKept DEF Awaited
  <1> QED
    BY <1>8, <1>9, <1>10, <1>11 DEF Paid

(* A batch that ends pays for what nobody else asks, or for what was lost. *)
LEMMA PaidBatchEnds ==
    ASSUME Base, Paid, NEW b \in DOMAIN batches, BatchEnds(b)
    PROVE  Paid'
  <1>1. /\ ~batches[b].over
        /\ mem.stage = "idle" \/ mem.phase \in {"await", "waiting", "calls"}
        /\ DOMAIN batches' = DOMAIN batches /\ batches'[b].over
        /\ \A c \in DOMAIN batches : batches'[c].asks = batches[c].asks
        /\ \A c \in DOMAIN batches \ {b} : batches'[c] = batches[c]
        /\ charged'.lost = charged.lost /\ AnswersStay
        /\ UNCHANGED <<lessons, runs, mem>>
    BY BatchEndsStep
  <1>2. PICK done \in SUBSET batches[b].asks, kept \in SUBSET batches[b].asks :
          /\ charged'.once = charged.once \cup kept
          /\ charged'.again = charged.again \cup (done \cap charged.once)
          /\ \A ask \in kept : Usable(ask)'
    BY BatchEndsStep
  <1>3. \A ask \in done : Fresh(ask)
    BY <1>1, <1>2 DEF Paid, Batched, Lone, Fresh
  <1>4. ~Lone(b) => kept \subseteq charged.lost
    BY <1>1, <1>2 DEF Lone
  <1>5. Bills'
    <2>1. charged'.again \subseteq charged'.lost
      BY <1>1, <1>2, <1>3 DEF Paid, Bills, PaidOnce, Fresh
    <2>2. \A x : Usable(x) => Usable(x)'
      BY <1>1 DEF Usable, AnswersStay
    <2>3. \A x \in charged'.once : x \in charged'.lost \/ Usable(x)'
      BY <1>1, <1>2, <2>2 DEF Paid, Bills
    <2> QED
      BY <2>1, <2>3 DEF Bills, PaidOnce
  <1>6. \A c \in DOMAIN batches : /\ Held(c)' <=> Held(c)
                                  /\ Lone(c)' => c # b /\ Lone(c)
                                  /\ Flight(c)' => Flight(c)
    BY <1>1 DEF Held, Flight, OnRow, Expanding, ReadIds, Lone
  <1>7. Batched'
    <2>1. ASSUME NEW c \in DOMAIN batches, Lone(c)', NEW ask \in batches[c].asks
          PROVE  Fresh(ask)'
      <3>1. Lone(c) /\ c # b
        BY <1>6, <2>1
      <3>2. ~Lone(b)
        BY <3>1 DEF Paid, Batched
      <3>3. Fresh(ask)
        BY <2>1, <3>1 DEF Paid, Batched
      <3> QED
        BY <1>1, <1>2, <1>4, <3>2, <3>3 DEF Fresh
    <2>2. ASSUME NEW c \in DOMAIN batches, ~batches'[c].over, Held(c)'
          PROVE  \E ask \in batches'[c].asks : lessons'[ask.lesson].status # "ready"
      <3>1. ~batches[c].over /\ Held(c)
        BY <1>1, <1>6, <2>2
      <3> QED
        BY <1>1, <3>1 DEF Paid, Batched
    <2>3. \A c \in DOMAIN batches : Lone(c)' => Held(c)'
      BY <1>6 DEF Paid, Batched
    <2>4. \A c, d \in DOMAIN batches : Lone(c)' /\ Lone(d)' => c = d
      BY <1>6 DEF Paid, Batched
    <2> QED
      BY <1>1, <2>1, <2>2, <2>3, <2>4 DEF Batched
  <1>8. Calls'
    <2>1. mem.phase # "submitting"
      BY <1>1, NoAttemptTyped DEF Base, Course
    <2>2. ASSUME mem.phase = "calls", NEW l \in mem.flying PROVE Fresh(Ask(mem, l))'
      <3>1. mem.stage # "idle" /\ mem.stage \in Waves
        BY <2>2 DEF Base, Course, Waves
      <3>2. NoFlight
        BY <2>2, <3>1 DEF Paid, Awaited, Loose, Waves
      <3>3. ~Lone(b)
        BY <2>2, <3>2, NoneLone
      <3>4. Fresh(Ask(mem, l))
        BY <2>2 DEF Paid, Calls
      <3> QED
        BY <1>1, <1>2, <1>4, <3>3, <3>4 DEF Fresh
    <2> QED
      BY <1>1, <2>1, <2>2 DEF Calls
  <1>9. Awaited'
    BY <1>1, <1>6 DEF Paid, Awaited, Loose, NoFlight
  <1> QED
    BY <1>5, <1>7, <1>8, <1>9 DEF Paid

(* A batch is submitted with none at the provider, for lessons that are    *)
(* not finished, and what it asks is fresh.                                *)
LEMMA PaidSubmit ==
    ASSUME Base, Brought, Paid, Submit
    PROVE  Paid'
  <1>0. PICK n : n = mem'.batch
    OBVIOUS
  <1>1. /\ Waits /\ mem.phase = "submitting" /\ mem'.phase = "booking"
        /\ DOMAIN batches' = DOMAIN batches \cup {n} /\ n \notin DOMAIN batches
        /\ \A b \in DOMAIN batches : batches'[b] = batches[b]
        /\ batches'[n].asks \subseteq {Ask(mem, l) : l \in mem.todo}
        /\ ~batches'[n].over => batches'[n].asks # {}
        /\ UNCHANGED <<lessons, answers, runs, charged>>
    BY <1>0, SubmitStep DEF Waits
  <1>2. /\ mem.stage \in Waves /\ mem.stage # "idle" /\ mem.stage # "preparing"
        /\ mem.todo \subseteq Lessons /\ mem \in Attempt /\ Going(mem)
    BY <1>1 DEF Waits, Waves, Going, Base, Typed, Attempt
  <1>3. NoFlight
    BY <1>1, <1>2 DEF Paid, Awaited, Loose
  <1>4. \A b \in DOMAIN batches : ~Lone(b) /\ (~batches[b].over => ~Held(b))
    BY <1>1, <1>3, NoneLone
  <1>5. /\ mem.todo # {} /\ ~mem.watch /\ \A l \in mem.todo : Fresh(Ask(mem, l))
    BY <1>1 DEF Paid, Calls
  <1>6. \A b \in DOMAIN batches : /\ Lone(b)' <=> Lone(b)
                                  /\ Held(b)' => Held(b)
                                  /\ Flight(b)' => Flight(b)
    BY <1>0, <1>1 DEF Held, Flight, OnRow, Expanding, ReadIds, Lone
  <1>7. ASSUME ~batches'[n].over
        PROVE  \E ask \in batches'[n].asks : lessons'[ask.lesson].status # "ready"
    <2>1. PICK l \in mem.todo : Ask(mem, l) \in batches'[n].asks
      BY <1>1, <1>7
    <2>2. mem.only = 0
      BY <1>2, <1>5 DEF Base, Course
    <2>3. Left(l)
      BY <1>2, <2>1 DEF Left, Base, Course, Waves, Writing, Gates
    <2>4. lessons[l].status # "ready" /\ Ask(mem, l).lesson = l
      BY <1>2, <2>1, <2>2, <2>3, AskTyped DEF Brought
    <2> QED
      BY <1>1, <2>1, <2>4
  <1>8. Batched'
    <2>1. Held(n)'
      BY <1>0, <1>1 DEF Held
    <2>2. \A ask \in batches'[n].asks : Fresh(ask)'
      BY <1>1, <1>5 DEF Fresh
    <2>3. ASSUME NEW b \in DOMAIN batches', Lone(b)' PROVE b = n
      BY <1>1, <1>4, <1>6, <2>3
    <2>4. ASSUME NEW b \in DOMAIN batches', ~batches'[b].over, Held(b)' PROVE b = n
      BY <1>1, <1>4, <1>6, <2>4
    <2> QED
      BY <1>7, <2>1, <2>2, <2>3, <2>4 DEF Batched
  <1>9. Bills'
    BY <1>1 DEF Paid, Bills, PaidOnce, Usable
  <1>10. ~Flight(n)'
    <2>1. ASSUME OnRow(n)' PROVE FALSE
      <3>1. runs # <<>> /\ n \in runs[Len(runs)].ids
        BY <1>1, <2>1 DEF OnRow, Expanding, ReadIds
      <3>2. Len(runs) \in DOMAIN runs
        BY <3>1, LastRow DEF Base
      <3> QED
        BY <1>1, <3>1, <3>2 DEF Base, Typed
    <2> QED
      BY <2>1 DEF Flight
  <1>11. Calls' /\ Awaited'
    BY <1>1, <1>3, <1>6, <1>10 DEF Calls, Awaited, NoFlight
  <1> QED
    BY <1>8, <1>9, <1>11 DEF Paid

(* The batch that was held in memory is held by the row.                   *)
LEMMA PaidBook ==
    ASSUME Base, Paid, Book
    PROVE  Paid'
  <1>1. /\ Waits /\ UNCHANGED <<lessons, answers, batches, charged>>
        /\ mem.phase = "booking" /\ mem'.phase = "waiting" /\ mem'.batch = mem.batch
        /\ DOMAIN runs' = DOMAIN runs /\ Len(runs') = Len(runs)
        /\ runs'[mem.row].ids = runs[mem.row].ids \cup {mem.batch}
        /\ runs'[mem.row].status = runs[mem.row].status
    BY BookStep DEF Waits
  <1>2. mem.stage # "idle" /\ mem.stage # "preparing" /\ mem.stage \in Waves
    BY <1>1 DEF Waits, Waves
  <1>3. mem.row \in DOMAIN runs /\ mem.row = Len(runs) /\ Expanding(mem.row)
    BY <1>2 DEF Base, OnLastRow
  <1>4. runs # <<>> /\ runs' # <<>>
    BY <1>1, <1>3, RunsTyped DEF Base
  <1>5. \A b \in DOMAIN batches : OnRow(b)' <=> OnRow(b) \/ b = mem.batch
    BY <1>1, <1>3, <1>4 DEF OnRow, Expanding, ReadIds
  <1>6. \A b \in DOMAIN batches : /\ Held(b)' <=> Held(b)
                                  /\ Lone(b)' <=> Lone(b)
    BY <1>1, <1>5 DEF Held, Lone
  <1>7. \A ask : Fresh(ask)' <=> Fresh(ask)
    BY <1>1 DEF Fresh
  <1>8. Bills'
    BY <1>1 DEF Paid, Bills, PaidOnce, Usable
  <1>9. Batched'
    BY <1>1, <1>6, <1>7 DEF Paid, Batched
  <1>10. NoFlight
    BY <1>1, <1>2 DEF Paid, Awaited, Loose
  <1>11. \A b \in DOMAIN batches : Flight(b)' => b = mem.batch
    BY <1>1, <1>5, <1>10 DEF Flight, NoFlight
  <1>12. Calls' /\ Awaited'
    BY <1>1, <1>11 DEF Calls, Awaited, Loose
  <1> QED
    BY <1>8, <1>9, <1>12 DEF Paid

(* A crash loses the batch that is not on its row, and what was charged and*)
(* not heard was fresh; the row keeps the rest.                            *)
LEMMA PaidCrash ==
    ASSUME Base, Paid, Crash
    PROVE  Paid'
  <1> DEFINE more == IF mem.phase = "booking" THEN batches[mem.batch].asks ELSE {}
  <1>1. /\ charged'.once = charged.once
        /\ charged'.again \subseteq
             charged.again \cup ({Ask(mem, l) : l \in mem.flying} \cap charged.once)
        /\ charged'.lost = charged.lost \cup more
    BY CrashStep
  <1>2. /\ mem'.stage = "idle" /\ mem'.phase = "done"
        /\ UNCHANGED <<lessons, answers, runs, batches>>
    BY CrashStep, NoAttemptTyped
  <1>3. mem.phase = "booking" => more = batches[mem.batch].asks
    OBVIOUS
  <1> HIDE DEF more
  <1>4. \A l \in mem.flying : Fresh(Ask(mem, l))
    BY DEF Paid, Calls, Base, Course
  <1>5. Bills'
    BY <1>1, <1>2, <1>4 DEF Paid, Bills, PaidOnce, Usable, Fresh
  <1>6. \A b \in DOMAIN batches : /\ Held(b)' <=> OnRow(b)
                                  /\ Lone(b)' => Lone(b)
    BY <1>1, <1>2 DEF Held, OnRow, Expanding, ReadIds, Lone
  <1>7. Batched'
    <2>1. ASSUME NEW b \in DOMAIN batches, Lone(b)' PROVE OnRow(b)
      <3>1. Held(b)
        BY <1>6, <2>1 DEF Paid, Batched
      <3>2. ~(mem.phase = "booking" /\ b = mem.batch)
        BY <1>1, <1>2, <1>3, <2>1 DEF Lone
      <3> QED
        BY <3>1, <3>2 DEF Held
    <2>2. ASSUME NEW b \in DOMAIN batches, Lone(b)', NEW ask \in batches[b].asks
          PROVE  Fresh(ask)'
      <3>1. Fresh(ask)
        BY <1>6, <2>2 DEF Paid, Batched
      <3> QED
        BY <1>1, <3>1 DEF Fresh
    <2>3. \A b \in DOMAIN batches : ~batches[b].over /\ Held(b)' =>
             \E ask \in batches[b].asks : lessons[ask.lesson].status # "ready"
      BY <1>6 DEF Paid, Batched, Held
    <2>4. \A b, c \in DOMAIN batches : Lone(b)' /\ Lone(c)' => b = c
      BY <1>6 DEF Paid, Batched
    <2> QED
      BY <1>2, <1>6, <2>1, <2>2, <2>3, <2>4 DEF Batched
  <1>8. Calls' /\ Awaited'
    BY <1>2 DEF Calls, Awaited, Loose
  <1> QED
    BY <1>5, <1>7, <1>8 DEF Paid

(* The row ends: what it still had at the provider counts as lost when the *)
(* preparation throws, and there is nothing there at the last checkpoint.  *)
LEMMA PaidRowEnds ==
    ASSUME Base, Paid, PrepareThrows \/ Close
    PROVE  Paid'
  <1>1. /\ mem.stage \in {"preparing", "closing"} /\ mem'.stage = "idle" /\ mem'.phase = "done"
        /\ DOMAIN runs' = DOMAIN runs /\ Len(runs') = Len(runs)
        /\ \A r \in DOMAIN runs : ~Expanding(r)'
        /\ UNCHANGED <<lessons, answers, batches>>
        /\ charged'.once = charged.once /\ charged'.again = charged.again
        /\ charged.lost \subseteq charged'.lost
    BY PrepareThrowsStep, CloseStep, NoAttemptTyped
  <1>2. mem.phase = "done" /\ mem.stage # "idle"
    BY <1>1 DEF Base, Course, Waves
  <1>3. mem.row \in DOMAIN runs /\ mem.row = Len(runs)
    BY <1>2 DEF Base, OnLastRow
  <1>4. \A b \in DOMAIN batches : ~Held(b)'
    BY <1>1, <1>3 DEF Held, OnRow
  <1>5. \A b \in DOMAIN batches : Lone(b)' => Lone(b)
    BY <1>1 DEF Lone
  <1>6. \A b \in DOMAIN batches : ~Lone(b)'
    <2>1. CASE PrepareThrows
      <3>1. charged'.lost = charged.lost \cup UNION {batches[b].asks : b \in Out(mem.row)}
        BY <2>1, PrepareThrowsStep
      <3>2. ASSUME NEW b \in DOMAIN batches, Lone(b) PROVE ~Lone(b)'
        <4>1. Held(b)
          BY <3>2 DEF Paid, Batched
        <4>2. Flight(b)
          BY <1>2, <3>2, <4>1 DEF Held, Flight, Lone
        <4>3. b \in Out(mem.row)
          BY <1>2, <4>2, OutIsFlight
        <4>4. batches[b].asks \subseteq charged'.lost
          BY <3>1, <4>3
        <4> QED
          BY <1>1, <4>4 DEF Lone
      <3> QED
        BY <1>5, <3>2
    <2>2. CASE Close
      <3>1. mem.stage = "closing"
        BY <2>2, CloseStep
      <3>2. NoFlight
        BY <1>2, <3>1 DEF Paid, Awaited, Loose
      <3> QED
        BY <1>2, <1>5, <3>2, NoneLone
    <2> QED
      BY <2>1, <2>2
  <1>7. Bills'
    BY <1>1 DEF Paid, Bills, PaidOnce, Usable
  <1>8. Batched'
    BY <1>1, <1>4, <1>6 DEF Batched
  <1>9. Calls' /\ Awaited'
    BY <1>1 DEF Calls, Awaited, Loose
  <1> QED
    BY <1>7, <1>8, <1>9 DEF Paid

(* A new row is added with none expanding, so nothing is at the provider   *)
(* that could bring anything.                                              *)
LEMMA PaidBegins ==
    ASSUME Base, Paid,
           \/ \E k \in {"expand", "regenerate", "examples"}, l \in Lessons \cup {0} : Press(k, l)
           \/ \E r \in DOMAIN runs : Resume(r)
    PROVE  Paid'
  <1>1. /\ mem.stage = "idle" /\ mem'.stage = "preparing" /\ mem'.phase = "done"
        /\ UNCHANGED <<lessons, answers, batches, charged>>
        /\ \/ runs' = runs
           \/ /\ runs' = Append(runs, [status |-> "expanding", ids |-> {}])
              /\ ~(runs # <<>> /\ Expanding(Len(runs)))
    BY PressStep, ResumeStep
  <1>2. mem.phase = "done"
    BY <1>1, NoAttemptTyped DEF Base, Course
  <1>3. Calls' /\ Awaited'
    BY <1>1 DEF Calls, Awaited, Loose
  <1>4. CASE runs' = runs
    BY <1>1, <1>2, <1>3, <1>4, PaidQuiet
  <1>5. CASE /\ runs' = Append(runs, [status |-> "expanding", ids |-> {}])
             /\ ~(runs # <<>> /\ Expanding(Len(runs)))
    <2>1. \A b \in DOMAIN batches : ~Lone(b)
      BY <1>2, <1>5 DEF Paid, Batched, Held, OnRow
    <2>2. runs'[Len(runs')].ids = {}
      BY <1>5, RowAdded DEF Base
    <2>3. \A b \in DOMAIN batches : ~Held(b)'
      BY <1>1, <2>2 DEF Held, OnRow, ReadIds
    <2>4. \A b \in DOMAIN batches : ~Lone(b)'
      BY <1>1, <2>1 DEF Lone
    <2>5. Bills'
      BY <1>1 DEF Paid, Bills, PaidOnce, Usable
    <2>6. Batched'
      BY <1>1, <2>3, <2>4 DEF Batched
    <2> QED
      BY <1>3, <2>5, <2>6 DEF Paid
  <1> QED
    BY <1>1, <1>4, <1>5

(* An expansion that finds every lesson finished has nothing at the        *)
(* provider: a batch that is held asks about one that is not.              *)
LEMMA PaidPrepare ==
    ASSUME Base, Paid, Prepare
    PROVE  Paid'
  <1>1. /\ mem.stage = "preparing" /\ UNCHANGED <<lessons, answers, runs, batches, charged>>
        /\ \/ Asked = {} /\ mem.only = 0 /\ mem'.stage = "closing" /\ mem'.phase = "done"
           \/ mem'.stage = "theory" /\ mem'.phase = "replay"
    BY PrepareStep
  <1>2. mem.phase = "done"
    BY <1>1 DEF Base, Course, Waves
  <1>3. Awaited'
    <2>1. CASE mem'.stage = "theory" /\ mem'.phase = "replay"
      BY <2>1 DEF Awaited, Loose
    <2>2. CASE Asked = {} /\ mem.only = 0 /\ mem'.stage = "closing" /\ mem'.phase = "done"
      <3>1. \A l \in Lessons : lessons[l].status = "ready"
        BY <2>2 DEF Asked
      <3>2. ASSUME NEW b \in DOMAIN batches, Flight(b) PROVE FALSE
        <4>1. PICK ask \in batches[b].asks : lessons[ask.lesson].status # "ready"
          BY <3>2 DEF Paid, Batched, Flight, Held
        <4>2. ask.lesson \in Lessons
          BY RunsTyped DEF Base, Batch, AskType
        <4> QED
          BY <3>1, <4>1, <4>2
      <3>3. NoFlight
        BY <3>2 DEF NoFlight
      <3> QED
        BY <1>1, <2>2, <3>3, FlightKept DEF Awaited
    <2> QED
      BY <1>1, <2>1, <2>2
  <1>4. Calls'
    BY <1>1 DEF Calls
  <1> QED
    BY <1>1, <1>2, <1>3, <1>4, PaidQuiet

(* A step that changes nothing.                                            *)
LEMMA PaidStutters ==
    ASSUME Paid, UNCHANGED vars
    PROVE  Paid'
  <1>1. Bills'
    BY DEF vars, Paid, Bills, PaidOnce, Usable
  <1>2. Batched'
    BY DEF vars, Paid, Batched, Held, Lone, OnRow, Expanding, ReadIds, Fresh
  <1>3. Calls' /\ Awaited'
    BY DEF vars, Paid, Calls, Awaited, Loose, NoFlight, Flight, OnRow, Expanding, ReadIds, Fresh
  <1> QED
    BY <1>1, <1>2, <1>3 DEF Paid

(* Every step keeps the books.                                             *)
LEMMA PaidStep ==
    ASSUME Base, Brought, Paid, [Next]_vars
    PROVE  Paid'
  <1>1. CASE User \/ Sweep
    BY <1>1, PaidBegins DEF User, Sweep
  <1>2. CASE Prepare \/ Close \/ PrepareThrows \/ Crash
    BY <1>2, PaidPrepare, PaidRowEnds, PaidCrash
  <1>3. CASE Replay \/ Replayed \/ Await \/ WaitOver
    BY <1>3, PaidReplay, PaidReplayed, PaidAwait
  <1>4. CASE Submit \/ Book \/ SubmitFails
    BY <1>4, PaidSubmit, PaidBook, PaidFails
  <1>5. CASE \E l \in Lessons : AnswerCall(l)
    BY <1>5, PaidAnswer
  <1>6. CASE \E l \in Lessons : FailCall(l) \/ RefuseCall(l)
    BY <1>6, PaidFails
  <1>7. CASE \/ TheoryOver \/ PracticeOver \/ Compose \/ Composed \/ CardsOver
             \/ GateOver \/ Verdict \/ Judged \/ Rewrite \/ Rewritten
    BY <1>7, PaidBetween
  <1>8. CASE Provider
    BY <1>8, PaidBatchEnds DEF Provider
  <1>9. CASE UNCHANGED vars
    BY <1>9, PaidStutters
  <1> QED
    BY <1>1, <1>2, <1>3, <1>4, <1>5, <1>6, <1>7, <1>8, <1>9 DEF Next, Work, Faults

(* Once an answer of use has been paid for, its ask is not paid for again, *)
(* however the run is interrupted and resumed, unless the answer is that of*)
(* a batch nobody awaits.                                                  *)
THEOREM PaidOnceCorrect == Spec => []PaidOnce
  <1>1. Init => Brought
    BY NoAttemptTyped DEF Init, Brought, Going
  <1>2. ASSUME Init PROVE Paid
    <2>1. /\ runs = <<>> /\ batches = <<>> /\ mem.stage = "idle" /\ mem.phase = "done"
          /\ charged.once = {} /\ charged.again = {} /\ DOMAIN batches = {}
      BY <1>2, NoAttemptTyped DEF Init
    <2>2. Bills /\ Batched
      BY <2>1 DEF Bills, PaidOnce, Batched
    <2>3. Calls /\ Awaited
      BY <2>1 DEF Calls, Awaited, Loose
    <2> QED
      BY <2>2, <2>3 DEF Paid
  <1>3. Paid => PaidOnce
    BY DEF Paid, Bills
  <1> QED
    BY <1>1, <1>2, <1>3, BaseInit, BaseStep, BroughtStep, PaidStep, PTL DEF Spec
=============================================================================
