-------------------------- MODULE LessonExpansion --------------------------
(***************************************************************************)
(* The expansion of a frozen path version into lessons (packages/pathgen/  *)
(* src/run/expansion-run.ts, expand/ and qa/): for a group of lessons, the *)
(* theory (P3), the practice (P4), the flashcards (P5), then the gates (P6,*)
(* and in full mode P7, P8 and P6 again), the verdict, and at most one     *)
(* rewrite; with "Regenerar", "Mas ejemplos", pauses on the monthly budget,*)
(* failures, crashes and the resumption of the run.                        *)
(*                                                                         *)
(* One path version.  A lesson has one P4 call (the families are one), P5  *)
(* always yields a card, the calls of a wave are in flight together (a     *)
(* group here is no wider than the pools), and the only gate that asks for *)
(* an edit is P6.  Nobody cancels: no caller passes a signal.  The writes  *)
(* of the app do not fail.                                                 *)
(*                                                                         *)
(* A call is all its attempts: repair turns, retries and the other targets *)
(* of its role are each billed (packages/ai/src/run.ts), and all but the   *)
(* accepted one are paid for nothing.                                      *)
(***************************************************************************)
EXTENDS Integers, Sequences, FiniteSets, FiniteSetsExt

CONSTANTS
    NumLessons,     \* lessons of the version, in their order
    HeadSize,       \* SYNCHRONOUS_HEAD_LESSONS
    FullQa,         \* draft.qa_mode = "full"
    Faulty,         \* the lessons the gates may find fault with
    Claimless,      \* the texts without a claim to cite: lesson, revision, edited
    MaxEvents       \* bound on presses, crashes, failures and refusals

ASSUME LessonsAssumption == NumLessons \in Nat \ {0} /\ HeadSize \in Nat \ {0}
ASSUME GatesAssumption ==
    /\ FullQa \in BOOLEAN /\ Faulty \subseteq 1 .. NumLessons
    /\ Claimless \subseteq (1 .. NumLessons) \X Nat \X BOOLEAN
ASSUME BoundsAssumption == MaxEvents \in Nat

VARIABLES
    lessons,    \* the lessons table, with the rows that hang from each
    answers,    \* ai_results: what was asked and what was answered
    runs,       \* the expansion rows of generation_runs, in order
    batches,    \* the batches at the batch runner, in order
    mem,        \* the expansion in flight in this process
    charged,    \* the asks answered for money, those paid again, those nobody awaits
    used        \* how much of each bound is spent

vars == <<lessons, answers, runs, batches, mem, charged, used>>

Lessons == 1 .. NumLessons
Waves == {"theory", "practice", "cards", "p6", "p7", "p8", "p6again"}
Gates == {"p6", "p7", "p8", "p6again"}
NoText == [rev |-> -1, edited |-> FALSE]
NewLedger == [rev |-> 0, regens |-> 0, variant |-> 0]
NoReview ==
    [failed |-> FALSE, gate |-> FALSE, faith |-> "none", ped |-> "none", edited |-> FALSE]

NoAttempt ==
    [stage |-> "idle", phase |-> "done", row |-> 0, kind |-> "expand", only |-> 0,
     waiting |-> FALSE, watch |-> FALSE, paused |-> FALSE, wanted |-> {}, group |-> {},
     tail |-> {}, todo |-> {}, flying |-> {}, failed |-> {}, written |-> {}, pools |-> {},
     again |-> {}, batch |-> 0,
     ledger |-> [l \in Lessons |-> NewLedger], rev |-> [l \in Lessons |-> 0],
     attempt |-> [l \in Lessons |-> 0], review |-> [l \in Lessons |-> NoReview]]

Init ==
    /\ lessons = [l \in Lessons |->
                    [status |-> "pending", ledger |-> NewLedger, text |-> NoText,
                     exercises |-> {}, cards |-> 0, reviewed |-> FALSE]]
    /\ answers = {}
    /\ runs = <<>>
    /\ batches = <<>>
    /\ mem = NoAttempt
    /\ charged = [once |-> {}, again |-> {}, lost |-> {}]
    /\ used = [events |-> 0, rewrites |-> [l \in Lessons |-> 0]]
-----------------------------------------------------------------------------
(* What a call asks, which is what its custom_id hashes: the revision of   *)
(* the theory, for P4 the variant too, for P6 whether P8 edited the text.  *)
Ask(m, l) ==
    [stage |-> IF m.stage = "p6again" THEN "p6" ELSE m.stage,
     lesson |-> l,
     rev |-> m.rev[l],
     mark |-> CASE m.stage = "practice" ->
                     m.ledger[l].variant + (IF m.kind = "examples" THEN 1 ELSE 0)
                [] m.stage = "p6again" -> 1
                [] OTHER -> 0]

Says(ask) ==
    CASE ask.stage = "p6" /\ ask.lesson \in Faulty ->
           {"good", "low", "mute"} \cup (IF ask.mark = 0 THEN {"mend"} ELSE {})
      [] ask.stage = "p7" /\ ask.lesson \in Faulty -> {"good", "low"}
      [] ask.stage \in {"p6", "p7"} /\ ask.lesson \notin Faulty -> {"good"}
      [] ask.stage = "p8" -> {"applied", "nothing"}
      [] OTHER -> {"done"}

(* An answer of a batch is stored unread: it may not validate.             *)
Unreadable(ask) == [ask |-> ask, says |-> "bad"]

Answered(ask) == \E a \in answers : a.ask = ask
Usable(ask) == \E a \in answers : a.ask = ask /\ a.says # "bad"
Stored(m, l) == {a \in answers : a.ask = Ask(m, l) /\ a.says # "bad"}

(* A provider charges for every attempt it answers, whoever listens; kept  *)
(* are the asks that have got an answer of use by it.                      *)
Charge(asks, kept, lost) ==
    charged' = [once |-> charged.once \cup kept,
                again |-> charged.again \cup (asks \cap charged.once),
                lost |-> charged.lost \cup lost]

Event == used.events < MaxEvents /\ used' = [used EXCEPT !.events = @ + 1]

First(s) == Min(s)
Firsts(s) == {l \in s : Cardinality({k \in s : k < l}) < HeadSize}

(* runWave: the requests of a wave.  A wave of none is over at once.       *)
Opened(m, stage, asked) ==
    [m EXCEPT !.stage = stage, !.todo = asked, !.flying = {}, !.failed = {}, !.batch = 0,
              !.phase = IF asked = {} THEN "done" ELSE "replay"]

(* runGroup, and runQa for the lessons sent back to P3: entries with       *)
(* nothing written yet.                                                    *)
StartGroup(m, group, watch) ==
    Opened([m EXCEPT !.group = group, !.watch = watch, !.written = {}, !.pools = {},
                     !.again = {}, !.review = [l \in Lessons |-> NoReview]],
           "theory", group)

(* Mutant: the tail is forgotten.                                          *)
NextGroupForgetting(m) == [m EXCEPT !.stage = "closing", !.phase = "done"]

(* After the head, the tail; after the tail, the end.                      *)
NextGroup(m) ==
    IF m.tail = {} THEN [m EXCEPT !.stage = "closing", !.phase = "done"]
    ELSE StartGroup([m EXCEPT !.tail = {}], m.tail, m.waiting)
-----------------------------------------------------------------------------
(* The rows of the expansion.                                              *)

ReadIds(r) == runs[r].ids
Expanding(r) == runs[r].status = "expanding"
Out(r) == {b \in ReadIds(r) : ~batches[b].over}

(* What the expansion panel lets the user ask: it expands by itself as soon*)
(* as it shows a lesson that is pending, and nobody waits for that one.    *)
Pressable(kind, l) ==
    CASE kind = "expand" -> l = 0 /\ \E k \in Lessons : lessons[k].status = "pending"
      [] kind = "regenerate" -> l # 0 /\ runs # <<>>
      [] kind = "examples" -> l # 0 /\ lessons[l].status \in {"ready", "qa"}

(* ExpansionRun.expand, from the facade's expand, regenerateLesson and     *)
(* regenerateAffected: the latest row goes on if it is expanding.  A press *)
(* while an expansion is in flight only waits for it.                      *)
Press(kind, l) ==
    /\ mem.stage = "idle"
    /\ used.events < MaxEvents
    /\ Pressable(kind, l)
    /\ IF runs # <<>> /\ Expanding(Len(runs))
       THEN UNCHANGED runs
       ELSE runs' = Append(runs, [status |-> "expanding", ids |-> {}])
    /\ mem' = [NoAttempt EXCEPT !.stage = "preparing", !.row = Len(runs'), !.kind = kind,
                                !.only = l, !.waiting = l # 0]
    /\ used' = [events |-> used.events + 1,
                rewrites |-> IF kind = "regenerate" THEN [used.rewrites EXCEPT ![l] = @ + 1]
                             ELSE used.rewrites]
    /\ UNCHANGED <<lessons, answers, batches, charged>>

(* ExpansionRun.resume, from the sweep of bootstrap at startup: what the   *)
(* user pressed is forgotten.                                              *)
Resume(r) ==
    /\ mem.stage = "idle"
    /\ Expanding(r)
    /\ mem' = [NoAttempt EXCEPT !.stage = "preparing", !.row = r]
    /\ UNCHANGED <<lessons, answers, runs, batches, charged, used>>

(* The context of every lesson wanted, and its entry.                      *)
Prepare ==
    LET wanted == IF mem.only = 0 THEN {l \in Lessons : lessons[l].status # "ready"}
                  ELSE {mem.only}
        anew == mem.kind = "regenerate"
        ledger == [l \in Lessons |->
                     IF anew /\ l \in wanted THEN [lessons[l].ledger EXCEPT !.regens = 0]
                     ELSE lessons[l].ledger]
        m == [mem EXCEPT !.wanted = wanted, !.ledger = ledger,
                         !.rev = [l \in Lessons |-> ledger[l].rev
                                     + (IF anew /\ l \in wanted THEN 1 ELSE 0)],
                         !.attempt = [l \in Lessons |-> ledger[l].regens],
                         !.tail = wanted \ Firsts(wanted)]
    IN  /\ mem.stage = "preparing"
        /\ mem' = IF wanted = {} THEN [m EXCEPT !.stage = "closing"]
                  ELSE StartGroup(m, Firsts(wanted), TRUE)
        /\ UNCHANGED <<lessons, answers, runs, batches, charged, used>>

(* A read of the preparation throws (the search, a role without a model):  *)
(* the row fails, and nobody will ask for its batches any more.            *)
PrepareThrows ==
    /\ mem.stage = "preparing"
    /\ Event
    /\ runs' = [runs EXCEPT ![mem.row].status = "failed"]
    /\ Charge({}, {}, UNION {batches[b].asks : b \in Out(mem.row)})
    /\ mem' = NoAttempt
    /\ UNCHANGED <<lessons, answers, batches>>

(* The last checkpoint.                                                    *)
Close ==
    /\ mem.stage = "closing"
    /\ runs' = [runs EXCEPT ![mem.row].status =
                    IF mem.paused THEN "blocked_budget" ELSE "completed"]
    /\ mem' = NoAttempt
    /\ UNCHANGED <<lessons, answers, batches, charged, used>>
-----------------------------------------------------------------------------
(* What an answer does: the callbacks of runTheory, runPractice, runCards  *)
(* and of the gates.                                                       *)

(* Mutant: P8 leaves the gate of P6 as it was.                             *)
EditedKeepingGate(v) == [v EXCEPT !.edited = TRUE]

(* The text P8 changed has no verdict of P6 until P6 answers for it.       *)
Edited(v) == [v EXCEPT !.edited = TRUE, !.gate = FALSE, !.faith = "none"]

(* What the gates know of a lesson.  P6 that answers none of the claims    *)
(* closes its gate and fails the review; an edit opens it again.           *)
Reviewed(m, l, says) ==
    LET v == m.review[l]
    IN  CASE m.stage \in {"p6", "p6again"} /\ says = "mute" ->
               [v EXCEPT !.gate = TRUE, !.faith = "none", !.failed = TRUE]
          [] m.stage \in {"p6", "p6again"} /\ says # "mute" ->
               [v EXCEPT !.gate = TRUE, !.faith = says]
          [] m.stage = "p7" -> [v EXCEPT !.ped = says]
          [] m.stage = "p8" /\ says = "applied" -> Edited(v)
          [] OTHER -> v

Landed(m, l, says) ==
    LET settled == [m EXCEPT !.todo = @ \ {l}, !.flying = @ \ {l}]
    IN  CASE m.stage = "theory" ->
               [settled EXCEPT !.written = @ \cup {l}, !.ledger[l].rev = m.rev[l]]
          [] m.stage = "practice" -> [settled EXCEPT !.pools = @ \cup {l}]
          [] m.stage \in Gates -> [settled EXCEPT !.review[l] = Reviewed(m, l, says)]
          [] OTHER -> settled

(* persistTheory and persistFlashcards; the answers of P4 and of the gates *)
(* wait in memory.                                                         *)
RowLanded(m, l) ==
    CASE m.stage = "theory" ->
           [lessons EXCEPT ![l].text = [rev |-> m.rev[l], edited |-> FALSE],
                           ![l].ledger = [m.ledger[l] EXCEPT !.rev = m.rev[l]],
                           ![l].status = "generating"]
      [] m.stage = "cards" ->
           [lessons EXCEPT ![l].cards = @ + 1, ![l].ledger = m.ledger[l], ![l].status = "qa"]
      [] OTHER -> lessons
-----------------------------------------------------------------------------
(* runWave.  Replay of what ai_results holds and validates, the batches of *)
(* an earlier attempt, the replay again, then the calls or a batch.        *)

Replaying == mem.phase \in {"replay", "again", "readback"}
Replayable == {l \in mem.todo : Usable(Ask(mem, l))}

(* Mutant: the batches on the row are not waited for.                      *)
AwaitsNone(m) == FALSE

(* The batches on the row are waited for by the first wave of a group and  *)
(* by the first of its gates.                                              *)
Awaits(m) == m.stage \in {"theory", "p6"}

Replay ==
    /\ Replaying
    /\ Replayable # {}
    /\ LET l == First(Replayable)
       IN  \E a \in Stored(mem, l) :
             /\ lessons' = RowLanded(mem, l)
             /\ mem' = Landed(mem, l, a.says)
    /\ UNCHANGED <<answers, runs, batches, charged, used>>

(* The requests left: a batch for who is not waiting, or the calls.        *)
Dispatched(m) ==
    CASE m.todo = {} -> [m EXCEPT !.phase = "done"]
      [] m.todo # {} /\ (m.watch \/ m.phase = "readback") ->
           [m EXCEPT !.phase = "calls", !.flying = m.todo]
      [] OTHER -> [m EXCEPT !.phase = "submitting"]

Replayed ==
    /\ Replaying
    /\ Replayable = {}
    /\ mem' = IF mem.phase = "replay" /\ Awaits(mem) /\ Out(mem.row) # {}
              THEN [mem EXCEPT !.phase = "await"]
              ELSE Dispatched(mem)
    /\ UNCHANGED <<lessons, answers, runs, batches, charged, used>>

(* waitForBatch, for each id of the row.                                   *)
Await ==
    /\ mem.phase = "await"
    /\ Out(mem.row) = {}
    /\ mem' = [mem EXCEPT !.phase = "again"]
    /\ UNCHANGED <<lessons, answers, runs, batches, charged, used>>

Calling == mem.phase = "calls"

(* An accepted answer takes the place of one that did not validate.        *)
AnswerCall(l) ==
    LET ask == Ask(mem, l)
    IN  /\ Calling
        /\ l \in mem.flying
        /\ \E says \in Says(ask) :
             /\ answers' = (answers \ {Unreadable(ask)}) \cup {[ask |-> ask, says |-> says]}
             /\ mem' = Landed(mem, l, says)
        /\ lessons' = RowLanded(mem, l)
        /\ Charge({ask}, {ask}, {})
        /\ UNCHANGED <<runs, batches, used>>

(* No attempt is accepted: those that were answered are billed all the same*)
FailCall(l) ==
    /\ Calling
    /\ l \in mem.flying
    /\ Event
    /\ mem' = [mem EXCEPT !.todo = @ \ {l}, !.flying = @ \ {l}, !.failed = @ \cup {l}]
    /\ \E billed \in SUBSET {Ask(mem, l)} : Charge(billed, {}, {})
    /\ UNCHANGED <<lessons, answers, runs, batches>>

(* budget_exceeded: the monthly budget refuses the call.                   *)
RefuseCall(l) ==
    /\ Calling
    /\ l \in mem.flying
    /\ Event
    /\ mem' = [mem EXCEPT !.flying = @ \ {l}, !.paused = TRUE]
    /\ UNCHANGED <<lessons, answers, runs, batches, charged>>

(* The end of a wave: nothing is left to ask, or every call has come back. *)
WaveOver == mem.phase = "done" \/ (Calling /\ mem.flying = {})

(* submitBatch: what is on record is not asked again, even if it does not  *)
(* validate, and a batch of none is over at once.                          *)
Submit ==
    LET asks == {ask \in {Ask(mem, l) : l \in mem.todo} : ~Answered(ask)}
    IN  /\ mem.phase = "submitting"
        /\ batches' = Append(batches, [asks |-> asks, over |-> asks = {}])
        /\ mem' = [mem EXCEPT !.phase = "booking", !.batch = Len(batches')]
        /\ UNCHANGED <<lessons, answers, runs, charged, used>>

(* It cannot be submitted: the calls; or the budget refuses it.            *)
SubmitFails ==
    /\ mem.phase = "submitting"
    /\ Event
    /\ mem' \in {[mem EXCEPT !.phase = "calls", !.flying = mem.todo],
                 [mem EXCEPT !.phase = "done", !.paused = TRUE]}
    /\ UNCHANGED <<lessons, answers, runs, batches, charged>>

(* onBatch: the id is on the row before anything waits for the batch.      *)
Book ==
    /\ mem.phase = "booking"
    /\ runs' = [runs EXCEPT ![mem.row].ids = @ \cup {mem.batch}]
    /\ mem' = [mem EXCEPT !.phase = "waiting"]
    /\ UNCHANGED <<lessons, answers, batches, charged, used>>

(* The batch runner ends a batch: of what it asked, some is answered and   *)
(* charged, the rest is not.  An answer is stored, of use or not, unless   *)
(* there is one already.                                                   *)
BatchEnds(b) ==
    /\ ~batches[b].over
    /\ mem.stage = "idle" \/ mem.phase \in {"await", "waiting", "calls"}
    /\ \E done \in SUBSET batches[b].asks :
         \E bad \in SUBSET done, says \in [done -> UNION {Says(a) : a \in done}] :
           LET new == {a \in done : ~Answered(a)}
           IN  /\ IF done = batches[b].asks /\ bad = {} THEN UNCHANGED used ELSE Event
               /\ \A a \in done : says[a] \in Says(a)
               /\ Charge(done, new \ bad, {})
               /\ answers' = answers \cup {[ask |-> a, says |-> says[a]] : a \in new \ bad}
                                    \cup {Unreadable(a) : a \in new \cap bad}
    /\ batches' = [batches EXCEPT ![b].over = TRUE]
    /\ UNCHANGED <<lessons, runs, mem>>

(* Mutant: only a batch that was answered in full is over.                 *)
EndedInFull(b) == batches[b].over /\ \A a \in batches[b].asks : Answered(a)

(* A terminal status, whatever was answered.                               *)
Ended(b) == batches[b].over

(* What the batch did not answer, or not so that it can be used, is asked  *)
(* again, by calls.                                                        *)
WaitOver ==
    /\ mem.phase = "waiting"
    /\ Ended(mem.batch)
    /\ mem' = [mem EXCEPT !.phase = "readback"]
    /\ UNCHANGED <<lessons, answers, runs, batches, charged, used>>
-----------------------------------------------------------------------------
(* From one wave to the next.                                              *)

Stopping(m) == [m EXCEPT !.stage = "closing", !.phase = "done"]

Live(m) == {l \in m.group \cap m.written : ~m.review[l].failed}
Wants(m, l) == m.review[l].faith = "low" \/ m.review[l].ped = "low"
Edits(m, l) == m.review[l].faith = "mend"

(* failLesson.                                                             *)
Failing(m) ==
    [l \in Lessons |->
       IF l \in m.failed
       THEN [lessons[l] EXCEPT !.status = "failed",
                               !.ledger = [m.ledger[l] EXCEPT !.rev = m.rev[l]]]
       ELSE lessons[l]]

(* A failing call of the gates fails the review of its lesson.             *)
Reviewing(m) ==
    [m EXCEPT !.review = [l \in Lessons |->
                            IF l \in m.failed THEN [m.review[l] EXCEPT !.failed = TRUE]
                            ELSE m.review[l]]]

TheoryOver ==
    /\ mem.stage = "theory" /\ WaveOver
    /\ lessons' = Failing(mem)
    /\ mem' = IF mem.paused THEN Stopping(mem)
              ELSE Opened(mem, "practice", mem.written)
    /\ UNCHANGED <<answers, runs, batches, charged, used>>

(* After P4, the block of every lesson, whatever came back: even paused.   *)
PracticeOver ==
    /\ mem.stage = "practice" /\ WaveOver
    /\ mem' = [mem EXCEPT !.stage = "composing", !.phase = "done", !.todo = mem.written,
                            !.failed = {}]
    /\ UNCHANGED <<lessons, answers, runs, batches, charged, used>>

(* persistPractice: a block of none when the call failed.                  *)
Compose ==
    /\ mem.stage = "composing"
    /\ mem.todo # {}
    /\ LET l == First(mem.todo)
           more == mem.kind = "examples"
           block == {[rev |-> mem.rev[l], variant |-> Ask([mem EXCEPT !.stage = "practice"], l).mark]
                       : k \in mem.pools \cap {l}}
           ledger == [mem.ledger[l] EXCEPT !.variant = @ + (IF more THEN 1 ELSE 0)]
       IN  /\ lessons' = [lessons EXCEPT
                            ![l].exercises = IF more THEN @ \cup block ELSE block,
                            ![l].ledger = ledger,
                            ![l].status = "generating"]
           /\ mem' = [mem EXCEPT !.todo = @ \ {l}, !.ledger[l] = ledger]
    /\ UNCHANGED <<answers, runs, batches, charged, used>>

(* Mutant: P5 is asked for every lesson.                                   *)
LackingAlways(m) == m.written

LackingCards(m) == {l \in m.written : lessons[l].cards = 0}

(* runCards: a lesson that has its cards is not asked for them again.      *)
Composed ==
    /\ mem.stage = "composing"
    /\ mem.todo = {}
    /\ IF mem.paused
       THEN mem' = Stopping(mem) /\ UNCHANGED lessons
       ELSE /\ lessons' = [l \in Lessons |->
                             IF l \in mem.written \ LackingCards(mem)
                             THEN [lessons[l] EXCEPT !.status = "qa", !.ledger = mem.ledger[l]]
                             ELSE lessons[l]]
            /\ mem' = Opened(mem, "cards", LackingCards(mem))
    /\ UNCHANGED <<answers, runs, batches, charged, used>>

(* faithfulnessWave: a text without a claim is not put to P6, and has its  *)
(* gate all the same ("skipped").                                          *)
HasClaims(m, l) == <<l, m.rev[l], m.review[l].edited>> \notin Claimless
Verifying(m, stage, asked) ==
    Opened([m EXCEPT !.review = [l \in Lessons |->
                IF l \in asked /\ ~HasClaims(m, l)
                THEN [m.review[l] EXCEPT !.gate = TRUE, !.faith = "none"]
                ELSE m.review[l]]],
           stage, {l \in asked : HasClaims(m, l)})

(* runQa takes every lesson with a theory, those whose P5 failed too.      *)
CardsOver ==
    /\ mem.stage = "cards" /\ WaveOver
    /\ lessons' = Failing(mem)
    /\ mem' = CASE mem.paused -> Stopping(mem)
                [] ~mem.paused /\ mem.written = {} -> NextGroup(mem)
                [] OTHER -> Verifying(mem, "p6", mem.written)
    /\ UNCHANGED <<answers, runs, batches, charged, used>>

Judging(m) ==
    [m EXCEPT !.stage = "verdict", !.phase = "done", !.todo = m.written, !.failed = {}]

GateOver ==
    /\ mem.stage \in Gates /\ WaveOver
    /\ LET m == Reviewing(mem)
           open == {l \in Live(m) : ~Wants(m, l)}
       IN  mem' = CASE m.paused -> Stopping(m)
                    [] ~m.paused /\ m.stage = "p6" /\ FullQa -> Opened(m, "p7", open)
                    [] ~m.paused /\ m.stage = "p7" ->
                         Opened(m, "p8", {l \in open : Edits(m, l)})
                    [] ~m.paused /\ m.stage = "p8" ->
                         Verifying(m, "p6again", {l \in Live(m) : m.review[l].edited})
                    [] OTHER -> Judging(m)
    /\ UNCHANGED <<lessons, answers, runs, batches, charged, used>>

(* Mutant: the gates rewrite as often as they like.                        *)
RewritesAgain(m, l) == Wants(m, l) /\ m.kind # "examples"

(* One regeneration, and none for "Mas ejemplos".                          *)
Rewrites(m, l) == Wants(m, l) /\ m.kind # "examples" /\ m.attempt[l] = 0

(* The gates and persistQa: an edit P6 never answered for is taken back; a *)
(* lesson under the thresholds is sent to P3 again, once.                  *)
Verdict ==
    /\ mem.stage = "verdict"
    /\ mem.todo # {}
    /\ LET l == First(mem.todo)
           v == mem.review[l]
           again == Rewrites(mem, l)
       IN  /\ lessons' = IF again THEN lessons
                         ELSE [lessons EXCEPT ![l].text.edited = v.edited /\ v.gate,
                                              ![l].reviewed = ~v.failed /\ v.gate,
                                              ![l].status = "ready"]
           /\ mem' = [mem EXCEPT !.todo = @ \ {l},
                                 !.again = IF again THEN @ \cup {l} ELSE @]
    /\ UNCHANGED <<answers, runs, batches, charged, used>>

Judged ==
    /\ mem.stage = "verdict"
    /\ mem.todo = {}
    /\ mem' = IF mem.again = {} THEN NextGroup(mem)
              ELSE [mem EXCEPT !.stage = "rewriting", !.todo = mem.again]
    /\ UNCHANGED <<lessons, answers, runs, batches, charged, used>>

(* The rewrite is on the ledger before P3 is asked.                        *)
Counted(row, ledger) == [row EXCEPT !.ledger = ledger, !.status = "generating"]

Rewrite ==
    /\ mem.stage = "rewriting"
    /\ mem.todo # {}
    /\ LET l == First(mem.todo)
           ledger == [mem.ledger[l] EXCEPT !.regens = mem.attempt[l] + 1,
                                           !.rev = mem.rev[l] + 1]
       IN  /\ lessons' = [lessons EXCEPT ![l] = Counted(@, ledger)]
           /\ mem' = [mem EXCEPT !.todo = @ \ {l}, !.ledger[l] = ledger,
                                 !.rev[l] = @ + 1, !.attempt[l] = @ + 1]
    /\ UNCHANGED <<answers, runs, batches, charged, used>>

Rewritten ==
    /\ mem.stage = "rewriting"
    /\ mem.todo = {}
    /\ mem' = StartGroup(mem, mem.again, mem.watch)
    /\ UNCHANGED <<lessons, answers, runs, batches, charged, used>>
-----------------------------------------------------------------------------
(* The process dies: of the calls in flight some are charged and none is   *)
(* heard; a batch that is not on its row is lost.                          *)
Crash ==
    /\ mem.stage # "idle"
    /\ Event
    /\ \E heard \in SUBSET {Ask(mem, l) : l \in mem.flying} :
         Charge(heard, {}, IF mem.phase = "booking" THEN batches[mem.batch].asks ELSE {})
    /\ mem' = NoAttempt
    /\ UNCHANGED <<lessons, answers, runs, batches>>

User ==
    \E kind \in {"expand", "regenerate", "examples"}, l \in Lessons \cup {0} : Press(kind, l)

Work ==
    \/ Prepare \/ Close \/ Replay \/ Replayed \/ Await \/ Submit \/ Book
    \/ WaitOver \/ TheoryOver \/ PracticeOver \/ Compose \/ Composed \/ CardsOver
    \/ GateOver \/ Verdict \/ Judged \/ Rewrite \/ Rewritten
    \/ \E l \in Lessons : AnswerCall(l)

Faults ==
    \/ PrepareThrows \/ SubmitFails \/ Crash
    \/ \E l \in Lessons : FailCall(l) \/ RefuseCall(l)

Sweep == \E r \in DOMAIN runs : Resume(r)
Provider == \E b \in DOMAIN batches : BatchEnds(b)

Next == User \/ Work \/ Sweep \/ Provider \/ Faults

Spec == Init /\ [][Next]_vars

(* What is in memory goes on, a row left expanding is adopted by the sweep *)
(* of the next launch, and every batch ends (the provider's 24 hours).     *)
FairSpec == Spec /\ WF_vars(Work) /\ WF_vars(Sweep) /\ WF_vars(Provider)
-----------------------------------------------------------------------------
AskType ==
    [stage : Waves \ {"p6again"}, lesson : Lessons, rev : Nat, mark : Nat]
LedgerType == [rev : Nat, regens : 0 .. 1, variant : Nat]

(* The type of the state: of note, the gates send a lesson back at most    *)
(* once (qa_regenerations), and a batch on a row exists.                   *)
TypeOK ==
    /\ lessons \in [Lessons -> [status : {"pending", "generating", "qa", "ready", "failed"},
                                ledger : LedgerType,
                                text : [rev : Nat \cup {-1}, edited : BOOLEAN],
                                exercises : SUBSET [rev : Nat, variant : Nat],
                                cards : Nat, reviewed : BOOLEAN]]
    /\ \A a \in answers : a.ask \in AskType /\ a.says \in Says(a.ask) \cup {"bad"}
    /\ \A r \in DOMAIN runs :
         /\ runs[r].status \in {"expanding", "completed", "blocked_budget", "failed"}
         /\ runs[r].ids \subseteq DOMAIN batches
    /\ \A b \in DOMAIN batches : batches[b].asks \subseteq AskType
    /\ mem.stage \in Waves \cup {"idle", "preparing", "composing", "verdict", "rewriting", "closing"}
    /\ mem.flying \subseteq mem.todo /\ mem.todo \subseteq mem.group
    /\ mem.group \subseteq mem.wanted /\ mem.wanted \subseteq Lessons
    /\ mem.stage # "idle" => mem.row \in DOMAIN runs
    /\ mem.ledger \in [Lessons -> LedgerType]

(* The flashcards of a lesson are written once, however often the run is   *)
(* resumed, the lesson regenerated or the gates send it back: a card may   *)
(* carry what the learner has earned.                                      *)
CardsOnce == \A l \in Lessons : lessons[l].cards <= 1

(* The gates rewrite a lesson at most once by press of "Regenerar", and    *)
(* once on their own: a crash between the verdict and the new theory does  *)
(* not give them another.                                                  *)
RewrittenOnce == \A l \in Lessons : lessons[l].ledger.rev <= 2 * used.rewrites[l] + 1

(* What a resumption must not do a second time.                            *)
DoneOnce == CardsOnce /\ RewrittenOnce

(* What the learner reads is what P6 was shown: a finished lesson with P8's*)
(* edits had them put to P6, and one marked reviewed has P6's verdict on   *)
(* the very text it carries.  The exception is a text that cites nothing:  *)
(* it is marked reviewed, and P6 never saw it (pipeline.ts:573-576).       *)
VerdictOnText ==
    \A l \in Lessons :
        LET row == lessons[l]
            shown == {a \in answers : /\ a.ask.stage = "p6" /\ a.ask.lesson = l
                                      /\ a.ask.rev = row.text.rev
                                      /\ a.ask.mark = (IF row.text.edited THEN 1 ELSE 0)
                                      /\ a.says # "bad"}
        IN  row.status = "ready" /\ <<l, row.text.rev, row.text.edited>> \notin Claimless =>
              /\ row.text.edited => shown # {}
              /\ row.reviewed => \E a \in shown : a.says # "mute"

(* Once an answer of use has been paid for, its ask is not paid for again, *)
(* however the run is interrupted and resumed: batches are awaited by their*)
(* ids, answers replayed.  The exception is the asks of a batch nobody     *)
(* awaits: a crash came before its id was on the row, or the row failed.   *)
(* What buys nothing may be paid for and asked again: an attempt that is   *)
(* refused or whose call fails (run.ts:287-352), an answer a crash kept    *)
(* from being heard, one of a batch that does not validate                 *)
(* (wave.ts:166-171, 325-327).                                             *)
PaidOnce == charged.again \subseteq charged.lost

(* A run that says it completed has brought every lesson it took to the    *)
(* end: ready, or failed.                                                  *)
CompletedLeavesNone ==
    [][\A r \in DOMAIN runs :
         runs[r].status = "expanding" /\ runs'[r].status = "completed" =>
           \A l \in mem.wanted : lessons'[l].status \in {"ready", "failed"}]_vars

(* A row does not stay expanding: the run ends, pauses or fails, whatever  *)
(* crashes, lost answers and refusals it meets.                            *)
ExpansionRests ==
    \A r \in 1 .. MaxEvents :
        (r \in DOMAIN runs /\ runs[r].status = "expanding")
            ~> (r \in DOMAIN runs /\ runs[r].status # "expanding")

(* plan.ts: "A lesson is finished when P3, P4 and P5 have all landed", and *)
(* finished is ready.                                                      *)
ReadyMeansLanded ==
    \A l \in Lessons : lessons[l].status = "ready" =>
        lessons[l].text.rev >= 0 /\ lessons[l].cards >= 1

(* persist.ts: "Regenerar" replaces the block; "Mas ejemplos" appends to   *)
(* it.  No exercise about the theory the lesson has goes away.             *)
ExamplesKept ==
    [][\A l \in Lessons :
         {x \in lessons[l].exercises : x.rev = lessons'[l].ledger.rev}
             \subseteq lessons'[l].exercises]_vars

(* pipeline.ts: a lesson whose text P6 never answered for after P8 rewrote *)
(* it goes out with the pre-edit text.                                     *)
EditedIsVouched ==
    \A l \in Lessons : lessons[l].status = "ready" /\ lessons[l].text.edited =>
        \E a \in answers : /\ a.ask = [stage |-> "p6", lesson |-> l,
                                       rev |-> lessons[l].text.rev, mark |-> 1]
                           /\ a.says # "mute"
=============================================================================
