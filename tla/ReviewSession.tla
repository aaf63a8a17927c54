---------------------------- MODULE ReviewSession ----------------------------
(***************************************************************************)
(* The daily review session (packages/core/src/memory/session-runner.ts    *)
(* and session-start.ts, apps/desktop/src/main/memory/service.ts) between  *)
(* the review screen that drives it over IPC and the two tables it writes: *)
(* the append-only review log with the card it schedules, one transaction, *)
(* and then the row of the session, which says how far the queue has gone. *)
(* Beside it, the diagnostic seeds new cards with a review and takes it    *)
(* back.                                                                   *)
(*                                                                         *)
(* SQLite is synchronous, so the main process handles one request without  *)
(* another in between; a crash may still fall between its two writes.  The *)
(* screen waits for the reply of a grade, but skips and undoes while one   *)
(* is on the way.                                                          *)
(***************************************************************************)
EXTENDS Integers, FiniteSets, SequencesExt

CONSTANTS
    NumCards,       \* the cards of the collection, in the order of the queue
    Known,          \* those with a review before; the others are new
    Maintenance,    \* those whose importance suspends a leech
    LeechAt,        \* lapses that make a card a leech
    FinalDrill,     \* review.finalDrill
    MaxChains,      \* bound on the presses on the way at a time
    MaxEvents       \* bound on undoes, hasty skips, crashes, seedings, days, new sessions

Cards == 1 .. NumCards

ASSUME CardsAssumption ==
    NumCards \in Nat \ {0} /\ Known \subseteq Cards /\ Maintenance \subseteq Cards
ASSUME LeechAssumption == LeechAt \in Nat \ {0} /\ FinalDrill \in BOOLEAN
ASSUME BoundsAssumption ==
    MaxChains \in Nat \ {0} /\ MaxEvents \in Nat

VARIABLES
    cards,      \* each card: the reviews its memory state counts, reps, lapses...
    logs,       \* review_logs, oldest first
    rows,       \* review_sessions, oldest first
    runner,     \* the session the main process holds
    screen,     \* what the review screen shows
    wire,       \* the requests of the screen, in order
    replies,    \* and the answers to them
    clock       \* the study day, and the events used up

vars == <<cards, logs, rows, runner, screen, wire, replies, clock>>

Again == 1
Good == 3
None == 0
NoProgress == [cursor |-> 0, outcomes |-> <<>>, drill |-> <<>>]
NoRunner == [row |-> None, entries |-> <<>>, progress |-> NoProgress, drillEntry |-> None]
Idle == [phase |-> "idle", busy |-> FALSE]

Init ==
    /\ logs = [l \in 1 .. Cardinality(Known) |->
                [card |-> SetToSeq(Known)[l], rating |-> Good, before |-> <<>>, lapse |-> FALSE,
                 live |-> TRUE, seed |-> FALSE]]
    /\ cards = [c \in Cards |->
                 [memory |-> SetToSeq({l \in DOMAIN logs : logs[l].card = c}),
                  reps |-> IF c \in Known THEN 1 ELSE 0,
                  lapses |-> 0, suspended |-> FALSE, due |-> TRUE]]
    /\ rows = <<>>
    /\ runner = NoRunner
    /\ screen = Idle
    /\ wire = <<>>
    /\ replies = <<>>
    /\ clock = [day |-> 1, events |-> 0]

(* What is kept of a sequence, in its order.                               *)
Among(s, kept) ==
    LET upTo[n \in 0 .. Len(s)] ==
            IF n = 0 THEN <<>>
            ELSE IF s[n] \in kept THEN Append(upTo[n - 1], s[n]) ELSE upTo[n - 1]
    IN  upTo[Len(s)]

Event == clock.events < MaxEvents /\ clock' = [clock EXCEPT !.events = @ + 1]
-----------------------------------------------------------------------------
(* The review log and the cards.                                           *)

(* A card lapses when a card in Review, which a Good left there, is failed. *)
Lapses(c, rating) ==
    /\ rating = Again
    /\ cards[c].memory # <<>>
    /\ logs[Last(cards[c].memory)].rating = Good

(* reviewCard: the log and the card in one transaction, evaluateLeech too. *)
Review(c, rating, seed) ==
    LET lapsed == Lapses(c, rating)
        lapses == cards[c].lapses + IF lapsed THEN 1 ELSE 0
    IN  /\ logs' = Append(logs, [card |-> c, rating |-> rating, before |-> cards[c].memory,
                                 lapse |-> lapsed, live |-> TRUE, seed |-> seed])
        /\ cards' = [cards EXCEPT ![c] =
                      [memory |-> Append(@.memory, Len(logs) + 1),
                       reps |-> @.reps + 1,
                       lapses |-> lapses,
                       suspended |-> @.suspended \/ (c \in Maintenance /\ lapses >= LeechAt),
                       due |-> rating = Again]]

(* createUndoReview with Scheduler.rollback.  The card takes back what the *)
(* log says was there before it; counts go down by one; it is due now.     *)
UndoableTwice(l) == l \in DOMAIN logs   \* a slip: the deletedAt check left out
Undoable(l) == logs[l].live

UndoReview(l) ==
    LET log == logs[l]
        restored == [cards[log.card] EXCEPT !.memory = log.before,
                                            !.reps = @ - 1,
                                            !.lapses = @ - IF log.lapse THEN 1 ELSE 0,
                                            !.due = TRUE]
    IN  IF Undoable(l)
        THEN /\ logs' = [logs EXCEPT ![l].live = FALSE]
             /\ cards' = [cards EXCEPT ![log.card] = restored]
        ELSE UNCHANGED <<logs, cards>>
-----------------------------------------------------------------------------
(* The runner.                                                             *)

InMain(r) == r.progress.cursor < Len(r.entries)

(* currentEntry.                                                           *)
Current(r) == IF InMain(r) THEN r.entries[r.progress.cursor + 1] ELSE r.drillEntry

Outcome(c, log) == [card |-> c, log |-> log]

(* The next card of the final drill, past those the queue dropped.         *)
Drillable(r) == SelectInSeq(r.progress.drill, LAMBDA c : Contains(r.entries, c))

LoadDrillFrom(r, held) ==
    IF held THEN r
    ELSE IF Drillable(r) = 0 THEN [r EXCEPT !.progress.drill = <<>>]
    ELSE [r EXCEPT !.drillEntry = r.progress.drill[Drillable(r)],
                   !.progress.drill = SubSeq(@, Drillable(r) + 1, Len(@))]

LoadDrillEarly(r) == LoadDrillFrom(r, r.drillEntry # None)   \* a slip: not at the end

LoadDrill(r) == LoadDrillFrom(r, InMain(r) \/ r.drillEntry # None)

(* What answer and skip record: the outcome, and one step on.              *)
Recorded(r, outcome, drill) ==
    [r EXCEPT !.progress =
                 [cursor |-> IF r.drillEntry = None THEN r.progress.cursor + 1
                             ELSE r.progress.cursor,
                  outcomes |-> Append(r.progress.outcomes, outcome),
                  drill |-> drill],
              !.drillEntry = None]

(* answer: a first Again puts the card in the final drill.                 *)
Requeued(r, rating) == FinalDrill /\ rating = Again /\ r.drillEntry = None

Graded(r, rating, log) ==
    LET drill == r.progress.drill
    IN  Recorded(r, Outcome(Current(r), log),
                 IF Requeued(r, rating) THEN Append(drill, Current(r)) ELSE drill)

Skipped(r) == Recorded(r, Outcome(Current(r), None), r.progress.drill)

(* undo walks back over the skips at the end, then takes one answer back.  *)
LastAnswer(r) == SelectLastInSeq(r.progress.outcomes, LAMBDA o : o.log # None)

Behind(cursor, steps) == IF cursor < steps THEN 0 ELSE cursor - steps

Undone(r) ==
    LET at == LastAnswer(r)
        popped == Len(r.progress.outcomes) - (IF at = 0 THEN 0 ELSE at - 1)
        drill == r.progress.drill
        queued == IF at = 0 THEN 0
                  ELSE SelectLastInSeq(drill, LAMBDA c : c = r.progress.outcomes[at].card)
    IN  [r EXCEPT !.progress =
                     [cursor |-> Behind(r.progress.cursor, popped),
                      outcomes |-> SubSeq(r.progress.outcomes, 1, at - 1),
                      drill |-> IF queued = 0 THEN drill ELSE RemoveAt(drill, queued)],
                  !.drillEntry = IF at = 0 THEN @ ELSE None]

(* persist.                                                                *)
Persist(r, status) ==
    rows' = [rows EXCEPT ![r.row].progress = r.progress, ![r.row].status = status]
-----------------------------------------------------------------------------
(* The requests the main process handles, in the order they came.          *)

Reply(answer) ==
    /\ wire' = Tail(wire)
    /\ replies' = Append(replies, answer)

Asked(op) == wire # <<>> /\ Head(wire).op = op
Says(op) == [op |-> op, kind |-> "done"]
Fails(op) == [op |-> op, kind |-> "failed"]
Empty(op) == [op |-> op, kind |-> "empty"]

(* NoActiveSessionError, or answer on an exhausted queue.                  *)
Refused ==
    /\ wire # <<>>
    /\ Head(wire).op # "start"
    /\ runner = NoRunner \/ (Head(wire).op = "answer" /\ Current(runner) = None)
    /\ Reply(Fails(Head(wire).op))
    /\ UNCHANGED <<cards, logs, rows, runner, screen, clock>>

(* abandonStale, then findActive.                                          *)
Abandoned == [i \in DOMAIN rows |->
                IF rows[i].status = "in_progress" /\ rows[i].day < clock.day
                THEN [rows[i] EXCEPT !.status = "abandoned"] ELSE rows[i]]

(* A slip: only a session nobody has answered in is picked up.             *)
ActiveUntouched ==
    SelectLastInSeq(Abandoned, LAMBDA row : row.status = "in_progress" /\ row.progress = NoProgress)

Active == SelectLastInSeq(Abandoned, LAMBDA row : row.status = "in_progress")

(* rehydrate: the frozen order, without the cards suspended since.         *)
Rehydrated(plan) == Among(plan, {c \in Cards : ~cards[c].suspended})

Resume ==
    /\ Asked("start")
    /\ Active # 0
    /\ rows' = Abandoned
    /\ runner' = [row |-> Active, entries |-> Rehydrated(rows[Active].plan),
                  progress |-> rows[Active].progress, drillEntry |-> None]
    /\ Reply(Says("start"))
    /\ UNCHANGED <<cards, logs, screen, clock>>

(* compose: what is due, in the order of the queue.                        *)
Plan == Among([c \in Cards |-> c], {c \in Cards : cards[c].due /\ ~cards[c].suspended})

Compose ==
    /\ Asked("start")
    /\ Active = 0
    /\ rows' = Append(Abandoned, [status |-> "in_progress", day |-> clock.day,
                                  plan |-> Plan, progress |-> NoProgress])
    /\ runner' = [NoRunner EXCEPT !.row = Len(rows) + 1, !.entries = Plan]
    /\ Reply(Says("start"))
    /\ UNCHANGED <<cards, logs, screen, clock>>

SessionNext ==
    /\ Asked("next")
    /\ runner # NoRunner
    /\ Reply(IF Current(runner) = None THEN Empty("next") ELSE Says("next"))
    /\ UNCHANGED <<cards, logs, rows, runner, screen, clock>>

Answers ==
    /\ Asked("answer")
    /\ runner # NoRunner
    /\ Current(runner) # None

SessionAnswer ==
    LET rating == Head(wire).rating
        graded == Graded(runner, rating, Len(logs) + 1)
    IN  /\ Answers
        /\ Review(Current(runner), rating, FALSE)
        /\ Persist(graded, rows[runner.row].status)
        /\ runner' = LoadDrill(graded)
        /\ Reply(Says("answer"))
        /\ UNCHANGED <<screen, clock>>

SessionSkip ==
    /\ Asked("skip")
    /\ runner # NoRunner
    /\ IF Current(runner) = None
       THEN UNCHANGED <<rows, runner>>
       ELSE /\ Persist(Skipped(runner), rows[runner.row].status)
            /\ runner' = LoadDrill(Skipped(runner))
    /\ Reply(Says("skip"))
    /\ UNCHANGED <<cards, logs, screen, clock>>

Undoes == Asked("undo") /\ runner # NoRunner

(* The review this undo takes back, if there is one.                       *)
TakenBack ==
    LET at == LastAnswer(runner)
    IN  IF at = 0 THEN UNCHANGED <<logs, cards>>
        ELSE UndoReview(runner.progress.outcomes[at].log)

SessionUndo ==
    /\ Undoes
    /\ TakenBack
    /\ Persist(Undone(runner), rows[runner.row].status)
    /\ runner' = Undone(runner)
    /\ Reply(Says("undo"))
    /\ UNCHANGED <<screen, clock>>

SessionFinishKeeping ==     \* a slip: the runner is kept
    /\ Asked("finish")
    /\ runner # NoRunner
    /\ Persist(runner, "completed")
    /\ Reply(Says("finish"))
    /\ UNCHANGED <<cards, logs, runner, screen, clock>>

SessionFinish ==
    /\ Asked("finish")
    /\ runner # NoRunner
    /\ Persist(runner, "completed")
    /\ runner' = NoRunner
    /\ Reply(Says("finish"))
    /\ UNCHANGED <<cards, logs, screen, clock>>

Main == \/ Refused \/ Resume \/ Compose \/ SessionNext
        \/ SessionAnswer \/ SessionSkip \/ SessionUndo \/ SessionFinish
-----------------------------------------------------------------------------
(* The review screen: useReviewSession.                                    *)

Sends(op, rating) == wire' = Append(wire, [op |-> op, rating |-> rating])

Chains == Len(wire) + Len(replies)

(* The effect on mount, and the button of the error screen.                *)
Start ==
    /\ screen.phase = "idle"
    /\ Sends("start", None)
    /\ screen' = [screen EXCEPT !.phase = "starting", !.busy = TRUE]
    /\ UNCHANGED <<cards, logs, rows, runner, replies, clock>>

(* Seguir repasando.                                                       *)
ReviewMore ==
    /\ screen.phase = "finished"
    /\ Event
    /\ screen' = Idle
    /\ UNCHANGED <<cards, logs, rows, runner, wire, replies>>

Grade(rating) ==
    /\ screen.phase = "active"
    /\ ~screen.busy
    /\ Chains < MaxChains
    /\ Sends("answer", rating)
    /\ screen' = [screen EXCEPT !.busy = TRUE]
    /\ UNCHANGED <<cards, logs, rows, runner, replies, clock>>

Skip ==
    /\ screen.phase = "active"
    /\ Chains < MaxChains
    /\ IF screen.busy THEN Event ELSE UNCHANGED clock
    /\ Sends("skip", None)
    /\ screen' = [screen EXCEPT !.busy = TRUE]
    /\ UNCHANGED <<cards, logs, rows, runner, replies>>

Undo ==
    /\ screen.phase \in {"active", "finished"}
    /\ Chains < MaxChains
    /\ Event
    /\ Sends("undo", None)
    /\ screen' = [screen EXCEPT !.busy = TRUE]
    /\ UNCHANGED <<cards, logs, rows, runner, replies>>

(* A reply: on to the next request of its chain, or to the screen.         *)
Receive ==
    LET answer == Head(replies)
    IN  /\ replies # <<>>
        /\ replies' = Tail(replies)
        /\ CASE answer.kind = "failed" ->
                  UNCHANGED <<wire, screen>>
             [] answer.kind = "empty" ->
                  Sends("finish", None) /\ UNCHANGED screen
             [] answer.kind = "done" /\ answer.op = "finish" ->
                  screen' = [phase |-> "finished", busy |-> FALSE] /\ UNCHANGED wire
             [] answer.kind = "done" /\ answer.op = "next" ->
                  screen' = [phase |-> "active", busy |-> FALSE] /\ UNCHANGED wire
             [] OTHER ->
                  Sends("next", None) /\ UNCHANGED screen
        /\ UNCHANGED <<cards, logs, rows, runner, clock>>
-----------------------------------------------------------------------------
(* The process dies, and is started again.                                 *)
Down ==
    /\ runner' = NoRunner
    /\ screen' = Idle
    /\ wire' = <<>>
    /\ replies' = <<>>

Crash ==
    /\ runner # NoRunner
    /\ Event
    /\ Down
    /\ UNCHANGED <<cards, logs, rows>>

(* Between the review and the row of the session.                          *)
CrashInAnswer ==
    /\ Answers
    /\ Review(Current(runner), Head(wire).rating, FALSE)
    /\ Event
    /\ Down
    /\ UNCHANGED rows

CrashInUndo ==
    /\ Undoes
    /\ TakenBack
    /\ Down
    /\ UNCHANGED <<rows, clock>>

(* A new study day: what was put off is due again.                         *)
NewDay ==
    /\ clock.events < MaxEvents
    /\ clock' = [day |-> clock.day + 1, events |-> clock.events + 1]
    /\ cards' = [c \in Cards |-> [cards[c] EXCEPT !.due = TRUE]]
    /\ UNCHANGED <<logs, rows, runner, screen, wire, replies>>

(* seedKnown: a new card of a module the learner already knows.            *)
Seed(c) ==
    /\ Event
    /\ cards[c].memory = <<>>
    /\ \A l \in DOMAIN logs : logs[l].card = c => ~logs[l].live
    /\ Review(c, Good, TRUE)
    /\ UNCHANGED <<rows, runner, screen, wire, replies>>

(* revert of the diagnostic: unseed, whatever was reviewed since.          *)
Unseed(l) ==
    /\ Event
    /\ logs[l].seed
    /\ UndoReview(l)
    /\ UNCHANGED <<rows, runner, screen, wire, replies>>

Next ==
    \/ Main
    \/ Start \/ ReviewMore \/ Skip \/ Undo \/ Receive
    \/ \E rating \in {Again, Good} : Grade(rating)
    \/ Crash \/ CrashInAnswer \/ CrashInUndo \/ NewDay
    \/ \E c \in Cards : Seed(c)
    \/ \E l \in DOMAIN logs : Unseed(l)

Spec == Init /\ [][Next]_vars

(* The two processes answer each other, the screen starts a session, and a *)
(* learner with a card on the screen grades it sooner or later.            *)
FairSpec ==
    /\ Spec
    /\ WF_vars(Main)
    /\ WF_vars(Receive)
    /\ WF_vars(Start)
    /\ WF_vars(\E rating \in {Again, Good} : Grade(rating))
-----------------------------------------------------------------------------
Progresses ==
    [cursor : 0 .. NumCards, drill : Seq(Cards),
     outcomes : Seq([card : Cards, log : 0 .. Len(logs)])]

(* Types, and the position of a session inside its queue: a runner serves  *)
(* a row that is open, and the drill only after the main queue.            *)
TypeOK ==
    /\ cards \in [Cards -> [memory : Seq(DOMAIN logs), reps : Nat, lapses : Nat,
                            suspended : BOOLEAN, due : BOOLEAN]]
    /\ logs \in Seq([card : Cards, rating : {Again, Good}, before : Seq(DOMAIN logs),
                     lapse : BOOLEAN, live : BOOLEAN, seed : BOOLEAN])
    /\ rows \in Seq([status : {"in_progress", "completed", "abandoned"},
                     day : 1 .. MaxEvents + 1, plan : Seq(Cards), progress : Progresses])
    /\ runner \in [row : 0 .. Len(rows), entries : Seq(Cards), progress : Progresses,
                   drillEntry : 0 .. NumCards]
    /\ runner.drillEntry # None => ~InMain(runner)
    /\ runner.row # None => rows[runner.row].status = "in_progress"

Live(c) == {l \in DOMAIN logs : logs[l].card = c /\ logs[l].live}

(* These reviews, oldest first.                                            *)
Replays(memory, reviews) ==
    /\ ToSet(memory) = reviews
    /\ \A i, j \in DOMAIN memory : i < j => memory[i] < memory[j]

(* A review was taken back from under a later one: from under one that is  *)
(* still there, or it was a seeding, which undoing the later one brings    *)
(* back.                                                                   *)
Overtaken(c) ==
    \E l, s \in DOMAIN logs :
        /\ logs[l].card = c /\ s \in ToSet(logs[l].before)
        /\ ~logs[s].live /\ (logs[l].live \/ logs[s].seed)

(* The card is its history, through undoes, crashes, sessions picked up    *)
(* again and seedings: reps and lapses count the live reviews, each once,  *)
(* and, unless one was taken back from under a later one, the memory state *)
(* is what replaying the live reviews gives (reviewCard, createUndoReview, *)
(* createUnseedItems).                                                     *)
CardIsItsHistory ==
    \A c \in Cards :
        /\ cards[c].reps = Cardinality(Live(c))
        /\ cards[c].lapses = Cardinality({l \in Live(c) : logs[l].lapse})
        /\ ~Overtaken(c) => Replays(cards[c].memory, Live(c))

(* A session that was finished or abandoned is never written again, though *)
(* the screen may still have an undo or a skip on the way (sessionFinish,  *)
(* abandonStale).                                                          *)
ClosedStaysClosed ==
    [][\A r \in DOMAIN rows : rows[r].status # "in_progress" => rows'[r] = rows[r]]_vars

Open(r) == r \in DOMAIN rows /\ rows[r].status = "in_progress"

(* Every session ends: the drill comes to its end however the cards are    *)
(* graded, presses that cross each other leave no screen that waits for    *)
(* ever, and a session a crash left open is picked up or abandoned         *)
(* (session-runner.ts, use-review-session.ts).                             *)
SessionsEnd ==
    \A r \in 1 .. MaxEvents + 1 : Open(r) ~> ~Open(r)

(* "A session left open earlier today is picked up exactly where it was"   *)
(* (session-start.ts): no card of its plan that can be reviewed and has no *)
(* outcome yet is behind the cursor.                                       *)
PickedUpInPlace ==
    runner # NoRunner =>
        \A i \in 1 .. Len(runner.entries) :
            i <= runner.progress.cursor =>
                \E j \in DOMAIN runner.progress.outcomes :
                    runner.progress.outcomes[j].card = runner.entries[i]

(* "Scheduler.rollback puts the card back exactly as it was"               *)
(* (session-runner.ts): an undone review leaves a card as it was without   *)
(* it: what is not reviewed again replays to the memory state it has.      *)
UndoIsExact ==
    \A c \in Cards : Replays(cards[c].memory, Live(c))
=============================================================================
