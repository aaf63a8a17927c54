------------------------------ MODULE Detours ------------------------------
(***************************************************************************)
(* The detours of a learning path (packages/pathgen/src/remediation/): a   *)
(* signal that a concept is not understood becomes a candidate, the limits *)
(* refuse it or let it in, and a lesson of its own is written beside the   *)
(* base path, raising the concept's card in memory for a while.            *)
(*                                                                         *)
(* The service runs one call at a time (serialQueue), and a call that      *)
(* writes a detour holds the queue while the model answers.  The learner,  *)
(* the regeneration of the path and the clock do not wait for it.          *)
(*                                                                         *)
(* What lies between two calls of a model is one step: the repositories    *)
(* are synchronous, an await of theirs lets no other task in               *)
(* (packages/db/src/repositories/transaction.ts:16-21).                    *)
(*                                                                         *)
(* Left out: what is written, where beside its anchor it is shown, the     *)
(* measured outcome with its sweep, the lowered mastery of a module sent   *)
(* back, refusals for want of an anchor, and manual reviews without a      *)
(* rating.  placeRemediation is a choice of any core lesson.  A concept    *)
(* has no card or one, neither suspended nor of a high or paused item.     *)
(***************************************************************************)
EXTENDS Integers, Sequences, FiniteSets

CONSTANTS
    Lessons,        \* the core lessons of a version
    ModuleOf,       \* the module of each
    Concepts,
    Carded,         \* those with a card in memory
    Items,          \* confident errors of diagnostics: a session and an item
    Signals,        \* what may come in: a trigger, its concepts, its item
    MaxPerWeek,     \* policy.maxPerWeek
    Week,           \* policy.weekMs, in ticks of the clock
    RevisitCoreAt,  \* policy.revisitCoreAt
    BoostTime,      \* policy.boostDays, in ticks
    CleanReviews,   \* policy.boostCleanReviews
    OverrideEnds,   \* when an override of the learner may end: 0 is never
    LastVersion,    \* bound on the versions of the path
    LastTick,       \* bound on the clock
    MaxEvents,      \* bound on signals, presses, regenerations and crashes
    None

(* The triggers that come from outside the service.                        *)
Triggers == {"user_request", "repeated_misconception", "confident_error", "reinforcement_low"}

ASSUME PathAssumption ==
    /\ Lessons # {} /\ Carded \subseteq Concepts
    /\ Signals \subseteq [trigger : Triggers, left : SUBSET Concepts, item : Items \cup {None}]
    /\ None \notin Items
ASSUME PolicyAssumption ==
    /\ MaxPerWeek \in Nat /\ Week \in Nat
    /\ RevisitCoreAt \in Nat \ {0}
    /\ BoostTime \in Nat \ {0} /\ CleanReviews \in Nat \ {0} /\ OverrideEnds \subseteq Nat
ASSUME BoundsAssumption == LastVersion \in Nat \ {0} /\ LastTick \in Nat /\ MaxEvents \in Nat

VARIABLES
    rows,       \* the remediations table, oldest first, each row with its lesson
    cards,      \* the importance override of each concept's card
    live,       \* the version being studied
    retired,    \* the versions whose open detours have been closed
    calls,      \* the calls of the service that have not ended
    clock,
    used        \* events so far, and whether one was a crash

vars == <<rows, cards, live, retired, calls, clock, used>>

Rows == DOMAIN rows
NoOverride == [by |-> "nobody", row |-> 0, until |-> 0]
Inserted == {"active", "completed", "dismissed"}    \* INSERTED_STATUSES
Counted == Inserted \cup {"failed"}                 \* WEEKLY_COUNTED_STATUSES

NewCall(op) ==
    [op |-> op, ticket |-> used.events + 1, version |-> 0, trigger |-> "user_request",
     left |-> {}, item |-> None, row |-> 0, good |-> FALSE]

Init ==
    /\ rows = <<>>
    /\ cards = [c \in Carded |-> NoOverride]
    /\ live = 1 /\ retired = {} /\ calls = {} /\ clock = 0
    /\ used = [events |-> 0, crashed |-> FALSE]
-----------------------------------------------------------------------------
(* serialQueue.                                                            *)

(* Mutant: the operations of the service are not serialised.               *)
Unserialised(o) == TRUE

(* An operation starts when the one before it has ended.                   *)
HasQueue(o) == \A p \in calls : o.ticket <= p.ticket

Queues(o) == calls' = calls \cup {o}
Moves(o, next) == calls' = (calls \ {o}) \cup {next}
Ends(o) == calls' = calls \ {o}

(* Mutant: a rejected operation is not passed over.                        *)
KeepsQueue(o) == UNCHANGED calls

(* tail.then(work, work): a rejection does not hold up what is behind it.  *)
Throws(o) == Ends(o)

Event == used.events < MaxEvents /\ used' = [used EXCEPT !.events = @ + 1]
-----------------------------------------------------------------------------
(* What a candidate is judged on.                                          *)

Open(version) == {r \in Rows : rows[r].status = "active" /\ rows[r].version = version}
OfConcept(c) == {r \in Rows : rows[r].status \in Inserted /\ rows[r].concept = c}
WeekTo(t) ==
    {r \in Rows : rows[r].status \in Counted /\ t - Week < rows[r].made /\ rows[r].made <= t}

(* Mutant: what could not be written does not count.                       *)
ThisWeekWritten == {r \in WeekTo(clock) : rows[r].status # "failed"}

ThisWeek == WeekTo(clock)

(* checkLimits, in its order.                                              *)
Refusal(version, c, anchor) ==
    IF \E r \in Open(version) : rows[r].concept = c THEN "duplicate_concept"
    ELSE IF Cardinality(OfConcept(c)) >= RevisitCoreAt - 1 THEN "revisit_core"
    ELSE IF \E r \in Open(version) : ModuleOf[rows[r].anchor] = ModuleOf[anchor]
         THEN "module_active"
    ELSE IF Cardinality(ThisWeek) >= MaxPerWeek THEN "weekly_limit"
    ELSE "none"

(* A confident error that left a row: inserted, failed, or refused with a  *)
(* row of its own.                                                         *)
Decided(version, item) ==
    item # None /\ \E r \in Rows : rows[r].version = version /\ rows[r].item = item

(* logRefusal: the concept is open, or its last row says the same.         *)
Recorded(version, c, refusal, trigger) ==
    LET own == {r \in Rows : rows[r].version = version /\ rows[r].concept = c}
    IN  \E r \in own :
          /\ \A s \in own : s <= r
          /\ \/ rows[r].status = "active"
             \/ rows[r].status = "refused" /\ rows[r].refusal = refusal
                                           /\ rows[r].trigger = trigger

(* Mutant: a detour that is over gives its number back.                    *)
TakenByOpen(version, anchor) ==
    {rows[r].n : r \in {r \in Open(version) : rows[r].anchor = anchor}}

(* The numbers taken at an anchor: of detours that are over, and of those  *)
(* that failed, too.                                                       *)
Taken(version, anchor) ==
    {rows[r].n : r \in {r \in Rows : rows[r].version = version /\ rows[r].anchor = anchor}}

(* remediationSpecId: one past the highest.                                *)
NextNumber(version, anchor) ==
    CHOOSE n \in 1 .. Len(rows) + 1 :
        /\ n - 1 \in {0} \cup Taken(version, anchor)
        /\ \A m \in Taken(version, anchor) : m < n
-----------------------------------------------------------------------------
(* handle: the signals, the concepts of one taken one after the other.     *)

Signal(signal) ==
    /\ Event
    /\ signal.left # {}
    /\ Queues([NewCall("handle") EXCEPT !.version = live, !.trigger = signal.trigger,
                                        !.left = signal.left, !.item = signal.item])
    /\ UNCHANGED <<rows, cards, live, retired, clock>>

Reviewed(c, good) ==
    /\ Event
    /\ Queues([NewCall("review") EXCEPT !.left = {c}, !.good = good])
    /\ UNCHANGED <<rows, cards, live, retired, clock>>

(* The call goes on with its next concept, or ends.                        *)
GoesOn(o, left) ==
    IF left = {} THEN Ends(o) ELSE Moves(o, [o EXCEPT !.left = left, !.row = 0])

Deciding(o, c) == o.op = "handle" /\ HasQueue(o) /\ o.row = 0 /\ c \in o.left

(* version_not_active, already_decided.                                    *)
Ignored(o) == o.version # live \/ Decided(o.version, o.item)

Ignore(o, c) ==
    /\ Deciding(o, c)
    /\ Ignored(o)
    /\ GoesOn(o, o.left \ {c})
    /\ UNCHANGED <<rows, cards, live, retired, clock, used>>

NewRow(o, c) ==
    [status |-> "refused", refusal |-> "none", version |-> o.version, concept |-> c,
     trigger |-> o.trigger, item |-> o.item, anchor |-> None, n |-> 0, lesson |-> "none",
     made |-> clock, raised |-> FALSE, clean |-> 0, cleared |-> FALSE]

Refuse(o, c, anchor) ==
    LET refusal == Refusal(o.version, c, anchor)
    IN  /\ Deciding(o, c)
        /\ ~Ignored(o)
        /\ refusal # "none"
        /\ rows' = IF Recorded(o.version, c, refusal, o.trigger) THEN rows
                   ELSE Append(rows, [NewRow(o, c) EXCEPT !.refusal = refusal])
        /\ GoesOn(o, o.left \ {c})
        /\ UNCHANGED <<cards, live, retired, clock, used>>

(* The row and its lesson; the call keeps the queue while P11 answers.     *)
Insert(o, c, anchor) ==
    /\ Deciding(o, c)
    /\ ~Ignored(o)
    /\ Refusal(o.version, c, anchor) = "none"
    /\ rows' = Append(rows, [NewRow(o, c) EXCEPT
                                !.status = "active", !.anchor = anchor,
                                !.n = NextNumber(o.version, anchor),
                                !.lesson = "generating"])
    /\ Moves(o, [o EXCEPT !.left = @ \ {c}, !.row = Len(rows')])
    /\ UNCHANGED <<cards, live, retired, clock, used>>

Writing(o) == o.op = "handle" /\ HasQueue(o) /\ o.row # 0
Overridden(card, now) == card.by # "nobody" /\ (card.until = 0 \/ card.until > now)

(* writeDetour, once P11 has answered.  The raise is planned as of the     *)
(* insertion, and counts from then.                                        *)
Write(o) ==
    LET row == rows[o.row]
        raise == row.concept \in Carded /\ ~Overridden(cards[row.concept], row.made)
    IN  /\ Writing(o)
        /\ rows' = [rows EXCEPT ![o.row].lesson = "ready", ![o.row].raised = raise]
        /\ cards' = IF raise
                    THEN [cards EXCEPT ![row.concept] =
                            [by |-> "detour", row |-> o.row, until |-> row.made + BoostTime]]
                    ELSE cards
        /\ GoesOn(o, o.left)
        /\ UNCHANGED <<live, retired, clock, used>>

(* P11 could not write it.                                                 *)
WriteFails(o) ==
    /\ Writing(o)
    /\ rows' = [rows EXCEPT ![o.row].status = "failed", ![o.row].lesson = "failed"]
    /\ GoesOn(o, o.left)
    /\ UNCHANGED <<cards, live, retired, clock, used>>
-----------------------------------------------------------------------------
(* onCardReviewed.                                                         *)

(* Inserted detours that raised the card and have not let go of it.        *)
Boosting(c) == {r \in OfConcept(c) : rows[r].raised /\ ~rows[r].cleared}

(* Mutant: a review that is not clean takes one back.                      *)
CountBack(r, good) == IF good THEN rows[r].clean + 1 ELSE rows[r].clean - 1

Count(r, good) == IF good THEN rows[r].clean + 1 ELSE 0

(* Mutant: any override of the level is taken for the raise.               *)
AnyOverride(card, r) == card.by # "nobody"

(* isOurOverride: of the level of the raise, with the very expiry it set.  *)
OurOverride(card, r) == card.by = "detour" /\ card.row = r

(* A clean review counts towards the release of every raise of the card,   *)
(* another one starts the count again; the override goes if it is still the*)
(* one that raise set.  Then memoryTrigger may have a candidate, on the    *)
(* version being studied.                                                  *)
Review(o) ==
    LET c == CHOOSE c \in Carded : o.left = {c}
        released == {r \in Boosting(c) : Count(r, o.good) >= CleanReviews}
    IN  /\ o.op = "review" /\ HasQueue(o)
        /\ rows' = [r \in Rows |->
                       IF r \in Boosting(c)
                       THEN [rows[r] EXCEPT !.clean = Count(r, o.good),
                                            !.cleared = r \in released]
                       ELSE rows[r]]
        /\ cards' = IF \E r \in released : OurOverride(cards[c], r)
                    THEN [cards EXCEPT ![c] = NoOverride] ELSE cards
        /\ \/ Ends(o)
           \/ Moves(o, [o EXCEPT !.op = "handle", !.version = live, !.trigger = "memory"])
        /\ UNCHANGED <<live, retired, clock, used>>
-----------------------------------------------------------------------------
(* The learner's two ways out, and the one of a regeneration.              *)

Press(op, r) ==
    /\ op \in {"complete", "dismiss"}
    /\ r \in Rows /\ rows[r].lesson # "none"
    /\ Event
    /\ Queues([NewCall(op) EXCEPT !.row = r])
    /\ UNCHANGED <<rows, cards, live, retired, clock>>

Closing(o) == o.op \in {"complete", "dismiss"} /\ HasQueue(o)

(* complete, dismiss.  Neither touches the raise.                          *)
Close(o) ==
    /\ Closing(o)
    /\ rows[o.row].status = "active"
    /\ rows' = [rows EXCEPT ![o.row].status =
                    IF o.op = "complete" THEN "completed" ELSE "dismissed"]
    /\ Ends(o)
    /\ UNCHANGED <<cards, live, retired, clock, used>>

(* mustBeActive.                                                           *)
CloseThrows(o) ==
    /\ Closing(o)
    /\ rows[o.row].status # "active"
    /\ Throws(o)
    /\ UNCHANGED <<rows, cards, live, retired, clock, used>>

(* A regenerated version is frozen and becomes the one being studied; then *)
(* afterRegenerationFreeze asks for the detours of the old one to be closed*)
Freeze ==
    /\ live < LastVersion
    /\ Event
    /\ live' = live + 1
    /\ Queues([NewCall("retire") EXCEPT !.version = live])
    /\ UNCHANGED <<rows, cards, retired, clock>>

Retire(o) ==
    /\ o.op = "retire" /\ HasQueue(o)
    /\ rows' = [r \in Rows |->
                   IF r \in Open(o.version) THEN [rows[r] EXCEPT !.status = "dismissed"]
                   ELSE rows[r]]
    /\ retired' = retired \cup {o.version}
    /\ Ends(o)
    /\ UNCHANGED <<cards, live, clock, used>>
-----------------------------------------------------------------------------
(* Beside the service.                                                     *)

(* cards.overrideImportance of the learner, and urgent mode.               *)
Override(c) ==
    /\ Event
    /\ \E until \in OverrideEnds :
         cards' = [cards EXCEPT ![c] = [by |-> "learner", row |-> 0, until |-> until]]
    /\ UNCHANGED <<rows, live, retired, calls, clock>>

ClearOverride(c) ==
    /\ cards[c].by # "nobody"
    /\ Event
    /\ cards' = [cards EXCEPT ![c] = NoOverride]
    /\ UNCHANGED <<rows, live, retired, calls, clock>>

(* clearExpiredOverrides, at startup and before a session.                 *)
Expired(card) == card.until # 0 /\ card.until <= clock
Sweep ==
    /\ \E c \in Carded : Expired(cards[c])
    /\ cards' = [c \in Carded |-> IF Expired(cards[c]) THEN NoOverride ELSE cards[c]]
    /\ UNCHANGED <<rows, live, retired, calls, clock, used>>

Tick ==
    /\ clock < LastTick
    /\ clock' = clock + 1
    /\ UNCHANGED <<rows, cards, live, retired, calls, used>>

(* The process dies: nothing resumes a call.                               *)
Crash ==
    /\ calls # {}
    /\ used.events < MaxEvents
    /\ calls' = {}
    /\ used' = [events |-> used.events + 1, crashed |-> TRUE]
    /\ UNCHANGED <<rows, cards, live, retired, clock>>

Operation(o) ==
    \/ \E c \in o.left : Ignore(o, c)
    \/ \E c \in o.left, anchor \in Lessons : Refuse(o, c, anchor) \/ Insert(o, c, anchor)
    \/ Write(o) \/ WriteFails(o)
    \/ Review(o) \/ Close(o) \/ CloseThrows(o) \/ Retire(o)

Serve == \E o \in calls : Operation(o)

Outside ==
    \/ \E signal \in Signals : Signal(signal)
    \/ \E c \in Carded, good \in BOOLEAN : Reviewed(c, good)
    \/ \E r \in Rows, op \in {"complete", "dismiss"} : Press(op, r)
    \/ \E c \in Carded : Override(c) \/ ClearOverride(c)
    \/ Freeze \/ Sweep \/ Tick \/ Crash

Next == Serve \/ Outside

Spec == Init /\ [][Next]_vars

(* The service goes on with its queue: P11 answers or fails, and a call    *)
(* that is asked is served.  Nothing is assumed of the outside.            *)
FairSpec == Spec /\ WF_vars(Serve)
-----------------------------------------------------------------------------
Row ==
    [status : Counted \cup {"refused"},
     refusal : {"none", "duplicate_concept", "revisit_core", "module_active", "weekly_limit"},
     version : 1 .. LastVersion, concept : Concepts,
     trigger : Triggers \cup {"memory"},
     item : Items \cup {None}, anchor : Lessons \cup {None}, n : Nat,
     lesson : {"none", "generating", "ready", "failed"}, made : Nat,
     raised : BOOLEAN, clean : Nat, cleared : BOOLEAN]

Call ==
    [op : {"handle", "review", "complete", "dismiss", "retire"}, ticket : Nat,
     version : 0 .. LastVersion,
     trigger : Triggers \cup {"memory"},
     left : SUBSET Concepts, item : Items \cup {None}, row : Nat, good : BOOLEAN]

(* Every row, override and call has its type, and a call that works on a   *)
(* row works on one that exists.                                           *)
TypeOK ==
    /\ rows \in Seq(Row)
    /\ cards \in [Carded -> [by : {"nobody", "learner", "detour"}, row : Nat, until : Nat]]
    /\ live \in 1 .. LastVersion /\ retired \subseteq 1 .. LastVersion
    /\ calls \subseteq Call
    /\ clock \in 0 .. LastTick
    /\ used \in [events : 0 .. MaxEvents, crashed : BOOLEAN]
    /\ \A o \in calls : o.row \in 0 .. Len(rows)

(* A version has one open detour per module and one per concept.           *)
OneOpen ==
    \A v \in 1 .. LastVersion : \A r, s \in Open(v) :
        \/ r = s
        \/ /\ rows[r].concept # rows[s].concept
           /\ ModuleOf[rows[r].anchor] # ModuleOf[rows[s].anchor]

(* A week, wherever it begins, holds at most MaxPerWeek detours that were  *)
(* inserted, be they dismissed, retired or failed since.                   *)
WeeklyLimit == \A t \in 0 .. LastTick : Cardinality(WeekTo(t)) <= MaxPerWeek

(* A concept is given fewer than RevisitCoreAt detours, over all versions. *)
RevisitLimit == \A c \in Concepts : Cardinality(OfConcept(c)) < RevisitCoreAt

(* The limits of the specification (docs/spec/04-path-generation.md, 11)   *)
(* hold of what is on record, whatever comes in while a detour is being    *)
(* written, fails, is dismissed or loses its version (limits.ts:10-17).    *)
LimitsHold == OneOpen /\ WeeklyLimit /\ RevisitLimit

(* An id is never handed out twice (ids.ts:6-8).  A confident error leaves *)
(* at most one row with a version, whether it was let in, refused or could *)
(* not be written, and however often its finished diagnostic is read:      *)
(* service.ts:401-410 looks for the row.  (A refusal that adds no row, see *)
(* Recorded, is judged anew by the next reading.)  An open detour has its  *)
(* lesson or is being written one, unless a crash took the call.           *)
OnRecordOnce ==
    /\ \A r, s \in Rows :
         /\ rows[r].version = rows[s].version
         /\ \/ rows[r].n # 0 /\ rows[r].anchor = rows[s].anchor /\ rows[r].n = rows[s].n
            \/ rows[r].item # None /\ rows[r].item = rows[s].item
         => r = s
    /\ \A r \in Rows :
         rows[r].status = "active" /\ rows[r].lesson = "generating" /\ ~used.crashed =>
             \E o \in calls : o.op = "handle" /\ o.row = r

(* A detour that is over stays as it ended: P11 that fails does not undo a *)
(* dismissal; and a version whose detours were retired gets no other       *)
(* (service.ts:281-286, 882-903).                                          *)
StayClosed ==
    [][\A r \in DOMAIN rows' :
         /\ r \in Rows /\ rows[r].status # "active" => rows'[r].status = rows[r].status
         /\ rows'[r].status = "active" => rows'[r].version \notin retired']_vars

(* An override that is still on is left alone by the service, the learner's*)
(* as well as the raise of another detour; a raise is let go by its own    *)
(* detour only, after its clean reviews (boost.ts:10-14).                  *)
OverridesRespected ==
    [][\A c \in Carded :
         /\ cards[c].by # "nobody" /\ ~Expired(cards[c]) /\ cards'[c] # cards[c]
         /\ used' = used
         => /\ cards[c].by = "detour"
            /\ cards'[c] = NoOverride
            /\ rows'[cards[c].row].cleared /\ rows'[cards[c].row].clean >= CleanReviews]_vars

(* Every call of the service ends, those that are rejected too, and those  *)
(* behind them (service.ts:979-986).                                       *)
QueueDrains == []<>(calls = {})
=============================================================================
