-------------------------- MODULE DetoursProofs --------------------------
(***************************************************************************)
(* Proofs about Detours, for any path, any policy and any bound.           *)
(***************************************************************************)
EXTENDS Detours, TLAPS, FiniteSetTheorems, SequenceTheorems

USE PathAssumption, PolicyAssumption, BoundsAssumption

(* A row was made before now; numbers are given in turn.                   *)
Past == \A r \in Rows : rows[r].made <= clock /\ rows[r].n <= r

Writes(o) == o.op = "handle" /\ o.row # 0

(* The queue has one order; only the call that has it writes a detour,     *)
(* which is open and without its lesson.                                   *)
Queued ==
    /\ \A o, p \in calls : o.ticket = p.ticket => o = p
    /\ \A o \in calls : o.ticket <= used.events
    /\ \A o \in calls : o.op = "review" => o.row = 0
    /\ \A o \in calls :
         Writes(o) => /\ HasQueue(o)
                      /\ o.row \in Rows
                      /\ rows[o.row].status = "active" /\ rows[o.row].lesson = "generating"

(* Versions are retired once they are no longer studied, and stay empty.   *)
Superseded ==
    /\ \A v \in retired : v < live
    /\ \A o \in calls : o.op = "retire" => o.version \in 1 .. live - 1
    /\ \A r \in Rows : rows[r].version \in retired => rows[r].status # "active"

(* OnRecordOnce needs no help; LimitsHold needs Past.                      *)
DetoursInv == TypeOK /\ Past /\ Queued /\ Superseded /\ LimitsHold /\ OnRecordOnce
-----------------------------------------------------------------------------
(* The rows, one by one, and that they are finite.                         *)
LEMMA RowsTyped ==
    ASSUME TypeOK
    PROVE  /\ Len(rows) \in Nat
           /\ Rows = 1 .. Len(rows)
           /\ rows \in [1 .. Len(rows) -> Row]
           /\ IsFiniteSet(Rows)
<1>1. Len(rows) \in Nat /\ rows \in [1 .. Len(rows) -> Row] /\ Rows = 1 .. Len(rows)
  BY LenProperties DEF TypeOK, Rows
<1> QED  BY <1>1, FS_Interval

(* A list given by its elements.                                           *)
LEMMA RowsBuilt ==
    ASSUME NEW n \in Nat, NEW f \in [1 .. n -> Row]
    PROVE  f \in Seq(Row) /\ Len(f) = n
<1>1. f \in Seq(Row)
  BY SeqDef
<1> QED  BY <1>1, LenProperties

(* A row put at the end.                                                   *)
LEMMA RowAppended ==
    ASSUME TypeOK, NEW e \in Row, rows' = Append(rows, e)
    PROVE  /\ rows' \in Seq(Row)
           /\ Len(rows') = Len(rows) + 1
           /\ DOMAIN rows' = 1 .. Len(rows) + 1
           /\ \A r \in Rows : rows'[r] = rows[r]
           /\ rows'[Len(rows) + 1] = e
           /\ Len(rows) + 1 \notin Rows
<1>1. rows \in Seq(Row)
  BY DEF TypeOK
<1>2. /\ rows' \in Seq(Row) /\ Len(rows') = Len(rows) + 1
      /\ \A r \in 1 .. Len(rows) : rows'[r] = rows[r]
      /\ rows'[Len(rows) + 1] = e
  BY <1>1, AppendProperties
<1>3. DOMAIN rows' = 1 .. Len(rows')
  BY <1>2, LenProperties
<1> QED  BY <1>2, <1>3, RowsTyped

(* remediationSpecId gives a number past all that are taken.               *)
LEMMA NumberGiven ==
    ASSUME TypeOK, Past, NEW version, NEW anchor
    PROVE  /\ NextNumber(version, anchor) \in 1 .. Len(rows) + 1
           /\ \A m \in Taken(version, anchor) : m < NextNumber(version, anchor)
<1> DEFINE Above == {n \in 1 .. Len(rows) + 1 : \A m \in Taken(version, anchor) : m < n}
<1>1. Len(rows) \in Nat /\ Taken(version, anchor) \subseteq 0 .. Len(rows)
  BY RowsTyped DEF Taken, Past, Row, Rows
<1>2. Len(rows) + 1 \in Above
  BY <1>1
<1>3. PICK n \in Above : \A k \in Above : ~(<<k, n>> \in OpToRel(<, Nat))
  <2>1. Above \subseteq Nat /\ Above # {}
    BY <1>1, <1>2
  <2> HIDE DEF Above
  <2> QED  BY <2>1, NatLessThanWellFounded, WFMin
<1>4. n - 1 \in {0} \cup Taken(version, anchor)
  <2>1. CASE n = 1
    BY <2>1
  <2>2. CASE n # 1
    <3>1. n - 1 \notin Above
      <4>1. n \in Nat /\ n - 1 \in Nat /\ n - 1 < n
        BY <1>1, <2>2
      <4>2. <<n - 1, n>> \in OpToRel(<, Nat)
        BY <4>1 DEF OpToRel
      <4> QED  BY <4>2, <1>3
    <3>2. PICK m \in Taken(version, anchor) : ~(m < n - 1)
      BY <3>1, <2>2, <1>1
    <3> QED  BY <3>2, <1>1
  <2> QED  BY <2>1, <2>2
<1> QED  BY <1>4 DEF NextNumber
-----------------------------------------------------------------------------
(* The type invariant.                                                     *)

(* Rows that are changed in place.                                         *)
LEMMA RowsChanged ==
    ASSUME TypeOK, NEW f \in [Rows -> Row], rows' = f
    PROVE  /\ rows' \in Seq(Row)
           /\ Len(rows') = Len(rows)
           /\ DOMAIN rows' = Rows
BY RowsTyped, RowsBuilt

(* What a step leaves in the queue: the calls there were, or one more.     *)
LEMMA CallsTyped ==
    ASSUME TypeOK, NEW q \in Call, calls' \subseteq calls \cup {q},
           Len(rows') \in Nat, Len(rows) <= Len(rows'), q.row \in 0 .. Len(rows')
    PROVE  calls' \subseteq Call /\ \A o \in calls' : o.row \in 0 .. Len(rows')
<1>1. \A o \in calls : o \in Call /\ o.row \in 0 .. Len(rows)
  BY DEF TypeOK
<1> QED  BY <1>1, RowsTyped

(* Calls that only go away.                                                *)
LEMMA CallsLeft ==
    ASSUME TypeOK, calls' \subseteq calls, Len(rows') \in Nat, Len(rows) <= Len(rows')
    PROVE  calls' \subseteq Call /\ \A o \in calls' : o.row \in 0 .. Len(rows')
<1>1. \A o \in calls : o \in Call /\ o.row \in 0 .. Len(rows)
  BY DEF TypeOK
<1> QED  BY <1>1, RowsTyped

(* The call that goes on.                                                  *)
LEMMA GoesOnTyped ==
    ASSUME TypeOK, NEW o \in calls, NEW left \in SUBSET Concepts, GoesOn(o, left),
           Len(rows') \in Nat, Len(rows) <= Len(rows')
    PROVE  calls' \subseteq Call /\ \A p \in calls' : p.row \in 0 .. Len(rows')
<1> DEFINE q == [o EXCEPT !.left = left, !.row = 0]
<1>1. o \in Call
  BY DEF TypeOK
<1>2. q \in Call /\ q.row = 0
  BY <1>1 DEF Call
<1>3. calls' \subseteq calls \cup {q}
  BY DEF GoesOn, Ends, Moves
<1> HIDE DEF q
<1> QED  BY <1>2, <1>3, CallsTyped

(* The types hold at the start.                                            *)
LEMMA InitTypes == Init => TypeOK
<1> SUFFICES ASSUME Init PROVE TypeOK
  OBVIOUS
<1>1. rows \in Seq(Row) /\ Len(rows) = 0
  BY EmptySeq DEF Init
<1>2. cards \in [Carded -> [by : {"nobody", "learner", "detour"}, row : Nat, until : Nat]]
  BY DEF Init, NoOverride
<1> QED  BY <1>1, <1>2 DEF Init, TypeOK

(* An event of the outside: the count of them, and perhaps one more call.  *)
LEMMA EventTyped ==
    ASSUME TypeOK, Event, NEW q \in Call, Queues(q), q.row \in 0 .. Len(rows),
           UNCHANGED rows
    PROVE  /\ calls' \subseteq Call /\ \A o \in calls' : o.row \in 0 .. Len(rows')
           /\ used' \in [events : 0 .. MaxEvents, crashed : BOOLEAN]
<1>1. used' \in [events : 0 .. MaxEvents, crashed : BOOLEAN]
  BY DEF Event, TypeOK
<1> QED  BY <1>1, RowsTyped, CallsTyped DEF Queues

(* A call that begins, for each operation of the service.                  *)
LEMMA NewCallTyped ==
    ASSUME TypeOK, NEW op \in {"handle", "review", "complete", "dismiss", "retire"}
    PROVE  NewCall(op) \in Call /\ NewCall(op).row = 0 /\ NewCall(op).op = op
BY DEF NewCall, Call, TypeOK, Triggers

(* Actions that come from outside.                                         *)
LEMMA OutsideTypes == TypeOK /\ Outside => TypeOK'
<1> SUFFICES ASSUME TypeOK, Outside PROVE TypeOK'
  OBVIOUS
<1>0. live \in 0 .. LastVersion
  BY DEF TypeOK
<1>1. CASE \E signal \in Signals : Signal(signal)
  <2>1. PICK signal \in Signals : Signal(signal)
    BY <1>1
  <2> DEFINE q == [NewCall("handle") EXCEPT !.version = live, !.trigger = signal.trigger,
                                            !.left = signal.left, !.item = signal.item]
  <2>2. q \in Call /\ q.row = 0
    <3>1. NewCall("handle") \in Call /\ NewCall("handle").row = 0
      BY NewCallTyped
    <3>2. signal \in [trigger : Triggers, left : SUBSET Concepts, item : Items \cup {None}]
      OBVIOUS
    <3> QED  BY <3>1, <3>2, <1>0 DEF Call
  <2>3. Event /\ Queues(q) /\ UNCHANGED <<rows, cards, live, retired, clock>>
    BY <2>1 DEF Signal
  <2> HIDE DEF q
  <2>4. 0 \in 0 .. Len(rows)
    BY RowsTyped
  <2> QED  BY <2>2, <2>3, <2>4, EventTyped DEF TypeOK
<1>2. CASE \E c \in Carded, good \in BOOLEAN : Reviewed(c, good)
  <2>1. PICK c \in Carded, good \in BOOLEAN : Reviewed(c, good)
    BY <1>2
  <2> DEFINE q == [NewCall("review") EXCEPT !.left = {c}, !.good = good]
  <2>2. q \in Call /\ q.row = 0
    <3>1. NewCall("review") \in Call /\ NewCall("review").row = 0
      BY NewCallTyped
    <3> QED  BY <3>1 DEF Call
  <2>3. Event /\ Queues(q) /\ UNCHANGED <<rows, cards, live, retired, clock>>
    BY <2>1 DEF Reviewed
  <2> HIDE DEF q
  <2>4. 0 \in 0 .. Len(rows)
    BY RowsTyped
  <2> QED  BY <2>2, <2>3, <2>4, EventTyped DEF TypeOK
<1>3. CASE \E r \in Rows, op \in {"complete", "dismiss"} : Press(op, r)
  <2>1. PICK r \in Rows, op \in {"complete", "dismiss"} : Press(op, r)
    BY <1>3
  <2> DEFINE q == [NewCall(op) EXCEPT !.row = r]
  <2>2. r \in 1 .. Len(rows) /\ Len(rows) \in Nat
    BY RowsTyped
  <2>3. q \in Call /\ q.row \in 0 .. Len(rows)
    <3>1. NewCall(op) \in Call
      BY NewCallTyped
    <3> QED  BY <3>1, <2>2 DEF Call
  <2>4. Event /\ Queues(q) /\ UNCHANGED <<rows, cards, live, retired, clock>>
    BY <2>1 DEF Press
  <2> HIDE DEF q
  <2> QED  BY <2>3, <2>4, EventTyped DEF TypeOK
<1>4. CASE \E c \in Carded : Override(c) \/ ClearOverride(c)
  <2>1. PICK c \in Carded : Override(c) \/ ClearOverride(c)
    BY <1>4
  <2>2. used' \in [events : 0 .. MaxEvents, crashed : BOOLEAN]
    <3>1. Event
      BY <2>1 DEF Override, ClearOverride
    <3> QED  BY <3>1 DEF Event, TypeOK
  <2>3. cards' \in [Carded -> [by : {"nobody", "learner", "detour"}, row : Nat, until : Nat]]
    <3>1. CASE Override(c)
      <4>1. PICK until \in OverrideEnds :
              cards' = [cards EXCEPT ![c] = [by |-> "learner", row |-> 0, until |-> until]]
        BY <3>1 DEF Override
      <4>2. until \in Nat
        OBVIOUS
      <4> QED  BY <4>1, <4>2 DEF TypeOK
    <3>2. CASE ClearOverride(c)
      BY <3>2 DEF ClearOverride, NoOverride, TypeOK
    <3> QED  BY <2>1, <3>1, <3>2
  <2>4. UNCHANGED <<rows, live, retired, calls, clock>>
    BY <2>1 DEF Override, ClearOverride
  <2> QED  BY <2>2, <2>3, <2>4 DEF TypeOK
<1>5. CASE Freeze
  <2> DEFINE q == [NewCall("retire") EXCEPT !.version = live]
  <2>1. q \in Call /\ q.row = 0
    <3>1. NewCall("retire") \in Call /\ NewCall("retire").row = 0
      BY NewCallTyped
    <3> QED  BY <3>1, <1>0 DEF Call
  <2>2. Event /\ Queues(q) /\ UNCHANGED <<rows, cards, retired, clock>>
    BY <1>5 DEF Freeze
  <2>3. live' \in 1 .. LastVersion
    BY <1>5 DEF Freeze, TypeOK
  <2> HIDE DEF q
  <2>4. 0 \in 0 .. Len(rows)
    BY RowsTyped
  <2> QED  BY <2>1, <2>2, <2>3, <2>4, EventTyped DEF TypeOK
<1>6. CASE Sweep
  BY <1>6 DEF Sweep, NoOverride, TypeOK
<1>7. CASE Tick
  BY <1>7 DEF Tick, TypeOK
<1>8. CASE Crash
  BY <1>8 DEF Crash, TypeOK
<1> QED  BY <1>1, <1>2, <1>3, <1>4, <1>5, <1>6, <1>7, <1>8 DEF Outside

(* A row that ends is a row.                                               *)
LEMMA RowEnds ==
    ASSUME NEW e \in Row, NEW end \in Counted
    PROVE  /\ [e EXCEPT !.status = end] \in Row
           /\ [e EXCEPT !.status = end, !.lesson = "failed"] \in Row
BY DEF Row

(* A candidate's row, refused or inserted.                                 *)
LEMMA NewRowTyped ==
    ASSUME TypeOK, NEW o \in calls, NEW c \in Concepts, ~Ignored(o)
    PROVE  NewRow(o, c) \in Row
<1>1. o \in Call /\ o.version = live /\ live \in 1 .. LastVersion /\ clock \in Nat
  BY DEF TypeOK, Ignored
<1> QED  BY <1>1 DEF NewRow, Row, Call, Counted, Inserted

(* The operations of the service.                                          *)
LEMMA OperationTypes ==
    ASSUME TypeOK, Past, Superseded, NEW o \in calls, Operation(o)
    PROVE  TypeOK'
<1>1. o \in Call /\ o.row \in 0 .. Len(rows) /\ Len(rows) \in Nat
  BY RowsTyped DEF TypeOK
<1>2. o.left \in SUBSET Concepts
  BY <1>1 DEF Call
<1>3. rows \in Seq(Row) /\ rows \in [Rows -> Row] /\ Rows = 1 .. Len(rows)
  BY RowsTyped DEF TypeOK
<1>4. cards \in [Carded -> [by : {"nobody", "learner", "detour"}, row : Nat, until : Nat]]
  BY DEF TypeOK
<1>5. CASE \E c \in o.left : Ignore(o, c)
  <2>1. PICK c \in o.left : Ignore(o, c)
    BY <1>5
  <2>2. GoesOn(o, o.left \ {c}) /\ UNCHANGED <<rows, cards, live, retired, clock, used>>
    BY <2>1 DEF Ignore
  <2>3. calls' \subseteq Call /\ \A p \in calls' : p.row \in 0 .. Len(rows')
    BY <2>2, <1>1, <1>2, GoesOnTyped
  <2> QED  BY <2>2, <2>3 DEF TypeOK
<1>6. CASE \E c \in o.left, anchor \in Lessons : Refuse(o, c, anchor)
  <2>1. PICK c \in o.left, anchor \in Lessons : Refuse(o, c, anchor)
    BY <1>6
  <2> DEFINE refusal == Refusal(o.version, c, anchor)
             e == [NewRow(o, c) EXCEPT !.refusal = refusal]
  <2>2. /\ rows' = rows \/ rows' = Append(rows, e)
        /\ GoesOn(o, o.left \ {c})
        /\ UNCHANGED <<cards, live, retired, clock, used>>
        /\ ~Ignored(o)
    BY <2>1 DEF Refuse
  <2>3. e \in Row
    <3>1. NewRow(o, c) \in Row
      BY <2>2, <1>2, NewRowTyped
    <3>2. refusal \in {"none", "duplicate_concept", "revisit_core", "module_active",
                       "weekly_limit"}
      BY DEF Refusal
    <3> HIDE DEF refusal
    <3> QED  BY <3>1, <3>2 DEF Row
  <2> HIDE DEF e
  <2>4. rows' \in Seq(Row) /\ Len(rows') \in Nat /\ Len(rows) <= Len(rows')
    BY <2>2, <2>3, <1>1, <1>3, RowAppended
  <2>5. calls' \subseteq Call /\ \A p \in calls' : p.row \in 0 .. Len(rows')
    BY <2>2, <2>4, <1>2, GoesOnTyped
  <2> QED  BY <2>2, <2>4, <2>5 DEF TypeOK
<1>7. CASE \E c \in o.left, anchor \in Lessons : Insert(o, c, anchor)
  <2>1. PICK c \in o.left, anchor \in Lessons : Insert(o, c, anchor)
    BY <1>7
  <2> DEFINE n == NextNumber(o.version, anchor)
             e == [NewRow(o, c) EXCEPT !.status = "active", !.anchor = anchor,
                                       !.n = n, !.lesson = "generating"]
             q == [o EXCEPT !.left = @ \ {c}, !.row = Len(rows')]
  <2>2. /\ rows' = Append(rows, e)
        /\ Moves(o, q)
        /\ UNCHANGED <<cards, live, retired, clock, used>>
        /\ ~Ignored(o)
    BY <2>1 DEF Insert
  <2>3. e \in Row
    <3>1. NewRow(o, c) \in Row
      BY <2>2, <1>2, NewRowTyped
    <3>2. n \in Nat
      BY <1>1, NumberGiven
    <3> HIDE DEF n
    <3> QED  BY <3>1, <3>2 DEF Row, Counted, Inserted
  <2> HIDE DEF e
  <2>4. rows' \in Seq(Row) /\ Len(rows') = Len(rows) + 1
    BY <2>2, <2>3, RowAppended
  <2>5. q \in Call /\ q.row = Len(rows')
    <3>1. Len(rows') \in Nat /\ o.left \ {c} \in SUBSET Concepts
      BY <2>4, <1>1, <1>2
    <3>2. q = [o EXCEPT !.left = o.left \ {c}, !.row = Len(rows')]
      OBVIOUS
    <3> HIDE DEF q
    <3> QED  BY <3>1, <3>2, <1>1 DEF Call
  <2>6. calls' \subseteq calls \cup {q}
    BY <2>2 DEF Moves
  <2> HIDE DEF q
  <2>7. calls' \subseteq Call /\ \A p \in calls' : p.row \in 0 .. Len(rows')
    BY <2>4, <2>5, <2>6, <1>1, CallsTyped
  <2> QED  BY <2>2, <2>4, <2>7 DEF TypeOK
<1>8. CASE Write(o)
  <2> DEFINE row == rows[o.row]
             raise == row.concept \in Carded /\ ~Overridden(cards[row.concept], row.made)
             f == [rows EXCEPT ![o.row].lesson = "ready", ![o.row].raised = raise]
  <2>1. /\ Writing(o) /\ rows' = f
        /\ cards' = IF raise
                    THEN [cards EXCEPT ![row.concept] =
                            [by |-> "detour", row |-> o.row, until |-> row.made + BoostTime]]
                    ELSE cards
        /\ GoesOn(o, o.left) /\ UNCHANGED <<live, retired, clock, used>>
    BY <1>8 DEF Write
  <2>2. o.row \in Rows /\ row \in Row /\ row.made \in Nat
    <3>1. o.row # 0
      BY <2>1 DEF Writing
    <3>2. o.row \in Rows /\ row \in Row
      BY <3>1, <1>1, <1>3
    <3> HIDE DEF row
    <3> QED  BY <3>2 DEF Row
  <2>3. raise \in BOOLEAN
    OBVIOUS
  <2>4. cards' \in [Carded -> [by : {"nobody", "learner", "detour"}, row : Nat, until : Nat]]
    <3> HIDE DEF raise, row
    <3>1. [by |-> "detour", row |-> o.row, until |-> row.made + BoostTime]
              \in [by : {"nobody", "learner", "detour"}, row : Nat, until : Nat]
      BY <2>2, <1>3, <1>1
    <3> QED  BY <2>1, <3>1, <1>4
  <2> HIDE DEF raise
  <2>5. f \in [Rows -> Row]
    <3>1. f = [rows EXCEPT ![o.row] =
                  [rows[o.row] EXCEPT !.lesson = "ready", !.raised = raise]]
      BY <2>2, <1>3
    <3>2. [rows[o.row] EXCEPT !.lesson = "ready", !.raised = raise] \in Row
      BY <2>2, <2>3 DEF Row
    <3> QED  BY <3>1, <3>2, <1>3
  <2> HIDE DEF f
  <2>6. rows' \in Seq(Row) /\ Len(rows') = Len(rows)
    BY <2>1, <2>5, RowsChanged
  <2>7. calls' \subseteq Call /\ \A p \in calls' : p.row \in 0 .. Len(rows')
    BY <2>1, <2>6, <1>1, <1>2, GoesOnTyped
  <2> QED  BY <2>1, <2>4, <2>6, <2>7 DEF TypeOK
<1>9. CASE WriteFails(o)
  <2> DEFINE f == [rows EXCEPT ![o.row].status = "failed", ![o.row].lesson = "failed"]
  <2>1. /\ Writing(o) /\ rows' = f
        /\ GoesOn(o, o.left) /\ UNCHANGED <<cards, live, retired, clock, used>>
    BY <1>9 DEF WriteFails
  <2>2. o.row \in Rows
    BY <1>1, <1>3, <2>1 DEF Writing
  <2>3. f \in [Rows -> Row]
    <3>1. f = [rows EXCEPT ![o.row] =
                  [rows[o.row] EXCEPT !.status = "failed", !.lesson = "failed"]]
      BY <2>2, <1>3
    <3>2. rows[o.row] \in Row /\ "failed" \in Counted
      BY <2>2, <1>3 DEF Counted
    <3>3. [rows[o.row] EXCEPT !.status = "failed", !.lesson = "failed"] \in Row
      BY <3>2, RowEnds
    <3> QED  BY <3>1, <3>3, <1>3
  <2> HIDE DEF f
  <2>4. rows' \in Seq(Row) /\ Len(rows') = Len(rows)
    BY <2>1, <2>3, RowsChanged
  <2>5. calls' \subseteq Call /\ \A p \in calls' : p.row \in 0 .. Len(rows')
    BY <2>1, <2>4, <1>1, <1>2, GoesOnTyped
  <2> QED  BY <2>1, <2>4, <2>5 DEF TypeOK
<1>10. CASE Review(o)
  <2> DEFINE c == CHOOSE c \in Carded : o.left = {c}
             released == {r \in Boosting(c) : Count(r, o.good) >= CleanReviews}
             f == [r \in Rows |->
                     IF r \in Boosting(c)
                     THEN [rows[r] EXCEPT !.clean = Count(r, o.good),
                                          !.cleared = r \in released]
                     ELSE rows[r]]
             q == [o EXCEPT !.op = "handle", !.version = live, !.trigger = "memory"]
  <2>1. /\ rows' = f
        /\ cards' = cards \/ cards' = [cards EXCEPT ![c] = NoOverride]
        /\ Ends(o) \/ Moves(o, q)
        /\ UNCHANGED <<live, retired, clock, used>>
    BY <1>10 DEF Review
  <2>2. cards' \in [Carded -> [by : {"nobody", "learner", "detour"}, row : Nat, until : Nat]]
    <3> HIDE DEF c
    <3>1. NoOverride \in [by : {"nobody", "learner", "detour"}, row : Nat, until : Nat]
      BY DEF NoOverride
    <3> QED  BY <2>1, <3>1, <1>4
  <2>3. f \in [Rows -> Row]
    <3> HIDE DEF c
    <3> SUFFICES ASSUME NEW r \in Rows PROVE f[r] \in Row
      OBVIOUS
    <3>1. rows[r] \in Row
      BY <1>3
    <3>2. Count(r, o.good) \in Nat
      BY <3>1 DEF Count, Row
    <3>3. (r \in released) \in BOOLEAN
      OBVIOUS
    <3> HIDE DEF released
    <3>4. [rows[r] EXCEPT !.clean = Count(r, o.good), !.cleared = r \in released] \in Row
      BY <3>1, <3>2, <3>3 DEF Row
    <3> QED  BY <3>1, <3>4
  <2> HIDE DEF f
  <2>4. rows' \in Seq(Row) /\ Len(rows') = Len(rows)
    BY <2>1, <2>3, RowsChanged
  <2>5. q \in Call /\ q.row = o.row
    <3>1. live \in 0 .. LastVersion
      BY DEF TypeOK
    <3> QED  BY <3>1, <1>1 DEF Call
  <2>6. calls' \subseteq calls \cup {q}
    BY <2>1 DEF Ends, Moves
  <2> HIDE DEF q
  <2>7. calls' \subseteq Call /\ \A p \in calls' : p.row \in 0 .. Len(rows')
    BY <2>4, <2>5, <2>6, <1>1, CallsTyped
  <2> QED  BY <2>1, <2>2, <2>4, <2>7 DEF TypeOK
<1>11. CASE Close(o)
  <2> DEFINE end == IF o.op = "complete" THEN "completed" ELSE "dismissed"
             f == [rows EXCEPT ![o.row].status = end]
  <2>1. /\ rows' = f /\ calls' = calls \ {o}
        /\ UNCHANGED <<cards, live, retired, clock, used>>
    BY <1>11 DEF Close, Ends
  <2>2. f \in [Rows -> Row]
    <3>1. CASE o.row \in Rows
      <4>1. f = [rows EXCEPT ![o.row] = [rows[o.row] EXCEPT !.status = end]]
        BY <3>1, <1>3
      <4>2. rows[o.row] \in Row /\ end \in Counted
        BY <3>1, <1>3 DEF Counted, Inserted
      <4>3. [rows[o.row] EXCEPT !.status = end] \in Row
        BY <4>2, RowEnds
      <4> QED  BY <4>1, <4>3, <1>3
    <3>2. CASE o.row \notin Rows
      BY <3>2, <1>3
    <3> QED  BY <3>1, <3>2
  <2> HIDE DEF f
  <2>3. rows' \in Seq(Row) /\ Len(rows') = Len(rows)
    BY <2>1, <2>2, RowsChanged
  <2>4. calls' \subseteq Call /\ \A p \in calls' : p.row \in 0 .. Len(rows')
    BY <2>1, <2>3, <1>1, CallsLeft
  <2> QED  BY <2>1, <2>3, <2>4 DEF TypeOK
<1>12. CASE CloseThrows(o)
  <2>1. calls' = calls \ {o} /\ UNCHANGED <<rows, cards, live, retired, clock, used>>
    BY <1>12 DEF CloseThrows, Throws, Ends
  <2>2. calls' \subseteq Call /\ \A p \in calls' : p.row \in 0 .. Len(rows')
    BY <2>1, <1>1, CallsLeft
  <2> QED  BY <2>1, <2>2 DEF TypeOK
<1>13. CASE Retire(o)
  <2> DEFINE f == [r \in Rows |->
                     IF r \in Open(o.version) THEN [rows[r] EXCEPT !.status = "dismissed"]
                     ELSE rows[r]]
  <2>1. /\ rows' = f /\ calls' = calls \ {o} /\ retired' = retired \cup {o.version}
        /\ UNCHANGED <<cards, live, clock, used>>
    BY <1>13 DEF Retire, Ends
  <2>2. f \in [Rows -> Row]
    <3> SUFFICES ASSUME NEW r \in Rows PROVE f[r] \in Row
      OBVIOUS
    <3>1. rows[r] \in Row
      BY <1>3
    <3>2. [rows[r] EXCEPT !.status = "dismissed"] \in Row
      BY <3>1, RowEnds DEF Counted, Inserted
    <3> QED  BY <3>1, <3>2
  <2> HIDE DEF f
  <2>3. rows' \in Seq(Row) /\ Len(rows') = Len(rows)
    BY <2>1, <2>2, RowsChanged
  <2>4. calls' \subseteq Call /\ \A p \in calls' : p.row \in 0 .. Len(rows')
    BY <2>1, <2>3, <1>1, CallsLeft
  <2>5. retired' \subseteq 1 .. LastVersion
    <3>1. o.op = "retire"
      BY <1>13 DEF Retire
    <3>2. o.version \in 1 .. live - 1
      BY <3>1 DEF Superseded
    <3>3. retired \subseteq 1 .. LastVersion /\ live \in 1 .. LastVersion
      BY DEF TypeOK
    <3>4. o.version \in 1 .. LastVersion
      BY <3>2, <3>3
    <3> HIDE DEF f
    <3> QED  BY <2>1, <3>3, <3>4
  <2> QED  BY <2>1, <2>3, <2>4, <2>5 DEF TypeOK
<1> QED  BY <1>5, <1>6, <1>7, <1>8, <1>9, <1>10, <1>11, <1>12, <1>13 DEF Operation
-----------------------------------------------------------------------------
(* What a step does to the rows.                                           *)

(* No row is lost or loses what it is counted by, and one that is over     *)
(* stays as it is.                                                         *)
KeepsRow(r) ==
    /\ r \in DOMAIN rows'
    /\ rows'[r].version = rows[r].version /\ rows'[r].concept = rows[r].concept
    /\ rows'[r].item = rows[r].item /\ rows'[r].made = rows[r].made
    /\ rows'[r].anchor = rows[r].anchor /\ rows'[r].n = rows[r].n
    /\ rows'[r].status \in {rows[r].status} \cup Counted
    /\ rows[r].status # "active" => rows'[r].status = rows[r].status

Kept == \A r \in Rows : KeepsRow(r)

(* A row is added for a candidate on the version being studied, refused or *)
(* let in.                                                                 *)
AddsRow(r) ==
    /\ r = Len(rows) + 1
    /\ \E o \in calls, c \in Concepts, anchor \in Lessons :
          /\ ~Ignored(o)
          /\ rows'[r].version = o.version /\ rows'[r].item = o.item
          /\ rows'[r].made = clock /\ rows'[r].concept = c
          /\ \/ rows'[r].status = "refused" /\ rows'[r].n = 0
             \/ /\ rows'[r].status = "active" /\ rows'[r].anchor = anchor
                /\ rows'[r].n = NextNumber(o.version, anchor)
                /\ Refusal(o.version, c, anchor) = "none"

Added == \A r \in DOMAIN rows' : r \in Rows \/ AddsRow(r)

(* Rows that are left alone.                                               *)
LEMMA RowsSame ==
    ASSUME rows' = rows
    PROVE  Kept /\ Added
BY DEF Kept, KeepsRow, Added, Rows

(* Only the call that has the queue writes.                                *)
LEMMA OneWriter ==
    ASSUME TypeOK, Queued, NEW o \in calls, HasQueue(o), NEW p \in calls, Writes(p)
    PROVE  o = p
<1>1. o.ticket \in Nat /\ p.ticket \in Nat
  BY DEF TypeOK, Call
<1>2. o.ticket <= p.ticket /\ p.ticket <= o.ticket
  BY DEF HasQueue, Queued
<1> QED  BY <1>1, <1>2 DEF Queued

(* A call keeps the rows there are, and adds at most one.                  *)
LEMMA OperationRows ==
    ASSUME TypeOK, Queued, NEW o \in calls, Operation(o)
    PROVE  Kept /\ Added
<1>1. o \in Call /\ o.row \in 0 .. Len(rows) /\ Len(rows) \in Nat /\ o.left \in SUBSET Concepts
  BY RowsTyped DEF TypeOK, Call
<1>2. rows \in Seq(Row) /\ rows \in [Rows -> Row] /\ Rows = 1 .. Len(rows)
  BY RowsTyped DEF TypeOK
<1>3. CASE \E c \in o.left : Ignore(o, c)
  BY <1>3, RowsSame DEF Ignore
<1>4. CASE \E c \in o.left, anchor \in Lessons : Refuse(o, c, anchor)
  <2>1. PICK c \in o.left, anchor \in Lessons : Refuse(o, c, anchor)
    BY <1>4
  <2> DEFINE refusal == Refusal(o.version, c, anchor)
             e == [NewRow(o, c) EXCEPT !.refusal = refusal]
  <2>2. (rows' = rows \/ rows' = Append(rows, e)) /\ ~Ignored(o)
    BY <2>1 DEF Refuse
  <2>3. CASE rows' = rows
    BY <2>3, RowsSame
  <2>4. CASE rows' = Append(rows, e)
    <3>1. e \in Row
      <4>1. NewRow(o, c) \in Row
        BY <2>2, <1>1, NewRowTyped
      <4>2. refusal \in {"none", "duplicate_concept", "revisit_core", "module_active",
                         "weekly_limit"}
        BY DEF Refusal
      <4> HIDE DEF refusal
      <4> QED  BY <4>1, <4>2 DEF Row
    <3>2. /\ e.version = o.version /\ e.item = o.item /\ e.made = clock /\ e.concept = c
          /\ e.status = "refused" /\ e.n = 0
      BY DEF NewRow
    <3> HIDE DEF e
    <3>3. /\ DOMAIN rows' = 1 .. Len(rows) + 1
          /\ \A r \in Rows : rows'[r] = rows[r]
          /\ rows'[Len(rows) + 1] = e
      BY <3>1, <2>4, RowAppended
    <3>4. Kept
      BY <3>3, <1>1, <1>2 DEF Kept, KeepsRow
    <3>5. AddsRow(Len(rows) + 1)
      BY <3>2, <3>3, <2>2, <1>1 DEF AddsRow
    <3> QED  BY <3>3, <3>4, <3>5, <1>1, <1>2 DEF Added
  <2> QED  BY <2>2, <2>3, <2>4
<1>5. CASE \E c \in o.left, anchor \in Lessons : Insert(o, c, anchor)
  <2>1. PICK c \in o.left, anchor \in Lessons : Insert(o, c, anchor)
    BY <1>5
  <2> DEFINE n == NextNumber(o.version, anchor)
             e == [NewRow(o, c) EXCEPT !.status = "active", !.anchor = anchor,
                                       !.n = n, !.lesson = "generating"]
  <2>2. rows' = Append(rows, e) /\ ~Ignored(o) /\ Refusal(o.version, c, anchor) = "none"
    BY <2>1 DEF Insert
  <2>3. /\ e.version = o.version /\ e.item = o.item /\ e.made = clock /\ e.concept = c
        /\ e.status = "active" /\ e.anchor = anchor /\ e.n = n
    BY DEF NewRow
  <2> HIDE DEF e
  <2>4. /\ DOMAIN rows' = 1 .. Len(rows) + 1
        /\ \A r \in Rows : rows'[r] = rows[r]
        /\ rows'[Len(rows) + 1] = e
    <3>1. DOMAIN rows' = 1 .. Len(Append(rows, e))
      BY <2>2, <1>2
    <3> QED  BY <2>2, <1>1, <1>2
  <2>5. Kept
    BY <2>4, <1>1, <1>2 DEF Kept, KeepsRow
  <2>6. AddsRow(Len(rows) + 1)
    BY <2>2, <2>3, <2>4, <1>1 DEF AddsRow
  <2> QED  BY <2>4, <2>5, <2>6, <1>1, <1>2 DEF Added
<1>6. CASE Write(o)
  <2>1. /\ DOMAIN rows' = Rows
        /\ \A r \in Rows : rows'[r].status = rows[r].status
    BY <1>6, <1>2 DEF Write
  <2>2. Kept
    BY <1>6, <1>2 DEF Write, Kept, KeepsRow
  <2> QED  BY <2>1, <2>2 DEF Added
<1>7. CASE WriteFails(o)
  <2>1. Writes(o)
    BY <1>7 DEF WriteFails, Writing, Writes
  <2>2. rows[o.row].status = "active"
    BY <2>1 DEF Queued
  <2>3. rows' = [rows EXCEPT ![o.row].status = "failed", ![o.row].lesson = "failed"]
    BY <1>7 DEF WriteFails
  <2> QED  BY <2>2, <2>3, <1>2 DEF Kept, KeepsRow, Added, Counted
<1>8. CASE Review(o)
  <2> DEFINE c == CHOOSE c \in Carded : o.left = {c}
             released == {r \in Boosting(c) : Count(r, o.good) >= CleanReviews}
  <2>1. rows' = [r \in Rows |->
                   IF r \in Boosting(c)
                   THEN [rows[r] EXCEPT !.clean = Count(r, o.good),
                                        !.cleared = r \in released]
                   ELSE rows[r]]
    BY <1>8 DEF Review
  <2> HIDE DEF c, released
  <2>2. DOMAIN rows' = Rows
    BY <2>1
  <2>3. ASSUME NEW r \in Rows PROVE KeepsRow(r)
    <3>1. rows[r] \in Row
      BY <1>2
    <3>2. CASE r \in Boosting(c)
      <4>1. rows'[r] = [rows[r] EXCEPT !.clean = Count(r, o.good), !.cleared = r \in released]
        BY <2>1, <3>2
      <4> QED  BY <4>1, <2>2, <3>1 DEF KeepsRow, Row
    <3>3. CASE r \notin Boosting(c)
      <4>1. rows'[r] = rows[r]
        BY <2>1, <3>3
      <4> QED  BY <4>1, <2>2 DEF KeepsRow
    <3> QED  BY <3>2, <3>3
  <2> QED  BY <2>2, <2>3 DEF Kept, Added
<1>9. CASE Close(o)
  <2> DEFINE end == IF o.op = "complete" THEN "completed" ELSE "dismissed"
  <2>1. rows' = [rows EXCEPT ![o.row].status = end] /\ rows[o.row].status = "active"
    BY <1>9 DEF Close
  <2>2. end \in Counted
    BY DEF Counted, Inserted
  <2> HIDE DEF end
  <2> QED  BY <2>1, <2>2, <1>2 DEF Kept, KeepsRow, Added
<1>10. CASE CloseThrows(o)
  BY <1>10, RowsSame DEF CloseThrows
<1>11. CASE Retire(o)
  <2>1. rows' = [r \in Rows |->
                   IF r \in Open(o.version) THEN [rows[r] EXCEPT !.status = "dismissed"]
                   ELSE rows[r]]
    BY <1>11 DEF Retire
  <2> QED  BY <2>1, <1>2 DEF Kept, KeepsRow, Added, Open, Counted, Inserted
<1> QED  BY <1>3, <1>4, <1>5, <1>6, <1>7, <1>8, <1>9, <1>10, <1>11 DEF Operation

(* The outside does not touch the rows.                                    *)
LEMMA OutsideRows == Outside => rows' = rows
BY DEF Outside, Signal, Reviewed, Press, Override, ClearOverride, Freeze, Sweep, Tick, Crash

(* What the limits count only shrinks with the rows that are kept.         *)
LEMMA PastKept ==
    ASSUME TypeOK, TypeOK', Past, Kept, Added, clock <= clock'
    PROVE  Past'
<1>1. clock \in Nat /\ clock' \in Nat /\ DOMAIN rows' = 1 .. Len(rows') /\ Len(rows) \in Nat
  BY RowsTyped, LenProperties DEF TypeOK
<1>2. ASSUME NEW r \in Rows PROVE rows'[r].made <= clock' /\ rows'[r].n <= r
  <2>1. r \in Nat /\ rows[r] \in Row
    BY RowsTyped
  <2>2. rows[r].made \in Nat /\ rows[r].n \in Nat
    BY <2>1 DEF Row
  <2>3. rows[r].made <= clock /\ rows[r].n <= r
    BY DEF Past
  <2> QED  BY <1>1, <2>1, <2>2, <2>3 DEF Kept, KeepsRow
<1>3. ASSUME NEW r \in DOMAIN rows', AddsRow(r) PROVE rows'[r].made <= clock' /\ rows'[r].n <= r
  <2>1. PICK o \in calls, c \in Concepts, anchor \in Lessons :
          /\ rows'[r].made = clock
          /\ \/ rows'[r].n = 0
             \/ rows'[r].n = NextNumber(o.version, anchor)
    BY <1>3 DEF AddsRow
  <2>2. NextNumber(o.version, anchor) \in 1 .. Len(rows) + 1
    BY NumberGiven
  <2>3. r = Len(rows) + 1
    BY <1>3 DEF AddsRow
  <2> QED  BY <2>1, <2>2, <2>3, <1>1
<1> QED  BY <1>2, <1>3 DEF Past, Added, Rows

(* The row that was let in, if one was.                                    *)
LetIn == {r \in DOMAIN rows' \ Rows : rows'[r].status = "active"}

(* A detour that is counted was, or is the one that was let in.            *)
LEMMA NewRows ==
    ASSUME TypeOK, TypeOK', Kept, Added
    PROVE  /\ \A v : Open(v)' \subseteq Open(v) \cup LetIn
           /\ \A c : OfConcept(c)' \subseteq OfConcept(c) \cup LetIn
           /\ \A t : WeekTo(t)' \subseteq WeekTo(t) \cup LetIn
           /\ \A r \in LetIn : AddsRow(r) /\ r \in DOMAIN rows'
<1>1. ASSUME NEW r \in DOMAIN rows', r \notin Rows, rows'[r].status \in Counted
      PROVE  r \in LetIn
  BY <1>1 DEF Added, AddsRow, LetIn, Counted, Inserted
<1>2. ASSUME NEW v PROVE Open(v)' \subseteq Open(v) \cup LetIn
  <2> SUFFICES ASSUME NEW r \in Open(v)' PROVE r \in Open(v) \cup LetIn
    OBVIOUS
  <2>1. r \in DOMAIN rows' /\ rows'[r].status = "active" /\ rows'[r].version = v
    BY DEF Open, Rows
  <2>2. CASE r \in Rows
    BY <2>1, <2>2 DEF Open, Kept, KeepsRow
  <2> QED  BY <2>1, <2>2 DEF LetIn
<1>3. ASSUME NEW c PROVE OfConcept(c)' \subseteq OfConcept(c) \cup LetIn
  <2> SUFFICES ASSUME NEW r \in OfConcept(c)' PROVE r \in OfConcept(c) \cup LetIn
    OBVIOUS
  <2>1. r \in DOMAIN rows' /\ rows'[r].concept = c /\ rows'[r].status \in Inserted
    BY DEF OfConcept, Rows
  <2>2. CASE r \in Rows
    <3>1. rows[r].concept = c /\ rows[r].status \in Inserted
      BY <2>1, <2>2 DEF Kept, KeepsRow, Inserted
    <3> QED  BY <2>2, <3>1 DEF OfConcept
  <2> QED  BY <1>1, <2>1, <2>2 DEF Counted
<1>4. ASSUME NEW t PROVE WeekTo(t)' \subseteq WeekTo(t) \cup LetIn
  <2> SUFFICES ASSUME NEW r \in WeekTo(t)' PROVE r \in WeekTo(t) \cup LetIn
    OBVIOUS
  <2>1. /\ r \in DOMAIN rows' /\ rows'[r].status \in Counted
        /\ t - Week < rows'[r].made /\ rows'[r].made <= t
    BY DEF WeekTo, Rows
  <2>2. CASE r \in Rows
    <3>1. rows'[r].made = rows[r].made /\ rows[r].status \in Counted
      BY <2>1, <2>2 DEF Kept, KeepsRow, Counted, Inserted
    <3> QED  BY <2>1, <2>2, <3>1 DEF WeekTo
  <2> QED  BY <1>1, <2>1, <2>2
<1>5. \A r \in LetIn : AddsRow(r) /\ r \in DOMAIN rows'
  BY DEF Added, LetIn
<1> QED  BY <1>2, <1>3, <1>4, <1>5

(* What the limits said of it.                                             *)
LEMMA LetInWithin ==
    ASSUME TypeOK, NEW r \in LetIn, AddsRow(r)
    PROVE  /\ r = Len(rows) + 1 /\ rows'[r].made = clock
           /\ \A s \in Open(rows'[r].version) :
                 /\ rows[s].concept # rows'[r].concept
                 /\ ModuleOf[rows[s].anchor] # ModuleOf[rows'[r].anchor]
           /\ ~(Cardinality(OfConcept(rows'[r].concept)) >= RevisitCoreAt - 1)
           /\ ~(Cardinality(WeekTo(clock)) >= MaxPerWeek)
<1>1. PICK o \in calls, c \in Concepts, anchor \in Lessons :
        /\ rows'[r].version = o.version /\ rows'[r].concept = c
        /\ rows'[r].made = clock /\ rows'[r].anchor = anchor
        /\ Refusal(o.version, c, anchor) = "none"
  BY DEF AddsRow, LetIn
<1> QED  BY <1>1 DEF Refusal, ThisWeek, AddsRow

(* What the limits count is finite.                                        *)
LEMMA CountsFinite ==
    ASSUME TypeOK
    PROVE  /\ \A c : IsFiniteSet(OfConcept(c)) /\ Cardinality(OfConcept(c)) \in Nat
           /\ \A t : IsFiniteSet(WeekTo(t)) /\ Cardinality(WeekTo(t)) \in Nat
<1>1. IsFiniteSet(Rows)
  BY RowsTyped
<1>2. ASSUME NEW c PROVE IsFiniteSet(OfConcept(c)) /\ Cardinality(OfConcept(c)) \in Nat
  <2>1. OfConcept(c) \subseteq Rows
    BY DEF OfConcept
  <2> QED  BY <1>1, <2>1, FS_Subset, FS_CardinalityType
<1>3. ASSUME NEW t PROVE IsFiniteSet(WeekTo(t)) /\ Cardinality(WeekTo(t)) \in Nat
  <2>1. WeekTo(t) \subseteq Rows
    BY DEF WeekTo
  <2> QED  BY <1>1, <2>1, FS_Subset, FS_CardinalityType
<1> QED  BY <1>2, <1>3

(* A set that grew by no more than one element.                            *)
LEMMA GrownByOne ==
    ASSUME NEW S, IsFiniteSet(S), NEW x, NEW T, T \subseteq S \cup {x}
    PROVE  Cardinality(T) <= Cardinality(S) + 1
<1>1. IsFiniteSet(S \cup {x}) /\ Cardinality(S \cup {x}) <= Cardinality(S) + 1
  <2>1. Cardinality(S) \in Nat
    BY FS_CardinalityType
  <2>2. /\ IsFiniteSet(S \cup {x})
        /\ \/ Cardinality(S \cup {x}) = Cardinality(S)
           \/ Cardinality(S \cup {x}) = Cardinality(S) + 1
    BY FS_AddElement
  <2> QED  BY <2>1, <2>2
<1>2. IsFiniteSet(T) /\ Cardinality(T) <= Cardinality(S \cup {x})
  BY <1>1, FS_Subset
<1>3. Cardinality(T) \in Nat /\ Cardinality(S) \in Nat /\ Cardinality(S \cup {x}) \in Nat
  BY <1>1, <1>2, FS_CardinalityType
<1> QED  BY <1>1, <1>2, <1>3

(* The limits hold of what a step leaves.                                  *)
LEMMA OneOpenKept ==
    ASSUME TypeOK, TypeOK', OneOpen, Kept, Added
    PROVE  OneOpen'
<1> SUFFICES ASSUME NEW v \in 1 .. LastVersion, NEW r \in Open(v)', NEW s \in Open(v)', r # s
             PROVE  /\ rows'[r].concept # rows'[s].concept
                    /\ ModuleOf[rows'[r].anchor] # ModuleOf[rows'[s].anchor]
  BY DEF OneOpen
<1>1. rows'[r].version = v /\ rows'[s].version = v
  BY DEF Open
<1>2. r \in Open(v) \cup LetIn /\ s \in Open(v) \cup LetIn
  BY NewRows
<1>3. CASE r \in Open(v) /\ s \in Open(v)
  <2>1. r \in Rows /\ s \in Rows
    BY <1>3 DEF Open
  <2> QED  BY <1>3, <2>1 DEF OneOpen, Kept, KeepsRow
<1>4. ASSUME NEW x \in LetIn, NEW y \in Open(v), rows'[x].version = v
      PROVE  /\ rows'[x].concept # rows'[y].concept
             /\ ModuleOf[rows'[x].anchor] # ModuleOf[rows'[y].anchor]
  <2>1. AddsRow(x)
    BY NewRows
  <2>2. y \in Rows
    BY DEF Open
  <2>3. rows'[y].concept = rows[y].concept /\ rows'[y].anchor = rows[y].anchor
    BY <2>2 DEF Kept, KeepsRow
  <2> QED  BY <1>4, <2>1, <2>3, LetInWithin
<1>5. CASE r \in LetIn /\ s \in LetIn
  <2>1. r = Len(rows) + 1 /\ s = Len(rows) + 1
    BY <1>5, NewRows DEF AddsRow
  <2> QED  BY <2>1
<1> QED  BY <1>1, <1>2, <1>3, <1>4, <1>5

(* The limit on sending the learner back is kept: a row is added only below*)
(* it.                                                                     *)
LEMMA RevisitLimitKept ==
    ASSUME TypeOK, TypeOK', RevisitLimit, Kept, Added
    PROVE  RevisitLimit'
<1> SUFFICES ASSUME NEW c \in Concepts
             PROVE  Cardinality(OfConcept(c)') < RevisitCoreAt
  BY DEF RevisitLimit
<1>1. IsFiniteSet(OfConcept(c)) /\ Cardinality(OfConcept(c)) \in Nat
  BY CountsFinite
<1>2. Cardinality(OfConcept(c)) < RevisitCoreAt
  BY DEF RevisitLimit
<1>3. OfConcept(c)' \subseteq OfConcept(c) \cup LetIn
  BY NewRows
<1>4. CASE OfConcept(c)' \subseteq OfConcept(c)
  <2>1. Cardinality(OfConcept(c)') <= Cardinality(OfConcept(c)) /\ IsFiniteSet(OfConcept(c)')
    BY <1>1, <1>4, FS_Subset
  <2>2. Cardinality(OfConcept(c)') \in Nat
    BY <2>1, FS_CardinalityType
  <2> QED  BY <1>1, <1>2, <2>1, <2>2
<1>5. CASE \E x \in OfConcept(c)' : x \notin OfConcept(c)
  <2>1. PICK x \in LetIn : x \in OfConcept(c)'
    BY <1>3, <1>5
  <2>2. AddsRow(x) /\ rows'[x].concept = c
    BY <2>1, NewRows DEF OfConcept
  <2>3. ~(Cardinality(OfConcept(c)) >= RevisitCoreAt - 1)
    BY <2>2, LetInWithin
  <2>4. OfConcept(c)' \subseteq OfConcept(c) \cup {x}
    BY <1>3, <2>2, NewRows DEF AddsRow
  <2>5. Cardinality(OfConcept(c)') <= Cardinality(OfConcept(c)) + 1
    BY <1>1, <2>4, GrownByOne
  <2>6. Cardinality(OfConcept(c)') \in Nat
    BY <1>1, <2>4, FS_AddElement, FS_Subset, FS_CardinalityType
  <2> QED  BY <1>1, <2>3, <2>5, <2>6
<1> QED  BY <1>4, <1>5

(* The weekly limit is kept: a row is let in only below it.                *)
LEMMA WeeklyLimitKept ==
    ASSUME TypeOK, TypeOK', Past, WeeklyLimit, Kept, Added
    PROVE  WeeklyLimit'
<1> SUFFICES ASSUME NEW t \in 0 .. LastTick
             PROVE  Cardinality(WeekTo(t)') <= MaxPerWeek
  BY DEF WeeklyLimit
<1>1. /\ IsFiniteSet(WeekTo(t)) /\ Cardinality(WeekTo(t)) \in Nat
      /\ IsFiniteSet(WeekTo(clock)) /\ Cardinality(WeekTo(clock)) \in Nat
  BY CountsFinite
<1>2. Cardinality(WeekTo(t)) <= MaxPerWeek
  BY DEF WeeklyLimit
<1>3. WeekTo(t)' \subseteq WeekTo(t) \cup LetIn
  BY NewRows
<1>4. CASE WeekTo(t)' \subseteq WeekTo(t)
  <2>1. Cardinality(WeekTo(t)') <= Cardinality(WeekTo(t)) /\ IsFiniteSet(WeekTo(t)')
    BY <1>1, <1>4, FS_Subset
  <2>2. Cardinality(WeekTo(t)') \in Nat
    BY <2>1, FS_CardinalityType
  <2> QED  BY <1>1, <1>2, <2>1, <2>2
<1>5. CASE \E x \in WeekTo(t)' : x \notin WeekTo(t)
  <2>1. PICK x \in LetIn : x \in WeekTo(t)'
    BY <1>3, <1>5
  <2>2. AddsRow(x) /\ t - Week < rows'[x].made /\ rows'[x].made <= t
    BY <2>1, NewRows DEF WeekTo
  <2>3. ~(Cardinality(WeekTo(clock)) >= MaxPerWeek) /\ rows'[x].made = clock
    BY <2>2, LetInWithin
  <2>4. WeekTo(t) \subseteq WeekTo(clock)
    <3> SUFFICES ASSUME NEW r \in WeekTo(t) PROVE r \in WeekTo(clock)
      OBVIOUS
    <3>1. r \in Rows /\ t - Week < rows[r].made /\ rows[r].status \in Counted
      BY DEF WeekTo
    <3>2. rows[r] \in Row /\ rows[r].made <= clock
      BY <3>1, RowsTyped DEF Past
    <3>3. rows[r].made \in Nat /\ clock \in Nat
      BY <3>2 DEF Row, TypeOK
    <3> QED  BY <2>2, <2>3, <3>1, <3>2, <3>3 DEF WeekTo
  <2>5. WeekTo(t)' \subseteq WeekTo(clock) \cup {x}
    BY <1>3, <2>2, <2>4, NewRows DEF AddsRow
  <2>6. Cardinality(WeekTo(t)') <= Cardinality(WeekTo(clock)) + 1
    BY <1>1, <2>5, GrownByOne
  <2>7. Cardinality(WeekTo(t)') \in Nat
    BY <1>1, <2>5, FS_AddElement, FS_Subset, FS_CardinalityType
  <2> QED  BY <1>1, <2>3, <2>6, <2>7
<1> QED  BY <1>4, <1>5
-----------------------------------------------------------------------------
(* The queue, the versions and what is on record.                          *)

(* The call that has the queue goes on, and is not writing unless it let a *)
(* detour in.                                                              *)
LEMMA QueuedMoves ==
    ASSUME TypeOK, TypeOK', Queued, NEW o \in calls, HasQueue(o), NEW q,
           q.ticket = o.ticket, calls' \in {calls \ {o}, (calls \ {o}) \cup {q}},
           used' = used,
           q.op = "review" => q.row = 0,
           Writes(q) => /\ q.row \in DOMAIN rows'
                        /\ rows'[q.row].status = "active"
                        /\ rows'[q.row].lesson = "generating"
    PROVE  Queued'
<1>1. ASSUME NEW p \in calls', p # q
      PROVE  p \in calls /\ p # o /\ ~Writes(p)
  BY <1>1, OneWriter
<1>2. ASSUME NEW p \in calls' PROVE q.ticket <= p.ticket
  <2>1. o.ticket \in Nat
    BY DEF TypeOK, Call
  <2> QED  BY <1>1, <2>1 DEF HasQueue
<1>3. \A p, s \in calls' : p.ticket = s.ticket => p = s
  BY <1>1 DEF Queued
<1>4. \A p \in calls' : p.ticket <= used'.events
  BY <1>1 DEF Queued
<1>5. \A p \in calls' : p.op = "review" => p.row = 0
  BY <1>1 DEF Queued
<1>6. \A p \in calls' : Writes(p) => p = q
  BY <1>1
<1>7. ASSUME NEW p \in calls', Writes(p)
      PROVE  /\ \A s \in calls' : p.ticket <= s.ticket
             /\ p.row \in DOMAIN rows'
             /\ rows'[p.row].status = "active" /\ rows'[p.row].lesson = "generating"
  BY <1>2, <1>6, <1>7
<1> QED  BY <1>3, <1>4, <1>5, <1>7 DEF Queued, Writes, HasQueue, Rows

(* A call that goes on keeps the queue to itself.                          *)
LEMMA GoesOnQueued ==
    ASSUME TypeOK, TypeOK', Queued, NEW o \in calls, HasQueue(o), NEW left,
           GoesOn(o, left), used' = used
    PROVE  Queued'
<1> DEFINE q == [o EXCEPT !.left = left, !.row = 0]
<1>1. o \in Call
  BY DEF TypeOK
<1>2. q.ticket = o.ticket /\ q.row = 0
  BY <1>1 DEF Call
<1>3. calls' \in {calls \ {o}, (calls \ {o}) \cup {q}}
  BY DEF GoesOn, Ends, Moves
<1> HIDE DEF q
<1> QED  BY <1>2, <1>3, QueuedMoves DEF Writes

(* A call that ends leaves the queue free.                                 *)
LEMMA EndsQueued ==
    ASSUME TypeOK, TypeOK', Queued, NEW o \in calls, HasQueue(o),
           calls' = calls \ {o}, used' = used
    PROVE  Queued'
<1> DEFINE q == [o EXCEPT !.row = 0]
<1>1. q.ticket = o.ticket /\ q.row = 0
  BY DEF TypeOK, Call
<1> HIDE DEF q
<1> QED  BY <1>1, QueuedMoves DEF Writes

(* Every step of a call keeps one writer in the queue.                     *)
LEMMA OperationQueued ==
    ASSUME TypeOK, TypeOK', Queued, NEW o \in calls, Operation(o)
    PROVE  Queued'
<1>1. o \in Call /\ HasQueue(o) /\ used' = used
  BY DEF TypeOK, Operation, Ignore, Refuse, Insert, Deciding, Write, WriteFails, Writing,
         Review, Close, CloseThrows, Closing, Retire
<1>2. CASE \E c \in o.left : Ignore(o, c)
  BY <1>1, <1>2, GoesOnQueued DEF Ignore
<1>3. CASE \E c \in o.left, anchor \in Lessons : Refuse(o, c, anchor)
  BY <1>1, <1>3, GoesOnQueued DEF Refuse
<1>4. CASE \E c \in o.left, anchor \in Lessons : Insert(o, c, anchor)
  <2>1. PICK c \in o.left, anchor \in Lessons : Insert(o, c, anchor)
    BY <1>4
  <2> DEFINE e == [NewRow(o, c) EXCEPT !.status = "active", !.anchor = anchor,
                                       !.n = NextNumber(o.version, anchor),
                                       !.lesson = "generating"]
             q == [o EXCEPT !.left = @ \ {c}, !.row = Len(rows')]
  <2>2. rows' = Append(rows, e) /\ calls' = (calls \ {o}) \cup {q} /\ o.op = "handle"
    BY <2>1 DEF Insert, Moves, Deciding
  <2>3. e.status = "active" /\ e.lesson = "generating"
    BY DEF NewRow
  <2>4. q.ticket = o.ticket /\ q.op = "handle" /\ q.row = Len(rows')
    BY <1>1, <2>2 DEF Call
  <2> HIDE DEF e
  <2>5. rows \in Seq(Row) /\ rows' \in Seq(Row)
    BY DEF TypeOK
  <2>6. Len(rows') = Len(rows) + 1 /\ rows'[Len(rows) + 1] = e /\ Len(rows) \in Nat
    BY <2>2, <2>5
  <2>7. Len(rows') \in DOMAIN rows' /\ rows'[Len(rows')] = e
    BY <2>5, <2>6
  <2> HIDE DEF q
  <2> QED  BY <1>1, <2>2, <2>3, <2>4, <2>7, QueuedMoves
<1>5. CASE Write(o) \/ WriteFails(o)
  BY <1>1, <1>5, GoesOnQueued DEF Write, WriteFails
<1>6. CASE Review(o)
  <2> DEFINE q == [o EXCEPT !.op = "handle", !.version = live, !.trigger = "memory"]
  <2>1. calls' \in {calls \ {o}, (calls \ {o}) \cup {q}} /\ o.op = "review"
    BY <1>6 DEF Review, Ends, Moves
  <2>2. q.ticket = o.ticket /\ q.row = 0
    BY <1>1, <2>1 DEF Call, Queued
  <2> HIDE DEF q
  <2> QED  BY <1>1, <2>1, <2>2, QueuedMoves DEF Writes
<1>7. CASE Close(o) \/ CloseThrows(o) \/ Retire(o)
  BY <1>1, <1>7, EndsQueued DEF Close, CloseThrows, Throws, Ends, Retire
<1> QED  BY <1>2, <1>3, <1>4, <1>5, <1>6, <1>7 DEF Operation

(* A call that joins the queue.                                            *)
LEMMA JoinsQueued ==
    ASSUME TypeOK, TypeOK', Queued, Event, NEW q, Queues(q),
           q.ticket = used.events + 1, ~Writes(q), q.op = "review" => q.row = 0, rows' = rows
    PROVE  Queued'
<1>1. used.events \in Nat /\ used'.events = used.events + 1
  BY DEF TypeOK, Event
<1>2. \A p \in calls : p.ticket \in Nat /\ p.ticket <= used.events
  BY DEF TypeOK, Call, Queued
<1>3. calls' = calls \cup {q}
  BY DEF Queues
<1>4. \A p, s \in calls' : p.ticket = s.ticket => p = s
  BY <1>1, <1>2, <1>3 DEF Queued
<1>5. \A p \in calls' : p.ticket <= used'.events
  BY <1>1, <1>2, <1>3
<1>6. \A p \in calls' : p.op = "review" => p.row = 0
  BY <1>3 DEF Queued
<1>7. ASSUME NEW p \in calls', Writes(p)
      PROVE  /\ \A s \in calls' : p.ticket <= s.ticket
             /\ p.row \in DOMAIN rows'
             /\ rows'[p.row].status = "active" /\ rows'[p.row].lesson = "generating"
  <2>1. p \in calls
    BY <1>3, <1>7
  <2>2. \A s \in calls : p.ticket <= s.ticket
    BY <1>7, <2>1 DEF Queued, HasQueue
  <2> QED  BY <1>1, <1>2, <1>3, <1>7, <2>1, <2>2 DEF Queued, Rows
<1> QED  BY <1>4, <1>5, <1>6, <1>7 DEF Queued, Writes, HasQueue, Rows

(* What comes from outside queues up, and keeps one writer.                *)
LEMMA OutsideQueued ==
    ASSUME TypeOK, TypeOK', Queued, Outside
    PROVE  Queued'
<1>0. rows' = rows
  BY OutsideRows
<1>1. CASE \E signal \in Signals : Signal(signal)
  <2>1. PICK signal \in Signals : Signal(signal)
    BY <1>1
  <2> DEFINE q == [NewCall("handle") EXCEPT !.version = live, !.trigger = signal.trigger,
                                            !.left = signal.left, !.item = signal.item]
  <2>2. q.ticket = used.events + 1 /\ q.row = 0
    BY DEF NewCall
  <2>3. Event /\ Queues(q)
    BY <2>1 DEF Signal
  <2> HIDE DEF q
  <2> QED  BY <1>0, <2>2, <2>3, JoinsQueued DEF Writes
<1>2. CASE \E c \in Carded, good \in BOOLEAN : Reviewed(c, good)
  <2>1. PICK c \in Carded, good \in BOOLEAN : Reviewed(c, good)
    BY <1>2
  <2> DEFINE q == [NewCall("review") EXCEPT !.left = {c}, !.good = good]
  <2>2. q.ticket = used.events + 1 /\ q.row = 0
    BY DEF NewCall
  <2>3. Event /\ Queues(q)
    BY <2>1 DEF Reviewed
  <2> HIDE DEF q
  <2> QED  BY <1>0, <2>2, <2>3, JoinsQueued DEF Writes
<1>3. CASE \E r \in Rows, op \in {"complete", "dismiss"} : Press(op, r)
  <2>1. PICK r \in Rows, op \in {"complete", "dismiss"} : Press(op, r)
    BY <1>3
  <2> DEFINE q == [NewCall(op) EXCEPT !.row = r]
  <2>2. q.ticket = used.events + 1 /\ q.op = op
    BY DEF NewCall
  <2>3. Event /\ Queues(q)
    BY <2>1 DEF Press
  <2> HIDE DEF q
  <2> QED  BY <1>0, <2>2, <2>3, JoinsQueued DEF Writes
<1>4. CASE Freeze
  <2> DEFINE q == [NewCall("retire") EXCEPT !.version = live]
  <2>1. q.ticket = used.events + 1 /\ q.row = 0
    BY DEF NewCall
  <2>2. Event /\ Queues(q)
    BY <1>4 DEF Freeze
  <2> HIDE DEF q
  <2> QED  BY <1>0, <2>1, <2>2, JoinsQueued DEF Writes
<1>5. CASE Crash
  BY <1>5 DEF Crash, Queued
<1>6. CASE (\E c \in Carded : Override(c) \/ ClearOverride(c)) \/ Sweep \/ Tick
  <2>1. calls' = calls
    BY <1>6 DEF Override, ClearOverride, Sweep, Tick
  <2>2. used'.events = used.events \/ used'.events = used.events + 1
    BY <1>6 DEF Override, ClearOverride, Event, Sweep, Tick, TypeOK
  <2>3. \A p \in calls : p.ticket <= used'.events
    <3>1. used.events \in Nat /\ \A p \in calls : p.ticket \in Nat /\ p.ticket <= used.events
      BY DEF TypeOK, Call, Queued
    <3> QED  BY <2>2, <3>1
  <2> QED  BY <1>0, <2>1, <2>3 DEF Queued, HasQueue, Rows
<1> QED  BY <1>1, <1>2, <1>3, <1>4, <1>5, <1>6 DEF Outside

(* A row that is open after a step was, or is on the version being studied.*)
LEMMA OpenBefore ==
    ASSUME Kept, Added, NEW r \in DOMAIN rows', rows'[r].status = "active"
    PROVE  \/ r \in Rows /\ rows[r].status = "active" /\ rows'[r].version = rows[r].version
           \/ rows'[r].version = live
<1>1. CASE r \in Rows
  BY <1>1 DEF Kept, KeepsRow
<1>2. CASE r \notin Rows
  BY <1>2 DEF Added, AddsRow, Ignored
<1> QED  BY <1>1, <1>2

(* A call about an answer begins no retirement.                            *)
LEMMA GoesOnRetires ==
    ASSUME NEW o \in Call, NEW left, GoesOn(o, left), o.op = "handle"
    PROVE  \A p \in calls' : p.op = "retire" => p \in calls
<1> DEFINE q == [o EXCEPT !.left = left, !.row = 0]
<1>1. q.op = "handle"
  BY DEF Call
<1>2. calls' \subseteq calls \cup {q}
  BY DEF GoesOn, Ends, Moves
<1> HIDE DEF q
<1> QED  BY <1>1, <1>2

(* No step of a call gives a superseded version a detour.                  *)
LEMMA OperationSuperseded ==
    ASSUME TypeOK, TypeOK', Queued, Superseded, NEW o \in calls, Operation(o), Kept, Added
    PROVE  Superseded'
<1>1. live' = live /\ live \in Nat
  <2>1. live' = live
    BY DEF Operation, Ignore, Refuse, Insert, Write, WriteFails, Review, Close,
           CloseThrows, Retire
  <2> QED  BY <2>1 DEF TypeOK
<1>2. \A p \in calls' : p.op = "retire" => p \in calls
  <2>1. o \in Call
    BY DEF TypeOK
  <2>2. CASE \E c \in o.left : Ignore(o, c)
    <3>1. PICK c \in o.left : Ignore(o, c)
      BY <2>2
    <3>2. o.op = "handle" /\ GoesOn(o, o.left \ {c})
      BY <3>1 DEF Ignore, Deciding
    <3> QED  BY <2>1, <3>2, GoesOnRetires
  <2>3. CASE \E c \in o.left, anchor \in Lessons : Refuse(o, c, anchor)
    <3>1. PICK c \in o.left, anchor \in Lessons : Refuse(o, c, anchor)
      BY <2>3
    <3>2. o.op = "handle" /\ GoesOn(o, o.left \ {c})
      BY <3>1 DEF Refuse, Deciding
    <3> QED  BY <2>1, <3>2, GoesOnRetires
  <2>4. CASE \E c \in o.left, anchor \in Lessons : Insert(o, c, anchor)
    <3>1. PICK c \in o.left, anchor \in Lessons : Insert(o, c, anchor)
      BY <2>4
    <3> DEFINE q == [o EXCEPT !.left = @ \ {c}, !.row = Len(rows')]
    <3>2. o.op = "handle" /\ calls' = (calls \ {o}) \cup {q}
      BY <3>1 DEF Insert, Deciding, Moves
    <3>3. q.op = "handle"
      BY <2>1, <3>2 DEF Call
    <3> HIDE DEF q
    <3> QED  BY <3>2, <3>3
  <2>5. CASE Write(o) \/ WriteFails(o)
    <3>1. o.op = "handle" /\ GoesOn(o, o.left)
      BY <2>5 DEF Write, WriteFails, Writing
    <3> QED  BY <2>1, <3>1, GoesOnRetires
  <2>6. CASE Review(o)
    <3> DEFINE q == [o EXCEPT !.op = "handle", !.version = live, !.trigger = "memory"]
    <3>1. calls' \subseteq calls \cup {q}
      BY <2>6 DEF Review, Ends, Moves
    <3>2. q.op = "handle"
      BY <2>1 DEF Call
    <3> HIDE DEF q
    <3> QED  BY <3>1, <3>2
  <2>7. CASE Close(o) \/ CloseThrows(o) \/ Retire(o)
    BY <2>7 DEF Close, CloseThrows, Throws, Ends, Retire
  <2> QED  BY <2>2, <2>3, <2>4, <2>5, <2>6, <2>7 DEF Operation
<1>3. \A p \in calls' : p.op = "retire" => p.version \in 1 .. live' - 1
  BY <1>1, <1>2 DEF Superseded
<1>4. CASE retired' = retired
  <2>1. \A r \in DOMAIN rows' : rows'[r].version \in retired' => rows'[r].status # "active"
    BY <1>1, <1>4, OpenBefore DEF Superseded
  <2> QED  BY <1>1, <1>3, <1>4, <2>1 DEF Superseded, Rows
<1>5. CASE Retire(o)
  <2>1. retired' = retired \cup {o.version} /\ o.version \in 1 .. live - 1
    BY <1>5 DEF Retire, Superseded
  <2>2. ASSUME NEW r \in DOMAIN rows', rows'[r].version \in retired'
        PROVE  rows'[r].status # "active"
    <3>1. rows' = [s \in Rows |->
                     IF s \in Open(o.version) THEN [rows[s] EXCEPT !.status = "dismissed"]
                     ELSE rows[s]]
      BY <1>5 DEF Retire
    <3>2. CASE r \in Open(o.version)
      <4>1. rows[r] \in Row /\ r \in Rows
        BY <3>2, RowsTyped DEF Open
      <4>2. rows'[r] = [rows[r] EXCEPT !.status = "dismissed"]
        BY <3>1, <3>2, <4>1
      <4> QED  BY <4>1, <4>2 DEF Row
    <3>3. CASE r \notin Open(o.version)
      <4>1. r \in Rows /\ rows'[r] = rows[r]
        BY <3>1, <3>3
      <4> QED  BY <2>1, <2>2, <3>3, <4>1 DEF Open, Superseded
    <3> QED  BY <3>2, <3>3
  <2> QED  BY <1>1, <1>3, <2>1, <2>2 DEF Superseded, Rows
<1> QED
  <2>1. retired' = retired \/ Retire(o)
    BY DEF Operation, Ignore, Refuse, Insert, Write, WriteFails, Review, Close, CloseThrows
  <2> QED  BY <1>4, <1>5, <2>1

(* Nor does anything that comes from outside.                              *)
LEMMA OutsideSuperseded ==
    ASSUME TypeOK, TypeOK', Superseded, Outside
    PROVE  Superseded'
<1>1. rows' = rows /\ live \in Nat
  BY OutsideRows DEF TypeOK
<1>2. CASE Freeze
  <2> DEFINE q == [NewCall("retire") EXCEPT !.version = live]
  <2>1. q.version = live
    BY DEF NewCall
  <2>2. live' = live + 1 /\ calls' = calls \cup {q} /\ retired' = retired
    BY <1>2 DEF Freeze, Queues
  <2> HIDE DEF q
  <2>3. \A v \in retired' : v < live'
    <3>1. \A v \in retired : v \in Nat /\ v < live
      BY DEF TypeOK, Superseded
    <3> QED  BY <1>1, <2>2, <3>1
  <2>4. \A p \in calls' : p.op = "retire" => p.version \in 1 .. live' - 1
    <3>1. live \in 1 .. live' - 1 /\ \A n \in 1 .. live - 1 : n \in 1 .. live' - 1
      BY <2>2 DEF TypeOK
    <3> QED  BY <2>1, <2>2, <3>1 DEF Superseded
  <2> QED  BY <1>1, <2>2, <2>3, <2>4 DEF Superseded, Rows
<1>3. CASE live' = live /\ retired' = retired /\ \A p \in calls' : p.op = "retire" => p \in calls
  BY <1>1, <1>3 DEF Superseded, Rows
<1> QED
  <2>1. CASE \E signal \in Signals : Signal(signal)
    BY <1>3, <2>1 DEF Signal, Queues, NewCall
  <2>2. CASE \E c \in Carded, good \in BOOLEAN : Reviewed(c, good)
    BY <1>3, <2>2 DEF Reviewed, Queues, NewCall
  <2>3. CASE \E r \in Rows, op \in {"complete", "dismiss"} : Press(op, r)
    BY <1>3, <2>3 DEF Press, Queues, NewCall
  <2>4. CASE (\E c \in Carded : Override(c) \/ ClearOverride(c)) \/ Sweep \/ Tick \/ Crash
    BY <1>3, <2>4 DEF Override, ClearOverride, Sweep, Tick, Crash
  <2> QED  BY <1>2, <2>1, <2>2, <2>3, <2>4 DEF Outside

(* The two parts of OnRecordOnce.                                          *)
Once ==
    \A r, s \in Rows :
         /\ rows[r].version = rows[s].version
         /\ \/ rows[r].n # 0 /\ rows[r].anchor = rows[s].anchor /\ rows[r].n = rows[s].n
            \/ rows[r].item # None /\ rows[r].item = rows[s].item
         => r = s

Unwritten(r) ==
    rows[r].status = "active" /\ rows[r].lesson = "generating" /\ ~used.crashed

InHand(r) == \E o \in calls : o.op = "handle" /\ o.row = r

(* No two rows share an id, or a confident error.                          *)
LEMMA OnceKept ==
    ASSUME TypeOK, TypeOK', Past, Once, Kept, Added
    PROVE  Once'
<1>1. ASSUME NEW x \in DOMAIN rows', x \notin Rows, NEW y \in Rows,
             rows'[x].version = rows'[y].version
      PROVE  /\ ~(rows'[x].n # 0 /\ rows'[x].anchor = rows'[y].anchor
                                 /\ rows'[x].n = rows'[y].n)
             /\ ~(rows'[x].item # None /\ rows'[x].item = rows'[y].item)
  <2>1. PICK o \in calls, anchor \in Lessons :
          /\ ~Ignored(o)
          /\ rows'[x].version = o.version /\ rows'[x].item = o.item
          /\ \/ rows'[x].n = 0
             \/ rows'[x].anchor = anchor /\ rows'[x].n = NextNumber(o.version, anchor)
    BY <1>1 DEF Added, AddsRow
  <2>2. /\ rows[y].version = o.version
        /\ rows'[y].item = rows[y].item /\ rows'[y].n = rows[y].n
        /\ rows'[y].anchor = rows[y].anchor
    BY <1>1, <2>1 DEF Kept, KeepsRow
  <2>3. ~(rows'[x].item # None /\ rows'[x].item = rows[y].item)
    BY <2>1, <2>2 DEF Ignored, Decided
  <2>4. ASSUME rows'[x].n # 0, rows'[x].anchor = rows[y].anchor PROVE rows'[x].n # rows[y].n
    <3>1. rows'[x].n = NextNumber(o.version, anchor) /\ rows[y].anchor = anchor
      BY <2>1, <2>4
    <3>2. rows[y].n \in Taken(o.version, anchor)
      BY <2>2, <3>1 DEF Taken
    <3>3. rows[y].n < NextNumber(o.version, anchor) /\ NextNumber(o.version, anchor) \in Nat
      <4>1. Len(rows) \in Nat
        BY RowsTyped
      <4> QED  BY <3>2, <4>1, NumberGiven
    <3> QED  BY <3>1, <3>3
  <2> QED  BY <2>2, <2>3, <2>4
<1>2. ASSUME NEW r \in Rows, NEW s \in Rows,
             rows'[r].version = rows'[s].version,
             \/ rows'[r].n # 0 /\ rows'[r].anchor = rows'[s].anchor
                               /\ rows'[r].n = rows'[s].n
             \/ rows'[r].item # None /\ rows'[r].item = rows'[s].item
      PROVE  r = s
  BY <1>2 DEF Once, Kept, KeepsRow
<1>3. ASSUME NEW r \in DOMAIN rows', r \notin Rows, NEW s \in DOMAIN rows', s \notin Rows
      PROVE  r = s
  BY <1>3 DEF Added, AddsRow
<1> QED  BY <1>1, <1>2, <1>3 DEF Once, Rows

(* The call that writes a detour is in the queue as long as it is written. *)
LEMMA OperationWritten ==
    ASSUME TypeOK, TypeOK', Queued, NEW o \in calls, Operation(o), Kept, Added,
           \A r \in Rows : Unwritten(r) => InHand(r)
    PROVE  \A r \in DOMAIN rows' : Unwritten(r)' => InHand(r)'
<1>1. /\ HasQueue(o) /\ used' = used /\ Rows = 1 .. Len(rows) /\ Len(rows) \in Nat
      /\ rows \in [Rows -> Row] /\ o \in Call
  BY RowsTyped
     DEF Operation, Ignore, Refuse, Insert, Deciding, Write, WriteFails, Writing,
         Review, Close, CloseThrows, Closing, Retire, TypeOK
<1>2. ASSUME ~Writes(o), calls \ {o} \subseteq calls',
             NEW r \in Rows, Unwritten(r)
      PROVE  InHand(r)'
  <2>1. PICK p \in calls : p.op = "handle" /\ p.row = r
    BY <1>2 DEF InHand
  <2>2. Writes(p)
    BY <1>1, <2>1 DEF Writes
  <2> QED  BY <1>2, <2>1, <2>2 DEF InHand
<1>3. ASSUME NEW r \in Rows, rows'[r].lesson = rows[r].lesson, Unwritten(r)'
      PROVE  Unwritten(r)
  BY <1>1, <1>3 DEF Unwritten, Kept, KeepsRow
<1>4. CASE ~Writes(o) /\ calls \ {o} \subseteq calls' /\ rows' = rows
  BY <1>2, <1>3, <1>4 DEF Rows
<1>5. CASE \E c \in o.left : Ignore(o, c)
  BY <1>4, <1>5 DEF Ignore, Deciding, Writes, GoesOn, Ends, Moves
<1>6. CASE \E c \in o.left, anchor \in Lessons : Refuse(o, c, anchor)
  <2>1. PICK c \in o.left, anchor \in Lessons : Refuse(o, c, anchor)
    BY <1>6
  <2>2. ~Writes(o) /\ calls \ {o} \subseteq calls'
    BY <2>1 DEF Refuse, Deciding, Writes, GoesOn, Ends, Moves
  <2> DEFINE e == [NewRow(o, c) EXCEPT !.refusal = Refusal(o.version, c, anchor)]
  <2>3. rows' = rows \/ rows' = Append(rows, e)
    BY <2>1 DEF Refuse
  <2>4. CASE rows' = Append(rows, e)
    <3>1. e.status = "refused"
      BY DEF NewRow
    <3> HIDE DEF e
    <3>2. rows \in Seq(Row) /\ rows' \in Seq(Row)
      BY DEF TypeOK
    <3>3. /\ DOMAIN rows' = 1 .. Len(rows) + 1 /\ rows'[Len(rows) + 1] = e
          /\ \A r \in Rows : rows'[r] = rows[r]
      BY <2>4, <3>2, <1>1
    <3>4. ASSUME NEW r \in DOMAIN rows', Unwritten(r)' PROVE r \in Rows
      BY <3>1, <3>3, <3>4, <1>1 DEF Unwritten
    <3> QED  BY <1>2, <1>3, <2>2, <3>3, <3>4
  <2> QED  BY <1>4, <2>2, <2>3, <2>4
<1>7. CASE \E c \in o.left, anchor \in Lessons : Insert(o, c, anchor)
  <2>1. PICK c \in o.left, anchor \in Lessons : Insert(o, c, anchor)
    BY <1>7
  <2> DEFINE e == [NewRow(o, c) EXCEPT !.status = "active", !.anchor = anchor,
                                       !.n = NextNumber(o.version, anchor),
                                       !.lesson = "generating"]
             q == [o EXCEPT !.left = @ \ {c}, !.row = Len(rows')]
  <2>2. ~Writes(o) /\ calls' = (calls \ {o}) \cup {q} /\ o.op = "handle"
    BY <2>1 DEF Insert, Deciding, Writes, Moves
  <2>3. rows' = Append(rows, e)
    BY <2>1 DEF Insert
  <2> HIDE DEF e
  <2>4. rows \in Seq(Row) /\ rows' \in Seq(Row)
    BY DEF TypeOK
  <2>5. /\ Len(rows') = Len(rows) + 1 /\ DOMAIN rows' = 1 .. Len(rows) + 1
        /\ \A r \in Rows : rows'[r] = rows[r]
    BY <2>3, <2>4, <1>1
  <2>6. q.op = "handle" /\ q.row = Len(rows) + 1
    BY <2>2, <2>5, <1>1 DEF Call
  <2> HIDE DEF q
  <2>7. ASSUME NEW r \in DOMAIN rows', Unwritten(r)' PROVE InHand(r)'
    <3>1. CASE r \in Rows
      BY <1>2, <1>3, <2>2, <2>5, <2>7, <3>1
    <3>2. CASE r \notin Rows
      <4>1. r = Len(rows) + 1
        BY <3>2, <2>5, <1>1
      <4> QED  BY <4>1, <2>2, <2>6 DEF InHand
    <3> QED  BY <3>1, <3>2
  <2> QED  BY <2>7
<1>8. CASE Write(o) \/ WriteFails(o)
  <2>1. Writes(o) /\ o.row \in Rows
    <3>1. Writes(o)
      BY <1>8 DEF Write, WriteFails, Writing, Writes
    <3> QED  BY <3>1 DEF Queued
  <2>2. DOMAIN rows' = Rows
    BY <1>1, <1>8 DEF Write, WriteFails
  <2>3. ~Unwritten(o.row)'
    <3>1. CASE Write(o)
      <4>1. rows'[o.row].lesson = "ready"
        BY <1>1, <2>1, <3>1 DEF Write, Row
      <4> QED  BY <4>1 DEF Unwritten
    <3>2. CASE WriteFails(o)
      <4>1. rows'[o.row].lesson = "failed"
        BY <1>1, <2>1, <3>2 DEF WriteFails, Row
      <4> QED  BY <4>1 DEF Unwritten
    <3> QED  BY <1>8, <3>1, <3>2
  <2>4. ASSUME NEW r \in Rows, r # o.row PROVE ~Unwritten(r)'
    <3>1. rows'[r] = rows[r]
      BY <1>1, <1>8, <2>4 DEF Write, WriteFails
    <3>2. ASSUME Unwritten(r) PROVE FALSE
      <4>1. PICK p \in calls : p.op = "handle" /\ p.row = r
        BY <3>2 DEF InHand
      <4>2. Writes(p)
        BY <1>1, <4>1 DEF Writes
      <4>3. p = o
        BY <1>1, <4>2, OneWriter
      <4> QED  BY <2>4, <4>1, <4>3
    <3> QED  BY <1>3, <3>1, <3>2
  <2> QED  BY <2>2, <2>3, <2>4
<1>9. CASE Review(o)
  <2> DEFINE c == CHOOSE c \in Carded : o.left = {c}
             released == {r \in Boosting(c) : Count(r, o.good) >= CleanReviews}
  <2>1. rows' = [r \in Rows |->
                   IF r \in Boosting(c)
                   THEN [rows[r] EXCEPT !.clean = Count(r, o.good),
                                        !.cleared = r \in released]
                   ELSE rows[r]]
    BY <1>9 DEF Review
  <2> HIDE DEF c, released
  <2>2. ASSUME NEW r \in Rows PROVE rows'[r].lesson = rows[r].lesson
    <3>1. rows[r] \in Row
      BY <1>1
    <3> QED  BY <2>1, <3>1 DEF Row
  <2>3. ~Writes(o) /\ calls \ {o} \subseteq calls' /\ DOMAIN rows' = Rows
    BY <1>9, <2>1 DEF Review, Writes, Ends, Moves
  <2> QED  BY <1>2, <1>3, <2>2, <2>3
<1>10. CASE Close(o)
  <2> DEFINE end == IF o.op = "complete" THEN "completed" ELSE "dismissed"
  <2>1. rows' = [rows EXCEPT ![o.row].status = end]
    BY <1>10 DEF Close
  <2> HIDE DEF end
  <2>2. DOMAIN rows' = Rows /\ \A r \in Rows : rows'[r].lesson = rows[r].lesson
    BY <1>1, <2>1
  <2>3. ~Writes(o) /\ calls \ {o} \subseteq calls'
    BY <1>10 DEF Close, Closing, Writes, Ends
  <2> QED  BY <1>2, <1>3, <2>2, <2>3
<1>11. CASE CloseThrows(o)
  BY <1>4, <1>11 DEF CloseThrows, Closing, Writes, Throws, Ends
<1>12. CASE Retire(o)
  <2>1. rows' = [r \in Rows |->
                   IF r \in Open(o.version) THEN [rows[r] EXCEPT !.status = "dismissed"]
                   ELSE rows[r]]
    BY <1>12 DEF Retire
  <2>2. DOMAIN rows' = Rows /\ \A r \in Rows : rows'[r].lesson = rows[r].lesson
    BY <1>1, <2>1 DEF Row
  <2>3. ~Writes(o) /\ calls \ {o} \subseteq calls'
    BY <1>12 DEF Retire, Writes, Ends
  <2> QED  BY <1>2, <1>3, <2>2, <2>3
<1> QED  BY <1>5, <1>6, <1>7, <1>8, <1>9, <1>10, <1>11, <1>12 DEF Operation
-----------------------------------------------------------------------------
(* The invariant.                                                          *)

(* The invariant holds at the start.                                       *)
LEMMA InitInv == Init => DetoursInv
<1> SUFFICES ASSUME Init PROVE DetoursInv
  OBVIOUS
<1>1. TypeOK
  BY InitTypes
<1>2. Rows = {} /\ calls = {} /\ retired = {}
  BY DEF Init, Rows
<1>3. Past /\ Queued /\ Superseded /\ OnRecordOnce
  BY <1>2 DEF Past, Queued, Superseded, OnRecordOnce
<1>4. LimitsHold
  <2>1. \A v : Open(v) = {}
    BY <1>2 DEF Open
  <2>2. \A c : OfConcept(c) = {}
    BY <1>2 DEF OfConcept
  <2>3. \A t : WeekTo(t) = {}
    BY <1>2 DEF WeekTo
  <2>4. Cardinality({}) = 0
    BY FS_EmptySet
  <2> QED  BY <2>1, <2>2, <2>3, <2>4 DEF LimitsHold, OneOpen, WeeklyLimit, RevisitLimit
<1> QED  BY <1>1, <1>3, <1>4 DEF DetoursInv

(* Every step keeps the invariant.                                         *)
LEMMA NextInv == DetoursInv /\ [Next]_vars => DetoursInv'
<1> SUFFICES ASSUME DetoursInv, [Next]_vars PROVE DetoursInv'
  OBVIOUS
<1>1. /\ TypeOK /\ Past /\ Queued /\ Superseded
      /\ OneOpen /\ WeeklyLimit /\ RevisitLimit /\ Once
      /\ \A r \in Rows : Unwritten(r) => InHand(r)
  BY DEF DetoursInv, LimitsHold, OnRecordOnce, Once, Unwritten, InHand
<1>2. CASE UNCHANGED vars
  BY <1>1, <1>2
     DEF vars, DetoursInv, TypeOK, Past, Queued, HasQueue, Superseded, LimitsHold, OneOpen,
         WeeklyLimit, RevisitLimit, Open, WeekTo, OfConcept, OnRecordOnce, Rows
<1>3. ASSUME TypeOK', Kept, Added, clock <= clock', Queued', Superseded',
             \A r \in DOMAIN rows' : Unwritten(r)' => InHand(r)'
      PROVE  DetoursInv'
  <2>1. Past' /\ Once'
    BY <1>1, <1>3, PastKept, OnceKept
  <2>2. OneOpen' /\ WeeklyLimit' /\ RevisitLimit'
    BY <1>1, <1>3, OneOpenKept, WeeklyLimitKept, RevisitLimitKept
  <2>3. LimitsHold'
    BY <2>2 DEF LimitsHold
  <2>4. OnRecordOnce'
    BY <1>3, <2>1 DEF OnRecordOnce, Once, Unwritten, InHand, Rows
  <2> QED  BY <1>3, <2>1, <2>3, <2>4 DEF DetoursInv
<1>4. CASE Serve
  <2>1. PICK o \in calls : Operation(o)
    BY <1>4 DEF Serve
  <2>2. TypeOK' /\ Kept /\ Added
    BY <1>1, <2>1, OperationTypes, OperationRows
  <2>3. Queued' /\ Superseded'
    BY <1>1, <2>1, <2>2, OperationQueued, OperationSuperseded
  <2>4. \A r \in DOMAIN rows' : Unwritten(r)' => InHand(r)'
    BY <1>1, <2>1, <2>2, OperationWritten
  <2>5. clock <= clock'
    <3>1. clock' = clock
      BY <2>1 DEF Operation, Ignore, Refuse, Insert, Write, WriteFails, Review, Close,
                  CloseThrows, Retire
    <3> QED  BY <1>1, <3>1 DEF TypeOK
  <2> QED  BY <1>3, <2>2, <2>3, <2>4, <2>5
<1>5. CASE Outside
  <2>1. rows' = rows /\ TypeOK'
    BY <1>1, <1>5, OutsideRows, OutsideTypes
  <2>2. Kept /\ Added /\ Queued' /\ Superseded'
    BY <1>1, <1>5, <2>1, RowsSame, OutsideQueued, OutsideSuperseded
  <2>3. ASSUME NEW r \in DOMAIN rows', Unwritten(r)' PROVE InHand(r)'
    <3>1. ~used'.crashed
      BY <2>3 DEF Unwritten
    <3>2. ~used.crashed /\ calls \subseteq calls'
      <4>1. CASE Crash
        <5>1. used'.crashed
          BY <4>1 DEF Crash
        <5> QED  BY <3>1, <5>1
      <4>2. CASE \E signal \in Signals : Signal(signal)
        BY <1>1, <3>1, <4>2 DEF Signal, Event, Queues, TypeOK
      <4>3. CASE \E c \in Carded, good \in BOOLEAN : Reviewed(c, good)
        BY <1>1, <3>1, <4>3 DEF Reviewed, Event, Queues, TypeOK
      <4>4. CASE \E x \in Rows, op \in {"complete", "dismiss"} : Press(op, x)
        BY <1>1, <3>1, <4>4 DEF Press, Event, Queues, TypeOK
      <4>5. CASE Freeze
        BY <1>1, <3>1, <4>5 DEF Freeze, Event, Queues, TypeOK
      <4>6. CASE (\E c \in Carded : Override(c) \/ ClearOverride(c)) \/ Sweep \/ Tick
        BY <1>1, <3>1, <4>6 DEF Override, ClearOverride, Event, Sweep, Tick, TypeOK
      <4> QED  BY <1>5, <4>1, <4>2, <4>3, <4>4, <4>5, <4>6 DEF Outside
    <3>3. Unwritten(r) /\ r \in Rows
      BY <2>1, <2>3, <3>2 DEF Unwritten, Rows
    <3>4. InHand(r)
      BY <1>1, <3>3
    <3> QED  BY <3>2, <3>4 DEF InHand
  <2>4. clock <= clock'
    <3>1. clock' = clock \/ clock' = clock + 1
      BY <1>5 DEF Outside, Signal, Reviewed, Press, Override, ClearOverride, Freeze,
                  Sweep, Tick, Crash
    <3> QED  BY <1>1, <3>1 DEF TypeOK
  <2> QED  BY <1>3, <2>1, <2>2, <2>3, <2>4
<1> QED  BY <1>2, <1>4, <1>5 DEF Next

(* The invariant holds, whatever the path, the policy and the bounds.      *)
THEOREM DetoursCorrect == Spec => []DetoursInv
  BY InitInv, NextInv, PTL DEF Spec

(* Rows, overrides and calls have their types, and a call works on a row   *)
(* that exists.                                                            *)
THEOREM TypeCorrect == Spec => []TypeOK
<1>1. DetoursInv => TypeOK
  BY DEF DetoursInv
<1> QED  BY <1>1, DetoursCorrect, PTL

(* A version has one open detour per module and concept, a week no more    *)
(* than the policy allows, a concept fewer than would ask for its lesson to*)
(* be revised (limits.ts:42-77).                                           *)
THEOREM LimitsCorrect == Spec => []LimitsHold
<1>1. DetoursInv => LimitsHold
  BY DEF DetoursInv
<1> QED  BY <1>1, DetoursCorrect, PTL

(* Ids are not reused, a confident error has at most one row in a version, *)
(* and an open detour without its lesson is being written, unless a crash  *)
(* took the call (ids.ts:6-8, service.ts:401-410).                         *)
THEOREM OnRecordCorrect == Spec => []OnRecordOnce
<1>1. DetoursInv => OnRecordOnce
  BY DEF DetoursInv
<1> QED  BY <1>1, DetoursCorrect, PTL

(* A detour that is over stays as it ended, and a version whose detours    *)
(* were retired gets no other.                                             *)
THEOREM ClosedCorrect == Spec => StayClosed
<1>1. ASSUME DetoursInv, DetoursInv', [Next]_vars
      PROVE  [\A r \in DOMAIN rows' :
                /\ r \in Rows /\ rows[r].status # "active"
                     => rows'[r].status = rows[r].status
                /\ rows'[r].status = "active" => rows'[r].version \notin retired']_vars
  <2>1. Kept
    <3>1. TypeOK /\ Queued
      BY <1>1 DEF DetoursInv
    <3>2. CASE Next
      <4>1. CASE Serve
        BY <3>1, <4>1, OperationRows DEF Serve
      <4>2. CASE Outside
        BY <4>2, OutsideRows, RowsSame
      <4> QED  BY <3>2, <4>1, <4>2 DEF Next
    <3>3. CASE UNCHANGED vars
      BY <3>3, RowsSame DEF vars
    <3> QED  BY <1>1, <3>2, <3>3
  <2>2. \A r \in DOMAIN rows' : rows'[r].status = "active" => rows'[r].version \notin retired'
    BY <1>1 DEF DetoursInv, Superseded, Rows
  <2> QED  BY <2>1, <2>2 DEF Kept, KeepsRow
<1> QED  BY <1>1, DetoursCorrect, PTL DEF Spec, StayClosed

(* An override that is on is only lifted by the detour that set it, after  *)
(* its clean reviews.                                                      *)
THEOREM OverridesCorrect == Spec => OverridesRespected
<1> DEFINE Lifted(c) ==
      /\ cards[c].by = "detour"
      /\ cards'[c] = NoOverride
      /\ rows'[cards[c].row].cleared /\ rows'[cards[c].row].clean >= CleanReviews
<1>1. ASSUME DetoursInv, [Next]_vars,
             NEW c \in Carded, cards[c].by # "nobody", ~Expired(cards[c]),
             cards'[c] # cards[c], used' = used
      PROVE  Lifted(c)
  <2>1. /\ TypeOK /\ Past /\ Rows = 1 .. Len(rows) /\ rows \in [Rows -> Row]
        /\ clock \in Nat /\ used.events \in Nat
        /\ cards \in [Carded -> [by : {"nobody", "learner", "detour"}, row : Nat, until : Nat]]
    BY <1>1, RowsTyped DEF DetoursInv, TypeOK
  <2>2. ~Event
    BY <1>1, <2>1 DEF Event, TypeOK
  <2>3. \/ \E o \in calls : Write(o) \/ Review(o)
        \/ Sweep
    <3>1. cards' # cards
      BY <1>1
    <3>2. ~UNCHANGED vars /\ ~Tick /\ ~Crash
      BY <3>1 DEF vars, Tick, Crash
    <3>3. Serve => \E o \in calls : Write(o) \/ Review(o)
      BY <3>1 DEF Serve, Operation, Ignore, Refuse, Insert, WriteFails, Close, CloseThrows,
                  Retire
    <3>4. Outside => Sweep
      BY <2>2, <3>2 DEF Outside, Signal, Reviewed, Press, Override, ClearOverride, Freeze
    <3> QED  BY <1>1, <3>2, <3>3, <3>4 DEF Next
  <2>4. ASSUME NEW o \in calls, Write(o) PROVE FALSE
    <3> DEFINE row == rows[o.row]
               raise == row.concept \in Carded /\ ~Overridden(cards[row.concept], row.made)
    <3>1. /\ Writing(o)
          /\ cards' = IF raise
                      THEN [cards EXCEPT ![row.concept] =
                              [by |-> "detour", row |-> o.row, until |-> row.made + BoostTime]]
                      ELSE cards
      BY <2>4 DEF Write
    <3>2. raise /\ c = row.concept
      <4> HIDE DEF raise, row
      <4> QED  BY <1>1, <2>1, <3>1
    <3>3. o.row \in Rows
      BY <2>1, <3>1 DEF Writing, TypeOK
    <3>4. row \in Row /\ row.made <= clock
      BY <2>1, <3>3 DEF Past
    <3>5. row.made \in Nat
      BY <3>4 DEF Row
    <3>6. cards[c].until = 0 \/ cards[c].until > clock
      <4>1. cards[c].until \in Nat
        BY <2>1
      <4> QED  BY <1>1, <2>1, <4>1 DEF Expired
    <3>7. cards[c].until \in Nat
      BY <2>1
    <3>8. Overridden(cards[c], row.made)
      <4> HIDE DEF row
      <4> QED  BY <1>1, <2>1, <3>4, <3>5, <3>6, <3>7 DEF Overridden
    <3> QED  BY <3>2, <3>8
  <2>5. ASSUME NEW o \in calls, Review(o) PROVE Lifted(c)
    <3> DEFINE d == CHOOSE d \in Carded : o.left = {d}
               released == {r \in Boosting(d) : Count(r, o.good) >= CleanReviews}
    <3>1. /\ rows' = [r \in Rows |->
                        IF r \in Boosting(d)
                        THEN [rows[r] EXCEPT !.clean = Count(r, o.good),
                                             !.cleared = r \in released]
                        ELSE rows[r]]
          /\ cards' = IF \E r \in released : OurOverride(cards[d], r)
                      THEN [cards EXCEPT ![d] = NoOverride] ELSE cards
      BY <2>5 DEF Review
    <3>2. /\ c = d /\ cards'[c] = NoOverride
          /\ \E r \in released : OurOverride(cards[d], r)
      <4> HIDE DEF d, released
      <4> QED  BY <1>1, <2>1, <3>1
    <3> HIDE DEF d
    <3>3. PICK r \in released : cards[c].by = "detour" /\ cards[c].row = r
      BY <3>2 DEF OurOverride
    <3>4. r \in Boosting(d) /\ r \in Rows /\ Count(r, o.good) >= CleanReviews
      BY <3>3 DEF Boosting, OfConcept
    <3>5. rows[r] \in Row
      BY <2>1, <3>4
    <3>6. rows'[r] = [rows[r] EXCEPT !.clean = Count(r, o.good), !.cleared = r \in released]
      <4> HIDE DEF released
      <4> QED  BY <3>1, <3>4
    <3>7. rows'[r].clean = Count(r, o.good) /\ rows'[r].cleared = (r \in released)
      <4> HIDE DEF released
      <4> QED  BY <3>5, <3>6 DEF Row
    <3> QED  BY <3>2, <3>3, <3>4, <3>7
  <2>6. CASE Sweep
    BY <1>1, <2>1, <2>6 DEF Sweep
  <2> QED  BY <2>3, <2>4, <2>5, <2>6
<1>2. ASSUME DetoursInv, [Next]_vars
      PROVE  [\A c \in Carded :
                /\ cards[c].by # "nobody" /\ ~Expired(cards[c]) /\ cards'[c] # cards[c]
                /\ used' = used
                => Lifted(c)]_vars
  BY <1>1, <1>2
<1> QED  BY <1>2, DetoursCorrect, PTL DEF Spec, OverridesRespected
=============================================================================
