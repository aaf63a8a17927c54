------------------------- MODULE GenerationRunLife -------------------------
(***************************************************************************)
(* Proof that GenerationRun implements RunLife: every step of the detailed *)
(* run is a step of its life, or none, for any number of runs, chunks and  *)
(* modules, any cap, any pool widths and any bound.                        *)
(***************************************************************************)
EXTENDS GenerationRunProofs

(* A pool that stopped for the user was asked to.                          *)
Heard(r) == mem[r].stop = "cancelled" => mem[r].aborted

LifeInv == RunInv /\ \A r \in Runs : Heard(r)

Going == {"going", "stopping"}

(* The ways of a life.                                                     *)
Passes(a, b) ==
    \/ a = b
    \/ a \in {"new", "paused"} /\ b = "going"
    \/ a = "going" /\ b \in {"stopping", "completed", "failed"}
    \/ a \in Going /\ b = "paused"
    \/ a \in {"stopping", "paused"} /\ b = "cancelled"

MovesOn(r) == Heard(r)' /\ Passes(LifeOf(r), LifeOf(r)')
-----------------------------------------------------------------------------
(* What a run is depends on its status, on whether it is active and on the *)
(* signal.                                                                 *)
LEMMA SameLife ==
    ASSUME NEW r \in Runs, rows'[r].status = rows[r].status,
           Active(r)' <=> Active(r), mem'[r].aborted = mem[r].aborted
    PROVE  LifeOf(r)' = LifeOf(r)
  BY DEF LifeOf

(* A write to the attempt that keeps its stage at work and its signal.     *)
LEMMA WorkMovesOn ==
    ASSUME NEW r \in Runs, rows'[r].status = rows[r].status, Heard(r),
           mem[r].stage \notin {"idle", "orphaned"},
           mem'[r].stage \notin {"idle", "orphaned"},
           mem'[r].aborted = mem[r].aborted,
           mem'[r].stop # "cancelled" \/ mem'[r].stop = mem[r].stop \/ mem[r].aborted
    PROVE  MovesOn(r)
  <1>1. Active(r) /\ Active(r)'
    BY DEF Active
  <1> QED
    BY <1>1, SameLife DEF MovesOn, Passes, Heard

(* A run out of the active map, or with a row that ended, stays what it is.*)
LEMMA RestMovesOn ==
    ASSUME NEW r \in Runs, rows'[r].status = rows[r].status,
           rows[r].status \in Terminal, Heard(r)'
    PROVE  MovesOn(r)
  BY DEF MovesOn, Passes, LifeOf

(* finish, called by an attempt at work.                                   *)
LEMMA FinishMovesOn ==
    ASSUME TypeOK, NEW r \in Runs, NEW m \in Attempt,
           NEW status \in {"blocked_budget", "cancelled", "failed"},
           Finish(r, status, m), StageMatchesRow(r), Heard(r),
           mem[r].stage \notin {"idle", "closing", "orphaned"},
           m.aborted = mem[r].aborted, m.stop = mem[r].stop,
           status = "cancelled" => mem[r].aborted,
           status = "failed" => ~mem[r].aborted
    PROVE  MovesOn(r)
  <1>1. rows'[r].status = status
    BY FinishType
  <1>2. rows[r].status \notin Terminal /\ Active(r)
    BY DEF StageMatchesRow, Active
  <1>3. CASE status = "blocked_budget"
    <2>1. mem'[r] = NoAttempt
      BY <1>3 DEF Finish, TypeOK, Terminal
    <2>2. ~Active(r)' /\ Heard(r)'
      BY <2>1 DEF Active, Heard, NoAttempt
    <2>3. LifeOf(r)' = "paused"
      BY <1>1, <1>3, <2>2 DEF LifeOf, Terminal
    <2>4. LifeOf(r) \in Going
      BY <1>2 DEF LifeOf, Going
    <2> QED
      BY <2>2, <2>3, <2>4 DEF MovesOn, Passes
  <1>4. CASE status \in {"cancelled", "failed"}
    <2>1. mem'[r] = [m EXCEPT !.stage = "closing"]
      BY <1>4 DEF Finish, TypeOK, Terminal
    <2>2. Heard(r)'
      BY <2>1 DEF Heard, Attempt
    <2>3. LifeOf(r)' = status
      BY <1>1, <1>4 DEF LifeOf, Terminal
    <2>4. mem[r].aborted \in BOOLEAN
      BY DEF TypeOK, Attempt
    <2>5. LifeOf(r) = IF mem[r].aborted THEN "stopping" ELSE "going"
      BY <1>2, <2>4 DEF LifeOf
    <2> QED
      BY <1>4, <2>2, <2>3, <2>5 DEF MovesOn, Passes
  <1> QED
    BY <1>3, <1>4

(* The dispatch of the chunks keeps the signal, and stops for nobody.      *)
LEMMA DispatchedHeard ==
    ASSUME NEW m \in Attempt, NEW waiting \in BOOLEAN
    PROVE  /\ Dispatched(m, waiting).aborted = m.aborted
           /\ Dispatched(m, waiting).stop \in {m.stop, "budget"}
  <1>1. m.aborted \in BOOLEAN
    BY DEF Attempt
  <1>2. CASE m.aborted \/ Chunks \ results = {}
    BY <1>2 DEF Dispatched, Attempt
  <1>3. CASE ~m.aborted /\ Chunks \ results # {} /\ waiting
    BY <1>3 DEF Dispatched, Attempt
  <1>4. CASE ~m.aborted /\ Chunks \ results # {} /\ ~waiting
    <2>1. \/ Dispatched(m, waiting)
                = [m EXCEPT !.stage = "extracting", !.stop = "budget"]
          \/ Dispatched(m, waiting)
                = [m EXCEPT !.stage = "submitting", !.todo = Chunks \ results]
      BY <1>4 DEF Dispatched
    <2> QED
      BY <2>1 DEF Attempt
  <1> QED
    BY <1>1, <1>2, <1>3, <1>4
-----------------------------------------------------------------------------
(* start and resume set a run going, cancel asks it to stop or closes it.  *)
LEMMA UserMovesOn ==
    ASSUME LifeInv, NEW r \in Runs, UserStep(r)
    PROVE  MovesOn(r)
  <1>i. TypeOK /\ StageMatchesRow(r) /\ Heard(r)
    BY DEF LifeInv, RunInv, TypeInv
  <1>m. mem[r] \in Attempt /\ rows[r] \in Row
    BY <1>i DEF TypeOK
  <1>q. ~InTurn(r)
    BY OthersWait DEF Quiet
  <1>1. ASSUME NEW o \in StartOptions, Start(r, o.kept, o.waiting, o.over)
        PROVE  MovesOn(r)
    <2>1. rows[r].status = "none" /\ mem[r].stage = "idle"
      BY <1>1, <1>i DEF Start, StageMatchesRow
    <2>2. rows'[r].status = rows[r].status
      BY <1>1, <1>i, <1>m DEF Start, TypeOK, Row
    <2>3. mem'[r] = [NoAttempt EXCEPT !.stage = "opening", !.over = o.over]
      BY <1>1, <1>i DEF Start, TypeOK
    <2>4. mem'[r].stage = "opening" /\ mem'[r].aborted = FALSE /\ mem'[r].stop = "no"
      BY <2>3 DEF NoAttempt
    <2>5. LifeOf(r) = "new" /\ LifeOf(r)' = "going"
      BY <2>1, <2>2, <2>4 DEF LifeOf, Active, Terminal
    <2> QED
      BY <2>4, <2>5 DEF MovesOn, Passes, Heard
  <1>2. ASSUME NEW over \in BOOLEAN, Resume(r, over)
        PROVE  MovesOn(r)
    <2> DEFINE m == [NoAttempt EXCEPT !.over = over, !.usage = rows[r].cost,
                                      !.spent = rows[r].cost]
    <2>1. /\ rows[r].status \notin Terminal \cup {"none"} /\ ~Active(r)
          /\ rows'[r].status = "extracting"
      BY <1>2, <1>i, <1>m DEF Resume, Resumable, TypeOK, Row
    <2>2. m \in Attempt /\ m.aborted = FALSE /\ m.stop = "no"
      BY <1>m DEF NoAttempt, Attempt, Row
    <2>3. rows[r].waiting \in BOOLEAN
      BY <1>m DEF Row
    <2>4. \/ mem'[r] = [m EXCEPT !.stage = "awaiting"]
          \/ mem'[r] = Dispatched(m, rows[r].waiting)
      BY <1>2, <1>i DEF Resume, TypeOK
    <2> HIDE DEF m
    <2>5. /\ [m EXCEPT !.stage = "awaiting"].stage = "awaiting"
          /\ [m EXCEPT !.stage = "awaiting"].aborted = m.aborted
          /\ [m EXCEPT !.stage = "awaiting"].stop = m.stop
      BY <2>2 DEF Attempt
    <2>6. /\ mem'[r].stage \in {"awaiting", "extracting", "submitting"}
          /\ mem'[r].aborted = FALSE
          /\ mem'[r].stop # "cancelled"
      <3>1. CASE mem'[r] = [m EXCEPT !.stage = "awaiting"]
        BY <2>2, <2>5, <3>1
      <3>2. CASE mem'[r] = Dispatched(m, rows[r].waiting)
        <4>1. mem'[r].stage \in {"extracting", "submitting"}
          BY <2>2, <2>3, <3>2, DispatchedType
        <4>2. mem'[r].aborted = m.aborted /\ mem'[r].stop \in {m.stop, "budget"}
          BY <2>2, <2>3, <3>2, DispatchedHeard
        <4> QED
          BY <2>2, <4>1, <4>2
      <3> QED
        BY <2>4, <3>1, <3>2
    <2>7. LifeOf(r) = "paused" /\ LifeOf(r)' = "going"
      BY <2>1, <2>6 DEF LifeOf, Active, Terminal
    <2> QED
      BY <2>6, <2>7 DEF MovesOn, Passes, Heard
  <1>3. ASSUME CancelActive(r)
        PROVE  MovesOn(r)
    <2>1. /\ mem'[r].stage = mem[r].stage /\ mem'[r].aborted = TRUE
          /\ UNCHANGED rows
      BY <1>3, <1>i, <1>m DEF CancelActive, TypeOK, Attempt
    <2>2. mem[r].stage \notin {"idle", "orphaned", "closing"}
      BY <1>3, <1>q DEF CancelActive, Active, InTurn
    <2>3. rows[r].status \notin Terminal /\ Active(r) /\ Active(r)'
      BY <1>i, <2>1, <2>2 DEF StageMatchesRow, Active
    <2>4. LifeOf(r) \in Going /\ LifeOf(r)' = "stopping"
      BY <2>1, <2>3 DEF LifeOf, Going
    <2> QED
      BY <2>1, <2>4 DEF MovesOn, Passes, Heard, Going
  <1>4. ASSUME CancelPaused(r)
        PROVE  MovesOn(r)
    <2>1. /\ rows[r].status \notin Terminal \cup {"none"} /\ ~Active(r)
          /\ rows'[r].status = "cancelled"
      BY <1>4, <1>i, <1>m DEF CancelPaused, Resumable, TypeOK, Row
    <2>2. mem'[r].aborted = mem[r].aborted /\ mem'[r].stop = mem[r].stop
      BY <1>4, <1>i, <1>m DEF CancelPaused, TypeOK, Attempt
    <2>3. LifeOf(r) = "paused" /\ LifeOf(r)' = "cancelled"
      BY <2>1 DEF LifeOf, Terminal
    <2> QED
      BY <1>i, <2>2, <2>3 DEF MovesOn, Passes, Heard
  <1> QED
    BY <1>1, <1>2, <1>3, <1>4 DEF UserStep

(* The turns: what ends a run heard the signal, or did not have to.        *)
LEMMA TurnMovesOn ==
    ASSUME LifeInv, NEW r \in Runs, TurnStep(r)
    PROVE  MovesOn(r)
  <1>i. TypeOK /\ StageMatchesRow(r) /\ Heard(r)
    BY DEF LifeInv, RunInv, TypeInv
  <1>m. mem[r] \in Attempt /\ rows[r] \in Row
    BY <1>i DEF TypeOK
  <1> DEFINE m == [mem[r] EXCEPT !.usage = mem[r].spent]
  <1>n. m \in Attempt /\ m.aborted = mem[r].aborted /\ m.stop = mem[r].stop
    BY <1>m DEF Attempt
  <1>1. ASSUME Enter(r)
        PROVE  MovesOn(r)
    <2> DEFINE row == [rows[r] EXCEPT !.kept = paths[r] = "kept"]
    <2>1. mem[r].stage = "opening" /\ rows[r].status \notin Terminal /\ Active(r)
      BY <1>1, <1>i DEF Enter, StageMatchesRow, Active
    <2>2. row \in Row /\ row.waiting \in BOOLEAN
      BY <1>m DEF Row
    <2>3. CASE /\ rows' = [rows EXCEPT ![r] = [row EXCEPT !.status = "extracting"]]
               /\ mem' = [mem EXCEPT ![r] = Dispatched(@, row.waiting)]
      <3>1. rows'[r] = [row EXCEPT !.status = "extracting"]
        BY <1>i, <2>3 DEF TypeOK
      <3>2. mem'[r] = Dispatched(mem[r], row.waiting)
        BY <1>i, <2>3 DEF TypeOK
      <3> HIDE DEF row
      <3>3. rows'[r].status = "extracting"
        BY <2>2, <3>1 DEF Row
      <3>4. /\ mem'[r].stage \in {"extracting", "submitting"}
            /\ mem'[r].aborted = mem[r].aborted
            /\ mem'[r].stop \in {mem[r].stop, "budget"}
        BY <1>m, <2>2, <3>2, DispatchedType, DispatchedHeard
      <3>5. LifeOf(r)' = LifeOf(r)
        BY <2>1, <3>3, <3>4 DEF LifeOf, Active, Terminal
      <3> QED
        BY <1>i, <3>4, <3>5 DEF MovesOn, Passes, Heard
    <2>4. CASE /\ rows' = [rows EXCEPT ![r] = [row EXCEPT !.status = "blocked_budget"]]
               /\ mem' = [mem EXCEPT ![r] = NoAttempt]
      <3>1. rows'[r] = [row EXCEPT !.status = "blocked_budget"]
        BY <1>i, <2>4 DEF TypeOK
      <3>2. mem'[r] = NoAttempt
        BY <1>i, <2>4 DEF TypeOK
      <3> HIDE DEF row
      <3>3. rows'[r].status = "blocked_budget"
        BY <2>2, <3>1 DEF Row
      <3>4. ~Active(r)' /\ Heard(r)'
        BY <3>2 DEF Active, Heard, NoAttempt
      <3>5. LifeOf(r) \in Going /\ LifeOf(r)' = "paused"
        BY <2>1, <3>3, <3>4 DEF LifeOf, Terminal, Going
      <3> QED
        BY <3>4, <3>5 DEF MovesOn, Passes
    <2> QED
      BY <1>1, <2>3, <2>4 DEF Enter
  <1>2. ASSUME Book(r)
        PROVE  MovesOn(r)
    <2>1. /\ mem[r].stage = "booking" /\ mem'[r].stage = "waiting"
          /\ mem'[r].aborted = mem[r].aborted /\ mem'[r].stop = mem[r].stop
          /\ rows'[r].status = rows[r].status
      BY <1>2, <1>i, <1>m DEF Book, TypeOK, Attempt, Row
    <2> QED
      BY <1>i, <2>1, WorkMovesOn
  <1>3. ASSUME Release(r)
        PROVE  MovesOn(r)
    <2>1. rows[r].status \in Terminal /\ UNCHANGED rows
      BY <1>3, <1>i DEF Release, StageMatchesRow
    <2>2. \/ mem'[r] = NoAttempt
          \/ mem'[r] = [mem[r] EXCEPT !.stage = "orphaned"]
      BY <1>3, <1>i DEF Release, TypeOK
    <2>3. Heard(r)'
      BY <1>i, <1>m, <2>2 DEF Heard, NoAttempt, Attempt
    <2> QED
      BY <2>1, <2>3, RestMovesOn
  <1>4. ASSUME Take(r)
        PROVE  MovesOn(r)
    <2>1. mem[r].stage \in Pools /\ UNCHANGED rows
      BY <1>4 DEF Take, CanTake
    <2>2. PICK u \in NextUnits(r) :
             \/ mem[r].aborted /\ mem' = [mem EXCEPT ![r].stop = "cancelled"]
             \/ mem' = [mem EXCEPT ![r].stop = "budget"]
             \/ mem' = [mem EXCEPT ![r] = Replayed(@, u)]
             \/ mem' = [mem EXCEPT ![r].todo = @ \ {u},
                                  ![r].flying = @ \cup {u}]
      BY <1>4 DEF Take
    <2>3. /\ Replayed(mem[r], u).stage = mem[r].stage
          /\ Replayed(mem[r], u).aborted = mem[r].aborted
          /\ Replayed(mem[r], u).stop = mem[r].stop
      BY <1>m DEF Attempt, Replayed
    <2>4. /\ mem'[r].stage = mem[r].stage
          /\ mem'[r].aborted = mem[r].aborted
          /\ \/ mem'[r].stop \in {mem[r].stop, "budget"}
             \/ mem[r].aborted
      BY <1>i, <1>m, <2>2, <2>3 DEF TypeOK, Attempt
    <2>5. Active(r)' <=> Active(r)
      BY <2>4 DEF Active
    <2> QED
      BY <1>i, <2>1, <2>4, <2>5, SameLife DEF MovesOn, Passes, Heard
  <1>5. ASSUME ExtractionEnds(r)
        PROVE  MovesOn(r)
    <2>1. mem[r].stage = "extracting"
      BY <1>5 DEF ExtractionEnds
    <2>2. ASSUME NEW status \in {"blocked_budget", "cancelled", "failed"},
                 Finish(r, status, m),
                 status = "cancelled" => m.aborted \/ m.stop = "cancelled",
                 status = "failed" => ~m.aborted
          PROVE  MovesOn(r)
      BY <1>i, <1>n, <2>1, <2>2, FinishMovesOn DEF Heard
    <2>3. CASE /\ rows' = [rows EXCEPT ![r].status = "consolidating",
                                       ![r].cost = m.usage]
               /\ mem' = [mem EXCEPT ![r] = [m EXCEPT !.stage = "consolidating"]]
      <3>1. /\ rows'[r].status = "consolidating"
            /\ mem'[r].stage = "consolidating"
            /\ mem'[r].aborted = mem[r].aborted /\ mem'[r].stop = mem[r].stop
        BY <1>i, <1>m, <1>n, <2>3 DEF TypeOK, Row, Attempt
      <3>2. rows[r].status \notin Terminal /\ Active(r) /\ Active(r)'
        BY <1>i, <2>1, <3>1 DEF StageMatchesRow, Active
      <3>3. LifeOf(r)' = LifeOf(r)
        BY <3>1, <3>2 DEF LifeOf, Terminal
      <3> QED
        BY <1>i, <3>1, <3>3 DEF MovesOn, Passes, Heard
    <2> QED
      BY <1>5, <2>2, <2>3 DEF ExtractionEnds
  <1>6. ASSUME OutlineEnds(r)
        PROVE  MovesOn(r)
    <2>1. mem[r].stage = "outline"
      BY <1>6 DEF OutlineEnds
    <2>2. ASSUME NEW status \in {"blocked_budget", "cancelled"}, Finish(r, status, m),
                 status = "cancelled" => m.stop = "cancelled"
          PROVE  MovesOn(r)
      BY <1>i, <1>n, <2>1, <2>2, FinishMovesOn DEF Heard
    <2>3. CASE /\ mem' = [mem EXCEPT ![r].stage = "first",
                                    ![r].todo = {<<"module", 1>>}]
               /\ UNCHANGED rows
      <3>1. /\ mem'[r].stage = "first"
            /\ mem'[r].aborted = mem[r].aborted /\ mem'[r].stop = mem[r].stop
        BY <1>i, <1>m, <2>3 DEF TypeOK, Attempt
      <3> QED
        BY <1>i, <2>1, <2>3, <3>1, WorkMovesOn
    <2> QED
      BY <1>6, <2>2, <2>3 DEF OutlineEnds
  <1>7. ASSUME FirstEnds(r)
        PROVE  MovesOn(r)
    <2>1. /\ mem[r].stage = "first" /\ mem'[r].stage = "modules"
          /\ mem'[r].aborted = mem[r].aborted /\ mem'[r].stop = mem[r].stop
          /\ UNCHANGED rows
      BY <1>7, <1>i, <1>m DEF FirstEnds, TypeOK, Attempt
    <2> QED
      BY <1>i, <2>1, WorkMovesOn
  <1>8. ASSUME SynthesisEnds(r)
        PROVE  MovesOn(r)
    <2>1. mem[r].stage = "modules"
      BY <1>8 DEF SynthesisEnds
    <2>2. ASSUME NEW status \in {"blocked_budget", "cancelled"}, Finish(r, status, m),
                 status = "cancelled" => Noticed(m)
          PROVE  MovesOn(r)
      BY <1>i, <1>n, <2>1, <2>2, FinishMovesOn DEF Heard, Noticed
    <2>3. CASE /\ m.stop = "no" /\ ~Noticed(m)
               /\ rows' = [rows EXCEPT ![r].status = "completed", ![r].cost = m.usage]
               /\ mem' = [mem EXCEPT ![r] = NoAttempt]
      <3>1. rows'[r].status = "completed" /\ mem'[r] = NoAttempt
        BY <1>i, <1>m, <2>3 DEF TypeOK, Row
      <3>2. ~mem[r].aborted
        BY <1>n, <2>3 DEF Noticed
      <3>3. rows[r].status \notin Terminal /\ Active(r) /\ Heard(r)'
        BY <1>i, <2>1, <3>1 DEF StageMatchesRow, Active, Heard, NoAttempt
      <3>4. LifeOf(r) = "going" /\ LifeOf(r)' = "completed"
        BY <3>1, <3>2, <3>3 DEF LifeOf, Terminal
      <3> QED
        BY <3>3, <3>4 DEF MovesOn, Passes
    <2> QED
      BY <1>8, <2>2, <2>3 DEF SynthesisEnds
  <1>9. ASSUME OrphansEnd(r)
        PROVE  MovesOn(r)
    <2>1. mem[r].stage = "orphaned" /\ mem'[r] = NoAttempt /\ UNCHANGED rows
      BY <1>9, <1>i DEF OrphansEnd, TypeOK
    <2>2. ~Active(r) /\ ~Active(r)' /\ Heard(r)'
      BY <2>1 DEF Active, Heard, NoAttempt
    <2>3. LifeOf(r)' = LifeOf(r)
      BY <2>1, <2>2 DEF LifeOf
    <2> QED
      BY <2>2, <2>3 DEF MovesOn, Passes
  <1> QED
    BY <1>1, <1>2, <1>3, <1>4, <1>5, <1>6, <1>7, <1>8, <1>9 DEF TurnStep

(* Calls, batches and sleeps that come back.                               *)
LEMMA CallMovesOn ==
    ASSUME LifeInv, NEW r \in Runs, CallStep(r)
    PROVE  MovesOn(r)
  <1>i. TypeOK /\ StageMatchesRow(r) /\ Heard(r)
    BY DEF LifeInv, RunInv, TypeInv
  <1>m. mem[r] \in Attempt /\ rows[r] \in Row
    BY <1>i DEF TypeOK
  <1>q. ~InTurn(r)
    BY OthersWait DEF Quiet
  <1>1. ASSUME SubmitReturns(r)
        PROVE  MovesOn(r)
    <2>1. /\ mem[r].stage = "submitting" /\ mem'[r].stage = "booking"
          /\ mem'[r].aborted = mem[r].aborted /\ mem'[r].stop = mem[r].stop
          /\ UNCHANGED rows
      BY <1>1, <1>i, <1>m DEF SubmitReturns, TypeOK, Attempt
    <2> QED
      BY <1>i, <2>1, WorkMovesOn
  <1>2. ASSUME SubmitFails(r)
        PROVE  MovesOn(r)
    <2> DEFINE m == [mem[r] EXCEPT !.stage = "extracting"]
    <2>1. mem[r].stage = "submitting" /\ UNCHANGED rows
      BY <1>2 DEF SubmitFails
    <2>2. \/ m.aborted /\ mem'[r] = [m EXCEPT !.stop = "cancelled"]
          \/ mem'[r] = [m EXCEPT !.stop = "budget"]
          \/ mem'[r] = m
      BY <1>2, <1>i DEF SubmitFails, TypeOK
    <2>3. /\ mem'[r].stage = "extracting"
          /\ mem'[r].aborted = mem[r].aborted
          /\ mem'[r].stop \in {mem[r].stop, "budget"} \/ mem[r].aborted
      BY <1>m, <2>2 DEF Attempt
    <2> QED
      BY <1>i, <2>1, <2>3, WorkMovesOn
  <1>3. ASSUME AwaitedOver(r)
        PROVE  MovesOn(r)
    <2>1. /\ mem[r].stage = "awaiting" /\ UNCHANGED rows
          /\ mem'[r] = Dispatched(mem[r], rows[r].waiting)
      BY <1>3, <1>i DEF AwaitedOver, TypeOK
    <2>2. rows[r].waiting \in BOOLEAN
      BY <1>m DEF Row
    <2>3. /\ mem'[r].stage \in {"extracting", "submitting"}
          /\ mem'[r].aborted = mem[r].aborted
          /\ mem'[r].stop \in {mem[r].stop, "budget"}
      BY <1>m, <2>1, <2>2, DispatchedType, DispatchedHeard
    <2> QED
      BY <1>i, <2>1, <2>3, WorkMovesOn
  <1>4. ASSUME BatchReadBack(r)
        PROVE  MovesOn(r)
    <2>1. /\ mem[r].stage = "waiting" /\ UNCHANGED rows
          /\ mem'[r] = ReadBack(mem[r])
      BY <1>4, <1>i DEF BatchReadBack, TypeOK
    <2>2. /\ ReadBack(mem[r]).stage = "extracting"
          /\ ReadBack(mem[r]).aborted = mem[r].aborted
          /\ ReadBack(mem[r]).stop = mem[r].stop
      BY <1>m DEF ReadBack, Attempt
    <2> QED
      BY <1>i, <2>1, <2>2, WorkMovesOn
  <1>5. ASSUME DropBatch(r)
        PROVE  MovesOn(r)
    <2>1. /\ mem[r].stage \in {"awaiting", "waiting"} /\ mem'[r].stage = "dropping"
          /\ mem'[r].aborted = mem[r].aborted /\ mem'[r].stop = mem[r].stop
          /\ UNCHANGED rows
      BY <1>5, <1>i, <1>m DEF DropBatch, TypeOK, Attempt
    <2> QED
      BY <1>i, <2>1, WorkMovesOn
  <1>6. ASSUME BatchDropped(r)
        PROVE  MovesOn(r)
    <2>1. /\ mem[r].stage = "dropping" /\ mem'[r].stage = "extracting"
          /\ mem'[r].aborted = mem[r].aborted /\ mem'[r].stop = mem[r].stop
          /\ UNCHANGED rows
      BY <1>6, <1>i, <1>m DEF BatchDropped, TypeOK, Attempt
    <2> QED
      BY <1>i, <2>1, WorkMovesOn
  <1>7. ASSUME Consolidated(r)
        PROVE  MovesOn(r)
    <2>1. mem[r].stage = "consolidating"
      BY <1>7 DEF Consolidated
    <2>2. CASE mem[r].aborted /\ Finish(r, "cancelled", mem[r])
      BY <1>i, <1>m, <2>1, <2>2, FinishMovesOn
    <2>3. CASE /\ rows' = [rows EXCEPT ![r].status = "synthesizing"]
               /\ mem' = [mem EXCEPT ![r].stage = "outline", ![r].todo = {Outline}]
      <3>1. /\ rows'[r].status = "synthesizing" /\ mem'[r].stage = "outline"
            /\ mem'[r].aborted = mem[r].aborted /\ mem'[r].stop = mem[r].stop
        BY <1>i, <1>m, <2>3 DEF TypeOK, Row, Attempt
      <3>2. rows[r].status \notin Terminal /\ Active(r) /\ Active(r)'
        BY <1>i, <2>1, <3>1 DEF StageMatchesRow, Active
      <3>3. LifeOf(r)' = LifeOf(r)
        BY <3>1, <3>2 DEF LifeOf, Terminal
      <3> QED
        BY <1>i, <3>1, <3>3 DEF MovesOn, Passes, Heard
    <2> QED
      BY <1>7, <2>2, <2>3 DEF Consolidated
  <1>8. ASSUME NEW u \in Units, CallAnswered(r, u)
        PROVE  MovesOn(r)
    <2>1. /\ mem'[r].stage = mem[r].stage
          /\ mem'[r].aborted = mem[r].aborted /\ mem'[r].stop = mem[r].stop
          /\ UNCHANGED rows
      BY <1>8, <1>i, <1>m DEF CallAnswered, TypeOK, Attempt
    <2>2. Active(r)' <=> Active(r)
      BY <2>1 DEF Active
    <2> QED
      BY <1>i, <2>1, <2>2, SameLife DEF MovesOn, Passes, Heard
  <1>9. ASSUME NEW u \in Units, CallFails(r, u)
        PROVE  MovesOn(r)
    <2> DEFINE m == [mem[r] EXCEPT !.flying = @ \ {u}]
               thrown == [m EXCEPT !.threw = @ + 1]
               a == [m EXCEPT !.stop = "cancelled"]
               b == [m EXCEPT !.failed = @ \cup {u}]
    <2>1. thrown \in Attempt
      BY <1>m, AttemptWrites
    <2>2. /\ m.aborted = mem[r].aborted
          /\ thrown.aborted = mem[r].aborted /\ thrown.stop = mem[r].stop
      BY <1>m DEF Attempt
    <2>3. \A n \in {thrown, a, b} : n.stage = mem[r].stage /\ n.aborted = mem[r].aborted
      BY <1>m DEF Attempt
    <2>4. thrown.stop = mem[r].stop /\ b.stop = mem[r].stop
      BY <1>m DEF Attempt
    <2>5. \/ ~m.aborted /\ Active(r) /\ Finish(r, "failed", thrown)
          \/ /\ UNCHANGED rows
             /\ \/ m.aborted /\ mem' = [mem EXCEPT ![r] = a]
                \/ \E n \in {thrown, b} : mem' = [mem EXCEPT ![r] = n]
      BY <1>9 DEF CallFails
    <2>6. mem[r].stage # "closing"
      BY <1>q DEF InTurn
    <2> HIDE DEF m, thrown, a, b
    <2>7. CASE ~m.aborted /\ Active(r) /\ Finish(r, "failed", thrown)
      BY <1>i, <2>1, <2>2, <2>6, <2>7, FinishMovesOn DEF Active
    <2>8. CASE /\ UNCHANGED rows
               /\ \/ m.aborted /\ mem' = [mem EXCEPT ![r] = a]
                  \/ \E n \in {thrown, b} : mem' = [mem EXCEPT ![r] = n]
      <3>1. /\ mem'[r].stage = mem[r].stage /\ mem'[r].aborted = mem[r].aborted
            /\ mem'[r].stop = mem[r].stop \/ mem[r].aborted
        BY <1>i, <2>2, <2>3, <2>4, <2>8 DEF TypeOK
      <3>2. Active(r)' <=> Active(r)
        BY <3>1 DEF Active
      <3> QED
        BY <1>i, <2>8, <3>1, <3>2, SameLife DEF MovesOn, Passes, Heard
    <2> QED
      BY <2>5, <2>7, <2>8
  <1> QED
    BY <1>1, <1>2, <1>3, <1>4, <1>5, <1>6, <1>7, <1>8, <1>9 DEF CallStep

(* A batch upstream moves no run.                                          *)
LEMMA BatchMovesOn ==
    ASSUME LifeInv, NEW r \in Runs, BatchStep(r)
    PROVE  MovesOn(r)
  <1>1. UNCHANGED <<rows, mem>> /\ Heard(r)
    BY BatchTypes DEF LifeInv, RunInv
  <1>2. LifeOf(r)' = LifeOf(r)
    BY <1>1, SameLife DEF Active
  <1> QED
    BY <1>1, <1>2 DEF MovesOn, Passes, Heard
-----------------------------------------------------------------------------
(* The refinement.                                                         *)

(* A passage of one run, beside others that stay, is a step of RunLife.    *)
LEMMA PassageIsStep ==
    ASSUME NEW r \in Runs, Passes(LifeOf(r), LifeOf(r)'),
           \A q \in Runs \ {r} : LifeOf(q)' = LifeOf(q)
    PROVE  [Life!Next]_([q \in Runs |-> LifeOf(q)])
  <1> DEFINE life == [q \in Runs |-> LifeOf(q)]
  <1>1. life' = [life EXCEPT ![r] = LifeOf(r)']
    OBVIOUS
  <1>2. CASE LifeOf(r)' = LifeOf(r)
    BY <1>2
  <1>3. CASE LifeOf(r) \in {"new", "paused"} /\ LifeOf(r)' = "going"
    BY <1>1, <1>3 DEF Life!Next, Life!Go, Life!Moves
  <1>4. CASE LifeOf(r) = "going" /\ LifeOf(r)' \in {"stopping", "completed", "failed"}
    BY <1>1, <1>4
    DEF Life!Next, Life!AskToStop, Life!Complete, Life!Fail, Life!Moves
  <1>5. CASE LifeOf(r) \in Going /\ LifeOf(r)' = "paused"
    BY <1>1, <1>5 DEF Life!Next, Life!Pause, Life!Moves, Life!Going, Going
  <1>6. CASE LifeOf(r) \in {"stopping", "paused"} /\ LifeOf(r)' = "cancelled"
    BY <1>1, <1>6 DEF Life!Next, Life!Stop, Life!Close, Life!Moves
  <1> QED
    BY <1>2, <1>3, <1>4, <1>5, <1>6 DEF Passes

(* The initial states.                                                     *)
LEMMA InitLife == Init => LifeInv /\ Life!Init
  <1> SUFFICES ASSUME Init PROVE LifeInv /\ Life!Init
    OBVIOUS
  <1>1. \A r \in Runs : mem[r] = NoAttempt /\ rows[r].status = "none"
    BY DEF Init
  <1>2. \A r \in Runs : Heard(r) /\ LifeOf(r) = "new"
    BY <1>1 DEF Heard, LifeOf, Active, NoAttempt, Terminal
  <1> QED
    BY <1>2, InitRuns DEF LifeInv, Life!Init

(* The steps.                                                              *)
LEMMA NextLife ==
    LifeInv /\ [Next]_vars => LifeInv' /\ [Life!Next]_([r \in Runs |-> LifeOf(r)])
  <1> SUFFICES ASSUME LifeInv, [Next]_vars
               PROVE  LifeInv' /\ [Life!Next]_([r \in Runs |-> LifeOf(r)])
    OBVIOUS
  <1>t. RunInv /\ RunInv'
    BY NextRuns DEF LifeInv
  <1>1. ASSUME NEW r \in Runs,
               UserStep(r) \/ TurnStep(r) \/ CallStep(r) \/ BatchStep(r)
        PROVE  LifeInv' /\ [Life!Next]_([q \in Runs |-> LifeOf(q)])
    <2>1. MovesOn(r)
      BY <1>1, UserMovesOn, TurnMovesOn, CallMovesOn, BatchMovesOn
    <2>2. Local(r)
      BY <1>t, <1>1, RunStepTypes DEF RunInv
    <2>3. ASSUME NEW q \in Runs \ {r}
          PROVE  Heard(q)' /\ LifeOf(q)' = LifeOf(q)
      <3>1. mem'[q] = mem[q] /\ rows'[q] = rows[q] /\ Heard(q)
        BY <2>2, <2>3 DEF Local, LifeInv
      <3> QED
        BY <3>1, SameLife DEF Heard, Active
    <2>4. LifeInv'
      BY <1>t, <2>1, <2>3 DEF LifeInv, MovesOn
    <2> QED
      BY <2>1, <2>3, <2>4, PassageIsStep DEF MovesOn
  <1>2. ASSUME NEW heard \in BOOLEAN,
               NEW billed \in 0 .. MaxRefused, Crash(heard, billed)
        PROVE  LifeInv' /\ [Life!Next]_([q \in Runs |-> LifeOf(q)])
    <2>1. UNCHANGED rows /\ \A r \in Runs : mem'[r] = NoAttempt
      BY <1>2 DEF Crash
    <2>2. \A r \in Runs : Heard(r)' /\ ~Active(r)'
      BY <2>1 DEF Heard, Active, NoAttempt
    <2>3. \A r \in Runs : rows[r] \in Row
      BY <1>t DEF RunInv, TypeInv, TypeOK
    <2>4. ASSUME NEW r \in Runs
          PROVE  /\ LifeOf(r)' \in Life!Lives \ Life!Going
                 /\ IF LifeOf(r) \in Life!Going THEN LifeOf(r)' \in {"new", "paused"}
                    ELSE LifeOf(r)' = LifeOf(r)
      <3>1. CASE rows[r].status \in Terminal
        BY <2>1, <3>1 DEF LifeOf, Terminal, Life!Lives, Life!Going, Life!Ended
      <3>2. CASE rows[r].status \notin Terminal
        <4>1. LifeOf(r)' = IF rows[r].status = "none" THEN "new" ELSE "paused"
          BY <2>1, <2>2, <3>2 DEF LifeOf
        <4>2. ~Active(r) => LifeOf(r) = IF rows[r].status = "none" THEN "new" ELSE "paused"
          BY <3>2 DEF LifeOf
        <4>3. mem[r].aborted \in BOOLEAN
          BY <1>t DEF RunInv, TypeInv, TypeOK, Attempt
        <4>4. Active(r) => LifeOf(r) \in {"going", "stopping"}
          BY <3>2, <4>3 DEF LifeOf
        <4> QED
          BY <4>1, <4>2, <4>4 DEF Life!Lives, Life!Going, Life!Ended
      <3> QED
        BY <3>1, <3>2
    <2>5. Life!Crash
      BY <2>4 DEF Life!Crash
    <2> QED
      BY <1>t, <2>2, <2>5 DEF LifeInv, Life!Next
  <1>3. CASE UNCHANGED vars
    <2>1. UNCHANGED <<rows, mem>>
      BY <1>3 DEF vars
    <2>2. \A r \in Runs : (Active(r)' <=> Active(r)) /\ (Heard(r)' <=> Heard(r))
      BY <2>1 DEF Active, Heard
    <2>3. \A r \in Runs : LifeOf(r)' = LifeOf(r)
      BY <2>1, <2>2, SameLife
    <2> QED
      BY <1>t, <2>2, <2>3 DEF LifeInv
  <1> QED
    BY <1>1, <1>2, <1>3, StepKinds

(* Whatever a run does, as its handle sees it, is what RunLife allows: it  *)
(* ends once, is cancelled only if asked, and neither completes nor fails  *)
(* once it was asked (generation-run.ts: start, resume, cancel, finish).   *)
THEOREM LifeImplemented == Spec => KeepsPromise
  BY InitLife, NextLife, PTL DEF Spec, KeepsPromise, Life!Spec
=============================================================================
