------------------------ MODULE GenerationRunProofs ------------------------
(***************************************************************************)
(* Proofs about GenerationRun, for any number of runs, chunks and modules, *)
(* any cap, any pool widths and any bound.                                 *)
(***************************************************************************)
EXTENDS GenerationRun, TLAPS, FiniteSetTheorems, SequenceTheorems

(* On the way to a batch only chunks are asked for.                        *)
AsksChunks(r) ==
    mem[r].stage \in {"submitting", "booking", "waiting"}
        => mem[r].todo \subseteq Chunks

TypeInv == TypeOK /\ \A r \in Runs : AsksChunks(r)

(* What a step of a run does to the types, and to the other runs.          *)
Local(r) ==
    \A q \in Runs \ {r} :
        mem'[q] = mem[q] /\ rows'[q] = rows[q] /\ paths'[q] = paths[q]

KeepsTypes(r) == TypeOK' /\ AsksChunks(r)' /\ Local(r)

(* Two runs are never in the middle of a turn.                             *)
OneTurn == \A r, q \in Runs : InTurn(r) /\ InTurn(q) => r = q

(* Where the attempt of a run stands, and what its row and its path say.   *)
StageMatchesRow(r) ==
    /\ rows[r].status \in Terminal
           => mem[r].stage \in {"idle", "closing", "orphaned"}
    /\ mem[r].stage = "closing" => rows[r].status \in Terminal
    /\ rows[r].status # "none" \/ mem[r].stage # "idle" => paths[r] # "none"

PathMatchesStage(r) ==
    used.crashes = 0 =>
        /\ paths[r] = "generating" /\ rows[r].status \in Terminal
               => mem[r].stage = "closing"
        /\ paths[r] = "generating" /\ rows[r].status = "none"
               => mem[r].stage = "opening"
        /\ paths[r] = "draft" => rows[r].status \in Terminal

RunInv ==
    /\ TypeInv
    /\ OneTurn
    /\ \A r \in Runs : StageMatchesRow(r) /\ PathMatchesStage(r)

(* What a step of a run does to its stage, row and path.                   *)
KeepsRun(r) ==
    /\ StageMatchesRow(r)' /\ PathMatchesStage(r)'
    /\ used'.crashes = used.crashes
    /\ rows[r].status \in Terminal => rows'[r] = rows[r] /\ ~Active(r)'
-----------------------------------------------------------------------------
(* Type correctness.                                                       *)

(* A chunk, a module and the outline are units of work.                    *)
LEMMA UnitKinds ==
    /\ Chunks \subseteq Units
    /\ Modules \subseteq Units
    /\ Outline \in Units
  BY DEF Units

(* What does not validate is nobody's unit.                                *)
LEMMA InvalidApart ==
    /\ \A u \in Chunks : Invalid(u) \in Unusable
    /\ Unusable \cap Units = {}
  BY DEF Invalid, Unusable, Units, Chunks, Outline, Modules

(* There are finitely many chunks.                                         *)
LEMMA ChunksFinite == IsFiniteSet(Chunks)
  <1> DEFINE f == [n \in 1 .. NumChunks |-> <<"chunk", n>>]
  <1>1. f \in Surjection(1 .. NumChunks, Chunks)
    BY DEF Surjection, Chunks
  <1>2. ExistsSurjection(1 .. NumChunks, Chunks)
    BY <1>1 DEF ExistsSurjection
  <1> QED
    BY <1>2, MaterialAssumption, FS_NatSurjection

(* What a pool still has to extract can be counted.                        *)
LEMMA ChunksCounted ==
    ASSUME NEW S \in SUBSET Chunks
    PROVE  Cardinality(S) \in Nat
  BY ChunksFinite, FS_Subset, FS_CardinalityType

(* Every write to an attempt leaves an attempt.                            *)
LEMMA AttemptWrites ==
    ASSUME NEW m \in Attempt, NEW u \in Units
    PROVE  /\ [m EXCEPT !.usage = m.spent] \in Attempt
           /\ [m EXCEPT !.flying = @ \ {u}] \in Attempt
           /\ [m EXCEPT !.threw = @ + 1] \in Attempt
           /\ [m EXCEPT !.aborted = TRUE] \in Attempt
           /\ [m EXCEPT !.stop = "cancelled"] \in Attempt
           /\ [m EXCEPT !.stop = "budget"] \in Attempt
           /\ [m EXCEPT !.todo = @ \ {u}, !.flying = @ \cup {u}] \in Attempt
           /\ [m EXCEPT !.flying = @ \ {u}, !.spent = @ + 1,
                        !.called = IF u \in Chunks THEN @ \cup {u} ELSE @]
                \in Attempt
           /\ u \in Chunks => [m EXCEPT !.failed = @ \cup {u}] \in Attempt
           /\ Replayed(m, u) \in Attempt
  <1>1. /\ m.threw + 1 \in Nat
        /\ m.spent \in Nat
        /\ m.spent + 1 \in Nat
        /\ m.flying \ {u} \in SUBSET Units
        /\ m.todo \ {u} \in SUBSET Units
        /\ m.flying \cup {u} \in SUBSET Units
        /\ (IF u \in Chunks THEN m.called \cup {u} ELSE m.called) \in SUBSET Chunks
        /\ u \in Chunks => m.failed \cup {u} \in SUBSET Chunks
    BY DEF Attempt
  <1>2. /\ [m EXCEPT !.usage = m.spent] \in Attempt
        /\ [m EXCEPT !.flying = @ \ {u}] \in Attempt
        /\ [m EXCEPT !.threw = @ + 1] \in Attempt
    BY <1>1 DEF Attempt
  <1>3. /\ [m EXCEPT !.aborted = TRUE] \in Attempt
        /\ [m EXCEPT !.stop = "cancelled"] \in Attempt
        /\ [m EXCEPT !.stop = "budget"] \in Attempt
    BY DEF Attempt
  <1>4. [m EXCEPT !.todo = @ \ {u}, !.flying = @ \cup {u}] \in Attempt
    BY <1>1 DEF Attempt
  <1>5. [m EXCEPT !.flying = @ \ {u}, !.spent = @ + 1,
                  !.called = IF u \in Chunks THEN @ \cup {u} ELSE @] \in Attempt
    BY <1>1 DEF Attempt
  <1>6. u \in Chunks => [m EXCEPT !.failed = @ \cup {u}] \in Attempt
    BY <1>1 DEF Attempt
  <1>7. Replayed(m, u) \in Attempt
    BY <1>1 DEF Attempt, Replayed
  <1> QED
    BY <1>2, <1>3, <1>4, <1>5, <1>6, <1>7

(* The stages an attempt goes to by a plain write.                         *)
LEMMA StageWrites ==
    ASSUME NEW m \in Attempt,
           NEW s \in {"waiting", "dropping", "extracting", "consolidating",
                      "outline", "closing", "orphaned", "submitting", "booking",
                      "awaiting", "opening"}
    PROVE  [m EXCEPT !.stage = s] \in Attempt
  BY DEF Attempt

(* The record of a run without an attempt.                                 *)
LEMMA NoAttemptType == NoAttempt \in Attempt
  BY DEF NoAttempt, Attempt

(* What the dispatch of the chunks makes of an attempt.                    *)
LEMMA DispatchedType ==
    ASSUME NEW m \in Attempt, NEW waiting \in BOOLEAN
    PROVE  /\ Dispatched(m, waiting) \in Attempt
           /\ Dispatched(m, waiting).stage \in {"extracting", "submitting"}
           /\ Dispatched(m, waiting).stage = "submitting"
                => Dispatched(m, waiting).todo \subseteq Chunks
  <1> DEFINE pending == Chunks \ results
  <1> pending \subseteq Chunks /\ pending \subseteq Units
    BY UnitKinds
  <1> HIDE DEF pending
  <1>1. m.aborted \in BOOLEAN
    BY DEF Attempt
  <1>2. CASE m.aborted \/ pending = {}
    <2>1. Dispatched(m, waiting) = [m EXCEPT !.stage = "extracting"]
      BY <1>2 DEF Dispatched, pending
    <2> QED
      BY <2>1 DEF Attempt
  <1>3. CASE ~m.aborted /\ pending # {} /\ waiting
    <2>1. Dispatched(m, waiting)
            = [m EXCEPT !.stage = "extracting", !.todo = pending]
      BY <1>3 DEF Dispatched, pending
    <2> QED
      BY <2>1 DEF Attempt
  <1>4. CASE ~m.aborted /\ pending # {} /\ ~waiting
    <2>1. \/ Dispatched(m, waiting)
                = [m EXCEPT !.stage = "extracting", !.stop = "budget"]
          \/ Dispatched(m, waiting)
                = [m EXCEPT !.stage = "submitting", !.todo = pending]
      BY <1>4 DEF Dispatched, pending
    <2> QED
      BY <2>1 DEF Attempt
  <1> QED
    BY <1>1, <1>2, <1>3, <1>4

(* finish writes one row and one attempt.                                  *)
LEMMA FinishType ==
    ASSUME TypeOK, NEW r \in Runs, NEW m \in Attempt,
           NEW status \in {"blocked_budget", "cancelled", "failed"},
           Finish(r, status, m)
    PROVE  /\ rows' \in [Runs -> Row]
           /\ mem' \in [Runs -> Attempt]
           /\ \A q \in Runs \ {r} : mem'[q] = mem[q] /\ rows'[q] = rows[q]
           /\ rows'[r].status = status
           /\ status \in Terminal => mem'[r].stage = "closing"
           /\ status \notin Terminal => mem'[r].stage = "idle"
  <1>1. /\ [m EXCEPT !.stage = "closing"] \in Attempt
        /\ [m EXCEPT !.stage = "closing"].stage = "closing"
    BY DEF Attempt
  <1>2. m.usage \in Nat /\ NoAttempt.stage = "idle"
    BY DEF Attempt, NoAttempt
  <1>3. rows' \in [Runs -> Row] /\ rows'[r].status = status
    <2> DEFINE row == [rows[r] EXCEPT !.status = status, !.cost = m.usage]
    <2>1. rows[r] \in Row /\ rows \in [Runs -> Row]
      BY DEF TypeOK
    <2>2. row \in Row /\ row.status = status
      BY <1>2, <2>1 DEF Row, Terminal
    <2>3. rows' = [rows EXCEPT ![r] = row]
      BY <2>1 DEF Finish
    <2> HIDE DEF row
    <2> QED
      BY <2>1, <2>2, <2>3
  <1> QED
    BY <1>1, <1>2, <1>3, NoAttemptType DEF Finish, TypeOK

(* One write to the attempt of a run.                                      *)
LEMMA AttemptWrite ==
    ASSUME TypeOK, NEW r \in Runs, NEW m \in Attempt, mem' = [mem EXCEPT ![r] = m]
    PROVE  /\ mem' \in [Runs -> Attempt]
           /\ mem'[r] = m
           /\ \A q \in Runs \ {r} : mem'[q] = mem[q]
  BY DEF TypeOK

(* One write to the row of a run.                                          *)
LEMMA RowWrite ==
    ASSUME TypeOK, NEW r \in Runs, NEW row \in Row, rows' = [rows EXCEPT ![r] = row]
    PROVE  /\ rows' \in [Runs -> Row]
           /\ rows'[r] = row
           /\ \A q \in Runs \ {r} : rows'[q] = rows[q]
  BY DEF TypeOK

(* Counting one more event keeps the record of the bounds.                 *)
Bounds == [events: Nat, crashes: Nat, raised: SUBSET Runs]

(* What is counted of the bounds is typed.                                 *)
LEMMA CountType ==
    ASSUME TypeOK, NEW r \in Runs, NEW over \in BOOLEAN
    PROVE  /\ [used EXCEPT !.events = @ + 1] \in Bounds
           /\ [used EXCEPT !.raised = @ \cup {r}] \in Bounds
           /\ [used EXCEPT !.events = @ + 1,
                           !.raised = IF over THEN @ \cup {r} ELSE @] \in Bounds
           /\ [used EXCEPT !.events = @ + 1, !.crashes = @ + 1] \in Bounds
  <1>1. /\ used \in Bounds
        /\ used.events + 1 \in Nat
        /\ used.crashes + 1 \in Nat
        /\ used.raised \cup {r} \in SUBSET Runs
        /\ (IF over THEN used.raised \cup {r} ELSE used.raised) \in SUBSET Runs
    BY DEF TypeOK, Bounds
  <1> QED
    BY <1>1 DEF Bounds

(* start, resume and the two ways of cancel.                               *)
LEMMA UserTypes ==
    ASSUME TypeInv, NEW r \in Runs, UserStep(r)
    PROVE  KeepsTypes(r)
  <1> USE DEF TypeInv
  <1>m. mem[r] \in Attempt /\ rows[r] \in Row /\ rows[r].waiting \in BOOLEAN
    BY DEF TypeOK, Row
  <1>1. ASSUME NEW o \in StartOptions, Start(r, o.kept, o.waiting, o.over)
        PROVE  KeepsTypes(r)
    <2>1. o.kept \in BOOLEAN /\ o.waiting \in BOOLEAN /\ o.over \in BOOLEAN
      BY OptionsAssumption
    <2> DEFINE m == [NoAttempt EXCEPT !.stage = "opening", !.over = o.over]
    <2>2. m \in Attempt /\ m.stage = "opening"
      BY <2>1 DEF NoAttempt, Attempt
    <2>3. /\ mem' \in [Runs -> Attempt]
          /\ mem'[r] = m
          /\ \A q \in Runs \ {r} : mem'[q] = mem[q]
      BY <1>1, <2>2, AttemptWrite DEF Start
    <2>4. [rows[r] EXCEPT !.waiting = o.waiting] \in Row
      BY <1>m, <2>1 DEF Row
    <2>5. /\ rows' \in [Runs -> Row]
          /\ \A q \in Runs \ {r} : rows'[q] = rows[q]
      BY <1>1, <2>4, RowWrite DEF Start
    <2>6. /\ paths' \in [Runs -> {"none", "kept", "generating", "draft"}]
          /\ \A q \in Runs \ {r} : paths'[q] = paths[q]
      BY <1>1 DEF Start, TypeOK
    <2>7. used' \in Bounds
      BY <1>1, CountType DEF Start, TypeOK, Bounds
    <2> QED
      BY <1>1, <2>2, <2>3, <2>5, <2>6, <2>7
      DEF Start, TypeOK, KeepsTypes, Local, AsksChunks, Bounds
  <1>2. ASSUME NEW over \in BOOLEAN, Resume(r, over)
        PROVE  KeepsTypes(r)
    <2> DEFINE m == [NoAttempt EXCEPT !.over = over, !.usage = rows[r].cost,
                                      !.spent = rows[r].cost]
               n == IF Outstanding(r) # {} THEN [m EXCEPT !.stage = "awaiting"]
                                           ELSE Dispatched(m, rows[r].waiting)
    <2>1. rows[r].cost \in Nat
      BY <1>m DEF Row
    <2>2. m \in Attempt
      BY <2>1 DEF NoAttempt, Attempt
    <2> HIDE DEF m
    <2>3. /\ n \in Attempt
          /\ n.stage \in {"awaiting", "extracting", "submitting"}
          /\ n.stage = "submitting" => n.todo \subseteq Chunks
      <3>1. CASE Outstanding(r) # {}
        <4>1. [m EXCEPT !.stage = "awaiting"] \in Attempt
          BY <2>2, StageWrites
        <4>2. [m EXCEPT !.stage = "awaiting"].stage = "awaiting"
          BY <2>2 DEF Attempt
        <4> QED
          BY <3>1, <4>1, <4>2
      <3>2. CASE Outstanding(r) = {}
        BY <3>2, <2>2, <1>m, DispatchedType
      <3> QED
        BY <3>1, <3>2
    <2>4. mem' = [mem EXCEPT ![r] = n]
      BY <1>2 DEF Resume, m
    <2> HIDE DEF n
    <2>5. /\ mem' \in [Runs -> Attempt]
          /\ mem'[r] = n
          /\ \A q \in Runs \ {r} : mem'[q] = mem[q]
      BY <2>3, <2>4, AttemptWrite
    <2>6. /\ rows' \in [Runs -> Row]
          /\ \A q \in Runs \ {r} : rows'[q] = rows[q]
      <3>1. [rows[r] EXCEPT !.status = "extracting"] \in Row
        BY <1>m DEF Row, Generating
      <3> QED
        BY <1>2, <3>1, RowWrite DEF Resume
    <2>7. used' \in Bounds
      BY <1>2, CountType DEF Resume
    <2> QED
      BY <1>2, <2>3, <2>5, <2>6, <2>7
      DEF Resume, TypeOK, KeepsTypes, Local, AsksChunks, Bounds
  <1>3. ASSUME CancelActive(r)
        PROVE  KeepsTypes(r)
    <2> DEFINE m == [mem[r] EXCEPT !.aborted = TRUE]
    <2>1. m \in Attempt /\ m.stage = mem[r].stage /\ m.todo = mem[r].todo
      BY <1>m DEF Attempt
    <2>2. /\ mem' \in [Runs -> Attempt]
          /\ mem'[r] = m
          /\ \A q \in Runs \ {r} : mem'[q] = mem[q]
      BY <1>3, <2>1, AttemptWrite DEF CancelActive
    <2>3. used' \in Bounds
      BY <1>3, CountType DEF CancelActive
    <2> QED
      BY <1>3, <2>1, <2>2, <2>3
      DEF CancelActive, TypeOK, KeepsTypes, Local, AsksChunks, Bounds
  <1>4. ASSUME CancelPaused(r)
        PROVE  KeepsTypes(r)
    <2> DEFINE m == [mem[r] EXCEPT !.stage = "closing"]
    <2>1. m \in Attempt /\ m.stage = "closing"
      BY <1>m DEF Attempt
    <2>2. /\ mem' \in [Runs -> Attempt]
          /\ mem'[r] = m
          /\ \A q \in Runs \ {r} : mem'[q] = mem[q]
      BY <1>4, <2>1, AttemptWrite DEF CancelPaused
    <2>3. /\ rows' \in [Runs -> Row]
          /\ \A q \in Runs \ {r} : rows'[q] = rows[q]
      <3>1. [rows[r] EXCEPT !.status = "cancelled"] \in Row
        BY <1>m DEF Row, Terminal
      <3> QED
        BY <1>4, <3>1, RowWrite DEF CancelPaused
    <2>4. used' \in Bounds
      BY <1>4, CountType DEF CancelPaused
    <2> QED
      BY <1>4, <2>1, <2>2, <2>3, <2>4
      DEF CancelPaused, TypeOK, KeepsTypes, Local, AsksChunks, Bounds
  <1> QED
    BY <1>1, <1>2, <1>3, <1>4 DEF UserStep

(* What a run does in a turn: execute between calls, and the pools.        *)
LEMMA TurnTypes ==
    ASSUME TypeInv, NEW r \in Runs, TurnStep(r)
    PROVE  KeepsTypes(r)
  <1> USE DEF TypeInv
  <1>m. mem[r] \in Attempt /\ rows[r] \in Row /\ rows[r].waiting \in BOOLEAN
    BY DEF TypeOK, Row
  <1> DEFINE m == [mem[r] EXCEPT !.usage = mem[r].spent]
  <1>n. m \in Attempt /\ m.usage \in Nat
    BY <1>m DEF Attempt
  <1>1. ASSUME Enter(r)
        PROVE  KeepsTypes(r)
    <2> DEFINE row == [rows[r] EXCEPT !.kept = paths[r] = "kept"]
               d == Dispatched(mem[r], row.waiting)
    <2>1. row \in Row /\ row.waiting \in BOOLEAN
      BY <1>m DEF Row
    <2>2. /\ [row EXCEPT !.status = "extracting"] \in Row
          /\ [row EXCEPT !.status = "blocked_budget"] \in Row
      BY <2>1 DEF Row, Generating
    <2>3. /\ d \in Attempt
          /\ d.stage \in {"extracting", "submitting"}
          /\ d.stage = "submitting" => d.todo \subseteq Chunks
      BY <1>m, <2>1, DispatchedType
    <2>4. \/ /\ rows' = [rows EXCEPT ![r] = [row EXCEPT !.status = "extracting"]]
             /\ mem' = [mem EXCEPT ![r] = d]
          \/ /\ rows' = [rows EXCEPT ![r] = [row EXCEPT !.status = "blocked_budget"]]
             /\ mem' = [mem EXCEPT ![r] = NoAttempt]
      BY <1>1 DEF Enter
    <2>5. NoAttempt.stage = "idle"
      BY DEF NoAttempt
    <2> HIDE DEF row, d
    <2>6. /\ rows' \in [Runs -> Row]
          /\ \A q \in Runs \ {r} : rows'[q] = rows[q]
      BY <2>2, <2>4, RowWrite
    <2>7. /\ mem' \in [Runs -> Attempt]
          /\ mem'[r] = d \/ mem'[r] = NoAttempt
          /\ \A q \in Runs \ {r} : mem'[q] = mem[q]
      BY <2>3, <2>4, NoAttemptType, AttemptWrite
    <2> QED
      BY <1>1, <2>3, <2>5, <2>6, <2>7
      DEF Enter, TypeOK, KeepsTypes, Local, AsksChunks
  <1>2. ASSUME Book(r)
        PROVE  KeepsTypes(r)
    <2> DEFINE n == [mem[r] EXCEPT !.stage = "waiting"]
    <2>1. n \in Attempt /\ n.todo = mem[r].todo
      BY <1>m DEF Attempt
    <2>2. mem' = [mem EXCEPT ![r] = n]
      BY <1>2 DEF Book
    <2> HIDE DEF n
    <2>3. /\ mem' \in [Runs -> Attempt]
          /\ mem'[r] = n
          /\ \A q \in Runs \ {r} : mem'[q] = mem[q]
      BY <2>1, <2>2, AttemptWrite
    <2>4. /\ rows' \in [Runs -> Row]
          /\ \A q \in Runs \ {r} : rows'[q] = rows[q]
      <3>1. Len(batches[r]) \in Nat
        BY LenProperties DEF TypeOK
      <3>2. [rows[r] EXCEPT !.ids = @ \cup {Len(batches[r])}] \in Row
        BY <1>m, <3>1 DEF Row
      <3> QED
        BY <1>2, <3>2, RowWrite DEF Book
    <2>5. mem[r].todo \subseteq Chunks
      BY <1>2 DEF Book, AsksChunks
    <2> QED
      BY <1>2, <2>1, <2>3, <2>4, <2>5
      DEF Book, TypeOK, KeepsTypes, Local, AsksChunks
  <1>3. ASSUME Release(r)
        PROVE  KeepsTypes(r)
    <2> DEFINE n == [mem[r] EXCEPT !.stage = "orphaned"]
    <2>1. n \in Attempt /\ n.stage = "orphaned" /\ NoAttempt.stage = "idle"
      BY <1>m DEF Attempt, NoAttempt
    <2>2. mem' = [mem EXCEPT ![r] = n] \/ mem' = [mem EXCEPT ![r] = NoAttempt]
      BY <1>3 DEF Release
    <2> HIDE DEF n
    <2>3. /\ mem' \in [Runs -> Attempt]
          /\ mem'[r] = n \/ mem'[r] = NoAttempt
          /\ \A q \in Runs \ {r} : mem'[q] = mem[q]
      BY <2>1, <2>2, NoAttemptType, AttemptWrite
    <2>4. /\ paths' \in [Runs -> {"none", "kept", "generating", "draft"}]
          /\ \A q \in Runs \ {r} : paths'[q] = paths[q]
      BY <1>3 DEF Release, TypeOK
    <2> QED
      BY <1>3, <2>1, <2>3, <2>4
      DEF Release, TypeOK, KeepsTypes, Local, AsksChunks
  <1>4. ASSUME Take(r)
        PROVE  KeepsTypes(r)
    <2>1. PICK u \in NextUnits(r) :
             \/ /\ mem' = [mem EXCEPT ![r].stop = "cancelled"]
                /\ UNCHANGED used
             \/ /\ mem' = [mem EXCEPT ![r].stop = "budget"]
                /\ UNCHANGED used \/ used' = [used EXCEPT !.events = @ + 1]
             \/ /\ mem' = [mem EXCEPT ![r] = Replayed(@, u)]
                /\ UNCHANGED used
             \/ /\ mem' = [mem EXCEPT ![r].todo = @ \ {u},
                                      ![r].flying = @ \cup {u}]
                /\ UNCHANGED used
      BY <1>4 DEF Take
    <2>2. u \in Units
      BY <1>m DEF NextUnits, Attempt
    <2>3. /\ mem[r].stage \in Pools
          /\ UNCHANGED <<rows, paths, results, batches, charges, refused>>
      BY <1>4 DEF Take, CanTake
    <2> DEFINE a == [mem[r] EXCEPT !.stop = "cancelled"]
               b == [mem[r] EXCEPT !.stop = "budget"]
               c == Replayed(mem[r], u)
               d == [mem[r] EXCEPT !.todo = @ \ {u}, !.flying = @ \cup {u}]
    <2>4. {a, b, c, d} \subseteq Attempt
      BY <1>m, <2>2, AttemptWrites
    <2>5. \A n \in {a, b, c, d} : n.stage = mem[r].stage
      BY <1>m DEF Attempt, Replayed
    <2>6. \E n \in {a, b, c, d} : mem' = [mem EXCEPT ![r] = n]
      BY <2>1, <1>m DEF Attempt, TypeOK
    <2>7. used' \in Bounds
      BY <2>1, CountType DEF TypeOK, Bounds
    <2> HIDE DEF a, b, c, d
    <2>8. PICK n \in {a, b, c, d} : mem' = [mem EXCEPT ![r] = n]
      BY <2>6
    <2>9. /\ mem' \in [Runs -> Attempt]
          /\ mem'[r].stage = mem[r].stage
          /\ \A q \in Runs \ {r} : mem'[q] = mem[q]
      BY <2>4, <2>5, <2>8, AttemptWrite
    <2> QED
      BY <2>3, <2>7, <2>9
      DEF TypeOK, KeepsTypes, Local, AsksChunks, Bounds, Pools
  <1>5. ASSUME ExtractionEnds(r)
        PROVE  KeepsTypes(r)
    <2>1. \/ \E status \in {"blocked_budget", "cancelled", "failed"} :
               Finish(r, status, m)
          \/ /\ rows' = [rows EXCEPT ![r].status = "consolidating",
                                     ![r].cost = m.usage]
             /\ mem' = [mem EXCEPT ![r] = [m EXCEPT !.stage = "consolidating"]]
      BY <1>5 DEF ExtractionEnds
    <2>2. UNCHANGED <<paths, results, batches, charges, refused, used>>
      BY <1>5 DEF ExtractionEnds
    <2> HIDE DEF m
    <2>3. CASE \E status \in {"blocked_budget", "cancelled", "failed"} :
                  Finish(r, status, m)
      BY <1>n, <2>2, <2>3, FinishType
      DEF TypeOK, KeepsTypes, Local, AsksChunks, Terminal
    <2>4. CASE /\ rows' = [rows EXCEPT ![r].status = "consolidating",
                                       ![r].cost = m.usage]
               /\ mem' = [mem EXCEPT ![r] = [m EXCEPT !.stage = "consolidating"]]
      <3> DEFINE n == [m EXCEPT !.stage = "consolidating"]
      <3>1. n \in Attempt /\ n.stage = "consolidating"
        BY <1>n DEF Attempt
      <3> HIDE DEF n
      <3>2. /\ mem' \in [Runs -> Attempt]
            /\ mem'[r] = n
            /\ \A q \in Runs \ {r} : mem'[q] = mem[q]
        BY <2>4, <3>1, AttemptWrite DEF n
      <3>3. /\ rows' \in [Runs -> Row]
            /\ \A q \in Runs \ {r} : rows'[q] = rows[q]
        <4>1. [rows[r] EXCEPT !.status = "consolidating", !.cost = m.usage] \in Row
          BY <1>m, <1>n DEF Row, Generating
        <4>2. rows' = [rows EXCEPT ![r] = [rows[r] EXCEPT !.status = "consolidating",
                                                        !.cost = m.usage]]
          BY <2>4 DEF TypeOK
        <4> QED
          BY <4>1, <4>2, RowWrite
      <3> QED
        BY <2>2, <3>1, <3>2, <3>3
        DEF TypeOK, KeepsTypes, Local, AsksChunks
    <2> QED
      BY <2>1, <2>3, <2>4
  <1>6. ASSUME OutlineEnds(r)
        PROVE  KeepsTypes(r)
    <2>1. \/ \E status \in {"blocked_budget", "cancelled"} : Finish(r, status, m)
          \/ /\ mem' = [mem EXCEPT ![r].stage = "first",
                                  ![r].todo = {<<"module", 1>>}]
             /\ UNCHANGED rows
      BY <1>6 DEF OutlineEnds
    <2>2. UNCHANGED <<paths, results, batches, charges, refused, used>>
      BY <1>6 DEF OutlineEnds
    <2> HIDE DEF m
    <2>3. CASE \E status \in {"blocked_budget", "cancelled"} : Finish(r, status, m)
      BY <1>n, <2>2, <2>3, FinishType
      DEF TypeOK, KeepsTypes, Local, AsksChunks, Terminal
    <2>4. CASE /\ mem' = [mem EXCEPT ![r].stage = "first",
                                    ![r].todo = {<<"module", 1>>}]
               /\ UNCHANGED rows
      <3> DEFINE n == [mem[r] EXCEPT !.stage = "first", !.todo = {<<"module", 1>>}]
      <3>1. <<"module", 1>> \in Units
        BY MaterialAssumption, UnitKinds DEF Modules
      <3>2. n \in Attempt /\ n.stage = "first"
        BY <1>m, <3>1 DEF Attempt
      <3>4. mem' = [mem EXCEPT ![r] = n]
        BY <2>4 DEF TypeOK
      <3> HIDE DEF n
      <3>3. /\ mem' \in [Runs -> Attempt]
            /\ mem'[r] = n
            /\ \A q \in Runs \ {r} : mem'[q] = mem[q]
        BY <3>2, <3>4, AttemptWrite
      <3> QED
        BY <2>2, <2>4, <3>2, <3>3
        DEF TypeOK, KeepsTypes, Local, AsksChunks
    <2> QED
      BY <2>1, <2>3, <2>4
  <1>7. ASSUME FirstEnds(r)
        PROVE  KeepsTypes(r)
    <2> DEFINE n == [mem[r] EXCEPT !.stage = "modules",
                                   !.todo = Modules \ {<<"module", 1>>}]
    <2>1. Modules \ {<<"module", 1>>} \subseteq Units
      BY UnitKinds
    <2>2. n \in Attempt /\ n.stage = "modules"
      BY <1>m, <2>1 DEF Attempt
    <2>3. mem' = [mem EXCEPT ![r] = n]
      BY <1>7 DEF FirstEnds
    <2> HIDE DEF n
    <2>4. /\ mem' \in [Runs -> Attempt]
          /\ mem'[r] = n
          /\ \A q \in Runs \ {r} : mem'[q] = mem[q]
      BY <2>2, <2>3, AttemptWrite
    <2> QED
      BY <1>7, <2>2, <2>4
      DEF FirstEnds, TypeOK, KeepsTypes, Local, AsksChunks
  <1>8. ASSUME SynthesisEnds(r)
        PROVE  KeepsTypes(r)
    <2>1. \/ /\ \E status \in {"blocked_budget", "cancelled"} : Finish(r, status, m)
             /\ UNCHANGED paths
          \/ /\ rows' = [rows EXCEPT ![r].status = "completed", ![r].cost = m.usage]
             /\ paths' = [paths EXCEPT ![r] = IF @ = "kept" THEN "kept" ELSE "draft"]
             /\ mem' = [mem EXCEPT ![r] = NoAttempt]
      BY <1>8 DEF SynthesisEnds
    <2>2. UNCHANGED <<results, batches, charges, refused, used>>
      BY <1>8 DEF SynthesisEnds
    <2> HIDE DEF m
    <2>3. CASE /\ \E status \in {"blocked_budget", "cancelled"} : Finish(r, status, m)
               /\ UNCHANGED paths
      BY <1>n, <2>2, <2>3, FinishType
      DEF TypeOK, KeepsTypes, Local, AsksChunks, Terminal
    <2>4. CASE /\ rows' = [rows EXCEPT ![r].status = "completed", ![r].cost = m.usage]
               /\ paths' = [paths EXCEPT ![r] = IF @ = "kept" THEN "kept" ELSE "draft"]
               /\ mem' = [mem EXCEPT ![r] = NoAttempt]
      <3>1. /\ rows' \in [Runs -> Row]
            /\ \A q \in Runs \ {r} : rows'[q] = rows[q]
        <4>1. [rows[r] EXCEPT !.status = "completed", !.cost = m.usage] \in Row
          BY <1>m, <1>n DEF Row, Terminal
        <4>2. rows' = [rows EXCEPT ![r] = [rows[r] EXCEPT !.status = "completed",
                                                        !.cost = m.usage]]
          BY <2>4 DEF TypeOK
        <4> QED
          BY <4>1, <4>2, RowWrite
      <3>2. /\ mem' \in [Runs -> Attempt]
            /\ mem'[r] = NoAttempt
            /\ \A q \in Runs \ {r} : mem'[q] = mem[q]
        BY <2>4, NoAttemptType, AttemptWrite
      <3>3. /\ paths' \in [Runs -> {"none", "kept", "generating", "draft"}]
            /\ \A q \in Runs \ {r} : paths'[q] = paths[q]
        BY <2>4 DEF TypeOK
      <3>4. NoAttempt.stage = "idle"
        BY DEF NoAttempt
      <3> QED
        BY <2>2, <3>1, <3>2, <3>3, <3>4
        DEF TypeOK, KeepsTypes, Local, AsksChunks
    <2> QED
      BY <2>1, <2>3, <2>4
  <1>9. ASSUME OrphansEnd(r)
        PROVE  KeepsTypes(r)
    <2>1. NoAttempt.stage = "idle"
      BY DEF NoAttempt
    <2>2. /\ mem' \in [Runs -> Attempt]
          /\ mem'[r] = NoAttempt
          /\ \A q \in Runs \ {r} : mem'[q] = mem[q]
      BY <1>9, NoAttemptType, AttemptWrite DEF OrphansEnd
    <2> QED
      BY <1>9, <2>1, <2>2
      DEF OrphansEnd, TypeOK, KeepsTypes, Local, AsksChunks
  <1> QED
    BY <1>1, <1>2, <1>3, <1>4, <1>5, <1>6, <1>7, <1>8, <1>9 DEF TurnStep

(* What a run does when a call, a batch or a sleep comes back.             *)
LEMMA CallTypes ==
    ASSUME TypeInv, NEW r \in Runs, CallStep(r)
    PROVE  KeepsTypes(r)
  <1> USE DEF TypeInv
  <1>m. mem[r] \in Attempt /\ rows[r] \in Row /\ rows[r].waiting \in BOOLEAN
    BY DEF TypeOK, Row
  <1>1. ASSUME SubmitReturns(r)
        PROVE  KeepsTypes(r)
    <2> DEFINE n == [mem[r] EXCEPT !.stage = "booking"]
               asked == {u \in mem[r].todo : {u, Invalid(u)} \cap results = {}}
               b == [items |-> asked, answered |-> {},
                     status |-> IF asked = {} THEN "ended" ELSE "running"]
    <2>1. n \in Attempt /\ n.todo = mem[r].todo
      BY <1>m DEF Attempt
    <2>2. mem[r].todo \subseteq Chunks
      BY <1>1 DEF SubmitReturns, AsksChunks
    <2>3. b \in Batch
      BY <2>2 DEF Batch
    <2>4. /\ mem' = [mem EXCEPT ![r] = n]
          /\ batches' = [batches EXCEPT ![r] = Append(@, b)]
      BY <1>1 DEF SubmitReturns
    <2> HIDE DEF n, b
    <2>5. batches' \in [Runs -> Seq(Batch)]
      BY <2>3, <2>4, AppendProperties DEF TypeOK
    <2>6. /\ mem' \in [Runs -> Attempt]
          /\ mem'[r] = n
          /\ \A q \in Runs \ {r} : mem'[q] = mem[q]
      BY <2>1, <2>4, AttemptWrite
    <2> QED
      BY <1>1, <2>1, <2>2, <2>5, <2>6
      DEF SubmitReturns, TypeOK, KeepsTypes, Local, AsksChunks
  <1>2. ASSUME SubmitFails(r)
        PROVE  KeepsTypes(r)
    <2> DEFINE m == [mem[r] EXCEPT !.stage = "extracting"]
               a == [m EXCEPT !.stop = "cancelled"]
               b == [m EXCEPT !.stop = "budget"]
    <2>1. {m, a, b} \subseteq Attempt
      <3>1. m \in Attempt
        BY <1>m DEF Attempt
      <3>2. a \in Attempt
        BY <3>1 DEF Attempt
      <3>3. b \in Attempt
        BY <3>1 DEF Attempt
      <3> QED
        BY <3>1, <3>2, <3>3
    <2>2. \A n \in {m, a, b} : n.stage = "extracting"
      BY <1>m DEF Attempt
    <2>3. PICK n \in {m, a, b} : mem' = [mem EXCEPT ![r] = n]
      BY <1>2 DEF SubmitFails
    <2> HIDE DEF m, a, b
    <2>4. /\ mem' \in [Runs -> Attempt]
          /\ mem'[r].stage = "extracting"
          /\ \A q \in Runs \ {r} : mem'[q] = mem[q]
      BY <2>1, <2>2, <2>3, AttemptWrite
    <2>5. used' \in Bounds
      BY <1>2, CountType DEF SubmitFails
    <2> QED
      BY <1>2, <2>4, <2>5
      DEF SubmitFails, TypeOK, KeepsTypes, Local, AsksChunks, Bounds
  <1>3. ASSUME AwaitedOver(r)
        PROVE  KeepsTypes(r)
    <2> DEFINE n == Dispatched(mem[r], rows[r].waiting)
    <2>1. /\ n \in Attempt
          /\ n.stage \in {"extracting", "submitting"}
          /\ n.stage = "submitting" => n.todo \subseteq Chunks
      BY <1>m, DispatchedType
    <2>2. mem' = [mem EXCEPT ![r] = n]
      BY <1>3 DEF AwaitedOver
    <2> HIDE DEF n
    <2>3. /\ mem' \in [Runs -> Attempt]
          /\ mem'[r] = n
          /\ \A q \in Runs \ {r} : mem'[q] = mem[q]
      BY <2>1, <2>2, AttemptWrite
    <2> QED
      BY <1>3, <2>1, <2>3
      DEF AwaitedOver, TypeOK, KeepsTypes, Local, AsksChunks
  <1>4. ASSUME BatchReadBack(r)
        PROVE  KeepsTypes(r)
    <2> DEFINE back == mem[r].todo \cap results
               a == [mem[r] EXCEPT !.stage = "extracting", !.todo = {}]
               b == [mem[r] EXCEPT !.stage = "extracting",
                                   !.called = @ \cup back,
                                   !.todo = @ \ back,
                                   !.spent = @ + Cardinality(back)]
    <2>1. back \in SUBSET Chunks
      BY <1>4 DEF BatchReadBack, AsksChunks
    <2>2. \E n \in {a, b} : mem' = [mem EXCEPT ![r] = n]
      <3>1. mem' = [mem EXCEPT ![r] = IF mem[r].aborted THEN a ELSE b]
        BY <1>4 DEF BatchReadBack, ReadBack
      <3> QED
        BY <3>1
    <2>3. Cardinality(back) \in Nat
      BY <2>1, ChunksCounted
    <2> HIDE DEF back
    <2>4. /\ mem[r].spent + Cardinality(back) \in Nat
          /\ mem[r].called \cup back \in SUBSET Chunks
          /\ mem[r].todo \ back \in SUBSET Units
      BY <1>m, <2>1, <2>3 DEF Attempt
    <2>5. a \in Attempt /\ b \in Attempt
      BY <1>m, <2>4 DEF Attempt
    <2>6. a.stage = "extracting" /\ b.stage = "extracting"
      BY <1>m DEF Attempt
    <2> HIDE DEF a, b
    <2>7. /\ mem' \in [Runs -> Attempt]
          /\ mem'[r].stage = "extracting"
          /\ \A q \in Runs \ {r} : mem'[q] = mem[q]
      BY <2>2, <2>5, <2>6, AttemptWrite
    <2> QED
      BY <1>4, <2>7 DEF BatchReadBack, TypeOK, KeepsTypes, Local, AsksChunks
  <1>5. ASSUME DropBatch(r)
        PROVE  KeepsTypes(r)
    <2> DEFINE n == [mem[r] EXCEPT !.stage = "dropping"]
               left == [k \in DOMAIN batches[r] |->
                           IF k \in Outstanding(r)
                           THEN [batches[r][k] EXCEPT !.status = "cancelled"]
                           ELSE batches[r][k]]
    <2>1. n \in Attempt /\ n.stage = "dropping"
      BY <1>m DEF Attempt
    <2>2. /\ mem' = [mem EXCEPT ![r] = n]
          /\ batches' = [batches EXCEPT ![r] = left]
      BY <1>5 DEF DropBatch
    <2>3. batches[r] \in Seq(Batch)
      BY DEF TypeOK
    <2>4. left \in Seq(Batch)
      <3>0. \A k \in DOMAIN batches[r] : batches[r][k] \in Batch
        BY <2>3, ElementOfSeq, LenProperties
      <3>1. \A k \in DOMAIN batches[r] :
               /\ batches[r][k] \in Batch
               /\ [batches[r][k] EXCEPT !.status = "cancelled"] \in Batch
        BY <3>0 DEF Batch
      <3>2. left \in [1 .. Len(batches[r]) -> Batch] /\ Len(batches[r]) \in Nat
        BY <2>3, <3>1, LenProperties
      <3> QED
        BY <3>2, SeqDef
    <2> HIDE DEF n, left
    <2>5. batches' \in [Runs -> Seq(Batch)]
      BY <2>2, <2>4 DEF TypeOK
    <2>6. /\ mem' \in [Runs -> Attempt]
          /\ mem'[r] = n
          /\ \A q \in Runs \ {r} : mem'[q] = mem[q]
      BY <2>1, <2>2, AttemptWrite
    <2> QED
      BY <1>5, <2>1, <2>5, <2>6
      DEF DropBatch, TypeOK, KeepsTypes, Local, AsksChunks
  <1>6. ASSUME BatchDropped(r)
        PROVE  KeepsTypes(r)
    <2> DEFINE n == [mem[r] EXCEPT !.stage = "extracting", !.todo = {}]
    <2>1. n \in Attempt /\ n.stage = "extracting"
      BY <1>m DEF Attempt
    <2>2. mem' = [mem EXCEPT ![r] = n]
      BY <1>6 DEF BatchDropped, TypeOK
    <2> HIDE DEF n
    <2>3. /\ mem' \in [Runs -> Attempt]
          /\ mem'[r] = n
          /\ \A q \in Runs \ {r} : mem'[q] = mem[q]
      BY <2>1, <2>2, AttemptWrite
    <2> QED
      BY <1>6, <2>1, <2>3
      DEF BatchDropped, TypeOK, KeepsTypes, Local, AsksChunks
  <1>7. ASSUME Consolidated(r)
        PROVE  KeepsTypes(r)
    <2>1. UNCHANGED <<paths, results, batches, charges, refused, used>>
      BY <1>7 DEF Consolidated
    <2>2. CASE Finish(r, "cancelled", mem[r])
      BY <1>m, <2>1, <2>2, FinishType
      DEF TypeOK, KeepsTypes, Local, AsksChunks, Terminal
    <2>3. CASE /\ rows' = [rows EXCEPT ![r].status = "synthesizing"]
               /\ mem' = [mem EXCEPT ![r].stage = "outline", ![r].todo = {Outline}]
      <3> DEFINE n == [mem[r] EXCEPT !.stage = "outline", !.todo = {Outline}]
      <3>1. n \in Attempt /\ n.stage = "outline"
        BY <1>m, UnitKinds DEF Attempt
      <3>2. mem' = [mem EXCEPT ![r] = n]
        BY <2>3 DEF TypeOK
      <3> HIDE DEF n
      <3>3. /\ mem' \in [Runs -> Attempt]
            /\ mem'[r] = n
            /\ \A q \in Runs \ {r} : mem'[q] = mem[q]
        BY <3>1, <3>2, AttemptWrite
      <3>4. /\ rows' \in [Runs -> Row]
            /\ \A q \in Runs \ {r} : rows'[q] = rows[q]
        <4>1. [rows[r] EXCEPT !.status = "synthesizing"] \in Row
          BY <1>m DEF Row, Generating
        <4> QED
          BY <2>3, <4>1, RowWrite
      <3> QED
        BY <2>1, <3>1, <3>3, <3>4
        DEF TypeOK, KeepsTypes, Local, AsksChunks
    <2> QED
      BY <1>7, <2>2, <2>3 DEF Consolidated
  <1>8. ASSUME NEW u \in Units, CallAnswered(r, u)
        PROVE  KeepsTypes(r)
    <2> DEFINE n == [mem[r] EXCEPT !.flying = @ \ {u}, !.spent = @ + 1,
                        !.called = IF u \in Chunks THEN @ \cup {u} ELSE @]
    <2>1. n \in Attempt
      BY <1>m, AttemptWrites
    <2>2. n.stage = mem[r].stage /\ n.todo = mem[r].todo
      BY <1>m DEF Attempt
    <2>3. mem' = [mem EXCEPT ![r] = n]
      BY <1>8 DEF CallAnswered, TypeOK
    <2> HIDE DEF n
    <2>4. /\ mem' \in [Runs -> Attempt]
          /\ mem'[r] = n
          /\ \A q \in Runs \ {r} : mem'[q] = mem[q]
      BY <2>1, <2>3, AttemptWrite
    <2>5. charges' \in [Runs -> [Units -> Nat]]
      BY <1>8 DEF CallAnswered, TypeOK
    <2>6. results' \subseteq Units \cup Unusable
      BY <1>8 DEF CallAnswered, TypeOK
    <2>7. AsksChunks(r)'
      BY <2>2, <2>4 DEF AsksChunks
    <2>8. refused' \in [Runs -> [Units -> Nat]] /\ used' \in Bounds
      <3>1. CASE UNCHANGED <<refused, used>>
        BY <3>1 DEF TypeOK, Bounds
      <3>2. CASE /\ \E billed \in 1 .. MaxRefused :
                       refused' = [refused EXCEPT ![r][u] = @ + billed]
                 /\ used' = [used EXCEPT !.events = @ + 1]
        <4>1. refused' \in [Runs -> [Units -> Nat]]
          BY <3>2, RefusedAssumption DEF TypeOK
        <4>2. used' \in Bounds
          BY <3>2, CountType
        <4> QED
          BY <4>1, <4>2
      <3> QED
        BY <1>8, <3>1, <3>2 DEF CallAnswered
    <2> QED
      BY <1>8, <2>4, <2>5, <2>6, <2>7, <2>8
      DEF CallAnswered, TypeOK, KeepsTypes, Local, Bounds
  <1>9. ASSUME NEW u \in Units, CallFails(r, u)
        PROVE  KeepsTypes(r)
    <2> DEFINE m == [mem[r] EXCEPT !.flying = @ \ {u}]
               thrown == [m EXCEPT !.threw = @ + 1]
               a == [m EXCEPT !.stop = "cancelled"]
               b == [m EXCEPT !.failed = @ \cup {u}]
    <2>1. m \in Attempt
      BY <1>m, AttemptWrites
    <2>2. thrown \in Attempt /\ a \in Attempt /\ (u \in Chunks => b \in Attempt)
      BY <2>1, AttemptWrites
    <2>3. \A n \in {thrown, a, b} : n.stage = mem[r].stage /\ n.todo = mem[r].todo
      BY <1>m DEF Attempt
    <2>4. \/ Finish(r, "failed", thrown)
          \/ /\ UNCHANGED rows
             /\ \/ mem' = [mem EXCEPT ![r] = thrown]
                \/ mem' = [mem EXCEPT ![r] = a]
                \/ u \in Chunks /\ mem' = [mem EXCEPT ![r] = b]
      BY <1>9 DEF CallFails
    <2>5. /\ UNCHANGED <<paths, results, batches, charges>>
          /\ used' \in Bounds
          /\ refused' \in [Runs -> [Units -> Nat]]
      <3>1. UNCHANGED <<paths, results, batches, charges>> /\ used' \in Bounds
        BY <1>9, CountType DEF CallFails
      <3>2. PICK billed \in 0 .. MaxRefused :
                   refused' = [refused EXCEPT ![r][u] = @ + billed]
        BY <1>9 DEF CallFails
      <3>3. refused' \in [Runs -> [Units -> Nat]]
        BY <3>2, RefusedAssumption DEF TypeOK
      <3> QED
        BY <3>1, <3>3
    <2> HIDE DEF m, thrown, a, b
    <2>6. CASE Finish(r, "failed", thrown)
      BY <2>2, <2>5, <2>6, FinishType
      DEF TypeOK, KeepsTypes, Local, AsksChunks, Terminal, Bounds
    <2>7. CASE /\ UNCHANGED rows
               /\ \/ mem' = [mem EXCEPT ![r] = thrown]
                  \/ mem' = [mem EXCEPT ![r] = a]
                  \/ u \in Chunks /\ mem' = [mem EXCEPT ![r] = b]
      <3>1. PICK n \in {thrown, a, b} :
                   mem' = [mem EXCEPT ![r] = n] /\ n \in Attempt
        BY <2>2, <2>7
      <3>3. /\ mem' \in [Runs -> Attempt]
            /\ mem'[r].stage = mem[r].stage
            /\ mem'[r].todo = mem[r].todo
            /\ \A q \in Runs \ {r} : mem'[q] = mem[q]
        BY <2>3, <3>1, AttemptWrite
      <3> QED
        BY <2>5, <2>7, <3>3 DEF TypeOK, KeepsTypes, Local, AsksChunks, Bounds
    <2> QED
      BY <2>4, <2>6, <2>7
  <1> QED
    BY <1>1, <1>2, <1>3, <1>4, <1>5, <1>6, <1>7, <1>8, <1>9 DEF CallStep

(* What a batch does upstream.                                             *)
LEMMA BatchTypes ==
    ASSUME TypeInv, NEW r \in Runs, BatchStep(r)
    PROVE  KeepsTypes(r) /\ UNCHANGED <<rows, paths, mem>>
  <1> USE DEF TypeInv
  <1>1. ASSUME NEW k \in DOMAIN batches[r], BatchEnds(r, k)
        PROVE  KeepsTypes(r) /\ UNCHANGED <<rows, paths, mem>>
    <2>0. batches[r] \in Seq(Batch) /\ k \in 1 .. Len(batches[r])
      BY LenProperties DEF TypeOK
    <2>1. [batches[r][k] EXCEPT !.status = "ended"] \in Batch
      <3>1. batches[r][k] \in Batch
        BY <2>0, ElementOfSeq
      <3> QED
        BY <3>1 DEF Batch
    <2>2. batches' \in [Runs -> Seq(Batch)]
      BY <1>1, <2>0, <2>1, ExceptSeq DEF BatchEnds, TypeOK
    <2> QED
      BY <1>1, <2>2 DEF BatchEnds, TypeOK, KeepsTypes, Local, AsksChunks
  <1>2. ASSUME NEW k \in DOMAIN batches[r], NEW u \in Chunks, BatchAnswers(r, k, u)
        PROVE  KeepsTypes(r) /\ UNCHANGED <<rows, paths, mem>>
    <2>0. batches[r] \in Seq(Batch) /\ k \in 1 .. Len(batches[r])
      BY LenProperties DEF TypeOK
    <2>1. [batches[r][k] EXCEPT !.answered = @ \cup {u}] \in Batch
      <3>1. batches[r][k] \in Batch
        BY <2>0, ElementOfSeq
      <3> QED
        BY <3>1 DEF Batch
    <2>2. batches' \in [Runs -> Seq(Batch)]
      BY <1>2, <2>0, <2>1, ExceptSeq DEF BatchAnswers, TypeOK
    <2>3. u \in Units
      BY UnitKinds
    <2>4. results' \subseteq Units \cup Unusable
      BY <1>2, <2>3, InvalidApart DEF BatchAnswers, TypeOK
    <2>5. /\ charges' \in [Runs -> [Units -> Nat]]
          /\ refused' \in [Runs -> [Units -> Nat]]
      <3>1. CASE charges' = [charges EXCEPT ![r][u] = @ + 1] /\ refused' = refused
        BY <2>3, <3>1 DEF TypeOK
      <3>2. CASE refused' = [refused EXCEPT ![r][u] = @ + 1] /\ charges' = charges
        BY <2>3, <3>2 DEF TypeOK
      <3> QED
        BY <1>2, <3>1, <3>2 DEF BatchAnswers
    <2>6. used' \in Bounds
      BY <1>2, CountType DEF BatchAnswers, TypeOK, Bounds
    <2> QED
      BY <1>2, <2>2, <2>4, <2>5, <2>6
      DEF BatchAnswers, TypeOK, KeepsTypes, Local, AsksChunks, Bounds
  <1> QED
    BY <1>1, <1>2 DEF BatchStep

(* Every step is of one run, or a crash.                                   *)
LEMMA StepKinds ==
    ASSUME Next
    PROVE  \/ \E r \in Runs : UserStep(r) \/ TurnStep(r) \/ CallStep(r) \/ BatchStep(r)
           \/ \E heard \in BOOLEAN, billed \in 0 .. MaxRefused : Crash(heard, billed)
  BY DEF Next

(* A step of a run leaves the other runs what they were.                   *)
LEMMA RunStepTypes ==
    ASSUME TypeInv, NEW r \in Runs,
           UserStep(r) \/ TurnStep(r) \/ CallStep(r) \/ BatchStep(r)
    PROVE  TypeInv' /\ Local(r)
  <1>1. KeepsTypes(r)
    BY UserTypes, TurnTypes, CallTypes, BatchTypes
  <1>2. ASSUME NEW q \in Runs \ {r}
        PROVE  AsksChunks(q)'
    BY <1>1, <1>2 DEF KeepsTypes, Local, TypeInv, AsksChunks
  <1> QED
    BY <1>1, <1>2 DEF KeepsTypes, TypeInv

(* A crash clears memory, and charges what was in flight.                  *)
LEMMA CrashTypes ==
    ASSUME TypeInv, NEW heard \in BOOLEAN,
           NEW billed \in 0 .. MaxRefused, Crash(heard, billed)
    PROVE  TypeInv'
  <1>1. mem' \in [Runs -> Attempt] /\ \A r \in Runs : mem'[r].stage = "idle"
    BY NoAttemptType DEF Crash, NoAttempt
  <1>2. charges' \in [Runs -> [Units -> Nat]]
    <2>1. \A r \in Runs, u \in Units : charges[r][u] \in Nat /\ charges[r][u] + 1 \in Nat
      BY DEF TypeInv, TypeOK
    <2> QED
      BY <2>1 DEF Crash
  <1>3. used' \in Bounds
    <2>1. 1 \in Runs
      BY NumRunsAssumption DEF Runs
    <2> QED
      BY <2>1, CountType DEF Crash, TypeInv
  <1>4. refused' \in [Runs -> [Units -> Nat]]
    <2>1. \A r \in Runs, u \in Units :
             refused[r][u] \in Nat /\ refused[r][u] + billed \in Nat
      BY RefusedAssumption DEF TypeInv, TypeOK
    <2> QED
      BY <2>1 DEF Crash
  <1> QED
    BY <1>1, <1>2, <1>3, <1>4 DEF Crash, TypeInv, TypeOK, AsksChunks, Bounds

(* No run has an attempt, a row or a path in the beginning.                *)
LEMMA InitTypes == Init => TypeInv
  <1> SUFFICES ASSUME Init PROVE TypeInv
    OBVIOUS
  <1>1. mem \in [Runs -> Attempt] /\ \A r \in Runs : mem[r].stage = "idle"
    BY NoAttemptType DEF Init, NoAttempt
  <1>2. rows \in [Runs -> Row]
    BY DEF Init, Row
  <1>3. batches \in [Runs -> Seq(Batch)]
    BY EmptySeq DEF Init
  <1> QED
    BY <1>1, <1>2, <1>3 DEF Init, TypeInv, TypeOK, AsksChunks

(* Every step keeps the types.                                             *)
LEMMA NextTypes == TypeInv /\ [Next]_vars => TypeInv'
  <1> SUFFICES ASSUME TypeInv, [Next]_vars PROVE TypeInv'
    OBVIOUS
  <1>1. CASE Next
    BY <1>1, StepKinds, RunStepTypes, CrashTypes
  <1>2. CASE UNCHANGED vars
    BY <1>2 DEF vars, TypeInv, TypeOK, AsksChunks
  <1> QED
    BY <1>1, <1>2

(* Every reachable state is well typed (generation-run.ts, extract-chunks. *)
(* ts), and only chunks are asked for in a batch.                          *)
THEOREM TypeCorrect == Spec => []TypeOK
  <1>1. Spec => []TypeInv
    BY InitTypes, NextTypes, PTL DEF Spec
  <1>2. TypeInv => TypeOK
    BY DEF TypeInv
  <1> QED
    BY <1>1, <1>2, PTL
-----------------------------------------------------------------------------
(* Turns.                                                                  *)

(* Whether a run is in a turn is up to its attempt.                        *)
LEMMA TurnOfAttempt ==
    ASSUME NEW r \in Runs, mem'[r] = mem[r]
    PROVE  InTurn(r)' <=> InTurn(r)
  BY DEF InTurn, CanTake, Drained, Width

(* A step of a turn is taken by a run that is in it.                       *)
LEMMA TurnsAreOwn ==
    ASSUME NEW r \in Runs, TurnStep(r)
    PROVE  InTurn(r)
  BY DEF TurnStep, Enter, Book, Release, Take, ExtractionEnds, OutlineEnds,
         FirstEnds, SynthesisEnds, OrphansEnd, InTurn

(* Any other step waits until no run is in a turn.                         *)
LEMMA OthersWait ==
    ASSUME NEW r \in Runs, UserStep(r) \/ CallStep(r) \/ BatchStep(r)
    PROVE  Quiet
  BY DEF UserStep, CallStep, BatchStep, Start, Resume, CancelActive, CancelPaused,
         SubmitReturns, SubmitFails, AwaitedOver, BatchReadBack, DropBatch,
         BatchDropped, Consolidated, CallAnswered, CallFails, BatchEnds, BatchAnswers

(* A step of a run is taken while no other run is in a turn.               *)
LEMMA OthersOutOfTurn ==
    ASSUME OneTurn, NEW r \in Runs,
           UserStep(r) \/ TurnStep(r) \/ CallStep(r) \/ BatchStep(r)
    PROVE  \A q \in Runs \ {r} : ~InTurn(q)
  BY TurnsAreOwn, OthersWait DEF OneTurn, Quiet

(* Only the run that steps can come into a turn.                           *)
LEMMA OneTurnKept ==
    ASSUME NEW r \in Runs, Local(r), \A q \in Runs \ {r} : ~InTurn(q)
    PROVE  OneTurn'
  <1>1. \A q \in Runs \ {r} : ~InTurn(q)'
    BY TurnOfAttempt DEF Local
  <1> QED
    BY <1>1 DEF OneTurn

-----------------------------------------------------------------------------
(* The run, its row and its path.                                          *)

(* finish called by an attempt that is neither opening nor closing.        *)
LEMMA FinishKeeps ==
    ASSUME TypeOK, NEW r \in Runs, NEW m \in Attempt,
           NEW status \in {"blocked_budget", "cancelled", "failed"},
           Finish(r, status, m), StageMatchesRow(r), PathMatchesStage(r),
           mem[r].stage \notin {"idle", "opening", "closing", "orphaned"},
           UNCHANGED paths, used'.crashes = used.crashes
    PROVE  KeepsRun(r)
  <1>1. /\ rows'[r].status = status
        /\ status \in Terminal => mem'[r].stage = "closing"
        /\ status \notin Terminal => mem'[r].stage = "idle"
    BY FinishType
  <1>2. rows[r].status \notin Terminal
    BY DEF StageMatchesRow
  <1>3. paths[r] # "none"
    BY DEF StageMatchesRow
  <1>4. status # "none" /\ (status \notin Terminal => status = "blocked_budget")
    BY DEF Terminal
  <1> QED
    BY <1>1, <1>2, <1>3, <1>4
    DEF KeepsRun, StageMatchesRow, PathMatchesStage, Terminal

(* start, resume and the two ways of cancel.                               *)
LEMMA UserKeeps ==
    ASSUME RunInv, NEW r \in Runs, UserStep(r)
    PROVE  KeepsRun(r)
  <1>i. TypeOK /\ StageMatchesRow(r) /\ PathMatchesStage(r)
    BY DEF RunInv, TypeInv
  <1>m. mem[r] \in Attempt /\ rows[r] \in Row
    BY <1>i DEF TypeOK
  <1>q. Quiet /\ ~InTurn(r)
    BY OthersWait DEF Quiet
  <1>k. used'.crashes = used.crashes
    BY <1>i DEF UserStep, Start, Resume, CancelActive, CancelPaused, TypeOK
  <1>1. ASSUME NEW o \in StartOptions, Start(r, o.kept, o.waiting, o.over)
        PROVE  KeepsRun(r)
    <2>1. /\ paths[r] = "none"
          /\ paths'[r] \in {"kept", "generating"}
          /\ rows'[r].status = rows[r].status
      BY <1>1, <1>i, <1>m DEF Start, TypeOK, Row
    <2>2. mem'[r].stage = "opening"
      BY <1>1, <1>i DEF Start, TypeOK, NoAttempt
    <2>3. rows[r].status = "none"
      BY <1>i, <2>1 DEF StageMatchesRow
    <2> QED
      BY <1>k, <2>1, <2>2, <2>3
      DEF KeepsRun, StageMatchesRow, PathMatchesStage, Terminal
  <1>2. ASSUME NEW over \in BOOLEAN, Resume(r, over)
        PROVE  KeepsRun(r)
    <2>1. /\ rows[r].status \notin Terminal \cup {"none"}
          /\ rows'[r].status = "extracting"
          /\ UNCHANGED paths
      BY <1>2, <1>i, <1>m DEF Resume, Resumable, TypeOK, Row
    <2>2. mem'[r].stage \in {"awaiting", "extracting", "submitting"}
      <3> DEFINE m == [NoAttempt EXCEPT !.over = over, !.usage = rows[r].cost,
                                        !.spent = rows[r].cost]
      <3>1. m \in Attempt
        BY <1>m DEF NoAttempt, Attempt, Row
      <3>2. rows[r].waiting \in BOOLEAN
        BY <1>m DEF Row
      <3>3. \/ mem'[r] = [m EXCEPT !.stage = "awaiting"]
            \/ mem'[r] = Dispatched(m, rows[r].waiting)
        BY <1>2, <1>i DEF Resume, TypeOK
      <3> HIDE DEF m
      <3>4. [m EXCEPT !.stage = "awaiting"].stage = "awaiting"
        BY <3>1 DEF Attempt
      <3> QED
        BY <3>1, <3>2, <3>3, <3>4, DispatchedType
    <2>3. paths[r] # "none"
      BY <1>i, <2>1 DEF StageMatchesRow
    <2> QED
      BY <1>i, <1>k, <2>1, <2>2, <2>3
      DEF KeepsRun, StageMatchesRow, PathMatchesStage, Terminal
  <1>3. ASSUME CancelActive(r)
        PROVE  KeepsRun(r)
    <2>1. mem'[r].stage = mem[r].stage /\ UNCHANGED <<rows, paths>>
      BY <1>3, <1>i, <1>m DEF CancelActive, TypeOK, Attempt
    <2>2. mem[r].stage \notin {"idle", "orphaned", "closing"}
      BY <1>3, <1>q DEF CancelActive, Active, InTurn
    <2> QED
      BY <1>i, <1>k, <2>1, <2>2
      DEF KeepsRun, StageMatchesRow, PathMatchesStage
  <1>4. ASSUME CancelPaused(r)
        PROVE  KeepsRun(r)
    <2>1. /\ rows[r].status \notin Terminal \cup {"none"}
          /\ rows'[r].status = "cancelled"
          /\ UNCHANGED paths
      BY <1>4, <1>i, <1>m DEF CancelPaused, Resumable, TypeOK, Row
    <2>2. mem'[r].stage = "closing"
      BY <1>4, <1>i, <1>m DEF CancelPaused, TypeOK, Attempt
    <2>3. paths[r] # "none"
      BY <1>i, <2>1 DEF StageMatchesRow
    <2> QED
      BY <1>i, <1>k, <2>1, <2>2, <2>3
      DEF KeepsRun, StageMatchesRow, PathMatchesStage, Terminal
  <1> QED
    BY <1>1, <1>2, <1>3, <1>4 DEF UserStep

(* The turns, with the two writes of finish and of cancel.                 *)
LEMMA TurnKeeps ==
    ASSUME RunInv, NEW r \in Runs, TurnStep(r)
    PROVE  KeepsRun(r)
  <1>i. TypeOK /\ StageMatchesRow(r) /\ PathMatchesStage(r)
    BY DEF RunInv, TypeInv
  <1>m. mem[r] \in Attempt /\ rows[r] \in Row
    BY <1>i DEF TypeOK
  <1>k. used'.crashes = used.crashes
    BY <1>i DEF TurnStep, Enter, Book, Release, Take, ExtractionEnds, OutlineEnds,
                FirstEnds, SynthesisEnds, OrphansEnd, TypeOK
  <1> DEFINE m == [mem[r] EXCEPT !.usage = mem[r].spent]
  <1>n. m \in Attempt
    BY <1>m DEF Attempt
  <1>1. ASSUME Enter(r)
        PROVE  KeepsRun(r)
    <2> DEFINE row == [rows[r] EXCEPT !.kept = paths[r] = "kept"]
    <2>1. mem[r].stage = "opening" /\ UNCHANGED paths
      BY <1>1 DEF Enter
    <2>2. row \in Row
      BY <1>m DEF Row
    <2>3. rows'[r].status \in {"extracting", "blocked_budget"}
      <3>1. \/ rows'[r] = [row EXCEPT !.status = "extracting"]
            \/ rows'[r] = [row EXCEPT !.status = "blocked_budget"]
        BY <1>1, <1>i DEF Enter, TypeOK
      <3> HIDE DEF row
      <3> QED
        BY <2>2, <3>1 DEF Row
    <2>4. mem'[r].stage \in {"idle", "extracting", "submitting"}
      <3>1. mem'[r] = NoAttempt \/ mem'[r] = Dispatched(mem[r], row.waiting)
        BY <1>1, <1>i DEF Enter, TypeOK
      <3>2. row.waiting \in BOOLEAN
        BY <2>2 DEF Row
      <3> HIDE DEF row
      <3>3. NoAttempt.stage = "idle"
        BY DEF NoAttempt
      <3> QED
        BY <1>m, <3>1, <3>2, <3>3, DispatchedType
    <2> QED
      BY <1>i, <1>k, <2>1, <2>3, <2>4
      DEF KeepsRun, StageMatchesRow, PathMatchesStage, Terminal
  <1>2. ASSUME Book(r)
        PROVE  KeepsRun(r)
    <2>1. /\ mem[r].stage = "booking" /\ mem'[r].stage = "waiting"
          /\ rows'[r].status = rows[r].status
          /\ UNCHANGED paths
      BY <1>2, <1>i, <1>m DEF Book, TypeOK, Attempt, Row
    <2> QED
      BY <1>i, <1>k, <2>1 DEF KeepsRun, StageMatchesRow, PathMatchesStage
  <1>3. ASSUME Release(r)
        PROVE  KeepsRun(r)
    <2>1. /\ mem[r].stage = "closing"
          /\ paths'[r] \in {"kept", "draft"}
          /\ UNCHANGED rows
      BY <1>3, <1>i DEF Release, TypeOK
    <2>2. mem'[r].stage \in {"idle", "orphaned"}
      BY <1>3, <1>i, <1>m DEF Release, TypeOK, Attempt, NoAttempt
    <2>3. rows[r].status \in Terminal
      BY <1>i, <2>1 DEF StageMatchesRow
    <2> QED
      BY <1>k, <2>1, <2>2, <2>3
      DEF KeepsRun, StageMatchesRow, PathMatchesStage, Active
  <1>4. ASSUME Take(r)
        PROVE  KeepsRun(r)
    <2>1. /\ mem[r].stage \in Pools
          /\ UNCHANGED <<rows, paths>>
      BY <1>4 DEF Take, CanTake
    <2>2. mem'[r].stage = mem[r].stage
      <3>1. PICK u \in NextUnits(r) :
               \/ mem' = [mem EXCEPT ![r].stop = "cancelled"]
               \/ mem' = [mem EXCEPT ![r].stop = "budget"]
               \/ mem' = [mem EXCEPT ![r] = Replayed(@, u)]
               \/ mem' = [mem EXCEPT ![r].todo = @ \ {u},
                                    ![r].flying = @ \cup {u}]
        BY <1>4 DEF Take
      <3>2. Replayed(mem[r], u).stage = mem[r].stage
        BY <1>m DEF Attempt, Replayed
      <3> QED
        BY <1>i, <1>m, <3>1, <3>2 DEF TypeOK, Attempt
    <2> QED
      BY <1>i, <1>k, <2>1, <2>2
      DEF KeepsRun, StageMatchesRow, PathMatchesStage, Pools, Active
  <1>5. ASSUME ExtractionEnds(r)
        PROVE  KeepsRun(r)
    <2>1. mem[r].stage = "extracting" /\ UNCHANGED paths
      BY <1>5 DEF ExtractionEnds
    <2>2. ASSUME NEW status \in {"blocked_budget", "cancelled", "failed"},
                 Finish(r, status, m)
          PROVE  KeepsRun(r)
      BY <1>i, <1>k, <1>n, <2>1, <2>2, FinishKeeps
    <2>3. CASE /\ rows' = [rows EXCEPT ![r].status = "consolidating",
                                       ![r].cost = m.usage]
               /\ mem' = [mem EXCEPT ![r] = [m EXCEPT !.stage = "consolidating"]]
      <3>1. /\ rows'[r].status = "consolidating"
            /\ mem'[r].stage = "consolidating"
        BY <1>i, <1>m, <1>n, <2>3 DEF TypeOK, Row, Attempt
      <3> QED
        BY <1>i, <1>k, <2>1, <3>1
        DEF KeepsRun, StageMatchesRow, PathMatchesStage, Terminal
    <2> QED
      BY <1>5, <2>2, <2>3 DEF ExtractionEnds
  <1>6. ASSUME OutlineEnds(r)
        PROVE  KeepsRun(r)
    <2>1. mem[r].stage = "outline" /\ UNCHANGED paths
      BY <1>6 DEF OutlineEnds
    <2>2. ASSUME NEW status \in {"blocked_budget", "cancelled"}, Finish(r, status, m)
          PROVE  KeepsRun(r)
      BY <1>i, <1>k, <1>n, <2>1, <2>2, FinishKeeps
    <2>3. CASE /\ mem' = [mem EXCEPT ![r].stage = "first",
                                    ![r].todo = {<<"module", 1>>}]
               /\ UNCHANGED rows
      <3>1. mem'[r].stage = "first"
        BY <1>i, <1>m, <2>3 DEF TypeOK, Attempt
      <3> QED
        BY <1>i, <1>k, <2>1, <2>3, <3>1
        DEF KeepsRun, StageMatchesRow, PathMatchesStage
    <2> QED
      BY <1>6, <2>2, <2>3 DEF OutlineEnds
  <1>7. ASSUME FirstEnds(r)
        PROVE  KeepsRun(r)
    <2>1. /\ mem[r].stage = "first" /\ mem'[r].stage = "modules"
          /\ UNCHANGED <<rows, paths>>
      BY <1>7, <1>i, <1>m DEF FirstEnds, TypeOK, Attempt
    <2> QED
      BY <1>i, <1>k, <2>1 DEF KeepsRun, StageMatchesRow, PathMatchesStage
  <1>8. ASSUME SynthesisEnds(r)
        PROVE  KeepsRun(r)
    <2>1. mem[r].stage = "modules"
      BY <1>8 DEF SynthesisEnds
    <2>2. ASSUME NEW status \in {"blocked_budget", "cancelled"}, Finish(r, status, m),
                 UNCHANGED paths
          PROVE  KeepsRun(r)
      BY <1>i, <1>k, <1>n, <2>1, <2>2, FinishKeeps
    <2>3. CASE /\ rows' = [rows EXCEPT ![r].status = "completed", ![r].cost = m.usage]
               /\ paths' = [paths EXCEPT ![r] = IF @ = "kept" THEN "kept" ELSE "draft"]
               /\ mem' = [mem EXCEPT ![r] = NoAttempt]
      <3>1. /\ rows'[r].status = "completed"
            /\ mem'[r].stage = "idle"
            /\ paths'[r] \in {"kept", "draft"}
        BY <1>i, <1>m, <2>3 DEF TypeOK, Row, NoAttempt
      <3>2. rows[r].status \notin Terminal
        BY <1>i, <2>1 DEF StageMatchesRow
      <3> QED
        BY <1>k, <3>1, <3>2
        DEF KeepsRun, StageMatchesRow, PathMatchesStage, Terminal
    <2> QED
      BY <1>8, <2>2, <2>3 DEF SynthesisEnds
  <1>9. ASSUME OrphansEnd(r)
        PROVE  KeepsRun(r)
    <2>1. /\ mem[r].stage = "orphaned" /\ mem'[r].stage = "idle"
          /\ UNCHANGED <<rows, paths>>
      BY <1>9, <1>i DEF OrphansEnd, TypeOK, NoAttempt
    <2> QED
      BY <1>i, <1>k, <2>1 DEF KeepsRun, StageMatchesRow, PathMatchesStage, Active
  <1> QED
    BY <1>1, <1>2, <1>3, <1>4, <1>5, <1>6, <1>7, <1>8, <1>9 DEF TurnStep

(* Nothing changes of the run but the stage of an attempt at work.         *)
LEMMA WorkKeeps ==
    ASSUME NEW r \in Runs, StageMatchesRow(r), PathMatchesStage(r),
           UNCHANGED <<rows, paths>>, used'.crashes = used.crashes,
           mem[r].stage \notin {"idle", "opening", "closing", "orphaned"},
           mem'[r].stage \notin {"idle", "opening", "closing", "orphaned"}
    PROVE  KeepsRun(r)
  BY DEF KeepsRun, StageMatchesRow, PathMatchesStage

(* A call, a batch or a sleep that comes back does not write the row.      *)
LEMMA CallKeeps ==
    ASSUME RunInv, NEW r \in Runs, CallStep(r)
    PROVE  KeepsRun(r)
  <1>i. TypeOK /\ StageMatchesRow(r) /\ PathMatchesStage(r)
    BY DEF RunInv, TypeInv
  <1>m. mem[r] \in Attempt /\ rows[r] \in Row
    BY <1>i DEF TypeOK
  <1>q. ~InTurn(r)
    BY OthersWait DEF Quiet
  <1>k. used'.crashes = used.crashes
    <2>1. UNCHANGED used \/ used' = [used EXCEPT !.events = @ + 1]
      BY DEF CallStep, SubmitReturns, SubmitFails, AwaitedOver, BatchReadBack,
             DropBatch, BatchDropped, Consolidated, CallAnswered, CallFails
    <2> QED
      BY <1>i, <2>1 DEF TypeOK
  <1>1. ASSUME SubmitReturns(r)
        PROVE  KeepsRun(r)
    <2>1. /\ mem[r].stage = "submitting" /\ mem'[r].stage = "booking"
          /\ UNCHANGED <<rows, paths>>
      BY <1>1, <1>i, <1>m DEF SubmitReturns, TypeOK, Attempt
    <2> QED
      BY <1>i, <1>k, <2>1, WorkKeeps
  <1>2. ASSUME SubmitFails(r)
        PROVE  KeepsRun(r)
    <2> DEFINE m == [mem[r] EXCEPT !.stage = "extracting"]
               a == [m EXCEPT !.stop = "cancelled"]
               b == [m EXCEPT !.stop = "budget"]
    <2>1. \A n \in {m, a, b} : n.stage = "extracting"
      BY <1>m DEF Attempt
    <2>2. PICK n \in {m, a, b} : mem' = [mem EXCEPT ![r] = n]
      BY <1>2 DEF SubmitFails
    <2> HIDE DEF m, a, b
    <2>3. mem'[r].stage = "extracting"
      BY <1>i, <2>1, <2>2 DEF TypeOK
    <2>4. mem[r].stage = "submitting" /\ UNCHANGED <<rows, paths>>
      BY <1>2 DEF SubmitFails
    <2> QED
      BY <1>i, <1>k, <2>3, <2>4, WorkKeeps
  <1>3. ASSUME AwaitedOver(r)
        PROVE  KeepsRun(r)
    <2>1. mem'[r] = Dispatched(mem[r], rows[r].waiting)
      BY <1>3, <1>i DEF AwaitedOver, TypeOK
    <2>2. rows[r].waiting \in BOOLEAN
      BY <1>m DEF Row
    <2>3. mem'[r].stage \in {"extracting", "submitting"}
      BY <1>m, <2>1, <2>2, DispatchedType
    <2>4. mem[r].stage = "awaiting" /\ UNCHANGED <<rows, paths>>
      BY <1>3 DEF AwaitedOver
    <2> QED
      BY <1>i, <1>k, <2>3, <2>4, WorkKeeps
  <1>4. ASSUME BatchReadBack(r)
        PROVE  KeepsRun(r)
    <2>1. mem'[r] = ReadBack(mem[r])
      BY <1>4, <1>i DEF BatchReadBack, TypeOK
    <2>2. ReadBack(mem[r]).stage = "extracting"
      BY <1>m DEF ReadBack, Attempt
    <2>3. mem[r].stage = "waiting" /\ UNCHANGED <<rows, paths>>
      BY <1>4 DEF BatchReadBack
    <2> QED
      BY <1>i, <1>k, <2>1, <2>2, <2>3, WorkKeeps
  <1>5. ASSUME DropBatch(r)
        PROVE  KeepsRun(r)
    <2>1. /\ mem[r].stage \in {"awaiting", "waiting"}
          /\ mem'[r].stage = "dropping"
          /\ UNCHANGED <<rows, paths>>
      BY <1>5, <1>i, <1>m DEF DropBatch, TypeOK, Attempt
    <2> QED
      BY <1>i, <1>k, <2>1, WorkKeeps
  <1>6. ASSUME BatchDropped(r)
        PROVE  KeepsRun(r)
    <2>1. /\ mem[r].stage = "dropping" /\ mem'[r].stage = "extracting"
          /\ UNCHANGED <<rows, paths>>
      BY <1>6, <1>i, <1>m DEF BatchDropped, TypeOK, Attempt
    <2> QED
      BY <1>i, <1>k, <2>1, WorkKeeps
  <1>7. ASSUME Consolidated(r)
        PROVE  KeepsRun(r)
    <2>1. mem[r].stage = "consolidating" /\ UNCHANGED paths
      BY <1>7 DEF Consolidated
    <2>2. CASE Finish(r, "cancelled", mem[r])
      BY <1>i, <1>k, <1>m, <2>1, <2>2, FinishKeeps
    <2>3. CASE /\ rows' = [rows EXCEPT ![r].status = "synthesizing"]
               /\ mem' = [mem EXCEPT ![r].stage = "outline", ![r].todo = {Outline}]
      <3>1. rows'[r].status = "synthesizing" /\ mem'[r].stage = "outline"
        BY <1>i, <1>m, <2>3 DEF TypeOK, Row, Attempt
      <3> QED
        BY <1>i, <1>k, <2>1, <3>1
        DEF KeepsRun, StageMatchesRow, PathMatchesStage, Terminal
    <2> QED
      BY <1>7, <2>2, <2>3 DEF Consolidated
  <1>8. ASSUME NEW u \in Units, CallAnswered(r, u)
        PROVE  KeepsRun(r)
    <2>1. mem'[r].stage = mem[r].stage /\ UNCHANGED <<rows, paths>>
      BY <1>8, <1>i, <1>m DEF CallAnswered, TypeOK, Attempt
    <2>2. mem[r].stage # "closing"
      BY <1>q DEF InTurn
    <2> QED
      BY <1>i, <1>k, <2>1, <2>2
      DEF KeepsRun, StageMatchesRow, PathMatchesStage, Active
  <1>9. ASSUME NEW u \in Units, CallFails(r, u)
        PROVE  KeepsRun(r)
    <2> DEFINE m == [mem[r] EXCEPT !.flying = @ \ {u}]
               thrown == [m EXCEPT !.threw = @ + 1]
               a == [m EXCEPT !.stop = "cancelled"]
               b == [m EXCEPT !.failed = @ \cup {u}]
    <2>1. thrown \in Attempt
      BY <1>m, AttemptWrites
    <2>2. mem[r].stage \notin {"opening", "closing"} /\ UNCHANGED paths
      BY <1>9, <1>q DEF InTurn, CallFails
    <2>3. \A n \in {thrown, a, b} : n.stage = mem[r].stage
      BY <1>m DEF Attempt
    <2>4. \/ Active(r) /\ Finish(r, "failed", thrown)
          \/ /\ UNCHANGED rows
             /\ \E n \in {thrown, a, b} : mem' = [mem EXCEPT ![r] = n]
      BY <1>9 DEF CallFails
    <2> HIDE DEF thrown, a, b
    <2>5. CASE Active(r) /\ Finish(r, "failed", thrown)
      BY <1>i, <1>k, <2>1, <2>2, <2>5, FinishKeeps DEF Active
    <2>6. CASE /\ UNCHANGED rows
               /\ \E n \in {thrown, a, b} : mem' = [mem EXCEPT ![r] = n]
      <3>1. mem'[r].stage = mem[r].stage
        BY <1>i, <2>3, <2>6 DEF TypeOK
      <3> QED
        BY <1>i, <1>k, <2>2, <2>6, <3>1
        DEF KeepsRun, StageMatchesRow, PathMatchesStage, Active
    <2> QED
      BY <2>4, <2>5, <2>6
  <1> QED
    BY <1>1, <1>2, <1>3, <1>4, <1>5, <1>6, <1>7, <1>8, <1>9 DEF CallStep

(* At most an event is counted.                                            *)
Steady == used'.crashes = used.crashes /\ used'.raised = used.raised

(* The units answered stay so, ...                                         *)
Remains == \A v \in Units : v \in results => v \in results'

(* ... and one more is.                                                    *)
Answered(u) == \A v \in Units : v \in results' <=> v \in results \/ v = u

(* A batch that does not validate is an event.                             *)
LEMMA BatchCounts ==
    ASSUME TypeOK, NEW r \in Runs, BatchStep(r)
    PROVE  Steady
  BY DEF BatchStep, BatchEnds, BatchAnswers, TypeOK, Steady

(* A batch upstream touches neither run, row nor path.                     *)
LEMMA BatchKeeps ==
    ASSUME RunInv, NEW r \in Runs, BatchStep(r)
    PROVE  KeepsRun(r)
  <1>1. StageMatchesRow(r) /\ PathMatchesStage(r) /\ TypeInv
    BY DEF RunInv
  <1>2. UNCHANGED <<rows, paths, mem>> /\ used'.crashes = used.crashes
    BY <1>1, BatchTypes, BatchCounts DEF TypeInv, Steady
  <1>3. mem[r].stage # "closing"
    BY OthersWait DEF Quiet, InTurn
  <1> QED
    BY <1>1, <1>2, <1>3 DEF KeepsRun, StageMatchesRow, PathMatchesStage, Active

(* What holds of a run that did not step, beside one that did.             *)
LEMMA OtherRunKeeps ==
    ASSUME NEW r \in Runs, NEW q \in Runs \ {r}, Local(r), ~InTurn(q),
           used'.crashes = used.crashes, StageMatchesRow(q), PathMatchesStage(q)
    PROVE  KeepsRun(q)
  <1>1. mem'[q] = mem[q] /\ rows'[q] = rows[q] /\ paths'[q] = paths[q]
    BY DEF Local
  <1>2. mem[q].stage # "closing"
    BY DEF InTurn
  <1> QED
    BY <1>1, <1>2 DEF KeepsRun, StageMatchesRow, PathMatchesStage, Active

(* The invariant after a step of a run.                                    *)
LEMMA RunStepKeeps ==
    ASSUME RunInv, NEW r \in Runs,
           UserStep(r) \/ TurnStep(r) \/ CallStep(r) \/ BatchStep(r)
    PROVE  RunInv' /\ \A q \in Runs : KeepsRun(q)
  <1>1. TypeInv /\ OneTurn
    BY DEF RunInv
  <1>2. TypeInv' /\ Local(r)
    BY <1>1, RunStepTypes
  <1>3. \A q \in Runs \ {r} : ~InTurn(q)
    BY <1>1, OthersOutOfTurn
  <1>4. KeepsRun(r)
    BY UserKeeps, TurnKeeps, CallKeeps, BatchKeeps
  <1>5. \A q \in Runs \ {r} : KeepsRun(q)
    BY <1>2, <1>3, <1>4, OtherRunKeeps DEF RunInv, KeepsRun
  <1>6. OneTurn'
    BY <1>2, <1>3, OneTurnKept
  <1>7. \A q \in Runs : KeepsRun(q)
    BY <1>4, <1>5
  <1> QED
    BY <1>2, <1>6, <1>7 DEF RunInv, KeepsRun

(* A crash ends every attempt, and leaves the rows and paths.              *)
LEMMA CrashKeeps ==
    ASSUME RunInv, NEW heard \in BOOLEAN,
           NEW billed \in 0 .. MaxRefused, Crash(heard, billed)
    PROVE  RunInv' /\ UNCHANGED rows /\ \A r \in Runs : ~Active(r)'
  <1>1. TypeInv'
    BY CrashTypes DEF RunInv
  <1>2. \A r \in Runs : mem'[r].stage = "idle"
    BY DEF Crash, NoAttempt
  <1>3. \A r \in Runs : ~InTurn(r)'
    BY <1>2 DEF InTurn, CanTake, Drained, Pools
  <1>4. used'.crashes # 0
    BY DEF Crash, RunInv, TypeInv, TypeOK
  <1>5. UNCHANGED <<rows, paths>>
    BY DEF Crash
  <1>6. \A r \in Runs : StageMatchesRow(r)' /\ PathMatchesStage(r)'
    BY <1>2, <1>4, <1>5 DEF RunInv, StageMatchesRow, PathMatchesStage
  <1> QED
    BY <1>1, <1>2, <1>3, <1>5, <1>6 DEF RunInv, OneTurn, Active

(* No run is there in the beginning.                                       *)
LEMMA InitRuns == Init => RunInv
  <1> SUFFICES ASSUME Init PROVE RunInv
    OBVIOUS
  <1>1. \A r \in Runs : /\ mem[r].stage = "idle"
                        /\ rows[r].status = "none"
                        /\ paths[r] = "none"
    BY DEF Init, NoAttempt
  <1>2. \A r \in Runs : ~InTurn(r)
    BY <1>1 DEF InTurn, CanTake, Drained, Pools
  <1>3. \A r \in Runs : StageMatchesRow(r) /\ PathMatchesStage(r)
    BY <1>1 DEF StageMatchesRow, PathMatchesStage, Terminal
  <1> QED
    BY <1>2, <1>3, InitTypes DEF RunInv, OneTurn

(* The invariant after any step.                                           *)
LEMMA NextRuns == RunInv /\ [Next]_vars => RunInv'
  <1> SUFFICES ASSUME RunInv, [Next]_vars PROVE RunInv'
    OBVIOUS
  <1>1. CASE Next
    BY <1>1, StepKinds, RunStepKeeps, CrashKeeps
  <1>2. CASE UNCHANGED vars
    <2>1. UNCHANGED <<rows, paths, mem, used>> /\ TypeInv'
      BY <1>2, NextTypes DEF vars, RunInv
    <2>2. \A r \in Runs : InTurn(r)' <=> InTurn(r)
      BY <2>1, TurnOfAttempt
    <2> QED
      BY <2>1, <2>2 DEF RunInv, OneTurn, StageMatchesRow, PathMatchesStage
  <1> QED
    BY <1>1, <1>2

(* One run at a time is in a turn, a terminal row has no attempt at work,  *)
(* and a path follows its row (generation-run.ts: start, finish, cancel).  *)
THEOREM RunsCorrect == Spec => []RunInv
  BY InitRuns, NextRuns, PTL DEF Spec

(* A path is generating as long as its run may go on, and no longer, for   *)
(* any number of runs: finish and cancel are the only ways to end.         *)
THEOREM PathsCorrect == Spec => []PathMatchesRun
  <1>1. RunInv => PathMatchesRun
    BY DEF RunInv, PathMatchesRun, PathMatchesStage, Quiet, InTurn
  <1> QED
    BY <1>1, RunsCorrect, PTL

(* A run that ended stays as it ended: neither a late call of an orphaned  *)
(* pool nor another run, a resumption or a cancellation writes its row.    *)
THEOREM EndedCorrect == Spec => EndedIsFinal
  <1>1. RunInv /\ [Next]_vars
          => [\A r \in Runs :
                rows[r].status \in Terminal => rows'[r] = rows[r] /\ ~Active(r)']_vars
    <2> SUFFICES ASSUME RunInv, Next, NEW r \in Runs, rows[r].status \in Terminal
                 PROVE  rows'[r] = rows[r] /\ ~Active(r)'
      OBVIOUS
    <2>1. CASE \E q \in Runs : UserStep(q) \/ TurnStep(q) \/ CallStep(q) \/ BatchStep(q)
      BY <2>1, RunStepKeeps DEF KeepsRun
    <2>2. CASE \E heard \in BOOLEAN, billed \in 0 .. MaxRefused : Crash(heard, billed)
      BY <2>2, CrashKeeps
    <2> QED
      BY <2>1, <2>2, StepKinds
  <1> QED
    BY <1>1, RunsCorrect, PTL DEF Spec, EndedIsFinal

-----------------------------------------------------------------------------
(* The steps, as the money sees them: what each leaves of the attempt, the *)
(* row, the batches and the charges.                                       *)

(* Whom the user let go on is written down, and stays so.                  *)
Counted(r) ==
    /\ used'.crashes = used.crashes
    /\ used.raised \subseteq used'.raised
    /\ mem'[r].over => mem[r].over \/ r \in used'.raised

(* The row is left, and of the attempt what is spent and in flight.        *)
Carries(r) ==
    /\ rows'[r].status = rows[r].status /\ rows'[r].cost = rows[r].cost
    /\ mem'[r].aborted = mem[r].aborted /\ mem'[r].over = mem[r].over
    /\ mem'[r].spent = mem[r].spent
    /\ mem'[r].threw = mem[r].threw

(* An attempt begins, or a row is written, without one.                    *)
Blank(r) ==
    /\ mem'[r].flying = {} /\ mem'[r].threw = 0 /\ ~mem'[r].aborted

(* What finish does to the attempt and the row.                            *)
LEMMA FinishEffects ==
    ASSUME TypeOK, NEW r \in Runs, NEW m \in Attempt,
           NEW status \in {"blocked_budget", "cancelled", "failed"},
           Finish(r, status, m)
    PROVE  /\ rows'[r].status = status /\ rows'[r].cost = m.usage
           /\ rows'[r].ids = rows[r].ids
           /\ status = "blocked_budget" => mem'[r] = NoAttempt
           /\ status # "blocked_budget" =>
                /\ mem'[r].stage = "closing"
                /\ mem'[r].flying = m.flying /\ mem'[r].todo = m.todo
                /\ mem'[r].threw = m.threw /\ mem'[r].over = m.over
                /\ mem'[r].spent = m.spent /\ mem'[r].aborted = m.aborted
  <1>1. rows[r] \in Row /\ m.usage \in Nat
    BY DEF TypeOK, Attempt
  <1>2. /\ rows'[r].status = status /\ rows'[r].cost = m.usage
        /\ rows'[r].ids = rows[r].ids
    BY <1>1 DEF Finish, TypeOK, Row
  <1>3. mem'[r] = IF status \in Terminal THEN [m EXCEPT !.stage = "closing"]
                                         ELSE NoAttempt
    BY DEF Finish, TypeOK
  <1> QED
    BY <1>2, <1>3 DEF Terminal, Attempt

(* An attempt that is not there.                                           *)
LEMMA NoAttemptFields ==
    /\ NoAttempt.stage = "idle" /\ NoAttempt.flying = {} /\ NoAttempt.todo = {}
    /\ NoAttempt.threw = 0 /\ NoAttempt.over = FALSE /\ NoAttempt.spent = 0
    /\ NoAttempt.aborted = FALSE
  BY DEF NoAttempt

(* What the dispatch leaves to the pool, or to a batch it can pay.         *)
LEMMA DispatchedFields ==
    ASSUME NEW m \in Attempt, NEW waiting \in BOOLEAN
    PROVE  LET n == Dispatched(m, waiting)
           IN  /\ n.stage \in {"extracting", "submitting"}
               /\ n.flying = m.flying /\ n.threw = m.threw
               /\ n.over = m.over /\ n.spent = m.spent /\ n.aborted = m.aborted
               /\ n.todo = m.todo \/ n.todo = Chunks \ results
               /\ n.stage = "submitting" =>
                    /\ n.todo = Chunks \ results /\ ~m.aborted
                    /\ m.over \/ ~(m.spent + Cardinality(n.todo) > Cap)
  <1> DEFINE pending == Chunks \ results
  <1>0. pending \subseteq Chunks
    OBVIOUS
  <1>1. Dispatched(m, waiting) =
          CASE m.aborted \/ pending = {} -> [m EXCEPT !.stage = "extracting"]
            [] ~m.aborted /\ pending # {} /\ waiting ->
                  [m EXCEPT !.stage = "extracting", !.todo = pending]
            [] ~m.aborted /\ pending # {} /\ ~waiting ->
                  IF WouldExceed(m, Cardinality(pending))
                  THEN [m EXCEPT !.stage = "extracting", !.stop = "budget"]
                  ELSE [m EXCEPT !.stage = "submitting", !.todo = pending]
    BY DEF Dispatched
  <1> HIDE DEF pending
  <1>2. m.aborted \in BOOLEAN
    BY DEF Attempt
  <1>3. CASE m.aborted \/ pending = {}
    <2>1. Dispatched(m, waiting) = [m EXCEPT !.stage = "extracting"]
      BY <1>1, <1>3
    <2> QED
      BY <2>1 DEF Attempt
  <1>4. CASE ~m.aborted /\ pending # {} /\ waiting
    <2>1. Dispatched(m, waiting) = [m EXCEPT !.stage = "extracting", !.todo = pending]
      BY <1>1, <1>4
    <2> QED
      BY <2>1 DEF Attempt, pending
  <1>5. CASE ~m.aborted /\ pending # {} /\ ~waiting /\ WouldExceed(m, Cardinality(pending))
    <2>1. Dispatched(m, waiting) = [m EXCEPT !.stage = "extracting", !.stop = "budget"]
      BY <1>1, <1>5
    <2> QED
      BY <2>1 DEF Attempt
  <1>6. CASE ~m.aborted /\ pending # {} /\ ~waiting /\ ~WouldExceed(m, Cardinality(pending))
    <2>1. Dispatched(m, waiting) = [m EXCEPT !.stage = "submitting", !.todo = pending]
      BY <1>1, <1>6
    <2>2. m.over \/ ~(m.spent + Cardinality(pending) > Cap)
      BY <1>6 DEF WouldExceed
    <2>3. Dispatched(m, waiting).todo = pending
      BY <2>1 DEF Attempt
    <2> QED
      BY <1>6, <2>1, <2>2, <2>3 DEF Attempt, pending
  <1> QED
    BY <1>2, <1>3, <1>4, <1>5, <1>6

(* start: an attempt that opens, for a run that was not there.             *)
LEMMA StartEffects ==
    ASSUME TypeOK, NEW r \in Runs, NEW o \in StartOptions,
           Start(r, o.kept, o.waiting, o.over)
    PROVE  /\ paths[r] = "none"
           /\ rows'[r].status = rows[r].status /\ rows'[r].cost = rows[r].cost
           /\ rows'[r].ids = rows[r].ids
           /\ mem'[r].stage = "opening" /\ Blank(r)
           /\ UNCHANGED <<results, batches, charges>>
           /\ Counted(r)
  <1>1. rows[r] \in Row /\ o.over \in BOOLEAN
    BY OptionsAssumption DEF TypeOK
  <1>2. rows' = [rows EXCEPT ![r].waiting = o.waiting] /\ paths[r] = "none"
        /\ UNCHANGED <<results, batches, charges>>
    BY DEF Start
  <1>3. mem'[r] = [NoAttempt EXCEPT !.stage = "opening", !.over = o.over]
    BY DEF Start, TypeOK
  <1>4. /\ mem'[r].stage = "opening" /\ mem'[r].over = o.over /\ Blank(r)
    BY <1>3 DEF NoAttempt, Blank
  <1>5. /\ rows'[r].status = rows[r].status /\ rows'[r].cost = rows[r].cost
        /\ rows'[r].ids = rows[r].ids
    BY <1>1, <1>2 DEF TypeOK, Row
  <1>6. used' = IF o.over THEN [used EXCEPT !.raised = @ \cup {r}] ELSE used
    BY DEF Start
  <1>7. used'.crashes = used.crashes /\ used.raised \subseteq used'.raised
        /\ (o.over => r \in used'.raised)
    BY <1>6 DEF TypeOK
  <1> QED
    BY <1>1, <1>2, <1>4, <1>5, <1>7 DEF Counted

(* resume: the attempt waits for its batches, or goes on with what was     *)
(* spent.                                                                  *)
LEMMA ResumeEffects ==
    ASSUME TypeOK, NEW r \in Runs, NEW over \in BOOLEAN, Resume(r, over)
    PROVE  /\ rows[r].status \notin Terminal \cup {"none"} /\ ~Active(r)
           /\ rows'[r].status = "extracting"
           /\ rows'[r].ids = rows[r].ids
           /\ Blank(r) /\ mem'[r].spent = rows[r].cost
           /\ IF Outstanding(r) # {} THEN mem'[r].stage = "awaiting"
              ELSE /\ mem'[r].stage \in {"extracting", "submitting"}
                   /\ mem'[r].stage = "submitting" =>
                        mem'[r].over \/ ~(mem'[r].spent + Cardinality(mem'[r].todo) > Cap)
           /\ UNCHANGED <<results, batches, charges>>
           /\ Counted(r)
  <1> DEFINE m == [NoAttempt EXCEPT !.over = over, !.usage = rows[r].cost,
                                    !.spent = rows[r].cost]
  <1>1. rows[r] \in Row /\ rows[r].cost \in Nat /\ rows[r].waiting \in BOOLEAN
    BY DEF TypeOK, Row
  <1>2. /\ rows' = [rows EXCEPT ![r].status = "extracting"]
        /\ rows[r].status \notin Terminal \cup {"none"} /\ ~Active(r)
        /\ UNCHANGED <<results, batches, charges>>
    BY DEF Resume, Resumable
  <1>3. mem'[r] = IF Outstanding(r) # {} THEN [m EXCEPT !.stage = "awaiting"]
                                         ELSE Dispatched(m, rows[r].waiting)
    BY DEF Resume, TypeOK
  <1>4. m \in Attempt /\ m.flying = {} /\ m.threw = 0 /\ m.aborted = FALSE
        /\ m.over = over /\ m.spent = rows[r].cost
    BY <1>1 DEF NoAttempt, Attempt
  <1> HIDE DEF m
  <1>5. LET n == [m EXCEPT !.stage = "awaiting"]
        IN  n.flying = {} /\ n.threw = 0 /\ n.aborted = FALSE /\ n.over = over
            /\ n.spent = rows[r].cost /\ n.stage = "awaiting"
    BY <1>4 DEF Attempt
  <1>6. /\ Blank(r) /\ mem'[r].spent = rows[r].cost /\ mem'[r].over = over
        /\ IF Outstanding(r) # {} THEN mem'[r].stage = "awaiting"
           ELSE /\ mem'[r].stage \in {"extracting", "submitting"}
                /\ mem'[r].stage = "submitting" =>
                     mem'[r].over \/ ~(mem'[r].spent + Cardinality(mem'[r].todo) > Cap)
    <2>1. CASE Outstanding(r) # {}
      BY <1>3, <1>5, <2>1 DEF Blank
    <2>2. CASE Outstanding(r) = {}
      <3>1. mem'[r] = Dispatched(m, rows[r].waiting)
        BY <1>3, <2>2
      <3> QED
        BY <1>1, <1>4, <2>2, <3>1, DispatchedFields DEF Blank
    <2> QED
      BY <2>1, <2>2
  <1>7. rows'[r].status = "extracting" /\ rows'[r].ids = rows[r].ids
    BY <1>1, <1>2 DEF TypeOK, Row
  <1>8. used' = [used EXCEPT !.events = @ + 1,
                             !.raised = IF over THEN @ \cup {r} ELSE @]
    BY DEF Resume
  <1>9. used'.crashes = used.crashes /\ used.raised \subseteq used'.raised
        /\ (over => r \in used'.raised)
    BY <1>8 DEF TypeOK
  <1> QED
    BY <1>2, <1>6, <1>7, <1>9 DEF Counted

(* The two ways of cancel.                                                 *)
LEMMA CancelEffects ==
    ASSUME TypeOK, NEW r \in Runs, Quiet, CancelActive(r) \/ CancelPaused(r)
    PROVE  /\ UNCHANGED <<results, batches, charges>> /\ Counted(r)
           /\ rows'[r].ids = rows[r].ids
           /\ mem[r].stage \notin {"booking", "closing", "opening"}
           /\ mem'[r].flying = mem[r].flying /\ mem'[r].todo = mem[r].todo
           /\ mem'[r].threw = mem[r].threw /\ mem'[r].spent = mem[r].spent
           /\ mem'[r].over = mem[r].over
           /\ CancelActive(r) =>
                /\ mem[r].stage \notin {"idle", "orphaned"}
                /\ mem'[r].stage = mem[r].stage /\ mem'[r].aborted
                /\ UNCHANGED rows
           /\ ~CancelActive(r) =>
                /\ mem[r].stage \in {"idle", "orphaned"}
                /\ rows[r].status \notin Terminal \cup {"none"}
                /\ mem'[r].stage = "closing" /\ rows'[r].status = "cancelled"
                /\ mem'[r].aborted = mem[r].aborted
  <1>1. rows[r] \in Row /\ mem[r] \in Attempt
    BY DEF TypeOK
  <1>2. used' = [used EXCEPT !.events = @ + 1]
    BY DEF CancelActive, CancelPaused
  <1>3. used'.crashes = used.crashes /\ used'.raised = used.raised
    BY <1>2 DEF TypeOK
  <1>4. ~InTurn(r)
    BY DEF Quiet
  <1>5. CASE CancelActive(r)
    <2>1. mem'[r] = [mem[r] EXCEPT !.aborted = TRUE] /\ UNCHANGED rows
      BY <1>5 DEF CancelActive, TypeOK
    <2>2. mem[r].stage \notin {"idle", "orphaned", "booking", "closing", "opening"}
      BY <1>4, <1>5 DEF CancelActive, Active, InTurn
    <2>3. /\ mem'[r].stage = mem[r].stage /\ mem'[r].aborted
          /\ mem'[r].flying = mem[r].flying /\ mem'[r].todo = mem[r].todo
          /\ mem'[r].threw = mem[r].threw /\ mem'[r].spent = mem[r].spent
          /\ mem'[r].over = mem[r].over
      BY <1>1, <2>1 DEF Attempt
    <2>4. Counted(r)
      BY <1>3, <2>3 DEF Counted
    <2>5. UNCHANGED <<results, batches, charges>>
      BY <1>5 DEF CancelActive
    <2> QED
      BY <1>5, <2>1, <2>2, <2>3, <2>4, <2>5
  <1>6. CASE ~CancelActive(r)
    <2>1. CancelPaused(r)
      BY <1>6
    <2>2. mem'[r] = [mem[r] EXCEPT !.stage = "closing"]
      BY <2>1 DEF CancelPaused, TypeOK
    <2>3. rows'[r].status = "cancelled" /\ rows'[r].ids = rows[r].ids
      BY <1>1, <2>1 DEF CancelPaused, TypeOK, Row
    <2>4. mem[r].stage \in {"idle", "orphaned"} /\ rows[r].status \notin Terminal \cup {"none"}
      BY <2>1 DEF CancelPaused, Resumable, Active
    <2> QED
      BY <1>1, <1>3, <1>6, <2>1, <2>2, <2>3, <2>4 DEF CancelPaused, Counted, Attempt
  <1> QED
    BY <1>5, <1>6

(* The second write of start.                                              *)
LEMMA EnterEffects ==
    ASSUME TypeOK, NEW r \in Runs, Enter(r)
    PROVE  /\ UNCHANGED <<results, batches, charges, used>>
           /\ rows'[r].ids = rows[r].ids /\ rows'[r].cost = rows[r].cost
           /\ mem[r].stage = "opening"
           /\ \/ mem'[r] = NoAttempt /\ rows'[r].status = "blocked_budget"
              \/ /\ rows'[r].status = "extracting"
                 /\ mem'[r].flying = mem[r].flying /\ mem'[r].threw = mem[r].threw
                 /\ mem'[r].spent = mem[r].spent /\ mem'[r].over = mem[r].over
                 /\ mem'[r].stage \in {"extracting", "submitting"}
                 /\ mem'[r].stage = "submitting" =>
                      mem'[r].over \/ ~(mem'[r].spent + Cardinality(mem'[r].todo) > Cap)
  <1> DEFINE row == [rows[r] EXCEPT !.kept = paths[r] = "kept"]
  <1>1. rows[r] \in Row /\ mem[r] \in Attempt
    BY DEF TypeOK
  <1>2. row \in Row /\ row.ids = rows[r].ids /\ row.cost = rows[r].cost
    BY <1>1 DEF Row
  <1>3. UNCHANGED <<results, batches, charges, used>> /\ mem[r].stage = "opening"
    BY DEF Enter
  <1>4. \/ /\ rows'[r] = [row EXCEPT !.status = "extracting"]
           /\ mem'[r] = Dispatched(mem[r], row.waiting)
        \/ /\ rows'[r] = [row EXCEPT !.status = "blocked_budget"]
           /\ mem'[r] = NoAttempt
    BY DEF Enter, TypeOK
  <1> HIDE DEF row
  <1>5. \A s \in {"extracting", "blocked_budget"} :
          LET n == [row EXCEPT !.status = s]
          IN  n.status = s /\ n.ids = rows[r].ids /\ n.cost = rows[r].cost
    BY <1>2 DEF Row
  <1>6. row.waiting \in BOOLEAN
    BY <1>2 DEF Row
  <1>7. CASE rows'[r] = [row EXCEPT !.status = "extracting"]
             /\ mem'[r] = Dispatched(mem[r], row.waiting)
    BY <1>1, <1>3, <1>5, <1>6, <1>7, DispatchedFields
  <1>8. CASE rows'[r] = [row EXCEPT !.status = "blocked_budget"] /\ mem'[r] = NoAttempt
    BY <1>3, <1>5, <1>8
  <1> QED
    BY <1>4, <1>7, <1>8

(* The id of the batch goes to the row.                                    *)
LEMMA BookEffects ==
    ASSUME TypeOK, NEW r \in Runs, Book(r)
    PROVE  /\ UNCHANGED <<results, batches, charges, used>>
           /\ mem[r].stage = "booking" /\ mem'[r].stage = "waiting"
           /\ rows'[r].ids = rows[r].ids \cup {Len(batches[r])}
           /\ mem'[r].flying = mem[r].flying /\ mem'[r].todo = mem[r].todo
           /\ Carries(r)
  <1>1. rows[r] \in Row /\ mem[r] \in Attempt
    BY DEF TypeOK
  <1>2. rows'[r] = [rows[r] EXCEPT !.ids = @ \cup {Len(batches[r])}]
        /\ mem'[r] = [mem[r] EXCEPT !.stage = "waiting"]
    BY DEF Book, TypeOK
  <1>3. /\ rows'[r].status = rows[r].status /\ rows'[r].cost = rows[r].cost
        /\ rows'[r].ids = rows[r].ids \cup {Len(batches[r])}
    BY <1>1, <1>2 DEF Row
  <1>4. /\ mem'[r].stage = "waiting"
        /\ mem'[r].flying = mem[r].flying /\ mem'[r].todo = mem[r].todo
        /\ mem'[r].aborted = mem[r].aborted /\ mem'[r].over = mem[r].over
        /\ mem'[r].spent = mem[r].spent /\ mem'[r].threw = mem[r].threw
    BY <1>1, <1>2 DEF Attempt
  <1> QED
    BY <1>3, <1>4 DEF Book, Carries

(* active.delete.                                                          *)
LEMMA ReleaseEffects ==
    ASSUME TypeOK, NEW r \in Runs, Release(r) \/ OrphansEnd(r)
    PROVE  /\ UNCHANGED <<rows, results, batches, charges, used>>
           /\ \/ /\ Release(r) /\ mem[r].threw > 0
                 /\ mem[r].stage = "closing" /\ mem'[r].stage = "orphaned"
                 /\ mem'[r].flying = mem[r].flying /\ mem'[r].todo = mem[r].todo
                 /\ Carries(r)
              \/ Release(r) /\ ~(mem[r].threw > 0) /\ mem[r].stage = "closing"
                 /\ mem'[r] = NoAttempt
              \/ OrphansEnd(r) /\ mem[r].stage = "orphaned" /\ mem[r].flying = {}
                 /\ mem'[r] = NoAttempt
  <1>1. mem[r] \in Attempt
    BY DEF TypeOK
  <1>2. CASE Release(r)
    <2>1. mem'[r] = (IF mem[r].threw > 0 THEN [mem[r] EXCEPT !.stage = "orphaned"]
                                         ELSE NoAttempt)
      BY <1>2 DEF Release, TypeOK
    <2>2. LET n == [mem[r] EXCEPT !.stage = "orphaned"]
          IN  /\ n.stage = "orphaned" /\ n.flying = mem[r].flying /\ n.todo = mem[r].todo
              /\ n.aborted = mem[r].aborted /\ n.over = mem[r].over
              /\ n.spent = mem[r].spent /\ n.threw = mem[r].threw
      BY <1>1 DEF Attempt
    <2>3. /\ UNCHANGED <<rows, results, batches, charges, used>>
          /\ mem[r].stage = "closing"
      BY <1>2 DEF Release
    <2> QED
      BY <1>2, <2>1, <2>2, <2>3 DEF Carries
  <1>3. CASE OrphansEnd(r)
    BY <1>3 DEF OrphansEnd, Drained, TypeOK
  <1> QED
    BY <1>2, <1>3

(* A worker: it stops, replays an answer, or calls.                        *)
LEMMA TakeEffects ==
    ASSUME TypeOK, NEW r \in Runs, Take(r)
    PROVE  /\ UNCHANGED <<rows, results, batches, charges>> /\ Counted(r) /\ Carries(r)
           /\ CanTake(r) /\ mem'[r].stage = mem[r].stage
           /\ mem'[r].todo \subseteq mem[r].todo
           /\ \/ mem'[r].flying = mem[r].flying
              \/ \E u \in mem[r].todo \ results :
                    /\ ~mem[r].aborted /\ ~WouldExceed(mem[r], 1)
                    /\ mem'[r].flying = mem[r].flying \cup {u}
                    /\ mem'[r].todo = mem[r].todo \ {u}
  <1>1. mem[r] \in Attempt
    BY DEF TypeOK
  <1>2. /\ UNCHANGED <<rows, results, batches, charges>> /\ CanTake(r)
        /\ UNCHANGED used \/ used' = [used EXCEPT !.events = @ + 1]
    BY DEF Take
  <1>3. used'.crashes = used.crashes /\ used'.raised = used.raised
    BY <1>2 DEF TypeOK
  <1>4. PICK u \in NextUnits(r) :
           \/ mem'[r] = [mem[r] EXCEPT !.stop = "cancelled"]
           \/ mem'[r] = [mem[r] EXCEPT !.stop = "budget"]
           \/ mem'[r] = Replayed(mem[r], u)
           \/ /\ mem'[r] = [mem[r] EXCEPT !.todo = @ \ {u}, !.flying = @ \cup {u}]
              /\ u \notin results /\ ~mem[r].aborted /\ ~WouldExceed(mem[r], 1)
    BY DEF Take, TypeOK
  <1>5. u \in mem[r].todo
    BY DEF NextUnits
  <1>6. \A m \in {[mem[r] EXCEPT !.stop = "cancelled"], [mem[r] EXCEPT !.stop = "budget"],
                  Replayed(mem[r], u)} :
          /\ m.stage = mem[r].stage /\ m.flying = mem[r].flying
          /\ m.todo \subseteq mem[r].todo /\ m.aborted = mem[r].aborted
          /\ m.over = mem[r].over /\ m.spent = mem[r].spent /\ m.threw = mem[r].threw
    <2>1. ASSUME NEW m \in {[mem[r] EXCEPT !.stop = "cancelled"],
                            [mem[r] EXCEPT !.stop = "budget"]}
          PROVE  /\ m.stage = mem[r].stage /\ m.flying = mem[r].flying
                 /\ m.todo = mem[r].todo /\ m.aborted = mem[r].aborted
                 /\ m.over = mem[r].over /\ m.spent = mem[r].spent
                 /\ m.threw = mem[r].threw
      BY <1>1 DEF Attempt
    <2>2. LET m == Replayed(mem[r], u)
          IN  /\ m.stage = mem[r].stage /\ m.flying = mem[r].flying
              /\ m.todo \subseteq mem[r].todo /\ m.aborted = mem[r].aborted
              /\ m.over = mem[r].over /\ m.spent = mem[r].spent
              /\ m.threw = mem[r].threw
      BY <1>1 DEF Attempt, Replayed
    <2> QED
      BY <2>1, <2>2
  <1>7. LET m == [mem[r] EXCEPT !.todo = @ \ {u}, !.flying = @ \cup {u}]
        IN  /\ m.stage = mem[r].stage /\ m.flying = mem[r].flying \cup {u}
            /\ m.todo = mem[r].todo \ {u} /\ m.aborted = mem[r].aborted
            /\ m.over = mem[r].over /\ m.spent = mem[r].spent /\ m.threw = mem[r].threw
    BY <1>1 DEF Attempt
  <1>8. /\ mem'[r].stage = mem[r].stage /\ mem'[r].aborted = mem[r].aborted
        /\ mem'[r].todo \subseteq mem[r].todo
        /\ mem'[r].over = mem[r].over /\ mem'[r].spent = mem[r].spent
        /\ mem'[r].threw = mem[r].threw
    BY <1>4, <1>6, <1>7
  <1>9. \/ mem'[r].flying = mem[r].flying
        \/ /\ u \notin results /\ ~mem[r].aborted /\ ~WouldExceed(mem[r], 1)
           /\ mem'[r].flying = mem[r].flying \cup {u}
           /\ mem'[r].todo = mem[r].todo \ {u}
    BY <1>4, <1>6, <1>7
  <1> QED
    BY <1>2, <1>3, <1>5, <1>8, <1>9 DEF Counted, Carries

(* What becomes of an attempt whose stage is over.                         *)
Closes(r) ==
    /\ mem'[r].stage = "closing" /\ rows'[r].status \in {"cancelled", "failed"}
    /\ mem'[r].flying = mem[r].flying /\ mem'[r].over = mem[r].over
    /\ mem'[r].spent = mem[r].spent /\ mem'[r].threw = mem[r].threw
    /\ mem'[r].todo = mem[r].todo /\ mem'[r].aborted = mem[r].aborted

Rests(r) ==
    /\ mem'[r] = NoAttempt
    /\ rows'[r].status \in {"blocked_budget", "completed"}
    /\ rows'[r].cost = mem[r].spent
    /\ mem[r].stage = "extracting" => ~mem[r].aborted

GoesOn(r) ==
    /\ mem'[r].stage \in {"consolidating", "outline", "first", "modules"}
    /\ rows'[r].status \in Generating \cup {rows[r].status}
    /\ mem[r].stage \in {"extracting", "consolidating"} => ~mem[r].aborted
    /\ mem'[r].aborted = mem[r].aborted
    /\ mem'[r].flying = mem[r].flying /\ mem'[r].over = mem[r].over
    /\ mem'[r].spent = mem[r].spent /\ mem'[r].threw = mem[r].threw

(* The end of a stage pays nothing, submits nothing and leaves the ids of  *)
(* the row alone.                                                          *)
LEMMA EndsEffects ==
    ASSUME TypeOK, NEW r \in Runs,
           \/ ExtractionEnds(r) \/ Consolidated(r) \/ OutlineEnds(r)
           \/ FirstEnds(r) \/ SynthesisEnds(r)
    PROVE  /\ UNCHANGED <<results, batches, charges, used>>
           /\ rows'[r].ids = rows[r].ids
           /\ mem[r].stage \in {"extracting", "consolidating", "outline", "first", "modules"}
           /\ mem[r].stage # "consolidating" => mem[r].flying = {}
           /\ mem[r].stage = "consolidating" => ~Rests(r)
           /\ Closes(r) \/ Rests(r) \/ GoesOn(r)
  <1> DEFINE m == [mem[r] EXCEPT !.usage = mem[r].spent]
  <1>1. rows[r] \in Row /\ mem[r] \in Attempt
    BY DEF TypeOK
  <1>2. /\ m \in Attempt /\ m.usage = mem[r].spent /\ m.stage = mem[r].stage
        /\ m.flying = mem[r].flying /\ m.over = mem[r].over /\ m.spent = mem[r].spent
        /\ m.threw = mem[r].threw /\ m.todo = mem[r].todo /\ m.aborted = mem[r].aborted
        /\ m.stop = mem[r].stop
    BY <1>1 DEF Attempt
  <1>f. ASSUME NEW status \in {"cancelled", "failed"}, Finish(r, status, m)
        PROVE  Closes(r) /\ rows'[r].ids = rows[r].ids
    BY <1>2, <1>f, FinishEffects DEF Closes
  <1>b. ASSUME Finish(r, "blocked_budget", m), mem[r].stage = "extracting" => ~mem[r].aborted
        PROVE  Rests(r) /\ rows'[r].ids = rows[r].ids
    BY <1>2, <1>b, FinishEffects DEF Rests
  <1>3. CASE ExtractionEnds(r)
    <2>1. /\ mem[r].stage = "extracting" /\ mem[r].flying = {}
          /\ UNCHANGED <<results, batches, charges, used>>
      BY <1>2, <1>3 DEF ExtractionEnds, Drained
    <2>2. CASE \E status \in {"cancelled", "failed"} : Finish(r, status, m)
      BY <1>f, <2>1, <2>2
    <2>3. CASE Finish(r, "blocked_budget", m) /\ ~m.aborted
      BY <1>2, <1>b, <2>1, <2>3
    <2>4. CASE /\ ~m.aborted
               /\ rows' = [rows EXCEPT ![r].status = "consolidating", ![r].cost = m.usage]
               /\ mem' = [mem EXCEPT ![r] = [m EXCEPT !.stage = "consolidating"]]
      <3> HIDE DEF m
      <3>1. mem'[r] = [m EXCEPT !.stage = "consolidating"]
        BY <2>4 DEF TypeOK
      <3>2. /\ mem'[r].stage = "consolidating" /\ mem'[r].aborted = m.aborted
            /\ mem'[r].flying = m.flying /\ mem'[r].over = m.over
            /\ mem'[r].spent = m.spent /\ mem'[r].threw = m.threw
        BY <1>2, <3>1 DEF Attempt
      <3>3. rows'[r].status = "consolidating" /\ rows'[r].ids = rows[r].ids
        BY <1>1, <2>4 DEF TypeOK, Row
      <3> QED
        BY <1>2, <2>1, <2>4, <3>2, <3>3 DEF GoesOn, Generating
    <2> QED
      BY <1>3, <2>2, <2>3, <2>4 DEF ExtractionEnds
  <1>4. CASE Consolidated(r)
    <2>1. /\ mem[r].stage = "consolidating"
          /\ UNCHANGED <<results, batches, charges, used>>
      BY <1>4 DEF Consolidated
    <2>2. CASE Finish(r, "cancelled", mem[r])
      <3>1. Closes(r) /\ rows'[r].ids = rows[r].ids
        BY <1>1, <2>2, FinishEffects DEF Closes
      <3> QED
        BY <2>1, <3>1, NoAttemptFields DEF Closes, Rests
    <2>3. CASE /\ ~mem[r].aborted
               /\ rows' = [rows EXCEPT ![r].status = "synthesizing"]
               /\ mem' = [mem EXCEPT ![r].stage = "outline", ![r].todo = {Outline}]
      <3>1. mem'[r] = [mem[r] EXCEPT !.stage = "outline", !.todo = {Outline}]
        BY <2>3 DEF TypeOK
      <3>2. /\ mem'[r].stage = "outline" /\ mem'[r].aborted = mem[r].aborted
            /\ mem'[r].flying = mem[r].flying /\ mem'[r].over = mem[r].over
            /\ mem'[r].spent = mem[r].spent /\ mem'[r].threw = mem[r].threw
        BY <1>1, <3>1 DEF Attempt
      <3>3. rows'[r].status = "synthesizing" /\ rows'[r].ids = rows[r].ids
        BY <1>1, <2>3 DEF TypeOK, Row
      <3>4. GoesOn(r)
        BY <2>1, <2>3, <3>2, <3>3 DEF GoesOn, Generating
      <3> QED
        BY <2>1, <3>2, <3>3, <3>4, NoAttemptFields DEF Rests
    <2> QED
      BY <1>4, <2>2, <2>3 DEF Consolidated
  <1>5. CASE OutlineEnds(r)
    <2>1. /\ mem[r].stage = "outline" /\ mem[r].flying = {}
          /\ UNCHANGED <<results, batches, charges, used>>
      BY <1>2, <1>5 DEF OutlineEnds, Drained
    <2>2. CASE Finish(r, "cancelled", m)
      BY <1>f, <2>1, <2>2
    <2>3. CASE Finish(r, "blocked_budget", m)
      BY <1>2, <1>b, <2>1, <2>3
    <2>4. CASE /\ UNCHANGED rows
               /\ mem' = [mem EXCEPT ![r].stage = "first", ![r].todo = {<<"module", 1>>}]
      <3>1. mem'[r] = [mem[r] EXCEPT !.stage = "first", !.todo = {<<"module", 1>>}]
        BY <2>4 DEF TypeOK
      <3>2. /\ mem'[r].stage = "first" /\ mem'[r].aborted = mem[r].aborted
            /\ mem'[r].flying = mem[r].flying /\ mem'[r].over = mem[r].over
            /\ mem'[r].spent = mem[r].spent /\ mem'[r].threw = mem[r].threw
        BY <1>1, <3>1 DEF Attempt
      <3> QED
        BY <2>1, <2>4, <3>2 DEF GoesOn
    <2> QED
      BY <1>5, <2>2, <2>3, <2>4 DEF OutlineEnds
  <1>6. CASE FirstEnds(r)
    <2>1. /\ mem[r].stage = "first" /\ mem[r].flying = {}
          /\ UNCHANGED <<rows, results, batches, charges, used>>
      BY <1>6 DEF FirstEnds, Drained
    <2>2. mem'[r] = [mem[r] EXCEPT !.stage = "modules", !.todo = Modules \ {<<"module", 1>>}]
      BY <1>6 DEF FirstEnds, TypeOK
    <2>3. /\ mem'[r].stage = "modules" /\ mem'[r].aborted = mem[r].aborted
          /\ mem'[r].flying = mem[r].flying /\ mem'[r].over = mem[r].over
          /\ mem'[r].spent = mem[r].spent /\ mem'[r].threw = mem[r].threw
      BY <1>1, <2>2 DEF Attempt
    <2> QED
      BY <2>1, <2>3 DEF GoesOn
  <1>7. CASE SynthesisEnds(r)
    <2>1. /\ mem[r].stage = "modules" /\ mem[r].flying = {}
          /\ UNCHANGED <<results, batches, charges, used>>
      BY <1>2, <1>7 DEF SynthesisEnds, Drained
    <2>2. CASE Finish(r, "cancelled", m)
      BY <1>f, <2>1, <2>2
    <2>3. CASE Finish(r, "blocked_budget", m)
      BY <1>2, <1>b, <2>1, <2>3
    <2>4. CASE /\ rows' = [rows EXCEPT ![r].status = "completed", ![r].cost = m.usage]
               /\ mem' = [mem EXCEPT ![r] = NoAttempt]
      <3>1. mem'[r] = NoAttempt
        BY <2>4 DEF TypeOK
      <3> HIDE DEF m
      <3>2. /\ rows'[r].status = "completed" /\ rows'[r].ids = rows[r].ids
            /\ rows'[r].cost = m.usage
        BY <1>1, <1>2, <2>4 DEF TypeOK, Row
      <3> QED
        BY <1>2, <2>1, <3>1, <3>2 DEF Rests
    <2> QED
      BY <1>7, <2>2, <2>3, <2>4 DEF SynthesisEnds
  <1> QED
    BY <1>3, <1>4, <1>5, <1>6, <1>7

(* A submission that comes back is one more batch.                         *)
LEMMA SubmitReturnsEffects ==
    ASSUME TypeInv, NEW r \in Runs, SubmitReturns(r)
    PROVE  /\ UNCHANGED <<rows, results, charges, used>> /\ Quiet
           /\ mem[r].stage = "submitting" /\ mem'[r].stage = "booking"
           /\ mem'[r].flying = mem[r].flying /\ mem'[r].todo = mem[r].todo
           /\ Carries(r)
           /\ \A q \in Runs \ {r} : batches'[q] = batches[q]
           /\ Len(batches'[r]) = Len(batches[r]) + 1
           /\ \A k \in 1 .. Len(batches[r]) : batches'[r][k] = batches[r][k]
           /\ LET b == batches'[r][Len(batches[r]) + 1]
              IN  /\ b.items \subseteq mem[r].todo \ results /\ b.answered = {}
                  /\ b.status \in {"running", "ended"}
           /\ mem[r].todo \subseteq Chunks
  <1> DEFINE asked == {u \in mem[r].todo : {u, Invalid(u)} \cap results = {}}
             b == [items |-> asked, answered |-> {},
                   status |-> IF asked = {} THEN "ended" ELSE "running"]
  <1>1. mem[r] \in Attempt /\ batches[r] \in Seq(Batch)
    BY DEF TypeInv, TypeOK
  <1>2. mem[r].stage = "submitting" /\ mem[r].todo \subseteq Chunks
    BY DEF SubmitReturns, TypeInv, AsksChunks
  <1>3. b \in Batch /\ b.items = asked /\ b.answered = {} /\ b.status \in {"running", "ended"}
    BY <1>2 DEF Batch
  <1>4. batches'[r] = Append(batches[r], b)
    BY DEF SubmitReturns, TypeInv, TypeOK
  <1>5. \A q \in Runs \ {r} : batches'[q] = batches[q]
    BY DEF SubmitReturns, TypeInv, TypeOK
  <1>6. mem'[r] = [mem[r] EXCEPT !.stage = "booking"]
    BY DEF SubmitReturns, TypeInv, TypeOK
  <1>7. /\ mem'[r].stage = "booking"
        /\ mem'[r].flying = mem[r].flying /\ mem'[r].todo = mem[r].todo
        /\ mem'[r].aborted = mem[r].aborted /\ mem'[r].over = mem[r].over
        /\ mem'[r].spent = mem[r].spent /\ mem'[r].threw = mem[r].threw
    BY <1>1, <1>6 DEF Attempt
  <1> HIDE DEF b
  <1>8. /\ Len(batches'[r]) = Len(batches[r]) + 1
        /\ \A k \in 1 .. Len(batches[r]) : batches'[r][k] = batches[r][k]
        /\ batches'[r][Len(batches[r]) + 1] = b
    BY <1>1, <1>3, <1>4, AppendProperties
  <1>9. UNCHANGED <<rows, results, charges, used>> /\ Quiet
    BY DEF SubmitReturns
  <1> QED
    BY <1>2, <1>3, <1>5, <1>7, <1>8, <1>9 DEF Carries

(* The plain returns of a call, a batch or a sleep.                        *)
LEMMA ReturnEffects ==
    ASSUME TypeOK, NEW r \in Runs,
           SubmitFails(r) \/ AwaitedOver(r) \/ BatchReadBack(r) \/ BatchDropped(r)
    PROVE  /\ UNCHANGED <<rows, results, batches, charges>> /\ Counted(r)
           /\ mem[r].stage \in {"submitting", "awaiting", "waiting", "dropping"}
           /\ mem[r].stage \in {"awaiting", "waiting"} => Outstanding(r) = {}
           /\ mem'[r].stage \in {"extracting", "submitting"}
           /\ mem'[r].stage = "submitting" =>
                /\ ~mem[r].aborted
                /\ mem'[r].over \/ ~(mem'[r].spent + Cardinality(mem'[r].todo) > Cap)
           /\ mem'[r].flying = mem[r].flying /\ mem'[r].over = mem[r].over
           /\ mem'[r].threw = mem[r].threw /\ mem'[r].aborted = mem[r].aborted
           /\ mem'[r].spent = mem[r].spent +
                (IF mem[r].stage = "waiting" /\ ~mem[r].aborted
                 THEN Cardinality(mem[r].todo \cap results) ELSE 0)
  <1>1. mem[r] \in Attempt /\ rows[r].waiting \in BOOLEAN
    BY DEF TypeOK, Row
  <1>2. UNCHANGED <<rows, results, batches, charges>>
    BY DEF SubmitFails, AwaitedOver, BatchReadBack, BatchDropped
  <1>3. UNCHANGED used \/ used' = [used EXCEPT !.events = @ + 1]
    BY DEF SubmitFails, AwaitedOver, BatchReadBack, BatchDropped
  <1>4. used'.crashes = used.crashes /\ used'.raised = used.raised
    BY <1>3 DEF TypeOK
  <1>5. mem[r].spent \in Nat /\ mem[r].spent + 0 = mem[r].spent
    BY <1>1 DEF Attempt
  <1>6. CASE SubmitFails(r)
    <2>1. mem[r].stage = "submitting"
      BY <1>6 DEF SubmitFails
    <2>2. PICK s \in {"no", "cancelled", "budget"} :
             \/ mem'[r] = [mem[r] EXCEPT !.stage = "extracting"]
             \/ mem'[r] = [mem[r] EXCEPT !.stage = "extracting", !.stop = s]
      <3> DEFINE m == [mem[r] EXCEPT !.stage = "extracting"]
      <3>1. \/ mem'[r] = m \/ mem'[r] = [m EXCEPT !.stop = "cancelled"]
            \/ mem'[r] = [m EXCEPT !.stop = "budget"]
        BY <1>6 DEF SubmitFails, TypeOK
      <3>2. \A s \in {"cancelled", "budget"} :
               [m EXCEPT !.stop = s] = [mem[r] EXCEPT !.stage = "extracting", !.stop = s]
        BY <1>1 DEF Attempt
      <3> QED
        BY <3>1, <3>2
    <2>3. /\ mem'[r].stage = "extracting"
          /\ mem'[r].flying = mem[r].flying /\ mem'[r].over = mem[r].over
          /\ mem'[r].threw = mem[r].threw /\ mem'[r].aborted = mem[r].aborted
          /\ mem'[r].spent = mem[r].spent
      BY <1>1, <2>2 DEF Attempt
    <2> QED
      BY <1>2, <1>4, <1>5, <2>1, <2>3 DEF Counted
  <1>7. CASE AwaitedOver(r)
    <2>1. mem[r].stage = "awaiting" /\ Outstanding(r) = {}
      BY <1>7 DEF AwaitedOver
    <2>2. mem'[r] = Dispatched(mem[r], rows[r].waiting)
      BY <1>7 DEF AwaitedOver, TypeOK
    <2>3. /\ mem'[r].stage \in {"extracting", "submitting"}
          /\ mem'[r].stage = "submitting" =>
               /\ ~mem[r].aborted
               /\ mem'[r].over \/ ~(mem'[r].spent + Cardinality(mem'[r].todo) > Cap)
          /\ mem'[r].flying = mem[r].flying /\ mem'[r].over = mem[r].over
          /\ mem'[r].threw = mem[r].threw /\ mem'[r].aborted = mem[r].aborted
          /\ mem'[r].spent = mem[r].spent
      BY <1>1, <2>2, DispatchedFields
    <2> QED
      BY <1>2, <1>4, <1>5, <2>1, <2>3 DEF Counted
  <1>8. CASE BatchReadBack(r)
    <2>1. mem[r].stage = "waiting" /\ Outstanding(r) = {}
      BY <1>8 DEF BatchReadBack
    <2>2. mem'[r] = ReadBack(mem[r])
      BY <1>8 DEF BatchReadBack, TypeOK
    <2>3. CASE mem[r].aborted
      <3>1. mem'[r] = [mem[r] EXCEPT !.stage = "extracting", !.todo = {}]
        BY <2>2, <2>3 DEF ReadBack
      <3>2. /\ mem'[r].stage = "extracting"
            /\ mem'[r].flying = mem[r].flying /\ mem'[r].over = mem[r].over
            /\ mem'[r].threw = mem[r].threw /\ mem'[r].aborted = mem[r].aborted
            /\ mem'[r].spent = mem[r].spent
        BY <1>1, <3>1 DEF Attempt
      <3> QED
        BY <1>2, <1>4, <1>5, <2>1, <2>3, <3>2 DEF Counted
    <2>4. CASE ~mem[r].aborted
      <3> DEFINE back == mem[r].todo \cap results
      <3>1. mem'[r] = [mem[r] EXCEPT !.stage = "extracting", !.called = @ \cup back,
                                     !.todo = @ \ back, !.spent = @ + Cardinality(back)]
        BY <2>2, <2>4 DEF ReadBack
      <3> HIDE DEF back
      <3>2. /\ mem'[r].stage = "extracting"
            /\ mem'[r].flying = mem[r].flying /\ mem'[r].over = mem[r].over
            /\ mem'[r].threw = mem[r].threw /\ mem'[r].aborted = mem[r].aborted
            /\ mem'[r].spent = mem[r].spent + Cardinality(back)
        BY <1>1, <3>1 DEF Attempt
      <3> QED
        BY <1>2, <1>4, <2>1, <2>4, <3>2 DEF Counted, back
    <2> QED
      BY <2>3, <2>4
  <1>9. CASE BatchDropped(r)
    <2>1. mem[r].stage = "dropping"
      BY <1>9 DEF BatchDropped
    <2>2. mem'[r] = [mem[r] EXCEPT !.stage = "extracting", !.todo = {}]
      BY <1>9 DEF BatchDropped, TypeOK
    <2>3. /\ mem'[r].stage = "extracting"
          /\ mem'[r].flying = mem[r].flying /\ mem'[r].over = mem[r].over
          /\ mem'[r].threw = mem[r].threw /\ mem'[r].aborted = mem[r].aborted
          /\ mem'[r].spent = mem[r].spent
      BY <1>1, <2>2 DEF Attempt
    <2> QED
      BY <1>2, <1>4, <1>5, <2>1, <2>3 DEF Counted
  <1> QED
    BY <1>6, <1>7, <1>8, <1>9

(* A call that is answered is charged, wherever its run has got to.        *)
LEMMA AnswerEffects ==
    ASSUME TypeOK, NEW r \in Runs, NEW u \in Units, CallAnswered(r, u)
    PROVE  /\ UNCHANGED <<rows, batches>> /\ Steady /\ Quiet
           /\ u \in mem[r].flying
           /\ Answered(u)
           /\ \A q \in Runs \ {r} : charges'[q] = charges[q]
           /\ \A v \in Units :
                charges'[r][v] = charges[r][v] + (IF v = u THEN 1 ELSE 0)
           /\ mem'[r].stage = mem[r].stage /\ mem'[r].todo = mem[r].todo
           /\ mem'[r].flying = mem[r].flying \ {u}
           /\ mem'[r].spent = mem[r].spent + 1
           /\ mem'[r].aborted = mem[r].aborted /\ mem'[r].over = mem[r].over
           /\ mem'[r].threw = mem[r].threw
  <1>1. mem[r] \in Attempt
    BY DEF TypeOK
  <1>2. mem'[r] = [mem[r] EXCEPT !.flying = @ \ {u}, !.spent = @ + 1,
                                 !.called = IF u \in Chunks THEN @ \cup {u} ELSE @]
    BY DEF CallAnswered, TypeOK
  <1>3. /\ mem'[r].stage = mem[r].stage /\ mem'[r].todo = mem[r].todo
        /\ mem'[r].flying = mem[r].flying \ {u}
        /\ mem'[r].spent = mem[r].spent + 1
        /\ mem'[r].aborted = mem[r].aborted /\ mem'[r].over = mem[r].over
        /\ mem'[r].threw = mem[r].threw
    BY <1>1, <1>2 DEF Attempt
  <1>4. charges' = [charges EXCEPT ![r][u] = @ + 1]
    BY DEF CallAnswered
  <1>5. /\ \A q \in Runs \ {r} : charges'[q] = charges[q]
        /\ \A v \in Units :
             charges'[r][v] = charges[r][v] + (IF v = u THEN 1 ELSE 0)
    BY <1>4 DEF TypeOK
  <1>6. /\ UNCHANGED <<rows, batches>> /\ Quiet /\ u \in mem[r].flying
        /\ results' = (results \ {Invalid(u)}) \cup {u}
    BY DEF CallAnswered
  <1>7. Answered(u)
    BY <1>6 DEF Answered, Invalid, Units, Chunks, Outline, Modules
  <1>8. Steady
    BY DEF CallAnswered, Steady, TypeOK
  <1> QED
    BY <1>3, <1>5, <1>6, <1>7, <1>8

(* A call that fails leaves what is in flight; a module closes the run.    *)
LEMMA FailEffects ==
    ASSUME TypeOK, NEW r \in Runs, NEW u \in Units, CallFails(r, u)
    PROVE  /\ UNCHANGED <<results, batches, charges>> /\ Counted(r) /\ Quiet
           /\ u \in mem[r].flying
           /\ rows'[r].ids = rows[r].ids
           /\ mem'[r].flying = mem[r].flying \ {u} /\ mem'[r].todo = mem[r].todo
           /\ mem'[r].spent = mem[r].spent /\ mem'[r].aborted = mem[r].aborted
           /\ mem'[r].over = mem[r].over
           /\ \/ /\ Active(r) /\ ~mem[r].aborted /\ u \notin Chunks
                 /\ mem'[r].stage = "closing" /\ rows'[r].status = "failed"
                 /\ mem'[r].threw = mem[r].threw + 1
              \/ /\ mem'[r].stage = mem[r].stage /\ UNCHANGED rows
                 /\ \/ mem'[r].threw = mem[r].threw
                    \/ mem'[r].threw = mem[r].threw + 1 /\ ~Active(r)
  <1> DEFINE m == [mem[r] EXCEPT !.flying = @ \ {u}]
             thrown == [m EXCEPT !.threw = @ + 1]
             a == [m EXCEPT !.stop = "cancelled"]
             b == [m EXCEPT !.failed = @ \cup {u}]
  <1>1. mem[r] \in Attempt
    BY DEF TypeOK
  <1>2. thrown \in Attempt
    BY <1>1, AttemptWrites
  <1>3. /\ thrown.stage = mem[r].stage /\ thrown.flying = mem[r].flying \ {u}
        /\ thrown.todo = mem[r].todo /\ thrown.spent = mem[r].spent
        /\ thrown.aborted = mem[r].aborted /\ thrown.over = mem[r].over
        /\ thrown.threw = mem[r].threw + 1
    BY <1>1 DEF Attempt
  <1>4. \A n \in {a, b} :
           /\ n.stage = mem[r].stage /\ n.flying = mem[r].flying \ {u}
           /\ n.todo = mem[r].todo /\ n.spent = mem[r].spent
           /\ n.aborted = mem[r].aborted /\ n.over = mem[r].over
           /\ n.threw = mem[r].threw
    BY <1>1 DEF Attempt
  <1>5. used' = [used EXCEPT !.events = @ + 1]
    BY DEF CallFails
  <1>6. used'.crashes = used.crashes /\ used'.raised = used.raised
    BY <1>5 DEF TypeOK
  <1>7. /\ UNCHANGED <<results, batches, charges>> /\ Quiet
        /\ u \in mem[r].flying
    BY DEF CallFails
  <1>a. m.aborted = mem[r].aborted
    BY <1>1 DEF Attempt
  <1>8. \/ /\ Active(r) /\ ~mem[r].aborted /\ u \notin Chunks
           /\ Finish(r, "failed", thrown)
        \/ /\ UNCHANGED rows /\ ~Active(r) /\ mem'[r] = thrown
        \/ /\ UNCHANGED rows /\ mem'[r] \in {a, b}
    <2>1. \/ m.aborted /\ mem' = [mem EXCEPT ![r] = a] /\ UNCHANGED rows
          \/ mem' = [mem EXCEPT ![r] = b] /\ UNCHANGED rows
          \/ ~m.aborted /\ u \notin Chunks /\ Active(r) /\ Finish(r, "failed", thrown)
          \/ /\ ~Active(r)
             /\ mem' = [mem EXCEPT ![r] = thrown] /\ UNCHANGED rows
      BY DEF CallFails
    <2> HIDE DEF m, thrown, a, b
    <2> QED
      BY <1>a, <2>1 DEF TypeOK
  <1> HIDE DEF m, thrown, a, b
  <1>9. CASE /\ Active(r) /\ ~mem[r].aborted /\ u \notin Chunks
             /\ Finish(r, "failed", thrown)
    <2>1. /\ rows'[r].status = "failed" /\ rows'[r].ids = rows[r].ids
          /\ mem'[r].stage = "closing"
          /\ mem'[r].flying = thrown.flying /\ mem'[r].todo = thrown.todo
          /\ mem'[r].threw = thrown.threw /\ mem'[r].over = thrown.over
          /\ mem'[r].spent = thrown.spent /\ mem'[r].aborted = thrown.aborted
      BY <1>2, <1>9, FinishEffects
    <2> QED
      BY <1>3, <1>6, <1>7, <1>9, <2>1 DEF Counted
  <1>10. CASE UNCHANGED rows /\ ~Active(r) /\ mem'[r] = thrown
    BY <1>3, <1>6, <1>7, <1>10 DEF Counted
  <1>11. CASE UNCHANGED rows /\ mem'[r] \in {a, b}
    BY <1>4, <1>6, <1>7, <1>11 DEF Counted
  <1> QED
    BY <1>8, <1>9, <1>10, <1>11

(* cancelBatch closes the batches the row names.                           *)
LEMMA DropEffects ==
    ASSUME TypeInv, NEW r \in Runs, DropBatch(r)
    PROVE  /\ UNCHANGED <<rows, results, charges, used>> /\ Quiet
           /\ mem[r].stage \in {"awaiting", "waiting"} /\ mem'[r].stage = "dropping"
           /\ mem[r].aborted
           /\ mem'[r].flying = mem[r].flying /\ mem'[r].todo = mem[r].todo
           /\ Carries(r)
           /\ \A q \in Runs \ {r} : batches'[q] = batches[q]
           /\ DOMAIN batches'[r] = DOMAIN batches[r]
           /\ Len(batches'[r]) = Len(batches[r])
           /\ \A k \in DOMAIN batches[r] :
                 /\ batches'[r][k].items = batches[r][k].items
                 /\ batches'[r][k].answered = batches[r][k].answered
                 /\ batches'[r][k].status = (IF k \in Outstanding(r) THEN "cancelled"
                                             ELSE batches[r][k].status)
  <1>1. mem[r] \in Attempt /\ batches[r] \in Seq(Batch)
    BY DEF TypeInv, TypeOK
  <1>2. /\ UNCHANGED <<rows, results, charges, used>> /\ Quiet
        /\ mem[r].stage \in {"awaiting", "waiting"} /\ mem[r].aborted
    BY DEF DropBatch
  <1>3. mem'[r] = [mem[r] EXCEPT !.stage = "dropping"]
    BY DEF DropBatch, TypeInv, TypeOK
  <1>4. /\ mem'[r].stage = "dropping"
        /\ mem'[r].flying = mem[r].flying /\ mem'[r].todo = mem[r].todo
        /\ mem'[r].aborted = mem[r].aborted /\ mem'[r].over = mem[r].over
        /\ mem'[r].spent = mem[r].spent /\ mem'[r].threw = mem[r].threw
    BY <1>1, <1>3 DEF Attempt
  <1>5. batches'[r] = [k \in DOMAIN batches[r] |->
                         IF k \in Outstanding(r)
                         THEN [batches[r][k] EXCEPT !.status = "cancelled"]
                         ELSE batches[r][k]]
        /\ \A q \in Runs \ {r} : batches'[q] = batches[q]
    BY DEF DropBatch, TypeInv, TypeOK
  <1>6. DOMAIN batches'[r] = DOMAIN batches[r]
    BY <1>5
  <1>7. batches'[r] \in Seq(Batch)
    <2>1. TypeInv'
      BY RunStepTypes DEF CallStep
    <2> QED
      BY <2>1 DEF TypeInv, TypeOK
  <1>8. Len(batches'[r]) = Len(batches[r])
    BY <1>1, <1>6, <1>7
  <1>9. ASSUME NEW k \in DOMAIN batches[r]
        PROVE  /\ batches'[r][k].items = batches[r][k].items
               /\ batches'[r][k].answered = batches[r][k].answered
               /\ batches'[r][k].status = (IF k \in Outstanding(r) THEN "cancelled"
                                           ELSE batches[r][k].status)
    <2>1. batches[r][k] \in Batch
      BY <1>1
    <2>2. LET b == [batches[r][k] EXCEPT !.status = "cancelled"]
          IN  b.items = batches[r][k].items /\ b.answered = batches[r][k].answered
              /\ b.status = "cancelled"
      BY <2>1 DEF Batch
    <2>3. CASE k \in Outstanding(r)
      <3>1. batches'[r][k] = [batches[r][k] EXCEPT !.status = "cancelled"]
        BY <1>5, <2>3
      <3> QED
        BY <2>2, <2>3, <3>1
    <2>4. CASE k \notin Outstanding(r)
      <3>1. batches'[r][k] = batches[r][k]
        BY <1>5, <2>4
      <3> QED
        BY <2>4, <3>1
    <2> QED
      BY <2>3, <2>4
  <1> QED
    BY <1>2, <1>4, <1>5, <1>6, <1>8, <1>9 DEF Carries

(* A batch ends.                                                           *)
LEMMA EndEffects ==
    ASSUME TypeOK, NEW r \in Runs, NEW k \in DOMAIN batches[r], BatchEnds(r, k)
    PROVE  /\ UNCHANGED <<rows, mem, results, charges, used>> /\ Quiet
           /\ \A q \in Runs \ {r} : batches'[q] = batches[q]
           /\ DOMAIN batches'[r] = DOMAIN batches[r]
           /\ Len(batches'[r]) = Len(batches[r])
           /\ \A j \in DOMAIN batches[r] \ {k} : batches'[r][j] = batches[r][j]
           /\ batches'[r][k].items = batches[r][k].items
           /\ batches'[r][k].answered = batches[r][k].answered
           /\ batches'[r][k].status = "ended"
  <1>1. batches[r] \in Seq(Batch) /\ batches[r][k] \in Batch
    BY DEF TypeOK
  <1>2. batches' = [batches EXCEPT ![r][k].status = "ended"]
    BY DEF BatchEnds
  <1>3. batches'[r] = [batches[r] EXCEPT ![k] = [@ EXCEPT !.status = "ended"]]
        /\ \A q \in Runs \ {r} : batches'[q] = batches[q]
    BY <1>2 DEF TypeOK
  <1>4. LET b == [batches[r][k] EXCEPT !.status = "ended"]
        IN  b \in Batch /\ b.items = batches[r][k].items
            /\ b.answered = batches[r][k].answered /\ b.status = "ended"
    BY <1>1 DEF Batch
  <1>5. /\ DOMAIN batches'[r] = DOMAIN batches[r]
        /\ Len(batches'[r]) = Len(batches[r])
        /\ \A j \in DOMAIN batches[r] \ {k} : batches'[r][j] = batches[r][j]
        /\ batches'[r][k] = [batches[r][k] EXCEPT !.status = "ended"]
    BY <1>1, <1>3, <1>4
  <1> QED
    BY <1>3, <1>4, <1>5 DEF BatchEnds

(* A batch answers a unit, which its run is charged for, or with what does *)
(* not validate.                                                           *)
LEMMA BatchAnswerEffects ==
    ASSUME TypeOK, NEW r \in Runs, NEW k \in DOMAIN batches[r], NEW u \in Chunks,
           BatchAnswers(r, k, u)
    PROVE  /\ UNCHANGED <<rows, mem>> /\ Steady /\ Quiet
           /\ batches[r][k].status = "running"
           /\ u \in batches[r][k].items \ batches[r][k].answered
           /\ \A q \in Runs \ {r} : batches'[q] = batches[q] /\ charges'[q] = charges[q]
           /\ \/ /\ Answered(u)
                 /\ \A v \in Units :
                      charges'[r][v] = charges[r][v] + (IF v = u THEN 1 ELSE 0)
              \/ /\ \A v \in Units : v \in results' <=> v \in results
                 /\ charges' = charges
           /\ DOMAIN batches'[r] = DOMAIN batches[r]
           /\ Len(batches'[r]) = Len(batches[r])
           /\ \A j \in DOMAIN batches[r] \ {k} : batches'[r][j] = batches[r][j]
           /\ batches'[r][k].items = batches[r][k].items
           /\ batches'[r][k].answered = batches[r][k].answered \cup {u}
           /\ batches'[r][k].status = "running"
  <1>1. batches[r] \in Seq(Batch) /\ batches[r][k] \in Batch /\ u \in Units
    BY UnitKinds DEF TypeOK
  <1>2. batches' = [batches EXCEPT ![r][k].answered = @ \cup {u}]
    BY DEF BatchAnswers
  <1> DEFINE b == [batches[r][k] EXCEPT !.answered = @ \cup {u}]
  <1>3. /\ batches'[r] = [batches[r] EXCEPT ![k] = b]
        /\ \A q \in Runs \ {r} : batches'[q] = batches[q]
    <2>1. batches' = [batches EXCEPT ![r] = [batches[r] EXCEPT ![k] = b]]
      BY <1>2
    <2> HIDE DEF b
    <2> QED
      BY <2>1 DEF TypeOK
  <1>4. /\ \A q \in Runs \ {r} : charges'[q] = charges[q]
        /\ \/ /\ Answered(u)
              /\ \A v \in Units :
                   charges'[r][v] = charges[r][v] + (IF v = u THEN 1 ELSE 0)
           \/ /\ \A v \in Units : v \in results' <=> v \in results
              /\ charges' = charges
    <2>1. CASE /\ results' = results \cup {u}
               /\ charges' = [charges EXCEPT ![r][u] = @ + 1]
      BY <1>1, <2>1 DEF TypeOK, Answered
    <2>2. CASE /\ results' = IF u \in results THEN results ELSE results \cup {Invalid(u)}
               /\ UNCHANGED charges
      <3>1. Invalid(u) \notin Units
        BY InvalidApart
      <3> QED
        BY <2>2, <3>1
    <2> QED
      BY <2>1, <2>2 DEF BatchAnswers
  <1>5. /\ b \in Batch /\ b.items = batches[r][k].items
        /\ b.answered = batches[r][k].answered \cup {u}
        /\ b.status = batches[r][k].status
    BY <1>1 DEF Batch
  <1> HIDE DEF b
  <1>6. /\ DOMAIN batches'[r] = DOMAIN batches[r]
        /\ Len(batches'[r]) = Len(batches[r])
        /\ \A j \in DOMAIN batches[r] \ {k} : batches'[r][j] = batches[r][j]
        /\ batches'[r][k] = b
    BY <1>1, <1>3, <1>5
  <1>7. /\ UNCHANGED <<rows, mem>> /\ Quiet
        /\ batches[r][k].status = "running"
        /\ u \in batches[r][k].items \ batches[r][k].answered
    BY DEF BatchAnswers
  <1>8. Steady
    BY DEF BatchAnswers, Steady, TypeOK
  <1> QED
    BY <1>3, <1>4, <1>5, <1>6, <1>7, <1>8

(* A crash empties memory, and charges what it leaves unheard.             *)
LEMMA CrashEffects ==
    ASSUME TypeOK, NEW heard \in BOOLEAN,
           NEW billed \in 0 .. MaxRefused, Crash(heard, billed)
    PROVE  /\ UNCHANGED <<rows, results, batches>>
           /\ used'.crashes = used.crashes + 1 /\ used'.raised = used.raised
           /\ \A r \in Runs :
                /\ mem'[r] = NoAttempt
                /\ \A u \in Units :
                     charges'[r][u] <= charges[r][u] + (IF u \in mem[r].flying THEN 1 ELSE 0)
  <1>1. \A r \in Runs, u \in Units : charges[r][u] \in Nat
    BY DEF TypeOK
  <1>2. \A r \in Runs, u \in Units :
           charges'[r][u] = IF u \in mem[r].flying /\ ~heard THEN charges[r][u] + 1
                                                            ELSE charges[r][u]
    BY DEF Crash
  <1>3. used' = [used EXCEPT !.events = @ + 1, !.crashes = @ + 1]
        /\ UNCHANGED <<rows, results, batches>> /\ \A r \in Runs : mem'[r] = NoAttempt
    BY DEF Crash
  <1>4. used'.crashes = used.crashes + 1 /\ used'.raised = used.raised
    BY <1>3 DEF TypeOK
  <1> QED
    BY <1>1, <1>2, <1>3, <1>4

-----------------------------------------------------------------------------
(* What is paid.                                                           *)

(* The stages of an attempt at work.                                       *)
Alive(r) == mem[r].stage \notin {"idle", "opening", "closing", "orphaned"}

(* What the row says of the attempt, ...                                   *)
Placed(r) ==
    /\ rows[r].status = "none" =>
         mem[r].stage \in {"idle", "opening"} /\ rows[r].ids = {}
    /\ mem[r].stage = "opening" => rows[r].status = "none"
    /\ mem[r].stage \in {"closing", "orphaned"} => rows[r].status \in Terminal
    /\ rows[r].status \in {"blocked_budget", "completed"} => mem[r].stage = "idle"
    /\ used.crashes = 0 /\ rows[r].status \in Generating => Alive(r)
    /\ mem[r].over => r \in used.raised

(* ... and where calls are out.                                            *)
Flight(r) ==
    /\ mem[r].flying \cap mem[r].todo = {}
    /\ mem[r].stage \notin Pools \cup {"closing"} => mem[r].flying = {}
    /\ mem[r].stage \notin {"orphaned", "closing"} => mem[r].threw = 0
    /\ mem[r].stage = "closing" /\ mem[r].flying # {} => mem[r].threw > 0

(* The batches that may still answer a unit, ...                           *)
Live(r, u) ==
    {k \in DOMAIN batches[r] :
        /\ batches[r][k].status = "running"
        /\ u \in batches[r][k].items \ batches[r][k].answered}

(* ... those no row names, because a crash came before onBatch, ...        *)
Lost(r) ==
    {k \in DOMAIN batches[r] :
        /\ batches[r][k].status = "running"
        /\ k \notin rows[r].ids
        /\ ~(mem[r].stage = "booking" /\ k = Len(batches[r]))}

(* ... and those it names: nothing is asked for again before they are over.*)
Settled(r) ==
    \/ Outstanding(r) = {}
    \/ mem[r].stage \in {"awaiting", "waiting"}
    \/ used.crashes # 0 /\ mem[r].stage \in {"idle", "closing"} /\ mem[r].threw = 0

Batched(r) ==
    /\ rows[r].ids \subseteq DOMAIN batches[r]
    /\ mem[r].stage = "booking" =>
         Len(batches[r]) # 0 /\ Len(batches[r]) \notin rows[r].ids
    /\ used.crashes = 0 => Lost(r) = {}
    /\ Settled(r)

(* The answers bought for a unit, and those that still may be: one, and one*)
(* more for a crash.                                                       *)
Billed(r, u) ==
    /\ charges[r][u] + (IF u \in mem[r].flying THEN 1 ELSE 0)
         + Cardinality(Live(r, u)) <= 1 + used.crashes
    /\ u \notin results =>
         charges[r][u] + Cardinality(Live(r, u) \cap Lost(r)) <= used.crashes

PaidInv ==
    /\ RunInv
    /\ \A r \in Runs : Placed(r) /\ Flight(r) /\ Batched(r)
                       /\ \A u \in Units : Billed(r, u)

KeepsPaid(r) ==
    Placed(r)' /\ Flight(r)' /\ Batched(r)' /\ \A u \in Units : Billed(r, u)'

(* Batches can be counted.                                                 *)
LEMMA LiveCounted ==
    ASSUME TypeOK, NEW r \in Runs, NEW u
    PROVE  /\ DOMAIN batches[r] = 1 .. Len(batches[r]) /\ Len(batches[r]) \in Nat
           /\ IsFiniteSet(Live(r, u)) /\ Cardinality(Live(r, u)) \in Nat
           /\ IsFiniteSet(Live(r, u) \cap Lost(r))
           /\ Cardinality(Live(r, u) \cap Lost(r)) \in Nat
  <1>1. DOMAIN batches[r] = 1 .. Len(batches[r]) /\ Len(batches[r]) \in Nat
    BY DEF TypeOK
  <1>2. IsFiniteSet(DOMAIN batches[r])
    BY <1>1, FS_Interval
  <1>3. Live(r, u) \subseteq DOMAIN batches[r]
    BY DEF Live
  <1> QED
    BY <1>1, <1>2, <1>3, FS_Subset, FS_CardinalityType

(* A bill on which nothing was charged, called or asked for.               *)
LEMMA BilledShrinks ==
    ASSUME TypeOK, TypeOK', NEW r \in Runs, NEW u \in Units, Billed(r, u),
           charges'[r][u] = charges[r][u], Remains,
           used'.crashes = used.crashes,
           u \in mem'[r].flying => u \in mem[r].flying,
           Live(r, u)' \subseteq Live(r, u),
           (Live(r, u) \cap Lost(r))' \subseteq Live(r, u) \cap Lost(r)
    PROVE  Billed(r, u)'
  <1>1. /\ Cardinality(Live(r, u)') <= Cardinality(Live(r, u))
        /\ Cardinality((Live(r, u) \cap Lost(r))') <= Cardinality(Live(r, u) \cap Lost(r))
    BY LiveCounted, FS_Subset
  <1>2. /\ Cardinality(Live(r, u)') \in Nat /\ Cardinality(Live(r, u)) \in Nat
        /\ Cardinality((Live(r, u) \cap Lost(r))') \in Nat
        /\ Cardinality(Live(r, u) \cap Lost(r)) \in Nat
    <2>1. /\ Cardinality(Live(r, u)) \in Nat
          /\ Cardinality(Live(r, u) \cap Lost(r)) \in Nat
          /\ IsFiniteSet(Live(r, u)) /\ IsFiniteSet(Live(r, u) \cap Lost(r))
      BY LiveCounted
    <2>2. /\ IsFiniteSet(Live(r, u)') /\ IsFiniteSet((Live(r, u) \cap Lost(r))')
      BY <2>1, FS_Subset
    <2> QED
      BY <2>1, <2>2, FS_CardinalityType
  <1>3. charges[r][u] \in Nat /\ used.crashes \in Nat
    BY DEF TypeOK
  <1> QED
    BY <1>1, <1>2, <1>3 DEF Billed, Remains

(* Where no batch is being booked or waited for, what may still answer is  *)
(* lost.                                                                   *)
LEMMA LiveIsLost ==
    ASSUME TypeOK, NEW r \in Runs, NEW u, mem[r].stage # "booking", Outstanding(r) = {}
    PROVE  Live(r, u) \cap Lost(r) = Live(r, u)
  BY DEF Live, Lost, Outstanding

(* A write that only touches the attempt, the status and the cost.         *)
Attends(r) ==
    /\ UNCHANGED <<results, batches, charges>>
    /\ rows'[r].ids = rows[r].ids
    /\ used'.crashes = used.crashes
    /\ mem[r].stage # "booking" /\ mem'[r].stage # "booking"
    /\ mem'[r].flying \subseteq mem[r].flying
    /\ \/ Outstanding(r) = {}
       \/ mem'[r].stage \in {"awaiting", "waiting"}
       \/ used.crashes # 0 /\ mem'[r].stage \in {"idle", "closing"} /\ mem'[r].threw = 0

Orderly(r) == Attends(r) /\ Placed(r)' /\ Flight(r)'

(* A step of a run that attends to its own business keeps what it paid.    *)
LEMMA AttendsKeeps ==
    ASSUME PaidInv, TypeInv', NEW r \in Runs, Orderly(r)
    PROVE  KeepsPaid(r)
  <1>0. Attends(r) /\ Placed(r)' /\ Flight(r)'
    BY DEF Orderly
  <1>1. TypeOK /\ TypeOK' /\ Batched(r) /\ \A u \in Units : Billed(r, u)
    BY DEF PaidInv, RunInv, TypeInv
  <1>2. /\ \A u : Live(r, u)' = Live(r, u)
        /\ Lost(r)' = Lost(r) /\ Outstanding(r)' = Outstanding(r)
    BY <1>0 DEF Attends, Live, Lost, Outstanding
  <1>3. \A u \in Units : Billed(r, u)'
    <2> SUFFICES ASSUME NEW u \in Units PROVE Billed(r, u)'
      OBVIOUS
    <2>1. Live(r, u)' \subseteq Live(r, u)
          /\ (Live(r, u) \cap Lost(r))' \subseteq Live(r, u) \cap Lost(r)
      BY <1>2
    <2> QED
      BY <1>0, <1>1, <2>1, BilledShrinks DEF Attends, Remains
  <1>4. Batched(r)'
    BY <1>0, <1>1, <1>2 DEF Attends, Batched, Settled
  <1> QED
    BY <1>0, <1>3, <1>4 DEF KeepsPaid

(* start, resume and cancel.                                               *)
LEMMA UserOrderly ==
    ASSUME PaidInv, NEW r \in Runs, UserStep(r)
    PROVE  Orderly(r)
  <1>1. /\ TypeOK /\ StageMatchesRow(r) /\ Placed(r) /\ Flight(r) /\ Batched(r)
        /\ TypeInv /\ TypeInv' /\ Quiet
    BY RunStepTypes, OthersWait DEF PaidInv, RunInv, TypeInv
  <1>2. Settled(r)
    BY <1>1 DEF Batched
  <1>3. ASSUME NEW o \in StartOptions, Start(r, o.kept, o.waiting, o.over)
        PROVE  Orderly(r)
    <2>1. /\ rows[r].status = "none" /\ mem[r].stage = "idle"
          /\ rows[r].ids = {} /\ mem[r].flying = {}
      BY <1>1, <1>3, StartEffects DEF StageMatchesRow, Placed, Flight, Pools
    <2>2. Outstanding(r) = {}
      BY <2>1 DEF Outstanding
    <2>3. Placed(r)' /\ Flight(r)'
      BY <1>1, <1>3, <2>1, StartEffects
      DEF Placed, Flight, Blank, Counted, Terminal, Generating, Alive
    <2>4. Attends(r)
      BY <1>1, <1>3, <2>1, <2>2, StartEffects DEF Attends, Blank, Counted
    <2> QED
      BY <2>3, <2>4 DEF Orderly
  <1>4. ASSUME NEW over \in BOOLEAN, Resume(r, over)
        PROVE  Orderly(r)
    <2>1. mem[r].stage \in {"idle", "orphaned"}
      BY <1>1, <1>4, ResumeEffects DEF Active
    <2>2. mem'[r].over => r \in used'.raised
      BY <1>1, <1>4, ResumeEffects DEF Counted, Placed
    <2>3. Placed(r)' /\ Flight(r)'
      BY <1>1, <1>4, <2>2, ResumeEffects
      DEF Placed, Flight, Blank, Terminal, Generating, Alive
    <2>4. Attends(r)
      BY <1>1, <1>4, <2>1, ResumeEffects DEF Attends, Blank, Counted
    <2> QED
      BY <2>3, <2>4 DEF Orderly
  <1>5. ASSUME CancelActive(r) \/ CancelPaused(r)
        PROVE  Orderly(r)
    <2>1. mem'[r].over => r \in used'.raised
      BY <1>1, <1>5, CancelEffects DEF Counted, Placed
    <2>2. CASE CancelActive(r)
      <3>1. Placed(r)' /\ Flight(r)'
        BY <1>1, <1>5, <2>1, <2>2, CancelEffects DEF Placed, Flight, Counted, Alive
      <3>2. Attends(r)
        BY <1>1, <1>2, <1>5, <2>2, CancelEffects DEF Attends, Counted, Settled
      <3> QED
        BY <3>1, <3>2 DEF Orderly
    <2>3. CASE ~CancelActive(r)
      <3>1. mem[r].stage = "idle"
        BY <1>1, <1>5, <2>3, CancelEffects DEF Placed
      <3>2. mem[r].flying = {} /\ mem[r].threw = 0
        BY <1>1, <3>1 DEF Flight, Pools
      <3>3. Placed(r)' /\ Flight(r)'
        BY <1>1, <1>5, <2>1, <2>3, <3>2, CancelEffects
        DEF Placed, Flight, Terminal, Generating
      <3>4. Attends(r)
        BY <1>1, <1>2, <1>5, <2>3, <3>1, <3>2, CancelEffects DEF Attends, Counted, Settled
      <3> QED
        BY <3>3, <3>4 DEF Orderly
    <2> QED
      BY <2>2, <2>3
  <1> QED
    BY <1>3, <1>4, <1>5 DEF UserStep

(* The end of a stage, which the calls and batches of its own are over.    *)
LEMMA EndsOrderly ==
    ASSUME PaidInv, NEW r \in Runs,
           \/ ExtractionEnds(r) \/ Consolidated(r) \/ OutlineEnds(r)
           \/ FirstEnds(r) \/ SynthesisEnds(r)
    PROVE  Orderly(r)
  <1>1. /\ TypeOK /\ StageMatchesRow(r) /\ Placed(r) /\ Flight(r) /\ Settled(r)
    BY DEF PaidInv, RunInv, TypeInv, Batched
  <1>2. /\ UNCHANGED <<results, batches, charges, used>>
        /\ rows'[r].ids = rows[r].ids
        /\ mem[r].stage \in {"extracting", "consolidating", "outline", "first", "modules"}
        /\ Closes(r) \/ Rests(r) \/ GoesOn(r)
    BY <1>1, EndsEffects
  <1>3. mem[r].flying = {} /\ mem[r].threw = 0 /\ Outstanding(r) = {}
        /\ rows[r].status \notin Terminal \cup {"none", "blocked_budget", "completed"}
    BY <1>1, <1>2, EndsEffects DEF Flight, Pools, Settled, StageMatchesRow, Placed
  <1>4. CASE Closes(r)
    BY <1>1, <1>2, <1>3, <1>4
    DEF Closes, Orderly, Attends, Placed, Flight, Terminal, Generating
  <1>5. CASE Rests(r)
    BY <1>1, <1>2, <1>3, <1>5, NoAttemptFields
    DEF Rests, Orderly, Attends, Placed, Flight, Terminal, Generating
  <1>6. CASE GoesOn(r)
    <2>1. Attends(r)
      BY <1>2, <1>3, <1>6 DEF GoesOn, Attends
    <2>2. Placed(r)'
      BY <1>1, <1>2, <1>3, <1>6 DEF GoesOn, Placed, Generating, Terminal, Alive
    <2>3. Flight(r)'
      BY <1>2, <1>3, <1>6 DEF GoesOn, Flight
    <2> QED
      BY <2>1, <2>2, <2>3 DEF Orderly
  <1> QED
    BY <1>2, <1>4, <1>5, <1>6

(* A worker takes a unit that is not in flight, when no batch is out.      *)
LEMMA TakeInFlight ==
    ASSUME PaidInv, NEW r \in Runs, Take(r)
    PROVE  Placed(r)' /\ Flight(r)' /\ mem[r].stage \in Pools /\ Outstanding(r) = {}
  <1>1. /\ TypeOK /\ StageMatchesRow(r) /\ Placed(r) /\ Flight(r) /\ Settled(r)
    BY DEF PaidInv, RunInv, TypeInv, Batched
  <1>2. mem[r].stage \in Pools
    BY <1>1, TakeEffects DEF CanTake
  <1>3. Outstanding(r) = {}
    BY <1>1, <1>2 DEF Settled, Pools
  <1>4. mem'[r].over => r \in used'.raised
    BY <1>1, TakeEffects DEF Placed, Counted, Carries
  <1>5. Placed(r)'
    BY <1>1, <1>4, TakeEffects DEF Placed, Counted, Carries, Alive
  <1>6. Flight(r)'
    <2>1. /\ mem'[r].stage = mem[r].stage /\ mem'[r].threw = mem[r].threw
          /\ mem[r].stage # "closing"
      BY <1>1, <1>2, TakeEffects DEF Carries, Pools
    <2>2. mem'[r].flying \cap mem'[r].todo = {}
      <3>1. mem[r].flying \cap mem[r].todo = {}
        BY <1>1 DEF Flight
      <3>2. /\ mem'[r].todo \subseteq mem[r].todo
            /\ \/ mem'[r].flying = mem[r].flying
               \/ \E u : /\ mem'[r].flying = mem[r].flying \cup {u}
                         /\ mem'[r].todo = mem[r].todo \ {u}
        BY <1>1, TakeEffects
      <3> QED
        BY <3>1, <3>2
    <2> QED
      BY <1>1, <1>2, <2>1, <2>2 DEF Flight
  <1> QED
    BY <1>2, <1>3, <1>5, <1>6

(* The turns that make or end an attempt, or a worker that does not call.  *)
LEMMA TurnOrderly ==
    ASSUME PaidInv, NEW r \in Runs,
           \/ Enter(r) \/ Release(r) \/ OrphansEnd(r)
           \/ Take(r) /\ mem'[r].flying = mem[r].flying
    PROVE  Orderly(r)
  <1>1. /\ TypeOK /\ StageMatchesRow(r) /\ Placed(r) /\ Flight(r) /\ Batched(r)
    BY DEF PaidInv, RunInv, TypeInv
  <1>2. Settled(r)
    BY <1>1 DEF Batched
  <1>3. ASSUME Enter(r)
        PROVE  Orderly(r)
    <2>1. /\ rows[r].ids = {} /\ mem[r].flying = {} /\ mem[r].threw = 0
          /\ Outstanding(r) = {}
      BY <1>1, <1>3, EnterEffects DEF Placed, Flight, Pools, Outstanding
    <2>2. Placed(r)' /\ Flight(r)'
      BY <1>1, <1>3, <2>1, EnterEffects, NoAttemptFields
      DEF Placed, Flight, Terminal, Generating, Alive
    <2>3. Attends(r)
      BY <1>1, <1>3, <2>1, EnterEffects, NoAttemptFields DEF Attends
    <2> QED
      BY <2>2, <2>3 DEF Orderly
  <1>4. ASSUME Release(r) \/ OrphansEnd(r)
        PROVE  Orderly(r)
    <2>1. Placed(r)' /\ Flight(r)'
      BY <1>1, <1>4, ReleaseEffects, NoAttemptFields
      DEF Placed, Flight, Terminal, Generating, Carries, Pools
    <2>2. mem[r].threw \in Nat
      BY <1>1 DEF TypeOK, Attempt
    <2>3. Attends(r)
      BY <1>1, <1>2, <1>4, <2>2, ReleaseEffects, NoAttemptFields DEF Attends, Settled
    <2> QED
      BY <2>1, <2>3 DEF Orderly
  <1>5. ASSUME Take(r), mem'[r].flying = mem[r].flying
        PROVE  Orderly(r)
    <2>1. Placed(r)' /\ Flight(r)' /\ mem[r].stage \in Pools /\ Outstanding(r) = {}
      BY <1>5, TakeInFlight
    <2>2. Attends(r)
      BY <1>1, <1>5, <2>1, TakeEffects DEF Attends, Counted, Pools
    <2> QED
      BY <2>1, <2>2 DEF Orderly
  <1> QED
    BY <1>3, <1>4, <1>5

(* The turns.                                                              *)
LEMMA TurnPaid ==
    ASSUME PaidInv, NEW r \in Runs, TurnStep(r)
    PROVE  KeepsPaid(r)
  <1>1. /\ TypeOK /\ StageMatchesRow(r) /\ Placed(r) /\ Flight(r) /\ Batched(r)
        /\ TypeInv /\ TypeInv' /\ TypeOK'
    BY RunStepTypes DEF PaidInv, RunInv, TypeInv
  <1>2. Settled(r)
    BY <1>1 DEF Batched
  <1>3. ASSUME Enter(r) \/ Release(r) \/ OrphansEnd(r)
        PROVE  KeepsPaid(r)
    BY <1>1, <1>3, TurnOrderly, AttendsKeeps
  <1>4. ASSUME Book(r)
        PROVE  KeepsPaid(r)
    <2>1. Placed(r)' /\ Flight(r)'
      <3>1. mem[r].flying = {} /\ mem[r].threw = 0 /\ rows[r].status \notin Terminal \cup {"none"}
        BY <1>1, <1>4, BookEffects DEF Placed, Flight, Pools, StageMatchesRow
      <3> QED
        BY <1>1, <1>4, <3>1, BookEffects DEF Placed, Flight, Carries, Alive
    <2>2. Len(batches[r]) \in DOMAIN batches[r]
      BY <1>1, <1>4, LiveCounted, BookEffects DEF Batched
    <2>3. Lost(r)' \subseteq Lost(r)
      BY <1>1, <1>4, BookEffects DEF Lost
    <2>4. \A u : Live(r, u)' = Live(r, u)
      BY <1>1, <1>4, BookEffects DEF Live
    <2>5. Batched(r)'
      BY <1>1, <1>4, <2>2, <2>3, BookEffects DEF Batched, Settled
    <2>6. ASSUME NEW u \in Units
          PROVE  Billed(r, u)'
      <3>1. Billed(r, u)
        BY DEF PaidInv
      <3>2. Live(r, u)' \subseteq Live(r, u)
            /\ (Live(r, u) \cap Lost(r))' \subseteq Live(r, u) \cap Lost(r)
        BY <2>3, <2>4
      <3> QED
        BY <1>1, <1>4, <3>1, <3>2, BookEffects, BilledShrinks DEF Remains
    <2> QED
      BY <2>1, <2>5, <2>6 DEF KeepsPaid
  <1>6. ASSUME Take(r)
        PROVE  KeepsPaid(r)
    <2>1. Placed(r)' /\ Flight(r)' /\ mem[r].stage \in Pools /\ Outstanding(r) = {}
      BY <1>6, TakeInFlight
    <2>2. Outstanding(r) = {}
      BY <2>1
    <2>6. CASE mem'[r].flying = mem[r].flying
      BY <1>1, <1>6, <2>6, TurnOrderly, AttendsKeeps
    <2>7. ASSUME NEW u \in mem[r].todo \ results,
                 mem'[r].flying = mem[r].flying \cup {u}
          PROVE  KeepsPaid(r)
      <3>1. /\ UNCHANGED <<results, batches, charges, rows>>
            /\ mem[r].stage # "booking" /\ mem'[r].stage = mem[r].stage
            /\ used'.crashes = used.crashes
        BY <1>1, <1>6, <2>1, TakeEffects DEF Counted, Pools
      <3>2. /\ \A v : Live(r, v)' = Live(r, v)
            /\ Lost(r)' = Lost(r) /\ Outstanding(r)' = Outstanding(r)
        BY <3>1 DEF Live, Lost, Outstanding
      <3>3. Batched(r)'
        BY <1>1, <2>2, <3>1, <3>2 DEF Batched, Settled
      <3>4. ASSUME NEW v \in Units \ {u}
            PROVE  Billed(r, v)'
        <4>1. Billed(r, v)
          BY DEF PaidInv
        <4>2. Live(r, v)' \subseteq Live(r, v)
              /\ (Live(r, v) \cap Lost(r))' \subseteq Live(r, v) \cap Lost(r)
          BY <3>2
        <4> QED
          BY <1>1, <2>7, <3>1, <4>1, <4>2, BilledShrinks DEF Remains
      <3>5. u \in Units /\ u \notin mem[r].flying
        BY <1>1 DEF Flight, TypeOK, Attempt
      <3>6. Billed(r, u)'
        <4>1. Billed(r, u) /\ u \notin results
          BY <3>5 DEF PaidInv
        <4>2. charges[r][u] + Cardinality(Live(r, u)) <= used.crashes
          BY <1>1, <2>2, <3>1, <4>1, LiveIsLost DEF Billed
        <4>3. /\ Cardinality(Live(r, u)) \in Nat /\ charges[r][u] \in Nat
              /\ used.crashes \in Nat
          BY <1>1, <3>5, LiveCounted DEF TypeOK
        <4>4. /\ Cardinality(Live(r, u)') = Cardinality(Live(r, u)) /\ charges'[r][u] = charges[r][u]
              /\ u \in mem'[r].flying
          BY <2>7, <3>1, <3>2
        <4>5. Cardinality((Live(r, u) \cap Lost(r))') = Cardinality(Live(r, u) \cap Lost(r))
          BY <3>2
        <4>6. charges'[r][u] + 1 + Cardinality(Live(r, u)') <= 1 + used'.crashes
          BY <3>1, <4>2, <4>3, <4>4
        <4> QED
          BY <3>1, <4>1, <4>4, <4>5, <4>6 DEF Billed
      <3> QED
        BY <2>1, <3>3, <3>4, <3>6 DEF KeepsPaid
    <2> QED
      BY <1>1, <1>6, <2>6, <2>7, TakeEffects
  <1>7. ASSUME ExtractionEnds(r) \/ OutlineEnds(r) \/ FirstEnds(r) \/ SynthesisEnds(r)
        PROVE  KeepsPaid(r)
    <2>1. Orderly(r)
      BY <1>1, <1>7, EndsOrderly
    <2> QED
      BY <1>1, <2>1, AttendsKeeps
  <1> QED
    BY <1>3, <1>4, <1>6, <1>7 DEF TurnStep

(* The returns that write nothing but the attempt, and a call that fails.  *)
LEMMA ReturnOrderly ==
    ASSUME PaidInv, NEW r \in Runs,
           \/ SubmitFails(r) \/ AwaitedOver(r) \/ BatchReadBack(r) \/ BatchDropped(r)
           \/ \E u \in Units : CallFails(r, u)
    PROVE  Orderly(r)
  <1>1. /\ TypeOK /\ StageMatchesRow(r) /\ Placed(r) /\ Flight(r) /\ Batched(r)
    BY DEF PaidInv, RunInv, TypeInv
  <1>2. Settled(r)
    BY <1>1 DEF Batched
  <1>4. ASSUME SubmitFails(r) \/ AwaitedOver(r) \/ BatchReadBack(r) \/ BatchDropped(r)
        PROVE  Orderly(r)
    <2>1. /\ UNCHANGED <<rows, results, batches, charges>> /\ Counted(r)
          /\ mem[r].stage \in {"submitting", "awaiting", "waiting", "dropping"}
          /\ mem'[r].stage \in {"extracting", "submitting"}
          /\ mem'[r].flying = mem[r].flying /\ mem'[r].over = mem[r].over
          /\ mem'[r].threw = mem[r].threw
          /\ mem[r].stage \in {"awaiting", "waiting"} => Outstanding(r) = {}
      BY <1>1, <1>4, ReturnEffects
    <2>2. /\ mem[r].flying = {} /\ mem[r].threw = 0 /\ Outstanding(r) = {}
          /\ rows[r].status \notin Terminal \cup {"none", "blocked_budget", "completed"}
      BY <1>1, <1>2, <2>1 DEF Flight, Pools, Settled, StageMatchesRow, Placed
    <2>3. Placed(r)' /\ Flight(r)'
      BY <1>1, <2>1, <2>2 DEF Placed, Flight, Counted, Alive
    <2>4. Attends(r)
      BY <2>1, <2>2 DEF Attends, Counted
    <2> QED
      BY <2>3, <2>4 DEF Orderly
  <1>8. ASSUME NEW u \in Units, CallFails(r, u)
        PROVE  Orderly(r)
    <2>1. /\ UNCHANGED <<results, batches, charges>> /\ Counted(r)
          /\ rows'[r].ids = rows[r].ids /\ u \in mem[r].flying
          /\ mem'[r].flying = mem[r].flying \ {u} /\ mem'[r].todo = mem[r].todo
          /\ mem'[r].over = mem[r].over
          /\ mem[r].threw \in Nat
      BY <1>1, <1>8, FailEffects DEF TypeOK, Attempt
    <2>2. mem[r].stage \in Pools /\ Outstanding(r) = {}
      <3>1. ~InTurn(r)
        BY <1>1, <1>8, FailEffects DEF Quiet
      <3> QED
        BY <1>1, <1>2, <2>1, <3>1 DEF Flight, InTurn, Settled, Pools
    <2>3. Placed(r)' /\ Flight(r)'
      <3>1. CASE mem'[r].stage = "closing"
        <4>1. rows'[r].status = "failed" /\ mem'[r].threw = mem[r].threw + 1
          BY <1>1, <1>8, <2>2, <3>1, FailEffects DEF Pools
        <4>2. Placed(r)'
          BY <1>1, <2>1, <3>1, <4>1 DEF Placed, Counted, Terminal, Generating
        <4>3. Flight(r)'
          BY <1>1, <2>1, <3>1, <4>1 DEF Flight
        <4> QED
          BY <4>2, <4>3
      <3>2. CASE mem'[r].stage # "closing"
        <4>1. /\ mem'[r].stage = mem[r].stage /\ UNCHANGED rows
              /\ mem'[r].threw = mem[r].threw \/ mem[r].stage = "orphaned"
          BY <1>1, <1>8, <2>2, <3>2, FailEffects DEF Active, Pools
        <4>2. Placed(r)'
          BY <1>1, <2>1, <2>2, <4>1 DEF Placed, Counted, Alive
        <4>3. Flight(r)'
          BY <1>1, <2>1, <2>2, <4>1 DEF Flight
        <4> QED
          BY <4>2, <4>3
      <3> QED
        BY <3>1, <3>2
    <2>4. Attends(r)
      <3>1. mem'[r].stage \in {mem[r].stage, "closing"}
        BY <1>1, <1>8, FailEffects
      <3> QED
        BY <2>1, <2>2, <3>1 DEF Attends, Counted, Pools
    <2> QED
      BY <2>3, <2>4 DEF Orderly
  <1> QED
    BY <1>4, <1>8

(* The returns of calls and batches.                                       *)
LEMMA CallPaid ==
    ASSUME PaidInv, NEW r \in Runs, CallStep(r)
    PROVE  KeepsPaid(r)
  <1>1. /\ TypeOK /\ StageMatchesRow(r) /\ Placed(r) /\ Flight(r) /\ Batched(r)
        /\ TypeInv /\ TypeInv' /\ TypeOK'
    BY RunStepTypes DEF PaidInv, RunInv, TypeInv
  <1>2. Settled(r)
    BY <1>1 DEF Batched
  <1>q. ~InTurn(r)
    BY OthersWait DEF Quiet
  <1>3. ASSUME SubmitReturns(r)
        PROVE  KeepsPaid(r)
    <2> DEFINE n == Len(batches[r]) + 1
    <2>1. /\ mem[r].flying = {} /\ mem[r].threw = 0 /\ Outstanding(r) = {}
          /\ rows[r].status \notin Terminal \cup {"none", "blocked_budget", "completed"}
      BY <1>1, <1>2, <1>3, SubmitReturnsEffects
      DEF Flight, Pools, Settled, StageMatchesRow, Placed
    <2>2. Placed(r)' /\ Flight(r)'
      BY <1>1, <1>3, <2>1, SubmitReturnsEffects DEF Placed, Flight, Carries, Alive
    <2>3. /\ DOMAIN batches[r] = 1 .. Len(batches[r]) /\ Len(batches[r]) \in Nat
          /\ DOMAIN batches'[r] = 1 .. n /\ Len(batches'[r]) = n
          /\ DOMAIN batches'[r] = DOMAIN batches[r] \cup {n} /\ n \notin DOMAIN batches[r]
          /\ \A k \in DOMAIN batches[r] : batches'[r][k] = batches[r][k]
      <3>1. DOMAIN batches[r] = 1 .. Len(batches[r]) /\ Len(batches[r]) \in Nat
        BY <1>1 DEF TypeOK
      <3>2. DOMAIN batches'[r] = 1 .. Len(batches'[r])
        BY <1>1 DEF TypeOK
      <3> QED
        BY <1>1, <1>3, <3>1, <3>2, SubmitReturnsEffects
    <2>4. /\ mem[r].stage = "submitting" /\ mem'[r].stage = "booking"
          /\ rows'[r].ids = rows[r].ids /\ results' = results /\ charges' = charges
          /\ used' = used /\ mem'[r].flying = mem[r].flying
          /\ batches'[r][n].items \cap results = {}
      BY <1>1, <1>3, SubmitReturnsEffects
    <2> HIDE DEF n
    <2>5. Lost(r)' \subseteq Lost(r)
      BY <2>3, <2>4 DEF Lost
    <2>6. Outstanding(r)' = {}
      BY <1>1, <2>1, <2>3, <2>4 DEF Outstanding, Batched
    <2>7. Batched(r)'
      BY <1>1, <2>3, <2>4, <2>5, <2>6 DEF Batched, Settled, n
    <2>8. ASSUME NEW u \in Units
          PROVE  Billed(r, u)'
      <3>1. Billed(r, u)
        BY DEF PaidInv
      <3>2. CASE u \notin batches'[r][n].items
        <4>1. Live(r, u)' \subseteq Live(r, u)
          BY <2>3, <3>2 DEF Live
        <4>2. (Live(r, u) \cap Lost(r))' \subseteq Live(r, u) \cap Lost(r)
          BY <2>5, <4>1
        <4> QED
          BY <1>1, <2>4, <3>1, <4>1, <4>2, BilledShrinks DEF Remains
      <3>3. CASE u \in batches'[r][n].items
        <4>1. u \notin results
          BY <2>4, <3>3
        <4>2. Live(r, u)' \subseteq Live(r, u) \cup {n} /\ n \notin Live(r, u)
          BY <2>3 DEF Live
        <4>3. (Live(r, u) \cap Lost(r))' \subseteq Live(r, u) \cap Lost(r)
          <5>1. n \notin Lost(r)'
            BY <2>3, <2>4 DEF Lost
          <5> QED
            BY <2>5, <4>2, <5>1
        <4>4. /\ IsFiniteSet(Live(r, u)) /\ Cardinality(Live(r, u)) \in Nat
              /\ IsFiniteSet(Live(r, u) \cap Lost(r))
              /\ Cardinality(Live(r, u) \cap Lost(r)) \in Nat
          BY <1>1, LiveCounted
        <4>5. charges[r][u] + Cardinality(Live(r, u)) <= used.crashes
          BY <1>1, <2>1, <2>4, <3>1, <4>1, LiveIsLost DEF Billed
        <4>6. /\ IsFiniteSet(Live(r, u) \cup {n})
              /\ Cardinality(Live(r, u) \cup {n}) = Cardinality(Live(r, u)) + 1
          BY <4>2, <4>4, FS_AddElement
        <4>7. /\ Cardinality(Live(r, u)') \in Nat
              /\ Cardinality(Live(r, u)') <= Cardinality(Live(r, u)) + 1
          BY <4>2, <4>6, FS_Subset, FS_CardinalityType
        <4>8. /\ Cardinality((Live(r, u) \cap Lost(r))') \in Nat
              /\ Cardinality((Live(r, u) \cap Lost(r))') <= Cardinality(Live(r, u) \cap Lost(r))
          BY <4>3, <4>4, FS_Subset, FS_CardinalityType
        <4>9. charges[r][u] \in Nat /\ used.crashes \in Nat /\ charges'[r][u] = charges[r][u]
              /\ used'.crashes = used.crashes /\ u \notin mem'[r].flying
          BY <1>1, <2>1, <2>4 DEF TypeOK
        <4>10. charges'[r][u] + 0 + Cardinality(Live(r, u)') <= 1 + used'.crashes
          BY <4>4, <4>5, <4>7, <4>9
        <4>11. charges'[r][u] + Cardinality((Live(r, u) \cap Lost(r))') <= used'.crashes
          BY <3>1, <4>1, <4>4, <4>8, <4>9 DEF Billed
        <4> QED
          BY <4>9, <4>10, <4>11 DEF Billed
      <3> QED
        BY <3>2, <3>3
    <2> QED
      BY <2>2, <2>7, <2>8 DEF KeepsPaid
  <1>4. ASSUME SubmitFails(r) \/ AwaitedOver(r) \/ BatchReadBack(r) \/ BatchDropped(r)
        PROVE  KeepsPaid(r)
    BY <1>1, <1>4, ReturnOrderly, AttendsKeeps
  <1>5. ASSUME DropBatch(r)
        PROVE  KeepsPaid(r)
    <2>1. /\ UNCHANGED <<rows, results, charges, used>> /\ Carries(r)
          /\ mem[r].stage \in {"awaiting", "waiting"} /\ mem'[r].stage = "dropping"
          /\ mem'[r].flying = mem[r].flying
          /\ DOMAIN batches'[r] = DOMAIN batches[r]
          /\ Len(batches'[r]) = Len(batches[r])
          /\ \A k \in DOMAIN batches[r] :
                /\ batches'[r][k].items = batches[r][k].items
                /\ batches'[r][k].answered = batches[r][k].answered
                /\ batches'[r][k].status = (IF k \in Outstanding(r) THEN "cancelled"
                                            ELSE batches[r][k].status)
      BY <1>1, <1>5, DropEffects
    <2>2. /\ mem[r].flying = {} /\ mem[r].threw = 0
          /\ rows[r].status \notin Terminal \cup {"none", "blocked_budget", "completed"}
      BY <1>1, <2>1 DEF Flight, Pools, StageMatchesRow, Placed
    <2>3. Placed(r)' /\ Flight(r)'
      BY <1>1, <2>1, <2>2 DEF Placed, Flight, Carries, Alive
    <2>4. Outstanding(r)' = {}
      BY <1>1, <2>1 DEF Outstanding, Batched
    <2>5. /\ \A u : Live(r, u)' \subseteq Live(r, u)
          /\ Lost(r)' \subseteq Lost(r)
      <3>1. \A k \in DOMAIN batches[r] :
               batches'[r][k].status = "running" => batches[r][k].status = "running"
        BY <2>1
      <3> QED
        BY <2>1, <3>1 DEF Live, Lost
    <2>6. Batched(r)'
      BY <1>1, <2>1, <2>4, <2>5 DEF Batched, Settled
    <2>7. ASSUME NEW u \in Units
          PROVE  Billed(r, u)'
      <3>1. Billed(r, u)
        BY DEF PaidInv
      <3>2. Live(r, u)' \subseteq Live(r, u)
            /\ (Live(r, u) \cap Lost(r))' \subseteq Live(r, u) \cap Lost(r)
        BY <2>5
      <3> QED
        BY <1>1, <2>1, <3>1, <3>2, BilledShrinks DEF Remains
    <2> QED
      BY <2>3, <2>6, <2>7 DEF KeepsPaid
  <1>6. ASSUME Consolidated(r)
        PROVE  KeepsPaid(r)
    <2>1. Orderly(r)
      BY <1>6, EndsOrderly
    <2> QED
      BY <1>1, <2>1, AttendsKeeps
  <1>7. ASSUME NEW u \in Units, CallAnswered(r, u)
        PROVE  KeepsPaid(r)
    <2>1. /\ UNCHANGED <<rows, batches>> /\ u \in mem[r].flying
          /\ Steady /\ Answered(u)
          /\ \A v \in Units : charges'[r][v] = charges[r][v] + (IF v = u THEN 1 ELSE 0)
          /\ mem'[r].stage = mem[r].stage /\ mem'[r].todo = mem[r].todo
          /\ mem'[r].flying = mem[r].flying \ {u}
          /\ mem'[r].threw = mem[r].threw /\ mem'[r].over = mem[r].over
      BY <1>1, <1>7, AnswerEffects
    <2>2. mem[r].stage \notin {"closing", "booking"}
      BY <1>q DEF InTurn
    <2>3. Placed(r)'
      BY <1>1, <2>1 DEF Placed, Alive, Steady
    <2>4. Flight(r)'
      BY <1>1, <2>1, <2>2 DEF Flight
    <2>5. /\ \A v : Live(r, v)' = Live(r, v)
          /\ Lost(r)' = Lost(r) /\ Outstanding(r)' = Outstanding(r)
      BY <2>1 DEF Live, Lost, Outstanding
    <2>6. Batched(r)'
      BY <1>1, <2>1, <2>5 DEF Batched, Settled, Steady
    <2>7. ASSUME NEW v \in Units \ {u}
          PROVE  Billed(r, v)'
      <3>1. Billed(r, v) /\ charges[r][v] \in Nat
        BY <1>1 DEF PaidInv, TypeOK
      <3>2. Live(r, v)' \subseteq Live(r, v)
            /\ (Live(r, v) \cap Lost(r))' \subseteq Live(r, v) \cap Lost(r)
        BY <2>5
      <3>3. /\ charges'[r][v] = charges[r][v] /\ Remains
            /\ used'.crashes = used.crashes
            /\ v \in mem'[r].flying => v \in mem[r].flying
        BY <2>1, <3>1 DEF Steady, Remains, Answered
      <3> QED
        BY <1>1, <3>1, <3>2, <3>3, BilledShrinks
    <2>8. Billed(r, u)'
      <3>1. charges[r][u] + 1 + Cardinality(Live(r, u)) <= 1 + used.crashes
        BY <2>1 DEF PaidInv, Billed
      <3>2. charges'[r][u] + 0 + Cardinality(Live(r, u)') <= 1 + used'.crashes
        <4>1. charges'[r][u] = charges[r][u] + 1 /\ used'.crashes = used.crashes
              /\ Cardinality(Live(r, u)') = Cardinality(Live(r, u))
          BY <2>1, <2>5 DEF Steady
        <4>2. charges[r][u] \in Nat /\ Cardinality(Live(r, u)) \in Nat
              /\ used.crashes \in Nat
          BY <1>1, LiveCounted DEF TypeOK
        <4> QED
          BY <3>1, <4>1, <4>2
      <3>3. u \notin mem'[r].flying /\ u \in results'
        BY <2>1 DEF Answered
      <3> QED
        BY <3>2, <3>3 DEF Billed
    <2> QED
      BY <2>3, <2>4, <2>6, <2>7, <2>8 DEF KeepsPaid
  <1>8. ASSUME NEW u \in Units, CallFails(r, u)
        PROVE  KeepsPaid(r)
    BY <1>1, <1>8, ReturnOrderly, AttendsKeeps
  <1> QED
    BY <1>3, <1>4, <1>5, <1>6, <1>7, <1>8 DEF CallStep

(* A batch answers or ends, whoever waits for it.                          *)
LEMMA BatchPaid ==
    ASSUME PaidInv, NEW r \in Runs, BatchStep(r)
    PROVE  KeepsPaid(r)
  <1>1. /\ TypeOK /\ StageMatchesRow(r) /\ Placed(r) /\ Flight(r) /\ Batched(r)
        /\ TypeInv /\ TypeInv' /\ TypeOK'
    BY RunStepTypes DEF PaidInv, RunInv, TypeInv
  <1>2. /\ UNCHANGED <<rows, paths, mem>>
        /\ used'.crashes = used.crashes /\ used'.raised = used.raised
    BY <1>1, BatchTypes, BatchCounts DEF Steady
  <1>3. Placed(r)' /\ Flight(r)'
    BY <1>1, <1>2 DEF Placed, Flight, Alive
  <1>4. ASSUME NEW k \in DOMAIN batches[r], BatchEnds(r, k)
        PROVE  KeepsPaid(r)
    <2>1. /\ UNCHANGED <<results, charges>>
          /\ DOMAIN batches'[r] = DOMAIN batches[r]
          /\ Len(batches'[r]) = Len(batches[r])
          /\ \A j \in DOMAIN batches[r] :
               /\ batches'[r][j].items = batches[r][j].items
               /\ batches'[r][j].answered = batches[r][j].answered
               /\ batches'[r][j].status = "running" => batches[r][j].status = "running"
      BY <1>1, <1>4, EndEffects
    <2>2. /\ \A u : Live(r, u)' \subseteq Live(r, u)
          /\ Lost(r)' \subseteq Lost(r)
      BY <1>2, <2>1 DEF Live, Lost
    <2>3. Outstanding(r)' \subseteq Outstanding(r)
      BY <1>1, <1>2, <2>1 DEF Outstanding, Batched
    <2>4. Batched(r)'
      BY <1>1, <1>2, <2>1, <2>2, <2>3 DEF Batched, Settled
    <2>5. ASSUME NEW u \in Units
          PROVE  Billed(r, u)'
      <3>1. Billed(r, u)
        BY DEF PaidInv
      <3>2. Live(r, u)' \subseteq Live(r, u)
            /\ (Live(r, u) \cap Lost(r))' \subseteq Live(r, u) \cap Lost(r)
        BY <2>2
      <3> QED
        BY <1>1, <1>2, <2>1, <3>1, <3>2, BilledShrinks DEF Remains
    <2> QED
      BY <1>3, <2>4, <2>5 DEF KeepsPaid
  <1>5. ASSUME NEW k \in DOMAIN batches[r], NEW u \in Chunks, BatchAnswers(r, k, u)
        PROVE  KeepsPaid(r)
    <2>1. /\ DOMAIN batches'[r] = DOMAIN batches[r]
          /\ Len(batches'[r]) = Len(batches[r])
          /\ \A j \in DOMAIN batches[r] :
               /\ batches'[r][j].items = batches[r][j].items
               /\ batches'[r][j].answered
                    = IF j = k THEN batches[r][j].answered \cup {u}
                               ELSE batches[r][j].answered
               /\ batches'[r][j].status = batches[r][j].status
          /\ k \in Live(r, u)
      <3>1. /\ batches[r][k].status = "running" /\ batches'[r][k].status = "running"
            /\ u \in batches[r][k].items \ batches[r][k].answered
            /\ DOMAIN batches'[r] = DOMAIN batches[r]
            /\ Len(batches'[r]) = Len(batches[r])
            /\ \A j \in DOMAIN batches[r] \ {k} : batches'[r][j] = batches[r][j]
            /\ batches'[r][k].items = batches[r][k].items
            /\ batches'[r][k].answered = batches[r][k].answered \cup {u}
        BY <1>1, <1>5, BatchAnswerEffects
      <3>2. k \in Live(r, u)
        BY <3>1 DEF Live
      <3> QED
        BY <3>1, <3>2
    <2>2. /\ \A v : Live(r, v)' \subseteq Live(r, v)
          /\ k \notin Live(r, u)'
      BY <2>1 DEF Live
    <2>3. Lost(r)' = Lost(r) /\ Outstanding(r)' = Outstanding(r)
      <3>1. \A j \in DOMAIN batches[r] : batches'[r][j].status = batches[r][j].status
        BY <2>1
      <3>2. rows[r].ids \subseteq DOMAIN batches[r]
        BY <1>1 DEF Batched
      <3> QED
        BY <1>2, <2>1, <3>1, <3>2 DEF Lost, Outstanding
    <2>4. Batched(r)'
      BY <1>1, <1>2, <2>1, <2>3 DEF Batched, Settled
    <2>7. \/ /\ Answered(u)
             /\ \A v \in Units :
                  charges'[r][v] = charges[r][v] + (IF v = u THEN 1 ELSE 0)
          \/ /\ Remains
             /\ charges' = charges
      BY <1>1, <1>5, BatchAnswerEffects DEF Remains
    <2>8. ASSUME NEW v \in Units, charges'[r][v] = charges[r][v], Remains
          PROVE  Billed(r, v)'
      <3>1. Billed(r, v)
        BY DEF PaidInv
      <3>2. Live(r, v)' \subseteq Live(r, v)
            /\ (Live(r, v) \cap Lost(r))' \subseteq Live(r, v) \cap Lost(r)
        BY <2>2, <2>3
      <3> QED
        BY <1>1, <1>2, <2>8, <3>1, <3>2, BilledShrinks
    <2>5. ASSUME NEW v \in Units \ {u}
          PROVE  Billed(r, v)'
      <3>1. charges[r][v] \in Nat
        BY <1>1 DEF TypeOK
      <3>2. charges'[r][v] = charges[r][v] /\ Remains
        BY <2>7, <3>1 DEF Answered, Remains
      <3> QED
        BY <2>8, <3>2
    <2>6. CASE Answered(u) /\ charges'[r][u] = charges[r][u] + 1
      <3>1. u \in Units /\ u \in results'
        BY <2>6, UnitKinds DEF Answered
      <3>2. /\ charges[r][u] \in Nat /\ used.crashes \in Nat
            /\ IsFiniteSet(Live(r, u)) /\ Cardinality(Live(r, u)) \in Nat
        BY <1>1, <3>1, LiveCounted DEF TypeOK
      <3>3. /\ charges[r][u] + (IF u \in mem[r].flying THEN 1 ELSE 0)
                 + Cardinality(Live(r, u)) <= 1 + used.crashes
            /\ charges'[r][u] = charges[r][u] + 1
        BY <2>6, <3>1 DEF PaidInv, Billed
      <3>4. Cardinality(Live(r, u) \ {k}) = Cardinality(Live(r, u)) - 1
            /\ IsFiniteSet(Live(r, u) \ {k})
        BY <2>1, <3>2, FS_RemoveElement
      <3>5. Live(r, u)' \subseteq Live(r, u) \ {k}
        BY <2>2
      <3>6. /\ Cardinality(Live(r, u)') <= Cardinality(Live(r, u)) - 1
            /\ Cardinality(Live(r, u)') \in Nat
        BY <3>4, <3>5, FS_Subset, FS_CardinalityType
      <3>7. charges'[r][u] + (IF u \in mem'[r].flying THEN 1 ELSE 0)
              + Cardinality(Live(r, u)') <= 1 + used'.crashes
        BY <1>2, <3>2, <3>3, <3>6
      <3>8. Billed(r, u)'
        BY <3>1, <3>7 DEF Billed
      <3> QED
        BY <1>3, <2>4, <2>5, <3>8 DEF KeepsPaid
    <2>9. CASE Remains /\ charges' = charges
      BY <1>3, <2>4, <2>8, <2>9 DEF KeepsPaid
    <2> QED
      BY <2>6, <2>7, <2>9, UnitKinds
  <1> QED
    BY <1>4, <1>5 DEF BatchStep

(* A step of a run does not touch the batches or the charges of another.   *)
LEMMA OthersWork ==
    ASSUME TypeInv, NEW r \in Runs,
           UserStep(r) \/ TurnStep(r) \/ CallStep(r) \/ BatchStep(r)
    PROVE  /\ \A q \in Runs \ {r} : batches'[q] = batches[q] /\ charges'[q] = charges[q]
           /\ Remains
           /\ used'.crashes = used.crashes /\ used.raised \subseteq used'.raised
  <1>1. TypeOK
    BY DEF TypeInv
  <1>2. ASSUME UserStep(r) \/ TurnStep(r)
        PROVE  UNCHANGED <<results, batches, charges>>
    BY <1>2 DEF UserStep, TurnStep, Start, Resume, CancelActive, CancelPaused, Enter,
       Book, Release, Take, ExtractionEnds, OutlineEnds, FirstEnds, SynthesisEnds,
       OrphansEnd
  <1>3. ASSUME CallStep(r)
        PROVE  /\ \A q \in Runs \ {r} : batches'[q] = batches[q] /\ charges'[q] = charges[q]
               /\ Remains
    <2>1. CASE SubmitReturns(r)
      BY <2>1, SubmitReturnsEffects DEF Remains
    <2>2. CASE SubmitFails(r) \/ AwaitedOver(r) \/ BatchReadBack(r) \/ BatchDropped(r)
      BY <1>1, <2>2, ReturnEffects DEF Remains
    <2>3. CASE DropBatch(r)
      BY <2>3, DropEffects DEF Remains
    <2>4. CASE Consolidated(r)
      BY <2>4 DEF Consolidated, Remains
    <2>5. ASSUME NEW u \in Units, CallAnswered(r, u)
          PROVE  /\ \A q \in Runs \ {r} : batches'[q] = batches[q] /\ charges'[q] = charges[q]
                 /\ Remains
      BY <1>1, <2>5, AnswerEffects DEF Remains, Answered
    <2>6. ASSUME NEW u \in Units, CallFails(r, u)
          PROVE  UNCHANGED <<results, batches, charges>>
      BY <2>6 DEF CallFails
    <2> QED
      BY <1>3, <2>1, <2>2, <2>3, <2>4, <2>5, <2>6 DEF CallStep, Remains
  <1>4. ASSUME BatchStep(r)
        PROVE  /\ \A q \in Runs \ {r} : batches'[q] = batches[q] /\ charges'[q] = charges[q]
               /\ Remains
    <2>1. ASSUME NEW k \in DOMAIN batches[r], BatchEnds(r, k)
          PROVE  /\ \A q \in Runs \ {r} : batches'[q] = batches[q] /\ charges'[q] = charges[q]
                 /\ Remains
      BY <1>1, <2>1, EndEffects DEF Remains
    <2>2. ASSUME NEW k \in DOMAIN batches[r], NEW u \in Chunks, BatchAnswers(r, k, u)
          PROVE  /\ \A q \in Runs \ {r} : batches'[q] = batches[q] /\ charges'[q] = charges[q]
                 /\ Remains
      BY <1>1, <2>2, BatchAnswerEffects DEF Remains, Answered
    <2> QED
      BY <1>4, <2>1, <2>2 DEF BatchStep
  <1>5. used'.crashes = used.crashes /\ used.raised \subseteq used'.raised
    <2>1. UNCHANGED used \/ used' = [used EXCEPT !.events = @ + 1]
          \/ used' = [used EXCEPT !.raised = @ \cup {r}]
          \/ \E over \in BOOLEAN :
               used' = [used EXCEPT !.events = @ + 1,
                                    !.raised = IF over THEN @ \cup {r} ELSE @]
      BY DEF UserStep, TurnStep, CallStep, BatchStep, Start, Resume, CancelActive,
         CancelPaused, Enter, Book, Release, Take, ExtractionEnds, OutlineEnds,
         FirstEnds, SynthesisEnds, OrphansEnd, SubmitReturns, SubmitFails, AwaitedOver,
         BatchReadBack, DropBatch, BatchDropped, Consolidated, CallAnswered, CallFails,
         BatchEnds, BatchAnswers
    <2>2. used \in [events: Nat, crashes: Nat, raised: SUBSET Runs]
      BY <1>1 DEF TypeOK
    <2>3. ASSUME NEW over \in BOOLEAN,
                 used' = [used EXCEPT !.events = @ + 1,
                                      !.raised = IF over THEN @ \cup {r} ELSE @]
          PROVE  used'.crashes = used.crashes /\ used.raised \subseteq used'.raised
      BY <2>2, <2>3
    <2>4. CASE used' = [used EXCEPT !.raised = @ \cup {r}]
      BY <2>2, <2>4
    <2>5. CASE UNCHANGED used \/ used' = [used EXCEPT !.events = @ + 1]
      BY <2>2, <2>5
    <2> QED
      BY <2>1, <2>3, <2>4, <2>5
  <1> QED
    BY <1>2, <1>3, <1>4, <1>5 DEF Remains

(* The bills of a run that did not step.                                   *)
LEMMA OtherPaid ==
    ASSUME PaidInv, TypeInv', NEW r \in Runs, NEW q \in Runs \ {r}, Local(r),
           batches'[q] = batches[q], charges'[q] = charges[q], Remains,
           used'.crashes = used.crashes, used.raised \subseteq used'.raised
    PROVE  KeepsPaid(q)
  <1>1. /\ TypeOK /\ TypeOK' /\ Placed(q) /\ Flight(q) /\ Batched(q)
    BY DEF PaidInv, RunInv, TypeInv
  <1>2. mem'[q] = mem[q] /\ rows'[q] = rows[q]
    BY DEF Local
  <1>3. Placed(q)' /\ Flight(q)'
    BY <1>1, <1>2 DEF Placed, Flight, Alive
  <1>4. /\ \A u : Live(q, u)' = Live(q, u)
        /\ Lost(q)' = Lost(q) /\ Outstanding(q)' = Outstanding(q)
    BY <1>2 DEF Live, Lost, Outstanding
  <1>5. Batched(q)'
    BY <1>1, <1>2, <1>4 DEF Batched, Settled
  <1>6. ASSUME NEW u \in Units
        PROVE  Billed(q, u)'
    <2>1. Billed(q, u)
      BY DEF PaidInv
    <2>2. Live(q, u)' \subseteq Live(q, u)
          /\ (Live(q, u) \cap Lost(q))' \subseteq Live(q, u) \cap Lost(q)
      BY <1>4
    <2> QED
      BY <1>1, <1>2, <2>1, <2>2, BilledShrinks
  <1> QED
    BY <1>3, <1>5, <1>6 DEF KeepsPaid

(* The invariant after a step of a run.                                    *)
LEMMA RunStepPaid ==
    ASSUME PaidInv, NEW r \in Runs,
           UserStep(r) \/ TurnStep(r) \/ CallStep(r) \/ BatchStep(r)
    PROVE  PaidInv'
  <1>1. RunInv /\ TypeInv
    BY DEF PaidInv, RunInv
  <1>2. RunInv' /\ TypeInv' /\ Local(r)
    BY <1>1, RunStepKeeps, RunStepTypes
  <1>3. KeepsPaid(r)
    BY <1>2, UserOrderly, AttendsKeeps, TurnPaid, CallPaid, BatchPaid
  <1>4. \A q \in Runs \ {r} : KeepsPaid(q)
    BY <1>1, <1>2, OthersWork, OtherPaid
  <1> QED
    BY <1>2, <1>3, <1>4 DEF KeepsPaid, PaidInv

(* A crash loses a call, or the id of a batch, which its count allows for. *)
LEMMA CrashPaid ==
    ASSUME PaidInv, NEW heard \in BOOLEAN,
           NEW billed \in 0 .. MaxRefused, Crash(heard, billed)
    PROVE  PaidInv'
  <1>1. RunInv /\ TypeOK /\ RunInv' /\ TypeOK'
    BY CrashKeeps DEF PaidInv, RunInv, TypeInv
  <1> SUFFICES ASSUME NEW r \in Runs PROVE KeepsPaid(r)
    BY <1>1 DEF KeepsPaid, PaidInv
  <1>2. /\ UNCHANGED <<rows, results, batches>> /\ mem'[r] = NoAttempt
        /\ used'.crashes = used.crashes + 1 /\ used'.raised = used.raised
        /\ \A u \in Units :
             charges'[r][u] <= charges[r][u] + (IF u \in mem[r].flying THEN 1 ELSE 0)
        /\ used.crashes \in Nat /\ used'.crashes # 0
    <2>1. used.crashes \in Nat
      BY <1>1 DEF TypeOK
    <2>2. used'.crashes = used.crashes + 1
      BY <1>1, CrashEffects
    <2> QED
      BY <1>1, <2>1, <2>2, CrashEffects
  <1>3. Placed(r) /\ Batched(r)
    BY DEF PaidInv
  <1>4. Placed(r)' /\ Flight(r)'
    BY <1>2, <1>3, NoAttemptFields DEF Placed, Flight, Pools
  <1>5. Batched(r)'
    BY <1>2, <1>3, NoAttemptFields DEF Batched, Settled
  <1>6. ASSUME NEW u \in Units
        PROVE  Billed(r, u)'
    <2>1. Live(r, u)' = Live(r, u)
      BY <1>2 DEF Live
    <2>2. /\ IsFiniteSet(Live(r, u)) /\ Cardinality(Live(r, u)) \in Nat
          /\ charges[r][u] \in Nat /\ charges'[r][u] \in Nat
      BY <1>1, LiveCounted DEF TypeOK
    <2>3. charges[r][u] + (IF u \in mem[r].flying THEN 1 ELSE 0)
            + Cardinality(Live(r, u)) <= 1 + used.crashes
      BY DEF PaidInv, Billed
    <2>4. charges'[r][u] + Cardinality(Live(r, u)) <= 1 + used.crashes
      BY <1>2, <2>2, <2>3
    <2>5. (Live(r, u) \cap Lost(r))' \subseteq Live(r, u)
      BY <2>1
    <2>6. /\ Cardinality((Live(r, u) \cap Lost(r))') <= Cardinality(Live(r, u))
          /\ Cardinality((Live(r, u) \cap Lost(r))') \in Nat
      BY <2>2, <2>5, FS_Subset, FS_CardinalityType
    <2>7. charges'[r][u] + 0 + Cardinality(Live(r, u)') <= 1 + used'.crashes
      BY <1>2, <2>1, <2>2, <2>4
    <2>8. charges'[r][u] + Cardinality((Live(r, u) \cap Lost(r))') <= used'.crashes
      BY <1>2, <2>2, <2>4, <2>6
    <2>9. u \notin mem'[r].flying
      BY <1>2, NoAttemptFields
    <2> QED
      BY <2>7, <2>8, <2>9 DEF Billed
  <1> QED
    BY <1>4, <1>5, <1>6 DEF KeepsPaid

(* Nothing is charged in the beginning.                                    *)
LEMMA InitPaid == Init => PaidInv
  <1> SUFFICES ASSUME Init PROVE PaidInv
    OBVIOUS
  <1> SUFFICES ASSUME NEW r \in Runs
               PROVE  /\ Placed(r) /\ Flight(r) /\ Batched(r)
                      /\ \A u \in Units : Billed(r, u)
    BY InitRuns DEF PaidInv
  <1>1. /\ rows[r].status = "none" /\ rows[r].ids = {} /\ mem[r] = NoAttempt
        /\ batches[r] = <<>> /\ used.crashes = 0
        /\ \A u \in Units : charges[r][u] = 0
    BY DEF Init
  <1>2. Placed(r) /\ Flight(r)
    BY <1>1, NoAttemptFields DEF Placed, Flight, Pools, Terminal, Generating
  <1>3. Outstanding(r) = {} /\ Lost(r) = {} /\ \A u : Live(r, u) = {}
    BY <1>1 DEF Outstanding, Lost, Live
  <1>4. Batched(r)
    BY <1>1, <1>3, NoAttemptFields DEF Batched, Settled
  <1>5. \A u \in Units : Billed(r, u)
    <2>1. Cardinality({}) = 0
      BY FS_EmptySet
    <2>2. \A u : Live(r, u) \cap Lost(r) = {}
      BY <1>3
    <2> QED
      <3> SUFFICES ASSUME NEW u \in Units PROVE Billed(r, u)
        OBVIOUS
      <3>1. u \notin mem[r].flying /\ charges[r][u] = 0
        BY <1>1, NoAttemptFields
      <3>2. Cardinality(Live(r, u)) = 0 /\ Cardinality(Live(r, u) \cap Lost(r)) = 0
        BY <1>3, <2>1, <2>2
      <3> QED
        BY <1>1, <3>1, <3>2 DEF Billed
  <1> QED
    BY <1>2, <1>4, <1>5

(* The invariant after any step.                                           *)
LEMMA NextPaid == PaidInv /\ [Next]_vars => PaidInv'
  <1> SUFFICES ASSUME PaidInv, [Next]_vars PROVE PaidInv'
    OBVIOUS
  <1>1. CASE Next
    BY <1>1, StepKinds, RunStepPaid, CrashPaid
  <1>2. CASE UNCHANGED vars
    <2>1. UNCHANGED <<rows, results, batches, mem, charges, used>> /\ RunInv'
      BY <1>2, NextRuns DEF vars, PaidInv
    <2>2. ASSUME NEW r \in Runs
          PROVE  /\ Placed(r)' = Placed(r) /\ Flight(r)' = Flight(r)
                 /\ Lost(r)' = Lost(r) /\ Outstanding(r)' = Outstanding(r)
                 /\ \A u : Live(r, u)' = Live(r, u)
      BY <2>1 DEF Placed, Flight, Lost, Outstanding, Live, Alive
    <2>3. ASSUME NEW r \in Runs
          PROVE  KeepsPaid(r)
      BY <2>1, <2>2, <2>3 DEF PaidInv, KeepsPaid, Batched, Settled, Billed
    <2> QED
      BY <2>1, <2>3 DEF PaidInv, KeepsPaid
  <1> QED
    BY <1>1, <1>2

(* What every reachable state remembers of calls, batches and charges      *)
(* (extract-chunks.ts, generation-run.ts, batch/runner.ts).                *)
THEOREM BillsCorrect == Spec => []PaidInv
  BY InitPaid, NextPaid, PTL DEF Spec

(* A run never buys an answer of use twice, but for a crash that lost a    *)
(* call or the id of a batch: through pauses, resumptions, batches that    *)
(* answer in part or with what does not validate, calls that fail, and     *)
(* fallbacks to the pool (generation-run.ts:60-65).  The attempts that were*)
(* refused are billed as often as they are made, and are not counted.      *)
THEOREM PaidOnceCorrect == Spec => []PaidOnce
  <1>1. PaidInv => PaidOnce
    <2> SUFFICES ASSUME PaidInv, NEW r \in Runs, NEW u \in Units
                 PROVE  charges[r][u] <= 1 + used.crashes
      BY DEF PaidOnce
    <2>1. TypeOK /\ Billed(r, u)
      BY DEF PaidInv, RunInv, TypeInv
    <2>2. charges[r][u] \in Nat /\ used.crashes \in Nat /\ Cardinality(Live(r, u)) \in Nat
      BY <2>1, LiveCounted DEF TypeOK
    <2> QED
      BY <2>1, <2>2 DEF Billed
  <1> QED
    BY <1>1, BillsCorrect, PTL

(* The batches of a cancelled run do not go on running: cancel comes back  *)
(* to the run that waits for them, and every batch submitted is on the row.*)
THEOREM CancelCorrect == Spec => []CancelReachesBatch
  <1>1. PaidInv => CancelReachesBatch
    <2> SUFFICES ASSUME PaidInv, Quiet, used.crashes = 0, NEW r \in Runs,
                        rows[r].status = "cancelled", NEW k \in DOMAIN batches[r]
                 PROVE  batches[r][k].status # "running"
      BY DEF CancelReachesBatch
    <2>1. StageMatchesRow(r) /\ Batched(r) /\ ~InTurn(r)
      BY DEF PaidInv, RunInv, Quiet
    <2>2. mem[r].stage \in {"idle", "orphaned"}
      BY <2>1 DEF StageMatchesRow, Terminal, InTurn
    <2>3. Outstanding(r) = {} /\ Lost(r) = {}
      BY <2>1, <2>2 DEF Batched, Settled
    <2> QED
      BY <2>2, <2>3 DEF Outstanding, Lost
  <1> QED
    BY <1>1, BillsCorrect, PTL

-----------------------------------------------------------------------------
(* Sums over the units.  MapThenSumSet is a recursive function on subsets; *)
(* what it computes is shown by taking a smallest subset on which it would *)
(* compute something else.                                                 *)

Chosen(s) == CHOOSE x \in s : TRUE

SumsUp(it, f, S) ==
    it = [s \in SUBSET S |-> IF s = {} THEN 0 ELSE f[Chosen(s)] + it[s \ {Chosen(s)}]]

(* The charges of a run, of which Spent is the sum.                        *)
Total(f) == MapThenSumSet(LAMBDA u : f[u], Units)

(* Of some subsets of a finite set, one contains no other.                 *)
LEMMA SmallestSubset ==
    ASSUME NEW S, IsFiniteSet(S), NEW X \in SUBSET SUBSET S, X # {}
    PROVE  \E T \in X : \A s \in X : s \subseteq T => s = T
  <1> DEFINE R == StrictSubsetOrdering(S)
             W == FiniteSubsetsOf(S)
  <1>1. IsWellFoundedOn(R, W) /\ W = SUBSET S
    BY FS_StrictSubsetOrderingWellFounded, FS_FiniteSubsetsOfFinite
  <1>2. \A s, T \in SUBSET S : s \subseteq T /\ s # T => <<s, T>> \in R
    BY DEF StrictSubsetOrdering
  <1> HIDE DEF R, W
  <1>3. \E T \in X : \A s \in X : ~(<<s, T>> \in R)
    BY <1>1, WFMin
  <1> QED
    BY <1>2, <1>3

(* CHOOSE takes an element.                                                *)
LEMMA ChosenOne == \A s : s # {} => Chosen(s) \in s
  BY DEF Chosen

(* A least natural number.                                                 *)
LEMMA LeastNat ==
    ASSUME NEW X \in SUBSET Nat, X # {}
    PROVE  \E n \in X : \A m \in X : n <= m
  <1> DEFINE R == OpToRel(<, Nat)
  <1>1. IsWellFoundedOn(R, Nat)
    BY NatLessThanWellFounded
  <1>2. \A m, n \in Nat : m < n => <<m, n>> \in R
    BY DEF OpToRel
  <1> HIDE DEF R
  <1>3. PICK n \in X : \A m \in X : ~(<<m, n>> \in R)
    BY <1>1, WFMin
  <1>4. \A m \in X : ~(m < n) /\ m \in Nat /\ n \in Nat
    BY <1>2, <1>3
  <1> QED
    BY <1>4

(* Such a sum is defined on every subset of a finite set.                  *)
LEMMA SumExists ==
    ASSUME NEW S, IsFiniteSet(S), NEW f
    PROVE  \E it : SumsUp(it, f, S)
  <1> DEFINE D(n) == {s \in SUBSET S : Cardinality(s) <= n}
             Body(it, s) == IF s = {} THEN 0 ELSE f[Chosen(s)] + it[s \ {Chosen(s)}]
             G(n) == \E it : it = [s \in D(n) |-> Body(it, s)]
             X == {n \in Nat : ~G(n)}
  <1>1. \A s \in SUBSET S : IsFiniteSet(s) /\ Cardinality(s) \in Nat
    BY FS_Subset, FS_CardinalityType
  <1>2. G(0)
    <2>1. \A s \in D(0) : s = {}
      BY <1>1, FS_EmptySet
    <2>2. [s \in D(0) |-> 0] = [s \in D(0) |-> Body([z \in D(0) |-> 0], s)]
      BY <2>1
    <2> QED
      BY <2>2
  <1>3. ASSUME NEW n \in Nat, G(n)
        PROVE  G(n + 1)
    <2>1. PICK a : a = [s \in D(n) |-> Body(a, s)]
      BY <1>3
    <2> DEFINE b == [s \in D(n + 1) |-> Body(a, s)]
    <2>2. \A s \in D(n) : b[s] = a[s] /\ s \in D(n + 1)
      <3>1. ASSUME NEW s \in D(n)
            PROVE  b[s] = a[s] /\ s \in D(n + 1)
        <4>1. s \in D(n + 1)
          BY <1>1
        <4>2. a[s] = Body(a, s)
          BY <2>1
        <4>3. b[s] = Body(a, s)
          BY <4>1
        <4> QED
          BY <4>1, <4>2, <4>3
      <3> QED
        BY <3>1
    <2>3. \A s \in D(n + 1) : s # {} => s \ {Chosen(s)} \in D(n)
      <3>1. ASSUME NEW s \in D(n + 1), s # {}
            PROVE  s \ {Chosen(s)} \in D(n)
        <4>1. Cardinality(s \ {Chosen(s)}) = Cardinality(s) - 1
          BY <1>1, <3>1, ChosenOne, FS_RemoveElement
        <4> QED
          BY <1>1, <4>1
      <3> QED
        BY <3>1
    <2>4. \A s \in D(n + 1) : Body(a, s) = Body(b, s)
      <3> HIDE DEF D, b
      <3> QED
        BY <2>2, <2>3
    <2>5. b = [s \in D(n + 1) |-> Body(b, s)]
      <3> HIDE DEF D, Body
      <3> QED
        BY <2>4
    <2> QED
      BY <2>5
  <1>4. G(Cardinality(S))
    <2> HIDE DEF G
    <2>1. CASE X = {}
      BY <2>1, <1>1
    <2>2. CASE X # {}
      <3>1. PICK n \in X : \A m \in X : n <= m
        BY <2>2, LeastNat
      <3>2. n # 0 /\ n - 1 \in Nat
        BY <1>2
      <3>3. G(n - 1)
        BY <3>1, <3>2
      <3>4. G((n - 1) + 1)
        BY <1>3, <3>2, <3>3
      <3> QED
        BY <3>4
    <2> QED
      BY <2>1, <2>2
  <1>5. D(Cardinality(S)) = SUBSET S
    BY <1>1, FS_Subset
  <1> QED
    BY <1>4, <1>5 DEF SumsUp

(* The sum over a set from the sum over all but one of its elements.       *)
LEMMA SumSteps ==
    ASSUME NEW S, NEW f, NEW it, SumsUp(it, f, S), NEW T \in SUBSET S
    PROVE  /\ T = {} => it[T] = 0
           /\ T # {} => /\ Chosen(T) \in T /\ T \ {Chosen(T)} \in SUBSET S
                        /\ it[T] = f[Chosen(T)] + it[T \ {Chosen(T)}]
  BY ChosenOne DEF SumsUp

(* A sum of natural numbers is one.                                        *)
LEMMA SumNat ==
    ASSUME NEW S, IsFiniteSet(S), NEW f \in [S -> Nat], NEW it, SumsUp(it, f, S)
    PROVE  \A T \in SUBSET S : it[T] \in Nat
  <1> DEFINE X == {T \in SUBSET S : it[T] \notin Nat}
  <1>1. ASSUME X # {} PROVE FALSE
    <2>1. PICK T \in X : \A s \in X : s \subseteq T => s = T
      <3>1. X \in SUBSET SUBSET S
        OBVIOUS
      <3> HIDE DEF X
      <3> QED
        BY <1>1, <3>1, SmallestSubset
    <2>2. T \in SUBSET S /\ it[T] \notin Nat
      OBVIOUS
    <2>3. T # {} /\ Chosen(T) \in T /\ T \ {Chosen(T)} \in SUBSET S
          /\ it[T] = f[Chosen(T)] + it[T \ {Chosen(T)}]
      BY <2>2, SumSteps
    <2>4. it[T \ {Chosen(T)}] \in Nat
      BY <2>1, <2>3
    <2>5. f[Chosen(T)] \in Nat
      BY <2>2, <2>3
    <2> QED
      BY <2>2, <2>3, <2>4, <2>5
  <1> QED
    BY <1>1

(* One more at u is one more in the sum.                                   *)
LEMMA SumBump ==
    ASSUME NEW S, IsFiniteSet(S), NEW f \in [S -> Nat], NEW g \in [S -> Nat], NEW u \in S,
           \A x \in S : g[x] = f[x] + (IF x = u THEN 1 ELSE 0),
           NEW a, SumsUp(a, f, S), NEW b, SumsUp(b, g, S)
    PROVE  b[S] = a[S] + 1
  <1>a. ASSUME NEW T \in SUBSET S
        PROVE  /\ T = {} => a[T] = 0
               /\ T # {} => /\ Chosen(T) \in T /\ T \ {Chosen(T)} \in SUBSET S
                            /\ a[T] = f[Chosen(T)] + a[T \ {Chosen(T)}]
    BY SumSteps
  <1>b. ASSUME NEW T \in SUBSET S
        PROVE  /\ T = {} => b[T] = 0
               /\ T # {} => b[T] = g[Chosen(T)] + b[T \ {Chosen(T)}]
    BY SumSteps
  <1> DEFINE X == {T \in SUBSET S : b[T] # a[T] + (IF u \in T THEN 1 ELSE 0)}
  <1>1. ASSUME X # {} PROVE FALSE
    <2>1. PICK T \in X : \A s \in X : s \subseteq T => s = T
      <3>1. X \in SUBSET SUBSET S
        OBVIOUS
      <3> HIDE DEF X
      <3> QED
        BY <1>1, <3>1, SmallestSubset
    <2>2. T \in SUBSET S /\ b[T] # a[T] + (IF u \in T THEN 1 ELSE 0)
      OBVIOUS
    <2>3. CASE T = {}
      <3>1. a[T] = 0 /\ b[T] = 0
        BY <1>a, <1>b, <2>2, <2>3
      <3> QED
        BY <2>2, <2>3, <3>1
    <2>4. CASE T # {}
      <3>1. /\ Chosen(T) \in T /\ T \ {Chosen(T)} \in SUBSET S
            /\ a[T] = f[Chosen(T)] + a[T \ {Chosen(T)}]
        BY <1>a, <1>b, <2>2, <2>4
      <3>2. b[T] = g[Chosen(T)] + b[T \ {Chosen(T)}]
        BY <1>a, <1>b, <2>2, <2>4
      <3> DEFINE x == Chosen(T)
      <3> HIDE DEF x
      <3>3. b[T \ {x}] = a[T \ {x}] + (IF u \in T \ {x} THEN 1 ELSE 0)
        BY <2>1, <3>1 DEF x
      <3>4. a[T \ {x}] \in Nat /\ f[x] \in Nat /\ x \in S
        BY <2>2, <3>1, SumNat DEF x
      <3>5. g[x] = f[x] + (IF u = x THEN 1 ELSE 0)
        BY <3>4
      <3> QED
        BY <2>2, <3>1, <3>2, <3>3, <3>4, <3>5 DEF x
    <2> QED
      BY <2>3, <2>4
  <1> QED
    BY <1>1

(* A sum of zeros is zero.                                                 *)
LEMMA SumZero ==
    ASSUME NEW S, IsFiniteSet(S), NEW f, \A x \in S : f[x] = 0, NEW it, SumsUp(it, f, S)
    PROVE  it[S] = 0
  <1> DEFINE X == {T \in SUBSET S : it[T] # 0}
  <1>1. ASSUME X # {} PROVE FALSE
    <2>1. PICK T \in X : \A s \in X : s \subseteq T => s = T
      <3>1. X \in SUBSET SUBSET S
        OBVIOUS
      <3> HIDE DEF X
      <3> QED
        BY <1>1, <3>1, SmallestSubset
    <2>2. T \in SUBSET S /\ it[T] # 0
      OBVIOUS
    <2>3. T # {} /\ Chosen(T) \in T /\ T \ {Chosen(T)} \in SUBSET S
          /\ it[T] = f[Chosen(T)] + it[T \ {Chosen(T)}]
      BY <2>2, SumSteps
    <2>4. it[T \ {Chosen(T)}] = 0 /\ f[Chosen(T)] = 0
      BY <2>1, <2>2, <2>3
    <2> QED
      BY <2>2, <2>3, <2>4
  <1> QED
    BY <1>1

(* Such a sum is what is computed.                                         *)
LEMMA TotalIsSum ==
    ASSUME NEW f, IsFiniteSet(Units)
    PROVE  \E it : SumsUp(it, f, Units) /\ Total(f) = it[Units]
  <1> DEFINE P(it) == it = [s \in SUBSET Units |->
                               IF s = {} THEN 0
                               ELSE f[CHOOSE x \in s : TRUE] + it[s \ {CHOOSE x \in s : TRUE}]]
  <1>1. \A it : SumsUp(it, f, Units) <=> P(it)
    BY DEF SumsUp, Chosen
  <1>2. Total(f) = (CHOOSE it : P(it))[Units]
    BY DEF Total, MapThenSumSet, MapThenFoldSet
  <1>3. P(CHOOSE it : P(it))
    <2>1. PICK it : SumsUp(it, f, Units)
      BY SumExists
    <2>2. P(it)
      BY <1>1, <2>1
    <2> HIDE DEF P
    <2> QED
      BY <2>2
  <1> QED
    BY <1>1, <1>2, <1>3

(* There are finitely many units.                                          *)
LEMMA UnitsFinite == IsFiniteSet(Units)
  <1> DEFINE f == [n \in 1 .. NumModules |-> <<"module", n>>]
  <1>1. f \in Surjection(1 .. NumModules, Modules)
    BY DEF Surjection, Modules
  <1>2. ExistsSurjection(1 .. NumModules, Modules)
    BY <1>1 DEF ExistsSurjection
  <1>3. IsFiniteSet(Modules)
    BY <1>2, MaterialAssumption, FS_NatSurjection
  <1>4. IsFiniteSet({Outline})
    BY FS_Singleton
  <1> QED
    BY <1>3, <1>4, ChunksFinite, FS_Union DEF Units

(* What a run spent is a number, ...                                       *)
LEMMA TotalNat ==
    ASSUME NEW f \in [Units -> Nat]
    PROVE  Total(f) \in Nat
  <1>1. PICK it : SumsUp(it, f, Units) /\ Total(f) = it[Units]
    BY UnitsFinite, TotalIsSum
  <1>2. it[Units] \in Nat
    BY <1>1, UnitsFinite, SumNat
  <1> QED
    BY <1>1, <1>2

(* ... nothing before anything is charged, ...                             *)
LEMMA TotalZero ==
    ASSUME NEW f, \A u \in Units : f[u] = 0
    PROVE  Total(f) = 0
  <1>1. PICK it : SumsUp(it, f, Units) /\ Total(f) = it[Units]
    BY UnitsFinite, TotalIsSum
  <1>2. it[Units] = 0
    BY <1>1, UnitsFinite, SumZero
  <1> QED
    BY <1>1, <1>2

(* ... and one more for every charge.                                      *)
LEMMA TotalBump ==
    ASSUME NEW f \in [Units -> Nat], NEW g \in [Units -> Nat], NEW u \in Units,
           \A v \in Units : g[v] = f[v] + (IF v = u THEN 1 ELSE 0)
    PROVE  Total(g) = Total(f) + 1
  <1>1. PICK a : SumsUp(a, f, Units) /\ Total(f) = a[Units]
    BY UnitsFinite, TotalIsSum
  <1>2. PICK b : SumsUp(b, g, Units) /\ Total(g) = b[Units]
    BY UnitsFinite, TotalIsSum
  <1>3. b[Units] = a[Units] + 1
    BY <1>1, <1>2, UnitsFinite, SumBump
  <1> QED
    BY <1>1, <1>2, <1>3

(* What a run spent is the total of its charges.                           *)
LEMMA SpentIsTotal ==
    ASSUME NEW r \in Runs
    PROVE  Spent(r) = Total(charges[r])
  BY DEF Spent, Total

-----------------------------------------------------------------------------
(* What is spent, as long as no crash forgot any of it.                    *)

Newest(r) == batches[r][Len(batches[r])]

(* The one batch that may run is the one its run waits for.                *)
OneBatch(r) ==
    /\ mem[r].stage \in {"booking", "waiting"} =>
         /\ Len(batches[r]) # 0
         /\ Newest(r).answered \subseteq mem[r].todo
         /\ Newest(r).items \subseteq mem[r].todo
    /\ \A k \in DOMAIN batches[r] :
         batches[r][k].status = "running" =>
            k = Len(batches[r]) /\ mem[r].stage \in {"booking", "waiting"}

(* What a batch answered and its run has not read back yet.                *)
Unread(r) ==
    IF mem[r].stage \in {"booking", "waiting"} THEN Newest(r).answered \cap results
                                               ELSE {}

(* What a batch may still answer.                                          *)
Pending(r) ==
    IF Len(batches[r]) # 0 /\ Newest(r).status = "running"
    THEN Newest(r).items \ Newest(r).answered ELSE {}

(* The attempts that keep the books: one that was cancelled while it was   *)
(* extracting reads nothing back, and cannot complete or pause.            *)
Ledger(r) ==
    \/ /\ Alive(r)
       /\ mem[r].aborted => mem[r].stage \in {"outline", "first", "modules"}
    \/ mem[r].threw > 0 \/ mem[r].stage = "orphaned"

Accounts(r) ==
    /\ Ledger(r) => Total(charges[r]) <= mem[r].spent + Cardinality(Unread(r))
    /\ rows[r].status = "none" => Total(charges[r]) = 0
    /\ rows[r].status \in {"blocked_budget", "completed"}
         => Total(charges[r]) <= rows[r].cost

Reach == Cap - 1 + Max({ExtractWidth, ModuleWidth})

Capped(r) ==
    r \notin used.raised =>
        /\ Total(charges[r]) + Cardinality(mem[r].flying) + Cardinality(Pending(r)) <= Reach
        /\ mem[r].stage = "submitting"
             => Total(charges[r]) + Cardinality(mem[r].todo) <= Cap

MoneyInv ==
    /\ PaidInv
    /\ used.crashes = 0 => \A r \in Runs : OneBatch(r) /\ Accounts(r) /\ Capped(r)

KeepsMoney(r) == OneBatch(r)' /\ Accounts(r)' /\ Capped(r)'

(* The wider of the two pools.                                             *)
LEMMA Widest ==
    LET m == Max({ExtractWidth, ModuleWidth})
    IN  m \in Nat \ {0} /\ ExtractWidth <= m /\ ModuleWidth <= m
  <1>1. ExtractWidth \in Nat \ {0} /\ ModuleWidth \in Nat \ {0}
    BY WidthAssumption
  <1>2. \E x \in {ExtractWidth, ModuleWidth} : \A y \in {ExtractWidth, ModuleWidth} : x >= y
    BY <1>1
  <1> DEFINE m == Max({ExtractWidth, ModuleWidth})
  <1>3. m \in {ExtractWidth, ModuleWidth} /\ \A y \in {ExtractWidth, ModuleWidth} : m >= y
    BY <1>2 DEF Max
  <1> QED
    BY <1>1, <1>3

(* What is counted is finite.                                              *)
LEMMA MoneyCounted ==
    ASSUME TypeOK, NEW r \in Runs
    PROVE  /\ Total(charges[r]) \in Nat /\ mem[r].spent \in Nat /\ rows[r].cost \in Nat
           /\ IsFiniteSet(mem[r].flying) /\ Cardinality(mem[r].flying) \in Nat
           /\ IsFiniteSet(mem[r].todo) /\ Cardinality(mem[r].todo) \in Nat
           /\ IsFiniteSet(Pending(r)) /\ Cardinality(Pending(r)) \in Nat
           /\ Len(batches[r]) # 0 => IsFiniteSet(Unread(r))
           /\ Len(batches[r]) # 0 => Cardinality(Unread(r)) \in Nat
           /\ Cap \in Nat \ {0} /\ Reach \in Nat /\ Cap <= Reach
           /\ Unread(r) = {} => Cardinality(Unread(r)) = 0
  <1>1. /\ charges[r] \in [Units -> Nat] /\ mem[r] \in Attempt /\ rows[r] \in Row
        /\ batches[r] \in Seq(Batch)
    BY DEF TypeOK
  <1>2. /\ mem[r].spent \in Nat /\ rows[r].cost \in Nat
        /\ mem[r].flying \subseteq Units /\ mem[r].todo \subseteq Units
    BY <1>1 DEF Attempt, Row
  <1>3. Len(batches[r]) # 0 => Newest(r) \in Batch
    BY <1>1 DEF Newest
  <1>4. /\ Len(batches[r]) # 0 => Newest(r).items \subseteq Chunks /\ Newest(r).answered \subseteq Chunks
    BY <1>3 DEF Batch
  <1>5. Pending(r) \subseteq Chunks /\ (Len(batches[r]) # 0 => Unread(r) \subseteq Chunks)
    BY <1>4 DEF Pending, Unread
  <1>6. Reach \in Nat /\ Cap <= Reach /\ Cap \in Nat \ {0}
    BY Widest, BudgetAssumption DEF Reach
  <1>7. Total(charges[r]) \in Nat
    BY <1>1, TotalNat
  <1>8. Unread(r) = {} => Cardinality(Unread(r)) = 0
    BY FS_EmptySet
  <1>9. \A S : S \subseteq Units \/ S \subseteq Chunks => IsFiniteSet(S) /\ Cardinality(S) \in Nat
    BY UnitsFinite, ChunksFinite, FS_Subset, FS_CardinalityType
  <1> QED
    BY <1>2, <1>5, <1>6, <1>7, <1>8, <1>9

(* A write that only touches the attempt, the status and the cost.         *)
LEMMA DeskMoney ==
    ASSUME MoneyInv, TypeInv', NEW r \in Runs, used.crashes = 0, Attends(r),
           used.raised \subseteq used'.raised,
           mem'[r].stage = "waiting" => mem[r].stage = "waiting" /\ mem'[r].todo = mem[r].todo,
           mem'[r].stage = "awaiting" => mem[r].stage # "waiting",
           mem'[r].stage = "submitting" /\ r \notin used'.raised
             => Total(charges[r]) + Cardinality(mem'[r].todo) <= Cap
    PROVE  OneBatch(r)' /\ Capped(r)' /\ Pending(r)' = Pending(r)
           /\ Total(charges[r])' = Total(charges[r])
  <1>1. /\ TypeOK /\ TypeOK' /\ OneBatch(r) /\ Capped(r) /\ Batched(r)
    BY DEF MoneyInv, PaidInv, RunInv, TypeInv
  <1>2. /\ UNCHANGED <<results, batches, charges>>
        /\ mem[r].stage # "booking" /\ mem'[r].stage # "booking"
        /\ mem'[r].flying \subseteq mem[r].flying
        /\ Outstanding(r) = {} \/ mem'[r].stage \in {"awaiting", "waiting"}
    BY DEF Attends
  <1>3. Newest(r)' = Newest(r) /\ Pending(r)' = Pending(r)
    BY <1>2 DEF Newest, Pending
  <1>4. ASSUME NEW k \in DOMAIN batches[r], batches[r][k].status = "running"
        PROVE  k = Len(batches[r]) /\ mem'[r].stage = "waiting"
    <2>1. k = Len(batches[r]) /\ mem[r].stage = "waiting"
      BY <1>1, <1>2, <1>4 DEF OneBatch
    <2>2. k \in Outstanding(r)
      BY <1>1, <1>4, <2>1 DEF Batched, Lost, Outstanding
    <2> QED
      BY <1>2, <2>1, <2>2
  <1>5. OneBatch(r)'
    <2>1. mem'[r].stage \in {"booking", "waiting"} =>
             /\ Len(batches'[r]) # 0
             /\ Newest(r)'.answered \subseteq mem'[r].todo
             /\ Newest(r)'.items \subseteq mem'[r].todo
      BY <1>1, <1>2, <1>3 DEF OneBatch
    <2>2. \A k \in DOMAIN batches'[r] :
             batches'[r][k].status = "running" =>
                k = Len(batches'[r]) /\ mem'[r].stage \in {"booking", "waiting"}
      BY <1>2, <1>4
    <2> QED
      BY <2>1, <2>2 DEF OneBatch
  <1>6. Capped(r)'
    <2>1. Cardinality(mem'[r].flying) <= Cardinality(mem[r].flying)
      BY <1>1, <1>2, MoneyCounted, FS_Subset
    <2>2. /\ Total(charges[r]) \in Nat /\ Cardinality(mem[r].flying) \in Nat
          /\ Cardinality(Pending(r)) \in Nat /\ Reach \in Nat
      BY <1>1, MoneyCounted
    <2>3. IsFiniteSet(mem'[r].flying)
      BY <1>1, <1>2, MoneyCounted, FS_Subset
    <2>4. Cardinality(mem'[r].flying) \in Nat
      BY <2>3, FS_CardinalityType
    <2> SUFFICES ASSUME r \notin used'.raised
                 PROVE  Total(charges'[r]) + Cardinality(mem'[r].flying)
                          + Cardinality(Pending(r)') <= Reach
      BY <1>2 DEF Capped
    <2>5. Total(charges[r]) + Cardinality(mem[r].flying) + Cardinality(Pending(r)) <= Reach
      BY <1>1 DEF Capped
    <2> QED
      BY <1>2, <1>3, <2>1, <2>2, <2>4, <2>5
  <1> QED
    BY <1>2, <1>3, <1>5, <1>6

(* The guard of a batch, or of a call, for a run that the user did not let *)
(* go on.                                                                  *)
LEMMA GuardKeepsCap ==
    ASSUME TypeOK', NEW r \in Runs, Placed(r)', Total(charges[r]) \in Nat,
           mem'[r].stage = "submitting" =>
             /\ Total(charges[r]) <= mem'[r].spent
             /\ mem'[r].over \/ ~(mem'[r].spent + Cardinality(mem'[r].todo) > Cap)
    PROVE  mem'[r].stage = "submitting" /\ r \notin used'.raised
             => Total(charges[r]) + Cardinality(mem'[r].todo) <= Cap
  <1>1. /\ mem'[r].spent \in Nat /\ mem'[r].todo \subseteq Units /\ Cap \in Nat
        /\ mem'[r].over \in BOOLEAN
    BY BudgetAssumption DEF TypeOK, Attempt
  <1>3. Cardinality(mem'[r].todo) \in Nat
    BY <1>1, UnitsFinite, FS_Subset, FS_CardinalityType
  <1>2. r \notin used'.raised => ~mem'[r].over
    BY DEF Placed
  <1> QED
    BY <1>1, <1>2, <1>3

(* What every step of a run starts from.                                   *)
LEMMA MoneyParts ==
    ASSUME MoneyInv, used.crashes = 0, NEW r \in Runs
    PROVE  /\ PaidInv /\ TypeInv /\ TypeOK /\ StageMatchesRow(r)
           /\ Placed(r) /\ Flight(r) /\ Batched(r) /\ Settled(r)
           /\ OneBatch(r) /\ Accounts(r) /\ Capped(r)
           /\ mem[r] \in Attempt /\ rows[r] \in Row /\ batches[r] \in Seq(Batch)
           /\ used.raised \subseteq Runs
  <1>1. PaidInv /\ TypeInv /\ TypeOK /\ StageMatchesRow(r)
    BY DEF MoneyInv, PaidInv, RunInv, TypeInv
  <1>2. Placed(r) /\ Flight(r) /\ Batched(r) /\ OneBatch(r) /\ Accounts(r) /\ Capped(r)
    BY DEF MoneyInv, PaidInv
  <1>3. Settled(r)
    BY <1>2 DEF Batched
  <1> QED
    BY <1>1, <1>2, <1>3 DEF TypeOK

(* start, resume and cancel leave what is spent in order.                  *)
LEMMA UserMoney ==
    ASSUME MoneyInv, used.crashes = 0, NEW r \in Runs, UserStep(r)
    PROVE  KeepsMoney(r)
  <1>1. /\ PaidInv /\ TypeInv /\ TypeOK /\ StageMatchesRow(r)
        /\ Placed(r) /\ Flight(r) /\ Settled(r) /\ Accounts(r) /\ Capped(r)
        /\ mem[r] \in Attempt /\ rows[r] \in Row
    BY MoneyParts
  <1>2. TypeInv' /\ TypeOK' /\ Quiet
    BY <1>1, RunStepTypes, OthersWait DEF TypeInv
  <1>3. Attends(r) /\ Placed(r)' /\ Flight(r)'
    BY <1>1, UserOrderly DEF Orderly
  <1>4. Total(charges[r]) \in Nat
    BY <1>1, MoneyCounted
  <1>5. ASSUME NEW o \in StartOptions, Start(r, o.kept, o.waiting, o.over)
        PROVE  KeepsMoney(r)
    <2>1. /\ rows[r].status = "none" /\ rows'[r].status = "none"
          /\ mem'[r].stage = "opening" /\ mem'[r].threw = 0
          /\ used.raised \subseteq used'.raised
      BY <1>1, <1>5, StartEffects DEF StageMatchesRow, Blank, Counted
    <2>2. OneBatch(r)' /\ Capped(r)' /\ Total(charges[r])' = Total(charges[r])
      BY <1>2, <1>3, <2>1, DeskMoney
    <2>3. ~Ledger(r)'
      BY <2>1 DEF Ledger, Alive
    <2> QED
      BY <1>1, <2>1, <2>2, <2>3 DEF KeepsMoney, Accounts
  <1>6. ASSUME NEW over \in BOOLEAN, Resume(r, over)
        PROVE  KeepsMoney(r)
    <2>1. /\ rows[r].status \notin Terminal \cup {"none"} /\ ~Active(r)
          /\ rows'[r].status = "extracting" /\ mem'[r].spent = rows[r].cost
          /\ IF Outstanding(r) # {} THEN mem'[r].stage = "awaiting"
             ELSE /\ mem'[r].stage \in {"extracting", "submitting"}
                  /\ mem'[r].stage = "submitting" =>
                       mem'[r].over \/ ~(mem'[r].spent + Cardinality(mem'[r].todo) > Cap)
          /\ used.raised \subseteq used'.raised
      BY <1>1, <1>6, ResumeEffects DEF Counted
    <2>2. rows[r].status = "blocked_budget"
      BY <1>1, <2>1 DEF Row, Placed, Alive, Active
    <2>3. mem[r].stage = "idle" /\ Total(charges[r]) <= rows[r].cost
      BY <1>1, <2>2 DEF Placed, Accounts
    <2>4. Outstanding(r) = {}
      BY <1>1, <2>3 DEF Settled
    <2>5. mem'[r].stage = "submitting" /\ r \notin used'.raised
            => Total(charges[r]) + Cardinality(mem'[r].todo) <= Cap
      BY <1>2, <1>3, <1>4, <2>1, <2>3, <2>4, GuardKeepsCap
    <2>6. OneBatch(r)' /\ Capped(r)' /\ Total(charges[r])' = Total(charges[r])
      BY <1>2, <1>3, <2>1, <2>4, <2>5, DeskMoney
    <2>7. Unread(r)' = {}
      BY <2>1, <2>4 DEF Unread
    <2>8. Cardinality(Unread(r)') = 0 /\ mem'[r].spent \in Nat
      BY <1>2, <2>7, FS_EmptySet DEF TypeOK, Attempt
    <2> QED
      BY <1>4, <2>1, <2>3, <2>6, <2>8 DEF KeepsMoney, Accounts
  <1>7. CASE CancelActive(r)
    <2>1. /\ mem'[r].todo = mem[r].todo /\ mem'[r].threw = mem[r].threw
          /\ mem'[r].spent = mem[r].spent /\ mem'[r].stage = mem[r].stage
          /\ mem'[r].aborted /\ UNCHANGED <<rows, results, batches>>
          /\ used.raised \subseteq used'.raised
      BY <1>1, <1>2, <1>7, CancelEffects DEF Counted
    <2>2. OneBatch(r)' /\ Capped(r)' /\ Total(charges[r])' = Total(charges[r])
      BY <1>1, <1>2, <1>3, <2>1, DeskMoney DEF Capped
    <2>3. Unread(r)' = Unread(r) /\ (Ledger(r)' => Ledger(r))
      BY <2>1 DEF Unread, Newest, Ledger, Alive
    <2> QED
      BY <1>1, <2>1, <2>2, <2>3 DEF KeepsMoney, Accounts
  <1>8. CASE CancelPaused(r) /\ ~CancelActive(r)
    <2>1. /\ mem[r].stage \in {"idle", "orphaned"} /\ rows[r].status \notin Terminal \cup {"none"}
          /\ mem'[r].stage = "closing" /\ rows'[r].status = "cancelled"
          /\ mem'[r].threw = mem[r].threw
          /\ used.raised \subseteq used'.raised
      BY <1>1, <1>2, <1>8, CancelEffects DEF Counted
    <2>2. mem[r].threw = 0
      BY <1>1, <2>1 DEF Placed, Flight
    <2>3. OneBatch(r)' /\ Capped(r)'
      BY <1>2, <1>3, <2>1, DeskMoney
    <2>4. ~Ledger(r)'
      BY <2>1, <2>2 DEF Ledger, Alive
    <2> QED
      BY <2>1, <2>3, <2>4 DEF KeepsMoney, Accounts
  <1> QED
    BY <1>5, <1>6, <1>7, <1>8 DEF UserStep

(* The end of a stage writes what was spent to the row.                    *)
LEMMA EndsMoney ==
    ASSUME MoneyInv, TypeInv', used.crashes = 0, NEW r \in Runs,
           \/ ExtractionEnds(r) \/ Consolidated(r) \/ OutlineEnds(r)
           \/ FirstEnds(r) \/ SynthesisEnds(r)
    PROVE  KeepsMoney(r)
  <1>1. /\ PaidInv /\ TypeOK /\ Placed(r) /\ Flight(r) /\ Accounts(r)
        /\ mem[r] \in Attempt
    BY MoneyParts
  <1>2. Attends(r)
    BY <1>1, EndsOrderly DEF Orderly
  <1>3. /\ UNCHANGED used
        /\ Closes(r) \/ Rests(r) \/ GoesOn(r)
        /\ mem[r].stage \in {"extracting", "consolidating", "outline", "first", "modules"}
        /\ mem[r].stage = "consolidating" => ~Rests(r)
    BY <1>1, EndsEffects
  <1>4. /\ Unread(r) = {} /\ mem[r].threw = 0
        /\ rows[r].status \notin {"none", "blocked_budget", "completed"}
    BY <1>1, <1>3 DEF Unread, Flight, Placed
  <1>5. mem'[r].stage \notin {"waiting", "awaiting", "submitting", "booking"}
    BY <1>3, NoAttemptFields DEF Closes, Rests, GoesOn
  <1>6. OneBatch(r)' /\ Capped(r)' /\ Total(charges[r])' = Total(charges[r])
    BY <1>2, <1>3, <1>5, DeskMoney
  <1>7. /\ Total(charges[r]) \in Nat /\ mem[r].spent \in Nat
        /\ Ledger(r) => Total(charges[r]) <= mem[r].spent
    <2>1. /\ Total(charges[r]) \in Nat /\ mem[r].spent \in Nat
          /\ Cardinality(Unread(r)) = 0
      BY <1>1, <1>4, MoneyCounted
    <2> QED
      BY <1>1, <2>1 DEF Accounts
  <1>8. CASE Closes(r)
    <2>1. ~Ledger(r)' /\ rows'[r].status \in {"cancelled", "failed"}
      BY <1>4, <1>8 DEF Closes, Ledger, Alive
    <2> QED
      BY <1>6, <2>1 DEF KeepsMoney, Accounts
  <1>9. CASE Rests(r)
    <2>1. ~Ledger(r)' /\ rows'[r].cost = mem[r].spent
          /\ rows'[r].status \in {"blocked_budget", "completed"}
      BY <1>9, NoAttemptFields DEF Rests, Ledger, Alive
    <2>2. Ledger(r)
      BY <1>3, <1>9 DEF Rests, Ledger, Alive
    <2> QED
      BY <1>6, <1>7, <2>1, <2>2 DEF KeepsMoney, Accounts
  <1>10. CASE GoesOn(r)
    <2>1. Unread(r)' = {} /\ mem'[r].spent = mem[r].spent
      BY <1>10 DEF GoesOn, Unread
    <2>2. Ledger(r)' => Ledger(r)
      BY <1>3, <1>4, <1>10 DEF GoesOn, Ledger, Alive
    <2>3. rows'[r].status \notin {"none", "blocked_budget", "completed"}
      BY <1>4, <1>10 DEF GoesOn, Generating
    <2>4. Cardinality(Unread(r)') = 0
      BY <2>1, FS_EmptySet
    <2> QED
      BY <1>6, <1>7, <2>1, <2>2, <2>3, <2>4 DEF KeepsMoney, Accounts
  <1> QED
    BY <1>3, <1>8, <1>9, <1>10

(* A turn that makes or ends an attempt, or a worker that does not call.   *)
LEMMA TurnMoney ==
    ASSUME MoneyInv, TypeInv', used.crashes = 0, NEW r \in Runs,
           \/ Enter(r) \/ Release(r) \/ OrphansEnd(r)
           \/ Take(r) /\ mem'[r].flying = mem[r].flying
    PROVE  KeepsMoney(r)
  <1>1. /\ PaidInv /\ TypeOK /\ Placed(r) /\ Flight(r) /\ Accounts(r) /\ Capped(r)
        /\ mem[r] \in Attempt
    BY MoneyParts
  <1>2. Attends(r) /\ Placed(r)' /\ TypeOK'
    BY <1>1, TurnOrderly DEF Orderly, TypeInv
  <1>3. Total(charges[r]) \in Nat /\ mem[r].spent \in Nat
    BY <1>1, MoneyCounted
  <1>4. CASE Enter(r)
    <2>1. /\ mem[r].stage = "opening" /\ UNCHANGED used
          /\ rows'[r].cost = rows[r].cost
          /\ \/ mem'[r] = NoAttempt /\ rows'[r].status = "blocked_budget"
             \/ /\ rows'[r].status = "extracting"
                /\ mem'[r].threw = mem[r].threw
                /\ mem'[r].stage \in {"extracting", "submitting"}
                /\ mem'[r].stage = "submitting" =>
                     mem'[r].over \/ ~(mem'[r].spent + Cardinality(mem'[r].todo) > Cap)
      BY <1>1, <1>4, EnterEffects
    <2>2. Total(charges[r]) = 0
      BY <1>1, <2>1 DEF Placed, Accounts
    <2>3. /\ mem'[r].stage \notin {"waiting", "awaiting", "booking"}
          /\ mem'[r].spent \in Nat /\ rows[r].cost \in Nat
      BY <1>1, <1>2, <2>1, NoAttemptFields, MoneyCounted DEF TypeOK, Attempt
    <2>4. mem'[r].stage = "submitting" /\ r \notin used'.raised
            => Total(charges[r]) + Cardinality(mem'[r].todo) <= Cap
      BY <1>2, <1>3, <2>1, <2>2, <2>3, NoAttemptFields, GuardKeepsCap
    <2>5. OneBatch(r)' /\ Capped(r)' /\ Total(charges[r])' = Total(charges[r])
      BY <1>2, <2>1, <2>3, <2>4, DeskMoney
    <2>6. Unread(r)' = {} /\ Cardinality(Unread(r)') = 0
      BY <2>3, FS_EmptySet DEF Unread
    <2> QED
      BY <2>1, <2>2, <2>3, <2>5, <2>6 DEF KeepsMoney, Accounts
  <1>5. CASE Release(r) \/ OrphansEnd(r)
    <2>1. /\ UNCHANGED <<rows, used>> /\ mem[r].stage \in {"closing", "orphaned"}
          /\ \/ /\ mem'[r].stage = "orphaned" /\ mem[r].threw > 0
                /\ mem'[r].spent = mem[r].spent
             \/ mem'[r] = NoAttempt
      BY <1>1, <1>5, ReleaseEffects DEF Carries
    <2>2. mem'[r].stage \in {"idle", "orphaned"}
      BY <2>1, NoAttemptFields
    <2>3. OneBatch(r)' /\ Capped(r)' /\ Total(charges[r])' = Total(charges[r])
      BY <1>2, <2>1, <2>2, DeskMoney
    <2>4. Unread(r)' = {} /\ Unread(r) = {}
      BY <2>1, <2>2 DEF Unread
    <2>5. Ledger(r)' => Ledger(r) /\ mem'[r].spent = mem[r].spent
      BY <2>1, <2>2, NoAttemptFields DEF Ledger, Alive
    <2> QED
      BY <1>1, <2>1, <2>3, <2>4, <2>5 DEF KeepsMoney, Accounts
  <1>6. CASE Take(r) /\ mem'[r].flying = mem[r].flying
    <2>1. /\ UNCHANGED rows /\ Counted(r) /\ Carries(r) /\ mem'[r].stage = mem[r].stage
          /\ mem[r].stage \in Pools
      BY <1>1, <1>6, TakeEffects DEF CanTake
    <2>2. used.raised \subseteq used'.raised
      BY <2>1 DEF Counted
    <2>3. OneBatch(r)' /\ Capped(r)' /\ Total(charges[r])' = Total(charges[r])
      BY <1>2, <2>1, <2>2, DeskMoney DEF Pools
    <2>4. Unread(r)' = {} /\ Unread(r) = {} /\ Ledger(r)' = Ledger(r)
      BY <2>1 DEF Unread, Pools, Ledger, Alive, Carries
    <2> QED
      BY <1>1, <2>1, <2>3, <2>4 DEF KeepsMoney, Accounts, Carries
  <1> QED
    BY <1>4, <1>5, <1>6

(* A worker calls: what is spent leaves room for the call, and the other   *)
(* workers have one call each in flight.                                   *)
LEMMA TakeMoney ==
    ASSUME MoneyInv, TypeInv', used.crashes = 0, NEW r \in Runs, Take(r),
           mem'[r].flying # mem[r].flying
    PROVE  KeepsMoney(r)
  <1>1. /\ PaidInv /\ TypeOK /\ Placed(r) /\ Flight(r) /\ Accounts(r) /\ Capped(r)
        /\ OneBatch(r) /\ mem[r] \in Attempt /\ batches[r] \in Seq(Batch)
    BY MoneyParts
  <1>2. /\ UNCHANGED <<rows, results, batches, charges>> /\ Counted(r) /\ Carries(r)
        /\ CanTake(r) /\ mem'[r].stage = mem[r].stage
    BY <1>1, TakeEffects
  <1>3. PICK u \in mem[r].todo \ results :
           /\ ~mem[r].aborted /\ ~WouldExceed(mem[r], 1)
           /\ mem'[r].flying = mem[r].flying \cup {u}
    BY <1>1, TakeEffects
  <1>4. /\ mem[r].stage \in Pools /\ Cardinality(mem[r].flying) < Width(r)
        /\ mem[r].stage \notin {"booking", "waiting", "submitting"}
    BY <1>2 DEF CanTake, Pools
  <1>5. /\ Total(charges[r]) \in Nat /\ mem[r].spent \in Nat /\ mem[r].threw \in Nat
        /\ Cardinality(mem[r].flying) \in Nat /\ Cap \in Nat \ {0} /\ Reach \in Nat
        /\ IsFiniteSet(mem[r].flying)
    BY <1>1, MoneyCounted DEF Attempt
  <1>6. Unread(r) = {} /\ Unread(r)' = {} /\ Cardinality(Unread(r)) = 0
    BY <1>2, <1>4, FS_EmptySet DEF Unread
  <1>7. Ledger(r) /\ Total(charges[r]) <= mem[r].spent
    <2>1. Ledger(r)
      BY <1>3, <1>4 DEF Ledger, Alive, Pools
    <2> QED
      BY <1>1, <1>5, <1>6, <2>1 DEF Accounts
  <1>8. Pending(r) = {} /\ Pending(r)' = {}
    <2>1. Pending(r) = {}
      BY <1>1, <1>4 DEF OneBatch, Pending, Newest
    <2>2. Pending(r)' = Pending(r)
      BY <1>2 DEF Pending, Newest
    <2> QED
      BY <2>1, <2>2
  <1>9. OneBatch(r)'
    BY <1>1, <1>2, <1>4 DEF OneBatch, Newest
  <1>10. /\ Total(charges[r])' = Total(charges[r]) /\ Ledger(r)' = Ledger(r)
         /\ mem'[r].spent = mem[r].spent
    BY <1>2 DEF Carries, Ledger, Alive
  <1>11. Accounts(r)'
    BY <1>1, <1>2, <1>6, <1>10 DEF Accounts
  <1>12. Width(r) <= Max({ExtractWidth, ModuleWidth})
    BY <1>5, Widest, WidthAssumption DEF Width
  <1>13. Cardinality(mem'[r].flying) <= Cardinality(mem[r].flying) + 1
         /\ Cardinality(mem'[r].flying) \in Nat
    <2> DEFINE F == mem[r].flying
    <2>1. /\ IsFiniteSet(F \cup {u})
          /\ Cardinality(F \cup {u}) = Cardinality(F) \/ Cardinality(F \cup {u}) = Cardinality(F) + 1
      BY <1>5, FS_AddElement
    <2> HIDE DEF F
    <2>2. Cardinality(F \cup {u}) \in Nat /\ Cardinality(F) \in Nat
      BY <1>5, <2>1, FS_CardinalityType DEF F
    <2>3. Cardinality(F \cup {u}) <= Cardinality(F) + 1
      BY <2>1, <2>2
    <2> QED
      BY <1>3, <2>2, <2>3 DEF F
  <1>14. Capped(r)'
    <2> SUFFICES ASSUME r \notin used'.raised
                 PROVE  Total(charges[r]) + Cardinality(mem'[r].flying) <= Reach
      BY <1>2, <1>4, <1>5, <1>8, <1>10, <1>13, FS_EmptySet DEF Capped
    <2>1. ~mem[r].over
      BY <1>1, <1>2 DEF Placed, Counted
    <2>2. mem[r].spent + 1 <= Cap
      BY <1>3, <1>5, <2>1 DEF WouldExceed
    <2>3. Cardinality(mem'[r].flying) <= Max({ExtractWidth, ModuleWidth})
      <3>1. Width(r) \in Int /\ Max({ExtractWidth, ModuleWidth}) \in Nat
        BY <1>5, Widest, WidthAssumption DEF Width
      <3> QED
        BY <1>4, <1>5, <1>12, <1>13, <3>1
    <2>4. Max({ExtractWidth, ModuleWidth}) \in Nat
      BY Widest
    <2> QED
      BY <1>5, <1>7, <1>13, <2>2, <2>3, <2>4 DEF Reach
  <1> QED
    BY <1>9, <1>11, <1>14 DEF KeepsMoney

(* The id of the batch goes to the row, and nothing else changes.          *)
LEMMA BookMoney ==
    ASSUME MoneyInv, used.crashes = 0, NEW r \in Runs, Book(r)
    PROVE  KeepsMoney(r)
  <1>1. TypeOK /\ OneBatch(r) /\ Accounts(r) /\ Capped(r)
    BY MoneyParts
  <1>2. /\ UNCHANGED <<results, batches, charges, used>>
        /\ mem[r].stage = "booking" /\ mem'[r].stage = "waiting"
        /\ mem'[r].flying = mem[r].flying /\ mem'[r].todo = mem[r].todo
        /\ Carries(r)
    BY <1>1, BookEffects
  <1>3. /\ Newest(r)' = Newest(r) /\ Pending(r)' = Pending(r) /\ Unread(r)' = Unread(r)
        /\ Total(charges[r])' = Total(charges[r])
    BY <1>2 DEF Newest, Pending, Unread
  <1>4. OneBatch(r)'
    BY <1>1, <1>2, <1>3 DEF OneBatch
  <1>5. Ledger(r)' = Ledger(r)
    BY <1>2 DEF Ledger, Alive, Carries
  <1>6. Accounts(r)'
    BY <1>1, <1>2, <1>3, <1>5 DEF Accounts, Carries
  <1>7. Capped(r)'
    BY <1>1, <1>2, <1>3 DEF Capped
  <1> QED
    BY <1>4, <1>6, <1>7 DEF KeepsMoney

(* What a batch answered is read back at its price before anything else is *)
(* asked for.                                                              *)
LEMMA ReturnMoney ==
    ASSUME MoneyInv, TypeInv', used.crashes = 0, NEW r \in Runs,
           SubmitFails(r) \/ AwaitedOver(r) \/ BatchReadBack(r) \/ BatchDropped(r)
    PROVE  KeepsMoney(r)
  <1>1. /\ PaidInv /\ TypeOK /\ Flight(r) /\ OneBatch(r) /\ Accounts(r)
        /\ mem[r] \in Attempt
    BY MoneyParts
  <1>2. Attends(r) /\ Placed(r)' /\ TypeOK'
    BY <1>1, ReturnOrderly DEF Orderly, TypeInv
  <1> DEFINE back == mem[r].todo \cap results
  <1>3. /\ UNCHANGED <<rows, results, batches, charges>> /\ Counted(r)
        /\ mem[r].stage \in {"submitting", "awaiting", "waiting", "dropping"}
        /\ mem'[r].stage \in {"extracting", "submitting"}
        /\ mem'[r].stage = "submitting" =>
             /\ ~mem[r].aborted
             /\ mem'[r].over \/ ~(mem'[r].spent + Cardinality(mem'[r].todo) > Cap)
        /\ mem'[r].threw = mem[r].threw /\ mem'[r].aborted = mem[r].aborted
        /\ mem'[r].spent = mem[r].spent +
             (IF mem[r].stage = "waiting" /\ ~mem[r].aborted THEN Cardinality(back) ELSE 0)
    BY <1>1, ReturnEffects
  <1>4. /\ Total(charges[r]) \in Nat /\ mem[r].spent \in Nat /\ mem'[r].spent \in Nat
        /\ IsFiniteSet(mem[r].todo)
    BY <1>1, <1>2, MoneyCounted DEF TypeOK, Attempt
  <1>5. IsFiniteSet(back) /\ Cardinality(back) \in Nat
    BY <1>4, FS_Subset, FS_CardinalityType
  <1>6. ~mem[r].aborted => Total(charges[r]) <= mem'[r].spent
    <2> SUFFICES ASSUME ~mem[r].aborted PROVE Total(charges[r]) <= mem'[r].spent
      OBVIOUS
    <2>1. Total(charges[r]) <= mem[r].spent + Cardinality(Unread(r))
      BY <1>1, <1>3 DEF Accounts, Ledger, Alive
    <2>2. CASE mem[r].stage = "waiting"
      <3>1. Unread(r) \subseteq back
        BY <1>1, <2>2 DEF OneBatch, Unread
      <3>2. IsFiniteSet(Unread(r)) /\ Cardinality(Unread(r)) <= Cardinality(back)
        BY <1>5, <3>1, FS_Subset
      <3>3. Cardinality(Unread(r)) \in Nat
        BY <3>2, FS_CardinalityType
      <3>4. mem'[r].spent = mem[r].spent + Cardinality(back)
        BY <1>3, <2>2
      <3> HIDE DEF back
      <3> QED
        BY <1>4, <1>5, <2>1, <3>2, <3>3, <3>4
    <2>3. CASE mem[r].stage # "waiting"
      <3>1. Unread(r) = {}
        BY <1>3, <2>3 DEF Unread
      <3>2. Cardinality(Unread(r)) = 0
        BY <3>1, FS_EmptySet
      <3> QED
        BY <1>3, <1>4, <2>1, <2>3, <3>2
    <2> QED
      BY <2>2, <2>3
  <1>7. mem'[r].stage = "submitting" /\ r \notin used'.raised
          => Total(charges[r]) + Cardinality(mem'[r].todo) <= Cap
    BY <1>2, <1>3, <1>4, <1>6, GuardKeepsCap
  <1>8. OneBatch(r)' /\ Capped(r)' /\ Total(charges[r])' = Total(charges[r])
    BY <1>2, <1>3, <1>7, DeskMoney DEF Counted
  <1>9. Unread(r)' = {} /\ Cardinality(Unread(r)') = 0
    BY <1>3, FS_EmptySet DEF Unread
  <1>10. Ledger(r)' => ~mem[r].aborted
    BY <1>1, <1>3 DEF Ledger, Alive, Flight
  <1> QED
    BY <1>1, <1>3, <1>4, <1>6, <1>8, <1>9, <1>10 DEF KeepsMoney, Accounts

(* A call that fails is not charged; what its run spent is still known.    *)
LEMMA FailMoney ==
    ASSUME MoneyInv, TypeInv', used.crashes = 0, NEW r \in Runs,
           NEW u \in Units, CallFails(r, u)
    PROVE  KeepsMoney(r)
  <1>1. PaidInv /\ TypeOK /\ Flight(r) /\ Accounts(r) /\ mem[r] \in Attempt
    BY MoneyParts
  <1>2. Attends(r)
    BY <1>1, ReturnOrderly DEF Orderly
  <1>3. /\ Counted(r) /\ u \in mem[r].flying
        /\ mem'[r].spent = mem[r].spent /\ mem'[r].aborted = mem[r].aborted
        /\ \/ /\ Active(r) /\ ~mem[r].aborted
              /\ mem'[r].stage = "closing" /\ rows'[r].status = "failed"
           \/ /\ mem'[r].stage = mem[r].stage /\ UNCHANGED rows
              /\ \/ mem'[r].threw = mem[r].threw
                 \/ mem'[r].threw = mem[r].threw + 1 /\ ~Active(r)
    BY <1>1, FailEffects
  <1>4. mem[r].stage \in Pools \cup {"closing"}
    BY <1>1, <1>3 DEF Flight
  <1>5. mem'[r].stage \notin {"booking", "waiting", "awaiting", "submitting"}
    BY <1>3, <1>4 DEF Pools
  <1>6. OneBatch(r)' /\ Capped(r)' /\ Total(charges[r])' = Total(charges[r])
    BY <1>2, <1>3, <1>5, DeskMoney DEF Counted
  <1>7. Unread(r) = {} /\ Unread(r)' = {}
    BY <1>4, <1>5 DEF Unread, Pools
  <1>8. Ledger(r)' => Ledger(r)
    BY <1>1, <1>3, <1>4 DEF Ledger, Alive, Active, Pools, Flight
  <1> QED
    BY <1>1, <1>3, <1>6, <1>7, <1>8 DEF KeepsMoney, Accounts

(* A call that is answered is charged, and accounted.                      *)
LEMMA AnswerMoney ==
    ASSUME MoneyInv, TypeInv', used.crashes = 0, NEW r \in Runs,
           NEW u \in Units, CallAnswered(r, u)
    PROVE  KeepsMoney(r)
  <1>1. /\ PaidInv /\ TypeOK /\ Placed(r) /\ Flight(r) /\ OneBatch(r)
        /\ Accounts(r) /\ Capped(r) /\ mem[r] \in Attempt
    BY MoneyParts
  <1>2. /\ UNCHANGED <<rows, batches>> /\ used'.raised = used.raised
        /\ u \in mem[r].flying
        /\ \A v \in Units : charges'[r][v] = charges[r][v] + (IF v = u THEN 1 ELSE 0)
        /\ mem'[r].stage = mem[r].stage
        /\ mem'[r].flying = mem[r].flying \ {u}
        /\ mem'[r].spent = mem[r].spent + 1
        /\ mem'[r].aborted = mem[r].aborted /\ mem'[r].threw = mem[r].threw
    BY <1>1, AnswerEffects DEF Steady
  <1>3. charges[r] \in [Units -> Nat] /\ charges'[r] \in [Units -> Nat]
    BY <1>1 DEF TypeOK, TypeInv
  <1>4. Total(charges[r])' = Total(charges[r]) + 1
    <2>1. Total(charges'[r]) = Total(charges[r]) + 1
      BY <1>2, <1>3, TotalBump
    <2> QED
      BY <2>1
  <1>5. /\ Total(charges[r]) \in Nat /\ mem[r].spent \in Nat /\ Reach \in Nat
        /\ IsFiniteSet(mem[r].flying) /\ Cardinality(mem[r].flying) \in Nat
        /\ Cardinality(Pending(r)) \in Nat
    BY <1>1, MoneyCounted
  <1>6. Cardinality(mem'[r].flying) = Cardinality(mem[r].flying) - 1
    <2> DEFINE F == mem[r].flying
    <2>1. Cardinality(F \ {u}) = Cardinality(F) - 1
      BY <1>2, <1>5, FS_RemoveElement
    <2> QED
      BY <1>2, <2>1
  <1>7. mem[r].stage \in Pools \cup {"closing"}
    BY <1>1, <1>2 DEF Flight
  <1>8. /\ Unread(r) = {} /\ Unread(r)' = {} /\ Cardinality(Unread(r)) = 0
        /\ Pending(r)' = Pending(r)
    BY <1>2, <1>7, FS_EmptySet DEF Unread, Pending, Newest, Pools
  <1>9. OneBatch(r)'
    BY <1>1, <1>2, <1>7 DEF OneBatch, Pools
  <1>10. Accounts(r)'
    <2>1. Ledger(r)' = Ledger(r)
      BY <1>2 DEF Ledger, Alive
    <2>2. rows'[r].status \notin {"none", "blocked_budget", "completed"}
      BY <1>1, <1>2, <1>7 DEF Placed, Pools
    <2>3. Ledger(r) => Total(charges[r]) <= mem[r].spent
      BY <1>1, <1>5, <1>8 DEF Accounts
    <2>4. Cardinality(Unread(r)') = 0
      BY <1>8
    <2> QED
      BY <1>2, <1>4, <1>5, <2>1, <2>2, <2>3, <2>4 DEF Accounts
  <1>11. Capped(r)'
    <2> SUFFICES ASSUME r \notin used.raised
                 PROVE  Total(charges[r])' + Cardinality(mem'[r].flying)
                          + Cardinality(Pending(r)') <= Reach
      BY <1>2, <1>7 DEF Capped, Pools
    <2>1. Total(charges[r]) + Cardinality(mem[r].flying) + Cardinality(Pending(r)) <= Reach
      BY <1>1 DEF Capped
    <2> QED
      BY <1>4, <1>5, <1>6, <1>8, <2>1
  <1> QED
    BY <1>9, <1>10, <1>11 DEF KeepsMoney

(* The batch asks for no more than the cap has room for, when none runs.   *)
LEMMA SubmitMoney ==
    ASSUME MoneyInv, used.crashes = 0, NEW r \in Runs, SubmitReturns(r)
    PROVE  KeepsMoney(r)
  <1>1. /\ TypeInv /\ TypeOK /\ Flight(r) /\ OneBatch(r) /\ Accounts(r) /\ Capped(r)
        /\ batches[r] \in Seq(Batch)
    BY MoneyParts
  <1> DEFINE b == batches'[r][Len(batches[r]) + 1]
  <1>2. /\ UNCHANGED <<rows, results, charges, used>>
        /\ mem[r].stage = "submitting" /\ mem'[r].stage = "booking"
        /\ mem'[r].flying = mem[r].flying /\ mem'[r].todo = mem[r].todo
        /\ Carries(r)
        /\ Len(batches'[r]) = Len(batches[r]) + 1
        /\ \A k \in 1 .. Len(batches[r]) : batches'[r][k] = batches[r][k]
        /\ b.items \subseteq mem[r].todo /\ b.answered = {}
    BY <1>1, SubmitReturnsEffects
  <1>3. Newest(r)' = b /\ Len(batches[r]) \in Nat /\ Len(batches'[r]) # 0
    BY <1>1, <1>2 DEF Newest
  <1> HIDE DEF b
  <1>4. \A k \in DOMAIN batches[r] : batches[r][k].status # "running"
    BY <1>1, <1>2 DEF OneBatch
  <1>5. OneBatch(r)'
    <2>1. ASSUME NEW k \in DOMAIN batches'[r], batches'[r][k].status = "running"
          PROVE  k = Len(batches'[r])
      <3>1. batches'[r] \in Seq(Batch)
        BY <1>1, RunStepTypes DEF CallStep, TypeInv, TypeOK
      <3>2. k \in 1 .. Len(batches[r]) + 1 /\ DOMAIN batches[r] = 1 .. Len(batches[r])
        BY <1>1, <1>2, <2>1, <3>1
      <3> QED
        BY <1>2, <1>3, <1>4, <2>1, <3>2
    <2> QED
      BY <1>2, <1>3, <2>1 DEF OneBatch
  <1>6. Unread(r) = {} /\ Unread(r)' = {}
    BY <1>2, <1>3 DEF Unread
  <1>7. Total(charges[r])' = Total(charges[r]) /\ Ledger(r)' = Ledger(r)
    BY <1>2 DEF Ledger, Alive, Carries
  <1>8. Accounts(r)'
    BY <1>1, <1>2, <1>6, <1>7 DEF Accounts, Carries
  <1>9. Capped(r)'
    <2>1. /\ Total(charges[r]) \in Nat /\ Reach \in Nat /\ Cap \in Nat /\ Cap <= Reach
          /\ IsFiniteSet(mem[r].todo) /\ Cardinality(mem[r].todo) \in Nat
      BY <1>1, MoneyCounted
    <2>2. mem'[r].flying = {} /\ Cardinality(mem'[r].flying) = 0
      BY <1>1, <1>2, FS_EmptySet DEF Flight, Pools
    <2>3. Pending(r)' \subseteq mem[r].todo
      BY <1>2, <1>3 DEF Pending
    <2>4. /\ Cardinality(Pending(r)') <= Cardinality(mem[r].todo)
          /\ IsFiniteSet(Pending(r)')
      BY <2>1, <2>3, FS_Subset
    <2>5. Cardinality(Pending(r)') \in Nat
      BY <2>4, FS_CardinalityType
    <2>6. r \notin used.raised => Total(charges[r]) + Cardinality(mem[r].todo) <= Cap
      BY <1>1, <1>2 DEF Capped
    <2> QED
      BY <1>2, <1>7, <2>1, <2>2, <2>4, <2>5, <2>6 DEF Capped
  <1> QED
    BY <1>5, <1>8, <1>9 DEF KeepsMoney

(* No batch of a run that drops its batches runs on.                       *)
LEMMA DropMoney ==
    ASSUME MoneyInv, used.crashes = 0, NEW r \in Runs, DropBatch(r)
    PROVE  KeepsMoney(r)
  <1>1. /\ TypeInv /\ TypeOK /\ Flight(r) /\ Batched(r) /\ OneBatch(r)
        /\ Accounts(r) /\ Capped(r) /\ batches[r] \in Seq(Batch)
    BY MoneyParts
  <1>2. /\ UNCHANGED <<rows, results, charges, used>>
        /\ mem[r].stage \in {"awaiting", "waiting"} /\ mem'[r].stage = "dropping"
        /\ mem[r].aborted
        /\ mem'[r].flying = mem[r].flying
        /\ Carries(r)
        /\ DOMAIN batches'[r] = DOMAIN batches[r]
        /\ Len(batches'[r]) = Len(batches[r])
        /\ \A k \in DOMAIN batches[r] :
              batches'[r][k].status = (IF k \in Outstanding(r) THEN "cancelled"
                                       ELSE batches[r][k].status)
    BY <1>1, DropEffects
  <1>3. \A k \in DOMAIN batches[r] : batches[r][k].status = "running" => k \in Outstanding(r)
    BY <1>1, <1>2 DEF Batched, Lost, Outstanding
  <1>4. \A k \in DOMAIN batches'[r] : batches'[r][k].status # "running"
    BY <1>2, <1>3
  <1>5. OneBatch(r)'
    BY <1>2, <1>4 DEF OneBatch
  <1>6. Pending(r)' = {}
    <2>1. batches'[r] \in Seq(Batch)
      BY <1>1, RunStepTypes DEF CallStep, TypeInv, TypeOK
    <2>2. Len(batches'[r]) # 0 => Len(batches'[r]) \in DOMAIN batches'[r]
      BY <2>1
    <2> QED
      BY <1>4, <2>2 DEF Pending, Newest
  <1>7. Total(charges[r])' = Total(charges[r]) /\ ~Ledger(r)'
    BY <1>1, <1>2 DEF Ledger, Alive, Carries, Flight
  <1>8. Accounts(r)'
    BY <1>1, <1>2, <1>7 DEF Accounts, Carries
  <1>9. Capped(r)'
    <2>1. /\ Total(charges[r]) \in Nat /\ Reach \in Nat
          /\ Cardinality(mem[r].flying) \in Nat /\ Cardinality(Pending(r)) \in Nat
      BY <1>1, MoneyCounted
    <2>2. Cardinality(Pending(r)') = 0
      BY <1>6, FS_EmptySet
    <2> QED
      BY <1>1, <1>2, <1>7, <2>1, <2>2 DEF Capped
  <1> QED
    BY <1>5, <1>8, <1>9 DEF KeepsMoney

(* A batch answers a unit that its run will read back, or ends.            *)
LEMMA BatchMoney ==
    ASSUME MoneyInv, TypeInv', used.crashes = 0, NEW r \in Runs, BatchStep(r)
    PROVE  KeepsMoney(r)
  <1>1. /\ TypeInv /\ TypeOK /\ Placed(r) /\ OneBatch(r) /\ Accounts(r) /\ Capped(r)
        /\ batches[r] \in Seq(Batch)
    BY MoneyParts
  <1>2. /\ Total(charges[r]) \in Nat /\ mem[r].spent \in Nat /\ Reach \in Nat
        /\ Cardinality(mem[r].flying) \in Nat
        /\ IsFiniteSet(Pending(r)) /\ Cardinality(Pending(r)) \in Nat
        /\ Len(batches[r]) # 0 => IsFiniteSet(Unread(r)) /\ Cardinality(Unread(r)) \in Nat
    BY <1>1, MoneyCounted
  <1>3. ASSUME NEW k \in DOMAIN batches[r], NEW u \in Chunks, BatchAnswers(r, k, u)
        PROVE  KeepsMoney(r)
    <2>1. /\ UNCHANGED <<rows, mem>> /\ used'.raised = used.raised
          /\ batches[r][k].status = "running"
          /\ u \in batches[r][k].items \ batches[r][k].answered
          /\ \/ /\ Answered(u)
                /\ \A v \in Units :
                     charges'[r][v] = charges[r][v] + (IF v = u THEN 1 ELSE 0)
             \/ /\ \A v \in Units : v \in results' <=> v \in results
                /\ charges' = charges
          /\ DOMAIN batches'[r] = DOMAIN batches[r]
          /\ Len(batches'[r]) = Len(batches[r])
          /\ \A j \in DOMAIN batches[r] \ {k} : batches'[r][j] = batches[r][j]
          /\ batches'[r][k].items = batches[r][k].items
          /\ batches'[r][k].answered = batches[r][k].answered \cup {u}
          /\ batches'[r][k].status = "running"
      BY <1>1, <1>3, BatchAnswerEffects DEF Steady
    <2>2. /\ k = Len(batches[r]) /\ mem[r].stage \in {"booking", "waiting"}
          /\ Len(batches[r]) # 0
      BY <1>1, <2>1 DEF OneBatch
    <2>3. /\ Newest(r) = batches[r][k] /\ Newest(r)' = batches'[r][k]
      BY <2>1, <2>2 DEF Newest
    <2>4. u \in Units /\ Newest(r).answered \subseteq Units
      <3>1. batches[r][k] \in Batch
        BY <1>1, <2>2, ElementOfSeq, LenProperties
      <3> QED
        BY <2>3, <3>1, UnitKinds DEF Batch
    <2>5. /\ Pending(r)' = Pending(r) \ {u} /\ u \in Pending(r)
      BY <2>1, <2>2, <2>3 DEF Pending
    <2>6. Cardinality(Pending(r)') = Cardinality(Pending(r)) - 1
      BY <1>2, <2>5, FS_RemoveElement
    <2>7. /\ Unread(r) = Newest(r).answered \cap results
          /\ Unread(r)' = (Newest(r).answered \cup {u}) \cap results'
          /\ u \notin Unread(r)
      BY <2>1, <2>2, <2>3 DEF Unread
    <2>8. /\ Total(charges[r])' \in Nat
          /\ Total(charges[r])' <= Total(charges[r]) + 1
          /\ Total(charges[r])' + Cardinality(Unread(r))
                <= Total(charges[r]) + Cardinality(Unread(r)')
          /\ Cardinality(Unread(r)') \in Nat
      <3>1. CASE /\ Answered(u)
                 /\ \A v \in Units :
                      charges'[r][v] = charges[r][v] + (IF v = u THEN 1 ELSE 0)
        <4>1. charges[r] \in [Units -> Nat] /\ charges'[r] \in [Units -> Nat]
          BY <1>1 DEF TypeOK, TypeInv
        <4>2. Total(charges'[r]) = Total(charges[r]) + 1
          BY <2>4, <3>1, <4>1, TotalBump
        <4>3. Unread(r)' = Unread(r) \cup {u}
          BY <2>4, <2>7, <3>1 DEF Answered
        <4>4. Cardinality(Unread(r)') = Cardinality(Unread(r)) + 1
          BY <1>2, <2>2, <2>7, <4>3, FS_AddElement
        <4> QED
          BY <1>2, <2>2, <4>2, <4>4
      <3>2. CASE /\ \A v \in Units : v \in results' <=> v \in results
                 /\ charges' = charges
        <4>1. Unread(r)' \in {Unread(r), Unread(r) \cup {u}}
          BY <2>4, <2>7, <3>2
        <4>2. Cardinality(Unread(r) \cup {u}) = Cardinality(Unread(r)) + 1
          BY <1>2, <2>2, <2>7, FS_AddElement
        <4>3. Cardinality(Unread(r)) \in Nat
          BY <1>2, <2>2
        <4>4. /\ Cardinality(Unread(r)') \in Nat
              /\ Cardinality(Unread(r)) <= Cardinality(Unread(r)')
          <5>1. CASE Unread(r)' = Unread(r)
            BY <4>3, <5>1
          <5>2. CASE Unread(r)' = Unread(r) \cup {u}
            BY <4>2, <4>3, <5>2
          <5> QED
            BY <4>1, <5>1, <5>2
        <4>5. Total(charges[r])' = Total(charges[r])
          BY <3>2
        <4> QED
          BY <1>2, <4>3, <4>4, <4>5
      <3> QED
        BY <2>1, <3>1, <3>2
    <2>9. OneBatch(r)'
      <3>1. /\ Newest(r)'.answered \subseteq mem'[r].todo
            /\ Newest(r)'.items \subseteq mem'[r].todo
        BY <1>1, <2>1, <2>2, <2>3 DEF OneBatch
      <3>2. \A j \in DOMAIN batches'[r] :
               batches'[r][j].status = "running" => j = Len(batches'[r])
        BY <1>1, <2>1, <2>2 DEF OneBatch
      <3> QED
        BY <2>1, <2>2, <3>1, <3>2 DEF OneBatch
    <2>10. Ledger(r)' = Ledger(r)
      BY <2>1 DEF Ledger, Alive
    <2>11. rows'[r].status \notin {"none", "blocked_budget", "completed"}
      BY <1>1, <2>1, <2>2 DEF Placed
    <2>12. Accounts(r)'
      <3>1. Ledger(r) => Total(charges[r]) <= mem[r].spent + Cardinality(Unread(r))
        BY <1>1 DEF Accounts
      <3>2. Ledger(r)' => Total(charges[r])' <= mem[r].spent + Cardinality(Unread(r)')
        BY <1>2, <2>2, <2>8, <2>10, <3>1
      <3> QED
        BY <2>1, <2>11, <3>2 DEF Accounts
    <2>13. Capped(r)'
      <3> SUFFICES ASSUME r \notin used.raised
                   PROVE  Total(charges[r])' + Cardinality(mem[r].flying)
                            + Cardinality(Pending(r)') <= Reach
        BY <2>1, <2>2 DEF Capped
      <3>1. Total(charges[r]) + Cardinality(mem[r].flying) + Cardinality(Pending(r)) <= Reach
        BY <1>1 DEF Capped
      <3> QED
        BY <1>2, <2>6, <2>8, <3>1
    <2> QED
      BY <2>9, <2>12, <2>13 DEF KeepsMoney
  <1>4. ASSUME NEW k \in DOMAIN batches[r], BatchEnds(r, k)
        PROVE  KeepsMoney(r)
    <2>1. /\ UNCHANGED <<rows, mem, results, charges, used>>
          /\ DOMAIN batches'[r] = DOMAIN batches[r]
          /\ Len(batches'[r]) = Len(batches[r])
          /\ \A j \in DOMAIN batches[r] \ {k} : batches'[r][j] = batches[r][j]
          /\ batches'[r][k].items = batches[r][k].items
          /\ batches'[r][k].answered = batches[r][k].answered
          /\ batches'[r][k].status = "ended"
      BY <1>1, <1>4, EndEffects
    <2>0. batches[r][k].status = "running"
      BY <1>4 DEF BatchEnds
    <2>2. k = Len(batches[r]) /\ mem[r].stage \in {"booking", "waiting"} /\ Len(batches[r]) # 0
      BY <1>1, <2>0 DEF OneBatch
    <2>3. /\ Newest(r)'.items = Newest(r).items /\ Newest(r)'.answered = Newest(r).answered
          /\ Newest(r)'.status = "ended"
      BY <2>1, <2>2 DEF Newest
    <2>4. Unread(r)' = Unread(r) /\ Pending(r)' = {} /\ Cardinality(Pending(r)') = 0
      BY <2>1, <2>3, FS_EmptySet DEF Unread, Pending
    <2>5. \A j \in DOMAIN batches'[r] : batches'[r][j].status # "running"
      BY <1>1, <2>1, <2>2 DEF OneBatch
    <2>6. OneBatch(r)'
      BY <1>1, <2>1, <2>2, <2>3, <2>5 DEF OneBatch
    <2>7. Total(charges[r])' = Total(charges[r]) /\ Ledger(r)' = Ledger(r)
      BY <2>1 DEF Ledger, Alive
    <2>8. Accounts(r)'
      BY <1>1, <2>1, <2>4, <2>7 DEF Accounts
    <2>9. Capped(r)'
      BY <1>1, <1>2, <2>1, <2>2, <2>4, <2>7 DEF Capped
    <2> QED
      BY <2>6, <2>8, <2>9 DEF KeepsMoney
  <1> QED
    BY <1>3, <1>4 DEF BatchStep

(* What another run spent is as it was.                                    *)
LEMMA OtherMoney ==
    ASSUME MoneyInv, used.crashes = 0, NEW r \in Runs, NEW q \in Runs \ {r}, Local(r),
           batches'[q] = batches[q], charges'[q] = charges[q], Remains,
           used.raised \subseteq used'.raised
    PROVE  KeepsMoney(q)
  <1>1. OneBatch(q) /\ Accounts(q) /\ Capped(q)
    BY MoneyParts
  <1>2. mem'[q] = mem[q] /\ rows'[q] = rows[q]
    BY DEF Local
  <1>3. /\ Newest(q)' = Newest(q) /\ Total(charges[q])' = Total(charges[q])
        /\ Ledger(q)' = Ledger(q)
    BY <1>2 DEF Newest, Ledger, Alive
  <1>4. Pending(q)' = Pending(q)
    BY <1>2, <1>3 DEF Pending
  <1>7. Ledger(q) => Total(charges[q]) <= mem[q].spent + Cardinality(Unread(q)')
    <2>1. CASE mem[q].stage \in {"booking", "waiting"}
      <3>1. Len(batches[q]) # 0 /\ TypeOK
        BY <1>1, <2>1, MoneyParts DEF OneBatch
      <3>2. Newest(q).answered \subseteq Units
        <4>1. Newest(q) \in Batch
          BY <3>1, MoneyParts, ElementOfSeq, LenProperties DEF Newest
        <4> QED
          BY <4>1, UnitKinds DEF Batch
      <3>3. Unread(q) \subseteq Unread(q)' /\ Unread(q)' \subseteq Units
        BY <1>2, <1>3, <2>1, <3>2 DEF Unread, Remains
      <3>4. /\ Cardinality(Unread(q)) <= Cardinality(Unread(q)')
            /\ Cardinality(Unread(q)) \in Nat /\ Cardinality(Unread(q)') \in Nat
        BY <3>3, UnitsFinite, FS_Subset, FS_CardinalityType
      <3>5. Total(charges[q]) \in Nat /\ mem[q].spent \in Nat
        BY <3>1, MoneyCounted
      <3> QED
        BY <1>1, <3>4, <3>5 DEF Accounts
    <2>2. CASE mem[q].stage \notin {"booking", "waiting"}
      BY <1>1, <1>2, <2>2 DEF Accounts, Unread
    <2> QED
      BY <2>1, <2>2
  <1>5. OneBatch(q)'
    BY <1>1, <1>2, <1>3 DEF OneBatch
  <1>6. Accounts(q)' /\ Capped(q)'
    BY <1>1, <1>2, <1>3, <1>4, <1>7 DEF Accounts, Capped
  <1> QED
    BY <1>5, <1>6 DEF KeepsMoney

(* The invariant after a step of a run, ...                                *)
LEMMA RunStepMoney ==
    ASSUME MoneyInv, NEW r \in Runs,
           UserStep(r) \/ TurnStep(r) \/ CallStep(r) \/ BatchStep(r)
    PROVE  MoneyInv'
  <1>1. PaidInv /\ TypeInv /\ PaidInv' /\ TypeInv'
    BY RunStepPaid DEF MoneyInv, PaidInv, RunInv
  <1>2. /\ \A q \in Runs \ {r} : batches'[q] = batches[q] /\ charges'[q] = charges[q]
        /\ Remains
        /\ used'.crashes = used.crashes /\ used.raised \subseteq used'.raised
    BY <1>1, OthersWork
  <1>3. Local(r)
    BY <1>1, RunStepTypes
  <1> SUFFICES ASSUME used.crashes = 0 PROVE \A q \in Runs : KeepsMoney(q)
    BY <1>1, <1>2 DEF MoneyInv, KeepsMoney
  <1>4. \A q \in Runs \ {r} : KeepsMoney(q)
    BY <1>2, <1>3, OtherMoney
  <1>5. UserStep(r) => KeepsMoney(r)
    BY UserMoney
  <1>6. TurnStep(r) => KeepsMoney(r)
    BY <1>1, EndsMoney, TurnMoney, TakeMoney, BookMoney DEF TurnStep
  <1>7. CallStep(r) => KeepsMoney(r)
    BY <1>1, EndsMoney, ReturnMoney, FailMoney, AnswerMoney, SubmitMoney, DropMoney
       DEF CallStep
  <1>8. BatchStep(r) => KeepsMoney(r)
    BY <1>1, BatchMoney
  <1>9. KeepsMoney(r)
    BY <1>5, <1>6, <1>7, <1>8
  <1> QED
    BY <1>4, <1>9

(* ... at the start, when nothing is charged, ...                          *)
LEMMA InitMoney == Init => MoneyInv
  <1> SUFFICES ASSUME Init PROVE MoneyInv
    OBVIOUS
  <1> SUFFICES ASSUME NEW r \in Runs PROVE OneBatch(r) /\ Accounts(r) /\ Capped(r)
    BY InitPaid DEF MoneyInv
  <1>1. /\ rows[r].status = "none" /\ mem[r] = NoAttempt /\ batches[r] = <<>>
        /\ \A u \in Units : charges[r][u] = 0
    BY DEF Init
  <1>2. Total(charges[r]) = 0
    BY <1>1, TotalZero
  <1>3. OneBatch(r)
    BY <1>1, NoAttemptFields DEF OneBatch
  <1>4. ~Ledger(r)
    BY <1>1, NoAttemptFields DEF Ledger, Alive
  <1>5. Accounts(r)
    BY <1>1, <1>2, <1>4 DEF Accounts
  <1>6. Pending(r) = {} /\ Cardinality({}) = 0
    BY <1>1, FS_EmptySet DEF Pending
  <1>7. Reach \in Nat
    BY Widest, BudgetAssumption DEF Reach
  <1>8. Capped(r)
    BY <1>1, <1>2, <1>6, <1>7, NoAttemptFields DEF Capped
  <1> QED
    BY <1>3, <1>5, <1>8

(* ... and after any step: once a crash has come, nothing is claimed.      *)
LEMMA NextMoney == MoneyInv /\ [Next]_vars => MoneyInv'
  <1> SUFFICES ASSUME MoneyInv, [Next]_vars PROVE MoneyInv'
    OBVIOUS
  <1>1. PaidInv' /\ TypeOK
    BY NextPaid DEF MoneyInv, PaidInv, RunInv, TypeInv
  <1>2. ASSUME NEW heard \in BOOLEAN,
               NEW billed \in 0 .. MaxRefused, Crash(heard, billed)
        PROVE  MoneyInv'
    <2>1. used'.crashes = used.crashes + 1 /\ used.crashes \in Nat
      BY <1>1, <1>2, CrashEffects DEF TypeOK
    <2> QED
      BY <1>1, <2>1 DEF MoneyInv
  <1>3. CASE UNCHANGED vars
    <2>1. UNCHANGED <<rows, results, batches, mem, charges, used>>
      BY <1>3 DEF vars
    <2>2. ASSUME NEW r \in Runs
          PROVE  /\ OneBatch(r)' = OneBatch(r) /\ Accounts(r)' = Accounts(r)
                 /\ Capped(r)' = Capped(r)
      <3>1. /\ Newest(r)' = Newest(r) /\ Total(charges[r])' = Total(charges[r])
            /\ Ledger(r)' = Ledger(r)
        BY <2>1 DEF Newest, Ledger, Alive
      <3>2. Unread(r)' = Unread(r) /\ Pending(r)' = Pending(r)
        BY <2>1, <3>1 DEF Unread, Pending
      <3> QED
        BY <2>1, <3>1, <3>2 DEF OneBatch, Accounts, Capped
    <2> QED
      BY <1>1, <2>1, <2>2 DEF MoneyInv
  <1> QED
    BY <1>2, <1>3, StepKinds, RunStepMoney

(* The money of a run: over all of its attempts it buys no more answers    *)
(* than the cap and what its pool had in flight beside the call that       *)
(* reached it (budget.ts:1-14), and the cost on the row of a run that is   *)
(* complete or paused leaves out none of them (generation-run.ts:60-65).   *)
(* The attempts refused are billed beside both.                            *)
THEOREM MoneyCorrect == Spec => []MoneyOnRecord
  <1>1. MoneyInv => MoneyOnRecord
    <2> SUFFICES ASSUME MoneyInv, used.crashes = 0, NEW r \in Runs
                 PROVE  /\ r \notin used.raised => Spent(r) <= Reach
                        /\ rows[r].status \in {"completed", "blocked_budget"}
                             => Spent(r) <= rows[r].cost
      BY DEF MoneyOnRecord, BudgetRespected, CostOnRecord, Reach
    <2>1. TypeOK /\ Accounts(r) /\ Capped(r)
      BY MoneyParts
    <2>2. /\ Total(charges[r]) \in Nat /\ Cardinality(mem[r].flying) \in Nat
          /\ Cardinality(Pending(r)) \in Nat /\ Reach \in Nat
      BY <2>1, MoneyCounted
    <2>3. Spent(r) = Total(charges[r])
      BY SpentIsTotal
    <2> QED
      BY <2>1, <2>2, <2>3 DEF Accounts, Capped
  <1>2. Spec => []MoneyInv
    BY InitMoney, NextMoney, PTL DEF Spec
  <1> QED
    BY <1>1, <1>2, PTL

=============================================================================
