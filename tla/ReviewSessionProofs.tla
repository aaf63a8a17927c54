------------------------ MODULE ReviewSessionProofs ------------------------
(***************************************************************************)
(* Proofs about ReviewSession, for any number of cards, any history before *)
(* the first session, any drill and any bound.                             *)
(***************************************************************************)
EXTENDS ReviewSession, TLAPS, FiniteSetTheorems, SequenceTheorems, NaturalsInduction,
        WellFoundedInduction

USE CardsAssumption, LeechAssumption, BoundsAssumption

(* A least natural number.                                                 *)
LEMMA LeastNat ==
    ASSUME NEW X \in SUBSET Nat, X # {}
    PROVE  \E n \in X : \A m \in X : n <= m
  <1> DEFINE R == OpToRel(<, Nat)
  <1>1. IsWellFoundedOn(R, Nat)
    BY NatLessThanWellFounded
  <1>2. \A m, n \in Nat : m < n => <<m, n>> \in R
    BY DEF OpToRel
  <1> HIDE DEF R
  <1>3. PICK n \in X : \A m \in X : ~(<<m, n>> \in R)
    BY <1>1, WFMin
  <1>4. \A m \in X : ~(m < n) /\ m \in Nat /\ n \in Nat
    BY <1>2, <1>3
  <1> QED
    BY <1>4

(* Min of a set of positions is its least one.                             *)
LEMMA MinIsLeast ==
    ASSUME NEW X \in SUBSET Nat, X # {}
    PROVE  Min(X) \in X /\ \A m \in X : Min(X) <= m
  BY LeastNat DEF Min

(* The same of a greatest position.                                        *)
LEMMA MaxIsGreatest ==
    ASSUME NEW n \in Nat, NEW X \in SUBSET (1 .. n), X # {}
    PROVE  Max(X) \in X /\ \A m \in X : m <= Max(X)
  <1> DEFINE Y == {n - m : m \in X}
  <1>1. Y \in SUBSET Nat /\ Y # {}
    <2>1. \A m \in X : n - m \in Nat
      OBVIOUS
    <2> QED
      BY <2>1
  <1>2. PICK k \in Y : \A y \in Y : k <= y
    BY <1>1, LeastNat
  <1>3. PICK x \in X : k = n - x
    BY <1>2
  <1>4. \A m \in X : x >= m
    <2> SUFFICES ASSUME NEW m \in X PROVE x >= m
      OBVIOUS
    <2>1. n - m \in Y
      OBVIOUS
    <2>2. n - x <= n - m
      BY <1>2, <1>3, <2>1
    <2>3. m \in Nat /\ x \in Nat
      OBVIOUS
    <2> QED
      BY <2>2, <2>3
  <1>5. Max(X) \in X /\ \A m \in X : Max(X) >= m
    BY <1>4 DEF Max
  <1> QED
    BY <1>5

-----------------------------------------------------------------------------
(* What is kept of a sequence.                                             *)

(* Among is the last value of such a function, and there is one.           *)
Filters(f, s, kept) ==
    f = [n \in 0 .. Len(s) |->
           IF n = 0 THEN <<>>
           ELSE IF s[n] \in kept THEN Append(f[n - 1], s[n]) ELSE f[n - 1]]

(* A function of the positions up to n does, ...                           *)
LEMMA FilterExists ==
    ASSUME NEW S, NEW s \in Seq(S), NEW kept
    PROVE  \E f : Filters(f, s, kept)
  <1> DEFINE Body(f, n) == IF n = 0 THEN <<>>
                           ELSE IF s[n] \in kept THEN Append(f[n - 1], s[n]) ELSE f[n - 1]
             G(k) == \E f : f = [n \in 0 .. k |-> Body(f, n)]
  <1>1. G(0)
    <2>1. [n \in 0 .. 0 |-> <<>>] = [n \in 0 .. 0 |-> Body([m \in 0 .. 0 |-> <<>>], n)]
      OBVIOUS
    <2> QED
      BY <2>1
  <1>2. ASSUME NEW k \in Nat, G(k)
        PROVE  G(k + 1)
    <2>1. PICK f : f = [n \in 0 .. k |-> Body(f, n)]
      BY <1>2
    <2> DEFINE g == [n \in 0 .. k + 1 |-> IF n = k + 1 THEN Body(f, n) ELSE f[n]]
    <2>2. \A n \in 0 .. k : g[n] = f[n]
      OBVIOUS
    <2>3. \A n \in 0 .. k + 1 : n # 0 => n - 1 \in 0 .. k /\ g[n - 1] = f[n - 1]
      BY <2>2
    <2>4. \A n \in 0 .. k : f[n] = Body(f, n)
      BY <2>1
    <2>5. \A n \in 0 .. k + 1 : g[n] = Body(g, n)
      <3> SUFFICES ASSUME NEW n \in 0 .. k + 1 PROVE g[n] = Body(g, n)
        OBVIOUS
      <3>1. g[n] = Body(f, n)
        <4>1. CASE n = k + 1
          BY <4>1
        <4>2. CASE n # k + 1
          BY <4>2, <2>4
        <4> QED
          BY <4>1, <4>2
      <3>2. Body(f, n) = Body(g, n)
        <4>1. CASE n = 0
          BY <4>1
        <4>2. CASE n # 0
          BY <4>2, <2>3
        <4> QED
          BY <4>1, <4>2
      <3> QED
        BY <3>1, <3>2
    <2> DEFINE h == [n \in 0 .. k + 1 |-> Body(g, n)]
    <2>6. g = h
      <3>1. \A n \in 0 .. k + 1 : g[n] = h[n]
        BY <2>5
      <3> HIDE DEF Body
      <3> QED
        BY <3>1
    <2> HIDE DEF g, Body
    <2> QED
      BY <2>6
  <1> HIDE DEF G
  <1>3. \A k \in Nat : G(k)
    <2> DEFINE X == {k \in Nat : ~G(k)}
    <2> SUFFICES ASSUME X # {} PROVE FALSE
      OBVIOUS
    <2>1. PICK k \in X : \A m \in X : k <= m
      BY LeastNat
    <2>2. k # 0 /\ k - 1 \in Nat /\ ~G(k)
      BY <1>1, <2>1
    <2>3. G(k - 1)
      BY <2>1, <2>2
    <2>4. G((k - 1) + 1)
      BY <1>2, <2>2, <2>3
    <2> QED
      BY <2>2, <2>4
  <1>4. G(Len(s))
    BY <1>3
  <1> QED
    BY <1>4 DEF G, Filters

(* ... and what is kept is a shorter sequence of the same things.          *)
LEMMA AmongType ==
    ASSUME NEW S, NEW s \in Seq(S), NEW kept
    PROVE  Among(s, kept) \in Seq(S) /\ Len(Among(s, kept)) <= Len(s)
  <1> DEFINE f == CHOOSE f : Filters(f, s, kept)
  <1>1. Among(s, kept) = f[Len(s)]
    BY DEF Among, Filters
  <1>2. Filters(f, s, kept)
    BY FilterExists
  <1> HIDE DEF f
  <1>0. Len(s) \in Nat
    OBVIOUS
  <1>3. \A n \in 0 .. Len(s) :
          f[n] = IF n = 0 THEN <<>>
                 ELSE IF s[n] \in kept THEN Append(f[n - 1], s[n]) ELSE f[n - 1]
    <2>1. f = [n \in 0 .. Len(s) |->
                 IF n = 0 THEN <<>>
                 ELSE IF s[n] \in kept THEN Append(f[n - 1], s[n]) ELSE f[n - 1]]
      BY <1>2 DEF Filters
    <2> QED
      BY <2>1
  <1> DEFINE X == {n \in 0 .. Len(s) : ~(f[n] \in Seq(S) /\ Len(f[n]) <= n)}
  <1>5. X = {}
    <2> SUFFICES ASSUME X # {} PROVE FALSE
      OBVIOUS
    <2>0. X \in SUBSET Nat
      BY <1>0
    <2>1. PICK n \in X : \A m \in X : n <= m
      BY <2>0, LeastNat
    <2>a. f[0] = <<>>
      BY <1>0, <1>3
    <2>c. f[0] \in Seq(S) /\ Len(f[0]) = 0
      BY <2>a, EmptySeq
    <2>b. 0 \notin X
      BY <2>c
    <2>2. n # 0
      BY <2>b, <2>1
    <2>3. n - 1 \in 0 .. Len(s) /\ n - 1 \notin X /\ n \in 1 .. Len(s)
      BY <1>0, <2>1, <2>2
    <2>4. f[n - 1] \in Seq(S) /\ Len(f[n - 1]) <= n - 1
      BY <2>3
    <2>6. f[n] = IF s[n] \in kept THEN Append(f[n - 1], s[n]) ELSE f[n - 1]
      BY <1>3, <2>2, <2>3
    <2>7. s[n] \in S
      BY <2>3
    <2> HIDE DEF X
    <2>5. f[n] \in Seq(S) /\ Len(f[n]) <= n
      BY <2>3, <2>4, <2>6, <2>7
    <2> QED
      BY <2>1, <2>5 DEF X
  <1> QED
    BY <1>0, <1>1, <1>5
-----------------------------------------------------------------------------
(* How often a sequence has an element of a set.                           *)

Hits(s, K) == {i \in DOMAIN s : s[i] \in K}
Count(s, K) == Cardinality(Hits(s, K))

(* Positions can be counted.                                               *)
LEMMA HitsFinite ==
    ASSUME NEW S, NEW s \in Seq(S), NEW K
    PROVE  /\ Hits(s, K) \in SUBSET (1 .. Len(s)) /\ IsFiniteSet(Hits(s, K))
           /\ Count(s, K) \in Nat
  <1>1. Hits(s, K) \in SUBSET (1 .. Len(s)) /\ Len(s) \in Nat
    BY DEF Hits
  <1>2. IsFiniteSet(1 .. Len(s))
    BY <1>1, FS_Interval
  <1> QED
    BY <1>1, <1>2, FS_Subset, FS_CardinalityType DEF Count

(* An empty sequence has none, ...                                         *)
LEMMA CountEmpty == \A K : Count(<<>>, K) = 0
  <1> TAKE K
  <1>1. Hits(<<>>, K) = {}
    BY DEF Hits
  <1> QED
    BY <1>1, FS_EmptySet DEF Count

(* ... one more at the end is counted, ...                                 *)
LEMMA CountAppend ==
    ASSUME NEW S, NEW s \in Seq(S), NEW x \in S, NEW K
    PROVE  Count(Append(s, x), K) = Count(s, K) + (IF x \in K THEN 1 ELSE 0)
  <1> DEFINE n == Len(s) + 1
  <1>1. /\ Append(s, x) \in Seq(S) /\ DOMAIN Append(s, x) = 1 .. n /\ Len(s) \in Nat
        /\ DOMAIN s = 1 .. Len(s)
        /\ \A i \in 1 .. Len(s) : Append(s, x)[i] = s[i]
        /\ Append(s, x)[n] = x
    OBVIOUS
  <1>2. n \notin Hits(s, K) /\ IsFiniteSet(Hits(s, K)) /\ Count(s, K) \in Nat
    BY <1>1, HitsFinite DEF Hits
  <1>3. CASE x \in K
    <2>1. Hits(Append(s, x), K) = Hits(s, K) \cup {n}
      BY <1>1, <1>3 DEF Hits
    <2> QED
      BY <1>2, <1>3, <2>1, FS_AddElement DEF Count
  <1>4. CASE x \notin K
    <2>1. Hits(Append(s, x), K) = Hits(s, K)
      BY <1>1, <1>4 DEF Hits
    <2> QED
      BY <1>2, <1>4, <2>1 DEF Count
  <1> QED
    BY <1>3, <1>4

(* ... what is before a position has all but those at it and after it, ... *)
LEMMA CountBefore ==
    ASSUME NEW S, NEW s \in Seq(S), NEW k \in 1 .. Len(s), NEW K,
           \A i \in k + 1 .. Len(s) : s[i] \notin K
    PROVE  /\ SubSeq(s, 1, k - 1) \in Seq(S)
           /\ Count(SubSeq(s, 1, k - 1), K) = Count(s, K) - (IF s[k] \in K THEN 1 ELSE 0)
  <1> DEFINE t == SubSeq(s, 1, k - 1)
  <1>1. /\ t \in Seq(S) /\ DOMAIN t = 1 .. k - 1 /\ \A i \in 1 .. k - 1 : t[i] = s[i]
        /\ DOMAIN s = 1 .. Len(s) /\ Len(s) \in Nat
    OBVIOUS
  <1>2. Hits(t, K) = Hits(s, K) \ {k}
    <2>1. ASSUME NEW i \in Hits(t, K) PROVE i \in Hits(s, K) \ {k}
      BY <1>1, <2>1 DEF Hits
    <2>2. ASSUME NEW i \in Hits(s, K), i # k PROVE i \in Hits(t, K)
      <3>1. i \in 1 .. Len(s) /\ s[i] \in K
        BY <1>1, <2>2 DEF Hits
      <3>2. i \in 1 .. k - 1
        BY <1>1, <2>2, <3>1
      <3> QED
        BY <1>1, <3>1, <3>2 DEF Hits
    <2> QED
      BY <2>1, <2>2
  <1> HIDE DEF t
  <1>3. k \in Hits(s, K) <=> s[k] \in K
    BY <1>1 DEF Hits
  <1>4. IsFiniteSet(Hits(s, K)) /\ Count(s, K) \in Nat
    BY HitsFinite
  <1>6. Cardinality(Hits(s, K) \ {k}) =
          IF k \in Hits(s, K) THEN Count(s, K) - 1 ELSE Count(s, K)
    BY <1>4, FS_RemoveElement DEF Count
  <1>5. Count(t, K) = Count(s, K) - (IF s[k] \in K THEN 1 ELSE 0)
    <2>1. Count(t, K) = Cardinality(Hits(s, K) \ {k})
      BY <1>2 DEF Count
    <2> QED
      BY <1>3, <1>4, <1>6, <2>1
  <1> QED
    BY <1>1, <1>5 DEF t

(* ... and moved positions do not add to it.                               *)
LEMMA CountMoved ==
    ASSUME NEW S, NEW s \in Seq(S), NEW t \in Seq(S), NEW k \in 1 .. Len(s), NEW K,
           NEW f \in [1 .. Len(t) -> (1 .. Len(s)) \ {k}],
           \A i, j \in 1 .. Len(t) : f[i] = f[j] => i = j,
           \A i \in 1 .. Len(t) : t[i] = s[f[i]]
    PROVE  Count(t, K) + (IF s[k] \in K THEN 1 ELSE 0) <= Count(s, K)
  <1>0. /\ DOMAIN t = 1 .. Len(t) /\ DOMAIN s = 1 .. Len(s)
    OBVIOUS
  <1> DEFINE g == [i \in Hits(t, K) |-> f[i]]
             H == Hits(s, K) \ {k}
  <1>1. g \in [Hits(t, K) -> H]
    BY <1>0 DEF Hits
  <1>2. \A i, j \in Hits(t, K) : g[i] = g[j] => i = j
    BY <1>0 DEF Hits
  <1>3. g \in Injection(Hits(t, K), H)
    <2>1. DOMAIN g = Hits(t, K)
      OBVIOUS
    <2> HIDE DEF g, H
    <2> QED
      BY <1>1, <1>2, <2>1 DEF Injection, IsInjective
  <1> HIDE DEF g
  <1>4. IsFiniteSet(Hits(s, K)) /\ Count(s, K) \in Nat /\ Count(t, K) \in Nat
    BY HitsFinite
  <1>5. /\ IsFiniteSet(H)
        /\ Cardinality(H) = IF k \in Hits(s, K) THEN Count(s, K) - 1 ELSE Count(s, K)
    BY <1>4, FS_RemoveElement DEF Count
  <1>6. Count(t, K) <= Cardinality(H)
    BY <1>3, <1>5, FS_Injection DEF Count
  <1>7. k \in Hits(s, K) <=> s[k] \in K
    BY <1>0 DEF Hits
  <1> QED
    BY <1>4, <1>5, <1>6, <1>7

(* What comes after a position, ...                                        *)
LEMMA CountAfter ==
    ASSUME NEW S, NEW s \in Seq(S), NEW k \in 1 .. Len(s), NEW K
    PROVE  /\ SubSeq(s, k + 1, Len(s)) \in Seq(S)
           /\ Count(SubSeq(s, k + 1, Len(s)), K) + (IF s[k] \in K THEN 1 ELSE 0) <= Count(s, K)
  <1> DEFINE t == SubSeq(s, k + 1, Len(s))
             f == [i \in 1 .. Len(t) |-> i + k]
  <1>1. /\ t \in Seq(S) /\ Len(t) = Len(s) - k /\ \A i \in 1 .. Len(t) : t[i] = s[i + k]
        /\ Len(s) \in Nat
    OBVIOUS
  <1> HIDE DEF t
  <1>2. /\ f \in [1 .. Len(t) -> (1 .. Len(s)) \ {k}]
        /\ \A i, j \in 1 .. Len(t) : f[i] = f[j] => i = j
        /\ \A i \in 1 .. Len(t) : t[i] = s[f[i]]
    BY <1>1
  <1> HIDE DEF f
  <1>3. Count(t, K) + (IF s[k] \in K THEN 1 ELSE 0) <= Count(s, K)
    BY <1>1, <1>2, CountMoved
  <1> QED
    BY <1>1, <1>3 DEF t

(* ... and what is left when one position is taken out.                    *)
LEMMA CountRemoved ==
    ASSUME NEW S, NEW s \in Seq(S), NEW k \in 1 .. Len(s), NEW K
    PROVE  /\ RemoveAt(s, k) \in Seq(S)
           /\ Count(RemoveAt(s, k), K) + (IF s[k] \in K THEN 1 ELSE 0) <= Count(s, K)
  <1> DEFINE a == SubSeq(s, 1, k - 1)
             b == SubSeq(s, k + 1, Len(s))
             t == a \o b
             f == [i \in 1 .. Len(t) |-> IF i < k THEN i ELSE i + 1]
  <1>0. /\ a \in Seq(S) /\ Len(a) = k - 1 /\ \A i \in 1 .. Len(a) : a[i] = s[i]
        /\ b \in Seq(S) /\ Len(b) = Len(s) - k /\ \A i \in 1 .. Len(b) : b[i] = s[i + k]
        /\ Len(s) \in Nat
    OBVIOUS
  <1> HIDE DEF a, b
  <1>1. /\ t \in Seq(S) /\ Len(t) = Len(s) - 1
        /\ \A i \in 1 .. Len(t) : t[i] = IF i < k THEN s[i] ELSE s[i + 1]
    <2>1. /\ t \in Seq(S) /\ Len(t) = Len(s) - 1
          /\ \A i \in 1 .. Len(t) : t[i] = IF i <= k - 1 THEN a[i] ELSE b[i - (k - 1)]
      BY <1>0, ConcatProperties
    <2> HIDE DEF t
    <2>2. ASSUME NEW i \in 1 .. Len(t) PROVE t[i] = IF i < k THEN s[i] ELSE s[i + 1]
      <3>1. CASE i < k
        BY <1>0, <2>1, <3>1
      <3>2. CASE ~(i < k)
        <4>1. i - (k - 1) \in 1 .. Len(b) /\ (i - (k - 1)) + k = i + 1
          BY <1>0, <2>1, <3>2
        <4> QED
          BY <1>0, <2>1, <3>2, <4>1
      <3> QED
        BY <3>1, <3>2
    <2> QED
      BY <2>1, <2>2
  <1> HIDE DEF t
  <1>2. /\ f \in [1 .. Len(t) -> (1 .. Len(s)) \ {k}]
        /\ \A i, j \in 1 .. Len(t) : f[i] = f[j] => i = j
        /\ \A i \in 1 .. Len(t) : t[i] = s[f[i]]
    BY <1>0, <1>1
  <1> HIDE DEF f
  <1>3. Count(t, K) + (IF s[k] \in K THEN 1 ELSE 0) <= Count(s, K)
    BY <1>1, <1>2, CountMoved
  <1> QED
    BY <1>1, <1>3 DEF t, a, b, RemoveAt
-----------------------------------------------------------------------------
(* Types, and what has to be counted for them to stay.                     *)

Ops == {"start", "next", "answer", "skip", "undo", "finish"}
RequestTypes ==
    [op : Ops \ {"answer"}, rating : {None}] \cup [op : {"answer"}, rating : {Again, Good}]
ReplyTypes == [op : Ops, kind : {"done", "failed", "empty"}]

(* The types, with n reviews in the log.                                   *)
LogOf(n) == [card : Cards, rating : {Again, Good}, before : Seq(1 .. n),
             lapse : BOOLEAN, live : BOOLEAN, seed : BOOLEAN]
CardOf(n) == [memory : Seq(1 .. n), reps : Nat, lapses : Nat, suspended : BOOLEAN, due : BOOLEAN]
OutcomeOf(n) == [card : Cards, log : 0 .. n]
ProgressOf(n) == [cursor : 0 .. NumCards, drill : Seq(Cards), outcomes : Seq(OutcomeOf(n))]
RunnerOf(n) == [row : Nat, entries : Seq(Cards), progress : ProgressOf(n),
                drillEntry : 0 .. NumCards]
RowOf(n) == [status : {"in_progress", "completed", "abandoned"}, day : 1 .. MaxEvents + 1,
             plan : Seq(Cards), progress : ProgressOf(n)]

Lapsed(c) == {l \in Live(c) : logs[l].lapse}

(* The log and the cards, whose counts are those of the live reviews.      *)
Reviewed ==
    /\ logs \in Seq(LogOf(Len(logs)))
    /\ cards \in [Cards -> CardOf(Len(logs))]
    /\ \A c \in Cards : /\ cards[c].reps = Cardinality(Live(c))
                        /\ cards[c].lapses = Cardinality(Lapsed(c))

(* The answers of a session about a card: each place it has in the drill   *)
(* was given by one of them.                                               *)
AnswersTo(c) == [card : {c}, log : Nat \ {0}]

Kept(p, n) ==
    /\ p \in ProgressOf(n)
    /\ \A c \in Cards : Count(p.drill, {c}) <= Count(p.outcomes, AnswersTo(c))

Serves(r, n) ==
    /\ r \in RunnerOf(n) /\ Len(r.entries) <= NumCards
    /\ r.drillEntry # None => ~InMain(r)
    /\ \A c \in Cards : Count(r.progress.drill, {c}) + (IF r.drillEntry = c THEN 1 ELSE 0)
                          <= Count(r.progress.outcomes, AnswersTo(c))

IsOpen(r) == rows[r].status = "in_progress"

(* The rows: no more than one is open.                                     *)
StoredIn(table, n) ==
    /\ table \in Seq(RowOf(n))
    /\ \A r \in DOMAIN table : Len(table[r].plan) <= NumCards /\ Kept(table[r].progress, n)
    /\ \A q, r \in DOMAIN table :
          table[q].status = "in_progress" /\ table[r].status = "in_progress" => q = r

Stored == StoredIn(rows, Len(logs))

(* The runner serves an open row, or there is none.                        *)
Served ==
    /\ Serves(runner, Len(logs))
    /\ runner.row \in 0 .. Len(rows)
    /\ runner.row = None => runner = NoRunner
    /\ runner.row # None => IsOpen(runner.row)

Screened ==
    /\ wire \in Seq(RequestTypes)
    /\ replies \in Seq(ReplyTypes)
    /\ clock \in [day : 1 .. MaxEvents + 1, events : 0 .. MaxEvents]
    /\ clock.day <= clock.events + 1

TypeInv == Reviewed /\ Stored /\ Served /\ Screened

(* What it says of types is TypeOK.                                        *)
LEMMA TypeInvTypes == TypeInv => TypeOK
  <1> SUFFICES ASSUME TypeInv PROVE TypeOK
    OBVIOUS
  <1>1. DOMAIN logs = 1 .. Len(logs) /\ Len(logs) \in Nat
    BY DEF TypeInv, Reviewed
  <1>2. ProgressOf(Len(logs)) = Progresses
    BY DEF ProgressOf, Progresses, OutcomeOf
  <1>3. LogOf(Len(logs)) = [card : Cards, rating : {Again, Good}, before : Seq(DOMAIN logs),
                            lapse : BOOLEAN, live : BOOLEAN, seed : BOOLEAN]
    BY <1>1 DEF LogOf
  <1>4. CardOf(Len(logs)) = [memory : Seq(DOMAIN logs), reps : Nat, lapses : Nat,
                             suspended : BOOLEAN, due : BOOLEAN]
    BY <1>1 DEF CardOf
  <1>5. RowOf(Len(logs)) = [status : {"in_progress", "completed", "abandoned"},
                            day : 1 .. MaxEvents + 1, plan : Seq(Cards), progress : Progresses]
    BY <1>2 DEF RowOf
  <1>6. runner \in [row : 0 .. Len(rows), entries : Seq(Cards), progress : Progresses,
                    drillEntry : 0 .. NumCards]
    BY <1>2 DEF TypeInv, Served, Serves, RunnerOf
  <1>7. /\ runner.drillEntry # None => ~InMain(runner)
        /\ runner.row # None => rows[runner.row].status = "in_progress"
    BY DEF TypeInv, Served, Serves, IsOpen
  <1> QED
    BY <1>3, <1>4, <1>5, <1>6, <1>7 DEF TypeInv, Reviewed, Stored, StoredIn, TypeOK

(* Reviews can be counted.                                                 *)
LEMMA LiveFinite ==
    ASSUME Reviewed, NEW c
    PROVE  /\ IsFiniteSet(Live(c)) /\ IsFiniteSet(Lapsed(c))
           /\ Live(c) \in SUBSET (1 .. Len(logs)) /\ Lapsed(c) \in SUBSET Live(c)
           /\ Cardinality(Live(c)) \in Nat /\ Cardinality(Lapsed(c)) \in Nat
           /\ DOMAIN logs = 1 .. Len(logs) /\ Len(logs) \in Nat
  <1>1. DOMAIN logs = 1 .. Len(logs) /\ Len(logs) \in Nat
    BY DEF Reviewed
  <1>2. Live(c) \in SUBSET (1 .. Len(logs)) /\ Lapsed(c) \in SUBSET Live(c)
    BY <1>1 DEF Live, Lapsed
  <1>3. IsFiniteSet(1 .. Len(logs))
    BY <1>1, FS_Interval
  <1>4. IsFiniteSet(Live(c))
    BY <1>2, <1>3, FS_Subset
  <1>5. IsFiniteSet(Lapsed(c))
    BY <1>2, <1>4, FS_Subset
  <1> QED
    BY <1>1, <1>2, <1>4, <1>5, FS_CardinalityType

(* A longer log is one all the same.                                       *)
LEMMA LogsGrow ==
    ASSUME NEW n \in Nat, NEW m \in Nat, n <= m
    PROVE  /\ LogOf(n) \subseteq LogOf(m) /\ CardOf(n) \subseteq CardOf(m)
           /\ ProgressOf(n) \subseteq ProgressOf(m) /\ RunnerOf(n) \subseteq RunnerOf(m)
           /\ RowOf(n) \subseteq RowOf(m)
  <1>1. 1 .. n \subseteq 1 .. m /\ 0 .. n \subseteq 0 .. m
    OBVIOUS
  <1>2. Seq(1 .. n) \subseteq Seq(1 .. m)
    BY <1>1, SeqMonotonic
  <1>3. LogOf(n) \subseteq LogOf(m) /\ CardOf(n) \subseteq CardOf(m)
    BY <1>2 DEF LogOf, CardOf
  <1>4. OutcomeOf(n) \subseteq OutcomeOf(m)
    BY <1>1 DEF OutcomeOf
  <1>5. Seq(OutcomeOf(n)) \subseteq Seq(OutcomeOf(m))
    BY <1>4, SeqMonotonic
  <1>6. ProgressOf(n) \subseteq ProgressOf(m)
    BY <1>5 DEF ProgressOf
  <1> QED
    BY <1>3, <1>6 DEF RunnerOf, RowOf

(* reviewCard counts one review more.                                      *)
LEMMA ReviewKeeps ==
    ASSUME Reviewed, NEW c \in Cards, NEW rating \in {Again, Good}, NEW seed \in BOOLEAN,
           Review(c, rating, seed)
    PROVE  Reviewed' /\ Len(logs') = Len(logs) + 1
  <1> DEFINE n == Len(logs) + 1
             new == [card |-> c, rating |-> rating, before |-> cards[c].memory,
                     lapse |-> Lapses(c, rating), live |-> TRUE, seed |-> seed]
             lapses == cards[c].lapses + IF Lapses(c, rating) THEN 1 ELSE 0
             card == [memory |-> Append(cards[c].memory, n), reps |-> cards[c].reps + 1,
                      lapses |-> lapses,
                      suspended |-> cards[c].suspended \/ (c \in Maintenance /\ lapses >= LeechAt),
                      due |-> rating = Again]
  <1>0. Len(logs) \in Nat /\ DOMAIN logs = 1 .. Len(logs) /\ n \in Nat
    BY DEF Reviewed
  <1>1. cards[c] \in CardOf(Len(logs)) /\ Lapses(c, rating) \in BOOLEAN
    BY DEF Reviewed, Lapses
  <1>2. logs' = Append(logs, new) /\ cards' = [cards EXCEPT ![c] = card]
    BY DEF Review
  <1>3. LogOf(Len(logs)) \subseteq LogOf(n) /\ CardOf(Len(logs)) \subseteq CardOf(n)
    BY <1>0, LogsGrow
  <1>4. new \in LogOf(n)
    <2>1. cards[c].memory \in Seq(1 .. Len(logs))
      BY <1>1 DEF CardOf
    <2>2. cards[c].memory \in Seq(1 .. n)
      BY <1>0, <2>1, SeqMonotonic
    <2> QED
      BY <1>1, <2>2 DEF LogOf
  <1>5. card \in CardOf(n)
    <2>1. cards[c].memory \in Seq(1 .. Len(logs)) /\ cards[c].reps \in Nat
          /\ cards[c].lapses \in Nat /\ cards[c].suspended \in BOOLEAN
      BY <1>1 DEF CardOf
    <2>2. cards[c].memory \in Seq(1 .. n) /\ n \in 1 .. n
      BY <1>0, <2>1, SeqMonotonic
    <2>3. Append(cards[c].memory, n) \in Seq(1 .. n)
      BY <2>2, AppendProperties
    <2>4. lapses \in Nat
      BY <1>1, <2>1
    <2> QED
      BY <1>1, <2>1, <2>3, <2>4 DEF CardOf
  <1> HIDE DEF card
  <1>6. /\ Len(logs') = n /\ logs' \in Seq(LogOf(n)) /\ DOMAIN logs' = 1 .. n
        /\ logs'[n] = new /\ \A l \in 1 .. Len(logs) : logs'[l] = logs[l]
    <2>1. logs \in Seq(LogOf(n))
      BY <1>3, SeqMonotonic DEF Reviewed
    <2> HIDE DEF new
    <2> QED
      BY <1>0, <1>2, <1>4, <2>1, AppendProperties
  <1>7. cards' \in [Cards -> CardOf(n)]
    BY <1>2, <1>3, <1>5 DEF Reviewed
  <1>8. ASSUME NEW d \in Cards
        PROVE  cards'[d].reps = Cardinality(Live(d)') /\ cards'[d].lapses = Cardinality(Lapsed(d)')
    <2>1. /\ cards[d].reps = Cardinality(Live(d)) /\ cards[d].lapses = Cardinality(Lapsed(d))
          /\ IsFiniteSet(Live(d)) /\ IsFiniteSet(Lapsed(d))
          /\ n \notin Live(d) /\ n \notin Lapsed(d)
          /\ Cardinality(Live(d)) \in Nat /\ Cardinality(Lapsed(d)) \in Nat
      BY LiveFinite DEF Reviewed
    <2>2. CASE d = c
      <3>1. Live(d)' = Live(d) \cup {n}
        BY <1>0, <1>6, <2>2 DEF Live
      <3>2. Lapsed(d)' = IF Lapses(c, rating) THEN Lapsed(d) \cup {n} ELSE Lapsed(d)
        <4>1. \A l \in Live(d) : logs'[l] = logs[l]
          BY <1>0, <1>6 DEF Live
        <4>2. logs'[n].lapse = Lapses(c, rating)
          BY <1>6
        <4> QED
          BY <1>1, <3>1, <4>1, <4>2 DEF Lapsed
      <3>3. cards'[d].reps = cards[d].reps + 1 /\ cards'[d].lapses = lapses
        BY <1>2, <2>2 DEF Reviewed, card
      <3>4. Cardinality(Live(d)') = Cardinality(Live(d)) + 1
        BY <2>1, <3>1, FS_AddElement
      <3>5. Cardinality(Lapsed(d)') = Cardinality(Lapsed(d)) + IF Lapses(c, rating) THEN 1 ELSE 0
        <4>1. CASE Lapses(c, rating)
          BY <2>1, <3>2, <4>1, FS_AddElement
        <4>2. CASE ~Lapses(c, rating)
          BY <2>1, <3>2, <4>2
        <4> QED
          BY <4>1, <4>2
      <3> QED
        BY <2>1, <2>2, <3>3, <3>4, <3>5
    <2>3. CASE d # c
      <3>1. Live(d)' = Live(d)
        BY <1>0, <1>6, <2>3 DEF Live
      <3>2. Lapsed(d)' = Lapsed(d)
        BY <1>0, <1>6, <3>1 DEF Lapsed, Live
      <3>3. cards'[d] = cards[d]
        BY <1>2, <2>3 DEF Reviewed
      <3> QED
        BY <2>1, <3>1, <3>2, <3>3
    <2> QED
      BY <2>2, <2>3
  <1> QED
    BY <1>6, <1>7, <1>8 DEF Reviewed

(* undoReview counts one less, if it was still there.                      *)
LEMMA UndoKeeps ==
    ASSUME Reviewed, NEW l \in DOMAIN logs, UndoReview(l)
    PROVE  Reviewed' /\ Len(logs') = Len(logs)
  <1> DEFINE n == Len(logs)
             c == logs[l].card
             card == [cards[c] EXCEPT !.memory = logs[l].before, !.reps = @ - 1,
                                      !.lapses = @ - IF logs[l].lapse THEN 1 ELSE 0, !.due = TRUE]
  <1>0. n \in Nat /\ DOMAIN logs = 1 .. n /\ logs[l] \in LogOf(n) /\ c \in Cards
    <2>1. n \in Nat /\ DOMAIN logs = 1 .. n /\ logs[l] \in LogOf(n)
      BY DEF Reviewed
    <2> QED
      BY <2>1 DEF LogOf
  <1>1. CASE ~logs[l].live
    <2>1. logs' = logs /\ cards' = cards
      BY <1>1 DEF UndoReview, Undoable
    <2> QED
      BY <2>1 DEF UndoReview, Undoable, Reviewed, Live, Lapsed
  <1>2. CASE logs[l].live
    <2>1. logs' = [logs EXCEPT ![l].live = FALSE] /\ cards' = [cards EXCEPT ![c] = card]
      BY <1>2 DEF UndoReview, Undoable
    <2>2. /\ cards[c] \in CardOf(n) /\ cards[c].reps \in Nat /\ cards[c].lapses \in Nat
          /\ logs[l].before \in Seq(1 .. n) /\ logs[l].lapse \in BOOLEAN
      BY <1>0 DEF Reviewed, CardOf, LogOf
    <2>3. /\ Len(logs') = n /\ logs' \in Seq(LogOf(n)) /\ DOMAIN logs' = 1 .. n
          /\ logs'[l] = [logs[l] EXCEPT !.live = FALSE]
          /\ \A k \in 1 .. n : k # l => logs'[k] = logs[k]
      <3>1. [logs[l] EXCEPT !.live = FALSE] \in LogOf(n)
        BY <1>0 DEF LogOf
      <3> QED
        BY <1>0, <2>1, <3>1, ExceptSeq DEF Reviewed
    <2>4. /\ l \in Live(c) /\ (logs[l].lapse => l \in Lapsed(c))
          /\ IsFiniteSet(Live(c)) /\ IsFiniteSet(Lapsed(c))
          /\ cards[c].reps = Cardinality(Live(c)) /\ cards[c].lapses = Cardinality(Lapsed(c))
      <3>1. l \in Live(c) /\ (logs[l].lapse => l \in Lapsed(c))
        BY <1>2 DEF Live, Lapsed
      <3>2. cards[c].reps = Cardinality(Live(c)) /\ cards[c].lapses = Cardinality(Lapsed(c))
        BY <1>0 DEF Reviewed
      <3> QED
        BY <3>1, <3>2, LiveFinite
    <2>5. /\ Cardinality(Live(c) \ {l}) = cards[c].reps - 1
          /\ Cardinality(Lapsed(c) \ {l}) = cards[c].lapses - IF logs[l].lapse THEN 1 ELSE 0
      <3> HIDE DEF c
      <3>1. Cardinality(Live(c) \ {l}) = cards[c].reps - 1
        BY <2>4, FS_RemoveElement
      <3>2. logs[l].lapse <=> l \in Lapsed(c)
        BY <2>4 DEF Lapsed
      <3> QED
        <4>1. CASE logs[l].lapse
          BY <2>4, <3>1, <3>2, <4>1, FS_RemoveElement
        <4>2. CASE ~logs[l].lapse
          <5>1. Lapsed(c) \ {l} = Lapsed(c)
            BY <3>2, <4>2
          <5>2. cards[c].lapses - (IF logs[l].lapse THEN 1 ELSE 0) = cards[c].lapses
            BY <2>2, <4>2
          <5> QED
            BY <2>4, <3>1, <5>1, <5>2
        <4> QED
          BY <4>1, <4>2
    <2>6. cards[c].reps - 1 \in Nat /\ cards[c].lapses - (IF logs[l].lapse THEN 1 ELSE 0) \in Nat
      <3>1. IsFiniteSet(Live(c) \ {l}) /\ IsFiniteSet(Lapsed(c) \ {l})
        BY <2>4, FS_RemoveElement
      <3> QED
        BY <2>5, <3>1, FS_CardinalityType
    <2>7. card \in CardOf(n) /\ card.reps = cards[c].reps - 1
          /\ card.lapses = cards[c].lapses - (IF logs[l].lapse THEN 1 ELSE 0)
      BY <2>2, <2>6 DEF CardOf
    <2> HIDE DEF card
    <2>8. cards' \in [Cards -> CardOf(n)]
      BY <1>0, <2>1, <2>7 DEF Reviewed
    <2>9. ASSUME NEW d \in Cards
          PROVE  /\ cards'[d].reps = Cardinality(Live(d)')
                 /\ cards'[d].lapses = Cardinality(Lapsed(d)')
      <3>1. Live(d)' = Live(d) \ {l} /\ Lapsed(d)' = Lapsed(d) \ {l}
        <4>1. \A k \in 1 .. n : /\ logs'[k].card = logs[k].card /\ logs'[k].lapse = logs[k].lapse
                                /\ logs'[k].live <=> (logs[k].live /\ k # l)
          <5>1. /\ logs'[l].card = logs[l].card /\ logs'[l].lapse = logs[l].lapse
                /\ logs'[l].live = FALSE
            BY <1>0, <2>3 DEF LogOf
          <5> QED
            BY <2>3, <5>1
        <4>2. Live(d)' = Live(d) \ {l}
          BY <1>0, <2>3, <4>1 DEF Live
        <4>3. \A k \in Live(d) : k \in 1 .. n
          BY <1>0 DEF Live
        <4> QED
          BY <4>1, <4>2, <4>3 DEF Lapsed
      <3>2. CASE d = c
        BY <1>0, <2>1, <2>5, <2>7, <3>1, <3>2 DEF Reviewed
      <3>3. CASE d # c
        <4>1. l \notin Live(d) /\ l \notin Lapsed(d)
          BY <3>3 DEF Live, Lapsed
        <4>2. cards'[d] = cards[d]
          BY <2>1, <3>3 DEF Reviewed
        <4>3. Live(d)' = Live(d) /\ Lapsed(d)' = Lapsed(d)
          BY <3>1, <4>1
        <4> QED
          BY <4>2, <4>3 DEF Reviewed
      <3> QED
        BY <3>2, <3>3
    <2> QED
      BY <2>3, <2>8, <2>9 DEF Reviewed
  <1> QED
    BY <1>1, <1>2
-----------------------------------------------------------------------------
(* What the operators on a runner give.                                    *)

(* The positions they look for.                                            *)
LEMMA LastIn ==
    ASSUME NEW n \in Nat, NEW I \in SUBSET (1 .. n),
           NEW k, k = IF I # {} THEN Max(I) ELSE 0
    PROVE  \/ k = 0 /\ I = {}
           \/ k \in I /\ k # 0 /\ \A i \in k + 1 .. n : i \notin I
  <1>1. CASE I = {}
    BY <1>1
  <1>2. CASE I # {}
    <2>1. k \in I /\ \A m \in I : m <= k
      BY <1>2, MaxIsGreatest
    <2>2. \A i \in k + 1 .. n : i \notin I
      BY <2>1
    <2> QED
      BY <2>1, <2>2
  <1> QED
    BY <1>1, <1>2

(* A session has a last answer, or nothing but skips.                      *)
LEMMA LastAnswerIs ==
    ASSUME NEW n \in Nat, NEW r, r.progress \in ProgressOf(n)
    PROVE  \/ /\ LastAnswer(r) = 0
              /\ \A i \in 1 .. Len(r.progress.outcomes) : r.progress.outcomes[i].log = None
           \/ /\ LastAnswer(r) \in 1 .. Len(r.progress.outcomes)
              /\ r.progress.outcomes[LastAnswer(r)].log # None
              /\ \A i \in LastAnswer(r) + 1 .. Len(r.progress.outcomes) :
                    r.progress.outcomes[i].log = None
  <1> DEFINE os == r.progress.outcomes
             I == {i \in 1 .. Len(os) : os[i].log # None}
  <1>1. Len(os) \in Nat
    BY DEF ProgressOf
  <1>2. LastAnswer(r) = IF I # {} THEN Max(I) ELSE 0
    BY DEF LastAnswer, SelectLastInSeq
  <1>4. I \in SUBSET (1 .. Len(os))
    OBVIOUS
  <1> HIDE DEF I
  <1>3. \/ LastAnswer(r) = 0 /\ I = {}
        \/ LastAnswer(r) \in I /\ LastAnswer(r) # 0
           /\ \A i \in LastAnswer(r) + 1 .. Len(os) : i \notin I
    BY <1>1, <1>2, <1>4, LastIn
  <1> QED
    BY <1>1, <1>3 DEF I

(* The drill serves a card it has.                                         *)
LEMMA DrillableIs ==
    ASSUME NEW n \in Nat, NEW r, r.progress \in ProgressOf(n)
    PROVE  Drillable(r) \in 0 .. Len(r.progress.drill)
  <1> DEFINE I == {i \in 1 .. Len(r.progress.drill) :
                     Contains(r.entries, r.progress.drill[i])}
  <1>1. Len(r.progress.drill) \in Nat
    BY DEF ProgressOf
  <1>2. Drillable(r) = IF I # {} THEN Min(I) ELSE 0
    BY DEF Drillable, SelectInSeq
  <1> HIDE DEF I
  <1>4. I \in SUBSET (1 .. Len(r.progress.drill))
    BY DEF I
  <1>3. I # {} => Min(I) \in I
    <2>1. I \in SUBSET Nat
      BY <1>1, <1>4
    <2> QED
      BY <2>1, MinIsLeast
  <1>5. CASE I = {}
    BY <1>1, <1>2, <1>5
  <1>6. CASE I # {}
    <2>1. Min(I) \in 1 .. Len(r.progress.drill)
      BY <1>3, <1>4, <1>6
    <2> QED
      BY <1>1, <1>2, <1>6, <2>1
  <1> QED
    BY <1>5, <1>6

(* A session on screen is one of the cards of the collection.              *)
LEMMA CurrentIsCard ==
    ASSUME NEW n \in Nat, NEW r, Serves(r, n)
    PROVE  /\ Current(r) # None => Current(r) \in Cards
           /\ r.drillEntry = None /\ Current(r) # None => InMain(r)
           /\ r.progress \in ProgressOf(n) /\ Len(r.entries) \in 0 .. NumCards
           /\ r.progress.cursor \in 0 .. NumCards
  <1>1. /\ r.entries \in Seq(Cards) /\ r.drillEntry \in 0 .. NumCards
        /\ r.progress \in ProgressOf(n) /\ Len(r.entries) \in 0 .. NumCards
        /\ r.progress.cursor \in 0 .. NumCards
    BY DEF Serves, RunnerOf, ProgressOf
  <1>2. InMain(r) => r.progress.cursor + 1 \in 1 .. Len(r.entries)
    BY <1>1 DEF InMain
  <1>3. InMain(r) => Current(r) \in Cards
    BY <1>1, <1>2 DEF Current
  <1>4. ~InMain(r) => Current(r) = r.drillEntry
    BY DEF Current
  <1> QED
    BY <1>1, <1>3, <1>4 DEF Cards, None

(* A session out of the drill may be loaded with the next card of it.      *)
Steps(r, n) ==
    /\ r \in RunnerOf(n) /\ Len(r.entries) <= NumCards /\ r.drillEntry = None
    /\ Kept(r.progress, n)

(* What is on the row is kept, drill entry or not.                         *)
LEMMA ServedIsKept ==
    ASSUME NEW n \in Nat, NEW r, Serves(r, n)
    PROVE  Kept(r.progress, n)
  <1>1. r.progress \in ProgressOf(n)
    BY DEF Serves, RunnerOf
  <1>2. ASSUME NEW c \in Cards
        PROVE  Count(r.progress.drill, {c}) <= Count(r.progress.outcomes, AnswersTo(c))
    <2>1. Count(r.progress.drill, {c}) \in Nat /\ Count(r.progress.outcomes, AnswersTo(c)) \in Nat
      BY <1>1, HitsFinite DEF ProgressOf
    <2> QED
      BY <2>1 DEF Serves
  <1> QED
    BY <1>1, <1>2 DEF Kept

(* The next card of the drill takes its place there with it.               *)
LEMMA LoadDrillServes ==
    ASSUME NEW n \in Nat, NEW r, Steps(r, n)
    PROVE  /\ Serves(LoadDrill(r), n) /\ LoadDrill(r).row = r.row
           /\ LoadDrill(r).progress.outcomes = r.progress.outcomes
  <1> DEFINE k == Drillable(r)
             drill == r.progress.drill
  <1>0. r.progress \in ProgressOf(n) /\ drill \in Seq(Cards) /\ r \in RunnerOf(n)
    BY DEF Steps, Kept, ProgressOf
  <1>1. \A c \in Cards : /\ Count(drill, {c}) <= Count(r.progress.outcomes, AnswersTo(c))
                         /\ Count(drill, {c}) \in Nat
                         /\ Count(r.progress.outcomes, AnswersTo(c)) \in Nat
    BY <1>0, HitsFinite DEF Steps, Kept, ProgressOf
  <1>2. CASE InMain(r) \/ r.drillEntry # None
    <2>1. LoadDrill(r) = r
      BY <1>2 DEF LoadDrill, LoadDrillFrom
    <2>2. \A c \in Cards : r.drillEntry # c
      BY DEF Steps, None, Cards
    <2> QED
      BY <1>1, <2>1, <2>2 DEF Serves, Steps
  <1>3. CASE ~InMain(r) /\ r.drillEntry = None /\ k = 0
    <2>1. LoadDrill(r) = [r EXCEPT !.progress.drill = <<>>]
      BY <1>3 DEF LoadDrill, LoadDrillFrom
    <2>2. \A c \in Cards : Count(<<>>, {c}) = 0 /\ r.drillEntry # c
      BY <1>3, CountEmpty DEF None, Cards
    <2>3. /\ LoadDrill(r) \in RunnerOf(n) /\ LoadDrill(r).entries = r.entries
          /\ LoadDrill(r).row = r.row /\ LoadDrill(r).drillEntry = None
          /\ LoadDrill(r).progress.outcomes = r.progress.outcomes
          /\ LoadDrill(r).progress.drill = <<>>
      <3> DEFINE t == <<>>
      <3>1. t \in Seq(Cards) /\ LoadDrill(r) = [r EXCEPT !.progress.drill = t]
        BY <2>1
      <3> HIDE DEF t
      <3>2. /\ LoadDrill(r) \in RunnerOf(n) /\ LoadDrill(r).entries = r.entries
            /\ LoadDrill(r).row = r.row /\ LoadDrill(r).drillEntry = None
            /\ LoadDrill(r).progress.outcomes = r.progress.outcomes
            /\ LoadDrill(r).progress.drill = t
        BY <1>0, <1>3, <3>1 DEF RunnerOf, ProgressOf
      <3> QED
        BY <3>2 DEF t
    <2> QED
      BY <1>1, <2>2, <2>3 DEF Serves, Steps
  <1>4. CASE ~InMain(r) /\ r.drillEntry = None /\ k # 0
    <2>1. LoadDrill(r) = [r EXCEPT !.drillEntry = drill[k],
                                   !.progress.drill = SubSeq(drill, k + 1, Len(drill))]
      BY <1>4 DEF LoadDrill, LoadDrillFrom
    <2>2. k \in 1 .. Len(drill)
      <3>1. k \in 0 .. Len(drill) /\ Len(drill) \in Nat
        BY <1>0, DrillableIs
      <3> QED
        BY <1>4, <3>1
    <2>3. /\ SubSeq(drill, k + 1, Len(drill)) \in Seq(Cards)
          /\ \A c \in Cards : /\ Count(SubSeq(drill, k + 1, Len(drill)), {c})
                                   + (IF drill[k] = c THEN 1 ELSE 0) <= Count(drill, {c})
                              /\ Count(SubSeq(drill, k + 1, Len(drill)), {c}) \in Nat
      <3>1. SubSeq(drill, k + 1, Len(drill)) \in Seq(Cards)
        BY <1>0, <2>2, CountAfter
      <3>2. ASSUME NEW c \in Cards
            PROVE  Count(SubSeq(drill, k + 1, Len(drill)), {c})
                     + (IF drill[k] \in {c} THEN 1 ELSE 0) <= Count(drill, {c})
        BY <1>0, <2>2, CountAfter
      <3>3. \A c \in Cards : Count(SubSeq(drill, k + 1, Len(drill)), {c}) \in Nat
        BY <3>1, HitsFinite
      <3> QED
        BY <3>1, <3>2, <3>3
    <2>4. drill[k] \in Cards /\ drill[k] \in 0 .. NumCards
      BY <1>0, <2>2 DEF Cards
    <2> DEFINE t == SubSeq(drill, k + 1, Len(drill))
               x == drill[k]
    <2> HIDE DEF t, x, k
    <2>5. /\ LoadDrill(r) \in RunnerOf(n) /\ LoadDrill(r).entries = r.entries
          /\ LoadDrill(r).row = r.row /\ LoadDrill(r).drillEntry = x
          /\ LoadDrill(r).progress.cursor = r.progress.cursor
          /\ LoadDrill(r).progress.outcomes = r.progress.outcomes
          /\ LoadDrill(r).progress.drill = t
      <3>1. LoadDrill(r) = [r EXCEPT !.drillEntry = x, !.progress.drill = t]
        BY <2>1 DEF t, x
      <3>2. t \in Seq(Cards) /\ x \in 0 .. NumCards
        BY <2>3, <2>4 DEF t, x
      <3> DEFINE p == [r.progress EXCEPT !.drill = t]
      <3>3. /\ p \in ProgressOf(n) /\ p.cursor = r.progress.cursor
            /\ p.outcomes = r.progress.outcomes /\ p.drill = t
        BY <1>0, <3>2 DEF ProgressOf
      <3>4. LoadDrill(r) = [r EXCEPT !.drillEntry = x, !.progress = p]
        BY <1>0, <3>1 DEF RunnerOf
      <3> HIDE DEF p
      <3>5. /\ LoadDrill(r) \in RunnerOf(n) /\ LoadDrill(r).entries = r.entries
            /\ LoadDrill(r).row = r.row /\ LoadDrill(r).drillEntry = x
            /\ LoadDrill(r).progress = p
        BY <1>0, <3>2, <3>3, <3>4 DEF RunnerOf
      <3> QED
        BY <3>3, <3>5
    <2>6. ~InMain(LoadDrill(r))
      BY <1>4, <2>5 DEF InMain
    <2>7. ASSUME NEW c \in Cards
          PROVE  Count(t, {c}) + (IF x = c THEN 1 ELSE 0) <= Count(r.progress.outcomes, AnswersTo(c))
      <3>1. /\ Count(t, {c}) + (IF x = c THEN 1 ELSE 0) <= Count(drill, {c})
            /\ Count(t, {c}) \in Nat
        BY <2>3 DEF t, x
      <3> QED
        BY <1>1, <3>1
    <2> QED
      BY <2>5, <2>6, <2>7 DEF Serves, Steps
  <1> QED
    BY <1>2, <1>3, <1>4 DEF Steps

(* A progress, field by field.                                             *)
LEMMA ProgressFields ==
    ASSUME NEW n \in Nat, NEW cursor \in 0 .. NumCards, NEW outcomes \in Seq(OutcomeOf(n)),
           NEW drill \in Seq(Cards)
    PROVE  [cursor |-> cursor, outcomes |-> outcomes, drill |-> drill] \in ProgressOf(n)
  BY DEF ProgressOf

(* answer and skip leave a session that can be stored: an answer that puts *)
(* its card in the drill is there to be counted for it.                    *)
LEMMA RecordedSteps ==
    ASSUME NEW n \in Nat, NEW r, Serves(r, n), NEW o \in OutcomeOf(n), Current(r) # None,
           NEW drill \in Seq(Cards),
           \A c \in Cards : Count(drill, {c}) <=
               Count(r.progress.drill, {c}) + (IF o \in AnswersTo(c) THEN 1 ELSE 0)
    PROVE  /\ Steps(Recorded(r, o, drill), n) /\ Recorded(r, o, drill).row = r.row
           /\ Recorded(r, o, drill).progress.outcomes = Append(r.progress.outcomes, o)
  <1> DEFINE q == Recorded(r, o, drill)
             os == r.progress.outcomes
             os2 == Append(os, o)
             at == IF r.drillEntry = None THEN r.progress.cursor + 1 ELSE r.progress.cursor
             p == [cursor |-> at, outcomes |-> os2, drill |-> drill]
  <1>0. /\ r \in RunnerOf(n) /\ r.progress \in ProgressOf(n) /\ os \in Seq(OutcomeOf(n))
        /\ r.progress.drill \in Seq(Cards) /\ r.progress.cursor \in 0 .. NumCards
        /\ Len(r.entries) <= NumCards /\ Len(r.entries) \in Nat
    BY DEF Serves, RunnerOf, ProgressOf
  <1>1. r.drillEntry = None => r.progress.cursor + 1 \in 0 .. NumCards
    <2>1. r.drillEntry = None => r.progress.cursor < Len(r.entries)
      BY CurrentIsCard DEF InMain
    <2> QED
      BY <1>0, <2>1
  <1>2. os2 \in Seq(OutcomeOf(n))
    BY <1>0, AppendProperties
  <1>3. at \in 0 .. NumCards
    BY <1>0, <1>1
  <1>4. q = [r EXCEPT !.progress = p, !.drillEntry = None]
    BY DEF Recorded
  <1> HIDE DEF at, os2, q
  <1>5. p \in ProgressOf(n)
    BY <1>2, <1>3, ProgressFields
  <1>6. p.drill = drill /\ p.outcomes = os2
    OBVIOUS
  <1> HIDE DEF p
  <1>7. None \in 0 .. NumCards
    BY DEF None
  <1>8. /\ q \in RunnerOf(n) /\ q.row = r.row /\ q.entries = r.entries /\ q.drillEntry = None
        /\ q.progress = p
    BY <1>0, <1>4, <1>5, <1>7 DEF RunnerOf
  <1>9. ASSUME NEW c \in Cards
        PROVE  Count(drill, {c}) <= Count(os2, AnswersTo(c))
    <2>1. Count(os2, AnswersTo(c)) = Count(os, AnswersTo(c)) + (IF o \in AnswersTo(c) THEN 1 ELSE 0)
      BY <1>0, CountAppend DEF os2
    <2>2. /\ Count(r.progress.drill, {c}) + (IF r.drillEntry = c THEN 1 ELSE 0)
               <= Count(os, AnswersTo(c))
          /\ Count(r.progress.drill, {c}) \in Nat /\ Count(os, AnswersTo(c)) \in Nat
          /\ Count(drill, {c}) \in Nat
      BY <1>0, HitsFinite DEF Serves
    <2>3. Count(drill, {c}) <=
            Count(r.progress.drill, {c}) + (IF o \in AnswersTo(c) THEN 1 ELSE 0)
      OBVIOUS
    <2> QED
      BY <2>1, <2>2, <2>3
  <1> QED
    BY <1>0, <1>5, <1>6, <1>8, <1>9 DEF Steps, Kept, q, os2

(* answer adds an outcome with its review, ...                             *)
LEMMA GradedSteps ==
    ASSUME NEW n \in Nat, NEW r, Serves(r, n), NEW log \in 1 .. n, NEW rating,
           Current(r) # None
    PROVE  /\ Steps(Graded(r, rating, log), n) /\ Graded(r, rating, log).row = r.row
           /\ Graded(r, rating, log).progress.outcomes =
                Append(r.progress.outcomes, Outcome(Current(r), log))
  <1> DEFINE c0 == Current(r)
             o == Outcome(c0, log)
             drill == IF Requeued(r, rating) THEN Append(r.progress.drill, c0)
                      ELSE r.progress.drill
  <1>0. r.progress.drill \in Seq(Cards) /\ c0 \in Cards
    BY CurrentIsCard DEF ProgressOf
  <1>1. o \in OutcomeOf(n) /\ o \in AnswersTo(c0)
    BY <1>0 DEF Outcome, OutcomeOf, AnswersTo
  <1>2. drill \in Seq(Cards)
    BY <1>0, AppendProperties
  <1>3. ASSUME NEW c \in Cards
        PROVE  Count(drill, {c}) <=
                 Count(r.progress.drill, {c}) + (IF o \in AnswersTo(c) THEN 1 ELSE 0)
    <2>1. Count(r.progress.drill, {c}) \in Nat
      BY <1>0, HitsFinite
    <2>2. Count(Append(r.progress.drill, c0), {c}) =
            Count(r.progress.drill, {c}) + (IF c0 \in {c} THEN 1 ELSE 0)
      BY <1>0, CountAppend
    <2>3. c0 \in {c} => o \in AnswersTo(c)
      BY <1>1
    <2> HIDE DEF c0, o
    <2> QED
      BY <2>1, <2>2, <2>3
  <1>4. Graded(r, rating, log) = Recorded(r, o, drill)
    BY DEF Graded
  <1> HIDE DEF o, drill, c0
  <1>a. Current(r) # None /\ o \in OutcomeOf(n)
    BY <1>1
  <1>5. /\ Steps(Recorded(r, o, drill), n) /\ Recorded(r, o, drill).row = r.row
        /\ Recorded(r, o, drill).progress.outcomes = Append(r.progress.outcomes, o)
    BY ONLY <1>a, <1>2, <1>3, RecordedSteps, n \in Nat, Serves(r, n)
  <1> QED
    BY <1>4, <1>5 DEF o, c0

(* ... skip one without.                                                   *)
LEMMA SkippedSteps ==
    ASSUME NEW n \in Nat, NEW r, Serves(r, n), Current(r) # None
    PROVE  /\ Steps(Skipped(r), n) /\ Skipped(r).row = r.row
           /\ Skipped(r).progress.outcomes =
                Append(r.progress.outcomes, Outcome(Current(r), None))
  <1> DEFINE o == Outcome(Current(r), None)
             drill == r.progress.drill
  <1>0. drill \in Seq(Cards) /\ Current(r) \in Cards
    BY CurrentIsCard DEF ProgressOf
  <1>1. o \in OutcomeOf(n)
    BY <1>0 DEF Outcome, OutcomeOf, None
  <1>2. \A c \in Cards : Count(drill, {c}) \in Nat
    BY <1>0, HitsFinite
  <1>3. \A c \in Cards :
          Count(drill, {c}) <= Count(drill, {c}) + (IF o \in AnswersTo(c) THEN 1 ELSE 0)
    BY <1>2
  <1>4. Skipped(r) = Recorded(r, o, drill)
    BY DEF Skipped
  <1> HIDE DEF o
  <1>5. /\ Steps(Recorded(r, o, drill), n) /\ Recorded(r, o, drill).row = r.row
        /\ Recorded(r, o, drill).progress.outcomes = Append(r.progress.outcomes, o)
    BY <1>0, <1>1, <1>3, RecordedSteps
  <1> QED
    BY <1>4, <1>5 DEF o

(* undo takes an answer and the place in the drill it gave, if it is still *)
(* there; a session with a card of the drill on screen has one to undo.    *)
LEMMA UndoneServes ==
    ASSUME NEW n \in Nat, NEW r, Serves(r, n)
    PROVE  /\ Serves(Undone(r), n) /\ Undone(r).row = r.row
           /\ Undone(r).progress.outcomes = SubSeq(r.progress.outcomes, 1, LastAnswer(r) - 1)
  <1> DEFINE at == LastAnswer(r)
             os == r.progress.outcomes
             drill == r.progress.drill
             I == {i \in 1 .. Len(drill) : drill[i] = os[at].card}
             queued == IF at = 0 THEN 0 ELSE IF I # {} THEN Max(I) ELSE 0
             popped == Len(os) - (IF at = 0 THEN 0 ELSE at - 1)
             back == Behind(r.progress.cursor, popped)
             os2 == SubSeq(os, 1, at - 1)
             d2 == IF queued = 0 THEN drill ELSE RemoveAt(drill, queued)
             entry == IF at = 0 THEN r.drillEntry ELSE None
             u == Undone(r)
  <1>0. /\ r \in RunnerOf(n) /\ r.progress \in ProgressOf(n) /\ os \in Seq(OutcomeOf(n))
        /\ drill \in Seq(Cards) /\ r.progress.cursor \in 0 .. NumCards
        /\ Len(r.entries) <= NumCards /\ Len(os) \in Nat /\ Len(drill) \in Nat
        /\ r.drillEntry \in 0 .. NumCards
    BY DEF Serves, RunnerOf, ProgressOf
  <1>1. u = [r EXCEPT !.progress = [cursor |-> back, outcomes |-> os2, drill |-> d2],
                      !.drillEntry = entry]
    BY DEF Undone, SelectLastInSeq
  <1>2. \/ at = 0 /\ \A i \in 1 .. Len(os) : os[i].log = None
        \/ /\ at \in 1 .. Len(os) /\ os[at].log # None
           /\ \A i \in at + 1 .. Len(os) : os[i].log = None
    BY <1>0, LastAnswerIs
  <1> HIDE DEF at
  <1>3. at \in 0 .. Len(os)
    BY <1>0, <1>2
  <1>4. popped \in Nat
    BY <1>0, <1>3
  <1>5. back \in 0 .. NumCards
    BY <1>0, <1>4 DEF Behind
  <1>6. ASSUME NEW c \in Cards
        PROVE  /\ Count(drill, {c}) + (IF r.drillEntry = c THEN 1 ELSE 0) <= Count(os, AnswersTo(c))
               /\ Count(drill, {c}) \in Nat /\ Count(os, AnswersTo(c)) \in Nat
    BY <1>0, HitsFinite DEF Serves
  <1>7. CASE at = 0
    <2>1. os2 = <<>> /\ d2 = drill /\ queued = 0
      BY <1>7
    <2>2. ASSUME NEW c \in Cards
          PROVE  Count(drill, {c}) = 0 /\ r.drillEntry # c
      <3>1. Hits(os, AnswersTo(c)) = {}
        BY <1>0, <1>2, <1>7 DEF Hits, AnswersTo, None
      <3>2. Count(os, AnswersTo(c)) = 0
        BY <3>1, FS_EmptySet DEF Count
      <3> QED
        BY <1>6, <3>2
    <2>3. r.drillEntry = None
      <3>1. \A c \in Cards : r.drillEntry # c
        BY <2>2
      <3> QED
        BY <1>0, <3>1 DEF Cards, None
    <2> HIDE DEF os2, d2, back, u, entry
    <2>4. /\ u \in RunnerOf(n) /\ u.row = r.row /\ u.entries = r.entries /\ u.drillEntry = None
          /\ u.progress.drill = drill /\ u.progress.outcomes = os2
      <3>1. os2 \in Seq(OutcomeOf(n)) /\ d2 \in Seq(Cards) /\ entry = None
        BY <1>0, <1>7, <2>1, <2>3 DEF entry
      <3> DEFINE p == [cursor |-> back, outcomes |-> os2, drill |-> d2]
      <3>2. p \in ProgressOf(n) /\ p.drill = d2 /\ p.outcomes = os2
        BY <1>5, <3>1, ProgressFields
      <3>3. u = [r EXCEPT !.progress = p, !.drillEntry = None]
        BY <1>1, <3>1
      <3> HIDE DEF p
      <3>4. None \in 0 .. NumCards
        BY DEF None
      <3>5. /\ u \in RunnerOf(n) /\ u.row = r.row /\ u.entries = r.entries /\ u.drillEntry = None
            /\ u.progress = p
        BY <1>0, <3>2, <3>3, <3>4 DEF RunnerOf
      <3> QED
        BY <2>1, <3>2, <3>5
    <2>5. \A c \in Cards : Count(u.progress.outcomes, AnswersTo(c)) = 0 /\ u.drillEntry # c
      BY <2>1, <2>4, CountEmpty DEF Cards, None
    <2> QED
      BY <1>0, <2>2, <2>4, <2>5 DEF Serves, u, os2, at
  <1>8. CASE at # 0
    <2> DEFINE c0 == os[at].card
    <2>0. /\ at \in 1 .. Len(os) /\ os[at].log # None
          /\ \A i \in at + 1 .. Len(os) : os[i].log = None
      BY <1>2, <1>8
    <2>1. os[at] \in OutcomeOf(n) /\ c0 \in Cards /\ os[at] \in AnswersTo(c0)
      <3>1. os[at] \in OutcomeOf(n)
        BY <1>0, <2>0
      <3> HIDE DEF os
      <3> QED
        BY <2>0, <3>1 DEF OutcomeOf, AnswersTo, None
    <2>2. ASSUME NEW c \in Cards
          PROVE  /\ os2 \in Seq(OutcomeOf(n))
                 /\ Count(os2, AnswersTo(c)) =
                      Count(os, AnswersTo(c)) - (IF os[at] \in AnswersTo(c) THEN 1 ELSE 0)
      <3>1. \A i \in at + 1 .. Len(os) : os[i] \notin AnswersTo(c)
        BY <2>0 DEF AnswersTo, None
      <3> HIDE DEF os
      <3>2. /\ SubSeq(os, 1, at - 1) \in Seq(OutcomeOf(n))
            /\ Count(SubSeq(os, 1, at - 1), AnswersTo(c)) =
                 Count(os, AnswersTo(c)) - (IF os[at] \in AnswersTo(c) THEN 1 ELSE 0)
        BY <1>0, <2>0, <3>1, CountBefore
      <3> QED
        BY <3>2
    <2>3. \A c \in Cards : os[at] \in AnswersTo(c) <=> c = c0
      BY <2>1 DEF AnswersTo
    <2>4. I \in SUBSET (1 .. Len(drill)) /\ (I = {} => \A i \in 1 .. Len(drill) : drill[i] # c0)
      OBVIOUS
    <2>5. \/ queued = 0 /\ I = {}
          \/ queued \in 1 .. Len(drill) /\ queued # 0 /\ drill[queued] = c0
      <3>1. I # {} => Max(I) \in I
        BY <1>0, <2>4, MaxIsGreatest
      <3> HIDE DEF I
      <3>2. queued = IF I # {} THEN Max(I) ELSE 0
        BY <1>8
      <3>3. CASE I = {}
        BY <3>2, <3>3
      <3>4. CASE I # {}
        <4>1. queued \in I
          BY <3>1, <3>2, <3>4
        <4>2. queued \in 1 .. Len(drill) /\ drill[queued] = c0
          BY <4>1 DEF I
        <4> QED
          BY <1>0, <4>2
      <3> QED
        BY <3>3, <3>4
    <2> HIDE DEF I, queued
    <2>6. ASSUME NEW c \in Cards
          PROVE  /\ d2 \in Seq(Cards) /\ Count(d2, {c}) \in Nat
                 /\ Count(d2, {c}) <= Count(drill, {c})
                 /\ c = c0 => Count(d2, {c}) = 0 \/ Count(d2, {c}) < Count(drill, {c})
      <3>1. CASE queued = 0
        <4>1. d2 = drill
          BY <3>1
        <4>2. c = c0 => Hits(drill, {c}) = {}
          <5>1. \A i \in 1 .. Len(drill) : drill[i] # c0
            BY <2>4, <2>5, <3>1
          <5>2. DOMAIN drill = 1 .. Len(drill)
            BY <1>0
          <5> QED
            BY <5>1, <5>2 DEF Hits
        <4>3. c = c0 => Count(drill, {c}) = 0
          BY <4>2, FS_EmptySet DEF Count
        <4>4. Count(drill, {c}) \in Nat
          BY <1>6
        <4> HIDE DEF drill, c0, d2
        <4> QED
          BY <1>0, <4>1, <4>3, <4>4
      <3>2. CASE queued # 0
        <4>1. d2 = RemoveAt(drill, queued) /\ queued \in 1 .. Len(drill) /\ drill[queued] = c0
          BY <2>5, <3>2
        <4>2. /\ d2 \in Seq(Cards)
              /\ Count(d2, {c}) + (IF drill[queued] \in {c} THEN 1 ELSE 0) <= Count(drill, {c})
          BY <1>0, <4>1, CountRemoved
        <4>3. Count(d2, {c}) \in Nat
          BY <4>2, HitsFinite
        <4>4. Count(drill, {c}) \in Nat
          BY <1>6
        <4>5. c = c0 => drill[queued] \in {c}
          BY <4>1
        <4> HIDE DEF drill, c0, d2
        <4> QED
          BY <4>2, <4>3, <4>4, <4>5
      <3> QED
        BY <3>1, <3>2
    <2>7. d2 \in Seq(Cards) /\ os2 \in Seq(OutcomeOf(n)) /\ entry = None
      BY <1>8, <2>1, <2>2, <2>6
    <2> HIDE DEF os2, d2, back, u, entry
    <2>8. /\ u \in RunnerOf(n) /\ u.row = r.row /\ u.entries = r.entries /\ u.drillEntry = None
          /\ u.progress.drill = d2 /\ u.progress.outcomes = os2
      <3> DEFINE p == [cursor |-> back, outcomes |-> os2, drill |-> d2]
      <3>2. p \in ProgressOf(n) /\ p.drill = d2 /\ p.outcomes = os2
        BY <1>5, <2>7, ProgressFields
      <3>3. u = [r EXCEPT !.progress = p, !.drillEntry = None]
        BY <1>1, <2>7
      <3> HIDE DEF p
      <3>4. None \in 0 .. NumCards
        BY DEF None
      <3>5. /\ u \in RunnerOf(n) /\ u.row = r.row /\ u.entries = r.entries /\ u.drillEntry = None
            /\ u.progress = p
        BY <1>0, <3>2, <3>3, <3>4 DEF RunnerOf
      <3> QED
        BY <3>2, <3>5
    <2>9. ASSUME NEW c \in Cards
          PROVE  Count(d2, {c}) + (IF u.drillEntry = c THEN 1 ELSE 0) <= Count(os2, AnswersTo(c))
      <3>1. u.drillEntry # c
        BY <2>8 DEF Cards, None
      <3>2. /\ Count(drill, {c}) <= Count(os, AnswersTo(c)) /\ Count(drill, {c}) \in Nat
            /\ Count(os, AnswersTo(c)) \in Nat
        BY <1>6
      <3>3. CASE c = c0
        <4>1. Count(os2, AnswersTo(c)) = Count(os, AnswersTo(c)) - 1
          BY <2>2, <2>3, <3>2, <3>3
        <4>2. Count(os2, AnswersTo(c)) \in Nat
          BY <2>7, HitsFinite
        <4> QED
          BY <2>6, <3>1, <3>2, <3>3, <4>1, <4>2
      <3>4. CASE c # c0
        BY <2>2, <2>3, <2>6, <3>1, <3>2, <3>4
      <3> QED
        BY <3>3, <3>4
    <2> QED
      BY <1>0, <2>8, <2>9 DEF Serves, u, os2, at
  <1> QED
    BY <1>7, <1>8
-----------------------------------------------------------------------------
(* The rows.                                                               *)

(* With a longer log, what was stored still is, ...                        *)
LEMMA StoredGrows ==
    ASSUME NEW n \in Nat, NEW m \in Nat, n <= m, NEW table, StoredIn(table, n)
    PROVE  StoredIn(table, m)
  <1>1. ProgressOf(n) \subseteq ProgressOf(m) /\ RowOf(n) \subseteq RowOf(m)
    BY LogsGrow
  <1>2. table \in Seq(RowOf(m))
    BY <1>1, SeqMonotonic DEF StoredIn
  <1> QED
    BY <1>1, <1>2 DEF StoredIn, Kept

(* ... and what is served.                                                 *)
LEMMA ServesGrows ==
    ASSUME NEW n \in Nat, NEW m \in Nat, n <= m, NEW r, Serves(r, n)
    PROVE  Serves(r, m)
  BY LogsGrow DEF Serves

(* persist writes the row of the session and no other.                     *)
LEMMA PersistKeeps ==
    ASSUME NEW n \in Nat, StoredIn(rows, n), NEW r, r.row \in DOMAIN rows, IsOpen(r.row),
           Kept(r.progress, n), NEW status \in {"in_progress", "completed", "abandoned"},
           Persist(r, status)
    PROVE  /\ StoredIn(rows', n) /\ Len(rows') = Len(rows) /\ DOMAIN rows' = DOMAIN rows
           /\ \A q \in DOMAIN rows : q # r.row => rows'[q] = rows[q]
           /\ rows'[r.row].status = status /\ rows'[r.row].progress = r.progress
  <1> DEFINE k == r.row
             p == r.progress
             row == [rows[k] EXCEPT !.progress = p, !.status = status]
  <1>0. /\ rows \in Seq(RowOf(n)) /\ DOMAIN rows = 1 .. Len(rows) /\ Len(rows) \in Nat
        /\ rows[k] \in RowOf(n) /\ p \in ProgressOf(n) /\ Len(rows[k].plan) <= NumCards
    BY DEF StoredIn, Kept
  <1>1. rows' = [rows EXCEPT ![k] = row]
    <2>1. rows' = [rows EXCEPT ![k].progress = p, ![k].status = status]
      BY DEF Persist
    <2> HIDE DEF k, p
    <2> QED
      BY <1>0, <2>1
  <1>2. /\ row \in RowOf(n) /\ row.status = status /\ row.progress = p
        /\ row.plan = rows[k].plan
    <2> HIDE DEF k, p
    <2> QED
      BY <1>0 DEF RowOf
  <1> HIDE DEF row
  <1>3. /\ rows' \in Seq(RowOf(n)) /\ Len(rows') = Len(rows) /\ DOMAIN rows' = DOMAIN rows
        /\ rows'[k] = row /\ \A q \in DOMAIN rows : q # k => rows'[q] = rows[q]
    BY <1>0, <1>1, <1>2, ExceptSeq
  <1>4. ASSUME NEW q \in DOMAIN rows
        PROVE  Len(rows'[q].plan) <= NumCards /\ Kept(rows'[q].progress, n)
    <2>1. CASE q = k
      BY <1>0, <1>2, <1>3, <2>1
    <2>2. CASE q # k
      BY <1>3, <2>2 DEF StoredIn
    <2> QED
      BY <2>1, <2>2
  <1>5. \A q \in DOMAIN rows : rows'[q].status = "in_progress" => rows[q].status = "in_progress"
    BY <1>3 DEF IsOpen
  <1>6. \A q, s \in DOMAIN rows' :
          rows'[q].status = "in_progress" /\ rows'[s].status = "in_progress" => q = s
    BY <1>3, <1>5 DEF StoredIn
  <1> QED
    BY <1>2, <1>3, <1>4, <1>6 DEF StoredIn

(* abandonStale closes rows and writes nothing else; findActive gives the  *)
(* row that is left open.                                                  *)
LEMMA AbandonedKeeps ==
    ASSUME NEW n \in Nat, StoredIn(rows, n)
    PROVE  /\ StoredIn(Abandoned, n) /\ Len(Abandoned) = Len(rows) /\ DOMAIN Abandoned = DOMAIN rows
           /\ \A r \in DOMAIN rows :
                 /\ Abandoned[r].plan = rows[r].plan /\ Abandoned[r].progress = rows[r].progress
                 /\ rows[r].status # "in_progress" => Abandoned[r] = rows[r]
           /\ \/ Active = 0 /\ \A r \in DOMAIN rows : Abandoned[r].status # "in_progress"
              \/ Active \in DOMAIN rows /\ Active # 0 /\ Abandoned[Active].status = "in_progress"
  <1> DEFINE table == Abandoned
             I == {i \in 1 .. Len(table) : table[i].status = "in_progress"}
  <1>0. /\ rows \in Seq(RowOf(n)) /\ DOMAIN rows = 1 .. Len(rows) /\ Len(rows) \in Nat
    BY DEF StoredIn
  <1>1. ASSUME NEW r \in DOMAIN rows
        PROVE  /\ table[r] \in RowOf(n)
               /\ table[r].plan = rows[r].plan /\ table[r].progress = rows[r].progress
               /\ rows[r].status # "in_progress" => table[r] = rows[r]
               /\ table[r].status = "in_progress" => rows[r].status = "in_progress"
    <2>1. rows[r] \in RowOf(n)
      BY <1>0
    <2>2. table[r] = IF rows[r].status = "in_progress" /\ rows[r].day < clock.day
                     THEN [rows[r] EXCEPT !.status = "abandoned"] ELSE rows[r]
      BY DEF Abandoned
    <2> HIDE DEF table
    <2> QED
      BY <2>1, <2>2 DEF RowOf
  <1>2. DOMAIN table = 1 .. Len(rows)
    BY <1>0 DEF Abandoned
  <1>3. table = [r \in 1 .. Len(rows) |-> table[r]]
    BY <1>0 DEF Abandoned
  <1>b. Active = IF I # {} THEN Max(I) ELSE 0
    BY DEF Active, SelectLastInSeq
  <1> HIDE DEF table
  <1>4. table \in Seq(RowOf(n)) /\ Len(table) = Len(rows)
    BY <1>0, <1>1, <1>2, <1>3
  <1>5. StoredIn(table, n)
    BY <1>0, <1>1, <1>2, <1>4 DEF StoredIn
  <1>6. /\ I \in SUBSET (1 .. Len(rows))
        /\ \A r \in DOMAIN rows : r \in I <=> table[r].status = "in_progress"
    BY <1>0, <1>4
  <1> HIDE DEF I
  <1>7. \/ Active = 0 /\ I = {}
        \/ Active \in I /\ Active # 0
    BY <1>0, <1>b, <1>6, LastIn
  <1>8. \/ Active = 0 /\ \A r \in DOMAIN rows : table[r].status # "in_progress"
        \/ Active \in DOMAIN rows /\ Active # 0 /\ table[Active].status = "in_progress"
    BY <1>0, <1>6, <1>7
  <1> QED
    BY <1>0, <1>1, <1>2, <1>4, <1>5, <1>8 DEF table

(* A session composed is one more row, the open one.                       *)
LEMMA AppendStored ==
    ASSUME NEW n \in Nat, NEW table, StoredIn(table, n),
           \A r \in DOMAIN table : table[r].status # "in_progress",
           NEW row \in RowOf(n), Len(row.plan) <= NumCards, Kept(row.progress, n)
    PROVE  /\ StoredIn(Append(table, row), n) /\ Append(table, row)[Len(table) + 1] = row
           /\ \A r \in DOMAIN table : Append(table, row)[r] = table[r]
           /\ Len(Append(table, row)) = Len(table) + 1
  <1> DEFINE t == Append(table, row)
             m == Len(table) + 1
  <1>1. /\ table \in Seq(RowOf(n)) /\ DOMAIN table = 1 .. Len(table) /\ Len(table) \in Nat
    BY DEF StoredIn
  <1>2. /\ t \in Seq(RowOf(n)) /\ Len(t) = m /\ DOMAIN t = 1 .. m /\ t[m] = row
        /\ \A r \in DOMAIN table : t[r] = table[r]
    BY <1>1, AppendProperties
  <1> HIDE DEF t
  <1>3. ASSUME NEW r \in DOMAIN t
        PROVE  /\ Len(t[r].plan) <= NumCards /\ Kept(t[r].progress, n)
               /\ t[r].status = "in_progress" => r = m
    <2>1. CASE r = m
      BY <1>2, <2>1
    <2>2. CASE r # m
      <3>1. r \in DOMAIN table
        BY <1>1, <1>2, <2>2
      <3> QED
        BY <1>2, <3>1 DEF StoredIn
    <2> QED
      BY <2>1, <2>2
  <1> QED
    BY <1>2, <1>3 DEF StoredIn, t
-----------------------------------------------------------------------------
(* The steps of the main process.                                          *)

(* A closed row is left alone.                                             *)
ClosedKept == \A r \in DOMAIN rows : rows[r].status # "in_progress" => rows'[r] = rows[r]

(* A request is answered.                                                  *)
LEMMA ReplyKeeps ==
    ASSUME Screened, wire # <<>>, NEW kind \in {"done", "failed", "empty"}, NEW op \in Ops,
           Reply([op |-> op, kind |-> kind]), UNCHANGED clock
    PROVE  Screened'
  <1>1. wire' \in Seq(RequestTypes)
    BY HeadTailProperties DEF Screened, Reply
  <1>2. replies' \in Seq(ReplyTypes)
    <2>1. [op |-> op, kind |-> kind] \in ReplyTypes
      BY DEF ReplyTypes
    <2> QED
      BY <2>1, AppendProperties DEF Screened, Reply
  <1> QED
    BY <1>1, <1>2 DEF Screened

(* What is asked.                                                          *)
LEMMA HeadIsRequest ==
    ASSUME Screened, wire # <<>>
    PROVE  /\ Head(wire).op \in Ops
           /\ Head(wire).op = "answer" => Head(wire).rating \in {Again, Good}
  <1>1. Head(wire) \in RequestTypes
    BY HeadTailProperties DEF Screened
  <1> QED
    BY <1>1 DEF RequestTypes, Ops

(* What stands in the tables when neither is written.                      *)
LEMMA TablesStand ==
    ASSUME TypeInv, UNCHANGED <<cards, logs>>
    PROVE  Reviewed' /\ Len(logs') = Len(logs) /\ Len(logs) \in Nat
  <1>1. logs' = logs /\ cards' = cards /\ Reviewed
    BY DEF TypeInv
  <1>2. \A c : Live(c)' = Live(c) /\ Lapsed(c)' = Lapsed(c)
    BY <1>1 DEF Live, Lapsed
  <1> QED
    BY <1>1, <1>2 DEF Reviewed

(* A request refused changes nothing else, ...                             *)
LEMMA RefusedKeeps ==
    ASSUME TypeInv, Refused
    PROVE  TypeInv' /\ ClosedKept
  <1>1. Reviewed' /\ Len(logs') = Len(logs)
    BY TablesStand DEF Refused
  <1>2. Screened'
    BY ReplyKeeps, HeadIsRequest DEF TypeInv, Refused, Fails
  <1>3. Stored' /\ Served' /\ ClosedKept
    BY <1>1 DEF TypeInv, Refused, Stored, Served, IsOpen, ClosedKept
  <1> QED
    BY <1>1, <1>2, <1>3 DEF TypeInv

(* ... nor does sessionNext.                                               *)
LEMMA SessionNextKeeps ==
    ASSUME TypeInv, SessionNext
    PROVE  TypeInv' /\ ClosedKept
  <1>1. Reviewed' /\ Len(logs') = Len(logs)
    BY TablesStand DEF SessionNext
  <1>2. Screened'
    BY ReplyKeeps DEF TypeInv, SessionNext, Asked, Says, Empty, Ops
  <1>3. Stored' /\ Served' /\ ClosedKept
    BY <1>1 DEF TypeInv, SessionNext, Stored, Served, IsOpen, ClosedKept
  <1> QED
    BY <1>1, <1>2, <1>3 DEF TypeInv

(* A session picked up serves the row that is open, where it was left.     *)
LEMMA ResumeKeeps ==
    ASSUME TypeInv, Resume
    PROVE  TypeInv' /\ ClosedKept
  <1> DEFINE n == Len(logs)
             p == rows[Active].progress
             entries == Rehydrated(rows[Active].plan)
  <1>1. Reviewed' /\ Len(logs') = n /\ n \in Nat
    BY TablesStand DEF Resume
  <1>2. Screened'
    BY ReplyKeeps DEF TypeInv, Resume, Asked, Says, Ops
  <1>3. /\ StoredIn(rows', n) /\ Len(rows') = Len(rows) /\ DOMAIN rows' = DOMAIN rows
        /\ \A r \in DOMAIN rows : rows[r].status # "in_progress" => rows'[r] = rows[r]
        /\ Active \in DOMAIN rows /\ Active # 0 /\ rows'[Active].status = "in_progress"
        /\ DOMAIN rows = 1 .. Len(rows) /\ Len(rows) \in Nat
    BY <1>1, AbandonedKeeps DEF TypeInv, Resume, Stored, StoredIn
  <1>4. /\ rows[Active].plan \in Seq(Cards) /\ Len(rows[Active].plan) \in 0 .. NumCards
        /\ p \in ProgressOf(n) /\ Kept(p, n)
    <2>1. rows[Active] \in RowOf(n) /\ Len(rows[Active].plan) <= NumCards /\ Kept(p, n)
      BY <1>3 DEF TypeInv, Stored, StoredIn
    <2>2. rows[Active].plan \in Seq(Cards) /\ p \in ProgressOf(n)
      BY <2>1 DEF RowOf
    <2> QED
      BY <2>1, <2>2
  <1>5. entries \in Seq(Cards) /\ Len(entries) <= NumCards
    <2>1. entries \in Seq(Cards) /\ Len(entries) <= Len(rows[Active].plan)
      BY <1>4, AmongType DEF Rehydrated
    <2> QED
      BY <1>4, <2>1
  <1>6. /\ runner' = [row |-> Active, entries |-> entries, progress |-> p, drillEntry |-> None]
        /\ Active \in Nat
    BY <1>3 DEF Resume
  <1> HIDE DEF p, entries
  <1>7. runner' \in RunnerOf(n)
    BY <1>4, <1>5, <1>6 DEF RunnerOf, None
  <1>8. ASSUME NEW c \in Cards
        PROVE  Count(p.drill, {c}) + (IF None = c THEN 1 ELSE 0) <= Count(p.outcomes, AnswersTo(c))
    <2>1. Count(p.drill, {c}) \in Nat /\ Count(p.outcomes, AnswersTo(c)) \in Nat
      BY <1>4, HitsFinite DEF ProgressOf
    <2>2. None # c
      BY DEF Cards, None
    <2> QED
      BY <1>4, <2>1, <2>2 DEF Kept
  <1>9. Serves(runner', n)
    BY <1>5, <1>6, <1>7, <1>8 DEF Serves
  <1>10. Served'
    BY <1>1, <1>3, <1>6, <1>9 DEF Served, IsOpen, None
  <1> QED
    BY <1>1, <1>2, <1>3, <1>10 DEF TypeInv, Stored, ClosedKept

(* The runner and the row of a new session.                                *)
LEMMA NoProgressKept ==
    ASSUME NEW n \in Nat
    PROVE  /\ NoProgress \in ProgressOf(n) /\ Kept(NoProgress, n)
           /\ \A c : Count(NoProgress.drill, {c}) = 0
                     /\ Count(NoProgress.outcomes, AnswersTo(c)) = 0
  <1>1. NoProgress.drill = <<>> /\ NoProgress.outcomes = <<>> /\ NoProgress.cursor = 0
    BY DEF NoProgress
  <1>2. <<>> \in Seq(Cards) /\ <<>> \in Seq(OutcomeOf(n)) /\ 0 \in 0 .. NumCards
    BY EmptySeq
  <1>3. NoProgress \in ProgressOf(n)
    BY <1>2, ProgressFields DEF NoProgress
  <1>4. \A c : Count(NoProgress.drill, {c}) = 0 /\ Count(NoProgress.outcomes, AnswersTo(c)) = 0
    BY <1>1, CountEmpty
  <1>5. \A c \in Cards :
          Count(NoProgress.drill, {c}) <= Count(NoProgress.outcomes, AnswersTo(c))
    <2> SUFFICES ASSUME NEW c \in Cards
                 PROVE  Count(NoProgress.drill, {c}) <= Count(NoProgress.outcomes, AnswersTo(c))
      OBVIOUS
    <2> QED
      BY <1>4
  <1> QED
    BY <1>3, <1>4, <1>5 DEF Kept

(* There is nothing to serve without a session.                            *)
LEMMA NoRunnerServes ==
    ASSUME NEW n \in Nat
    PROVE  Serves(NoRunner, n) /\ NoRunner.row = None
  <1>1. /\ NoRunner.entries = <<>> /\ NoRunner.progress = NoProgress
        /\ NoRunner.drillEntry = None /\ NoRunner.row = None
    BY DEF NoRunner
  <1>2. <<>> \in Seq(Cards) /\ Len(<<>>) <= NumCards
    BY EmptySeq
  <1>3. NoRunner \in RunnerOf(n)
    BY <1>2, NoProgressKept DEF NoRunner, RunnerOf, None
  <1>4. \A c \in Cards : None # c
    BY DEF Cards, None
  <1> QED
    BY <1>1, <1>2, <1>3, <1>4, NoProgressKept DEF Serves

(* A session composed serves the row it adds, when none is open.           *)
LEMMA ComposeKeeps ==
    ASSUME TypeInv, Compose
    PROVE  TypeInv' /\ ClosedKept
  <1> DEFINE n == Len(logs)
             m == Len(rows) + 1
             row == [status |-> "in_progress", day |-> clock.day, plan |-> Plan,
                     progress |-> NoProgress]
  <1>1. Reviewed' /\ Len(logs') = n /\ n \in Nat
    BY TablesStand DEF Compose
  <1>2. Screened'
    BY ReplyKeeps DEF TypeInv, Compose, Asked, Says, Ops
  <1>3. /\ StoredIn(Abandoned, n) /\ Len(Abandoned) = Len(rows) /\ DOMAIN Abandoned = DOMAIN rows
        /\ \A r \in DOMAIN rows : rows[r].status # "in_progress" => Abandoned[r] = rows[r]
        /\ \A r \in DOMAIN rows : Abandoned[r].status # "in_progress"
        /\ DOMAIN rows = 1 .. Len(rows) /\ Len(rows) \in Nat
    <2>1. Active = 0 /\ StoredIn(rows, n)
      BY DEF TypeInv, Compose, Stored
    <2>2. DOMAIN rows = 1 .. Len(rows) /\ Len(rows) \in Nat
      BY <2>1 DEF StoredIn
    <2> QED
      BY <1>1, <2>1, <2>2, AbandonedKeeps
  <1>4. Plan \in Seq(Cards) /\ Len(Plan) <= NumCards
    <2>1. [c \in Cards |-> c] \in Seq(Cards) /\ Len([c \in Cards |-> c]) = NumCards
      BY DEF Cards
    <2> QED
      BY <2>1, AmongType DEF Plan
  <1>5. row \in RowOf(n) /\ Len(row.plan) <= NumCards /\ Kept(row.progress, n)
    BY <1>1, <1>4, NoProgressKept DEF TypeInv, Screened, RowOf
  <1>6. rows' = Append(Abandoned, row)
    BY DEF Compose
  <1>7. row.status = "in_progress"
    OBVIOUS
  <1> HIDE DEF row
  <1>8. /\ StoredIn(rows', n) /\ rows'[m] = row /\ Len(rows') = m
        /\ \A r \in DOMAIN rows : rows'[r] = Abandoned[r]
    BY <1>1, <1>3, <1>5, <1>6, AppendStored
  <1>9. runner' = [row |-> m, entries |-> Plan, progress |-> NoProgress, drillEntry |-> None]
    BY DEF Compose, NoRunner
  <1>10. Serves(runner', n)
    <2>1. runner' \in RunnerOf(n)
      BY <1>1, <1>3, <1>4, <1>9, NoProgressKept DEF RunnerOf, None
    <2>2. \A c \in Cards : None # c
      BY DEF Cards, None
    <2> QED
      BY <1>1, <1>4, <1>9, <2>1, <2>2, NoProgressKept DEF Serves
  <1>11. Served'
    BY <1>1, <1>3, <1>7, <1>8, <1>9, <1>10 DEF Served, IsOpen, None
  <1> QED
    BY <1>1, <1>2, <1>3, <1>8, <1>11 DEF TypeInv, Stored, ClosedKept

(* What the actions on an open session start from.                         *)
LEMMA RunnerServes ==
    ASSUME TypeInv, runner # NoRunner
    PROVE  /\ Serves(runner, Len(logs)) /\ Len(logs) \in Nat /\ runner.row # None
           /\ runner.row \in DOMAIN rows /\ IsOpen(runner.row)
           /\ rows[runner.row].status = "in_progress"
           /\ Current(runner) # None => Current(runner) \in Cards
           /\ StoredIn(rows, Len(logs)) /\ DOMAIN rows = 1 .. Len(rows) /\ Len(rows) \in Nat
  <1>1. Len(logs) \in Nat /\ DOMAIN rows = 1 .. Len(rows) /\ Len(rows) \in Nat
    BY DEF TypeInv, Reviewed, Stored, StoredIn
  <1>2. /\ Serves(runner, Len(logs)) /\ runner.row # None /\ runner.row \in DOMAIN rows
        /\ IsOpen(runner.row)
    BY <1>1 DEF TypeInv, Served, None
  <1> QED
    BY <1>1, <1>2, CurrentIsCard DEF TypeInv, Stored, IsOpen

(* An open session is stored and goes on.                                  *)
LEMMA GoesOn ==
    ASSUME TypeInv, NEW n \in Nat, Len(logs) <= n, Len(logs') = n, runner # NoRunner,
           NEW r, Steps(r, n), r.row = runner.row,
           Persist(r, rows[runner.row].status), runner' = LoadDrill(r)
    PROVE  Stored' /\ Served' /\ ClosedKept
  <1>1. /\ runner.row \in DOMAIN rows /\ IsOpen(runner.row) /\ runner.row # None
        /\ rows[runner.row].status = "in_progress" /\ StoredIn(rows, Len(logs))
        /\ Len(logs) \in Nat /\ DOMAIN rows = 1 .. Len(rows) /\ Len(rows) \in Nat
    BY RunnerServes
  <1>2. StoredIn(rows, n)
    BY <1>1, StoredGrows
  <1>3. Kept(r.progress, n)
    BY DEF Steps
  <1>4. /\ StoredIn(rows', n) /\ Len(rows') = Len(rows)
        /\ \A q \in DOMAIN rows : q # r.row => rows'[q] = rows[q]
        /\ rows'[r.row].status = "in_progress"
    BY <1>1, <1>2, <1>3, PersistKeeps
  <1>5. Serves(runner', n) /\ runner'.row = runner.row
    BY LoadDrillServes
  <1>6. Served'
    BY <1>1, <1>4, <1>5 DEF Served, IsOpen
  <1>7. ClosedKept
    BY <1>1, <1>4 DEF ClosedKept
  <1> QED
    BY <1>4, <1>6, <1>7 DEF Stored

(* sessionAnswer, ...                                                      *)
LEMMA SessionAnswerKeeps ==
    ASSUME TypeInv, SessionAnswer
    PROVE  TypeInv' /\ ClosedKept
  <1> DEFINE n == Len(logs) + 1
             rating == Head(wire).rating
             g == Graded(runner, rating, n)
  <1>1. runner # NoRunner /\ wire # <<>> /\ Current(runner) # None /\ Head(wire).op = "answer"
    BY DEF SessionAnswer, Answers, Asked
  <1>2. Serves(runner, Len(logs)) /\ Len(logs) \in Nat /\ Current(runner) \in Cards
    BY <1>1, RunnerServes
  <1>3. rating \in {Again, Good}
    BY <1>1, HeadIsRequest DEF TypeInv
  <1>4. Reviewed' /\ Len(logs') = n
    BY <1>2, <1>3, ReviewKeeps DEF TypeInv, SessionAnswer
  <1>5. Screened'
    BY <1>1, ReplyKeeps DEF TypeInv, SessionAnswer, Says, Ops
  <1>6. Serves(runner, n) /\ n \in 1 .. n /\ n \in Nat /\ Len(logs) <= n
    BY <1>2, ServesGrows
  <1>7. Steps(g, n) /\ g.row = runner.row
    BY <1>1, <1>6, GradedSteps
  <1>8. Persist(g, rows[runner.row].status) /\ runner' = LoadDrill(g)
    BY DEF SessionAnswer
  <1> HIDE DEF g, n
  <1>9. Stored' /\ Served' /\ ClosedKept
    BY <1>1, <1>4, <1>6, <1>7, <1>8, GoesOn
  <1> QED
    BY <1>4, <1>5, <1>9 DEF TypeInv

(* ... sessionSkip, ...                                                    *)
LEMMA SessionSkipKeeps ==
    ASSUME TypeInv, SessionSkip
    PROVE  TypeInv' /\ ClosedKept
  <1> DEFINE n == Len(logs)
             s == Skipped(runner)
  <1>1. runner # NoRunner /\ Serves(runner, n) /\ n \in Nat
    BY RunnerServes DEF SessionSkip
  <1>2. Reviewed' /\ Len(logs') = n
    BY TablesStand DEF SessionSkip
  <1>3. Screened'
    BY ReplyKeeps DEF TypeInv, SessionSkip, Asked, Says, Ops
  <1>4. Stored' /\ Served' /\ ClosedKept
    <2>1. CASE Current(runner) = None
      <3>1. UNCHANGED <<rows, runner>>
        BY <2>1 DEF SessionSkip
      <3> QED
        BY <1>2, <3>1 DEF TypeInv, Stored, Served, IsOpen, ClosedKept
    <2>2. CASE Current(runner) # None
      <3>1. Persist(s, rows[runner.row].status) /\ runner' = LoadDrill(s)
        BY <2>2 DEF SessionSkip
      <3>2. Steps(s, n) /\ s.row = runner.row
        BY <1>1, <2>2, SkippedSteps
      <3> HIDE DEF s, n
      <3>3. n \in Nat /\ Len(logs) <= n
        BY <1>1 DEF n
      <3> QED
        BY <1>1, <1>2, <3>1, <3>2, <3>3, GoesOn
    <2> QED
      BY <2>1, <2>2
  <1> QED
    BY <1>2, <1>3, <1>4 DEF TypeInv

(* What undo takes back leaves the counts right.                           *)
LEMMA TakenBackKeeps ==
    ASSUME TypeInv, runner # NoRunner, TakenBack
    PROVE  Reviewed' /\ Len(logs') = Len(logs)
  <1> DEFINE at == LastAnswer(runner)
             os == runner.progress.outcomes
  <1>1. Serves(runner, Len(logs)) /\ Len(logs) \in Nat /\ DOMAIN logs = 1 .. Len(logs)
    BY RunnerServes DEF TypeInv, Reviewed
  <1>2. runner.progress \in ProgressOf(Len(logs)) /\ os \in Seq(OutcomeOf(Len(logs)))
    BY <1>1 DEF Serves, RunnerOf, ProgressOf
  <1>3. CASE at = 0
    BY <1>3, TablesStand DEF TakenBack
  <1>4. CASE at # 0
    <2>1. at \in 1 .. Len(os) /\ os[at].log # None
      BY <1>1, <1>2, <1>4, LastAnswerIs
    <2>2. os[at] \in OutcomeOf(Len(logs))
      BY <1>2, <2>1
    <2>3. os[at].log \in DOMAIN logs
      BY <1>1, <2>1, <2>2 DEF OutcomeOf, None
    <2>4. UndoReview(os[at].log)
      BY <1>4 DEF TakenBack
    <2> QED
      BY <2>3, <2>4, UndoKeeps DEF TypeInv
  <1> QED
    BY <1>3, <1>4

(* ... sessionUndo, ...                                                    *)
LEMMA SessionUndoKeeps ==
    ASSUME TypeInv, SessionUndo
    PROVE  TypeInv' /\ ClosedKept
  <1> DEFINE n == Len(logs)
             u == Undone(runner)
  <1>1. /\ runner # NoRunner /\ Serves(runner, n) /\ n \in Nat /\ runner.row # None
        /\ runner.row \in DOMAIN rows /\ IsOpen(runner.row)
        /\ rows[runner.row].status = "in_progress" /\ StoredIn(rows, n)
        /\ DOMAIN rows = 1 .. Len(rows) /\ Len(rows) \in Nat
    BY RunnerServes DEF SessionUndo, Undoes
  <1>2. Reviewed' /\ Len(logs') = n
    BY <1>1, TakenBackKeeps DEF SessionUndo
  <1>3. Screened'
    BY ReplyKeeps DEF TypeInv, SessionUndo, Undoes, Asked, Says, Ops
  <1>4. Serves(u, n) /\ u.row = runner.row /\ Kept(u.progress, n)
    BY <1>1, UndoneServes, ServedIsKept
  <1>5. Persist(u, rows[runner.row].status) /\ runner' = u
    BY DEF SessionUndo
  <1> HIDE DEF u, n
  <1>6. /\ StoredIn(rows', n) /\ Len(rows') = Len(rows)
        /\ \A q \in DOMAIN rows : q # runner.row => rows'[q] = rows[q]
        /\ rows'[runner.row].status = "in_progress"
    BY <1>1, <1>4, <1>5, PersistKeeps
  <1>7. Served'
    BY <1>1, <1>2, <1>4, <1>5, <1>6 DEF Served, IsOpen
  <1>8. ClosedKept
    BY <1>1, <1>6 DEF ClosedKept
  <1> QED
    BY <1>2, <1>3, <1>6, <1>7, <1>8 DEF TypeInv, Stored

(* ... and sessionFinish, which leaves no session.                         *)
LEMMA SessionFinishKeeps ==
    ASSUME TypeInv, SessionFinish
    PROVE  TypeInv' /\ ClosedKept
  <1> DEFINE n == Len(logs)
  <1>1. /\ runner # NoRunner /\ Serves(runner, n) /\ n \in Nat /\ runner.row # None
        /\ runner.row \in DOMAIN rows /\ IsOpen(runner.row)
        /\ rows[runner.row].status = "in_progress" /\ StoredIn(rows, n)
        /\ DOMAIN rows = 1 .. Len(rows) /\ Len(rows) \in Nat
    BY RunnerServes DEF SessionFinish
  <1>2. Reviewed' /\ Len(logs') = n
    BY TablesStand DEF SessionFinish
  <1>3. Screened'
    BY ReplyKeeps DEF TypeInv, SessionFinish, Asked, Says, Ops
  <1>4. Kept(runner.progress, n)
    BY <1>1, ServedIsKept
  <1>5. Persist(runner, "completed") /\ runner' = NoRunner
    BY DEF SessionFinish
  <1>6. /\ StoredIn(rows', n) /\ Len(rows') = Len(rows)
        /\ \A q \in DOMAIN rows : q # runner.row => rows'[q] = rows[q]
    BY <1>1, <1>4, <1>5, PersistKeeps
  <1>7. Served'
    BY <1>1, <1>2, <1>5, <1>6, NoRunnerServes DEF Served, IsOpen, None
  <1>8. ClosedKept
    BY <1>1, <1>6 DEF ClosedKept
  <1> QED
    BY <1>2, <1>3, <1>6, <1>7, <1>8 DEF TypeInv, Stored
-----------------------------------------------------------------------------
(* The steps of the screen, the crashes and what is beside the session.    *)

(* A request more on the way.                                              *)
LEMMA SendsKeeps ==
    ASSUME wire \in Seq(RequestTypes), NEW op \in Ops, NEW rating,
           IF op = "answer" THEN rating \in {Again, Good} ELSE rating = None,
           Sends(op, rating)
    PROVE  wire' \in Seq(RequestTypes)
  <1>1. [op |-> op, rating |-> rating] \in RequestTypes
    BY DEF RequestTypes
  <1> QED
    BY <1>1, AppendProperties DEF Sends

(* An event more.                                                          *)
LEMMA EventKeeps ==
    ASSUME Screened, Event
    PROVE  /\ clock' \in [day : 1 .. MaxEvents + 1, events : 0 .. MaxEvents]
           /\ clock'.day <= clock'.events + 1
  <1>1. clock' = [clock EXCEPT !.events = clock.events + 1] /\ clock.events < MaxEvents
    BY DEF Event
  <1>2. clock \in [day : 1 .. MaxEvents + 1, events : 0 .. MaxEvents]
        /\ clock.day <= clock.events + 1
    BY DEF Screened
  <1> QED
    BY <1>1, <1>2

(* The tables and the session as they were.                                *)
LEMMA AllStand ==
    ASSUME TypeInv, UNCHANGED <<cards, logs, rows, runner>>
    PROVE  Reviewed' /\ Stored' /\ Served' /\ ClosedKept
  <1>1. Reviewed' /\ Len(logs') = Len(logs)
    BY TablesStand
  <1> QED
    BY <1>1 DEF TypeInv, Stored, Served, IsOpen, ClosedKept

(* The screen sends requests and takes the answers to them.                *)
LEMMA ScreenKeeps ==
    ASSUME TypeInv,
           Start \/ ReviewMore \/ Skip \/ Undo \/ Receive
             \/ \E rating \in {Again, Good} : Grade(rating)
    PROVE  TypeInv' /\ ClosedKept
  <1>1. UNCHANGED <<cards, logs, rows, runner>>
    BY DEF Start, ReviewMore, Skip, Undo, Receive, Grade
  <1>2. Reviewed' /\ Stored' /\ Served' /\ ClosedKept
    BY <1>1, AllStand
  <1>3. Screened /\ wire \in Seq(RequestTypes) /\ replies \in Seq(ReplyTypes)
    BY DEF TypeInv, Screened
  <1>4. CASE Start
    <2>1. wire' \in Seq(RequestTypes)
      BY <1>3, <1>4, SendsKeeps DEF Start, Ops
    <2> QED
      BY <1>2, <1>3, <1>4, <2>1 DEF TypeInv, Screened, Start
  <1>5. CASE ReviewMore
    BY <1>2, <1>3, <1>5, EventKeeps DEF TypeInv, Screened, ReviewMore
  <1>6. CASE Skip
    <2>1. wire' \in Seq(RequestTypes)
      BY <1>3, <1>6, SendsKeeps DEF Skip, Ops
    <2>2. Event \/ UNCHANGED clock
      BY <1>6 DEF Skip
    <2> QED
      BY <1>2, <1>3, <1>6, <2>1, <2>2, EventKeeps DEF TypeInv, Screened, Skip
  <1>7. CASE Undo
    <2>1. wire' \in Seq(RequestTypes)
      BY <1>3, <1>7, SendsKeeps DEF Undo, Ops
    <2>2. Event
      BY <1>7 DEF Undo
    <2> QED
      BY <1>2, <1>3, <1>7, <2>1, <2>2, EventKeeps DEF TypeInv, Screened, Undo
  <1>8. CASE Receive
    <2>1. replies' \in Seq(ReplyTypes) /\ UNCHANGED clock
      BY <1>3, <1>8, HeadTailProperties DEF Receive
    <2>2. Sends("finish", None) \/ Sends("next", None) \/ UNCHANGED wire
      BY <1>8 DEF Receive
    <2>3. wire' \in Seq(RequestTypes)
      BY <1>3, <2>2, SendsKeeps DEF Ops
    <2> QED
      BY <1>2, <1>3, <2>1, <2>3 DEF TypeInv, Screened
  <1>9. ASSUME NEW rating \in {Again, Good}, Grade(rating)
        PROVE  Screened'
    <2>1. wire' \in Seq(RequestTypes)
      BY <1>3, <1>9, SendsKeeps DEF Grade, Ops
    <2> QED
      BY <1>3, <1>9, <2>1 DEF Screened, Grade
  <1> QED
    BY <1>2, <1>4, <1>5, <1>6, <1>7, <1>8, <1>9 DEF TypeInv

(* The process starts again with nothing on the way and no session.        *)
LEMMA DownKeeps ==
    ASSUME TypeInv, NEW n \in Nat, Len(logs) <= n, Len(logs') = n, Down, UNCHANGED rows,
           Event \/ UNCHANGED clock
    PROVE  Stored' /\ Served' /\ Screened' /\ ClosedKept
  <1>1. StoredIn(rows, Len(logs)) /\ Len(logs) \in Nat
    BY DEF TypeInv, Stored, Reviewed
  <1>2. StoredIn(rows, n)
    BY <1>1, StoredGrows
  <1>3. Len(rows) \in Nat
    BY <1>1 DEF StoredIn
  <1>4. Served'
    BY <1>3, NoRunnerServes DEF Down, Served, None
  <1>5. wire' \in Seq(RequestTypes) /\ replies' \in Seq(ReplyTypes)
    BY EmptySeq DEF Down
  <1>6. Screened'
    BY <1>5, EventKeeps DEF TypeInv, Screened
  <1> QED
    BY <1>2, <1>4, <1>6 DEF Stored, ClosedKept

(* A crash, between the two writes or elsewhere, leaves whole tables.      *)
LEMMA CrashesKeep ==
    ASSUME TypeInv, Crash \/ CrashInAnswer \/ CrashInUndo
    PROVE  TypeInv' /\ ClosedKept
  <1>0. Len(logs) \in Nat /\ Len(logs) + 1 \in Nat /\ Len(logs) <= Len(logs) + 1
    BY DEF TypeInv, Reviewed
  <1>1. CASE Crash
    <2>1. Reviewed' /\ Len(logs') = Len(logs)
      BY <1>1, TablesStand DEF Crash
    <2>2. Down /\ UNCHANGED rows /\ Event
      BY <1>1 DEF Crash
    <2>3. Stored' /\ Served' /\ Screened' /\ ClosedKept
      BY <1>0, <2>1, <2>2, DownKeeps
    <2> QED
      BY <2>1, <2>3 DEF TypeInv
  <1>2. CASE CrashInAnswer
    <2>1. runner # NoRunner /\ wire # <<>> /\ Current(runner) # None /\ Head(wire).op = "answer"
      BY <1>2 DEF CrashInAnswer, Answers, Asked
    <2>2. Current(runner) \in Cards /\ Head(wire).rating \in {Again, Good}
      BY <2>1, RunnerServes, HeadIsRequest DEF TypeInv
    <2>3. Reviewed' /\ Len(logs') = Len(logs) + 1
      BY <1>2, <2>2, ReviewKeeps DEF TypeInv, CrashInAnswer
    <2>4. Down /\ UNCHANGED rows /\ Event
      BY <1>2 DEF CrashInAnswer
    <2>5. Stored' /\ Served' /\ Screened' /\ ClosedKept
      BY <1>0, <2>3, <2>4, DownKeeps
    <2> QED
      BY <2>3, <2>5 DEF TypeInv
  <1>3. CASE CrashInUndo
    <2>1. runner # NoRunner /\ TakenBack
      BY <1>3 DEF CrashInUndo, Undoes
    <2>2. Reviewed' /\ Len(logs') = Len(logs)
      BY <2>1, TakenBackKeeps
    <2>3. Down /\ UNCHANGED rows /\ UNCHANGED clock
      BY <1>3 DEF CrashInUndo
    <2>4. Stored' /\ Served' /\ Screened' /\ ClosedKept
      BY <1>0, <2>2, <2>3, DownKeeps
    <2> QED
      BY <2>2, <2>4 DEF TypeInv
  <1> QED
    BY <1>1, <1>2, <1>3

(* A new day makes cards due, ...                                          *)
LEMMA NewDayKeeps ==
    ASSUME TypeInv, NewDay
    PROVE  TypeInv' /\ ClosedKept
  <1>1. Reviewed'
    <2>1. logs' = logs /\ Reviewed
      BY DEF TypeInv, NewDay
    <2>2. cards' = [c \in Cards |-> [cards[c] EXCEPT !.due = TRUE]]
      BY DEF NewDay
    <2>3. ASSUME NEW c \in Cards
          PROVE  /\ cards'[c] \in CardOf(Len(logs)) /\ cards'[c].reps = cards[c].reps
                 /\ cards'[c].lapses = cards[c].lapses
      <3>1. cards[c] \in CardOf(Len(logs))
        BY <2>1 DEF Reviewed
      <3> QED
        BY <2>2, <3>1 DEF CardOf
    <2>4. cards' \in [Cards -> CardOf(Len(logs))]
      BY <2>2, <2>3
    <2>5. \A c : Live(c)' = Live(c) /\ Lapsed(c)' = Lapsed(c)
      BY <2>1 DEF Live, Lapsed
    <2> QED
      BY <2>1, <2>3, <2>4, <2>5 DEF Reviewed
  <1>2. UNCHANGED <<logs, rows, runner, wire, replies>>
    BY DEF NewDay
  <1>3. Screened'
    BY <1>2 DEF TypeInv, Screened, NewDay
  <1> QED
    BY <1>1, <1>2, <1>3 DEF TypeInv, Stored, Served, IsOpen, ClosedKept

(* ... and the diagnostic reviews a card or takes that back.               *)
LEMMA SeedsKeep ==
    ASSUME TypeInv,
           (\E c \in Cards : Seed(c)) \/ (\E l \in DOMAIN logs : Unseed(l))
    PROVE  TypeInv' /\ ClosedKept
  <1>0. Len(logs) \in Nat /\ Len(logs) + 1 \in Nat /\ Len(logs) <= Len(logs) + 1
    BY DEF TypeInv, Reviewed
  <1>1. Event /\ UNCHANGED <<rows, runner, screen, wire, replies>>
    BY DEF Seed, Unseed
  <1>2. Reviewed' /\ (Len(logs') = Len(logs) \/ Len(logs') = Len(logs) + 1)
    <2>1. ASSUME NEW c \in Cards, Seed(c)
          PROVE  Reviewed' /\ Len(logs') = Len(logs) + 1
      BY <2>1, ReviewKeeps DEF TypeInv, Seed
    <2>2. ASSUME NEW l \in DOMAIN logs, Unseed(l)
          PROVE  Reviewed' /\ Len(logs') = Len(logs)
      BY <2>2, UndoKeeps DEF TypeInv, Unseed
    <2> QED
      BY <2>1, <2>2
  <1> DEFINE n == Len(logs')
  <1>3. n \in Nat /\ Len(logs) <= n
    BY <1>0, <1>2
  <1>4. StoredIn(rows, n) /\ Serves(runner, n)
    BY <1>0, <1>3, StoredGrows, ServesGrows DEF TypeInv, Stored, Served
  <1>5. Screened'
    BY <1>1, EventKeeps DEF TypeInv, Screened
  <1> QED
    BY <1>1, <1>2, <1>4, <1>5 DEF TypeInv, Stored, Served, IsOpen, ClosedKept
-----------------------------------------------------------------------------
(* The start.                                                              *)

(* A finite set has its elements in a sequence, each once.                 *)
LEMMA SetToSeqIs ==
    ASSUME NEW S, IsFiniteSet(S)
    PROVE  /\ SetToSeq(S) \in Seq(S) /\ Len(SetToSeq(S)) = Cardinality(S)
           /\ Cardinality(S) \in Nat
           /\ \A i, j \in 1 .. Cardinality(S) : SetToSeq(S)[i] = SetToSeq(S)[j] => i = j
           /\ \A x \in S : \E i \in 1 .. Cardinality(S) : SetToSeq(S)[i] = x
  <1> DEFINE n == Cardinality(S)
             f == SetToSeq(S)
  <1>1. n \in Nat /\ ExistsBijection(1 .. n, S)
    BY FS_CardinalityType
  <1>2. PICK g \in Bijection(1 .. n, S) : TRUE
    BY <1>1 DEF ExistsBijection
  <1>3. g \in [1 .. n -> S] /\ IsInjective(g)
    BY <1>2 DEF Bijection, Injection
  <1>4. f \in [1 .. n -> S] /\ IsInjective(f)
    BY <1>3 DEF SetToSeq
  <1> HIDE DEF f, n
  <1>5. f \in Injection(1 .. n, S)
    BY <1>4 DEF Injection
  <1>6. IsFiniteSet(1 .. n) /\ Cardinality(1 .. n) = n
    BY <1>1, FS_Interval
  <1>7. f \in Surjection(1 .. n, S)
    BY <1>5, <1>6, FS_Injection DEF n
  <1>8. \A x \in S : \E i \in 1 .. n : f[i] = x
    BY <1>7 DEF Surjection
  <1>9. f \in Seq(S) /\ Len(f) = n
    BY <1>1, <1>4
  <1>10. \A i, j \in 1 .. n : f[i] = f[j] => i = j
    BY <1>4 DEF IsInjective
  <1> QED
    BY <1>1, <1>8, <1>9, <1>10 DEF f, n

(* The first reviews are those of the cards known: each has one.           *)
LEMMA InitLogs ==
    ASSUME Init
    PROVE  /\ logs \in Seq(LogOf(Len(logs))) /\ Len(logs) \in Nat
           /\ DOMAIN logs = 1 .. Len(logs)
           /\ \A l \in DOMAIN logs : /\ logs[l].live /\ ~logs[l].lapse /\ ~logs[l].seed
                                     /\ logs[l].before = <<>> /\ logs[l].card \in Known
           /\ \A c \in Cards : /\ c \in Known => \E l : Live(c) = {l}
                               /\ c \notin Known => Live(c) = {}
           /\ \A c : Live(c) = {l \in DOMAIN logs : logs[l].card = c} /\ Lapsed(c) = {}
  <1> DEFINE k == Cardinality(Known)
             K == SetToSeq(Known)
             log(l) == [card |-> K[l], rating |-> Good, before |-> <<>>, lapse |-> FALSE,
                        live |-> TRUE, seed |-> FALSE]
  <1>1. IsFiniteSet(Known)
    <2>1. IsFiniteSet(Cards)
      BY FS_Interval DEF Cards
    <2> QED
      BY <2>1, FS_Subset
  <1>2. /\ K \in Seq(Known) /\ Len(K) = k /\ k \in Nat
        /\ \A i, j \in 1 .. k : K[i] = K[j] => i = j
        /\ \A x \in Known : \E i \in 1 .. k : K[i] = x
    BY <1>1, SetToSeqIs
  <1>3. logs = [l \in 1 .. k |-> log(l)]
    BY DEF Init
  <1> HIDE DEF K, k
  <1>4. ASSUME NEW l \in 1 .. k
        PROVE  log(l) \in LogOf(k) /\ K[l] \in Known
    <2>1. K[l] \in Known
      BY <1>2
    <2>2. <<>> \in Seq(1 .. k)
      BY EmptySeq
    <2> QED
      BY <2>1, <2>2 DEF LogOf, Good, Again
  <1>5. /\ logs \in Seq(LogOf(k)) /\ Len(logs) = k /\ DOMAIN logs = 1 .. k
        /\ \A l \in 1 .. k : logs[l] = log(l)
    <2> HIDE DEF log
    <2> QED
      BY <1>2, <1>3, <1>4
  <1>6. \A l \in DOMAIN logs : /\ logs[l].live /\ ~logs[l].lapse /\ ~logs[l].seed
                               /\ logs[l].before = <<>> /\ logs[l].card = K[l]
    BY <1>5
  <1>7. \A c : Live(c) = {l \in DOMAIN logs : logs[l].card = c} /\ Lapsed(c) = {}
    BY <1>6 DEF Live, Lapsed
  <1>8. ASSUME NEW c \in Cards
        PROVE  /\ c \in Known => \E l : Live(c) = {l}
               /\ c \notin Known => Live(c) = {}
    <2>1. Live(c) = {l \in 1 .. k : K[l] = c}
      BY <1>5, <1>6, <1>7
    <2>2. ASSUME c \in Known PROVE \E l : Live(c) = {l}
      <3>1. PICK l \in 1 .. k : K[l] = c
        BY <1>2, <2>2
      <3>2. Live(c) = {l}
        BY <1>2, <2>1, <3>1
      <3> QED
        BY <3>2
    <2>3. c \notin Known => Live(c) = {}
      BY <1>4, <2>1
    <2> QED
      BY <2>2, <2>3
  <1> QED
    BY <1>2, <1>4, <1>5, <1>6, <1>7, <1>8

(* The types hold at the start, ...                                        *)
LEMMA InitTypes == Init => TypeInv
  <1> SUFFICES ASSUME Init PROVE TypeInv
    OBVIOUS
  <1> DEFINE n == Len(logs)
             start(c) == [memory |-> SetToSeq({l \in DOMAIN logs : logs[l].card = c}),
                          reps |-> IF c \in Known THEN 1 ELSE 0,
                          lapses |-> 0, suspended |-> FALSE, due |-> TRUE]
  <1>1. n \in Nat /\ logs \in Seq(LogOf(n)) /\ DOMAIN logs = 1 .. n
    BY InitLogs
  <1>2. cards = [c \in Cards |-> start(c)]
    BY DEF Init
  <1>3. ASSUME NEW c \in Cards
        PROVE  /\ start(c) \in CardOf(n) /\ start(c).reps = Cardinality(Live(c))
               /\ start(c).lapses = Cardinality(Lapsed(c))
    <2> DEFINE m == SetToSeq({l \in DOMAIN logs : logs[l].card = c})
    <2>1. m = SetToSeq(Live(c)) /\ Live(c) \in SUBSET (1 .. n)
      <3>1. Live(c) = {l \in DOMAIN logs : logs[l].card = c}
        BY InitLogs
      <3> QED
        BY <1>1, <3>1
    <2>2. IsFiniteSet(Live(c))
      <3>1. IsFiniteSet(1 .. n)
        BY <1>1, FS_Interval
      <3> QED
        BY <2>1, <3>1, FS_Subset
    <2>3. m \in Seq(Live(c))
      BY <2>1, <2>2, SetToSeqIs
    <2>4. m \in Seq(1 .. n)
      BY <2>1, <2>3, SeqMonotonic
    <2>5. Cardinality(Live(c)) = IF c \in Known THEN 1 ELSE 0
      <3>1. CASE c \in Known
        <4>1. PICK l : Live(c) = {l}
          BY <3>1, InitLogs
        <4>2. Cardinality({l}) = 1
          BY FS_Singleton
        <4> QED
          BY <3>1, <4>1, <4>2
      <3>2. CASE c \notin Known
        BY <3>2, InitLogs, FS_EmptySet
      <3> QED
        BY <3>1, <3>2
    <2>6. Cardinality(Lapsed(c)) = 0
      BY InitLogs, FS_EmptySet
    <2> HIDE DEF m
    <2>7. start(c) = [memory |-> m, reps |-> IF c \in Known THEN 1 ELSE 0,
                      lapses |-> 0, suspended |-> FALSE, due |-> TRUE]
      BY DEF m
    <2> QED
      BY <2>4, <2>5, <2>6, <2>7 DEF CardOf
  <1> HIDE DEF start
  <1>4. Reviewed
    BY <1>1, <1>2, <1>3 DEF Reviewed
  <1>5. Stored /\ Served /\ Screened
    <2>1. rows = <<>> /\ runner = NoRunner /\ wire = <<>> /\ replies = <<>>
          /\ clock = [day |-> 1, events |-> 0]
      BY DEF Init
    <2>2. Stored
      <3>1. rows \in Seq(RowOf(n)) /\ DOMAIN rows = {}
        BY <2>1, EmptySeq
      <3> QED
        BY <3>1 DEF Stored, StoredIn
    <2>3. Served
      BY <1>1, <2>1, NoRunnerServes DEF Served, None
    <2>4. Screened
      BY <2>1, EmptySeq DEF Screened
    <2> QED
      BY <2>2, <2>3, <2>4
  <1> QED
    BY <1>4, <1>5 DEF TypeInv
-----------------------------------------------------------------------------
(* Every step keeps the types and leaves the closed rows alone.            *)
LEMMA TypeStep ==
    ASSUME TypeInv, [Next]_vars
    PROVE  TypeInv' /\ ClosedKept
  <1>1. CASE Main
    BY <1>1, RefusedKeeps, ResumeKeeps, ComposeKeeps, SessionNextKeeps, SessionAnswerKeeps,
       SessionSkipKeeps, SessionUndoKeeps, SessionFinishKeeps DEF Main
  <1>2. CASE Start \/ ReviewMore \/ Skip \/ Undo \/ Receive
               \/ \E rating \in {Again, Good} : Grade(rating)
    BY <1>2, ScreenKeeps
  <1>3. CASE Crash \/ CrashInAnswer \/ CrashInUndo
    BY <1>3, CrashesKeep
  <1>4. CASE NewDay
    BY <1>4, NewDayKeeps
  <1>5. CASE (\E c \in Cards : Seed(c)) \/ (\E l \in DOMAIN logs : Unseed(l))
    BY <1>5, SeedsKeep
  <1>6. CASE UNCHANGED vars
    <2>1. UNCHANGED <<cards, logs, rows, runner, wire, replies, clock>>
      BY <1>6 DEF vars
    <2>2. Reviewed' /\ Stored' /\ Served' /\ ClosedKept
      BY <2>1, AllStand
    <2> QED
      BY <2>1, <2>2 DEF TypeInv, Screened
  <1> QED
    BY <1>1, <1>2, <1>3, <1>4, <1>5, <1>6 DEF Next

(* ... and so always.                                                      *)
LEMMA TypeAlways == Spec => []TypeInv
  <1>1. TypeInv /\ [Next]_vars => TypeInv'
    BY TypeStep
  <1> QED
    BY <1>1, InitTypes, PTL DEF Spec

(* A runner serves the row that is open and the drill only after the main  *)
(* queue (createSessionRunner).                                            *)
THEOREM TypeCorrect == Spec => []TypeOK
  BY TypeAlways, TypeInvTypes, PTL

(* A session finished or abandoned is not written again, whatever the      *)
(* screen still has on the way (sessionFinish, abandonStale).              *)
THEOREM ClosedCorrect == Spec => ClosedStaysClosed
  <1>1. TypeInv /\ [Next]_vars => [ClosedKept]_vars
    BY TypeStep
  <1>2. [][ClosedKept]_vars => ClosedStaysClosed
    <2>1. ClosedKept <=> \A r \in DOMAIN rows : rows[r].status # "in_progress" => rows'[r] = rows[r]
      BY DEF ClosedKept
    <2> QED
      BY <2>1, PTL DEF ClosedStaysClosed
  <1> QED
    BY <1>1, <1>2, TypeAlways, PTL DEF Spec
-----------------------------------------------------------------------------
(* The history of a card.                                                  *)

(* A review counts earlier ones of its card, a seeding none, ...           *)
CountsEarlier ==
    \A l \in DOMAIN logs :
        /\ \A k \in ToSet(logs[l].before) : k < l /\ logs[k].card = logs[l].card
        /\ logs[l].seed => logs[l].before = <<>>

(* ... a card those of its own that are there, or were a seeding, ...      *)
Memories ==
    \A c \in Cards : \A k \in ToSet(cards[c].memory) :
        logs[k].card = c /\ (logs[k].live \/ logs[k].seed)

(* ... and, unless one was overtaken, each counts all those before it that *)
(* are there.                                                              *)
Ordered ==
    \A c \in Cards : ~Overtaken(c) =>
        /\ Replays(cards[c].memory, Live(c))
        /\ \A l \in Live(c) : Replays(logs[l].before, {k \in Live(c) : k < l})

History == CountsEarlier /\ Memories /\ Ordered

(* A review can be taken back when what was before it is there, or was a   *)
(* seeding.                                                                *)
Solid(l, table) == \A s \in ToSet(table[l].before) : table[s].live \/ table[s].seed

(* The answers of a session are in the order of the log, and can be taken  *)
(* back.                                                                   *)
Sound(outcomes, table) ==
    /\ \A i \in DOMAIN outcomes :
          LET l == outcomes[i].log
          IN  l # None /\ table[l].live => Solid(l, table)
    /\ \A i, j \in DOMAIN outcomes :
          i < j /\ outcomes[i].log # None /\ outcomes[j].log # None
            => outcomes[i].log < outcomes[j].log

(* Those of the session that is open are, in its row as in the runner.     *)
Recalled ==
    /\ \A r \in DOMAIN rows : IsOpen(r) => Sound(rows[r].progress.outcomes, logs)
    /\ runner.row # None => rows[runner.row].progress.outcomes = runner.progress.outcomes

HistInv == TypeInv /\ History /\ Recalled

(* What the log and the cards refer to is in the log.                      *)
LEMMA InTheLog ==
    ASSUME Reviewed
    PROVE  /\ Len(logs) \in Nat /\ DOMAIN logs = 1 .. Len(logs)
           /\ \A l \in DOMAIN logs :
                 /\ logs[l] \in LogOf(Len(logs)) /\ logs[l].card \in Cards
                 /\ logs[l].before \in Seq(1 .. Len(logs))
                 /\ ToSet(logs[l].before) \subseteq 1 .. Len(logs)
           /\ \A c \in Cards :
                 /\ cards[c] \in CardOf(Len(logs)) /\ cards[c].memory \in Seq(1 .. Len(logs))
                 /\ ToSet(cards[c].memory) \subseteq 1 .. Len(logs)
  <1>1. Len(logs) \in Nat /\ DOMAIN logs = 1 .. Len(logs)
    BY DEF Reviewed
  <1>2. ASSUME NEW l \in DOMAIN logs
        PROVE  /\ logs[l] \in LogOf(Len(logs)) /\ logs[l].card \in Cards
               /\ logs[l].before \in Seq(1 .. Len(logs))
    <2>1. logs[l] \in LogOf(Len(logs))
      BY DEF Reviewed
    <2> QED
      BY <2>1 DEF LogOf
  <1>3. ASSUME NEW c \in Cards
        PROVE  cards[c] \in CardOf(Len(logs)) /\ cards[c].memory \in Seq(1 .. Len(logs))
    <2>1. cards[c] \in CardOf(Len(logs))
      BY DEF Reviewed
    <2> QED
      BY <2>1 DEF CardOf
  <1>4. \A s \in Seq(1 .. Len(logs)) : ToSet(s) \subseteq 1 .. Len(logs)
    BY DEF ToSet
  <1> QED
    BY <1>1, <1>2, <1>3, <1>4

(* One more review at the end replays.                                     *)
LEMMA ReplayMore ==
    ASSUME NEW n \in Nat, NEW s \in Seq(1 .. n), NEW R, Replays(s, R)
    PROVE  Replays(Append(s, n + 1), R \cup {n + 1})
  <1> DEFINE t == Append(s, n + 1)
             m == Len(s) + 1
  <1>1. /\ DOMAIN t = 1 .. m /\ t[m] = n + 1 /\ Len(s) \in Nat /\ DOMAIN s = 1 .. Len(s)
        /\ \A i \in 1 .. Len(s) : t[i] = s[i] /\ s[i] \in 1 .. n
    OBVIOUS
  <1> HIDE DEF t
  <1>2. ToSet(t) = R \cup {n + 1}
    <2>1. ToSet(s) = R
      BY DEF Replays
    <2>2. ASSUME NEW x \in ToSet(t) PROVE x \in R \cup {n + 1}
      BY <1>1, <2>1, <2>2 DEF ToSet
    <2>3. ASSUME NEW x \in R PROVE x \in ToSet(t)
      <3>1. PICK i \in 1 .. Len(s) : s[i] = x
        BY <1>1, <2>1 DEF ToSet
      <3>2. i \in DOMAIN t /\ t[i] = x
        BY <1>1, <3>1
      <3> QED
        BY <3>2 DEF ToSet
    <2>4. n + 1 \in ToSet(t)
      <3>1. m \in DOMAIN t
        BY <1>1
      <3> QED
        BY <1>1, <3>1 DEF ToSet
    <2> QED
      BY <2>2, <2>3, <2>4
  <1>3. ASSUME NEW i \in DOMAIN t, NEW j \in DOMAIN t, i < j
        PROVE  t[i] < t[j]
    <2>1. i \in 1 .. Len(s) /\ t[i] = s[i] /\ s[i] \in 1 .. n
      BY <1>1, <1>3
    <2>2. CASE j = m
      BY <1>1, <2>1, <2>2
    <2>3. CASE j # m
      <3>1. j \in 1 .. Len(s) /\ t[j] = s[j]
        BY <1>1, <2>3
      <3> QED
        BY <1>1, <1>3, <2>1, <3>1 DEF Replays
    <2> QED
      BY <2>2, <2>3
  <1> QED
    BY <1>2, <1>3 DEF Replays, t

(* A card reviewed counts the review, and can be taken back to what it     *)
(* was.                                                                    *)
LEMMA ReviewHistory ==
    ASSUME Reviewed, History, NEW c \in Cards, NEW rating, NEW seed \in BOOLEAN,
           seed => cards[c].memory = <<>>, Review(c, rating, seed)
    PROVE  /\ History'
           /\ \A os \in Seq(OutcomeOf(Len(logs))) : Sound(os, logs) =>
                 /\ Sound(os, logs')
                 /\ \A d : Sound(Append(os, Outcome(d, Len(logs) + 1)), logs')
  <1> DEFINE n == Len(logs)
             m == n + 1
             memory == cards[c].memory
  <1>1. /\ n \in Nat /\ DOMAIN logs = 1 .. n
        /\ \A l \in DOMAIN logs : /\ logs[l].card \in Cards /\ ToSet(logs[l].before) \subseteq 1 .. n
                                  /\ logs[l].before \in Seq(1 .. n)
        /\ \A d \in Cards :
              cards[d].memory \in Seq(1 .. n) /\ ToSet(cards[d].memory) \subseteq 1 .. n
    BY InTheLog
  <1>2. /\ DOMAIN logs' = 1 .. m /\ \A l \in 1 .. n : logs'[l] = logs[l]
        /\ logs'[m].card = c /\ logs'[m].before = memory /\ logs'[m].live /\ logs'[m].seed = seed
    <2> DEFINE new == [card |-> c, rating |-> rating, before |-> memory,
                       lapse |-> Lapses(c, rating), live |-> TRUE, seed |-> seed]
    <2>1. logs' = Append(logs, new)
      BY DEF Review
    <2>2. logs \in Seq(LogOf(n))
      BY DEF Reviewed
    <2>3. /\ new.card = c /\ new.before = memory /\ new.live /\ new.seed = seed
      OBVIOUS
    <2> HIDE DEF new
    <2>4. logs \in Seq(LogOf(n) \cup {new})
      BY <2>2, SeqMonotonic
    <2>5. /\ DOMAIN logs' = 1 .. m /\ \A l \in 1 .. n : logs'[l] = logs[l]
          /\ logs'[m] = new
      BY <1>1, <2>1, <2>4, AppendProperties
    <2> QED
      BY <2>3, <2>5
  <1>3. /\ cards'[c].memory = Append(memory, m)
        /\ \A d \in Cards : d # c => cards'[d].memory = cards[d].memory
    BY DEF Review, Reviewed
  <1> HIDE DEF n, m, memory
  <1>4. Len(logs) = n /\ m = n + 1 /\ memory = cards[c].memory /\ memory \in Seq(1 .. n)
        /\ m \notin 1 .. n /\ 1 .. m = 1 .. n \cup {m}
    BY <1>1 DEF n, m, memory
  <1>5. CountsEarlier'
    <2> SUFFICES ASSUME NEW l \in 1 .. m
                 PROVE  /\ \A k \in ToSet(logs'[l].before) : k < l /\ logs'[k].card = logs'[l].card
                        /\ logs'[l].seed => logs'[l].before = <<>>
      BY <1>2 DEF CountsEarlier
    <2>1. CASE l \in 1 .. n
      BY <1>1, <1>2, <2>1 DEF History, CountsEarlier
    <2>2. CASE l = m
      <3>1. \A k \in ToSet(memory) : k \in 1 .. n /\ logs[k].card = c
        BY <1>1, <1>4 DEF History, Memories
      <3>2. \A k \in 1 .. n : k < m
        BY <1>1, <1>4
      <3> QED
        BY <1>2, <1>4, <2>2, <3>1, <3>2
    <2> QED
      BY <1>4, <2>1, <2>2
  <1>6. Memories'
    <2> SUFFICES ASSUME NEW d \in Cards, NEW k \in ToSet(cards'[d].memory)
                 PROVE  logs'[k].card = d /\ (logs'[k].live \/ logs'[k].seed)
      BY DEF Memories
    <2>1. CASE k \in ToSet(cards[d].memory)
      BY <1>1, <1>2, <2>1 DEF History, Memories
    <2>2. CASE k \notin ToSet(cards[d].memory)
      <3>1. d = c
        BY <1>3, <2>2
      <3>2. ToSet(Append(memory, m)) \subseteq ToSet(memory) \cup {m}
        BY <1>4 DEF ToSet
      <3> QED
        BY <1>2, <1>3, <1>4, <2>2, <3>1, <3>2
    <2> QED
      BY <2>1, <2>2
  <1>7. ASSUME NEW d \in Cards
        PROVE  Live(d)' = Live(d) \cup (IF d = c THEN {m} ELSE {})
    BY <1>1, <1>2, <1>4 DEF Live
  <1>8. ASSUME NEW d \in Cards, ~Overtaken(d)'
        PROVE  ~Overtaken(d)
    <2>1. ASSUME NEW l \in DOMAIN logs, NEW s \in DOMAIN logs,
                 logs[l].card = d, s \in ToSet(logs[l].before), ~logs[s].live,
                 logs[l].live \/ logs[s].seed
          PROVE  FALSE
      <3>1. l \in DOMAIN logs' /\ s \in DOMAIN logs' /\ logs'[l] = logs[l] /\ logs'[s] = logs[s]
        BY <1>1, <1>2, <1>4
      <3>2. Overtaken(d)'
        BY <2>1, <3>1 DEF Overtaken
      <3> QED
        BY <1>8, <3>2
    <2> QED
      BY <2>1 DEF Overtaken
  <1>9. Ordered'
    <2> SUFFICES ASSUME NEW d \in Cards, ~Overtaken(d)'
                 PROVE  /\ Replays(cards'[d].memory, Live(d)')
                        /\ \A l \in Live(d)' :
                              Replays(logs'[l].before, {k \in Live(d)' : k < l})
      BY DEF Ordered
    <2>1. /\ Replays(cards[d].memory, Live(d))
          /\ \A l \in Live(d) : Replays(logs[l].before, {k \in Live(d) : k < l})
      BY <1>8 DEF History, Ordered
    <2>2. Live(d) \subseteq 1 .. n
      BY <1>1 DEF Live
    <2>3. CASE d # c
      BY <1>2, <1>3, <1>7, <2>1, <2>2, <2>3
    <2>4. CASE d = c
      <3>1. Live(c)' = Live(c) \cup {m}
        BY <1>7
      <3>2. Replays(cards'[c].memory, Live(c)')
        BY <1>1, <1>3, <1>4, <2>1, <2>4, <3>1, ReplayMore
      <3>3. ASSUME NEW l \in Live(c)
            PROVE  Replays(logs'[l].before, {k \in Live(c)' : k < l})
        <4>1. {k \in Live(c)' : k < l} = {k \in Live(c) : k < l}
          BY <1>1, <1>4, <2>2, <2>4, <3>1
        <4> QED
          BY <1>2, <2>1, <2>2, <2>4, <4>1
      <3>4. Replays(logs'[m].before, {k \in Live(c)' : k < m})
        <4>1. {k \in Live(c)' : k < m} = Live(c)
          BY <1>1, <1>4, <2>2, <2>4, <3>1
        <4> QED
          BY <1>2, <1>4, <2>1, <2>4, <4>1
      <3> QED
        BY <2>4, <3>1, <3>2, <3>3, <3>4
    <2> QED
      BY <2>3, <2>4
  <1>10. ASSUME NEW os \in Seq(OutcomeOf(n)), Sound(os, logs)
         PROVE  Sound(os, logs') /\ \A d : Sound(Append(os, Outcome(d, m)), logs')
    <2>0. /\ Len(os) \in Nat /\ DOMAIN os = 1 .. Len(os)
          /\ \A i \in DOMAIN os : os[i].log \in 0 .. n /\ (os[i].log # None => os[i].log \in 1 .. n)
      <3>1. \A i \in DOMAIN os : os[i] \in OutcomeOf(n)
        OBVIOUS
      <3> QED
        BY <1>1, <3>1 DEF OutcomeOf, None
    <2>1. ASSUME NEW l \in 1 .. n, logs[l].live => Solid(l, logs), logs'[l].live
          PROVE  Solid(l, logs')
      BY <1>1, <1>2, <2>1 DEF Solid
    <2>2. Sound(os, logs')
      BY <1>2, <2>0, <2>1, <1>10 DEF Sound
    <2>3. Solid(m, logs')
      BY <1>1, <1>2, <1>4 DEF Solid, History, Memories
    <2>4. ASSUME NEW d
          PROVE  Sound(Append(os, Outcome(d, m)), logs')
      <3> DEFINE t == Append(os, Outcome(d, m))
                 e == Len(os) + 1
      <3>1. Outcome(d, m).log = m
        BY DEF Outcome
      <3>2. /\ DOMAIN t = 1 .. e /\ t[e].log = m /\ \A i \in 1 .. Len(os) : t[i] = os[i]
        BY <2>0, <3>1
      <3> HIDE DEF t
      <3>3. ASSUME NEW i \in DOMAIN t, t[i].log # None, logs'[t[i].log].live
            PROVE  Solid(t[i].log, logs')
        <4>1. CASE i = e
          BY <2>3, <3>2, <4>1
        <4>2. CASE i # e
          <5>1. i \in DOMAIN os /\ t[i] = os[i]
            BY <2>0, <3>2, <4>2
          <5> QED
            BY <2>2, <3>3, <5>1 DEF Sound
        <4> QED
          BY <4>1, <4>2
      <3>4. ASSUME NEW i \in DOMAIN t, NEW j \in DOMAIN t, i < j, t[i].log # None, t[j].log # None
            PROVE  t[i].log < t[j].log
        <4>1. i \in DOMAIN os /\ t[i] = os[i]
          BY <2>0, <3>2, <3>4
        <4>2. CASE j = e
          BY <1>1, <1>4, <2>0, <3>2, <3>4, <4>1, <4>2
        <4>3. CASE j # e
          <5>1. j \in DOMAIN os /\ t[j] = os[j]
            BY <2>0, <3>2, <4>3
          <5> QED
            BY <2>2, <3>4, <4>1, <5>1 DEF Sound
        <4> QED
          BY <4>2, <4>3
      <3> QED
        BY <3>3, <3>4 DEF Sound, t
    <2> QED
      BY <2>2, <2>4
  <1> QED
    BY <1>5, <1>6, <1>9, <1>10 DEF History, n, m

(* The memory states and the log as they were.                             *)
LEMMA HistoryStands ==
    ASSUME History, logs' = logs, \A c \in Cards : cards'[c].memory = cards[c].memory
    PROVE  History'
  <1>1. \A d : Live(d)' = Live(d) /\ (Overtaken(d)' <=> Overtaken(d))
    BY DEF Live, Overtaken
  <1>2. CountsEarlier'
    BY DEF History, CountsEarlier
  <1>3. Memories'
    BY DEF History, Memories
  <1>4. Ordered'
    BY <1>1 DEF History, Ordered
  <1> QED
    BY <1>2, <1>3, <1>4 DEF History

(* A review taken back is one that can be: the card is what it was before, *)
(* unless a later review was overtaken.  Answers of an open session that   *)
(* are not after it can still be taken back.                               *)
LEMMA UndoHistory ==
    ASSUME Reviewed, History, NEW l \in DOMAIN logs, UndoReview(l),
           logs[l].live => Solid(l, logs)
    PROVE  /\ History'
           /\ \A os \in Seq(OutcomeOf(Len(logs))) :
                 /\ Sound(os, logs)
                 /\ logs[l].seed \/ \A i \in DOMAIN os : os[i].log <= l
                 => Sound(os, logs')
  <1> DEFINE n == Len(logs)
  <1>0. PICK c : c = logs[l].card
    OBVIOUS
  <1>1. /\ n \in Nat /\ DOMAIN logs = 1 .. n /\ c \in Cards
        /\ \A k \in DOMAIN logs : /\ logs[k] \in LogOf(n) /\ logs[k].card \in Cards
                                  /\ ToSet(logs[k].before) \subseteq 1 .. n
        /\ \A d \in Cards : ToSet(cards[d].memory) \subseteq 1 .. n
    BY <1>0, InTheLog
  <1>2. CASE ~logs[l].live
    <2>1. logs' = logs /\ cards' = cards
      BY <1>2 DEF UndoReview, Undoable
    <2>2. History'
      BY <2>1, HistoryStands
    <2> QED
      BY <2>1, <2>2
  <1>3. CASE logs[l].live
    <2>1. /\ DOMAIN logs' = 1 .. n /\ ~logs'[l].live
          /\ \A k \in 1 .. n : /\ logs'[k].card = logs[k].card /\ logs'[k].before = logs[k].before
                               /\ logs'[k].seed = logs[k].seed
                               /\ k # l => logs'[k] = logs[k]
      <3>1. logs' = [logs EXCEPT ![l].live = FALSE]
        BY <1>3 DEF UndoReview, Undoable
      <3> QED
        BY <1>1, <3>1 DEF LogOf
    <2>2. /\ cards'[c].memory = logs[l].before
          /\ \A d \in Cards : d # c => cards'[d].memory = cards[d].memory
      <3> DEFINE restored == [cards[c] EXCEPT !.memory = logs[l].before, !.reps = @ - 1,
                                !.lapses = @ - IF logs[l].lapse THEN 1 ELSE 0, !.due = TRUE]
      <3>1. cards' = [cards EXCEPT ![c] = restored]
        BY <1>0, <1>3 DEF UndoReview, Undoable
      <3>2. restored.memory = logs[l].before
        BY <1>1 DEF Reviewed, CardOf
      <3> QED
        BY <1>1, <3>1, <3>2 DEF Reviewed
    <2>3. Solid(l, logs)
      BY <1>3
    <2> HIDE DEF n
    <2>4. /\ c = logs[l].card /\ n = Len(logs) /\ l \in 1 .. n
          /\ \A k \in ToSet(logs[l].before) : k \in 1 .. n /\ k < l /\ logs[k].card = c
      BY <1>0, <1>1 DEF n, History, CountsEarlier
    <2>5. CountsEarlier'
      <3> SUFFICES ASSUME NEW x \in 1 .. n
                   PROVE  /\ \A k \in ToSet(logs'[x].before) : k < x /\ logs'[k].card = logs'[x].card
                          /\ logs'[x].seed => logs'[x].before = <<>>
        BY <2>1 DEF CountsEarlier
      <3> QED
        BY <1>1, <2>1 DEF History, CountsEarlier
    <2>6. Memories'
      <3> SUFFICES ASSUME NEW d \in Cards, NEW k \in ToSet(cards'[d].memory)
                   PROVE  logs'[k].card = d /\ (logs'[k].live \/ logs'[k].seed)
        BY DEF Memories
      <3>1. CASE d = c
        <4>1. k \in ToSet(logs[l].before)
          BY <2>2, <3>1
        <4>2. k \in 1 .. n /\ k # l /\ logs[k].card = c /\ (logs[k].live \/ logs[k].seed)
          BY <1>1, <2>3, <2>4, <4>1 DEF Solid
        <4> QED
          BY <2>1, <3>1, <4>2
      <3>2. CASE d # c
        <4>1. k \in 1 .. n /\ logs[k].card = d /\ (logs[k].live \/ logs[k].seed)
          BY <1>1, <2>2, <3>2 DEF History, Memories
        <4>2. k # l
          BY <2>4, <3>2, <4>1
        <4> QED
          BY <2>1, <4>1, <4>2
      <3> QED
        BY <3>1, <3>2
    <2>7. ASSUME NEW d \in Cards
          PROVE  Live(d)' = Live(d) \ {l} /\ Live(d) \subseteq 1 .. n /\ (d # c => l \notin Live(d))
      BY <1>1, <2>1, <2>4 DEF Live
    <2>8. ASSUME NEW d \in Cards, ~Overtaken(d)'
          PROVE  ~Overtaken(d)
      <3>1. ASSUME NEW x \in DOMAIN logs, NEW s \in DOMAIN logs,
                   logs[x].card = d, s \in ToSet(logs[x].before), ~logs[s].live,
                   logs[x].live \/ logs[s].seed
            PROVE  FALSE
        <4>1. x \in 1 .. n /\ s \in 1 .. n /\ s # l
          BY <1>1, <1>3, <3>1
        <4>2. ~logs'[s].live /\ logs'[x].card = d /\ s \in ToSet(logs'[x].before)
          BY <2>1, <3>1, <4>1
        <4>3. logs'[x].live \/ logs'[s].seed
          <5>1. CASE x = l
            BY <2>1, <2>3, <3>1, <4>1, <5>1 DEF Solid
          <5>2. CASE x # l
            BY <2>1, <3>1, <4>1, <5>2
          <5> QED
            BY <5>1, <5>2
        <4>4. Overtaken(d)'
          BY <2>1, <4>1, <4>2, <4>3 DEF Overtaken
        <4> QED
          BY <2>8, <4>4
      <3> QED
        BY <3>1 DEF Overtaken
    <2>9. Ordered'
      <3> SUFFICES ASSUME NEW d \in Cards, ~Overtaken(d)'
                   PROVE  /\ Replays(cards'[d].memory, Live(d)')
                          /\ \A x \in Live(d)' :
                                Replays(logs'[x].before, {k \in Live(d)' : k < x})
        BY DEF Ordered
      <3>1. /\ Replays(cards[d].memory, Live(d))
            /\ \A x \in Live(d) : Replays(logs[x].before, {k \in Live(d) : k < x})
        BY <2>8 DEF History, Ordered
      <3>2. CASE d # c
        <4>1. Live(d)' = Live(d) /\ cards'[d].memory = cards[d].memory
          BY <2>2, <2>7, <3>2
        <4> QED
          BY <2>1, <2>7, <3>1, <4>1
      <3>3. CASE d = c
        <4>1. l \in Live(c)
          BY <1>1, <1>3, <2>4 DEF Live
        <4>2. ASSUME NEW x \in Live(c), l < x
              PROVE  FALSE
          <5>1. x \in 1 .. n /\ x # l /\ logs[x].live /\ logs[x].card = c
            BY <1>1, <2>4, <2>7, <4>2 DEF Live
          <5>2. ToSet(logs[x].before) = {k \in Live(c) : k < x}
            BY <3>1, <3>3 DEF Replays
          <5>3. l \in ToSet(logs'[x].before) /\ logs'[x].live /\ logs'[x].card = c
            BY <2>1, <4>1, <4>2, <5>1, <5>2
          <5>4. Overtaken(c)'
            BY <2>1, <2>4, <5>1, <5>3 DEF Overtaken
          <5> QED
            BY <3>3, <5>4
        <4>3. \A x \in Live(c) : x # l => x < l
          BY <1>1, <2>4, <2>7, <4>2
        <4>4. Live(c)' = {k \in Live(c) : k < l}
          BY <1>1, <2>4, <2>7, <4>3
        <4>5. Replays(cards'[c].memory, Live(c)')
          BY <2>2, <3>1, <3>3, <4>1, <4>4
        <4>6. ASSUME NEW x \in Live(c)'
              PROVE  Replays(logs'[x].before, {k \in Live(c)' : k < x})
          <5>1. x \in Live(c) /\ x < l /\ x \in 1 .. n /\ l \in 1 .. n
            BY <1>1, <2>4, <2>7, <4>4
          <5>2. {k \in Live(c)' : k < x} = {k \in Live(c) : k < x}
            BY <1>1, <2>4, <2>7, <4>4, <5>1
          <5> QED
            BY <2>1, <3>1, <3>3, <5>1, <5>2
        <4> QED
          BY <3>3, <4>5, <4>6
      <3> QED
        BY <3>2, <3>3
    <2>10. ASSUME NEW os \in Seq(OutcomeOf(n)), Sound(os, logs),
                  logs[l].seed \/ \A i \in DOMAIN os : os[i].log <= l
           PROVE  Sound(os, logs')
      <3>0. \A i \in DOMAIN os : os[i].log \in 0 .. n
        <4>1. \A i \in DOMAIN os : os[i] \in OutcomeOf(n)
          OBVIOUS
        <4> QED
          BY <4>1 DEF OutcomeOf
      <3>1. ASSUME NEW i \in DOMAIN os, os[i].log # None, logs'[os[i].log].live,
                   NEW s \in ToSet(logs'[os[i].log].before)
            PROVE  logs'[s].live \/ logs'[s].seed
        <4> DEFINE x == os[i].log
        <4>1. x \in 1 .. n /\ x # l /\ logs[x].live
          BY <1>1, <2>1, <3>0, <3>1 DEF None
        <4>2. s \in ToSet(logs[x].before) /\ s \in 1 .. n /\ s < x
          BY <1>1, <2>1, <3>1, <4>1 DEF History, CountsEarlier
        <4>3. logs[s].live \/ logs[s].seed
          BY <2>10, <3>1, <4>1, <4>2 DEF Sound, Solid
        <4>4. CASE logs[l].seed
          BY <2>1, <4>2, <4>3, <4>4
        <4>5. CASE \A j \in DOMAIN os : os[j].log <= l
          <5>1. x <= l
            BY <4>5
          <5>2. s # l
            BY <1>1, <2>4, <4>1, <4>2, <5>1
          <5> QED
            BY <2>1, <4>2, <4>3, <5>2
        <4> QED
          BY <2>10, <4>4, <4>5
      <3>2. \A i \in DOMAIN os : os[i].log # None /\ logs'[os[i].log].live => Solid(os[i].log, logs')
        BY <3>1 DEF Solid
      <3> QED
        BY <2>10, <3>2 DEF Sound
    <2> QED
      BY <2>4, <2>5, <2>6, <2>9, <2>10 DEF History
  <1> QED
    BY <1>2, <1>3

(* The outcomes of a session, and of the rows.                             *)
LEMMA SessionOutcomes ==
    ASSUME TypeInv, Recalled
    PROVE  /\ Len(logs) \in Nat
           /\ \A r \in DOMAIN rows : rows[r].progress.outcomes \in Seq(OutcomeOf(Len(logs)))
           /\ runner # NoRunner =>
                 /\ runner.progress \in ProgressOf(Len(logs))
                 /\ runner.progress.outcomes \in Seq(OutcomeOf(Len(logs)))
                 /\ Sound(runner.progress.outcomes, logs)
                 /\ \A r \in DOMAIN rows : IsOpen(r) <=> r = runner.row
  <1>1. Len(logs) \in Nat /\ StoredIn(rows, Len(logs))
    BY DEF TypeInv, Reviewed, Stored
  <1>2. ASSUME NEW r \in DOMAIN rows
        PROVE  rows[r].progress.outcomes \in Seq(OutcomeOf(Len(logs)))
    <2>1. rows[r].progress \in ProgressOf(Len(logs))
      BY <1>1 DEF StoredIn, Kept
    <2> QED
      BY <2>1 DEF ProgressOf
  <1>3. ASSUME runner # NoRunner
        PROVE  /\ runner.progress \in ProgressOf(Len(logs))
               /\ runner.progress.outcomes \in Seq(OutcomeOf(Len(logs)))
               /\ Sound(runner.progress.outcomes, logs)
               /\ \A r \in DOMAIN rows : IsOpen(r) <=> r = runner.row
    <2>1. /\ Serves(runner, Len(logs)) /\ runner.row \in DOMAIN rows /\ IsOpen(runner.row)
          /\ runner.row # None
      BY <1>3, RunnerServes
    <2>2. runner.progress \in ProgressOf(Len(logs))
      BY <2>1 DEF Serves, RunnerOf
    <2>3. Sound(runner.progress.outcomes, logs)
      BY <2>1 DEF Recalled
    <2>4. \A r \in DOMAIN rows : IsOpen(r) <=> r = runner.row
      BY <1>1, <2>1 DEF StoredIn, IsOpen
    <2> QED
      BY <2>2, <2>3, <2>4 DEF ProgressOf
  <1> QED
    BY <1>1, <1>2, <1>3

(* The rows as they were, and the same session or none.                    *)
LEMMA RecalledStands ==
    ASSUME TypeInv, Recalled, UNCHANGED rows, runner' = runner \/ runner' = NoRunner,
           \A r \in DOMAIN rows : IsOpen(r) /\ Sound(rows[r].progress.outcomes, logs)
                                    => Sound(rows[r].progress.outcomes, logs')
    PROVE  Recalled'
  <1>1. NoRunner.row = None
    BY DEF NoRunner
  <1> QED
    BY <1>1 DEF Recalled, IsOpen

(* A session that goes on, in its row and in the runner.                   *)
LEMMA RecalledGoesOn ==
    ASSUME TypeInv, Recalled, NEW n \in Nat, Len(logs) <= n, runner # NoRunner,
           NEW r, r.row = runner.row, Kept(r.progress, n),
           NEW status \in {"in_progress", "completed"}, Persist(r, status),
           \/ runner'.row = runner.row /\ runner'.progress.outcomes = r.progress.outcomes
           \/ runner'.row = None,
           status = "in_progress" => Sound(r.progress.outcomes, logs')
    PROVE  Recalled'
  <1>1. /\ runner.row \in DOMAIN rows /\ IsOpen(runner.row) /\ StoredIn(rows, n) /\ runner.row # None
    BY RunnerServes, StoredGrows
  <1>2. \A q \in DOMAIN rows : IsOpen(q) <=> q = runner.row
    BY SessionOutcomes
  <1>3. /\ DOMAIN rows' = DOMAIN rows
        /\ \A q \in DOMAIN rows : q # runner.row => rows'[q] = rows[q]
        /\ rows'[runner.row].status = status /\ rows'[runner.row].progress = r.progress
    BY <1>1, PersistKeeps
  <1>4. ASSUME NEW q \in DOMAIN rows, rows'[q].status = "in_progress"
        PROVE  Sound(rows'[q].progress.outcomes, logs')
    <2>1. CASE q = runner.row
      BY <1>3, <1>4, <2>1
    <2>2. CASE q # runner.row
      BY <1>2, <1>3, <1>4, <2>2 DEF IsOpen
    <2> QED
      BY <2>1, <2>2
  <1>5. runner'.row # None => rows'[runner'.row].progress.outcomes = runner'.progress.outcomes
    BY <1>3
  <1> QED
    BY <1>3, <1>4, <1>5 DEF Recalled, IsOpen

(* A skip is an outcome of no review.                                      *)
LEMMA SkipSound ==
    ASSUME NEW n \in Nat, NEW os \in Seq(OutcomeOf(n)), NEW d, NEW table, Sound(os, table)
    PROVE  Sound(Append(os, Outcome(d, None)), table)
  <1> DEFINE t == Append(os, Outcome(d, None))
             e == Len(os) + 1
  <1>1. Outcome(d, None).log = None
    BY DEF Outcome
  <1>2. /\ DOMAIN t = 1 .. e /\ t[e].log = None /\ Len(os) \in Nat /\ DOMAIN os = 1 .. Len(os)
        /\ \A i \in 1 .. Len(os) : t[i] = os[i]
    BY <1>1
  <1> HIDE DEF t
  <1>3. \A i \in DOMAIN t : t[i].log # None => i \in DOMAIN os /\ t[i] = os[i]
    BY <1>2
  <1> QED
    BY <1>3 DEF Sound, t

(* What is taken back is the last answer of the session.                   *)
LEMMA TakenBackHistory ==
    ASSUME HistInv, runner # NoRunner, TakenBack
    PROVE  History' /\ Sound(runner.progress.outcomes, logs')
  <1> DEFINE n == Len(logs)
             os == runner.progress.outcomes
             at == LastAnswer(runner)
  <1>1. /\ TypeInv /\ Reviewed /\ History /\ n \in Nat /\ runner.progress \in ProgressOf(n)
        /\ os \in Seq(OutcomeOf(n)) /\ Sound(os, logs) /\ DOMAIN logs = 1 .. n
    BY SessionOutcomes, InTheLog DEF HistInv, TypeInv
  <1>2. CASE at = 0
    <2>1. logs' = logs /\ cards' = cards
      BY <1>2 DEF TakenBack
    <2> QED
      BY <1>1, <2>1, HistoryStands
  <1>3. CASE at # 0
    <2> DEFINE l == os[at].log
    <2>1. /\ at \in 1 .. Len(os) /\ l # None
          /\ \A i \in at + 1 .. Len(os) : os[i].log = None
      BY <1>1, <1>3, LastAnswerIs
    <2>2. \A i \in 1 .. Len(os) : os[i].log \in 0 .. n
      <3>1. \A i \in 1 .. Len(os) : os[i] \in OutcomeOf(n)
        BY <1>1
      <3> QED
        BY <3>1 DEF OutcomeOf
    <2>3. l \in DOMAIN logs
      BY <1>1, <2>1, <2>2 DEF None
    <2>4. UndoReview(l)
      BY <1>3 DEF TakenBack
    <2>5. DOMAIN os = 1 .. Len(os) /\ Len(os) \in Nat
      BY <1>1
    <2>6. logs[l].live => Solid(l, logs)
      BY <1>1, <2>1, <2>5 DEF Sound
    <2>7. ASSUME NEW i \in DOMAIN os
          PROVE  os[i].log <= l
      <3>1. CASE os[i].log = None
        BY <2>1, <2>2, <3>1 DEF None
      <3>2. CASE os[i].log # None /\ i = at
        BY <2>1, <2>2, <3>2
      <3>3. CASE os[i].log # None /\ i # at
        <4>1. i < at
          BY <2>1, <2>5, <3>3
        <4>2. os[i].log < os[at].log
          BY <1>1, <2>1, <2>5, <3>3, <4>1 DEF Sound
        <4> QED
          BY <2>1, <2>2, <2>5, <4>2
      <3> QED
        BY <3>1, <3>2, <3>3
    <2> HIDE DEF l, os, at
    <2> QED
      BY <1>1, <2>3, <2>4, <2>6, <2>7, UndoHistory DEF os
  <1> QED
    BY <1>2, <1>3
-----------------------------------------------------------------------------
(* The steps.                                                              *)

(* An answer is the last review of its card and of its session.            *)
LEMMA AnswerHistory ==
    ASSUME HistInv, SessionAnswer
    PROVE  History' /\ Recalled'
  <1> DEFINE n == Len(logs)
             m == n + 1
             rating == Head(wire).rating
             c == Current(runner)
             g == Graded(runner, rating, m)
             os == runner.progress.outcomes
  <1>1. TypeInv /\ Reviewed /\ History /\ Recalled
    BY DEF HistInv, TypeInv
  <1>2. runner # NoRunner /\ wire # <<>> /\ c # None /\ Review(c, rating, FALSE)
    BY DEF SessionAnswer, Answers, Asked
  <1>3. /\ Serves(runner, n) /\ n \in Nat /\ c \in Cards /\ runner.row \in DOMAIN rows
        /\ rows[runner.row].status = "in_progress"
    BY <1>1, <1>2, RunnerServes
  <1>4. os \in Seq(OutcomeOf(n)) /\ Sound(os, logs)
    BY <1>1, <1>2, SessionOutcomes
  <1>5. History' /\ Sound(Append(os, Outcome(c, m)), logs')
    BY <1>1, <1>2, <1>3, <1>4, ReviewHistory
  <1>6. Serves(runner, m) /\ m \in 1 .. m /\ m \in Nat /\ n <= m
    BY <1>3, ServesGrows
  <1>7. Steps(g, m) /\ g.row = runner.row /\ g.progress.outcomes = Append(os, Outcome(c, m))
    BY <1>2, <1>6, GradedSteps
  <1>8. Persist(g, rows[runner.row].status) /\ runner' = LoadDrill(g)
    BY DEF SessionAnswer
  <1> HIDE DEF g, n, m, os, c
  <1>9. runner'.row = g.row /\ runner'.progress.outcomes = g.progress.outcomes
    BY <1>6, <1>7, <1>8, LoadDrillServes
  <1>10. Kept(g.progress, m)
    BY <1>7 DEF Steps
  <1>11. Persist(g, "in_progress")
    BY <1>3, <1>8
  <1>12. Recalled'
    BY <1>1, <1>2, <1>5, <1>6, <1>7, <1>9, <1>10, <1>11, RecalledGoesOn DEF n
  <1> QED
    BY <1>5, <1>12

(* A skip is no review.                                                    *)
LEMMA SkipHistory ==
    ASSUME HistInv, SessionSkip
    PROVE  History' /\ Recalled'
  <1> DEFINE n == Len(logs)
             s == Skipped(runner)
             os == runner.progress.outcomes
  <1>1. TypeInv /\ History /\ Recalled /\ logs' = logs /\ cards' = cards /\ runner # NoRunner
    BY DEF HistInv, SessionSkip
  <1>2. History'
    BY <1>1, HistoryStands
  <1>3. CASE Current(runner) = None
    <2>1. UNCHANGED <<rows, runner>>
      BY <1>3 DEF SessionSkip
    <2> QED
      BY <1>1, <1>2, <2>1, RecalledStands
  <1>4. CASE Current(runner) # None
    <2>1. /\ Serves(runner, n) /\ n \in Nat /\ rows[runner.row].status = "in_progress"
      BY <1>1, RunnerServes
    <2>2. os \in Seq(OutcomeOf(n)) /\ Sound(os, logs)
      BY <1>1, SessionOutcomes
    <2>3. /\ Steps(s, n) /\ s.row = runner.row
          /\ s.progress.outcomes = Append(os, Outcome(Current(runner), None))
      BY <1>4, <2>1, SkippedSteps
    <2>4. Persist(s, "in_progress") /\ runner' = LoadDrill(s)
      BY <1>4, <2>1 DEF SessionSkip
    <2> HIDE DEF s, os, n
    <2>5. Sound(s.progress.outcomes, logs')
      BY <1>1, <2>1, <2>2, <2>3, SkipSound
    <2>6. runner'.row = s.row /\ runner'.progress.outcomes = s.progress.outcomes
      BY <2>1, <2>3, <2>4, LoadDrillServes
    <2>7. Kept(s.progress, n) /\ Len(logs) <= n
      BY <2>1, <2>3 DEF Steps, n
    <2>8. Recalled'
      BY <1>1, <2>1, <2>3, <2>4, <2>5, <2>6, <2>7, RecalledGoesOn
    <2> QED
      BY <1>2, <2>8
  <1> QED
    BY <1>3, <1>4

(* What is left of the outcomes is sound.                                  *)
LEMMA SessionUndoHistory ==
    ASSUME HistInv, SessionUndo
    PROVE  History' /\ Recalled'
  <1> DEFINE n == Len(logs)
             u == Undone(runner)
             os == runner.progress.outcomes
             at == LastAnswer(runner)
             kept == SubSeq(os, 1, at - 1)
  <1>1. TypeInv /\ History /\ Recalled /\ runner # NoRunner /\ TakenBack
    BY DEF HistInv, SessionUndo, Undoes
  <1>2. History' /\ Sound(os, logs')
    BY <1>1, TakenBackHistory
  <1>3. /\ Serves(runner, n) /\ n \in Nat /\ rows[runner.row].status = "in_progress"
    BY <1>1, RunnerServes
  <1>4. os \in Seq(OutcomeOf(n)) /\ runner.progress \in ProgressOf(n)
    BY <1>1, SessionOutcomes
  <1>5. Serves(u, n) /\ u.row = runner.row /\ Kept(u.progress, n) /\ u.progress.outcomes = kept
    BY <1>3, UndoneServes, ServedIsKept
  <1>6. Persist(u, "in_progress") /\ runner' = u
    BY <1>3 DEF SessionUndo
  <1>7. Sound(kept, logs')
    <2>1. at \in 0 .. Len(os) /\ Len(os) \in Nat /\ DOMAIN os = 1 .. Len(os)
      <3>1. Len(os) \in Nat /\ DOMAIN os = 1 .. Len(os)
        BY <1>4
      <3>2. at = 0 \/ at \in 1 .. Len(os)
        BY <1>3, <1>4, LastAnswerIs
      <3> QED
        BY <3>1, <3>2
    <2>2. \A i \in DOMAIN kept : i \in DOMAIN os /\ kept[i] = os[i]
      <3> HIDE DEF at, os
      <3> QED
        BY <1>4, <2>1
    <2> HIDE DEF kept, at
    <2> QED
      BY <1>2, <2>2 DEF Sound
  <1> HIDE DEF u, os, n, kept, at
  <1>8. Len(logs) <= n
    BY <1>3 DEF n
  <1>9. Recalled'
    BY <1>1, <1>3, <1>5, <1>6, <1>7, <1>8, RecalledGoesOn
  <1> QED
    BY <1>2, <1>9

(* A session finished recalls nothing.                                     *)
LEMMA FinishHistory ==
    ASSUME HistInv, SessionFinish
    PROVE  History' /\ Recalled'
  <1> DEFINE n == Len(logs)
  <1>1. TypeInv /\ History /\ Recalled /\ runner # NoRunner /\ logs' = logs /\ cards' = cards
    BY DEF HistInv, SessionFinish
  <1>2. Serves(runner, n) /\ n \in Nat /\ n <= n
    BY <1>1, RunnerServes
  <1>3. Kept(runner.progress, n) /\ NoRunner.row = None
    BY <1>2, ServedIsKept DEF NoRunner
  <1>4. Persist(runner, "completed") /\ runner' = NoRunner
    BY DEF SessionFinish
  <1>5. Recalled'
    BY <1>1, <1>2, <1>3, <1>4, RecalledGoesOn
  <1> QED
    BY <1>1, <1>5, HistoryStands

(* A session picked up or composed recalls what its row does.              *)
LEMMA StartHistory ==
    ASSUME HistInv, Resume \/ Compose
    PROVE  History' /\ Recalled'
  <1> DEFINE n == Len(logs)
  <1>1. /\ TypeInv /\ History /\ Recalled /\ logs' = logs /\ cards' = cards
        /\ n \in Nat /\ StoredIn(rows, n)
    BY DEF HistInv, Resume, Compose, TypeInv, Stored, Reviewed
  <1>2. /\ DOMAIN Abandoned = DOMAIN rows /\ Len(Abandoned) = Len(rows)
        /\ DOMAIN rows = 1 .. Len(rows) /\ Len(rows) \in Nat /\ StoredIn(Abandoned, n)
        /\ \A r \in DOMAIN rows :
              /\ Abandoned[r].progress = rows[r].progress
              /\ Abandoned[r].status = "in_progress" => IsOpen(r)
        /\ \/ Active = 0 /\ \A r \in DOMAIN rows : Abandoned[r].status # "in_progress"
           \/ Active \in DOMAIN rows /\ Active # 0 /\ Abandoned[Active].status = "in_progress"
    <2>1. DOMAIN rows = 1 .. Len(rows) /\ Len(rows) \in Nat
      BY <1>1 DEF StoredIn
    <2> QED
      BY <1>1, <2>1, AbandonedKeeps DEF IsOpen
  <1>3. CASE Resume
    <2>1. /\ rows' = Abandoned /\ runner'.row = Active
          /\ runner'.progress = rows[Active].progress /\ Active # 0
      BY <1>3 DEF Resume
    <2>2. \A r \in DOMAIN rows' : rows'[r].status = "in_progress"
                                    => Sound(rows'[r].progress.outcomes, logs')
      BY <1>1, <1>2, <2>1 DEF Recalled
    <2>3. rows'[runner'.row].progress.outcomes = runner'.progress.outcomes
      BY <1>2, <2>1
    <2> QED
      BY <1>1, <2>2, <2>3, HistoryStands DEF Recalled, IsOpen
  <1>4. CASE Compose
    <2> DEFINE row == [status |-> "in_progress", day |-> clock.day, plan |-> Plan,
                       progress |-> NoProgress]
               m == Len(rows) + 1
    <2>1. /\ rows' = Append(Abandoned, row) /\ runner'.row = m
          /\ runner'.progress = NoProgress /\ Active = 0
      BY <1>4 DEF Compose, NoRunner
    <2>2. row.progress = NoProgress /\ row.status = "in_progress"
      OBVIOUS
    <2> HIDE DEF row
    <2>3. /\ DOMAIN rows' = 1 .. m /\ rows'[m] = row
          /\ \A r \in 1 .. Len(rows) : rows'[r] = Abandoned[r]
      <3>1. Abandoned \in Seq(RowOf(n) \cup {row})
        <4>1. Abandoned \in Seq(RowOf(n))
          BY <1>2 DEF StoredIn
        <4> QED
          BY <4>1, SeqMonotonic
      <3> QED
        BY <1>2, <2>1, <3>1, AppendProperties
    <2>4. Sound(NoProgress.outcomes, logs')
      BY DEF Sound, NoProgress
    <2>5. ASSUME NEW r \in DOMAIN rows', rows'[r].status = "in_progress"
          PROVE  r = m
      BY <1>2, <2>1, <2>3, <2>5
    <2> QED
      BY <1>1, <2>1, <2>2, <2>3, <2>4, <2>5, HistoryStands DEF Recalled, IsOpen
  <1> QED
    BY <1>3, <1>4

(* A crash forgets the runner and nothing else.                            *)
LEMMA CrashHistory ==
    ASSUME HistInv, Crash \/ CrashInAnswer \/ CrashInUndo
    PROVE  History' /\ Recalled'
  <1> DEFINE n == Len(logs)
             os == runner.progress.outcomes
  <1>1. TypeInv /\ Reviewed /\ History /\ Recalled /\ runner # NoRunner /\ UNCHANGED rows
        /\ runner' = NoRunner
    BY DEF HistInv, TypeInv, Crash, CrashInAnswer, CrashInUndo, Down, Answers, Undoes
  <1>2. /\ os \in Seq(OutcomeOf(n)) /\ Sound(os, logs)
        /\ \A r \in DOMAIN rows : IsOpen(r) => r = runner.row
        /\ rows[runner.row].progress.outcomes = os
    BY <1>1, SessionOutcomes, RunnerServes DEF Recalled
  <1>3. History' /\ Sound(os, logs')
    <2>1. CASE Crash
      BY <1>1, <1>2, <2>1, HistoryStands DEF Crash
    <2>2. CASE CrashInAnswer
      <3>1. Current(runner) \in Cards /\ Review(Current(runner), Head(wire).rating, FALSE)
        BY <1>1, <2>2, RunnerServes DEF CrashInAnswer, Answers
      <3> QED
        BY <1>1, <1>2, <3>1, ReviewHistory
    <2>3. CASE CrashInUndo
      BY <1>1, <2>3, TakenBackHistory DEF CrashInUndo
    <2> QED
      BY <2>1, <2>2, <2>3
  <1>4. Recalled'
    BY <1>1, <1>2, <1>3, RecalledStands
  <1> QED
    BY <1>3, <1>4

(* A card is seeded when it has no memory state; a seeding can always be   *)
(* taken back.                                                             *)
LEMMA SeedHistory ==
    ASSUME HistInv,
           (\E c \in Cards : Seed(c)) \/ (\E l \in DOMAIN logs : Unseed(l))
    PROVE  History' /\ Recalled'
  <1> DEFINE n == Len(logs)
  <1>1. /\ TypeInv /\ Reviewed /\ History /\ Recalled /\ UNCHANGED <<rows, runner>>
        /\ \A r \in DOMAIN rows : rows[r].progress.outcomes \in Seq(OutcomeOf(n))
    BY SessionOutcomes DEF HistInv, TypeInv, Seed, Unseed
  <1>2. /\ History'
        /\ \A os \in Seq(OutcomeOf(n)) : Sound(os, logs) => Sound(os, logs')
    <2>1. ASSUME NEW c \in Cards, Seed(c)
          PROVE  /\ History'
                 /\ \A os \in Seq(OutcomeOf(n)) : Sound(os, logs) => Sound(os, logs')
      <3>1. cards[c].memory = <<>> /\ Review(c, Good, TRUE)
        BY <2>1 DEF Seed
      <3> QED
        BY <1>1, <3>1, ReviewHistory
    <2>2. ASSUME NEW l \in DOMAIN logs, Unseed(l)
          PROVE  /\ History'
                 /\ \A os \in Seq(OutcomeOf(n)) : Sound(os, logs) => Sound(os, logs')
      <3>1. logs[l].seed /\ UndoReview(l)
        BY <2>2 DEF Unseed
      <3>2. Solid(l, logs)
        <4>1. logs[l].before = <<>>
          BY <1>1, <3>1 DEF History, CountsEarlier
        <4> QED
          BY <4>1 DEF Solid, ToSet
      <3> QED
        BY <1>1, <3>1, <3>2, UndoHistory
    <2> QED
      BY <2>1, <2>2
  <1>3. Recalled'
    BY <1>1, <1>2, RecalledStands
  <1> QED
    BY <1>2, <1>3

(* Every step keeps the history.                                           *)
LEMMA HistoryStep ==
    ASSUME HistInv, [Next]_vars
    PROVE  HistInv'
  <1>1. TypeInv /\ History /\ Recalled /\ TypeInv'
    BY TypeStep DEF HistInv
  <1>2. CASE UNCHANGED <<cards, logs, rows, runner>>
    BY <1>1, <1>2, HistoryStands, RecalledStands DEF HistInv
  <1>3. CASE Main
    <2>1. CASE Refused \/ SessionNext
      BY <1>2, <2>1 DEF Refused, SessionNext
    <2> QED
      BY <1>1, <1>3, <2>1, AnswerHistory, SkipHistory, SessionUndoHistory, FinishHistory,
         StartHistory DEF Main, HistInv
  <1>4. CASE Start \/ ReviewMore \/ Skip \/ Undo \/ Receive
               \/ \E rating \in {Again, Good} : Grade(rating)
    BY <1>2, <1>4 DEF Start, ReviewMore, Skip, Undo, Receive, Grade
  <1>5. CASE Crash \/ CrashInAnswer \/ CrashInUndo
    BY <1>1, <1>5, CrashHistory DEF HistInv
  <1>6. CASE NewDay
    <2>1. logs' = logs /\ UNCHANGED <<rows, runner>>
      BY <1>6 DEF NewDay
    <2>2. ASSUME NEW c \in Cards
          PROVE  cards'[c].memory = cards[c].memory
      <3>1. cards'[c] = [cards[c] EXCEPT !.due = TRUE] /\ cards[c] \in CardOf(Len(logs))
        BY <1>1, <1>6 DEF NewDay, TypeInv, Reviewed
      <3> QED
        BY <3>1 DEF CardOf
    <2> QED
      BY <1>1, <2>1, <2>2, HistoryStands, RecalledStands DEF HistInv
  <1>7. CASE (\E c \in Cards : Seed(c)) \/ (\E l \in DOMAIN logs : Unseed(l))
    BY <1>1, <1>7, SeedHistory DEF HistInv
  <1>8. CASE UNCHANGED vars
    BY <1>2, <1>8 DEF vars
  <1> QED
    BY <1>3, <1>4, <1>5, <1>6, <1>7, <1>8 DEF Next

(* A card known has one review at the start, and counts it.                *)
LEMMA InitHistory == Init => HistInv
  <1> SUFFICES ASSUME Init PROVE HistInv
    OBVIOUS
  <1>1. TypeInv
    BY InitTypes
  <1>2. /\ DOMAIN logs = 1 .. Len(logs) /\ Len(logs) \in Nat
        /\ \A l \in DOMAIN logs : logs[l].live /\ ~logs[l].seed /\ logs[l].before = <<>>
        /\ \A c : Live(c) = {l \in DOMAIN logs : logs[l].card = c}
        /\ \A c \in Cards : (\E l : Live(c) = {l}) \/ Live(c) = {}
    BY InitLogs
  <1>3. ToSet(<<>>) = {}
    BY DEF ToSet
  <1>4. CountsEarlier
    BY <1>2, <1>3 DEF CountsEarlier
  <1>5. ASSUME NEW c \in Cards
        PROVE  /\ Replays(cards[c].memory, Live(c))
               /\ \A l \in Live(c) : Replays(logs[l].before, {k \in Live(c) : k < l})
    <2>1. cards[c].memory = SetToSeq(Live(c))
      <3>1. cards[c].memory = SetToSeq({l \in DOMAIN logs : logs[l].card = c})
        BY DEF Init
      <3> QED
        BY <1>2, <3>1
    <2>2. /\ IsFiniteSet(Live(c)) /\ Live(c) \subseteq 1 .. Len(logs)
          /\ Cardinality(Live(c)) \in 0 .. 1
      <3>1. Live(c) \subseteq 1 .. Len(logs)
        BY <1>2
      <3>2. CASE \E l : Live(c) = {l}
        <4>1. PICK l : Live(c) = {l}
          BY <3>2
        <4>2. IsFiniteSet({l}) /\ Cardinality({l}) = 1
          BY FS_Singleton
        <4> QED
          BY <3>1, <4>1, <4>2
      <3>3. CASE Live(c) = {}
        BY <3>1, <3>3, FS_EmptySet
      <3> QED
        BY <1>2, <3>2, <3>3
    <2> DEFINE m == SetToSeq(Live(c))
    <2>3. /\ m \in Seq(Live(c)) /\ Len(m) = Cardinality(Live(c))
          /\ \A x \in Live(c) : \E i \in 1 .. Cardinality(Live(c)) : m[i] = x
      BY <2>2, SetToSeqIs
    <2> HIDE DEF m
    <2>4. DOMAIN m = 1 .. Cardinality(Live(c)) /\ \A i \in DOMAIN m : m[i] \in Live(c)
      BY <2>3
    <2>5. ToSet(m) = Live(c)
      BY <2>3, <2>4 DEF ToSet
    <2>6. \A i, j \in DOMAIN m : i = j
      BY <2>2, <2>4
    <2>7. Replays(m, Live(c))
      <3>1. \A i, j \in DOMAIN m : ~(i < j)
        BY <2>2, <2>4
      <3> QED
        BY <2>5, <3>1 DEF Replays
    <2>8. ASSUME NEW l \in Live(c)
          PROVE  Replays(logs[l].before, {k \in Live(c) : k < l})
      <3>1. {k \in Live(c) : k < l} = {}
        <4>1. Live(c) = {l}
          BY <1>2, <2>8
        <4> QED
          BY <2>2, <4>1
      <3>2. logs[l].before = <<>>
        BY <1>2, <2>2
      <3> QED
        BY <1>3, <3>1, <3>2 DEF Replays
    <2> QED
      BY <2>1, <2>7, <2>8 DEF m
  <1>6. Memories
    <2> SUFFICES ASSUME NEW c \in Cards, NEW k \in ToSet(cards[c].memory)
                 PROVE  logs[k].card = c /\ logs[k].live
      BY DEF Memories
    <2>1. k \in Live(c)
      BY <1>5 DEF Replays
    <2> QED
      BY <2>1 DEF Live
  <1>7. rows = <<>> /\ runner.row = None
    BY DEF Init, NoRunner
  <1>8. Recalled
    BY <1>7 DEF Recalled
  <1> QED
    BY <1>1, <1>4, <1>5, <1>6, <1>8 DEF HistInv, History, Ordered

(* So it is always kept.                                                   *)
LEMMA HistoryAlways == Spec => []HistInv
  <1>1. HistInv /\ [Next]_vars => HistInv'
    BY HistoryStep
  <1> QED
    BY <1>1, InitHistory, PTL DEF Spec

(* A card is its history: its counts are those of the reviews that are     *)
(* there, and its memory state replays them unless one was taken back from *)
(* under a later one (reviewCard, createUndoReview, createUnseedItems).    *)
THEOREM HistoryCorrect == Spec => []CardIsItsHistory
  <1>1. HistInv => CardIsItsHistory
    BY DEF HistInv, TypeInv, Reviewed, History, Ordered, Lapsed, CardIsItsHistory
  <1> QED
    BY <1>1, HistoryAlways, PTL
=============================================================================
