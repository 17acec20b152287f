----------------------------- MODULE TimingProofs -----------------------------
(***************************************************************************)
(* lib_timing.c for any size.  First the arrays of results, for any number *)
(* of children, any number of repetitions and whatever is measured: no     *)
(* value is lost or counted twice, the arrays stay sorted and within their *)
(* slots, and the median is a middle element.  Then the calibration, for   *)
(* any intervals, any noise and any number of calls: whichever function is *)
(* called first, get_enough(), t_overhead() and l_overhead() call one      *)
(* another through init_timing(), and still each of them measures once and *)
(* the caller finds its own results again.                                 *)
(***************************************************************************)
EXTENDS Integers, Sequences, FiniteSets, FiniteSetTheorems, TLAPS

CONSTANTS
    Tries, Parallel, RepRequests, LongInterval, Readings, Counts,
    Rate(_, _),                                     \* of Results
    Possibilities, Default, Noise, Calls            \* of Calibration

VARIABLES
    r_request, r_r, r_done, r_reported, r_current, r_j, r_merged, r_saved,
    k_stack, k_done, k_init, k_enough, k_overhead, k_res, k_env, k_ran,
    k_calls, k_before

Res == INSTANCE Results WITH
    Requests <- RepRequests,
    request <- r_request, r <- r_r, done <- r_done, reported <- r_reported,
    current <- r_current, j <- r_j, merged <- r_merged, saved <- r_saved

Calib == INSTANCE Calibration WITH
    stack <- k_stack, done <- k_done, init <- k_init, enough <- k_enough,
    overhead <- k_overhead, res <- k_res, env <- k_env, ran <- k_ran,
    calls <- k_calls, before <- k_before

(* What benchmp() and its callers guarantee.  The repetitions are whatever *)
(* -N gives: negative for the default, positive, or 0.                     *)
Limits ==
    /\ Parallel \in Nat \ {0} /\ Tries \in Nat \ {0}
    /\ RepRequests \subseteq Int /\ LongInterval \in BOOLEAN
    /\ Readings \subseteq Nat /\ Counts \subseteq Nat \ {0}
    /\ \A x \in Res!Values : Rate(x.u, x.n) \in Int

\* Results counts as FiniteSets does.
LEMMA SameCardinality == ASSUME NEW S PROVE Res!Cardinality(S) = Cardinality(S)
BY DEF Res!Cardinality, Cardinality

-----------------------------------------------------------------------------
(* insertsort().                                                           *)

Measured(v) == \A k \in 1 .. Len(v) : v[k].u # 0

(* w is v with x at place k.                                               *)
Inserted(w, v, x, k) ==
    /\ w \in Seq(Res!Values) /\ Len(w) = Len(v) + 1 /\ Len(v) \in Nat
    /\ \A l \in 1 .. Len(v) + 1 : w[l] = IF l < k THEN v[l] ELSE IF l = k THEN x ELSE v[l - 1]

\* insertsort() puts the value between those before and behind its slot.
LEMMA InsertShape ==
  ASSUME Limits, NEW v \in Seq(Res!Values), NEW x \in Res!Values, NEW k \in 1 .. Len(v) + 1
  PROVE  Inserted(Res!InsertAt(v, x, k), v, x, k)
<1>1. Len(v) \in Nat /\ \A l \in 1 .. Len(v) : v[l] \in Res!Values
  OBVIOUS
<1>2. \A l \in 1 .. Len(v) + 1 :
        (IF l < k THEN v[l] ELSE IF l = k THEN x ELSE v[l - 1]) \in Res!Values
  BY <1>1
<1> DEFINE w == Res!InsertAt(v, x, k)
<1>3. w \in [1 .. Len(v) + 1 -> Res!Values]
  BY <1>2 DEF Res!InsertAt
<1>4. Len(v) + 1 \in Nat /\ w \in Seq(Res!Values) /\ Len(w) = Len(v) + 1
  BY <1>1, <1>3
<1>5. \A l \in 1 .. Len(v) + 1 : w[l] = IF l < k THEN v[l] ELSE IF l = k THEN x ELSE v[l - 1]
  BY DEF Res!InsertAt
<1> QED BY <1>1, <1>4, <1>5 DEF Inserted

\* What was sorted stays sorted.
LEMMA InsertSorted ==
  ASSUME Limits, NEW v \in Seq(Res!Values), NEW x \in Res!Values, NEW k \in 1 .. Len(v) + 1,
         Res!IsSlot(v, x, k), Res!SortedDown(v)
  PROVE  Res!SortedDown(Res!InsertAt(v, x, k))
<1> DEFINE w == Res!InsertAt(v, x, k)
           rate(y) == Rate(y.u, y.n)
<1>1. /\ w \in Seq(Res!Values) /\ Len(w) = Len(v) + 1 /\ Len(v) \in Nat
      /\ \A l \in 1 .. Len(v) + 1 : w[l] = IF l < k THEN v[l] ELSE IF l = k THEN x ELSE v[l - 1]
  <2>1. Inserted(w, v, x, k)
    BY InsertShape
  <2> HIDE DEF w
  <2> QED BY <2>1 DEF Inserted
<1>2. /\ rate(x) \in Int /\ \A l \in 1 .. Len(v) : v[l] \in Res!Values /\ rate(v[l]) \in Int
  BY DEF Limits
<1>3. \A l \in 1 .. Len(v) : l < k => rate(v[l]) >= rate(x)
  BY <1>2 DEF Res!IsSlot
<1>4. \A l, m \in 1 .. Len(v) : l < m => rate(v[l]) >= rate(v[m])
  BY DEF Res!SortedDown
<1>5. \A l \in 1 .. Len(v) : k <= l => rate(x) >= rate(v[l])
  <2> SUFFICES ASSUME NEW l \in 1 .. Len(v), k <= l PROVE rate(x) >= rate(v[l])
    OBVIOUS
  <2>1. k \in 1 .. Len(v) /\ rate(x) > rate(v[k])
    BY DEF Res!IsSlot
  <2>2. k = l \/ rate(v[k]) >= rate(v[l])
    BY <2>1, <1>4
  <2> HIDE DEF rate
  <2> QED BY <2>1, <2>2, <1>2
<1>6. \A l, m \in 1 .. Len(w) : l < m => rate(w[l]) >= rate(w[m])
  <2> SUFFICES ASSUME NEW l \in 1 .. Len(v) + 1, NEW m \in 1 .. Len(v) + 1, l < m
               PROVE  rate(w[l]) >= rate(w[m])
    BY <1>1
  <2> HIDE DEF rate, w
  <2>1. CASE m < k
    <3>1. w[l] = v[l] /\ w[m] = v[m] /\ l \in 1 .. Len(v) /\ m \in 1 .. Len(v)
      BY <2>1, <1>1
    <3> QED BY <3>1, <1>4
  <2>2. CASE m = k
    <3>1. w[l] = v[l] /\ w[m] = x /\ l \in 1 .. Len(v) /\ l < k
      BY <2>2, <1>1
    <3> QED BY <3>1, <1>3
  <2>3. CASE m > k /\ l < k
    <3>1. w[l] = v[l] /\ w[m] = v[m - 1] /\ m - 1 \in 1 .. Len(v) /\ l < m - 1 /\ l \in 1 .. Len(v)
      BY <2>3, <1>1
    <3> QED BY <3>1, <1>4
  <2>4. CASE l = k
    <3>1. w[l] = x /\ w[m] = v[m - 1] /\ m - 1 \in 1 .. Len(v) /\ k <= m - 1
      BY <2>4, <1>1
    <3> QED BY <3>1, <1>5
  <2>5. CASE l > k
    <3>1. /\ w[l] = v[l - 1] /\ w[m] = v[m - 1] /\ m - 1 \in 1 .. Len(v)
          /\ l - 1 \in 1 .. Len(v) /\ l - 1 < m - 1
      BY <2>5, <1>1
    <3> QED BY <3>1, <1>4
  <2> QED BY <2>1, <2>2, <2>3, <2>4, <2>5
<1> QED BY <1>6 DEF Res!SortedDown

(* Places where a value is.                                                *)
Where(v, x) == {k \in 1 .. Len(v) : v[k] = x}

\* The places of a value in an array are finitely many.
LEMMA WhereFinite ==
  ASSUME NEW v, Len(v) \in Nat, NEW x
  PROVE  IsFiniteSet(Where(v, x)) /\ Res!Count(v, x) = Cardinality(Where(v, x)) /\ Res!Count(v, x) \in Nat
<1>1. IsFiniteSet(1 .. Len(v)) /\ Where(v, x) \in SUBSET (1 .. Len(v))
  BY FS_Interval DEF Where
<1> QED BY <1>1, FS_Subset, FS_CardinalityType, SameCardinality DEF Where, Res!Count

(* An inserted value is there once more, every other one as often.         *)
LEMMA InsertCounts ==
  ASSUME Limits, NEW v \in Seq(Res!Values), NEW x \in Res!Values, NEW k \in 1 .. Len(v) + 1, NEW y
  PROVE  Res!Count(Res!InsertAt(v, x, k), y) = Res!Count(v, y) + (IF y = x THEN 1 ELSE 0)
<1> DEFINE w == Res!InsertAt(v, x, k)
           S == Where(v, y)
           T == Where(w, y) \ {k}
           f == [l \in S |-> IF l < k THEN l ELSE l + 1]
<1>1. /\ w \in Seq(Res!Values) /\ Len(w) = Len(v) + 1 /\ Len(v) \in Nat
      /\ \A l \in 1 .. Len(v) + 1 : w[l] = IF l < k THEN v[l] ELSE IF l = k THEN x ELSE v[l - 1]
  <2>1. Inserted(w, v, x, k)
    BY InsertShape
  <2> HIDE DEF w
  <2> QED BY <2>1 DEF Inserted
<1> SUFFICES Res!Count(w, y) = Res!Count(v, y) + (IF y = x THEN 1 ELSE 0)
  OBVIOUS
<1> HIDE DEF w
<1>2. f \in Bijection(S, T)
  <2>1. f \in [S -> T]
    <3> SUFFICES ASSUME NEW l \in S PROVE (IF l < k THEN l ELSE l + 1) \in T
      OBVIOUS
    <3>1. l \in 1 .. Len(v) /\ v[l] = y
      BY DEF Where
    <3> QED BY <3>1, <1>1 DEF Where
  <2>2. \A a, b \in S : f[a] = f[b] => a = b
    BY DEF Where
  <2>3. \A t \in T : \E s \in S : f[s] = t
    <3> SUFFICES ASSUME NEW t \in T PROVE \E s \in S : f[s] = t
      OBVIOUS
    <3>1. t \in 1 .. Len(v) + 1 /\ w[t] = y /\ t # k
      BY <1>1 DEF Where
    <3>2. CASE t < k
      <4>1. t \in S
        BY <3>1, <3>2, <1>1 DEF Where
      <4> QED BY <4>1, <3>2
    <3>3. CASE t > k
      <4>1. t - 1 \in S /\ ~(t - 1 < k)
        BY <3>1, <3>3, <1>1 DEF Where
      <4> QED BY <4>1, <3>1
    <3> QED BY <3>1, <3>2, <3>3
  <2> QED BY <2>1, <2>2, <2>3 DEF Bijection, Injection, IsInjective, Surjection
<1>3. IsFiniteSet(S) /\ Res!Count(v, y) = Cardinality(S) /\ Res!Count(v, y) \in Nat
  BY <1>1, WhereFinite
<1>4. IsFiniteSet(T) /\ Cardinality(T) = Cardinality(S)
  <2>1. ExistsBijection(S, T)
    BY <1>2 DEF ExistsBijection
  <2> HIDE DEF S, T
  <2> QED BY <2>1, <1>3, FS_Bijection
<1>5. Res!Count(w, y) = Cardinality(Where(w, y))
  BY <1>1, WhereFinite
<1>6. k \in 1 .. Len(w) /\ w[k] = x /\ k \notin T
  BY <1>1
<1>7. CASE y = x
  <2>1. Where(w, y) = T \cup {k}
    BY <1>6, <1>7 DEF Where
  <2> HIDE DEF S, T
  <2>2. Cardinality(T \cup {k}) = Cardinality(T) + 1
    BY <1>4, <1>6, FS_AddElement
  <2> QED BY <2>1, <2>2, <1>3, <1>4, <1>5, <1>7
<1>8. CASE y # x
  <2>1. Where(w, y) = T
    BY <1>6, <1>8 DEF Where
  <2> HIDE DEF S, T
  <2> QED BY <2>1, <1>3, <1>4, <1>5, <1>8
<1> QED BY <1>7, <1>8

(* All of it, of whatever insertsort() returns.                            *)
LEMMA Inserts ==
  ASSUME Limits, NEW v \in Seq(Res!Values), NEW x \in Res!Values, NEW w \in Res!Insertsort(v, x),
         Res!SortedDown(v), Measured(v)
  PROVE  /\ w \in Seq(Res!Values) /\ Res!SortedDown(w) /\ Measured(w)
         /\ x.u = 0 => w = v
         /\ x.u # 0 => Len(w) = Len(v) + 1
         /\ x.u # 0 => \A y : Res!Count(w, y) = Res!Count(v, y) + (IF y = x THEN 1 ELSE 0)
<1>1. CASE x.u = 0
  BY <1>1 DEF Res!Insertsort
<1>2. CASE x.u # 0
  <2>1. PICK k \in 1 .. Len(v) + 1 : Res!IsSlot(v, x, k) /\ w = Res!InsertAt(v, x, k)
    BY <1>2 DEF Res!Insertsort
  <2>2. /\ w \in Seq(Res!Values) /\ Len(w) = Len(v) + 1 /\ Len(v) \in Nat
        /\ \A l \in 1 .. Len(v) + 1 : w[l] = IF l < k THEN v[l] ELSE IF l = k THEN x ELSE v[l - 1]
    <3>1. Inserted(w, v, x, k)
      BY <2>1, InsertShape
    <3> QED BY <3>1 DEF Inserted
  <2>3. Measured(w)
    <3> SUFFICES ASSUME NEW l \in 1 .. Len(v) + 1 PROVE w[l].u # 0
      BY <2>2 DEF Measured
    <3>1. \A m \in 1 .. Len(v) : v[m].u # 0
      BY DEF Measured
    <3>2. (l < k => l \in 1 .. Len(v)) /\ (l > k => l - 1 \in 1 .. Len(v))
      BY <2>2
    <3>3. w[l] = IF l < k THEN v[l] ELSE IF l = k THEN x ELSE v[l - 1]
      BY <2>2
    <3> QED BY <3>1, <3>2, <3>3, <1>2
  <2>4. Res!SortedDown(w)
    BY <2>1, InsertSorted
  <2>5. \A y : Res!Count(w, y) = Res!Count(v, y) + (IF y = x THEN 1 ELSE 0)
    BY <2>1, InsertCounts
  <2> QED BY <1>2, <2>2, <2>3, <2>4, <2>5
<1> QED BY <1>1, <1>2

-----------------------------------------------------------------------------
(* The invariant.                                                          *)

(* save_median() has run after everything was merged, or not yet.          *)
SavedLast ==
    \/ r_saved = [u |-> 0, n |-> 1]
    \/ r_reported = Res!Children /\ r_current = 0 /\ r_saved = Res!Median(r_merged)

(* A child measures once even if it is asked not to.                       *)
PerChild == IF Res!Repetitions = 0 THEN 1 ELSE Res!Repetitions

ResTypes ==
    /\ r_request \in RepRequests
    /\ r_r \in [Res!Children -> Seq(Res!Values)] /\ r_done \in [Res!Children -> Nat]
    /\ r_reported \subseteq Res!Children /\ r_current \in 0 .. Parallel /\ r_j \in Nat
    /\ r_merged \in Seq(Res!Values)

Shape == /\ Res!BiggestToSmallest
         /\ Measured(r_merged) /\ \A c \in Res!Children : Measured(r_r[c])

(* A child has at most one result per interval, and no more intervals than *)
(* it makes; all have stopped when the first one is asked.                 *)
Recorded ==
    /\ \A c \in Res!Children : Len(r_r[c]) <= r_done[c] /\ r_done[c] <= PerChild
    /\ r_reported # {} \/ r_current # 0 => \A c \in Res!Children : Res!Stopped(c)

Cursor == r_current # 0 => /\ r_current \notin r_reported
                           /\ 1 <= r_j /\ r_j <= Len(r_r[r_current]) + 1

(* What is merged of the array that is being merged.                       *)
Taken == IF r_current = 0 THEN 0 ELSE r_j - 1
TakenCount(x) ==
    IF r_current = 0 THEN 0 ELSE Cardinality({k \in 1 .. r_j - 1 : r_r[r_current][k] = x})

Room == Len(r_merged) <= Cardinality(r_reported) * PerChild + Taken
Union == \A x \in Res!Values : Res!Count(r_merged, x) = Res!ReportedCount(x) + TakenCount(x)

RInv == ResTypes /\ Shape /\ Recorded /\ Cursor /\ Room /\ Union /\ SavedLast

-----------------------------------------------------------------------------
\* A child measures at least once.
LEMMA RepetitionsPositive ==
  ASSUME Limits, r_request \in RepRequests
  PROVE  /\ PerChild \in Nat /\ PerChild > 0 /\ Res!Repetitions \in Nat
         /\ r_request # 0 => PerChild = Res!Repetitions
         /\ r_request = 0 => PerChild = 1 /\ Res!Repetitions = 0
  BY DEF Limits, PerChild, Res!Repetitions

\* There are finitely many children.
LEMMA ChildrenFinite ==
  ASSUME Limits, NEW S \in SUBSET Res!Children
  PROVE  IsFiniteSet(S) /\ Cardinality(S) \in Nat /\ Cardinality(S) <= Parallel
<1>1. IsFiniteSet(Res!Children) /\ Cardinality(Res!Children) = Parallel
  BY FS_Interval DEF Limits, Res!Children
<1> QED BY <1>1, FS_Subset, FS_CardinalityType

\* Finitely many of them have reported.
LEMMA ReportedFinite ==
  ASSUME Limits, ResTypes, NEW x
  PROVE  /\ IsFiniteSet(UNION {{c} \X {k \in 1 .. Len(r_r[c]) : r_r[c][k] = x} : c \in r_reported})
         /\ Res!ReportedCount(x) \in Nat
<1> DEFINE part(c) == {c} \X {k \in 1 .. Len(r_r[c]) : r_r[c][k] = x}
           P == {part(c) : c \in r_reported}
<1>1. IsFiniteSet(r_reported)
  BY ChildrenFinite DEF ResTypes
<1>2. IsFiniteSet(P)
  <2> DEFINE f == [c \in r_reported |-> part(c)]
  <2>1. f \in Surjection(r_reported, P)
    <3> HIDE DEF part
    <3> QED BY DEF Surjection
  <2> HIDE DEF P, f
  <2> QED BY <1>1, <2>1, FS_Surjection
<1>3. \A c \in r_reported : IsFiniteSet(part(c))
  <2> SUFFICES ASSUME NEW c \in r_reported PROVE IsFiniteSet(part(c))
    OBVIOUS
  <2>1. Len(r_r[c]) \in Nat
    BY DEF ResTypes
  <2>2. IsFiniteSet({k \in 1 .. Len(r_r[c]) : r_r[c][k] = x})
    BY <2>1, WhereFinite DEF Where
  <2>3. IsFiniteSet({c})
    BY FS_Singleton
  <2> QED BY <2>2, <2>3, FS_Product
<1>4. \A T \in P : IsFiniteSet(T)
  BY <1>3
<1>5. IsFiniteSet(UNION P)
  <2> HIDE DEF P
  <2> QED BY <1>2, <1>4, FS_UNION
<1> QED BY <1>5, FS_CardinalityType, SameCardinality DEF Res!ReportedCount

\* A step that saves the median and changes nothing else.
LEMMA RestStays ==
  ASSUME RInv, SavedLast', UNCHANGED <<r_request, r_r, r_done, r_reported, r_current, r_j, r_merged>>
  PROVE  RInv'
<1>1. /\ ResTypes /\ Shape /\ Recorded /\ Cursor /\ Room /\ Union
  BY DEF RInv
<1>2. ResTypes' /\ Shape' /\ Cursor'
  BY <1>1 DEF ResTypes, Shape, Cursor, Res!BiggestToSmallest, Res!SortedDown, Measured
<1>3. Recorded' /\ Room'
  BY <1>1 DEF Recorded, Res!Stopped, PerChild, Res!Repetitions, Room, Taken
<1>4. Union'
  BY <1>1 DEF Union, Res!Count, Res!ReportedCount, TakenCount
<1> QED BY <1>2, <1>3, <1>4 DEF RInv

\* Before the children measure.
LEMMA InitRInv == ASSUME Limits, Res!Init PROVE RInv
<1>1. ResTypes /\ SavedLast /\ Cursor
  BY DEF Res!Init, ResTypes, SavedLast, Cursor, Limits
<1>2. Shape
  BY DEF Res!Init, Shape, Res!BiggestToSmallest, Res!SortedDown, Measured
<1>3. Recorded
  BY <1>1, RepetitionsPositive DEF ResTypes, Res!Init, Recorded
<1>4. Cardinality(r_reported) = 0 /\ Cardinality({}) = 0 /\ Taken = 0 /\ \A x : TakenCount(x) = 0
  BY FS_EmptySet DEF Res!Init, Taken, TakenCount
<1>5. Room
  BY <1>1, <1>4, RepetitionsPositive DEF Res!Init, Room, ResTypes
<1>6. Union
  <2> SUFFICES ASSUME NEW x \in Res!Values PROVE Res!Count(r_merged, x) = 0 /\ Res!ReportedCount(x) = 0
    BY <1>4 DEF Union
  <2>1. {k \in 1 .. Len(r_merged) : r_merged[k] = x} = {}
    BY DEF Res!Init
  <2>2. UNION {{c} \X {k \in 1 .. Len(r_r[c]) : r_r[c][k] = x} : c \in r_reported} = {}
    BY DEF Res!Init
  <2> QED BY <2>1, <2>2, <1>4, SameCardinality DEF Res!Count, Res!ReportedCount
<1> QED BY <1>1, <1>2, <1>3, <1>5, <1>6 DEF RInv

(* No answer has been asked for while some child is still measuring.       *)
LEMMA RecordKeeps ==
  ASSUME Limits, RInv, NEW c \in Res!Children, Res!Record(c)
  PROVE  RInv'
<1>1. /\ ResTypes /\ Shape /\ Recorded /\ Room /\ Union /\ SavedLast
      /\ r_reported = {} /\ r_current = 0
  BY DEF RInv, Res!Record, Recorded
<1>x. PICK x \in Res!Values : \E w \in Res!Insertsort(r_r[c], x) : r_r' = [r_r EXCEPT ![c] = w]
  BY DEF Res!Record
<1>2. PICK w \in Res!Insertsort(r_r[c], x) : r_r' = [r_r EXCEPT ![c] = w]
  BY <1>x
<1>3. r_r[c] \in Seq(Res!Values) /\ Res!SortedDown(r_r[c]) /\ Measured(r_r[c]) /\ Len(r_r[c]) \in Nat
  BY <1>1 DEF ResTypes, Shape, Res!BiggestToSmallest
<1>4. /\ w \in Seq(Res!Values) /\ Res!SortedDown(w) /\ Measured(w)
      /\ w = r_r[c] \/ Len(w) = Len(r_r[c]) + 1
  BY <1>3, Inserts
<1>5. /\ UNCHANGED <<r_request, r_reported, r_current, r_j, r_merged, r_saved>>
      /\ r_done' = [r_done EXCEPT ![c] = @ + 1]
      /\ PerChild' = PerChild
  BY DEF Res!Record, PerChild, Res!Repetitions
<1>6. ResTypes'
  BY <1>1, <1>2, <1>4, <1>5 DEF ResTypes
<1>7. \A d \in Res!Children : r_r'[d] = IF d = c THEN w ELSE r_r[d]
  BY <1>1, <1>2 DEF ResTypes
<1>8. Shape'
  BY <1>1, <1>4, <1>5, <1>7 DEF Shape, Res!BiggestToSmallest, Res!SortedDown, Measured
<1>9. Recorded'
  <2>1. PerChild \in Nat /\ PerChild > 0
    BY <1>1, RepetitionsPositive DEF ResTypes
  <2>2. r_done[c] < PerChild
    BY <1>1, <2>1 DEF Res!Record, Res!Stopped, ResTypes, PerChild
  <2>3. \A d \in Res!Children : r_done'[d] = IF d = c THEN r_done[c] + 1 ELSE r_done[d]
    BY <1>1, <1>5 DEF ResTypes
  <2>4. \A d \in Res!Children : Len(r_r[d]) <= r_done[d] /\ r_done[d] <= PerChild
    BY <1>1 DEF Recorded
  <2>5. \A d \in Res!Children : r_done[d] \in Nat
    BY <1>1 DEF ResTypes
  <2>6. Len(w) <= r_done[c] + 1
    <3>1. Len(w) = Len(r_r[c]) \/ Len(w) = Len(r_r[c]) + 1
      BY <1>3, <1>4
    <3>2. Len(r_r[c]) <= r_done[c] /\ r_done[c] \in Nat
      BY <2>4, <2>5
    <3> QED BY <3>1, <3>2, <1>3
  <2>7. \A d \in Res!Children : Len(r_r'[d]) <= r_done'[d] /\ r_done'[d] <= PerChild
    BY <2>1, <2>2, <2>3, <2>4, <2>5, <2>6, <1>7
  <2> QED BY <2>7, <1>1, <1>5 DEF Recorded
<1>10. Cursor' /\ SavedLast' /\ Room'
  BY <1>1, <1>5 DEF Cursor, SavedLast, Room, Taken
<1>11. Union'
  <2> SUFFICES ASSUME NEW x1 \in Res!Values
               PROVE  (Res!Count(r_merged, x1) = Res!ReportedCount(x1) + TakenCount(x1))'
    BY DEF Union
  <2>1. Res!Count(r_merged, x1) = Res!ReportedCount(x1) + TakenCount(x1)
    BY <1>1 DEF Union
  <2>2. /\ UNION {{d} \X {k \in 1 .. Len(r_r[d]) : r_r[d][k] = x1} : d \in {}} = {}
        /\ UNION {{d} \X {k \in 1 .. Len(r_r'[d]) : r_r'[d][k] = x1} : d \in {}} = {}
    OBVIOUS
  <2>3. Res!ReportedCount(x1)' = Res!ReportedCount(x1)
    BY <2>2, <1>1, <1>5 DEF Res!ReportedCount
  <2> QED BY <2>1, <2>3, <1>1, <1>5 DEF TakenCount, Res!Count
<1> QED BY <1>6, <1>8, <1>9, <1>10, <1>11 DEF RInv

\* The array of a child arrives; none of it is merged yet.
LEMMA ReceiveKeeps ==
  ASSUME Limits, RInv, NEW c \in Res!Children, Res!Receive(c)
  PROVE  RInv'
<1>1. /\ ResTypes /\ Shape /\ Recorded /\ Room /\ Union /\ SavedLast
      /\ r_current = 0 /\ c \notin r_reported /\ r_current' = c /\ r_j' = 1
      /\ \A d \in Res!Children : Res!Stopped(d)
      /\ UNCHANGED <<r_request, r_r, r_done, r_reported, r_merged, r_saved>>
      /\ c \in 1 .. Parallel /\ c # 0 /\ Parallel \in Nat
  BY DEF RInv, Res!Receive, Res!Children, Limits
<1>2. ResTypes'
  BY <1>1 DEF ResTypes
<1>3. Shape'
  BY <1>1 DEF Shape, Res!BiggestToSmallest, Res!SortedDown, Measured
<1>4. Recorded'
  BY <1>1 DEF Recorded, Res!Stopped, PerChild, Res!Repetitions
<1>5. Cursor'
  BY <1>1 DEF Cursor, ResTypes
<1>6. Taken = 0 /\ Taken' = 0
  BY <1>1 DEF Taken
<1>7. Room'
  BY <1>1, <1>6 DEF Room, PerChild, Res!Repetitions
<1>8. \A x : TakenCount(x) = 0 /\ TakenCount(x)' = 0
  <2>1. \A x : {k \in 1 .. 0 : r_r[c][k] = x} = {}
    OBVIOUS
  <2> QED BY <1>1, <2>1, FS_EmptySet DEF TakenCount
<1>9. Union'
  <2> SUFFICES ASSUME NEW x \in Res!Values PROVE (Res!Count(r_merged, x) = Res!ReportedCount(x) + TakenCount(x))'
    BY DEF Union
  <2>1. Res!Count(r_merged, x)' = Res!Count(r_merged, x) /\ Res!ReportedCount(x)' = Res!ReportedCount(x)
    BY <1>1 DEF Res!Count, Res!ReportedCount
  <2> QED BY <1>1, <1>8, <2>1 DEF Union
<1>10. SavedLast'
  BY <1>1 DEF SavedLast
<1> QED BY <1>2, <1>3, <1>4, <1>5, <1>7, <1>9, <1>10 DEF RInv

(* One more value of the current array.                                    *)
LEMMA MergeTakes ==
  ASSUME Limits, RInv, Res!Merge, r_j <= Len(r_r[r_current])
  PROVE  RInv'
<1>0. ResTypes /\ r_current # 0 /\ r_current \in Res!Children
  <2>1. ResTypes /\ r_current # 0
    BY DEF RInv, Res!Merge
  <2> QED BY <2>1 DEF ResTypes, Res!Children, Limits
<1>1. /\ ResTypes /\ Shape /\ Recorded /\ Cursor /\ Room /\ Union /\ SavedLast
      /\ r_current # 0 /\ r_current \in Res!Children /\ r_r[r_current] \in Seq(Res!Values)
      /\ UNCHANGED <<r_request, r_r, r_done, r_saved, r_reported, r_current>> /\ r_j' = r_j + 1
      /\ r_j \in 1 .. Len(r_r[r_current]) /\ r_merged \in Seq(Res!Values) /\ Len(r_merged) \in Nat
      /\ Len(r_r[r_current]) \in Nat
  <2>1. r_r[r_current] \in Seq(Res!Values) /\ Len(r_r[r_current]) \in Nat
    BY <1>0 DEF ResTypes
  <2>2. r_j \in 1 .. Len(r_r[r_current])
    BY <1>0, <2>1 DEF RInv, Cursor, ResTypes
  <2>3. UNCHANGED <<r_request, r_r, r_done, r_saved, r_reported, r_current>> /\ r_j' = r_j + 1
    BY DEF Res!Merge
  <2>4. r_merged \in Seq(Res!Values) /\ Len(r_merged) \in Nat
    BY <1>0 DEF ResTypes
  <2> QED BY <1>0, <2>1, <2>2, <2>3, <2>4 DEF RInv
<1> DEFINE x == r_r[r_current][r_j]
<1>2. x \in Res!Values /\ x.u # 0
  BY <1>1 DEF Shape, Measured
<1>3. PICK w \in Res!Insertsort(r_merged, x) : r_merged' = w
  BY DEF Res!Merge
<1>4. /\ w \in Seq(Res!Values) /\ Res!SortedDown(w) /\ Measured(w) /\ Len(w) = Len(r_merged) + 1
      /\ \A y : Res!Count(w, y) = Res!Count(r_merged, y) + (IF y = x THEN 1 ELSE 0)
  <2>1. Res!SortedDown(r_merged) /\ Measured(r_merged)
    BY <1>1 DEF Shape, Res!BiggestToSmallest
  <2> HIDE DEF x
  <2> QED BY <1>1, <1>2, <2>1, Inserts
<1>5. ResTypes'
  BY <1>1, <1>3, <1>4 DEF ResTypes
<1>6. Shape'
  BY <1>1, <1>3, <1>4 DEF Shape, Res!BiggestToSmallest, Res!SortedDown, Measured
<1>7. Recorded' /\ PerChild' = PerChild
  BY <1>1 DEF Recorded, Res!Stopped, PerChild, Res!Repetitions
<1>8. Cursor'
  BY <1>1 DEF Cursor
<1>9. Room'
  <2>1. Cardinality(r_reported) \in Nat /\ PerChild \in Nat
    BY <1>1, ChildrenFinite, RepetitionsPositive DEF ResTypes
  <2>2. Cardinality(r_reported) * PerChild \in Nat
    BY <2>1
  <2> QED BY <2>2, <1>1, <1>3, <1>4, <1>7 DEF Room, Taken
<1>10. Union'
  <2> SUFFICES ASSUME NEW y \in Res!Values PROVE (Res!Count(r_merged, y) = Res!ReportedCount(y) + TakenCount(y))'
    BY DEF Union
  <2> DEFINE S == {k \in 1 .. r_j - 1 : r_r[r_current][k] = y}
             T == {k \in 1 .. (r_j + 1) - 1 : r_r[r_current][k] = y}
  <2>1. IsFiniteSet(S) /\ Cardinality(S) \in Nat /\ r_j \notin S
    <3>1. IsFiniteSet(1 .. r_j - 1) /\ S \in SUBSET (1 .. r_j - 1)
      <4>1. 1 \in Int /\ r_j - 1 \in Int
        BY <1>1
      <4> QED BY <4>1, FS_Interval
    <3> QED BY <3>1, <1>1, FS_Subset, FS_CardinalityType
  <2>2. Cardinality(T) = Cardinality(S) + (IF y = x THEN 1 ELSE 0)
    <3>1. CASE y = x
      <4>1. T = S \cup {r_j}
        BY <1>1, <3>1
      <4> HIDE DEF S, T
      <4> QED BY <4>1, <2>1, <3>1, FS_AddElement
    <3>2. CASE y # x
      <4>1. T = S
        BY <1>1, <3>2
      <4> HIDE DEF S, T
      <4> QED BY <4>1, <2>1, <3>2
    <3> QED BY <3>1, <3>2
  <2>3. TakenCount(y) = Cardinality(S) /\ TakenCount(y)' = Cardinality(T)
    BY <1>1 DEF TakenCount
  <2>4. Res!ReportedCount(y)' = Res!ReportedCount(y)
    BY <1>1, SameCardinality DEF Res!ReportedCount
  <2>5. Res!Count(r_merged, y) = Res!ReportedCount(y) + TakenCount(y) /\ Res!Count(r_merged, y) \in Nat
    BY <1>1, WhereFinite DEF Union
  <2>6. Res!Count(r_merged, y)' = Res!Count(r_merged, y) + (IF y = x THEN 1 ELSE 0)
    BY <1>3, <1>4 DEF Res!Count
  <2>7. Res!ReportedCount(y) \in Nat
    BY <1>1, ReportedFinite
  <2> HIDE DEF x, S, T
  <2> QED BY <2>1, <2>2, <2>3, <2>4, <2>5, <2>6, <2>7
<1>11. SavedLast'
  BY <1>1 DEF SavedLast
<1> QED BY <1>5, <1>6, <1>7, <1>8, <1>9, <1>10, <1>11 DEF RInv

(* The end of the loop: the whole array counts as reported.                *)
LEMMA MergeEnds ==
  ASSUME Limits, RInv, Res!Merge, ~(r_j <= Len(r_r[r_current]))
  PROVE  RInv'
<1>1. /\ ResTypes /\ Shape /\ Recorded /\ Cursor /\ Room /\ Union /\ SavedLast
      /\ r_current # 0 /\ r_current \in Res!Children /\ r_r[r_current] \in Seq(Res!Values)
      /\ UNCHANGED <<r_request, r_r, r_done, r_saved, r_j, r_merged>>
      /\ r_reported' = r_reported \cup {r_current} /\ r_current' = 0
      /\ r_merged \in Seq(Res!Values) /\ Len(r_merged) \in Nat
      /\ Len(r_r[r_current]) \in Nat /\ r_j = Len(r_r[r_current]) + 1 /\ r_current \notin r_reported
  <2>1. ResTypes /\ Shape /\ Recorded /\ Cursor /\ Room /\ Union /\ SavedLast
    BY DEF RInv
  <2>2. /\ r_current # 0 /\ UNCHANGED <<r_request, r_r, r_done, r_saved, r_j, r_merged>>
        /\ r_reported' = r_reported \cup {r_current} /\ r_current' = 0
    BY DEF Res!Merge
  <2>3. r_current \in Res!Children /\ r_current \notin r_reported
    BY <2>1, <2>2 DEF Cursor, ResTypes, Res!Children, Limits
  <2>4. /\ r_r[r_current] \in Seq(Res!Values) /\ r_merged \in Seq(Res!Values) /\ Len(r_merged) \in Nat
        /\ Len(r_r[r_current]) \in Nat
    BY <2>1, <2>3 DEF ResTypes
  <2>5. r_j = Len(r_r[r_current]) + 1
    <3>1. r_j \in Nat /\ r_j <= Len(r_r[r_current]) + 1
      BY <2>1, <2>2 DEF Cursor, ResTypes
    <3> QED BY <3>1, <2>4
  <2> QED BY <2>1, <2>2, <2>3, <2>4, <2>5
<1>2. ResTypes' /\ Cursor'
  BY <1>1 DEF ResTypes, Cursor, Limits
<1>3. Shape'
  BY <1>1 DEF Shape, Res!BiggestToSmallest, Res!SortedDown, Measured
<1>4. Recorded' /\ PerChild' = PerChild
  BY <1>1 DEF Recorded, Res!Stopped, PerChild, Res!Repetitions
<1>5. Room'
  <2>1. /\ Cardinality(r_reported) \in Nat /\ PerChild \in Nat /\ IsFiniteSet(r_reported)
    BY <1>1, ChildrenFinite, RepetitionsPositive DEF ResTypes
  <2>2. Cardinality(r_reported') = Cardinality(r_reported) + 1
    BY <1>1, <2>1, FS_AddElement
  <2>3. /\ Cardinality(r_reported) * PerChild \in Nat
        /\ (Cardinality(r_reported) + 1) * PerChild
             = Cardinality(r_reported) * PerChild + PerChild
    BY <2>1
  <2>4. Taken = Len(r_r[r_current]) /\ Taken' = 0
    BY <1>1 DEF Taken
  <2>5. Len(r_r[r_current]) <= PerChild
    BY <1>1, <2>1 DEF Recorded, ResTypes
  <2>6. Len(r_merged) <= Cardinality(r_reported) * PerChild + Len(r_r[r_current])
    BY <1>1, <2>4 DEF Room
  <2>7. Len(r_merged) <= (Cardinality(r_reported) + 1) * PerChild + 0
    BY <1>1, <2>1, <2>3, <2>5, <2>6
  <2>8. PerChild' = PerChild
    BY <1>1 DEF PerChild, Res!Repetitions
  <2> QED BY <1>1, <2>2, <2>4, <2>7, <2>8 DEF Room
<1>6. Union'
  <2> SUFFICES ASSUME NEW y \in Res!Values PROVE (Res!Count(r_merged, y) = Res!ReportedCount(y) + TakenCount(y))'
    BY DEF Union
  <2> DEFINE part(c) == {c} \X {k \in 1 .. Len(r_r[c]) : r_r[c][k] = y}
             S == UNION {part(c) : c \in r_reported}
             T == UNION {part(c) : c \in r_reported \cup {r_current}}
             K == {k \in 1 .. Len(r_r[r_current]) : r_r[r_current][k] = y}
  <2>1. IsFiniteSet(S) /\ Cardinality(S) \in Nat /\ Res!ReportedCount(y) = Cardinality(S)
    <3>1. Res!ReportedCount(y) = Cardinality(S)
      BY SameCardinality DEF Res!ReportedCount
    <3>2. IsFiniteSet(S) /\ Res!ReportedCount(y) \in Nat
      BY <1>1, ReportedFinite
    <3> QED BY <3>1, <3>2, Zenon
  <2>2. IsFiniteSet(K) /\ Cardinality(K) \in Nat
    <3>1. K = Where(r_r[r_current], y)
      BY DEF Where
    <3> QED BY <1>1, <3>1, WhereFinite, FS_CardinalityType
  <2>3. IsFiniteSet(part(r_current)) /\ Cardinality(part(r_current)) = Cardinality(K)
    <3>1. IsFiniteSet({r_current}) /\ Cardinality({r_current}) = 1
      BY FS_Singleton
    <3>2. IsFiniteSet({r_current} \X K) /\ Cardinality({r_current} \X K) = 1 * Cardinality(K)
      BY <2>2, <3>1, FS_Product
    <3> QED BY <2>2, <3>2
  <2>4. T = S \cup part(r_current)
    OBVIOUS
  <2>5. S \cap part(r_current) = {}
    <3> SUFFICES ASSUME NEW e \in S, e \in part(r_current) PROVE FALSE
      OBVIOUS
    <3>1. PICK c \in r_reported : e \in part(c)
      OBVIOUS
    <3>2. e[1] = c /\ e[1] = r_current
      BY <3>1
    <3> QED BY <3>2, <1>1
  <2>6. Cardinality(T) = Cardinality(S) + Cardinality(K)
    <3> HIDE DEF part, S, T, K
    <3>1. Cardinality(S \cap part(r_current)) = 0
      BY <2>5, FS_EmptySet
    <3>2. Cardinality(T) = Cardinality(S) + Cardinality(part(r_current))
                            - Cardinality(S \cap part(r_current))
      BY <2>1, <2>3, <2>4, FS_Union
    <3> QED BY <3>1, <3>2, <2>1, <2>2, <2>3
  <2>7. TakenCount(y) = Cardinality(K) /\ TakenCount(y)' = 0
    <3>1. {k \in 1 .. r_j - 1 : r_r[r_current][k] = y} = K
      BY <1>1
    <3> QED BY <3>1, <1>1 DEF TakenCount
  <2>8. Res!ReportedCount(y)' = Cardinality(T)
    BY <1>1, SameCardinality DEF Res!ReportedCount
  <2>9. Res!Count(r_merged, y) = Res!ReportedCount(y) + TakenCount(y) /\ Res!Count(r_merged, y)' = Res!Count(r_merged, y)
    BY <1>1 DEF Union, Res!Count
  <2> HIDE DEF S, T, K
  <2> QED BY <2>1, <2>2, <2>6, <2>7, <2>8, <2>9
<1>7. SavedLast'
  BY <1>1 DEF SavedLast
<1> QED BY <1>2, <1>3, <1>4, <1>5, <1>6, <1>7 DEF RInv

\* Every step.
LEMMA ResKeeps == ASSUME Limits, RInv, [Res!Next]_(Res!rvars) PROVE RInv'
<1>1. ASSUME NEW c \in Res!Children, Res!Record(c) PROVE RInv'
  BY <1>1, RecordKeeps
<1>2. ASSUME NEW c \in Res!Children, Res!Receive(c) PROVE RInv'
  BY <1>2, ReceiveKeeps
<1>3. ASSUME Res!Merge PROVE RInv'
  BY <1>3, MergeTakes, MergeEnds
<1>4. ASSUME Res!SetResults PROVE RInv'
  <2>1. /\ UNCHANGED <<r_request, r_r, r_done, r_reported, r_current, r_j, r_merged>>
        /\ r_reported = Res!Children /\ r_current = 0 /\ r_saved' = Res!Median(r_merged)
    BY <1>4 DEF Res!SetResults
  <2>2. SavedLast'
    BY <2>1 DEF SavedLast
  <2> QED BY <2>1, <2>2, RestStays
<1>5. ASSUME UNCHANGED Res!rvars PROVE RInv'
  <2>1. /\ UNCHANGED <<r_request, r_r, r_done, r_reported, r_current, r_j, r_merged>>
    BY <1>5 DEF Res!rvars
  <2>2. SavedLast'
    BY <1>5 DEF SavedLast, Res!rvars, RInv
  <2> QED BY <2>1, <2>2, RestStays
<1> QED BY <1>1, <1>2, <1>3, <1>4, <1>5 DEF Res!Next

-----------------------------------------------------------------------------
(* save_median().                                                          *)

\* The middle of an array.
LEMMA Halved ==
  ASSUME NEW N \in Nat, N > 0
  PROVE  /\ N \div 2 \in Nat /\ (N \div 2) + 1 \in 1 .. N
         /\ N % 2 = 1 => N = 2 * (N \div 2) + 1
         /\ N % 2 # 1 => N = 2 * (N \div 2) /\ N \div 2 \in 1 .. N
  OBVIOUS

(* In a sorted array the place k of N is a middle one if no more than half *)
(* of the places are before it and no more than half behind it.            *)
LEMMA IsMiddle ==
  ASSUME Limits, NEW v \in Seq(Res!Values), Res!SortedDown(v), NEW k \in 1 .. Len(v),
         2 * (k - 1) <= Len(v), 2 * (Len(v) - k) <= Len(v)
  PROVE  k \in Res!Middle(v)
<1> DEFINE rate(l) == Rate(v[l].u, v[l].n)
           A == {l \in 1 .. Len(v) : rate(l) > rate(k)}
           B == {l \in 1 .. Len(v) : rate(l) < rate(k)}
<1>1. Len(v) \in Nat /\ \A l \in 1 .. Len(v) : rate(l) \in Int
  BY DEF Limits
<1>2. \A l, m \in 1 .. Len(v) : l < m => rate(l) >= rate(m)
  BY DEF Res!SortedDown
<1> HIDE DEF rate
<1>3. A \in SUBSET (1 .. k - 1) /\ B \in SUBSET (k + 1 .. Len(v))
  <2>1. ASSUME NEW l \in A PROVE l \in 1 .. k - 1
    <3>1. l \in 1 .. Len(v) /\ rate(l) > rate(k) /\ rate(l) \in Int /\ rate(k) \in Int
      BY <1>1, <2>1
    <3>2. ~(k < l) /\ k # l
      BY <3>1, <1>2
    <3> QED BY <3>1, <3>2
  <2>2. ASSUME NEW l \in B PROVE l \in k + 1 .. Len(v)
    <3>1. l \in 1 .. Len(v) /\ rate(l) < rate(k) /\ rate(l) \in Int /\ rate(k) \in Int
      BY <1>1, <2>2
    <3>2. ~(l < k) /\ k # l
      BY <3>1, <1>2
    <3> QED BY <3>1, <3>2
  <2> QED BY <2>1, <2>2
<1> HIDE DEF A, B
<1>4. Cardinality(A) <= k - 1 /\ Cardinality(A) \in Nat
  <2>1. 1 \in Int /\ k - 1 \in Int /\ k - 1 >= 0
    OBVIOUS
  <2>2. IsFiniteSet(1 .. k - 1) /\ Cardinality(1 .. k - 1) = k - 1
    BY <2>1, FS_Interval
  <2> QED BY <2>2, <1>3, FS_Subset, FS_CardinalityType
<1>5. Cardinality(B) <= Len(v) - k /\ Cardinality(B) \in Nat
  <2>1. k + 1 \in Int /\ Len(v) \in Int /\ Len(v) - k >= 0
    BY <1>1
  <2>2. /\ IsFiniteSet(k + 1 .. Len(v))
        /\ Cardinality(k + 1 .. Len(v)) = IF k + 1 > Len(v) THEN 0 ELSE Len(v) - (k + 1) + 1
    BY <2>1, FS_Interval
  <2>3. Cardinality(k + 1 .. Len(v)) = Len(v) - k
    BY <2>1, <2>2
  <2> QED BY <2>2, <2>3, <1>3, FS_Subset, FS_CardinalityType
<1>6. 2 * Cardinality(A) <= Len(v) /\ 2 * Cardinality(B) <= Len(v)
  BY <1>1, <1>4, <1>5
<1> QED BY <1>6, SameCardinality DEF Res!Middle, A, B, rate

\* The median save_median() takes is in the middle.
LEMMA MedianMiddle ==
  ASSUME Limits, NEW v \in Seq(Res!Values), Res!SortedDown(v), Measured(v), Len(v) > 0
  PROVE  /\ Res!Median(v) \in [u : Nat, n : Nat \ {0}] /\ Res!Median(v).u > 0
         /\ \E k, l \in Res!Middle(v) :
              /\ (k = l) = (Len(v) % 2 = 1)
              /\ Res!Between(Res!Median(v).u, v[k].u, v[l].u)
              /\ Res!Between(Res!Median(v).n, v[k].n, v[l].n)
<1> DEFINE N == Len(v)
           m == (N \div 2) + 1
<1>1. N \in Nat /\ N > 0
  OBVIOUS
<1>2. \A k \in 1 .. N : /\ v[k].u \in Nat /\ v[k].u > 0 /\ v[k].n \in Nat /\ v[k].n > 0
                         /\ v[k] \in [u : Nat, n : Nat \ {0}]
  <2> SUFFICES ASSUME NEW k \in 1 .. N
               PROVE  /\ v[k].u \in Nat /\ v[k].u > 0 /\ v[k].n \in Nat /\ v[k].n > 0
                      /\ v[k] \in [u : Nat, n : Nat \ {0}]
    OBVIOUS
  <2>1. v[k] \in Res!Values /\ v[k].u # 0
    BY DEF Measured
  <2>2. \A x \in Res!Values : x \in [u : Nat, n : Nat \ {0}]
    BY DEF Limits, Res!Values
  <2>3. v[k] \in [u : Nat, n : Nat \ {0}]
    BY <2>1, <2>2
  <2>4. v[k].u \in Nat /\ v[k].n \in Nat \ {0}
    BY <2>3
  <2> QED BY <2>1, <2>3, <2>4
<1>3. /\ N \div 2 \in Nat /\ m \in 1 .. N
      /\ N % 2 = 1 => N = 2 * (N \div 2) + 1
      /\ N % 2 # 1 => N = 2 * (N \div 2) /\ N \div 2 \in 1 .. N
  <2> HIDE DEF N
  <2> QED BY <1>1, Halved
<1>4. CASE N % 2 = 1
  <2>1. Res!Median(v) = v[m]
    BY <1>1, <1>4 DEF Res!Median
  <2>2. 2 * (m - 1) <= N /\ 2 * (N - m) <= N
    BY <1>3, <1>4
  <2>3. m \in Res!Middle(v)
    BY <1>3, <2>2, IsMiddle
  <2>4. Res!Between(v[m].u, v[m].u, v[m].u) /\ Res!Between(v[m].n, v[m].n, v[m].n)
    BY <1>2, <1>3 DEF Res!Between
  <2> HIDE DEF m
  <2> QED BY <1>2, <1>3, <1>4, <2>1, <2>3, <2>4
<1>5. CASE N % 2 # 1
  <2>1. Res!Median(v) = [u |-> (v[m].u + v[m - 1].u) \div 2, n |-> (v[m].n + v[m - 1].n) \div 2]
    BY <1>1, <1>5 DEF Res!Median
  <2>2. /\ m - 1 \in 1 .. N /\ m # m - 1
        /\ 2 * (m - 1) <= N /\ 2 * (N - m) <= N
        /\ 2 * ((m - 1) - 1) <= N /\ 2 * (N - (m - 1)) <= N
    BY <1>3, <1>5
  <2>3. m \in Res!Middle(v) /\ m - 1 \in Res!Middle(v)
    BY <1>3, <2>2, IsMiddle
  <2>4. \A a, b \in Nat \ {0} : /\ (a + b) \div 2 \in Nat /\ (a + b) \div 2 > 0
                                /\ Res!Between((a + b) \div 2, a, b)
    BY DEF Res!Between
  <2> HIDE DEF m
  <2>5. /\ v[m].u \in Nat \ {0} /\ v[m].n \in Nat \ {0}
        /\ v[m - 1].u \in Nat \ {0} /\ v[m - 1].n \in Nat \ {0}
    <3> HIDE DEF N
    <3>1. m \in 1 .. N /\ m - 1 \in 1 .. N
      BY <1>3, <2>2
    <3> QED BY <1>2, <3>1
  <2>6. /\ Res!Median(v).u \in Nat /\ Res!Median(v).u > 0 /\ Res!Between(Res!Median(v).u, v[m].u, v[m - 1].u)
        /\ Res!Median(v).n \in Nat /\ Res!Median(v).n > 0 /\ Res!Between(Res!Median(v).n, v[m].n, v[m - 1].n)
    <3>1. /\ Res!Median(v).u = (v[m].u + v[m - 1].u) \div 2
          /\ Res!Median(v).n = (v[m].n + v[m - 1].n) \div 2
      BY <2>1
    <3> QED BY <3>1, <2>4, <2>5
  <2>7. Res!Median(v) \in [u : Nat, n : Nat \ {0}]
    BY <2>1, <2>6
  <2> QED BY <1>5, <2>2, <2>3, <2>6, <2>7
<1> QED BY <1>4, <1>5

-----------------------------------------------------------------------------
(* What the invariant gives.                                               *)
LEMMA Scaled ==
  ASSUME NEW a \in Nat, NEW b \in Nat, NEW c \in Nat, a <= b
  PROVE  a * c <= b * c /\ a * c \in Nat /\ b * c \in Nat
<1>1. (b - a) \in Nat /\ (b - a) * c \in Nat /\ b * c = a * c + (b - a) * c
  OBVIOUS
<1> QED BY <1>1

\* What the run checks of the results.
LEMMA ResImplied ==
  ASSUME Limits, RInv
  PROVE  Res!TypeOK /\ Res!BiggestToSmallest /\ Res!MergedIsUnion /\ Res!MedianIsMiddle /\ Res!WithinSlots
<1>1. /\ ResTypes /\ Shape /\ Recorded /\ Cursor /\ Room /\ Union /\ SavedLast
      /\ r_merged \in Seq(Res!Values) /\ Res!SortedDown(r_merged) /\ Measured(r_merged) /\ Len(r_merged) \in Nat
  BY DEF RInv, ResTypes, Shape, Res!BiggestToSmallest
<1>4. Res!TypeOK /\ Res!MedianIsMiddle
  <2>1. CASE r_saved = [u |-> 0, n |-> 1]
    <3>1. r_saved \in [u : Nat, n : Nat \ {0}]
      BY <2>1
    <3>2. Res!TypeOK
      BY <1>1, <3>1 DEF Res!TypeOK, ResTypes
    <3> QED BY <2>1, <3>2 DEF Res!MedianIsMiddle
  <2>2. CASE r_saved # [u |-> 0, n |-> 1]
    <3>1. r_saved = Res!Median(r_merged)
      BY <1>1, <2>2 DEF SavedLast
    <3>2. Len(r_merged) > 0
      BY <1>1, <2>2, <3>1 DEF Res!Median
    <3>3. /\ r_saved \in [u : Nat, n : Nat \ {0}] /\ r_saved.u > 0
          /\ \E k, l \in Res!Middle(r_merged) :
                /\ (k = l) = (Len(r_merged) % 2 = 1)
                /\ Res!Between(r_saved.u, r_merged[k].u, r_merged[l].u)
                /\ Res!Between(r_saved.n, r_merged[k].n, r_merged[l].n)
      BY <1>1, <3>1, <3>2, MedianMiddle
    <3>4. Res!TypeOK
      BY <1>1, <3>3 DEF Res!TypeOK, ResTypes
    <3> QED BY <3>3, <3>4 DEF Res!MedianIsMiddle
  <2> QED BY <2>1, <2>2
<1>5. Res!MergedIsUnion
  <2> SUFFICES ASSUME r_current = 0, NEW x \in Res!Values PROVE Res!Count(r_merged, x) = Res!ReportedCount(x)
    BY DEF Res!MergedIsUnion
  <2>1. TakenCount(x) = 0 /\ Res!Count(r_merged, x) = Res!ReportedCount(x) + TakenCount(x)
    BY <1>1 DEF Union, TakenCount
  <2>2. Res!ReportedCount(x) \in Nat
    BY <1>1, ReportedFinite
  <2> QED BY <2>1, <2>2
<1>6. PerChild \in Nat /\ PerChild > 0 /\ Parallel \in Nat /\ Parallel > 0 /\ Tries \in Nat
  BY <1>1, RepetitionsPositive DEF ResTypes, Limits
<1>r. /\ Res!Repetitions \in Nat /\ Tries > 0
      /\ r_request # 0 => PerChild = Res!Repetitions
      /\ r_request = 0 => PerChild = 1 /\ Res!Repetitions = 0
  BY <1>1, RepetitionsPositive DEF ResTypes, Limits
<1>7. \A c \in Res!Children : Len(r_r[c]) <= Res!Slots(Res!Repetitions)
  <2> SUFFICES ASSUME NEW c \in Res!Children PROVE Len(r_r[c]) <= Res!Slots(Res!Repetitions)
    OBVIOUS
  <2>1. Len(r_r[c]) <= r_done[c] /\ r_done[c] <= PerChild /\ r_done[c] \in Nat /\ Len(r_r[c]) \in Nat
    BY <1>1 DEF Recorded, ResTypes
  <2>2. Len(r_r[c]) <= PerChild
    BY <2>1, <1>6
  <2> QED BY <2>1, <2>2, <1>6, <1>r DEF Res!Slots
<1>8. Len(r_merged) <= Parallel * PerChild
  <2> DEFINE C == Cardinality(r_reported)
  <2>1. C \in Nat /\ C <= Parallel
    BY <1>1, ChildrenFinite DEF ResTypes
  <2>2. CASE r_current = 0
    <3>1. Len(r_merged) <= C * PerChild
      <4>1. C * PerChild \in Nat
        BY <2>1, <1>6
      <4> QED BY <4>1, <1>1, <2>2 DEF Room, Taken
    <3>2. /\ C * PerChild <= Parallel * PerChild
          /\ C * PerChild \in Nat /\ Parallel * PerChild \in Nat
      BY <2>1, <1>6, Scaled
    <3> HIDE DEF C
    <3> QED BY <3>1, <3>2, <1>1
  <2>3. CASE r_current # 0
    <3>1. r_current \in Res!Children /\ r_current \notin r_reported
      BY <1>1, <2>3 DEF ResTypes, Cursor, Res!Children, Limits
    <3>2. C + 1 <= Parallel
      <4>1. r_reported \cup {r_current} \in SUBSET Res!Children /\ IsFiniteSet(r_reported)
        BY <1>1, <3>1, ChildrenFinite DEF ResTypes
      <4>2. Cardinality(r_reported \cup {r_current}) = C + 1
        BY <4>1, <3>1, FS_AddElement
      <4> QED BY <4>1, <4>2, ChildrenFinite
    <3>3. Taken \in Nat /\ Taken <= PerChild
      <4>1. Len(r_r[r_current]) <= r_done[r_current] /\ r_done[r_current] <= PerChild
            /\ r_done[r_current] \in Nat /\ Len(r_r[r_current]) \in Nat
        BY <1>1, <3>1 DEF Recorded, ResTypes
      <4>2. r_j \in Nat /\ 1 <= r_j /\ r_j <= Len(r_r[r_current]) + 1
        BY <1>1, <2>3 DEF Cursor, ResTypes
      <4> QED BY <4>1, <4>2, <1>6, <2>3 DEF Taken
    <3>4. /\ (C + 1) * PerChild <= Parallel * PerChild
          /\ (C + 1) * PerChild \in Nat /\ Parallel * PerChild \in Nat
      BY <3>2, <2>1, <1>6, Scaled
    <3>5. (C + 1) * PerChild = C * PerChild + PerChild /\ C * PerChild \in Nat
      BY <2>1, <1>6
    <3>6. Len(r_merged) <= C * PerChild + Taken
      BY <1>1 DEF Room
    <3> HIDE DEF C
    <3> QED BY <3>3, <3>4, <3>5, <3>6, <1>1, <1>6
  <2> QED BY <2>2, <2>3
<1>9. Res!WithinSlots
  <2>1. CASE r_request # 0
    <3>1. Parallel * Res!Repetitions \in Nat /\ Parallel * PerChild = Parallel * Res!Repetitions
      BY <2>1, <1>6, <1>r
    <3>2. Len(r_merged) <= Res!Slots(Parallel * Res!Repetitions)
      BY <3>1, <1>1, <1>6, <1>8 DEF Res!Slots
    <3>3. ~Res!Spilt
      BY <3>1, <3>2, <1>1, <1>6 DEF Res!Spilt, Res!Slots
    <3> QED BY <3>3, <1>7 DEF Res!WithinSlots
  <2>2. CASE r_request = 0
    <3>1. Parallel * Res!Repetitions = 0 /\ Parallel * PerChild = Parallel
      BY <2>2, <1>6, <1>r
    <3>2. Res!Slots(Parallel * Res!Repetitions) = Tries
      BY <3>1, <1>6 DEF Res!Slots
    <3>3. Res!Spilt => Tries < Parallel
      BY <3>1, <3>2, <1>1, <1>6, <1>8 DEF Res!Spilt
    <3> QED BY <2>2, <3>3, <1>7 DEF Res!WithinSlots
  <2> QED BY <2>1, <2>2
<1> QED BY <1>1, <1>4, <1>5, <1>9 DEF Shape

(* lib_timing.c: for every number of children, every number of repetitions *)
(* and every order of the answers, the merged array is the union of the    *)
(* children's arrays, is sorted, stays within the slots it was allocated   *)
(* with unless more than TRIES children were asked for no repetition, and  *)
(* what is saved is a middle element of it.                                *)
THEOREM MergedInAnyOrder ==
  ASSUME Limits
  PROVE  Res!Spec => [](Res!TypeOK /\ Res!BiggestToSmallest /\ Res!MergedIsUnion /\ Res!MedianIsMiddle /\ Res!WithinSlots)
<1>1. Res!Init => RInv
  BY InitRInv
<1>2. RInv /\ [Res!Next]_(Res!rvars) => RInv'
  BY ResKeeps
<1>3. RInv => Res!TypeOK /\ Res!BiggestToSmallest /\ Res!MergedIsUnion /\ Res!MedianIsMiddle /\ Res!WithinSlots
  BY ResImplied
<1> QED BY <1>1, <1>2, <1>3, PTL DEF Res!Spec

-----------------------------------------------------------------------------
(* The calibration.                                                        *)
(* possibilities[] of compute_enough() is not empty, SHORT is positive.    *)
Intervals ==
    /\ Possibilities \subseteq Nat \ {0} /\ Default \in Nat \ {0} /\ Noise \in Nat
    /\ \E x \in Possibilities : \A y \in Possibilities : x <= y
    /\ Calls \in Nat

Owners == {"caller", "median", "t_overhead", "l_overhead"}
Kept == [results : Owners, time : Owners]
Frames == [fn : Calib!Functions \cup {"init_timing"}, step : 1 .. 7, save : Kept \cup {0}]

(* How deep the calls are nested.                                          *)
D == Len(k_stack)

CalibTypes ==
    /\ k_stack \in Seq(Frames)
    /\ k_done \in BOOLEAN
    /\ k_init \in [t : BOOLEAN, l : BOOLEAN]
    /\ k_enough \in Nat /\ k_enough \in Possibilities \cup {0, Default}
    /\ k_overhead \in [t : {0, 1}, l : {0, 1}]
    /\ k_res \in Kept
    /\ k_env \in [enough : BOOLEAN, t : BOOLEAN, l : BOOLEAN]
    /\ k_ran \in [enough : {0, 1}, t : {0, 1}, l : {0, 1}]
    /\ k_calls \in Nat
    /\ k_before \in [res : Kept, done : BOOLEAN]

(* Who can be called by whom.                                              *)
Nesting ==
    /\ D <= 5
    /\ D >= 1 => /\ k_stack[1].fn \in Calib!Functions /\ k_stack[1].step \in {1, 2}
                 /\ D >= 2 => k_stack[1].step = 2
    /\ D >= 2 => /\ k_stack[2].fn = "init_timing" /\ k_stack[2].step \in 1 .. 5
                 /\ D >= 3 => k_stack[2].step \in {4, 5}
    /\ D >= 3 => /\ k_stack[3].fn = IF k_stack[2].step = 4 THEN "t_overhead" ELSE "l_overhead"
                 /\ k_stack[3].step = 6 => k_stack[2].step = 5
                 /\ D >= 4 => k_stack[3].step \in {2, 5, 6}
    /\ D >= 4 => /\ k_stack[3].step = 2 => k_stack[4].fn = "init_timing" /\ k_stack[4].step = 1
                 /\ k_stack[3].step = 5 => k_stack[4].fn = "get_enough"
                 /\ k_stack[3].step = 6 => k_stack[4].fn = "t_overhead"
                 /\ k_stack[4].step \in {1, 2}
                 /\ D >= 5 => k_stack[4].step = 2
    /\ D >= 5 => k_stack[5].fn = "init_timing" /\ k_stack[5].step = 1

(* The one call of init_timing() that does something.                      *)
Working == D >= 2 /\ k_stack[2].step >= 2

(* Nothing is measured before init_timing() has been entered.              *)
Fresh ==
    ~ k_done => /\ D <= 2 /\ (D >= 1 => k_stack[D].step = 1) /\ (D = 0 => k_calls = 0)
                /\ ~ k_before.done
                /\ k_enough = 0 /\ k_ran.enough = 0 /\ ~ k_init.t /\ ~ k_init.l

(* Everything is, once init_timing() has returned.                         *)
Complete ==
    k_done /\ ~ Working => /\ k_enough > 0 /\ k_init.t /\ k_init.l
                           /\ k_overhead.t = 1 /\ k_overhead.l = 1

(* How far an overhead is while the frame that measures it is at step s.   *)
Measures(k, s) ==
    /\ s \in {1, 2} => ~ k_init[k]
    /\ s \notin {1, 2} => k_init[k]
    /\ s \in {3, 4, 5, 6} => k_overhead[k] = 0
    /\ s = 7 => k_overhead[k] = 1

(* How far the calibration is, from where init_timing() is.                *)
Progress ==
    Working =>
        /\ k_done /\ ~ k_before.done
        /\ k_stack[2].step = 2 => k_enough = 0 /\ k_ran.enough = 0
        /\ k_stack[2].step # 2 => k_enough > 0
        /\ k_stack[2].step \in {2, 3} => ~ k_init.t
        /\ k_stack[2].step # 5 => ~ k_init.l
        /\ k_stack[2].step = 4 => IF D = 2 THEN k_init.t /\ k_overhead.t = 1
                                  ELSE Measures("t", k_stack[3].step)
        /\ k_stack[2].step = 5 => /\ k_init.t /\ k_overhead.t = 1
                                  /\ IF D = 2 THEN k_init.l /\ k_overhead.l = 1
                                     ELSE Measures("l", k_stack[3].step)

(* No overhead is measured once it is known.                               *)
Once == /\ (k_overhead.t = 0 => k_ran.t = 0) /\ (k_overhead.l = 0 => k_ran.l = 0)
        /\ (~ k_init.t => k_overhead.t = 0) /\ (~ k_init.l => k_overhead.l = 0)

(* What the caller had; its time only if compute_enough() need not run.    *)
CallersOwn(x) ==
    /\ x.results = k_before.res.results
    /\ k_before.done \/ k_env.enough => x.time = k_before.res.time

(* It is in place, or in the frame that will put it back.                  *)
Saved ==
    /\ D >= 3 /\ k_stack[3].step >= 4 => k_stack[3].save \in Kept /\ CallersOwn(k_stack[3].save)
    /\ ~(D >= 3 /\ k_stack[3].step = 7) => CallersOwn(k_res)

CInv == CalibTypes /\ Nesting /\ Fresh /\ Complete /\ Progress /\ Once /\ Saved

-----------------------------------------------------------------------------
(* The stack after a step.                                                 *)
LEMMA Popped ==
  ASSUME CalibTypes, D >= 1, k_stack' = Calib!Front(k_stack)
  PROVE  /\ k_stack' \in Seq(Frames) /\ D' = D - 1 /\ D \in Nat
         /\ \A k \in 1 .. D - 1 : k_stack'[k] = k_stack[k]
<1>1. k_stack \in Seq(Frames) /\ D \in Nat /\ D = Len(k_stack)
  BY DEF CalibTypes, D
<1>2. k_stack' = SubSeq(k_stack, 1, D - 1)
  BY DEF Calib!Front, D
<1>3. k_stack' \in Seq(Frames)
  BY <1>1, <1>2
<1>4. Len(k_stack') = D - 1
  BY <1>1, <1>2
<1>5. \A k \in 1 .. D - 1 : k_stack'[k] = k_stack[k]
  BY <1>1, <1>2
<1> QED BY <1>1, <1>3, <1>4, <1>5 DEF D

\* One frame of the stack is replaced.
LEMMA Replaced ==
  ASSUME NEW S, NEW s \in Seq(S), NEW i \in 1 .. Len(s), NEW e \in S
  PROVE  [s EXCEPT ![i] = e] \in Seq(S) /\ Len([s EXCEPT ![i] = e]) = Len(s)
  OBVIOUS

\* The last call goes on.
LEMMA Stepped ==
  ASSUME CalibTypes, D >= 1, NEW n \in 1 .. 7, k_stack' = Calib!Goto(n)
  PROVE  /\ k_stack' \in Seq(Frames) /\ D' = D /\ D \in Nat
         /\ \A k \in 1 .. D - 1 : k_stack'[k] = k_stack[k]
         /\ k_stack'[D].fn = k_stack[D].fn /\ k_stack'[D].step = n /\ k_stack'[D].save = k_stack[D].save
<1>1. /\ k_stack \in Seq(Frames) /\ D \in Nat /\ D \in 1 .. Len(k_stack) /\ k_stack[D] \in Frames
  BY DEF CalibTypes, D
<1>2. k_stack' = [k_stack EXCEPT ![D] = [@ EXCEPT !.step = n]]
  BY DEF Calib!Goto, D
<1>3. [k_stack[D] EXCEPT !.step = n] \in Frames
  BY <1>1 DEF Frames
<1>4. k_stack'[D] = [k_stack[D] EXCEPT !.step = n] /\ D' = D /\ k_stack' \in Seq(Frames)
  BY <1>1, <1>2, <1>3 DEF D
<1>5. /\ k_stack'[D].fn = k_stack[D].fn /\ k_stack'[D].step = n /\ k_stack'[D].save = k_stack[D].save
  BY <1>1, <1>4 DEF Frames
<1>6. \A k \in 1 .. D - 1 : k_stack'[k] = k_stack[k]
  BY <1>1, <1>2 DEF D
<1> QED BY <1>1, <1>4, <1>5, <1>6

\* A function is called.
LEMMA Pushed ==
  ASSUME CalibTypes, D >= 1, NEW n \in 1 .. 7, NEW f \in Calib!Functions \cup {"init_timing"},
         k_stack' = Calib!Calling(f, n)
  PROVE  /\ k_stack' \in Seq(Frames) /\ D' = D + 1 /\ D \in Nat
         /\ \A k \in 1 .. D - 1 : k_stack'[k] = k_stack[k]
         /\ k_stack'[D].fn = k_stack[D].fn /\ k_stack'[D].step = n /\ k_stack'[D].save = k_stack[D].save
         /\ k_stack'[D + 1].fn = f /\ k_stack'[D + 1].step = 1
<1> DEFINE g == Calib!Goto(n)
<1>1. /\ k_stack \in Seq(Frames) /\ D \in Nat /\ D \in 1 .. Len(k_stack) /\ k_stack[D] \in Frames
  BY DEF CalibTypes, D
<1>2. g = [k_stack EXCEPT ![D] = [@ EXCEPT !.step = n]]
  BY DEF Calib!Goto, D
<1>3. [k_stack[D] EXCEPT !.step = n] \in Frames /\ Calib!Frame(f) \in Frames
  BY <1>1 DEF Frames, Calib!Frame
<1>4. g[D] = [k_stack[D] EXCEPT !.step = n] /\ Len(g) = D /\ g \in Seq(Frames)
  BY <1>1, <1>2, <1>3 DEF D
<1>5. /\ g[D].fn = k_stack[D].fn /\ g[D].step = n /\ g[D].save = k_stack[D].save
  BY <1>1, <1>4 DEF Frames
<1>6. \A k \in 1 .. D - 1 : g[k] = k_stack[k]
  BY <1>1, <1>2 DEF D
<1>7. k_stack' = Append(g, Calib!Frame(f))
  BY DEF Calib!Calling
<1> HIDE DEF g
<1>8. /\ k_stack' \in Seq(Frames) /\ D' = D + 1 /\ k_stack'[D + 1] = Calib!Frame(f)
      /\ \A k \in 1 .. D : k_stack'[k] = g[k]
  BY <1>1, <1>3, <1>4, <1>7 DEF D
<1>9. k_stack'[D + 1].fn = f /\ k_stack'[D + 1].step = 1
  BY <1>8 DEF Calib!Frame
<1> QED BY <1>1, <1>5, <1>6, <1>8, <1>9

\* The last call on the stack.
LEMMA StackTop ==
  ASSUME CalibTypes, NEW f, NEW n, Calib!At(f, n)
  PROVE  D \in Nat /\ D >= 1 /\ k_stack[D].fn = f /\ k_stack[D].step = n
  BY DEF CalibTypes, Calib!At, Calib!Top, Calib!Last, D

(* Where each step of each function can be.                                *)
LEMMA Places ==
  ASSUME CalibTypes, Nesting, D >= 1
  PROVE  /\ k_stack[D].fn = "init_timing" => D \in {2, 4, 5}
         /\ k_stack[D].fn = "init_timing" /\ k_stack[D].step # 1 => D = 2
         /\ k_stack[D].fn = "get_enough" => D \in {1, 4}
         /\ k_stack[D].fn = "t_overhead" => D \in {1, 3, 4}
         /\ k_stack[D].fn = "l_overhead" => D \in {1, 3}
         /\ k_stack[D].fn # "init_timing" /\ k_stack[D].step \notin {1, 2} => D = 3
<1>1. D \in 1 .. 5
  <2>1. D \in Nat
    BY DEF CalibTypes, D
  <2>2. D <= 5
    BY DEF Nesting
  <2> QED BY <2>1, <2>2
<1>2. CASE D = 1
  BY <1>2 DEF Nesting, Calib!Functions
<1>3. CASE D = 2
  BY <1>3 DEF Nesting, Calib!Functions
<1>4. CASE D = 3
  BY <1>4 DEF Nesting, Calib!Functions
<1>5. CASE D = 4
  BY <1>5 DEF Nesting, Calib!Functions
<1>6. CASE D = 5
  BY <1>6 DEF Nesting, Calib!Functions
<1> QED BY <1>1, <1>2, <1>3, <1>4, <1>5, <1>6

\* Before the first call.
LEMMA InitCInv == ASSUME Intervals, Calib!Init PROVE CInv
<1>1. D = 0 /\ ~k_done /\ k_stack = <<>>
  BY DEF Calib!Init, D
<1>2. CalibTypes
  <2>1. k_stack \in Seq(Frames) /\ k_done \in BOOLEAN /\ k_calls \in Nat
    <3>1. k_stack = <<>> /\ k_done = FALSE /\ k_calls = 0
      BY DEF Calib!Init
    <3>2. k_stack \in Seq(Frames)
      BY <3>1
    <3> QED BY <3>1, <3>2
  <2>2. k_res \in Kept /\ k_before \in [res : Kept, done : BOOLEAN]
    BY DEF Calib!Init, Kept, Owners
  <2>3. /\ k_init \in [t : BOOLEAN, l : BOOLEAN] /\ k_overhead \in [t : {0, 1}, l : {0, 1}]
        /\ k_env \in [enough : BOOLEAN, t : BOOLEAN, l : BOOLEAN]
        /\ k_ran \in [enough : {0, 1}, t : {0, 1}, l : {0, 1}] /\ k_enough = 0
    BY DEF Calib!Init
  <2> QED BY <2>1, <2>2, <2>3 DEF CalibTypes
<1> QED BY <1>1, <1>2 DEF Calib!Init, CInv, Nesting, Fresh, Complete, Progress, Once, Saved, Working,
                          CallersOwn

-----------------------------------------------------------------------------
LEMMA CallKeeps == ASSUME Intervals, CInv, Calib!Call PROVE CInv'
<1>1. /\ CalibTypes /\ Fresh /\ Complete /\ Once /\ Saved /\ D = 0
      /\ UNCHANGED <<k_done, k_init, k_enough, k_overhead, k_res, k_env, k_ran>>
      /\ k_before' = [res |-> k_res, done |-> k_done] /\ k_calls' = k_calls + 1
  BY DEF CInv, Calib!Call, D
<1>2. PICK f \in Calib!Functions : k_stack' = <<Calib!Frame(f)>>
  BY DEF Calib!Call
<1>3. /\ k_stack' \in Seq(Frames) /\ D' = 1 /\ k_stack'[1] = Calib!Frame(f)
      /\ k_stack'[1].fn = f /\ k_stack'[1].step = 1
  BY <1>2 DEF Calib!Frame, Frames, D
<1>4. k_before' \in [res : Kept, done : BOOLEAN] /\ k_before'.res = k_res /\ k_before'.done = k_done
  BY <1>1 DEF CalibTypes
<1>5. CalibTypes'
  BY <1>1, <1>3, <1>4 DEF CalibTypes
<1>6. Nesting' /\ ~Working' /\ ~Working
  BY <1>1, <1>3 DEF Nesting, Working
<1>7. Fresh' /\ Complete'
  BY <1>1, <1>3, <1>4, <1>6 DEF Fresh, Complete
<1>8. Once' /\ Progress' /\ Saved'
  BY <1>1, <1>3, <1>4, <1>6 DEF Once, Progress, Saved, CallersOwn
<1> QED BY <1>5, <1>6, <1>7, <1>8 DEF CInv

(* A return to the caller of a function that has nothing to do.            *)
LEMMA PopKeeps ==
  ASSUME Intervals, CInv, D >= 1, k_stack' = Calib!Front(k_stack),
         UNCHANGED <<k_done, k_init, k_enough, k_overhead, k_res, k_env, k_ran, k_calls, k_before>>,
         k_done, D # 3, D = 2 => k_stack[2].step \in {1, 5}
  PROVE  CInv'
<1>1. CalibTypes /\ Nesting /\ Fresh /\ Complete /\ Progress /\ Once /\ Saved
  BY DEF CInv
<1>2. /\ k_stack' \in Seq(Frames) /\ D' = D - 1 /\ D \in Nat
      /\ \A k \in 1 .. D - 1 : k_stack'[k] = k_stack[k]
  BY <1>1, Popped
<1>3. CalibTypes' /\ Once'
  BY <1>1, <1>2 DEF CalibTypes, Once
<1>4. Nesting'
  <2>1. D \in 1 .. 5
    BY <1>1, <1>2 DEF Nesting
  <2> QED BY <2>1, <1>1, <1>2 DEF Nesting
<1>5. Fresh'
  BY DEF Fresh
<1>6. CASE D = 1
  BY <1>1, <1>2, <1>3, <1>4, <1>5, <1>6 DEF CInv, Complete, Progress, Saved, Working, CallersOwn
<1>7. CASE D = 2
  BY <1>1, <1>2, <1>3, <1>4, <1>5, <1>7 DEF CInv, Complete, Progress, Saved, Working, CallersOwn
<1>8. CASE D >= 4
  <2>1. k_stack'[2] = k_stack[2] /\ k_stack'[3] = k_stack[3] /\ D' >= 3
    BY <1>2, <1>8
  <2> QED BY <2>1, <1>1, <1>2, <1>3, <1>4, <1>5, <1>8
          DEF CInv, Complete, Progress, Saved, Working, CallersOwn, Measures
<1> QED BY <1>2, <1>6, <1>7, <1>8

LEMMA EnterKeeps == ASSUME Intervals, CInv, Calib!Enter PROVE CInv'
<1>1. CalibTypes /\ Nesting /\ Fresh /\ Complete /\ Progress /\ Once /\ Saved
  BY DEF CInv
<1>2. PICK f \in Calib!Functions : Calib!At(f, 1) /\ Calib!JustCall("init_timing", 2)
  BY DEF Calib!Enter
<1>3. /\ D \in Nat /\ D >= 1 /\ k_stack[D].fn = f /\ k_stack[D].step = 1
      /\ k_stack' = Calib!Calling("init_timing", 2)
      /\ UNCHANGED <<k_done, k_init, k_enough, k_overhead, k_res, k_env, k_ran, k_calls, k_before>>
  BY <1>1, <1>2, StackTop DEF Calib!JustCall
<1>4. D \in {1, 3, 4}
  BY <1>1, <1>3, Places DEF Calib!Functions
<1>5. /\ k_stack' \in Seq(Frames) /\ D' = D + 1 /\ D \in Nat
      /\ \A k \in 1 .. D - 1 : k_stack'[k] = k_stack[k]
      /\ k_stack'[D].fn = k_stack[D].fn /\ k_stack'[D].step = 2 /\ k_stack'[D].save = k_stack[D].save
      /\ k_stack'[D + 1].fn = "init_timing" /\ k_stack'[D + 1].step = 1
  BY <1>1, <1>3, Pushed
<1>6. CalibTypes' /\ Once'
  BY <1>1, <1>3, <1>5 DEF CalibTypes, Once
<1>7. CASE D = 1
  <2>1. /\ D' = 2 /\ k_stack'[1].fn \in Calib!Functions /\ k_stack'[1].step = 2
        /\ k_stack'[2].fn = "init_timing" /\ k_stack'[2].step = 1 /\ ~Working' /\ ~Working
    BY <1>3, <1>5, <1>7 DEF Working
  <2>2. Nesting'
    BY <2>1 DEF Nesting
  <2>3. Fresh' /\ Complete' /\ Progress' /\ Saved'
    BY <2>1, <1>1, <1>3, <1>7 DEF Fresh, Complete, Progress, Saved, CallersOwn
  <2> QED BY <2>2, <2>3, <1>6 DEF CInv
<1>8. CASE D = 3
  <2>1. /\ D' = 4 /\ k_stack'[1] = k_stack[1] /\ k_stack'[2] = k_stack[2] /\ k_stack'[3].fn = k_stack[3].fn
        /\ k_stack'[3].step = 2 /\ k_stack'[4].fn = "init_timing" /\ k_stack'[4].step = 1
        /\ k_stack[3].step = 1
    BY <1>3, <1>5, <1>8
  <2>2. Nesting' /\ Working /\ Working'
    BY <2>1, <1>1, <1>8 DEF Nesting, Working
  <2>3. Fresh' /\ Complete'
    BY <2>2, <1>1, <1>3 DEF Fresh, Complete, Progress
  <2>4. Progress'
    BY <2>1, <2>2, <1>1, <1>3, <1>8 DEF Progress, Measures
  <2>5. Saved'
    BY <2>1, <1>1, <1>3, <1>8 DEF Saved, CallersOwn
  <2> QED BY <2>2, <2>3, <2>4, <2>5, <1>6 DEF CInv
<1>9. CASE D = 4
  <2>1. /\ D' = 5 /\ k_stack'[1] = k_stack[1] /\ k_stack'[2] = k_stack[2] /\ k_stack'[3] = k_stack[3]
        /\ k_stack'[4].fn = f /\ k_stack[4].fn = f /\ f # "init_timing"
        /\ k_stack'[4].step = 2 /\ k_stack'[5].fn = "init_timing" /\ k_stack'[5].step = 1
    BY <1>3, <1>5, <1>9 DEF Calib!Functions
  <2>2. Nesting' /\ Working /\ Working'
    BY <2>1, <1>1, <1>9 DEF Nesting, Working
  <2>3. Fresh' /\ Complete'
    BY <2>2, <1>1, <1>3 DEF Fresh, Complete, Progress
  <2>4. Progress'
    BY <2>1, <2>2, <1>1, <1>3, <1>9 DEF Progress, Measures
  <2>5. Saved'
    BY <2>1, <1>1, <1>3, <1>9 DEF Saved, CallersOwn
  <2> QED BY <2>2, <2>3, <2>4, <2>5, <1>6 DEF CInv
<1> QED BY <1>4, <1>7, <1>8, <1>9

LEMMA GetEnoughKeeps == ASSUME Intervals, CInv, Calib!get_enough PROVE CInv'
<1>1. CalibTypes /\ Nesting /\ Fresh /\ Progress
  BY DEF CInv
<1>2. /\ D \in Nat /\ D >= 1 /\ k_stack[D].fn = "get_enough" /\ k_stack[D].step = 2
      /\ k_stack' = Calib!Front(k_stack)
      /\ UNCHANGED <<k_done, k_init, k_enough, k_overhead, k_res, k_env, k_ran, k_calls, k_before>>
  BY <1>1, StackTop DEF Calib!get_enough, Calib!Return
<1>3. D \in {1, 4}
  BY <1>1, <1>2, Places
<1>4. k_done
  BY <1>1, <1>2, <1>3 DEF Fresh
<1> QED BY <1>2, <1>3, <1>4, PopKeeps

LEMMA InitTimingKeeps == ASSUME Intervals, CInv, Calib!init_timing PROVE CInv'
<1>1. CalibTypes /\ Nesting /\ Fresh /\ Complete /\ Progress /\ Once /\ Saved
  BY DEF CInv
<1>2. D \in Nat /\ D >= 1 /\ k_stack[D].fn = "init_timing" /\ k_stack[D].step = 1
  BY <1>1, StackTop DEF Calib!init_timing
<1>3. D \in {2, 4, 5}
  BY <1>1, <1>2, Places
<1>4. CASE k_done
  <2>1. /\ k_stack' = Calib!Front(k_stack)
        /\ UNCHANGED <<k_done, k_init, k_enough, k_overhead, k_res, k_env, k_ran, k_calls, k_before>>
    BY <1>4 DEF Calib!init_timing, Calib!Return
  <2> QED BY <2>1, <1>2, <1>3, <1>4, PopKeeps
<1>5. CASE ~k_done
  <2>1. /\ k_done' = TRUE /\ k_stack' = Calib!Goto(2)
        /\ UNCHANGED <<k_init, k_enough, k_overhead, k_res, k_env, k_ran, k_calls, k_before>>
    BY <1>5 DEF Calib!init_timing
  <2>2. D = 2 /\ ~Working
    BY <1>1, <1>2, <1>3, <1>5 DEF Fresh, Working
  <2>3. /\ k_stack' \in Seq(Frames) /\ D' = 2 /\ k_stack'[1] = k_stack[1]
        /\ k_stack'[2].fn = "init_timing" /\ k_stack'[2].step = 2
    BY <1>1, <1>2, <2>1, <2>2, Stepped
  <2>4. CalibTypes'
    BY <1>1, <2>1, <2>3 DEF CalibTypes
  <2>5. Nesting' /\ Once' /\ Working'
    BY <1>1, <2>1, <2>2, <2>3 DEF Nesting, Once, Working
  <2>6. Fresh' /\ Complete' /\ Progress'
    BY <1>1, <1>5, <2>1, <2>2, <2>3, <2>5 DEF Fresh, Complete, Progress
  <2>7. Saved'
    BY <1>1, <2>1, <2>2, <2>3 DEF Saved, CallersOwn
  <2> QED BY <2>4, <2>5, <2>6, <2>7 DEF CInv
<1> QED BY <1>4, <1>5

LEMMA ComputeEnoughKeeps == ASSUME Intervals, CInv, Calib!compute_enough PROVE CInv'
<1>1. CalibTypes /\ Nesting /\ Fresh /\ Complete /\ Progress /\ Once /\ Saved
  BY DEF CInv
<1>2. /\ D \in Nat /\ D >= 1 /\ k_stack[D].fn = "init_timing" /\ k_stack[D].step = 2
      /\ k_stack' = Calib!Goto(3) /\ k_ran' = [k_ran EXCEPT !.enough = @ + 1]
      /\ UNCHANGED <<k_done, k_init, k_overhead, k_env, k_calls, k_before>>
  BY <1>1, StackTop DEF Calib!compute_enough
<1>3. D = 2 /\ Working
  BY <1>1, <1>2, Places DEF Working
<1>4. /\ k_stack' \in Seq(Frames) /\ D' = 2 /\ k_stack'[1] = k_stack[1]
      /\ k_stack'[2].fn = "init_timing" /\ k_stack'[2].step = 3 /\ Working'
  BY <1>1, <1>2, <1>3, Stepped DEF Working
<1>5. k_done /\ ~k_before.done /\ k_enough = 0 /\ k_ran.enough = 0 /\ ~k_init.t /\ ~k_init.l
  BY <1>1, <1>2, <1>3 DEF Progress
<1>6. k_enough' \in Possibilities \cup {Default} /\ k_enough' \in Nat /\ k_enough' > 0
  <2>1. Calib!Min(Possibilities) \in Possibilities
    BY DEF Intervals, Calib!Min
  <2>2. k_enough' \in Possibilities \cup {Default}
    BY <2>1 DEF Calib!compute_enough
  <2> QED BY <2>2 DEF Intervals
<1>7. k_res' \in Kept /\ CallersOwn(k_res)'
  <2>1. k_res \in Kept /\ CallersOwn(k_res)
    BY <1>1, <1>3 DEF CalibTypes, Saved
  <2>2. CASE k_env.enough
    BY <2>1, <2>2, <1>2 DEF Calib!compute_enough, CallersOwn
  <2>3. CASE ~k_env.enough
    <3>1. k_res' = [k_res EXCEPT !.time = "median"]
      BY <2>3 DEF Calib!compute_enough
    <3>2. k_res' \in Kept /\ k_res'.results = k_res.results
      BY <2>1, <3>1 DEF Kept, Owners
    <3> QED BY <3>2, <2>1, <2>3, <1>2, <1>5 DEF CallersOwn
  <2> QED BY <2>2, <2>3
<1>8. /\ k_ran' \in [enough : {0, 1}, t : {0, 1}, l : {0, 1}] /\ k_ran'.t = k_ran.t /\ k_ran'.l = k_ran.l
  BY <1>1, <1>2, <1>5 DEF CalibTypes
<1>9. CalibTypes' /\ Once'
  BY <1>1, <1>2, <1>4, <1>6, <1>7, <1>8 DEF CalibTypes, Once
<1>10. Nesting'
  BY <1>1, <1>3, <1>4 DEF Nesting
<1>11. Fresh' /\ Complete' /\ Progress' /\ Saved'
  BY <1>2, <1>4, <1>5, <1>6, <1>7 DEF Fresh, Complete, Progress, Saved
<1> QED BY <1>9, <1>10, <1>11 DEF CInv

LEMMA InitCallsKeeps == ASSUME Intervals, CInv, Calib!InitCalls PROVE CInv'
<1>1. CalibTypes /\ Nesting /\ Fresh /\ Complete /\ Progress /\ Once /\ Saved
  BY DEF CInv
<1>2. ASSUME NEW f \in {"t_overhead", "l_overhead"}, NEW n \in {4, 5},
             Calib!At("init_timing", n - 1), Calib!JustCall(f, n), n = 4 <=> f = "t_overhead"
      PROVE  CInv'
  <2>1. /\ D \in Nat /\ D >= 1 /\ k_stack[D].fn = "init_timing" /\ k_stack[D].step = n - 1
        /\ k_stack' = Calib!Calling(f, n)
        /\ UNCHANGED <<k_done, k_init, k_enough, k_overhead, k_res, k_env, k_ran, k_calls, k_before>>
    BY <1>1, <1>2, StackTop DEF Calib!JustCall
  <2>2. D = 2 /\ Working
    BY <1>1, <2>1, Places DEF Working
  <2>3. /\ k_stack' \in Seq(Frames) /\ D' = 3 /\ k_stack'[1] = k_stack[1]
        /\ k_stack'[2].fn = "init_timing" /\ k_stack'[2].step = n
        /\ k_stack'[3].fn = f /\ k_stack'[3].step = 1 /\ Working'
    BY <1>1, <2>1, <2>2, Pushed DEF Calib!Functions, Working
  <2>4. CalibTypes' /\ Once'
    BY <1>1, <2>1, <2>3 DEF CalibTypes, Once
  <2>5. Nesting'
    BY <1>1, <1>2, <2>2, <2>3 DEF Nesting
  <2>6. k_done /\ Fresh' /\ Complete'
    BY <1>1, <2>1, <2>2, <2>3 DEF Fresh, Complete, Progress
  <2>7. Progress'
    BY <1>1, <2>1, <2>2, <2>3 DEF Progress, Measures
  <2>8. Saved'
    BY <1>1, <2>1, <2>2, <2>3 DEF Saved, CallersOwn
  <2> QED BY <2>4, <2>5, <2>6, <2>7, <2>8 DEF CInv
<1>3. CASE Calib!At("init_timing", 3) /\ Calib!JustCall("t_overhead", 4)
  <2>1. Calib!At("init_timing", 4 - 1)
    BY <1>3
  <2> QED BY <2>1, <1>2, <1>3
<1>4. CASE Calib!At("init_timing", 4) /\ Calib!JustCall("l_overhead", 5)
  <2>1. Calib!At("init_timing", 5 - 1)
    BY <1>4
  <2> QED BY <2>1, <1>2, <1>4
<1>5. CASE Calib!At("init_timing", 5) /\ Calib!Return
  <2>1. /\ D \in Nat /\ D >= 1 /\ k_stack[D].fn = "init_timing" /\ k_stack[D].step = 5
        /\ k_stack' = Calib!Front(k_stack)
        /\ UNCHANGED <<k_done, k_init, k_enough, k_overhead, k_res, k_env, k_ran, k_calls, k_before>>
    BY <1>1, <1>5, StackTop DEF Calib!Return
  <2>2. D = 2 /\ Working
    BY <1>1, <2>1, Places DEF Working
  <2>3. k_done
    BY <1>1, <2>2 DEF Progress
  <2> QED BY <2>1, <2>2, <2>3, PopKeeps
<1> QED BY <1>3, <1>4, <1>5 DEF Calib!InitCalls

(* The frame that computes an overhead.                                    *)
LEMMA Third ==
  ASSUME CalibTypes, Nesting, Progress, D = 3, NEW f \in {"t_overhead", "l_overhead"}, k_stack[3].fn = f
  PROVE  /\ Working /\ k_done /\ ~k_before.done /\ k_enough > 0
         /\ Measures(Calib!Key(f), k_stack[3].step)
         /\ k_stack[2].step = IF f = "t_overhead" THEN 4 ELSE 5
<1>1. k_stack[2].step = IF f = "t_overhead" THEN 4 ELSE 5
  BY DEF Nesting
<1> QED BY <1>1 DEF Progress, Working, Calib!Key

(* It goes on to its next step.                                            *)
LEMMA Advance ==
  ASSUME Intervals, CalibTypes, Nesting, Progress, D = 3, NEW f \in {"t_overhead", "l_overhead"},
         k_stack[3].fn = f, NEW n \in {3, 4, 7},
         k_stack' \in Seq(Frames), D' = 3, k_stack'[1] = k_stack[1], k_stack'[2] = k_stack[2],
         k_stack'[3].fn = f, k_stack'[3].step = n,
         UNCHANGED <<k_done, k_enough, k_env, k_calls, k_before>>,
         \A k \in {"t", "l"} : k # Calib!Key(f) => k_init'[k] = k_init[k] /\ k_overhead'[k] = k_overhead[k],
         k_init'[Calib!Key(f)], n = 7 => k_overhead'[Calib!Key(f)] = 1, n # 7 => k_overhead'[Calib!Key(f)] = 0
  PROVE  Nesting' /\ Fresh' /\ Complete' /\ Progress'
<1>1. /\ Working /\ k_done /\ ~k_before.done /\ k_enough > 0
      /\ Measures(Calib!Key(f), k_stack[3].step)
      /\ k_stack[2].step = IF f = "t_overhead" THEN 4 ELSE 5
  BY Third
<1>2. Working' /\ k_done' /\ Fresh' /\ Complete'
  BY <1>1 DEF Working, Fresh, Complete
<1>3. Nesting'
  BY DEF Nesting
<1>4. CASE f = "t_overhead"
  <2>1. Measures("t", k_stack[3].step)' /\ ~k_init'.l
    BY <1>1, <1>4 DEF Measures, Calib!Key, Progress
  <2> QED BY <1>1, <1>2, <1>3, <1>4, <2>1 DEF Progress
<1>5. CASE f = "l_overhead"
  <2>1. Measures("l", k_stack[3].step)' /\ k_init'.t /\ k_overhead'.t = 1
    BY <1>1, <1>5 DEF Measures, Calib!Key, Progress
  <2> QED BY <1>1, <1>2, <1>3, <1>5, <2>1 DEF Progress
<1> QED BY <1>4, <1>5

LEMMA BeginKeeps == ASSUME Intervals, CInv, Calib!Begin PROVE CInv'
<1>1. CalibTypes /\ Nesting /\ Fresh /\ Complete /\ Progress /\ Once /\ Saved
  BY DEF CInv
<1>2. PICK f \in {"t_overhead", "l_overhead"} :
        /\ Calib!At(f, 2)
        /\ IF k_init[Calib!Key(f)] THEN Calib!Return
           ELSE /\ k_init' = [k_init EXCEPT ![Calib!Key(f)] = TRUE]
                /\ k_stack' = Calib!Goto(3)
                /\ UNCHANGED <<k_done, k_enough, k_overhead, k_res, k_env, k_ran, k_calls, k_before>>
  BY DEF Calib!Begin
<1>3. D \in Nat /\ D >= 1 /\ k_stack[D].fn = f /\ k_stack[D].step = 2
  BY <1>1, <1>2, StackTop
<1>4. D \in {1, 3, 4} /\ (D = 4 => f = "t_overhead" /\ k_stack[3].step = 6)
  <2>1. D \in {1, 3, 4}
    BY <1>1, <1>3, Places
  <2>2. D = 4 => k_stack[4].fn = f /\ k_stack[3].step \in {2, 5, 6}
    BY <1>1, <1>3 DEF Nesting
  <2>3. D = 4 => k_stack[3].step = 6
    BY <2>2, <1>1 DEF Nesting
  <2>4. D = 4 => f = "t_overhead"
    BY <2>2, <2>3, <1>1 DEF Nesting
  <2> QED BY <2>1, <2>3, <2>4
<1>5. CASE D # 3
  <2>1. k_done /\ k_init[Calib!Key(f)]
    <3>1. CASE D = 1
      <4>1. k_done /\ ~Working
        BY <3>1, <1>1, <1>3 DEF Fresh, Working
      <4> QED BY <4>1, <1>1 DEF Complete, Calib!Key
    <3>2. CASE D = 4
      <4>1. k_stack[2].step = 5
        BY <3>2, <1>1, <1>4 DEF Nesting
      <4>2. Working
        BY <3>2, <4>1 DEF Working
      <4> QED BY <4>1, <4>2, <3>2, <1>1, <1>4 DEF Progress, Calib!Key
    <3> QED BY <3>1, <3>2, <1>4, <1>5
  <2>2. /\ k_stack' = Calib!Front(k_stack)
        /\ UNCHANGED <<k_done, k_init, k_enough, k_overhead, k_res, k_env, k_ran, k_calls, k_before>>
    BY <2>1, <1>2 DEF Calib!Return
  <2> QED BY <2>1, <2>2, <1>3, <1>4, <1>5, PopKeeps
<1>6. CASE D = 3
  <2>1. /\ Working /\ Measures(Calib!Key(f), 2)
    BY <1>1, <1>3, <1>6, Third
  <2>2. ~k_init[Calib!Key(f)]
    BY <2>1 DEF Measures
  <2>3. /\ k_init' = [k_init EXCEPT ![Calib!Key(f)] = TRUE]
        /\ k_stack' = Calib!Goto(3)
        /\ UNCHANGED <<k_done, k_enough, k_overhead, k_res, k_env, k_ran, k_calls, k_before>>
    BY <2>2, <1>2
  <2>4. /\ k_stack' \in Seq(Frames) /\ D' = 3 /\ k_stack'[1] = k_stack[1] /\ k_stack'[2] = k_stack[2]
        /\ k_stack'[3].fn = f /\ k_stack'[3].step = 3
    BY <1>1, <1>3, <1>6, <2>3, Stepped
  <2>5. /\ k_init' \in [t : BOOLEAN, l : BOOLEAN] /\ k_init'[Calib!Key(f)]
        /\ \A k \in {"t", "l"} : k # Calib!Key(f) => k_init'[k] = k_init[k]
    BY <1>1, <2>3 DEF CalibTypes, Calib!Key
  <2>6. k_overhead[Calib!Key(f)] = 0
    BY <1>1, <2>2 DEF Once, Calib!Key
  <2>7. Nesting' /\ Fresh' /\ Complete' /\ Progress'
    <3>1. k_overhead'[Calib!Key(f)] = 0 /\ 3 \in {3, 4, 7} /\ 3 # 7
      BY <2>3, <2>6
    <3>2. \A k \in {"t", "l"} : k # Calib!Key(f) => k_init'[k] = k_init[k] /\ k_overhead'[k] = k_overhead[k]
      BY <2>3, <2>5
    <3>3. k_stack[3].fn = f
      BY <1>3, <1>6
    <3> QED BY <3>1, <3>2, <3>3, <1>1, <1>6, <2>3, <2>4, <2>5, Advance
  <2>8. CalibTypes'
    BY <1>1, <2>3, <2>4, <2>5 DEF CalibTypes
  <2>9. Once'
    BY <1>1, <2>3, <2>5, <2>6 DEF Once, Calib!Key
  <2>10. Saved'
    BY <1>1, <1>3, <1>6, <2>3, <2>4 DEF Saved, CallersOwn
  <2> QED BY <2>7, <2>8, <2>9, <2>10 DEF CInv
<1> QED BY <1>5, <1>6

(* The frame returns, and its overhead is known.                           *)
LEMMA ThirdReturns ==
  ASSUME Intervals, CalibTypes, Nesting, Progress, D = 3, NEW f \in {"t_overhead", "l_overhead"},
         k_stack[3].fn = f, k_stack' = Calib!Front(k_stack), k_overhead'[Calib!Key(f)] = 1, k_init[Calib!Key(f)],
         \A k \in {"t", "l"} : k # Calib!Key(f) => k_overhead'[k] = k_overhead[k],
         UNCHANGED <<k_done, k_init, k_enough, k_env, k_calls, k_before>>
  PROVE  Nesting' /\ Fresh' /\ Complete' /\ Progress' /\ k_stack' \in Seq(Frames) /\ D' = 2
<1>1. /\ Working /\ k_done /\ ~k_before.done /\ k_enough > 0
      /\ Measures(Calib!Key(f), k_stack[3].step)
      /\ k_stack[2].step = IF f = "t_overhead" THEN 4 ELSE 5
  BY Third
<1>2. /\ k_stack' \in Seq(Frames) /\ D' = 2 /\ k_stack'[1] = k_stack[1] /\ k_stack'[2] = k_stack[2]
  BY Popped
<1>3. Working' /\ k_done' /\ Fresh' /\ Complete'
  BY <1>1, <1>2 DEF Working, Fresh, Complete
<1>4. Nesting'
  BY <1>2 DEF Nesting
<1>5. CASE f = "t_overhead"
  <2>1. k_overhead'.t = 1 /\ k_init.t /\ ~k_init.l
    BY <1>1, <1>5 DEF Calib!Key, Progress
  <2> QED BY <1>1, <1>2, <1>3, <1>4, <1>5, <2>1 DEF Progress
<1>6. CASE f = "l_overhead"
  <2>1. k_overhead'.l = 1 /\ k_init.l /\ k_init.t /\ k_overhead'.t = 1
    BY <1>1, <1>6 DEF Calib!Key, Progress
  <2> QED BY <1>1, <1>2, <1>3, <1>4, <1>6, <2>1 DEF Progress
<1> QED BY <1>5, <1>6

LEMMA GivenKeeps == ASSUME Intervals, CInv, Calib!Given PROVE CInv'
<1>1. CalibTypes /\ Nesting /\ Fresh /\ Complete /\ Progress /\ Once /\ Saved
  BY DEF CInv
<1>2. PICK f \in {"t_overhead", "l_overhead"} :
        /\ Calib!At(f, 3)
        /\ k_overhead' = [k_overhead EXCEPT ![Calib!Key(f)] = 1]
        /\ k_stack' = Calib!Front(k_stack)
        /\ UNCHANGED <<k_done, k_init, k_enough, k_res, k_env, k_ran, k_calls, k_before>>
  BY DEF Calib!Given
<1>3. D \in Nat /\ D >= 1 /\ k_stack[D].fn = f /\ k_stack[D].step = 3
  BY <1>1, <1>2, StackTop
<1>4. D = 3 /\ k_stack[3].fn = f /\ k_stack[3].step = 3
  BY <1>1, <1>3, Places
<1>5. Measures(Calib!Key(f), 3)
  BY <1>1, <1>4, Third
<1>6. k_init[Calib!Key(f)]
  BY <1>5 DEF Measures
<1>7. /\ k_overhead' \in [t : {0, 1}, l : {0, 1}] /\ k_overhead'[Calib!Key(f)] = 1
      /\ \A k \in {"t", "l"} : k # Calib!Key(f) => k_overhead'[k] = k_overhead[k]
  BY <1>1, <1>2 DEF CalibTypes, Calib!Key
<1>8. Nesting' /\ Fresh' /\ Complete' /\ Progress' /\ k_stack' \in Seq(Frames) /\ D' = 2
  BY <1>1, <1>2, <1>4, <1>6, <1>7, ThirdReturns
<1>9. CalibTypes'
  BY <1>1, <1>2, <1>7, <1>8 DEF CalibTypes
<1>10. Once'
  BY <1>1, <1>2, <1>6, <1>7 DEF Once, Calib!Key
<1>11. Saved'
  BY <1>1, <1>2, <1>4, <1>8 DEF Saved, CallersOwn
<1> QED BY <1>8, <1>9, <1>10, <1>11 DEF CInv

LEMMA SaveKeeps == ASSUME Intervals, CInv, Calib!Save PROVE CInv'
<1>1. CalibTypes /\ Nesting /\ Fresh /\ Complete /\ Progress /\ Once /\ Saved
  BY DEF CInv
<1>2. PICK f \in {"t_overhead", "l_overhead"} :
        /\ Calib!At(f, 3)
        /\ k_stack' = [k_stack EXCEPT ![Len(k_stack)] = [fn |-> f, step |-> 4, save |-> k_res]]
        /\ UNCHANGED <<k_done, k_init, k_enough, k_overhead, k_res, k_env, k_ran, k_calls, k_before>>
  BY DEF Calib!Save
<1>3. D \in Nat /\ D >= 1 /\ k_stack[D].fn = f /\ k_stack[D].step = 3
  BY <1>1, <1>2, StackTop
<1>4. D = 3 /\ k_stack[3].fn = f /\ k_stack[3].step = 3
  BY <1>1, <1>3, Places
<1>5. k_init[Calib!Key(f)] /\ k_overhead[Calib!Key(f)] = 0
  BY <1>1, <1>4, Third DEF Measures
<1> DEFINE new == [fn |-> f, step |-> 4, save |-> k_res]
<1>6. new \in Frames /\ new.fn = f /\ new.step = 4 /\ new.save = k_res /\ k_res \in Kept
  BY <1>1 DEF CalibTypes, Frames, Calib!Functions
<1>7. /\ k_stack' \in Seq(Frames) /\ D' = 3 /\ k_stack'[1] = k_stack[1] /\ k_stack'[2] = k_stack[2]
      /\ k_stack'[3] = new
  <2>0. k_stack \in Seq(Frames)
    BY <1>1 DEF CalibTypes
  <2>1. k_stack \in Seq(Frames) /\ Len(k_stack) = 3 /\ k_stack' = [k_stack EXCEPT ![3] = new]
    BY <2>0, <1>2, <1>4 DEF D
  <2>2. new \in Frames
    BY <1>6
  <2> HIDE DEF new
  <2>3. k_stack' \in Seq(Frames) /\ Len(k_stack') = 3
    <3>1. 3 \in 1 .. Len(k_stack)
      BY <2>1
    <3>2. /\ [k_stack EXCEPT ![3] = new] \in Seq(Frames)
          /\ Len([k_stack EXCEPT ![3] = new]) = Len(k_stack)
      BY ONLY <2>0, <2>2, <3>1, Replaced
    <3> QED BY ONLY <2>1, <3>2
  <2>4. k_stack'[1] = k_stack[1] /\ k_stack'[2] = k_stack[2] /\ k_stack'[3] = new
    BY <2>1
  <2> QED BY <2>3, <2>4 DEF D
<1>8. /\ k_stack'[3].fn = f /\ k_stack'[3].step = 4 /\ k_stack'[3].save = k_res
  BY <1>6, <1>7
<1>9. Nesting' /\ Fresh' /\ Complete' /\ Progress'
  <2>1. k_overhead'[Calib!Key(f)] = 0 /\ 4 \in {3, 4, 7} /\ 4 # 7 /\ k_init'[Calib!Key(f)]
    BY <1>2, <1>5
  <2>2. \A k \in {"t", "l"} : k # Calib!Key(f) => k_init'[k] = k_init[k] /\ k_overhead'[k] = k_overhead[k]
    BY <1>2
  <2> HIDE DEF new
  <2> QED BY <2>1, <2>2, <1>1, <1>2, <1>4, <1>7, <1>8, Advance
<1>10. CalibTypes' /\ Once'
  BY <1>1, <1>2, <1>7 DEF CalibTypes, Once
<1>11. Saved'
  BY <1>1, <1>2, <1>4, <1>6, <1>7, <1>8 DEF Saved, CallersOwn
<1> QED BY <1>9, <1>10, <1>11 DEF CInv

LEMMA NestedKeeps == ASSUME Intervals, CInv, Calib!Nested PROVE CInv'
<1>1. CalibTypes /\ Nesting /\ Fresh /\ Complete /\ Progress /\ Once /\ Saved
  BY DEF CInv
<1>2. PICK f \in {"t_overhead", "l_overhead"}, m \in {4, 5}, g \in {"get_enough", "t_overhead"} :
        /\ Calib!At(f, m) /\ Calib!JustCall(g, m + 1)
        /\ m = 4 => g = "get_enough"
        /\ m = 5 => g = "t_overhead" /\ f = "l_overhead"
  <2>1. CASE \E f \in {"t_overhead", "l_overhead"} : Calib!At(f, 4) /\ Calib!JustCall("get_enough", 5)
    <3>1. 4 + 1 = 5 /\ 4 # 5
      OBVIOUS
    <3> QED BY <2>1, <3>1
  <2>2. CASE Calib!At("l_overhead", 5) /\ Calib!JustCall("t_overhead", 6)
    <3>1. 5 + 1 = 6 /\ 4 # 5
      OBVIOUS
    <3> QED BY <2>2, <3>1
  <2> QED BY <2>1, <2>2 DEF Calib!Nested
<1>3. /\ D \in Nat /\ D >= 1 /\ k_stack[D].fn = f /\ k_stack[D].step = m /\ k_stack' = Calib!Calling(g, m + 1)
      /\ UNCHANGED <<k_done, k_init, k_enough, k_overhead, k_res, k_env, k_ran, k_calls, k_before>>
  BY <1>1, <1>2, StackTop DEF Calib!JustCall
<1>4. D = 3 /\ k_stack[3].fn = f /\ k_stack[3].step = m
  BY <1>1, <1>3, Places
<1>5. /\ Working /\ k_done /\ Measures(Calib!Key(f), m)
      /\ k_stack[2].step = IF f = "t_overhead" THEN 4 ELSE 5
  BY <1>1, <1>4, Third
<1>6. /\ k_stack' \in Seq(Frames) /\ D' = 4 /\ k_stack'[1] = k_stack[1] /\ k_stack'[2] = k_stack[2]
      /\ k_stack'[3].fn = f /\ k_stack'[3].step = m + 1 /\ k_stack'[3].save = k_stack[3].save
      /\ k_stack'[4].fn = g /\ k_stack'[4].step = 1
  <2>1. m + 1 \in 1 .. 7 /\ g \in Calib!Functions \cup {"init_timing"}
    BY DEF Calib!Functions
  <2> QED BY <2>1, <1>1, <1>3, <1>4, Pushed
<1>7. CalibTypes' /\ Once'
  BY <1>1, <1>3, <1>6 DEF CalibTypes, Once
<1>8. Nesting'
  BY <1>1, <1>2, <1>4, <1>5, <1>6 DEF Nesting
<1>9. Fresh' /\ Complete' /\ Working'
  BY <1>3, <1>4, <1>5, <1>6 DEF Fresh, Complete, Working
<1>10. Measures(Calib!Key(f), m + 1)
  BY <1>5 DEF Measures
<1>11. Progress'
  BY <1>1, <1>3, <1>4, <1>5, <1>6, <1>10 DEF Progress, Calib!Key, Measures
<1>12. Saved'
  BY <1>1, <1>3, <1>4, <1>6 DEF Saved, CallersOwn
<1> QED BY <1>7, <1>8, <1>9, <1>11, <1>12 DEF CInv

LEMMA MeasureKeeps == ASSUME Intervals, CInv, Calib!MeasureOverhead PROVE CInv'
<1>1. CalibTypes /\ Nesting /\ Fresh /\ Complete /\ Progress /\ Once /\ Saved
  BY DEF CInv
<1>2. PICK f \in {"t_overhead", "l_overhead"} :
        /\ Calib!At(f, IF f = "t_overhead" THEN 5 ELSE 6)
        /\ k_stack' = Calib!Goto(7)
        /\ k_res' = [results |-> f, time |-> f]
        /\ k_overhead' = [k_overhead EXCEPT ![Calib!Key(f)] = 1]
        /\ k_ran' = [k_ran EXCEPT ![Calib!Key(f)] = IF k_enough = 0 THEN 99 ELSE @ + 1]
        /\ UNCHANGED <<k_done, k_init, k_enough, k_env, k_calls, k_before>>
  BY DEF Calib!MeasureOverhead
<1>3. D \in Nat /\ D >= 1 /\ k_stack[D].fn = f /\ k_stack[D].step \in {5, 6}
  <2>1. PICK n \in {5, 6} : Calib!At(f, n)
    BY <1>2
  <2> QED BY <2>1, <1>1, StackTop
<1>4. D = 3 /\ k_stack[3].fn = f /\ k_stack[3].step \in {5, 6}
  BY <1>1, <1>3, Places
<1>5. k_init[Calib!Key(f)] /\ k_overhead[Calib!Key(f)] = 0 /\ k_enough > 0 /\ k_enough \in Nat
  BY <1>1, <1>4, Third DEF Measures, CalibTypes
<1>6. k_ran[Calib!Key(f)] = 0 /\ k_ran' = [k_ran EXCEPT ![Calib!Key(f)] = 1]
  <2>1. k_ran[Calib!Key(f)] = 0
    BY <1>1, <1>5 DEF Once, Calib!Key
  <2>2. k_enough # 0 /\ k_ran[Calib!Key(f)] + 1 = 1
    BY <2>1, <1>5
  <2> QED BY <2>1, <2>2, <1>2
<1>7. /\ k_stack' \in Seq(Frames) /\ D' = 3 /\ k_stack'[1] = k_stack[1] /\ k_stack'[2] = k_stack[2]
      /\ k_stack'[3].fn = f /\ k_stack'[3].step = 7 /\ k_stack'[3].save = k_stack[3].save
  BY <1>1, <1>2, <1>4, Stepped
<1>8. /\ k_overhead' \in [t : {0, 1}, l : {0, 1}] /\ k_overhead'[Calib!Key(f)] = 1
      /\ k_ran' \in [enough : {0, 1}, t : {0, 1}, l : {0, 1}]
      /\ \A k \in {"t", "l"} : k # Calib!Key(f) => k_overhead'[k] = k_overhead[k] /\ k_ran'[k] = k_ran[k]
  BY <1>1, <1>2, <1>6 DEF CalibTypes, Calib!Key
<1>9. k_res' \in Kept
  BY <1>2 DEF Kept, Owners
<1>10. CalibTypes'
  BY <1>1, <1>2, <1>7, <1>8, <1>9 DEF CalibTypes
<1>11. Nesting' /\ Fresh' /\ Complete' /\ Progress'
  <2>1. 7 \in {3, 4, 7} /\ k_init'[Calib!Key(f)]
    BY <1>2, <1>5
  <2>2. \A k \in {"t", "l"} : k # Calib!Key(f) => k_init'[k] = k_init[k] /\ k_overhead'[k] = k_overhead[k]
    BY <1>2, <1>8
  <2> QED BY <2>1, <2>2, <1>1, <1>2, <1>4, <1>7, <1>8, Advance
<1>12. Once'
  BY <1>1, <1>2, <1>5, <1>8 DEF Once, Calib!Key
<1>13. Saved'
  BY <1>1, <1>2, <1>4, <1>7 DEF Saved, CallersOwn
<1> QED BY <1>10, <1>11, <1>12, <1>13 DEF CInv

LEMMA PutBackKeeps == ASSUME Intervals, CInv, Calib!PutBack PROVE CInv'
<1>1. CalibTypes /\ Nesting /\ Fresh /\ Complete /\ Progress /\ Once /\ Saved
  BY DEF CInv
<1>2. PICK f \in {"t_overhead", "l_overhead"} :
        /\ Calib!At(f, 7)
        /\ k_res' = Calib!Top.save
        /\ k_stack' = Calib!Front(k_stack)
        /\ UNCHANGED <<k_done, k_init, k_enough, k_overhead, k_env, k_ran, k_calls, k_before>>
  BY DEF Calib!PutBack
<1>3. D \in Nat /\ D >= 1 /\ k_stack[D].fn = f /\ k_stack[D].step = 7
  BY <1>1, <1>2, StackTop
<1>4. D = 3 /\ k_stack[3].fn = f /\ k_stack[3].step = 7
  BY <1>1, <1>3, Places
<1>5. k_init[Calib!Key(f)] /\ k_overhead[Calib!Key(f)] = 1
  BY <1>1, <1>4, Third DEF Measures
<1>6. k_res' \in Kept /\ CallersOwn(k_res)'
  BY <1>1, <1>2, <1>4 DEF Saved, CallersOwn, Calib!Top, Calib!Last, D
<1>7. Nesting' /\ Fresh' /\ Complete' /\ Progress' /\ k_stack' \in Seq(Frames) /\ D' = 2
  <2>1. k_overhead'[Calib!Key(f)] = 1 /\ \A k \in {"t", "l"} : k # Calib!Key(f) => k_overhead'[k] = k_overhead[k]
    BY <1>2, <1>5
  <2> QED BY <2>1, <1>1, <1>2, <1>4, <1>5, ThirdReturns
<1>8. CalibTypes' /\ Once'
  BY <1>1, <1>2, <1>6, <1>7 DEF CalibTypes, Once
<1>9. Saved'
  BY <1>6, <1>7 DEF Saved
<1> QED BY <1>7, <1>8, <1>9 DEF CInv

\* Every step.
LEMMA CalibKeeps == ASSUME Intervals, CInv, [Calib!Next]_(Calib!vars) PROVE CInv'
<1>1. CASE UNCHANGED Calib!vars
  BY <1>1 DEF Calib!vars, CInv, CalibTypes, Nesting, Fresh, Complete, Progress, Once, Saved, Working,
              CallersOwn, Measures, D
<1>2. CASE Calib!Next
  BY <1>2, CallKeeps, EnterKeeps, GetEnoughKeeps, InitTimingKeeps, ComputeEnoughKeeps,
     InitCallsKeeps, BeginKeeps, GivenKeeps, SaveKeeps, NestedKeeps, MeasureKeeps, PutBackKeeps
     DEF Calib!Next
<1> QED BY <1>1, <1>2

\* What the run checks of the calibration.
LEMMA CalibImplied ==
  ASSUME Intervals, CInv
  PROVE  Calib!TypeOK /\ Calib!CalibratedOnce /\ Calib!LeavesCallerAlone
<1>1. CalibTypes /\ Nesting /\ Fresh /\ Complete /\ Saved /\ D \in Nat /\ D <= 5
  BY DEF CInv, Nesting, CalibTypes, D
<1>2. Calib!TypeOK
  BY <1>1 DEF CalibTypes, Calib!TypeOK, D
<1>3. \A k \in {"enough", "t", "l"} : k_ran[k] <= 1
  BY <1>1 DEF CalibTypes
<1>4. ASSUME k_stack = <<>>, k_calls > 0
      PROVE  /\ k_enough > 0 /\ k_overhead = [t |-> 1, l |-> 1]
             /\ CallersOwn(k_res)
  <2>1. D = 0 /\ ~Working
    BY <1>4 DEF D, Working
  <2>2. k_done
    BY <2>1, <1>1, <1>4 DEF Fresh
  <2>3. k_enough > 0 /\ k_overhead.t = 1 /\ k_overhead.l = 1
    BY <2>1, <2>2, <1>1 DEF Complete
  <2>4. k_overhead = [t |-> 1, l |-> 1]
    BY <2>3, <1>1 DEF CalibTypes
  <2>5. CallersOwn(k_res)
    BY <2>1, <1>1 DEF Saved
  <2> QED BY <2>3, <2>4, <2>5
<1>5. Calib!CalibratedOnce
  BY <1>1, <1>3, <1>4 DEF Calib!CalibratedOnce, D
<1>6. Calib!LeavesCallerAlone
  BY <1>4 DEF Calib!LeavesCallerAlone, CallersOwn
<1> QED BY <1>2, <1>5, <1>6

(* get_enough(), t_overhead() and l_overhead() measure once, whichever is  *)
(* called first and however they call one another, and the results and the *)
(* time of the caller are the ones it had before the call.                 *)
THEOREM Undisturbed ==
  ASSUME Intervals
  PROVE  Calib!Spec => [](Calib!TypeOK /\ Calib!CalibratedOnce /\ Calib!LeavesCallerAlone)
<1>1. CInv /\ [Calib!Next]_(Calib!vars) => CInv'
  BY CalibKeeps
<1>2. CInv => Calib!TypeOK /\ Calib!CalibratedOnce /\ Calib!LeavesCallerAlone
  BY CalibImplied
<1> QED BY InitCInv, <1>1, <1>2, PTL DEF Calib!Spec
===============================================================================
