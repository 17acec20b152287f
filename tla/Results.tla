------------------------------- MODULE Results -------------------------------
(***************************************************************************)
(* The result_t arrays of lib_timing.c: every child insertsort()s one      *)
(* value per timing interval into its own array (line 713), the parent     *)
(* insertsort()s the children's arrays, in the order in which they happen  *)
(* to answer, into one merged array (485-488), and set_results() reduces   *)
(* that to a median.  An array is malloc()ed with sizeof_result() slots    *)
(* and insertsort() checks no bound.  With 0 repetitions (-N 0) a child    *)
(* measures once all the same, while the slots are those of none.          *)
(***************************************************************************)
EXTENDS Integers, Sequences, FiniteSets

CONSTANTS
    Tries,        \* TRIES of bench.h: the slots of a result_t, and the default repetitions
    Parallel,     \* number of children
    Requests,     \* values of the `repetitions' argument of benchmp(), any int of -N
    LongInterval, \* is enough >= 1000000?
    Readings,     \* measured microseconds, 0 included
    Counts,       \* iteration counts
    Rate(_, _)    \* u / (double) n: any integer that orders the quotients

Children == 1..Parallel
Values == [u: Readings, n: Counts]

VARIABLES
    request,      \* the argument
    r,            \* each child's result array
    done,         \* each child's completed timing intervals (state->i)
    reported,     \* children whose array is completely merged
    current,      \* the child being merged, 0 if none
    j,            \* the parent's index into that child's array
    merged,       \* merged_results
    saved         \* what save_n() and settime() hold: [u, n]
rvars == <<request, r, done, reported, current, j, merged, saved>>

\* benchmp() 178-179.
Repetitions ==
    IF request < 0 THEN (IF 1 < Parallel \/ LongInterval THEN 1 ELSE Tries) ELSE request

\* sizeof_result(), in slots.
Slots(repetitions) == IF repetitions <= Tries THEN Tries ELSE repetitions

\* insertsort(): the first slot whose rate is smaller, or the end ...
IsSlot(v, x, k) ==
    /\ \A l \in 1..(k - 1) : ~(Rate(x.u, x.n) > Rate(v[l].u, v[l].n))
    /\ k = Len(v) + 1 \/ Rate(x.u, x.n) > Rate(v[k].u, v[k].n)

\* Seeded fault: N is not incremented when the new value is not the last.
InsertAt_SameLength(v, x, k) ==
    [l \in 1..(IF k > Len(v) THEN k ELSE Len(v)) |->
        IF l < k THEN v[l] ELSE IF l = k THEN x ELSE v[l - 1]]

\* ... the rest moves up by one.
InsertAt(v, x, k) ==
    [l \in 1..(Len(v) + 1) |-> IF l < k THEN v[l] ELSE IF l = k THEN x ELSE v[l - 1]]

\* The array after insertsort(x.u, x.n, v), as a one-element set; a zero time
\* is not a measurement and leaves v as it is.
Insertsort(v, x) ==
    IF x.u = 0 THEN {v}
    ELSE {InsertAt(v, x, k) : k \in {l \in 1..(Len(v) + 1) : IsSlot(v, x, l)}}

\* save_median(), with C's truncating division.
Median(v) ==
    LET N == Len(v)
        m == (N \div 2) + 1                   \* v[N/2], counted from 1
    IN  IF N = 0 THEN [u |-> 0, n |-> 1]
        ELSE IF N % 2 = 1 THEN v[m]
        ELSE [u |-> (v[m].u + v[m - 1].u) \div 2, n |-> (v[m].n + v[m - 1].n) \div 2]

Stopped(c) == done[c] > 0 /\ done[c] >= Repetitions

\* insertsort() has written past merged_results: what follows is undefined,
\* and the model ends there.
Spilt == Len(merged) > Slots(Parallel * Repetitions)

-----------------------------------------------------------------------------
Init ==
    /\ request \in Requests
    /\ r = [c \in Children |-> <<>>] /\ done = [c \in Children |-> 0]
    /\ reported = {} /\ current = 0 /\ j = 0 /\ merged = <<>>
    /\ saved = [u |-> 0, n |-> 1]

\* timing_interval: insertsort, i++, and stop when i >= repetitions.
Record(c) ==
    /\ ~Stopped(c)
    /\ \E x \in Values : \E w \in Insertsort(r[c], x) : r' = [r EXCEPT ![c] = w]
    /\ done' = [done EXCEPT ![c] = @ + 1]
    /\ UNCHANGED <<request, reported, current, j, merged, saved>>

\* One child, whichever read the byte from result_signal, sends its array.
Receive(c) ==
    /\ ~Spilt
    /\ \A d \in Children : Stopped(d)
    /\ current = 0 /\ c \notin reported
    /\ current' = c /\ j' = 1
    /\ UNCHANGED <<request, r, done, reported, merged, saved>>

\* Body of the loop `for (j = 0; j < results->N; ++j) insertsort(...)', and its end.
Merge ==
    /\ ~Spilt
    /\ current # 0
    /\ IF j <= Len(r[current])
       THEN /\ \E w \in Insertsort(merged, r[current][j]) : merged' = w
            /\ j' = j + 1
            /\ UNCHANGED <<reported, current>>
       ELSE /\ reported' = reported \cup {current}
            /\ current' = 0
            /\ UNCHANGED <<j, merged>>
    /\ UNCHANGED <<request, r, done, saved>>

SetResults ==
    /\ ~Spilt
    /\ reported = Children /\ current = 0
    /\ saved' = Median(merged)
    /\ UNCHANGED <<request, r, done, reported, current, j, merged>>

Next == \/ \E c \in Children : Record(c) \/ Receive(c)
        \/ Merge \/ SetResults

Spec == Init /\ [][Next]_rvars

-----------------------------------------------------------------------------
(* Properties.                                                             *)

\* Every array holds measurements, and every index is in range.
TypeOK ==
    /\ request \in Requests
    /\ r \in [Children -> Seq(Values)] /\ done \in [Children -> Nat]
    /\ reported \subseteq Children /\ current \in 0..Parallel /\ j \in Nat
    /\ merged \in Seq(Values) /\ saved \in [u: Nat, n: Nat \ {0}]

SortedDown(v) ==
    \A k, l \in 1..Len(v) : k < l => Rate(v[k].u, v[k].n) >= Rate(v[l].u, v[l].n)

\* "biggest to smallest" (1227): each child's array and the parent's merged
\* array are ordered by rate after every insertion, or save_median() and
\* save_minimum() would pick the wrong element.
BiggestToSmallest == SortedDown(merged) /\ \A c \in Children : SortedDown(r[c])

\* insertsort() writes v[N] without a check: what is inserted must fit into
\* the slots that were allocated for repetitions and parallel * repetitions.
\* A child's array is never overrun; the merged one (362) is only when 0
\* repetitions are asked for, which benchmp() lets through (178), and more
\* children than TRIES report the one value each of them has stored (713-716).
WithinSlots ==
    /\ \A c \in Children : Len(r[c]) <= Slots(Repetitions)
    /\ Spilt => request = 0 /\ Tries < Parallel

Count(v, x) == Cardinality({k \in 1..Len(v) : v[k] = x})
ReportedCount(x) ==
    Cardinality(UNION {{c} \X {k \in 1..Len(r[c]) : r[c][k] = x} : c \in reported})

\* Nothing is lost, nothing is merged twice, whatever the order of the answers:
\* between two children the merged array is the union of the reported arrays.
MergedIsUnion ==
    current = 0 => \A x \in Values : Count(merged, x) = ReportedCount(x)

\* A middle position, by counting: at most half of the results are larger,
\* at most half are smaller.
Middle(v) ==
    LET rate(k) == Rate(v[k].u, v[k].n)
    IN  {k \in 1..Len(v) : /\ 2 * Cardinality({l \in 1..Len(v) : rate(l) > rate(k)}) <= Len(v)
                          /\ 2 * Cardinality({l \in 1..Len(v) : rate(l) < rate(k)}) <= Len(v)}
Between(x, a, b) == (a <= x /\ x <= b) \/ (b <= x /\ x <= a)

\* The number the benchmark prints: once set, it is 0 if and only if nothing
\* was measured (which benchmp 191 takes for failure), the middle result of an
\* odd number, and lies between the two middle results of an even number.
MedianIsMiddle ==
    saved # [u |-> 0, n |-> 1] =>
        /\ saved.u > 0
        /\ \E k, l \in Middle(merged) :
              /\ (k = l) = (Len(merged) % 2 = 1)
              /\ Between(saved.u, merged[k].u, merged[l].u)
              /\ Between(saved.n, merged[k].n, merged[l].n)
=============================================================================
