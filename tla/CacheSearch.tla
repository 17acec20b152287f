----------------------------- MODULE CacheSearch ----------------------------
(***************************************************************************)
(* cache.c: which buffer sizes are measured, and which of them are taken   *)
(* for the sizes of caches.  A measurement (collect_sample, see            *)
(* CachePages) yields any latency, zero if the time was too short.  Ratios *)
(* are pairs <<numerator, denominator>>.                                   *)
(***************************************************************************)
EXTENDS Integers, Sequences, FiniteSetsExt, SequencesExt

CONSTANTS
    NSamples,   \* the number of sizes up to maxlen
    Latencies   \* what a measurement may yield, 0 included

VARIABLES
    pc,         \* collect, search, levels, done, or lost (see Measure)
    p,          \* the array of struct cache_results
    todo,       \* the calls of search() still to be made, the next one last
    start,      \* main(): where find_cache() looks next
    levels      \* main(): the indices of the caches found

vars == <<pc, p, todo, start, levels>>

Idx == 0 .. NSamples - 1

(* collect_data(): four sizes per power of two, in quarters of the first.  *)
LenOf(i) == (4 + (i % 4)) * 2 ^ (i \div 4)

Unmeasured == [latency |-> -1, ratio |-> <<-1, 1>>, slope |-> <<-1, 1>>]

Greater(r, num, den) == r[1] * den > num * r[2]
Less(r, num, den) == r[1] * den < num * r[2]

Init ==
    /\ pc = "collect"
    /\ p = [i \in Idx |-> Unmeasured]
    /\ todo = <<>>
    /\ start = 0
    /\ levels = <<>>

(* collect_data(): the largest and the smallest size.  If the largest      *)
(* measures zero, the loop `while (p[samples-1].latency <= 0.0)' measures  *)
(* an entry and drops it, and goes on to one that has never been measured: *)
(* it ends by reading in front of the array.                               *)
CollectData ==
    /\ pc = "collect"
    /\ \E t, u \in Latencies :
         IF t > 0
         THEN /\ p' = [p EXCEPT ![NSamples - 1].latency = t, ![0].latency = u]
              /\ todo' = <<<<0, NSamples - 1>>>>
              /\ pc' = "search"
         ELSE pc' = "lost" /\ UNCHANGED <<p, todo>>
    /\ UNCHANGED <<start, levels>>

(* Mutant of Compare: the ratio of a bad data point is kept.               *)
Compare_KeepsRatio(left, right) ==
    LET l     == p[left].latency
        r     == p[right].latency
    IN  IF l <= 0 THEN p[left]
        ELSE [latency |-> IF Less(<<r, l>>, 98, 100) THEN r ELSE l,
              ratio |-> <<r, l>>, slope |-> <<r - l, l * (right - left)>>]

(* search(), up to its recursive calls: compare the ends; an end that is   *)
(* much slower than the other is a bad data point and takes its value.     *)
Compare(left, right) ==
    LET l     == p[left].latency
        r     == p[right].latency
        ratio == <<r, l>>
    IN  IF l <= 0 THEN p[left]
        ELSE IF Less(ratio, 98, 100)
        THEN [latency |-> r, ratio |-> <<1, 1>>, slope |-> <<0, 1>>]
        ELSE [latency |-> l, ratio |-> ratio, slope |-> <<r - l, l * (right - left)>>]

Search ==
    /\ pc = "search"
    /\ todo # <<>>
    /\ LET left   == Last(todo)[1]
           right  == Last(todo)[2]
           middle == left + (right - left) \div 2
           e      == Compare(left, right)
       IN  IF middle # left /\ (Greater(e.ratio, 135, 100) \/ Less(e.ratio, 97, 100))
           THEN /\ todo' = Front(todo) \o <<<<left, middle>>, <<middle, right>>>>
                /\ \E t \in Latencies :
                     p' = [p EXCEPT ![left] = e, ![middle].latency = t]
           ELSE /\ todo' = Front(todo)
                /\ p' = [p EXCEPT ![left] = e]
    /\ UNCHANGED <<pc, start, levels>>

SearchReturns ==
    /\ pc = "search"
    /\ todo = <<>>
    /\ pc' = "levels"
    /\ UNCHANGED <<p, todo, start, levels>>

(* find_cache(): the last size with a ratio above 1.5, once the sizes have *)
(* doubled since.                                                          *)
find_cache(from) ==
    LET above(i)  == p[i].latency >= 0 /\ Greater(p[i].ratio, 3, 2)
        upto(i)   == {j \in from .. i : above(j)}
        stops(i)  == /\ p[i].latency >= 0
                     /\ upto(i) # {}
                     /\ LenOf(Max(upto(i))) * 2 <= LenOf(i)
        found     == {i \in from .. NSamples - 1 : stops(i)}
    IN  IF found = {} THEN -1 ELSE Max(upto(Min(found)))

(* A size of 1.25 or 1.75 times a power of two is taken for the next one.  *)
Legal(i) == i % 4 \notin {1, 3}

(* main(): the loop over the levels.                                       *)
FindLevel ==
    /\ pc = "levels"
    /\ LET i    == find_cache(start)
           next == IF Legal(i) THEN i ELSE i + 1
       IN  IF \/ i < 0
              \/ 2 * p[i].latency > p[NSamples - 1].latency
              \/ next >= NSamples
           THEN pc' = "done" /\ UNCHANGED <<start, levels>>
           ELSE /\ levels' = Append(levels, next)
                /\ start' = next + 1
                /\ UNCHANGED pc
    /\ UNCHANGED <<p, todo>>

(* main(): the latency of a level is that of the flattest measured size    *)
(* since the level before; -1 when nothing was measured there.             *)
Flat(a) == IF a[1] < 0 THEN <<-a[1], a[2]>> ELSE a
Flatter(m, j) ==
    IF p[j].latency <= 0 THEN m
    ELSE IF \/ p[m].latency <= 0
            \/ Flat(p[j].slope)[1] * Flat(p[m].slope)[2]
                 < Flat(p[m].slope)[1] * Flat(p[j].slope)[2]
         THEN j ELSE m
LatencyOf(n) ==
    LET from == IF n = 1 THEN 0 ELSE levels[n - 1] + 1
        flattest[x \in 0 .. levels[n] - from] ==
            IF x = 0 THEN from ELSE Flatter(flattest[x - 1], from + x - 1)
    IN  flattest[levels[n] - from]

Next == \/ CollectData \/ Search \/ SearchReturns \/ FindLevel

Spec == Init /\ [][Next]_vars

-----------------------------------------------------------------------------
TypeOK ==
    /\ pc \in {"collect", "search", "levels", "done", "lost"}
    /\ start \in 0 .. NSamples
    /\ Len(levels) <= NSamples

Measured == {i \in Idx : p[i].latency >= 0}
After(i) == Min({j \in Measured : j > i})

(* When search() returns, every step of more than 35% between two          *)
(* neighbours of the measured sizes has been refined to two adjacent       *)
(* sizes, though the recursive calls rewrite latencies on the way, and the *)
(* ratio kept with a size is that of the two final latencies.              *)
StepsRefined ==
    pc \in {"levels", "done"} =>
        \A i \in Measured \ {NSamples - 1} :
            p[i].latency > 0 =>
                /\ p[i].ratio[1] * p[i].latency = p[After(i)].latency * p[i].ratio[2]
                /\ 100 * p[After(i)].latency > 135 * p[i].latency => After(i) = i + 1

(* The cache sizes that are printed grow from level to level, none of them *)
(* is larger than the memory, and only sizes of 2^N and 1.5*2^N are        *)
(* printed.                                                                *)
LevelsGrow ==
    /\ \A n \in 1 .. Len(levels) : levels[n] \in Idx /\ Legal(levels[n])
    /\ \A n \in 2 .. Len(levels) : levels[n - 1] < levels[n]
    /\ pc = "done" => \A n \in 1 .. Len(levels) : LatencyOf(n) <= levels[n]
=============================================================================
