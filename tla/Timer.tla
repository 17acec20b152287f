-------------------------------- MODULE Timer --------------------------------
(***************************************************************************)
(* The stop watch of lib_timing.c (start, stop, settime, gettime) and the  *)
(* time differences of TIMES.c, on QNX's cycle counter: the 64-bit product *)
(* `cycles * 1000' wraps round, so a later reading can be the smaller one, *)
(* and the rate it is divided by, kHz, is cycles_per_sec / 1000 cut down   *)
(* to an integer, so the clock runs fast unless 1000 divides the rate.     *)
(*                                                                         *)
(* All units are parameters, so that one model stands for every clock rate *)
(* and every word length, and TLC can work with small ones.                *)
(***************************************************************************)
EXTENDS Integers

CONSTANTS
    M,            \* microseconds in a second (1000000)
    G,            \* nanoseconds in a second (1000000000)
    UsPerMs,      \* 1000: the factor in gettimeofday()
    NsPerMs,      \* 1000000: the factor in clock_gettime()
    MsPerS,       \* 1000: the divisor that makes a rate kHz
    CyclesPerSec, \* cycles_per_sec of the system page, the counter's rate
    W,            \* 2^64: the size of uint64_t
    Usecs,        \* arguments of settime()
    MaxCycles     \* bound: the cycle counter stops here

ASSUME UnitAssumption ==
    /\ M \in Nat \ {0} /\ G \in Nat \ {0} /\ UsPerMs \in Nat \ {0} /\ NsPerMs \in Nat \ {0}
    /\ MsPerS \in Nat \ {0} /\ W \in Nat \ {0}
    /\ CyclesPerSec \in Nat /\ MsPerS <= CyclesPerSec      \* below that, kHz is 0
ASSUME SecondAssumption == M = UsPerMs * MsPerS /\ G = NsPerMs * MsPerS
ASSUME InputAssumption == Usecs \subseteq Nat /\ MaxCycles \in Nat

VARIABLES
    cycles,       \* the cycles since power-on; ClockCycles() before any wrap
    start_tv,     \* the two static timevals of lib_timing.c
    stop_tv,
    use,          \* who wrote them last: "set", "started", "timed" or "mixed"
    span,         \* the cycles at start() and at stop(), or the argument of settime()
    mark,         \* tp_start of sleeptest and msgring
    from,         \* the cycles when it was read
    diff,         \* their tp_diff
    over          \* the cycles it is meant to measure: from..over
watchVars == <<start_tv, stop_tv, use, span>>
tpVars    == <<mark, from, diff, over>>
vars      == <<cycles, watchVars, tpVars>>

-----------------------------------------------------------------------------
(* Times: whole seconds and a fraction counted in units of 1/unit second.  *)

Times(unit) == [sec: Nat, frac: 0..(unit - 1)]
Zero == [sec |-> 0, frac |-> 0]
Total(tv, unit) == tv.sec * unit + tv.frac

\* "CPU core do not have hard integer divide command": one division, one product.
Split(x, unit) ==
    LET sec == x \div unit
    IN  [sec |-> sec, frac |-> x - sec * unit]

\* The static kHz, set by the first call: what is left of the rate.
KHz == CyclesPerSec \div MsPerS

\* gettimeofday() and clock_gettime() of TIMES.c.
Reading(c, perMs, unit) == Split(((c * perMs) % W) \div KHz, unit)
Gettimeofday == Reading(cycles, UsPerMs, M)
Clock_gettime == Reading(cycles, NsPerMs, G)

\* Seeded fault: the borrow is forgotten.
Tvsub_NoBorrow(t1, t0) ==
    IF t1.frac < t0.frac \/ t1.sec < t0.sec THEN Zero
    ELSE [sec |-> t1.sec - t0.sec, frac |-> t1.frac - t0.frac]

\* Seeded fault: the borrowed second is not paid back.
Tvsub_KeepsSecond(t1, t0) ==
    LET usec == t1.frac - t0.frac
    IN  IF t1.sec < t0.sec \/ (usec < 0 /\ t1.sec = t0.sec) THEN Zero
        ELSE [sec |-> t1.sec - t0.sec, frac |-> IF usec < 0 THEN usec + M ELSE usec]

\* tvsub(): borrow a second; "time shouldn't go backwards!!!" clamps to zero.
Tvsub(t1, t0) ==
    LET sec    == t1.sec - t0.sec
        usec   == t1.frac - t0.frac
        borrow == usec < 0 /\ sec > 0
        diff_  == [sec |-> IF borrow THEN sec - 1 ELSE sec,
                   frac |-> IF borrow THEN usec + M ELSE usec]
    IN  IF diff_.frac < 0 \/ t1.sec < t0.sec THEN Zero ELSE diff_

Tvdelta(t0, t1) == Total(Tvsub(t1, t0), M)
Gettime == Tvdelta(start_tv, stop_tv)

\* diff_tv() with unit = M, diff_tp() with unit = G: no clamp.
Diff(t0, t1, unit) ==
    IF t0.frac > t1.frac
    THEN [sec |-> t1.sec - t0.sec - 1, frac |-> unit - (t0.frac - t1.frac)]
    ELSE [sec |-> t1.sec - t0.sec, frac |-> t1.frac - t0.frac]

\* diff_tp_ns().
Diff_tp_ns(t0, t1) == Total(Diff(t0, t1, G), G)

-----------------------------------------------------------------------------
Init ==
    /\ cycles = 0 /\ start_tv = Zero /\ stop_tv = Zero
    /\ use = "set" /\ span = <<0, 0>>
    /\ mark = Zero /\ from = 0 /\ diff = Zero /\ over = 0

Tick ==
    /\ cycles < MaxCycles
    /\ cycles' = cycles + 1
    /\ UNCHANGED <<watchVars, tpVars>>

\* start(0).
Start ==
    /\ start_tv' = Gettimeofday
    /\ use' = "started" /\ span' = <<cycles, cycles>>
    /\ UNCHANGED <<cycles, stop_tv, tpVars>>

\* stop(0, 0), whose result is Gettime'.  After settime() it measures from 0.
Stop ==
    /\ stop_tv' = Gettimeofday
    /\ use' = IF use \in {"started", "timed"} THEN "timed" ELSE "mixed"
    /\ span' = <<span[1], cycles>>
    /\ UNCHANGED <<cycles, start_tv, tpVars>>

Settime(usecs) ==
    /\ start_tv' = Zero
    /\ stop_tv' = [sec |-> usecs \div M, frac |-> usecs % M]
    /\ use' = "set" /\ span' = <<0, usecs>>
    /\ UNCHANGED <<cycles, tpVars>>

\* clock_gettime(&tp_start), at the start of a test ...
Mark ==
    /\ mark' = Clock_gettime /\ from' = cycles
    /\ diff' = Zero /\ over' = cycles
    /\ UNCHANGED <<cycles, watchVars>>

\* ... and clock_gettime(&tp_end), diff_tp() at its end.
Measure ==
    /\ diff' = Diff(mark, Clock_gettime, G) /\ over' = cycles
    /\ UNCHANGED <<cycles, watchVars, mark, from>>

Next == Tick \/ Start \/ Stop \/ Mark \/ Measure \/ \E usecs \in Usecs : Settime(usecs)

Spec == Init /\ [][Next]_vars

-----------------------------------------------------------------------------
(* Properties.                                                             *)

\* The stop watch holds normalised times; a difference has a proper fraction
\* (sleeptest prints it as %d.%09d) even when the clock has wrapped.
TypeOK ==
    /\ cycles \in 0..MaxCycles /\ start_tv \in Times(M) /\ stop_tv \in Times(M)
    /\ use \in {"set", "started", "timed", "mixed"} /\ span \in Nat \X Nat
    /\ mark \in Times(G) /\ from \in 0..MaxCycles /\ over \in 0..MaxCycles
    /\ diff \in [sec: Int, frac: 0..(G - 1)]

\* c cycles last c * perMs * MsPerS / CyclesPerSec units.  A clock that divides
\* by kHz runs fast: of x units it says have passed, it adds the share that the
\* truncation took from the rate.
Wraps(c, perMs) == (c * perMs) \div W
Drift(x) == x * (CyclesPerSec % MsPerS)
Longer(x, c, perMs) ==                                \* by a unit or more, and the drift
    x * CyclesPerSec - Drift(x) >= c * perMs * MsPerS + CyclesPerSec
Shorter(x, c, perMs) ==                               \* by a unit or more
    (x + 1) * CyclesPerSec <= c * perMs * MsPerS

\* stop() never reports more time than has passed, wrapped or not, but for the
\* unit it is rounded to and the drift, which a rate in whole kHz has none of ...
NeverTooLong == use = "timed" => ~Longer(Gettime, span[2] - span[1], UsPerMs)

\* ... and never less, to the microsecond, if the clock did not wrap in between:
\* the truncation of the rate makes no time shorter.
NotShortUnlessWrapped ==
    use = "timed" /\ Wraps(span[1], UsPerMs) = Wraps(span[2], UsPerMs)
        => ~Shorter(Gettime, span[2] - span[1], UsPerMs)

\* What settime() stored is what gettime() returns, whatever start() left behind:
\* benchmp() and the bench.h macros hand their results on in this way.
ReadsBack == use = "set" => Gettime = span[2]

\* The nanoseconds sleeptest and msgring print are those that have passed, to
\* the nanosecond and the drift, if the clock did not wrap in between.
NanosUnlessWrapped ==
    Wraps(from, NsPerMs) = Wraps(over, NsPerMs) =>
        /\ ~Longer(Total(diff, G), over - from, NsPerMs)
        /\ ~Shorter(Total(diff, G), over - from, NsPerMs)

\* Both clocks and the times handed on by settime(), together.
ClocksKeepTime == NotShortUnlessWrapped /\ ReadsBack /\ NanosUnlessWrapped

-----------------------------------------------------------------------------
(* The inductive invariant: where the stored times come from.              *)

WatchInv ==
    /\ use \in {"started", "timed"} =>
          /\ start_tv = Reading(span[1], UsPerMs, M)
          /\ span[1] <= span[2] /\ span[2] <= cycles
    /\ use = "timed" => stop_tv = Reading(span[2], UsPerMs, M)
    /\ use = "set" => start_tv = Zero /\ Total(stop_tv, M) = span[2]

TpInv ==
    /\ from <= over /\ over <= cycles
    /\ mark = Reading(from, NsPerMs, G)
    /\ diff = Diff(mark, Reading(over, NsPerMs, G), G)

Inv == TypeOK /\ WatchInv /\ TpInv
=============================================================================
