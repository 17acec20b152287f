----------------------------- MODULE ToolsProofs -----------------------------
(***************************************************************************)
(* The tools and libraries of lmbench side by side, and their safety for   *)
(* any size.  A behaviour of ToolsSpec is one of Timer, Results, MemState, *)
(* CachePages, CacheSearch, Lmdd, Calibration, Placement, TlbSearch or     *)
(* FileTree; the variables of the others stay 0, those of Timer stay as    *)
(* they begin.                                                             *)
(*                                                                         *)
(* Every program has a section with its constants, variables and instance, *)
(* followed by its inductive invariant and the proof that its steps keep   *)
(* it.  First the stop watch: its arithmetic and that of TIMES.c is exact  *)
(* for every clock rate, word length and unit.  Then, for any size: the    *)
(* placement of processes, the search for the sizes of the caches, the     *)
(* exchange of their pages, find_tlb(), and the pointers with which a walk *)
(* of lib_mem.c resumes; what the chains are made of is only checked.  The *)
(* proofs of lmdd and lat_fs are in DiskProofs, those of the results and   *)
(* the calibration in TimingProofs.  Last the behaviours of ToolsSpec,     *)
(* their properties and the theorems.  MCTools has the bounds for TLC.     *)
(*                                                                         *)
(* What a recursive function returns is proved with least counterexamples  *)
(* (SetInduction, LoopExists), which DiskProofs needs as well and has once *)
(* more: a lemma of an instance is not a lemma of the module.              *)
(***************************************************************************)
EXTENDS Timer, WellFoundedInduction, SequenceTheorems, FiniteSetTheorems,
        TLAPS

-----------------------------------------------------------------------------
(* Arithmetic.                                                             *)

\* Division and remainder put a number together again.
LEMMA DivMod ==
    ASSUME NEW x \in Nat, NEW n \in Nat \ {0}
    PROVE  /\ x \div n \in Nat /\ x % n \in Nat /\ x % n < n
           /\ (x \div n) * n + (x % n) = x
           /\ (x \div n) * n <= x /\ x < (x \div n) * n + n
OBVIOUS

\* A time is bounded by its whole seconds.
LEMMA Scale ==
    ASSUME NEW n \in Nat \ {0}, NEW a \in Int, NEW b \in Int, a < b
    PROVE  a * n + n <= b * n
OBVIOUS

\* Splitting a count into seconds and a fraction loses nothing.
LEMMA SplitExact ==
    ASSUME NEW x \in Nat, NEW unit \in Nat \ {0}
    PROVE  Split(x, unit) \in Times(unit) /\ Total(Split(x, unit), unit) = x
<1>1. /\ x \div unit \in Nat
      /\ (x \div unit) * unit <= x /\ x < (x \div unit) * unit + unit
  BY DivMod
<1>2. x - (x \div unit) * unit \in 0..(unit - 1)
  BY <1>1
<1>3. QED
  BY <1>1, <1>2 DEF Split, Times, Total

\* tvsub() and tvdelta() compute the difference of two times, or 0 if the
\* second one is earlier.
LEMMA TvdeltaExact ==
    ASSUME NEW t0 \in Times(M), NEW t1 \in Times(M)
    PROVE  Tvdelta(t0, t1) = IF Total(t0, M) <= Total(t1, M)
                             THEN Total(t1, M) - Total(t0, M) ELSE 0
<1>0. /\ t0.sec \in Nat /\ t1.sec \in Nat
      /\ t0.frac \in 0..(M - 1) /\ t1.frac \in 0..(M - 1) /\ M \in Nat \ {0}
  BY UnitAssumption DEF Times
<1>1. CASE t1.sec < t0.sec
  <2>1. Total(t1, M) < Total(t0, M)
    BY <1>0, <1>1, Scale DEF Total
  <2>2. Tvsub(t1, t0) = Zero
    BY <1>0, <1>1 DEF Tvsub
  <2>3. QED
    BY <1>0, <2>1, <2>2 DEF Tvdelta, Total, Zero
<1>2. CASE t1.sec = t0.sec
  BY <1>0, <1>2 DEF Tvdelta, Tvsub, Total, Zero
<1>3. CASE t1.sec > t0.sec
  <2>1. Total(t0, M) < Total(t1, M)
    BY <1>0, <1>3, Scale DEF Total
  <2>2. CASE t1.frac >= t0.frac
    <3>1. Tvsub(t1, t0) = [sec |-> t1.sec - t0.sec, frac |-> t1.frac - t0.frac]
      BY <1>0, <1>3, <2>2 DEF Tvsub
    <3>2. (t1.sec - t0.sec) * M = t1.sec * M - t0.sec * M
      BY <1>0
    <3>3. QED
      BY <1>0, <2>1, <3>1, <3>2 DEF Tvdelta, Total
  <2>3. CASE t1.frac < t0.frac
    <3>1. Tvsub(t1, t0) = [sec |-> t1.sec - t0.sec - 1, frac |-> t1.frac - t0.frac + M]
      BY <1>0, <1>3, <2>3 DEF Tvsub
    <3>2. (t1.sec - t0.sec - 1) * M = t1.sec * M - t0.sec * M - M
      BY <1>0
    <3>3. QED
      BY <1>0, <2>1, <3>1, <3>2 DEF Tvdelta, Total
  <2>4. QED
    BY <1>0, <2>2, <2>3
<1>4. QED
  BY <1>0, <1>1, <1>2, <1>3

\* diff_tv() and diff_tp() compute the difference, negative ones included, with
\* a fraction between 0 and 1.
LEMMA DiffExact ==
    ASSUME NEW unit \in Nat \ {0}, NEW t0 \in Times(unit), NEW t1 \in Times(unit)
    PROVE  /\ Diff(t0, t1, unit) \in [sec: Int, frac: 0..(unit - 1)]
           /\ Total(Diff(t0, t1, unit), unit) = Total(t1, unit) - Total(t0, unit)
<1>0. /\ t0.sec \in Nat /\ t1.sec \in Nat
      /\ t0.frac \in 0..(unit - 1) /\ t1.frac \in 0..(unit - 1)
  BY DEF Times
<1>1. CASE t0.frac > t1.frac
  <2>1. Diff(t0, t1, unit) = [sec |-> t1.sec - t0.sec - 1, frac |-> unit - (t0.frac - t1.frac)]
    BY <1>1 DEF Diff
  <2>2. (t1.sec - t0.sec - 1) * unit = t1.sec * unit - t0.sec * unit - unit
    BY <1>0
  <2>3. QED
    BY <1>0, <1>1, <2>1, <2>2 DEF Total
<1>2. CASE ~(t0.frac > t1.frac)
  <2>1. Diff(t0, t1, unit) = [sec |-> t1.sec - t0.sec, frac |-> t1.frac - t0.frac]
    BY <1>2 DEF Diff
  <2>2. (t1.sec - t0.sec) * unit = t1.sec * unit - t0.sec * unit
    BY <1>0
  <2>3. QED
    BY <1>0, <1>2, <2>1, <2>2 DEF Total
<1>3. QED
  BY <1>1, <1>2

\* What the rate is but for the cycles a second that kHz leaves out.
LEMMA RateParts ==
    /\ KHz \in Nat \ {0} /\ MsPerS \in Nat \ {0} /\ CyclesPerSec \in Nat
    /\ CyclesPerSec % MsPerS \in Nat /\ KHz * MsPerS + (CyclesPerSec % MsPerS) = CyclesPerSec
<1>1. /\ CyclesPerSec \div MsPerS \in Nat /\ CyclesPerSec % MsPerS \in Nat
      /\ CyclesPerSec % MsPerS < MsPerS
      /\ (CyclesPerSec \div MsPerS) * MsPerS + (CyclesPerSec % MsPerS) = CyclesPerSec
  BY UnitAssumption, DivMod
<1>2. CyclesPerSec \div MsPerS # 0
  BY <1>1, UnitAssumption
<1>3. QED
  BY <1>1, <1>2, UnitAssumption DEF KHz

\* A time that is right by kHz is too long by the rate only by the drift, and
\* not too short.
LEMMA RightRate ==
    ASSUME NEW x \in Int, NEW c \in Nat, NEW perMs \in Nat \ {0}
    PROVE  /\ x * KHz < c * perMs + KHz => ~Longer(x, c, perMs)
           /\ 0 <= x /\ c * perMs < x * KHz + KHz => ~Shorter(x, c, perMs)
<1> DEFINE lost == CyclesPerSec % MsPerS
           p == c * perMs
           k == KHz
<1>1. /\ k \in Nat \ {0} /\ MsPerS \in Nat \ {0} /\ lost \in Nat
      /\ k * MsPerS + lost = CyclesPerSec /\ p \in Nat
  BY RateParts
<1>2. /\ x * CyclesPerSec = x * (k * MsPerS) + x * lost
      /\ (x + 1) * CyclesPerSec = (x + 1) * (k * MsPerS) + (x + 1) * lost
  <2> HIDE DEF k, lost
  <2>1. k * MsPerS \in Int /\ CyclesPerSec = k * MsPerS + lost /\ lost \in Int
    BY <1>1
  <2>2. \A a, y, q, b \in Int : a = q + b => y * a = y * q + y * b
    OBVIOUS
  <2>3. QED
    BY ONLY <2>1, <2>2, x \in Int, CyclesPerSec \in Int, x + 1 \in Int
<1>3. x * (k * MsPerS) = (x * k) * MsPerS /\ (x + 1) * (k * MsPerS) = (x * k + k) * MsPerS
  BY <1>1
<1>l. Longer(x, c, perMs) <=> x * CyclesPerSec - x * lost >= p * MsPerS + CyclesPerSec
  BY DEF Longer, Drift
<1>s. Shorter(x, c, perMs) <=> (x + 1) * CyclesPerSec <= p * MsPerS
  BY DEF Shorter
<1>4. ASSUME x * k < p + k PROVE ~Longer(x, c, perMs)
  <2>1. (x * k) * MsPerS + MsPerS <= (p + k) * MsPerS
    BY <1>1, <1>4, Scale
  <2>2. (p + k) * MsPerS = p * MsPerS + k * MsPerS
    BY <1>1
  <2> HIDE DEF k, p, lost
  <2>3. x * lost \in Int /\ (x * k) * MsPerS \in Int /\ p * MsPerS \in Int /\ k * MsPerS \in Int
    BY <1>1
  <2>4. QED
    BY <1>1, <1>2, <1>3, <1>l, <2>1, <2>2, <2>3
<1>5. ASSUME 0 <= x, p < x * k + k PROVE ~Shorter(x, c, perMs)
  <2>1. p * MsPerS + MsPerS <= (x * k + k) * MsPerS
    BY <1>1, <1>5, Scale
  <2>2. (x + 1) * lost >= 0
    BY <1>1, <1>5
  <2> HIDE DEF k, p, lost
  <2>3. p * MsPerS \in Int /\ (x * k + k) * MsPerS \in Int /\ (x + 1) * lost \in Int
    BY <1>1
  <2>4. QED
    BY <1>1, <1>2, <1>3, <1>s, <2>1, <2>2, <2>3
<1>6. QED
  BY <1>4, <1>5

\* Two readings of the wrapping counter: their difference is never too long,
\* and too short only if the product wrapped in between.
LEMMA ReadingDifference ==
    ASSUME NEW c0 \in Nat, NEW c1 \in Nat, c0 <= c1,
           NEW perMs \in Nat \ {0}, NEW unit \in Nat \ {0},
           NEW x, x = Total(Reading(c1, perMs, unit), unit) - Total(Reading(c0, perMs, unit), unit)
    PROVE  /\ x \in Int
           /\ ~Longer(x, c1 - c0, perMs)
           /\ Wraps(c0, perMs) = Wraps(c1, perMs) => ~Shorter(x, c1 - c0, perMs)
<1> DEFINE p0 == c0 * perMs
           p1 == c1 * perMs
           k0 == p0 \div W
           k1 == p1 \div W
           a0 == p0 % W
           a1 == p1 % W
<1>0. p0 \in Nat /\ p1 \in Nat /\ p0 <= p1 /\ (c1 - c0) * perMs = p1 - p0
  OBVIOUS
<1>w. W \in Nat \ {0} /\ KHz \in Nat \ {0}
  BY UnitAssumption, RateParts
<1>c. c1 - c0 \in Nat
  OBVIOUS
<1> HIDE DEF p0, p1
<1>a. k0 \in Nat /\ a0 \in Nat /\ a0 < W /\ k0 * W + a0 = p0
  BY <1>0, <1>w, DivMod
<1>b. k1 \in Nat /\ a1 \in Nat /\ a1 < W /\ k1 * W + a1 = p1
  BY <1>0, <1>w, DivMod
<1>1. /\ k0 \in Nat /\ k1 \in Nat /\ a0 \in Nat /\ a1 \in Nat
      /\ a0 < W /\ a1 < W /\ k0 * W + a0 = p0 /\ k1 * W + a1 = p1
  BY <1>a, <1>b
<1>r. /\ Reading(c0, perMs, unit) = Split(a0 \div KHz, unit)
      /\ Reading(c1, perMs, unit) = Split(a1 \div KHz, unit)
  BY DEF Reading, p0, p1
<1>s. Wraps(c0, perMs) = k0 /\ Wraps(c1, perMs) = k1
  BY DEF Wraps, p0, p1
<1> HIDE DEF k0, k1, a0, a1
<1>2. k0 <= k1
  <2>1. SUFFICES ASSUME k1 < k0 PROVE FALSE
    BY <1>1
  <2>2. k1 * W + W <= k0 * W
    BY <1>1, <1>w, <2>1, Scale
  <2>3. QED
    BY <1>0, <1>1, <1>w, <2>2
<1>3. k0 * W <= k1 * W /\ (k0 = k1 => k0 * W = k1 * W)
  BY <1>1, <1>2, <1>w, Scale
<1>4. /\ x = (a1 \div KHz) - (a0 \div KHz)
      /\ a0 \div KHz \in Nat /\ a1 \div KHz \in Nat
  <2>1. a0 \div KHz \in Nat /\ a1 \div KHz \in Nat
    BY <1>1, <1>w, DivMod
  <2>2. QED
    BY <1>r, <2>1, SplitExact
<1>5. /\ (a0 \div KHz) * KHz <= a0 /\ a0 < (a0 \div KHz) * KHz + KHz
      /\ (a1 \div KHz) * KHz <= a1 /\ a1 < (a1 \div KHz) * KHz + KHz
  <2>1. (a0 \div KHz) * KHz <= a0 /\ a0 < (a0 \div KHz) * KHz + KHz
    BY <1>1, <1>w, DivMod
  <2>2. (a1 \div KHz) * KHz <= a1 /\ a1 < (a1 \div KHz) * KHz + KHz
    BY <1>1, <1>w, DivMod
  <2>3. QED
    BY <2>1, <2>2
<1>6. x * KHz = (a1 \div KHz) * KHz - (a0 \div KHz) * KHz
  BY <1>4, <1>w
<1>7. ~Longer(x, c1 - c0, perMs)
  <2>1. x * KHz < (c1 - c0) * perMs + KHz
    BY <1>0, <1>1, <1>3, <1>4, <1>5, <1>6, <1>w
  <2>2. QED
    BY <1>4, <1>c, <2>1, RightRate
<1>8. ASSUME k0 = k1 PROVE ~Shorter(x, c1 - c0, perMs)
  <2>1. (c1 - c0) * perMs < x * KHz + KHz
    BY <1>0, <1>1, <1>3, <1>4, <1>5, <1>6, <1>8, <1>w
  <2>2. 0 <= x
    <3>1. SUFFICES ASSUME x < 0 PROVE FALSE
      BY <1>4
    <3>2. x * KHz + KHz <= 0 * KHz
      BY <1>4, <1>w, <3>1, Scale
    <3>3. QED
      BY <1>0, <1>c, <1>w, <2>1, <3>2
  <2>3. QED
    BY <1>4, <1>c, <2>1, <2>2, RightRate
<1>9. QED
  BY <1>4, <1>7, <1>8, <1>s

-----------------------------------------------------------------------------
(* The invariant.                                                          *)

\* Every reading of the clock is a proper time.
LEMMA ReadingType ==
    ASSUME NEW c \in Nat, NEW perMs \in Nat \ {0}, NEW unit \in Nat \ {0}
    PROVE  Reading(c, perMs, unit) \in Times(unit)
<1>1. c * perMs \in Nat
  OBVIOUS
<1>2. (c * perMs) % W \in Nat
  BY <1>1, UnitAssumption, DivMod
<1>3. ((c * perMs) % W) \div KHz \in Nat
  BY <1>2, RateParts, DivMod
<1>4. QED
  BY <1>3, SplitExact DEF Reading

\* At power-on the clock reads 0.
LEMMA ReadingZero ==
    ASSUME NEW perMs \in Nat \ {0}, NEW unit \in Nat \ {0}
    PROVE  Reading(0, perMs, unit) = Zero
<1>1. (0 * perMs) % W = 0
  BY UnitAssumption
<1>2. 0 \div KHz = 0
  BY RateParts
<1>3. 0 \div unit = 0
  OBVIOUS
<1>4. QED
  BY <1>1, <1>2, <1>3 DEF Reading, Split, Zero

\* The difference of a time and itself is nothing.
LEMMA DiffSelf ==
    ASSUME NEW unit \in Nat \ {0}, NEW t \in Times(unit)
    PROVE  Diff(t, t, unit) = Zero
BY DEF Diff, Zero, Times

\* Before any call the two static timevals are zero.
LEMMA InitInv == Init => Inv
<1> SUFFICES ASSUME Init PROVE Inv
  OBVIOUS
<1> USE UnitAssumption, InputAssumption
<1>1. Zero \in Times(M) /\ Zero \in Times(G) /\ Zero \in [sec: Int, frac: 0..(G - 1)]
  BY DEF Zero, Times
<1>2. TypeOK
  BY <1>1 DEF Init, TypeOK
<1>3. WatchInv
  BY DEF Init, WatchInv, Total, Zero
<1>4. TpInv
  <2>1. mark = Reading(from, NsPerMs, G) /\ Reading(over, NsPerMs, G) = mark
    BY ReadingZero DEF Init
  <2>2. QED
    BY <1>1, <2>1, DiffSelf DEF Init, TpInv
<1>5. QED
  BY <1>2, <1>3, <1>4 DEF Inv

\* Every call leaves the stop watch in a state the invariant describes.
LEMMA InvStep == Inv /\ [Next]_vars => Inv'
<1> SUFFICES ASSUME Inv, [Next]_vars PROVE Inv'
  OBVIOUS
<1>a. TypeOK /\ WatchInv /\ TpInv
  BY DEF Inv
<1>b. cycles \in Nat /\ from \in Nat /\ over \in Nat
  BY <1>a, InputAssumption DEF TypeOK
<1>c. Gettimeofday \in Times(M) /\ Clock_gettime \in Times(G)
  BY <1>b, UnitAssumption, ReadingType DEF Gettimeofday, Clock_gettime
<1> USE <1>a, <1>b, UnitAssumption, InputAssumption
<1>1. CASE Tick
  BY <1>1 DEF Inv, Tick, TypeOK, WatchInv, TpInv, watchVars, tpVars
<1>2. CASE Start
  <2>1. TypeOK'
    BY <1>2, <1>c DEF Start, TypeOK, tpVars
  <2>2. WatchInv' /\ TpInv'
    BY <1>2 DEF Start, WatchInv, TpInv, Gettimeofday, tpVars
  <2>3. QED
    BY <2>1, <2>2 DEF Inv
<1>3. CASE Stop
  <2>1. TypeOK'
    BY <1>3, <1>c DEF Stop, TypeOK, tpVars
  <2>2. WatchInv' /\ TpInv'
    BY <1>3 DEF Stop, TypeOK, WatchInv, TpInv, Gettimeofday, tpVars
  <2>3. QED
    BY <2>1, <2>2 DEF Inv
<1>4. CASE Mark
  <2>1. TypeOK'
    BY <1>4, <1>c DEF Mark, TypeOK, watchVars, Zero
  <2>2. mark' = Reading(cycles, NsPerMs, G) /\ Diff(mark', mark', G) = Zero
    BY <1>4, <1>c, DiffSelf DEF Mark, Clock_gettime
  <2>3. WatchInv' /\ TpInv'
    BY <1>4, <2>2 DEF Mark, WatchInv, TpInv, watchVars
  <2>4. QED
    BY <2>1, <2>3 DEF Inv
<1>5. CASE Measure
  <2>1. Diff(mark, Clock_gettime, G) \in [sec: Int, frac: 0..(G - 1)]
    BY <1>c, DiffExact DEF TypeOK
  <2>2. TypeOK'
    BY <1>5, <2>1 DEF Measure, TypeOK, watchVars
  <2>3. WatchInv' /\ TpInv'
    BY <1>5 DEF Measure, TypeOK, WatchInv, TpInv, Clock_gettime, watchVars
  <2>4. QED
    BY <2>2, <2>3 DEF Inv
<1>6. ASSUME NEW usecs \in Usecs, Settime(usecs) PROVE Inv'
  <2>1. /\ usecs \in Nat /\ usecs \div M \in Nat /\ usecs % M \in 0..(M - 1)
        /\ (usecs \div M) * M + (usecs % M) = usecs
    BY DivMod
  <2>2. TypeOK'
    BY <1>6, <2>1 DEF Settime, TypeOK, Times, Zero, tpVars
  <2>3. WatchInv' /\ TpInv'
    BY <1>6, <2>1 DEF Settime, WatchInv, TpInv, Total, tpVars
  <2>4. QED
    BY <2>2, <2>3 DEF Inv
<1>7. CASE UNCHANGED vars
  BY <1>7 DEF vars, watchVars, tpVars, Inv, TypeOK, WatchInv, TpInv
<1>8. QED
  BY <1>1, <1>2, <1>3, <1>4, <1>5, <1>6, <1>7 DEF Next

-----------------------------------------------------------------------------
(* The theorems.                                                           *)

\* Where the stored times come from, in every reachable state.
THEOREM Invariance == Spec => []Inv
<1>1. Init => Inv
  BY InitInv
<1>2. Inv /\ [Next]_vars => Inv'
  BY InvStep
<1>3. QED
  BY <1>1, <1>2, PTL DEF Spec

\* Times and differences are normalised, also when the clock wraps.
THEOREM TypeCorrect == Spec => []TypeOK
<1>1. Inv => TypeOK
  BY DEF Inv
<1>2. QED
  BY <1>1, Invariance, PTL

\* gettime() returns what settime() was given.
THEOREM RoundTrip == Spec => []ReadsBack
<1>1. Inv => ReadsBack
  <2>1. SUFFICES ASSUME Inv, use = "set" PROVE Gettime = span[2]
    BY DEF ReadsBack
  <2>2. start_tv = Zero /\ Total(stop_tv, M) = span[2] /\ span[2] \in Nat
    BY <2>1 DEF Inv, TypeOK, WatchInv
  <2>3. start_tv \in Times(M) /\ stop_tv \in Times(M) /\ Total(Zero, M) = 0
    BY <2>1, UnitAssumption DEF Inv, TypeOK, Total, Zero
  <2>4. QED
    BY <2>2, <2>3, TvdeltaExact DEF Gettime
<1>2. QED
  BY <1>1, Invariance, PTL

\* What a stop watch that was started and stopped says about the cycles between.
LEMMA Watch ==
    ASSUME Inv, use = "timed"
    PROVE  /\ ~Longer(Gettime, span[2] - span[1], UsPerMs)
           /\ Wraps(span[1], UsPerMs) = Wraps(span[2], UsPerMs)
                => ~Shorter(Gettime, span[2] - span[1], UsPerMs)
<1> DEFINE x == Total(stop_tv, M) - Total(start_tv, M)
<1>1. /\ span[1] \in Nat /\ span[2] \in Nat /\ span[1] <= span[2]
      /\ start_tv \in Times(M) /\ stop_tv \in Times(M)
      /\ start_tv = Reading(span[1], UsPerMs, M) /\ stop_tv = Reading(span[2], UsPerMs, M)
  BY DEF Inv, TypeOK, WatchInv
<1>2. /\ x \in Int /\ ~Longer(x, span[2] - span[1], UsPerMs)
      /\ Wraps(span[1], UsPerMs) = Wraps(span[2], UsPerMs)
            => ~Shorter(x, span[2] - span[1], UsPerMs)
  BY <1>1, UnitAssumption, ReadingDifference
<1>3. Total(stop_tv, M) \in Int /\ Total(start_tv, M) \in Int
  BY <1>1, UnitAssumption DEF Total, Times
<1>4. Gettime = IF 0 <= x THEN x ELSE 0
  BY <1>1, <1>3, TvdeltaExact DEF Gettime
<1>5. span[2] - span[1] \in Nat /\ UsPerMs \in Nat \ {0} /\ CyclesPerSec \in Nat \ {0}
  BY <1>1, UnitAssumption
<1>p. (span[2] - span[1]) * UsPerMs * MsPerS \in Nat
  BY <1>5, UnitAssumption
<1> HIDE DEF x
<1>6. CASE 0 <= x
  BY <1>2, <1>4, <1>6
<1>7. CASE x < 0
  <2>1. Gettime = 0 /\ (x + 1) * CyclesPerSec <= CyclesPerSec
    <3>1. x + 1 = 0 \/ x + 1 < 0
      BY <1>2, <1>7
    <3>2. x + 1 < 0 => (x + 1) * CyclesPerSec + CyclesPerSec <= 0 * CyclesPerSec
      BY <1>2, <1>5, Scale
    <3>3. QED
      BY <1>2, <1>4, <1>5, <1>7, <3>1, <3>2
  <2>2. ~Longer(0, span[2] - span[1], UsPerMs)
    BY <1>5, <1>p, RateParts DEF Longer, Drift
  <2>3. ~Shorter(x, span[2] - span[1], UsPerMs) => ~Shorter(0, span[2] - span[1], UsPerMs)
    BY <1>2, <1>5, <1>p, <2>1 DEF Shorter
  <2>4. QED
    BY <1>2, <2>1, <2>2, <2>3
<1>8. QED
  BY <1>2, <1>6, <1>7

\* No measurement is ever reported as longer than it was, wrap or no wrap, but
\* for the share of it that kHz = cycles_per_sec / 1000 has lost.
THEOREM NotTooLong == Spec => []NeverTooLong
<1>1. Inv => NeverTooLong
  BY Watch DEF NeverTooLong
<1>2. QED
  BY <1>1, Invariance, PTL

\* A measurement during which the clock did not wrap is not too short.
THEOREM NotTooShort == Spec => []NotShortUnlessWrapped
<1>1. Inv => NotShortUnlessWrapped
  BY Watch DEF NotShortUnlessWrapped
<1>2. QED
  BY <1>1, Invariance, PTL

\* So are the nanoseconds of sleeptest and msgring.
THEOREM NanosRight == Spec => []NanosUnlessWrapped
<1>1. Inv => NanosUnlessWrapped
  <2>1. SUFFICES ASSUME Inv, Wraps(from, NsPerMs) = Wraps(over, NsPerMs)
                 PROVE  /\ ~Longer(Total(diff, G), over - from, NsPerMs)
                        /\ ~Shorter(Total(diff, G), over - from, NsPerMs)
    BY DEF NanosUnlessWrapped
  <2>2. /\ from \in Nat /\ over \in Nat /\ from <= over
        /\ mark = Reading(from, NsPerMs, G) /\ diff = Diff(mark, Reading(over, NsPerMs, G), G)
    BY <2>1, InputAssumption DEF Inv, TypeOK, TpInv
  <2>3. mark \in Times(G) /\ Reading(over, NsPerMs, G) \in Times(G)
    BY <2>2, UnitAssumption, ReadingType
  <2>4. Total(diff, G) = Total(Reading(over, NsPerMs, G), G) - Total(Reading(from, NsPerMs, G), G)
    BY <2>2, <2>3, UnitAssumption, DiffExact
  <2>5. QED
    BY <2>1, <2>2, <2>4, UnitAssumption, ReadingDifference
<1>2. QED
  BY <1>1, Invariance, PTL

\* The stop watch, settime() and gettime(), and the nanoseconds: all of them.
THEOREM KeepTime == Spec => []ClocksKeepTime
<1>1. NotShortUnlessWrapped /\ ReadsBack /\ NanosUnlessWrapped => ClocksKeepTime
  BY DEF ClocksKeepTime
<1>2. QED
  BY <1>1, NotTooShort, RoundTrip, NanosRight, PTL

-----------------------------------------------------------------------------
(* Induction over the natural numbers, from the least element a set of     *)
(* them has, and the functions a loop computes step by step.               *)

\* A set that holds 0 and with every number the next one holds them all.
LEMMA SetInduction ==
  ASSUME NEW T, 0 \in T, \A n \in Nat : n \in T => n + 1 \in T
  PROVE  \A n \in Nat : n \in T
<1> DEFINE U == {n \in Nat : n \notin T}
           R == OpToRel(<, Nat)
<1>1. SUFFICES ASSUME U # {} PROVE FALSE
  OBVIOUS
<1>2. U \subseteq Nat
  OBVIOUS
<1>3. IsWellFoundedOn(R, Nat)
  BY NatLessThanWellFounded
<1> HIDE DEF R, U
<1>4. PICK x \in U : \A y \in U : ~ (<<y, x>> \in R)
  BY <1>1, <1>2, <1>3, WFMin
<1>5. x \in Nat /\ x \notin T
  BY DEF U
<1>6. x # 0
  BY <1>5
<1>7. x - 1 \in Nat /\ x = (x - 1) + 1
  BY <1>5, <1>6
<1>8. x - 1 \notin T
  BY <1>5, <1>7
<1>9. x - 1 \in U
  BY <1>7, <1>8 DEF U
<1>10. <<x - 1, x>> \in R
  BY <1>5, <1>7 DEF R, OpToRel
<1> QED
  BY <1>4, <1>9, <1>10

\* The values g[0], ..., g[n] of a loop that begins with s and makes of the
\* value v before its step m the value F[<<v, m>>].
Iterates(g, F, s, n) == g[0] = s /\ \A m \in 1 .. n : g[m] = F[<<g[m - 1], m>>]

\* A loop has values, and they stay in the set its step stays in.
LEMMA LoopExists ==
  ASSUME NEW S, NEW F \in [S \X Nat -> S], NEW s \in S
  PROVE  \A n \in Nat : \E g \in [0 .. n -> S] : Iterates(g, F, s, n)
<1> DEFINE Good(n) == \E g \in [0 .. n -> S] :
              g[0] = s /\ \A m \in 1 .. n : g[m] = F[<<g[m - 1], m>>]
           T == {n \in Nat : Good(n)}
<1>1. 0 \in T
  <2> DEFINE g == [x \in 0 .. 0 |-> s]
  <2>1. g \in [0 .. 0 -> S] /\ g[0] = s /\ \A m \in 1 .. 0 : g[m] = F[<<g[m - 1], m>>]
    OBVIOUS
  <2> QED BY <2>1
<1>2. ASSUME NEW n \in Nat, n \in T PROVE n + 1 \in T
  <2>1. PICK g \in [0 .. n -> S] :
            g[0] = s /\ \A m \in 1 .. n : g[m] = F[<<g[m - 1], m>>]
    BY <1>2
  <2> DEFINE v == F[<<g[n], n + 1>>]
             h == [x \in 0 .. n + 1 |-> IF x <= n THEN g[x] ELSE v]
  <2>2. v \in S
    BY <2>1
  <2>3. h \in [0 .. n + 1 -> S]
    BY <2>1, <2>2
  <2>4. h[0] = s
    BY <2>1
  <2>5. ASSUME NEW m \in 1 .. n + 1 PROVE h[m] = F[<<h[m - 1], m>>]
    <3>1. CASE m <= n
      BY <3>1, <2>1
    <3>2. CASE m > n
       <4>1. m = n + 1
         BY <3>2
       <4>2. h[m] = v
         BY <4>1
       <4>3. h[m - 1] = g[n]
         BY <4>1
       <4> QED BY <4>1, <4>2, <4>3
    <3> QED BY <3>1, <3>2
  <2> HIDE DEF h
  <2> QED BY <2>3, <2>4, <2>5
<1> HIDE DEF T
<1>3. \A n \in Nat : n \in T
  BY <1>1, <1>2, SetInduction
<1> QED BY <1>3 DEF T, Iterates

\* The places two loops, one in the other, compare.
LEMMA PairPlaces ==
  ASSUME NEW n \in Nat, NEW x \in 1 .. n * n
  PROVE  /\ n # 0
         /\ (x - 1) \div n \in 0 .. n - 1
         /\ (x - 1) % n \in 0 .. n - 1
<1>1. n # 0
  OBVIOUS
<1> DEFINE q == (x - 1) \div n
<1>2. x - 1 \in Nat /\ x - 1 < n * n /\ n * n \in Nat
  OBVIOUS
<1>3. q \in Nat /\ q * n <= x - 1 /\ (x - 1) % n \in Nat /\ (x - 1) % n < n
  BY <1>1, <1>2, DivMod
<1> HIDE DEF q
<1>4. q < n
  <2> SUFFICES ASSUME q >= n PROVE FALSE
    BY <1>3
  <2>1. q * n >= n * n
    BY <1>3
  <2> QED BY <2>1, <1>2, <1>3
<1> QED BY <1>1, <1>3, <1>4 DEF q

-----------------------------------------------------------------------------
(* lib_sched.c.  Reversing the bits of two processor numbers keeps them    *)
(* apart, and so does the choice of a processor in a mask.                 *)
CONSTANTS
    PlcCpus, PlcPar, PlcCustom, PlcBehind

VARIABLES
    p_sched, p_ncpus, p_allowed, p_values, p_parallel, p_pc, p_cpus,
    p_known, p_cpumask, p_pinned, p_kid, p_kidcpus, p_child_pid

Plc == INSTANCE Placement WITH
    MaxCpus <- PlcCpus, MaxPar <- PlcPar, Custom <- PlcCustom,
    Behind <- PlcBehind,
    sched <- p_sched, ncpus <- p_ncpus, allowed <- p_allowed,
    values <- p_values, parallel <- p_parallel, pc <- p_pc, cpus <- p_cpus,
    known <- p_known, cpumask <- p_cpumask, pinned <- p_pinned, kid <- p_kid, kidcpus <- p_kidcpus,
    child_pid <- p_child_pid

\* Processors, as many as `1 << bit' counts.
PlcSizes ==
    /\ PlcCpus \in Nat /\ PlcCpus <= 31 /\ PlcPar \in Nat /\ PlcBehind \in Nat
    /\ PlcCustom \in Seq(Nat)
ASSUME PlcAssumption == PlcSizes

\* The powers of two.
LEMMA Powers ==
  ASSUME PlcCpus \in Nat
  PROVE  /\ Plc!pow2 \in [0 .. PlcCpus -> Nat \ {0}] /\ Plc!pow2[0] = 1
         /\ \A b \in 1 .. PlcCpus : Plc!pow2[b] = 2 * Plc!pow2[b - 1]
<1> DEFINE S == Nat \ {0}
           F == [c \in S \X Nat |-> 2 * c[1]]
           Def(f) == [b \in 0 .. PlcCpus |-> IF b = 0 THEN 1 ELSE 2 * f[b - 1]]
<1>1. F \in [S \X Nat -> S] /\ 1 \in S
  OBVIOUS
<1> HIDE DEF F, S
<1>2. PICK g \in [0 .. PlcCpus -> S] :
         g[0] = 1 /\ \A m \in 1 .. PlcCpus : g[m] = F[<<g[m - 1], m>>]
  <2>1. \A n \in Nat : \E g \in [0 .. n -> S] : Iterates(g, F, 1, n)
    BY ONLY <1>1, LoopExists, Zenon
  <2> QED BY ONLY <2>1, PlcCpus \in Nat, Zenon DEF Iterates
<1>3. ASSUME NEW m \in 1 .. PlcCpus PROVE g[m] = 2 * g[m - 1]
  <2>1. g[m - 1] \in S
    OBVIOUS
  <2>2. F[<<g[m - 1], m>>] = 2 * g[m - 1]
    BY <2>1 DEF F
  <2> QED BY <2>2, <1>2
<1>4. g = Def(g)
  <2>1. g = [n \in 0 .. PlcCpus |-> g[n]]
    OBVIOUS
  <2>2. ASSUME NEW n \in 0 .. PlcCpus PROVE g[n] = IF n = 0 THEN 1 ELSE 2 * g[n - 1]
    BY <1>2, <1>3
  <2> QED BY <2>1, <2>2, Zenon
<1>5. Plc!pow2 = Def(Plc!pow2)
  <2>1. Plc!pow2 = CHOOSE f : f = Def(f)
    BY DEF Plc!pow2
  <2> HIDE DEF Def
  <2> QED BY <1>4, <2>1
<1>6. /\ Plc!pow2 = [b \in 0 .. PlcCpus |-> Plc!pow2[b]]
      /\ Plc!pow2[0] = 1 /\ \A b \in 1 .. PlcCpus : Plc!pow2[b] = 2 * Plc!pow2[b - 1]
  <2>1. ASSUME NEW b \in 0 .. PlcCpus PROVE Plc!pow2[b] = IF b = 0 THEN 1 ELSE 2 * Plc!pow2[b - 1]
    BY <1>5, Zenon
  <2>2. 0 \in 0 .. PlcCpus /\ \A b \in 1 .. PlcCpus : b \in 0 .. PlcCpus /\ b # 0
    OBVIOUS
  <2>3. Plc!pow2 = [b \in 0 .. PlcCpus |-> Plc!pow2[b]]
    <3>1. DOMAIN Def(Plc!pow2) = 0 .. PlcCpus /\ Def(Plc!pow2) = [b \in 0 .. PlcCpus |-> Def(Plc!pow2)[b]]
      BY ONLY Zenon
    <3> HIDE DEF Def
    <3> QED BY ONLY <1>5, <3>1
  <2>4. Plc!pow2[0] = 1
    BY ONLY <2>1, <2>2, Zenon
  <2> QED BY ONLY <2>1, <2>2, <2>3, <2>4, Zenon
<1> HIDE DEF Def
<1> DEFINE T == {n \in Nat : n \in 0 .. PlcCpus => Plc!pow2[n] \in S}
<1>7. 0 \in T
  BY <1>6, <1>1
<1>8. ASSUME NEW n \in Nat, n \in T PROVE n + 1 \in T
  <2> SUFFICES ASSUME n + 1 \in 0 .. PlcCpus PROVE Plc!pow2[n + 1] \in S
    OBVIOUS
  <2>1. Plc!pow2[n] \in S
    BY <1>8
  <2>2. n + 1 \in 1 .. PlcCpus /\ (n + 1) - 1 = n
    OBVIOUS
  <2>3. Plc!pow2[n + 1] = 2 * Plc!pow2[n]
    BY ONLY <1>6, <2>2
  <2> QED BY ONLY <2>1, <2>3 DEF S
<1> HIDE DEF T
<1>9. \A n \in Nat : n \in T
  BY <1>7, <1>8, SetInduction
<1>10. \A b \in 0 .. PlcCpus : Plc!pow2[b] \in S
  BY <1>9 DEF T
<1> QED BY <1>6, <1>10 DEF S

\* A larger exponent is a larger power, and a power is larger than its exponent.
LEMMA PowersGrow ==
  ASSUME PlcCpus \in Nat
  PROVE  /\ \A b \in 0 .. PlcCpus : b < Plc!pow2[b]
         /\ \A a, b \in 0 .. PlcCpus : a < b => Plc!pow2[a] < Plc!pow2[b]
<1>1. /\ \A b \in 0 .. PlcCpus : Plc!pow2[b] \in Nat \ {0}
      /\ Plc!pow2[0] = 1 /\ \A b \in 1 .. PlcCpus : Plc!pow2[b] = 2 * Plc!pow2[b - 1]
  BY Powers
<1> DEFINE T == {n \in Nat : n \in 0 .. PlcCpus =>
                    n < Plc!pow2[n] /\ \A a \in 0 .. PlcCpus : a < n => Plc!pow2[a] < Plc!pow2[n]}
<1>2. 0 \in T
  BY <1>1
<1>3. ASSUME NEW n \in Nat, n \in T PROVE n + 1 \in T
  <2> SUFFICES ASSUME n + 1 \in 0 .. PlcCpus
               PROVE  /\ n + 1 < Plc!pow2[n + 1]
                      /\ \A a \in 0 .. PlcCpus : a < n + 1 => Plc!pow2[a] < Plc!pow2[n + 1]
    OBVIOUS
  <2>1. n \in 0 .. PlcCpus /\ n + 1 \in 1 .. PlcCpus /\ (n + 1) - 1 = n
    OBVIOUS
  <2>2. Plc!pow2[n + 1] = 2 * Plc!pow2[n] /\ Plc!pow2[n] \in Nat \ {0} /\ Plc!pow2[n + 1] \in Nat
    BY <1>1, <2>1
  <2>3. n < Plc!pow2[n] /\ \A a \in 0 .. PlcCpus : a < n => Plc!pow2[a] < Plc!pow2[n]
    BY <1>3, <2>1
  <2>4. n + 1 < Plc!pow2[n + 1]
    BY ONLY <2>2, <2>3, n \in Nat
  <2>5. ASSUME NEW a \in 0 .. PlcCpus, a < n + 1 PROVE Plc!pow2[a] < Plc!pow2[n + 1]
    <3>1. a = n \/ a < n
      BY <2>5
    <3>2. Plc!pow2[a] \in Nat
      BY <1>1
    <3>3. Plc!pow2[a] <= Plc!pow2[n]
      BY ONLY <3>1, <3>2, <2>2, <2>3, a \in 0 .. PlcCpus
    <3> QED BY ONLY <3>2, <3>3, <2>2
  <2> QED BY <2>4, <2>5
<1> HIDE DEF T
<1>4. \A n \in Nat : n \in T
  BY <1>2, <1>3, SetInduction
<1> QED BY <1>4 DEF T

\* The number of bits fits the largest CPU number.
LEMMA EnoughBits ==
  ASSUME PlcCpus \in Nat, p_ncpus \in 1 .. PlcCpus
  PROVE  /\ Plc!nbits \in 1 .. PlcCpus /\ p_ncpus - 1 < Plc!pow2[Plc!nbits]
         /\ \A a \in 1 .. Plc!nbits - 1 : p_ncpus - 1 >= Plc!pow2[a]
<1> DEFINE U == {b \in 1 .. PlcCpus : p_ncpus - 1 < Plc!pow2[b]}
<1>1. PlcCpus \in U
  BY PowersGrow, Powers
<1>2. PICK m \in U : \A y \in U : m <= y
  <2>1. U \subseteq Nat
    OBVIOUS
  <2>2. IsWellFoundedOn(OpToRel(<, Nat), Nat)
    BY NatLessThanWellFounded
  <2> DEFINE R == OpToRel(<, Nat)
  <2> HIDE DEF U, R
  <2>3. PICK x \in U : \A y \in U : ~ (<<y, x>> \in R)
    BY <1>1, <2>1, <2>2, WFMin DEF R
  <2>4. ASSUME NEW y \in U PROVE x <= y
    <3> SUFFICES ASSUME y < x PROVE FALSE
      BY <2>1
    <3>1. <<y, x>> \in R
      BY <2>1 DEF R, OpToRel
    <3> QED BY <3>1, <2>3
  <2> QED BY <2>4
<1>3. m \in 1 .. PlcCpus /\ p_ncpus - 1 < Plc!pow2[m]
  OBVIOUS
<1>4. ASSUME NEW a \in 1 .. m - 1 PROVE p_ncpus - 1 >= Plc!pow2[a]
  <2>1. a \in 1 .. PlcCpus /\ ~ (m <= a)
    BY <1>3
  <2>2. a \notin U
    BY <1>2, <2>1
  <2>3. a \in 0 .. PlcCpus
    BY <2>1
  <2>4. Plc!pow2[a] \in Nat
    BY <2>3, Powers
  <2> QED BY <2>1, <2>2, <2>4
<1>5. \E b \in 1 .. PlcCpus : p_ncpus - 1 < Plc!pow2[b] /\ \A a \in 1 .. b - 1 : p_ncpus - 1 >= Plc!pow2[a]
  BY <1>3, <1>4
<1> QED BY <1>5, Zenon DEF Plc!nbits

\* A power of two has one bit more than the largest number below it.
LEMMA PowerBits ==
  ASSUME PlcCpus \in Nat, p_ncpus \in 1 .. PlcCpus, p_ncpus # 1,
         NEW b \in 0 .. PlcCpus, p_ncpus = Plc!pow2[b]
  PROVE  Plc!pow2[Plc!nbits] = p_ncpus
<1>1. /\ Plc!nbits \in 1 .. PlcCpus /\ p_ncpus - 1 < Plc!pow2[Plc!nbits]
      /\ \A a \in 1 .. Plc!nbits - 1 : p_ncpus - 1 >= Plc!pow2[a]
  BY EnoughBits
<1>2. \A a, c \in 0 .. PlcCpus : a < c => Plc!pow2[a] < Plc!pow2[c]
  BY PowersGrow
<1>3. Plc!pow2[0] = 1 /\ \A a \in 0 .. PlcCpus : Plc!pow2[a] \in Nat
  BY Powers
<1>4. ~ (Plc!nbits < b)
  <2>1. Plc!nbits < b => Plc!pow2[Plc!nbits] < Plc!pow2[b]
    BY <1>1, <1>2
  <2> QED BY <1>1, <1>3, <2>1
<1>5. ~ (b < Plc!nbits)
  <2> SUFFICES ASSUME b < Plc!nbits PROVE FALSE
    OBVIOUS
  <2>1. b # 0
    BY <1>3
  <2>2. b \in 1 .. Plc!nbits - 1
    BY <1>1, <2>1
  <2> QED BY <1>1, <1>3, <2>2
<1> QED BY <1>1, <1>4, <1>5

\* Halving a quotient.
LEMMA DivStep ==
  ASSUME NEW x \in Nat, NEW m \in Nat \ {0}
  PROVE  (x \div m) = 2 * (x \div (2 * m)) + ((x \div m) % 2)
<1> DEFINE q == x \div m
           h == x \div (2 * m)
<1>1. q \in Nat /\ q * m <= x /\ x < q * m + m
  BY DivMod
<1>2. 2 * m \in Nat \ {0}
  OBVIOUS
<1>3. h \in Nat /\ h * (2 * m) <= x /\ x < h * (2 * m) + 2 * m
  BY <1>2, DivMod
<1> HIDE DEF q, h
<1>4. 2 * h <= q
  <2> SUFFICES ASSUME q < 2 * h PROVE FALSE
    BY <1>1, <1>3
  <2>1. q + 1 <= 2 * h
    BY <1>1, <1>3
  <2>2. (q + 1) * m <= (2 * h) * m
    BY <1>1, <1>3, <2>1
  <2>3. (q + 1) * m = q * m + m /\ (2 * h) * m = h * (2 * m)
    BY <1>1, <1>3
  <2> QED BY <1>1, <1>3, <2>2, <2>3
<1>5. q <= 2 * h + 1
  <2> SUFFICES ASSUME 2 * h + 2 <= q PROVE FALSE
    BY <1>1, <1>3
  <2>1. (2 * h + 2) * m <= q * m
    BY <1>1, <1>3
  <2>2. (2 * h + 2) * m = h * (2 * m) + 2 * m
    BY <1>1, <1>3
  <2> QED BY <1>1, <1>3, <2>1, <2>2
<1>6. q = 2 * h \/ q = 2 * h + 1
  BY ONLY <1>1, <1>3, <1>4, <1>5
<1> DEFINE r == q % 2
<1>7. q = 2 * h + r
  <2>1. h \in Nat
    BY <1>3
  <2>2. (2 * h) % 2 = 0 /\ (2 * h + 1) % 2 = 1
    BY ONLY <2>1
  <2>3. CASE q = 2 * h
    <3>1. r = 0
      BY ONLY <2>2, <2>3, Zenon
    <3> HIDE DEF r
    <3> QED BY ONLY <2>1, <2>3, <3>1
  <2>4. CASE q = 2 * h + 1
    <3>1. r = 1
      BY ONLY <2>2, <2>4, Zenon
    <3> HIDE DEF r
    <3> QED BY ONLY <2>1, <2>4, <3>1
  <2> QED BY ONLY <1>6, <2>3, <2>4
<1> QED BY ONLY <1>7, Zenon DEF q, h

\* reverse_bits() shifts the bits of cpu out one after the other.
LEMMA ReverseSteps ==
  ASSUME PlcCpus \in Nat, p_ncpus \in 1 .. PlcCpus, NEW cpu \in Nat
  PROVE  \E f : /\ f[0] = 0
                /\ \A i \in 0 .. Plc!nbits : f[i] \in Nat
                /\ \A i \in 1 .. Plc!nbits : f[i] = 2 * f[i - 1] + ((cpu \div Plc!pow2[i - 1]) % 2)
                /\ Plc!reverse_bits(cpu) = f[Plc!nbits]
<1> DEFINE n == Plc!nbits
           bit(i) == (cpu \div Plc!pow2[i]) % 2
           Step(q, x) == IF x \in 1 .. n THEN 2 * q + bit(x - 1) ELSE q
           F == [c \in Nat \X Nat |-> Step(c[1], c[2])]
           Def(f) == [i \in 0 .. n |-> IF i = 0 THEN 0 ELSE 2 * f[i - 1] + bit(i - 1)]
           after == CHOOSE f : f = Def(f)
<1>n. n \in Nat /\ n <= PlcCpus
  BY EnoughBits
<1>b. \A i \in 0 .. n : bit(i) \in Nat
  <2> SUFFICES ASSUME NEW i \in 0 .. n PROVE bit(i) \in Nat
    BY Zenon
  <2>1. i \in 0 .. PlcCpus
    BY <1>n
  <2>2. Plc!pow2[i] \in Nat \ {0}
    BY <2>1, Powers
  <2>3. cpu \div Plc!pow2[i] \in Nat
    BY <2>2, DivMod
  <2> QED BY <2>3
<1>e. Plc!reverse_bits(cpu) = after[n]
  BY Zenon DEF Plc!reverse_bits
<1> HIDE DEF bit, n, Step
<1>1. F \in [Nat \X Nat -> Nat]
  <2>1. ASSUME NEW q \in Nat, NEW x \in Nat PROVE Step(q, x) \in Nat
    <3>1. CASE x \in 1 .. n
      <4>1. x - 1 \in 0 .. n
        BY <3>1, <1>n
      <4>2. bit(x - 1) \in Nat
        BY ONLY <4>1, <1>b, Zenon
      <4> QED BY <4>2, <3>1 DEF Step
    <3>2. CASE x \notin 1 .. n
      BY <3>2 DEF Step
    <3> QED BY <3>1, <3>2
  <2> QED BY <2>1
<1> HIDE DEF F
<1>2. PICK g \in [0 .. n -> Nat] : g[0] = 0 /\ \A m \in 1 .. n : g[m] = F[<<g[m - 1], m>>]
  <2>0. 0 \in Nat
    OBVIOUS
  <2>1. \A k \in Nat : \E g \in [0 .. k -> Nat] : Iterates(g, F, 0, k)
    BY ONLY <1>1, <2>0, LoopExists, Zenon
  <2> QED BY ONLY <2>1, <1>n, Zenon DEF Iterates
<1>3. ASSUME NEW m \in 1 .. n PROVE g[m] = 2 * g[m - 1] + bit(m - 1)
  <2>1. g[m - 1] \in Nat /\ m \in Nat
    BY <1>n
  <2>2. F[<<g[m - 1], m>>] = Step(g[m - 1], m)
    BY <2>1 DEF F
  <2> QED BY <2>2, <1>2 DEF Step
<1>4. g = Def(g)
  <2>1. g = [i \in 0 .. n |-> g[i]]
    OBVIOUS
  <2>2. ASSUME NEW i \in 0 .. n PROVE g[i] = IF i = 0 THEN 0 ELSE 2 * g[i - 1] + bit(i - 1)
    <3>1. CASE i = 0
      BY <3>1, <1>2, Zenon
    <3>2. CASE i # 0
      <4>1. i \in 1 .. n
        BY <3>2, <1>n
      <4> QED BY <4>1, <3>2, <1>3, Zenon
    <3> QED BY <3>1, <3>2
  <2> QED BY <2>1, <2>2, Zenon
<1> HIDE DEF Def
<1>5. after = Def(after)
  BY <1>4
<1> HIDE DEF after
<1>6. after[0] = 0 /\ \A i \in 1 .. n : after[i] = 2 * after[i - 1] + bit(i - 1)
  <2>1. ASSUME NEW i \in 0 .. n PROVE after[i] = IF i = 0 THEN 0 ELSE 2 * after[i - 1] + bit(i - 1)
    BY <1>5, Zenon DEF Def
  <2>2. 0 \in 0 .. n /\ \A i \in 1 .. n : i \in 0 .. n /\ i # 0
    BY <1>n
  <2> QED BY ONLY <2>1, <2>2, Zenon
<1> DEFINE T == {i \in Nat : i \in 0 .. n => after[i] \in Nat}
<1>7. 0 \in T
  BY <1>6
<1>8. ASSUME NEW i \in Nat, i \in T PROVE i + 1 \in T
  <2> SUFFICES ASSUME i + 1 \in 0 .. n PROVE after[i + 1] \in Nat
    OBVIOUS
  <2>1. i + 1 \in 1 .. n /\ (i + 1) - 1 = i /\ i \in 0 .. n
    BY <1>n
  <2>2. after[i] \in Nat /\ bit(i) \in Nat
    BY <1>8, <2>1, <1>b, Zenon
  <2>3. after[i + 1] = 2 * after[i] + bit(i)
    BY ONLY <1>6, <2>1, Zenon
  <2> QED BY ONLY <2>2, <2>3
<1> HIDE DEF T
<1>9. \A i \in Nat : i \in T
  BY <1>7, <1>8, SetInduction
<1>10. \A i \in 0 .. n : after[i] \in Nat
  BY <1>9, <1>n DEF T
<1> QED BY <1>6, <1>10, <1>e, Zenon DEF n, bit

\* The bits of a quotient.
LEMMA BinaryBits ==
  ASSUME PlcCpus \in Nat, NEW i \in 1 .. PlcCpus, NEW x \in Nat
  PROVE  /\ x \div Plc!pow2[i - 1] \in Nat /\ x \div Plc!pow2[i] \in Nat
         /\ (x \div Plc!pow2[i - 1]) % 2 \in 0 .. 1
         /\ (x \div Plc!pow2[i - 1]) = 2 * (x \div Plc!pow2[i]) + ((x \div Plc!pow2[i - 1]) % 2)
<1>1. i \in 0 .. PlcCpus /\ i - 1 \in 0 .. PlcCpus
  OBVIOUS
<1>2. Plc!pow2[i - 1] \in Nat \ {0} /\ Plc!pow2[i] \in Nat \ {0} /\ Plc!pow2[i] = 2 * Plc!pow2[i - 1]
  BY <1>1, Powers
<1> DEFINE m == Plc!pow2[i - 1]
<1> HIDE DEF m
<1>3. m \in Nat \ {0} /\ Plc!pow2[i] = 2 * m /\ 2 * m \in Nat \ {0}
  BY <1>2 DEF m
<1>4. x \div m \in Nat /\ x \div (2 * m) \in Nat
  BY ONLY <1>3, x \in Nat, DivMod
<1>5. (x \div m) % 2 \in 0 .. 1
  <2> DEFINE q == x \div m
  <2>1. q \in Nat
    BY <1>4
  <2> HIDE DEF q
  <2>2. q % 2 \in 0 .. 1
    BY ONLY <2>1
  <2> QED BY <2>2 DEF q
<1>6. (x \div m) = 2 * (x \div (2 * m)) + ((x \div m) % 2)
  BY ONLY <1>3, x \in Nat, DivStep
<1> QED BY ONLY <1>3, <1>4, <1>5, <1>6, Zenon DEF m

\* The reversed number has no more bits.
LEMMA ReverseFits ==
  ASSUME PlcCpus \in Nat, p_ncpus \in 1 .. PlcCpus, NEW cpu \in Nat
  PROVE  Plc!reverse_bits(cpu) \in Nat /\ Plc!reverse_bits(cpu) < Plc!pow2[Plc!nbits]
<1>1. PICK f : /\ f[0] = 0
               /\ \A i \in 0 .. Plc!nbits : f[i] \in Nat
               /\ \A i \in 1 .. Plc!nbits : f[i] = 2 * f[i - 1] + ((cpu \div Plc!pow2[i - 1]) % 2)
               /\ Plc!reverse_bits(cpu) = f[Plc!nbits]
  BY ReverseSteps
<1>2. Plc!nbits \in 1 .. PlcCpus
  BY EnoughBits
<1> DEFINE T == {i \in Nat : i \in 0 .. Plc!nbits => f[i] < Plc!pow2[i]}
<1>3. 0 \in T
  BY <1>1, Powers
<1>4. ASSUME NEW i \in Nat, i \in T PROVE i + 1 \in T
  <2> SUFFICES ASSUME i + 1 \in 0 .. Plc!nbits PROVE f[i + 1] < Plc!pow2[i + 1]
    OBVIOUS
  <2>1. /\ i \in 0 .. Plc!nbits /\ i + 1 \in 1 .. Plc!nbits /\ (i + 1) - 1 = i
        /\ i + 1 \in 1 .. PlcCpus /\ i \in 0 .. PlcCpus
    BY <1>2
  <2>2. f[i] < Plc!pow2[i] /\ f[i] \in Nat /\ Plc!pow2[i] \in Nat
    BY <1>1, <1>4, <2>1, Powers
  <2>3. Plc!pow2[i + 1] = 2 * Plc!pow2[i]
    BY <2>1, Powers
  <2>4. f[i + 1] = 2 * f[i] + ((cpu \div Plc!pow2[i]) % 2)
    BY ONLY <1>1, <2>1, Zenon
  <2>5. (cpu \div Plc!pow2[i]) % 2 \in 0 .. 1
    <3>1. (cpu \div Plc!pow2[(i + 1) - 1]) % 2 \in 0 .. 1
      BY <2>1, BinaryBits
    <3> QED BY ONLY <3>1, <2>1, Zenon
  <2> DEFINE b == (cpu \div Plc!pow2[i]) % 2
  <2> HIDE DEF b
  <2>6. f[i + 1] = 2 * f[i] + b /\ b \in 0 .. 1
    BY <2>4, <2>5 DEF b
  <2> QED BY ONLY <2>2, <2>3, <2>6
<1> HIDE DEF T
<1>5. \A i \in Nat : i \in T
  BY <1>3, <1>4, SetInduction
<1>6. f[Plc!nbits] < Plc!pow2[Plc!nbits]
  BY <1>2, <1>5 DEF T
<1> QED BY <1>1, <1>2, <1>6

\* Two numbers of as many bits are different when reversed.
LEMMA ReverseOneToOne ==
  ASSUME PlcCpus \in Nat, p_ncpus \in 1 .. PlcCpus,
         NEW x \in Nat, NEW y \in Nat, x < Plc!pow2[Plc!nbits], y < Plc!pow2[Plc!nbits],
         Plc!reverse_bits(x) = Plc!reverse_bits(y)
  PROVE  x = y
<1> DEFINE n == Plc!nbits
<1>1. PICK f : /\ f[0] = 0
               /\ \A i \in 0 .. Plc!nbits : f[i] \in Nat
               /\ \A i \in 1 .. Plc!nbits : f[i] = 2 * f[i - 1] + ((x \div Plc!pow2[i - 1]) % 2)
               /\ Plc!reverse_bits(x) = f[Plc!nbits]
  BY ReverseSteps
<1>2. PICK g : /\ g[0] = 0
               /\ \A i \in 0 .. Plc!nbits : g[i] \in Nat
               /\ \A i \in 1 .. Plc!nbits : g[i] = 2 * g[i - 1] + ((y \div Plc!pow2[i - 1]) % 2)
               /\ Plc!reverse_bits(y) = g[Plc!nbits]
  BY ReverseSteps
<1>3. n \in 1 .. PlcCpus
  BY EnoughBits
<1> DEFINE T == {k \in Nat : k \in 0 .. n =>
                    f[n - k] = g[n - k] /\ x \div Plc!pow2[n - k] = y \div Plc!pow2[n - k]}
<1>4. 0 \in T
  <2>1. n - 0 = n
    BY <1>3
  <2>2. Plc!pow2[n] \in Nat \ {0}
    BY <1>3, Powers
  <2>3. x \div Plc!pow2[n] = 0 /\ y \div Plc!pow2[n] = 0
    BY <2>2
  <2>4. f[n] = g[n]
    BY <1>1, <1>2
  <2> QED BY <2>1, <2>3, <2>4
<1>5. ASSUME NEW k \in Nat, k \in T PROVE k + 1 \in T
  <2> SUFFICES ASSUME k + 1 \in 0 .. n
               PROVE  /\ f[n - (k + 1)] = g[n - (k + 1)]
                      /\ x \div Plc!pow2[n - (k + 1)] = y \div Plc!pow2[n - (k + 1)]
    OBVIOUS
  <2> DEFINE i == n - k
  <2>1. i \in 1 .. Plc!nbits /\ i \in 1 .. PlcCpus /\ i - 1 \in 0 .. Plc!nbits /\ n - (k + 1) = i - 1
    BY <1>3
  <2>2. f[i] = g[i] /\ x \div Plc!pow2[i] = y \div Plc!pow2[i]
    <3>1. k \in 0 .. n
      BY <1>3
    <3> QED BY <1>5, <3>1, Zenon
  <2> HIDE DEF i, n
  <2> DEFINE bx == (x \div Plc!pow2[i - 1]) % 2
             by == (y \div Plc!pow2[i - 1]) % 2
  <2>3. /\ f[i] = 2 * f[i - 1] + bx /\ g[i] = 2 * g[i - 1] + by
        /\ f[i - 1] \in Nat /\ g[i - 1] \in Nat
    BY ONLY <1>1, <1>2, <2>1, Zenon
  <2>4. /\ bx \in 0 .. 1 /\ by \in 0 .. 1
        /\ x \div Plc!pow2[i] \in Nat /\ y \div Plc!pow2[i] \in Nat
        /\ (x \div Plc!pow2[i - 1]) = 2 * (x \div Plc!pow2[i]) + bx
        /\ (y \div Plc!pow2[i - 1]) = 2 * (y \div Plc!pow2[i]) + by
    BY ONLY <2>1, BinaryBits, PlcCpus \in Nat, x \in Nat, y \in Nat, Zenon
  <2> HIDE DEF bx, by
  <2>5. f[i - 1] = g[i - 1] /\ bx = by
    <3>1. 2 * f[i - 1] + bx = 2 * g[i - 1] + by
      BY <2>2, <2>3
    <3> DEFINE u == f[i - 1]
               v == g[i - 1]
    <3>2. u \in Nat /\ v \in Nat /\ 2 * u + bx = 2 * v + by
      BY <2>3, <3>1
    <3> HIDE DEF u, v
    <3>3. u = v /\ bx = by
      BY ONLY <3>2, <2>4
    <3> QED BY <3>3 DEF u, v
  <2>6. x \div Plc!pow2[i - 1] = y \div Plc!pow2[i - 1]
    BY ONLY <2>2, <2>4, <2>5, Zenon
  <2> QED BY <2>1, <2>5, <2>6
<1> HIDE DEF T
<1>6. \A k \in Nat : k \in T
  BY <1>4, <1>5, SetInduction
<1>7. x \div Plc!pow2[0] = y \div Plc!pow2[0]
  <2>1. n \in Nat /\ n \in 0 .. n /\ n - n = 0
    BY <1>3
  <2>2. n \in T
    BY <1>6, <2>1
  <2> QED BY <2>1, <2>2 DEF T
<1>8. Plc!pow2[0] = 1
  BY Powers
<1> QED BY <1>7, <1>8

-----------------------------------------------------------------------------
(* sched_pin().                                                            *)

\* How many of the CPUs of mask are before c.
RankIn(mask, c) == Cardinality({d \in mask : d < c})

\* Every number below their count is the rank of one of the CPUs.
LEMMA RanksReached ==
  ASSUME NEW n \in Nat, NEW mask \in SUBSET (0 .. n - 1), mask # {}
  PROVE  /\ IsFiniteSet(mask) /\ Cardinality(mask) \in 1 .. n
         /\ \A r \in 0 .. Cardinality(mask) - 1 : \E c \in mask : RankIn(mask, c) = r
<1> DEFINE before(c) == {d \in mask : d < c}
           k == Cardinality(mask)
           f == [c \in mask |-> RankIn(mask, c)]
<1>1. IsFiniteSet(0 .. n - 1) /\ Cardinality(0 .. n - 1) = n
  <2>1. 0 \in Int /\ n - 1 \in Int
    OBVIOUS
  <2>2. /\ IsFiniteSet(0 .. n - 1)
        /\ Cardinality(0 .. n - 1) = IF 0 > n - 1 THEN 0 ELSE (n - 1) - 0 + 1
    BY ONLY <2>1, FS_Interval
  <2> QED BY <2>2
<1>2. IsFiniteSet(mask) /\ k \in Nat /\ k <= n
  <2>1. IsFiniteSet(mask) /\ k <= Cardinality(0 .. n - 1)
    BY ONLY <1>1, mask \in SUBSET (0 .. n - 1), FS_Subset
  <2>2. k \in Nat
    BY ONLY <2>1, FS_CardinalityType
  <2> QED BY ONLY <1>1, <2>1, <2>2, Zenon
<1>3. k # 0
  BY <1>2, FS_EmptySet
<1>4. \A c \in mask : c \in Int
  OBVIOUS
<1> HIDE DEF k
<1>5. ASSUME NEW c \in mask
      PROVE  before(c) \in SUBSET mask /\ IsFiniteSet(before(c)) /\ RankIn(mask, c) \in 0 .. k - 1
  <2>1. before(c) \in SUBSET mask /\ c \notin before(c)
    BY <1>4
  <2> HIDE DEF before
  <2>2. IsFiniteSet(before(c)) /\ Cardinality(before(c)) <= k /\ Cardinality(before(c)) # k
    BY <1>2, <2>1, FS_Subset DEF k
  <2>3. Cardinality(before(c)) \in Nat
    BY <2>2, FS_CardinalityType
  <2>4. RankIn(mask, c) = Cardinality(before(c))
    BY DEF RankIn, before
  <2> QED BY <1>2, <2>1, <2>2, <2>3, <2>4
<1>6. ASSUME NEW c \in mask, NEW e \in mask, c < e PROVE RankIn(mask, c) # RankIn(mask, e)
  <2>0. c \in Int /\ e \in Int /\ \A d \in mask : d < c => d < e
    BY <1>6, <1>4
  <2>1. before(c) \in SUBSET before(e) /\ c \in before(e) /\ c \notin before(c)
    <3>1. ~ (c < c)
      BY <2>0
    <3> QED BY <1>6, <2>0, <3>1
  <2>2. IsFiniteSet(before(e))
    BY <1>5
  <2> HIDE DEF before
  <2>3. Cardinality(before(e)) # Cardinality(before(c))
    BY <2>1, <2>2, FS_Subset
  <2> QED BY <2>3 DEF RankIn, before
<1>7. f \in Injection(mask, 0 .. k - 1)
  <2>1. f \in [mask -> 0 .. k - 1]
    BY <1>5
  <2>2. ASSUME NEW c \in mask, NEW e \in mask, f[c] = f[e] PROVE c = e
    <3>1. f[c] = RankIn(mask, c) /\ f[e] = RankIn(mask, e)
      OBVIOUS
    <3>2. c < e \/ e < c \/ c = e
      BY <1>4
    <3> QED BY <1>6, <2>2, <3>1, <3>2
  <2> QED BY <2>1, <2>2 DEF Injection, IsInjective
<1>8. IsFiniteSet(0 .. k - 1) /\ Cardinality(0 .. k - 1) = k
  <2>1. 0 \in Int /\ k - 1 \in Int
    BY <1>2
  <2>2. /\ IsFiniteSet(0 .. k - 1)
        /\ Cardinality(0 .. k - 1) = IF 0 > k - 1 THEN 0 ELSE (k - 1) - 0 + 1
    BY ONLY <2>1, FS_Interval
  <2> QED BY <1>2, <1>3, <2>2
<1> HIDE DEF f
<1>9. f \in Surjection(mask, 0 .. k - 1)
  BY <1>7, <1>8, FS_Injection DEF k
<1>10. ASSUME NEW r \in 0 .. k - 1 PROVE \E c \in mask : RankIn(mask, c) = r
  BY <1>9 DEF Surjection, f
<1> QED BY <1>2, <1>3, <1>10 DEF k

\* Placement counts as FiniteSets does.
LEMMA SameCardinality == ASSUME NEW S PROVE Plc!Cardinality(S) = Cardinality(S)
BY DEF Plc!Cardinality, Cardinality

CpuRank(mask, c) == Plc!Cardinality({d \in mask : d < c})

\* The same with the Cardinality that Placement sees.
LEMMA Ranks ==
  ASSUME NEW n \in Nat, NEW mask \in SUBSET (0 .. n - 1), mask # {}
  PROVE  /\ Plc!Cardinality(mask) \in 1 .. n
         /\ \A r \in 0 .. Plc!Cardinality(mask) - 1 : \E c \in mask : CpuRank(mask, c) = r
<1>1. Plc!Cardinality(mask) = Cardinality(mask)
  BY SameCardinality
<1>2. ASSUME NEW c PROVE CpuRank(mask, c) = RankIn(mask, c)
  BY SameCardinality DEF CpuRank, RankIn
<1>3. /\ Cardinality(mask) \in 1 .. n
      /\ \A r \in 0 .. Cardinality(mask) - 1 : \E c \in mask : RankIn(mask, c) = r
  BY RanksReached
<1> QED BY ONLY <1>1, <1>2, <1>3, Zenon

\* sched_pin() chooses one of the CPUs, and the number decides which.
LEMMA PinOne ==
  ASSUME NEW n \in Nat, NEW mask \in SUBSET (0 .. n - 1), mask # {}, NEW cpu \in Nat
  PROVE  \E c \in mask : Plc!OneOf(cpu, mask) = {c} /\ CpuRank(mask, c) = cpu % Plc!Cardinality(mask)
<1>1. Plc!Cardinality(mask) \in Nat \ {0}
  BY Ranks
<1>2. cpu % Plc!Cardinality(mask) \in 0 .. Plc!Cardinality(mask) - 1
  BY <1>1, DivMod
<1>3. \E c \in mask : CpuRank(mask, c) = cpu % Plc!Cardinality(mask)
  BY <1>2, Ranks
<1> DEFINE e == CHOOSE c \in mask : CpuRank(mask, c) = cpu % Plc!Cardinality(mask)
<1>4. e \in mask /\ CpuRank(mask, e) = cpu % Plc!Cardinality(mask)
  BY <1>3, Zenon
<1>5. Plc!OneOf(cpu, mask) = {e}
  BY Zenon DEF Plc!OneOf, CpuRank
<1> HIDE DEF e
<1> QED BY <1>4, <1>5

\* Numbers below the count of CPUs are pinned apart.
LEMMA PinApart ==
  ASSUME NEW n \in Nat, NEW mask \in SUBSET (0 .. n - 1), mask # {},
         NEW a \in Nat, NEW b \in Nat, a < Plc!Cardinality(mask), b < Plc!Cardinality(mask),
         Plc!OneOf(a, mask) = Plc!OneOf(b, mask)
  PROVE  a = b
<1> DEFINE k == Plc!Cardinality(mask)
<1>1. k \in Nat \ {0}
  BY Ranks
<1>2. PICK c \in mask : Plc!OneOf(a, mask) = {c} /\ CpuRank(mask, c) = a % k
  BY ONLY n \in Nat, mask \in SUBSET (0 .. n - 1), mask # {}, a \in Nat, PinOne, Zenon
<1>3. PICK e \in mask : Plc!OneOf(b, mask) = {e} /\ CpuRank(mask, e) = b % k
  BY ONLY n \in Nat, mask \in SUBSET (0 .. n - 1), mask # {}, b \in Nat, PinOne, Zenon
<1>4. c = e
  BY ONLY <1>2, <1>3, Plc!OneOf(a, mask) = Plc!OneOf(b, mask)
<1>5. a % k = b % k
  BY ONLY <1>2, <1>3, <1>4, Zenon
<1> HIDE DEF k
<1>6. a < k /\ b < k
  BY DEF k
<1>7. a % k = a /\ b % k = b
  BY ONLY <1>1, <1>6, a \in Nat, b \in Nat
<1> QED BY <1>5, <1>7

-----------------------------------------------------------------------------
(* The invariant.                                                          *)

\* What is drawn once.
PlcGiven ==
    /\ p_sched \in Plc!Modes /\ p_ncpus \in 1 .. PlcCpus
    /\ p_allowed \in (SUBSET (0 .. p_ncpus - 1)) \ {{}}
    /\ p_values \in Seq(Nat) /\ p_parallel \in 1 .. PlcPar

\* Where the benchmark process or its child is once it has placed itself.
PinnedTo(i, benchproc) == Plc!OneOf(Plc!Cpu(i, benchproc, Plc!NBenchProcs) % p_ncpus, p_allowed)

\* Nobody but the processes that run has moved; the mask a child inherits is
\* the one its parent began with; who could not read it does not measure.
PlcPins(i) ==
    /\ p_pc[i] # "dead" \/ p_kid[i] # "none" => i < p_parallel
    /\ p_pc[i] \in {"new", "start"} => p_kid[i] = "none"
    /\ p_pc[i] = "new" => p_cpus[i] = p_allowed /\ ~ p_known[i]
    /\ p_sched = "DEFAULT" => p_cpus[i] = p_allowed /\ p_cpumask[i] = {} /\ ~ p_known[i]
    /\ p_sched # "DEFAULT" /\ p_pc[i] = "start" => p_known[i]
    /\ p_sched # "DEFAULT" /\ Plc!Measures(i) =>
           /\ p_known[i] /\ p_cpumask[i] = p_allowed
           /\ <<i, 0>> \in p_pinned => p_cpus[i] = PinnedTo(i, 0)
    /\ p_sched # "DEFAULT" /\ p_kid[i] # "none" => p_known[i] /\ p_cpumask[i] = p_allowed
    /\ p_sched # "DEFAULT" /\ p_kid[i] = "placed" /\ <<i, 1>> \in p_pinned =>
           p_kidcpus[i] = PinnedTo(i, 1)

PlcInv ==
    /\ PlcGiven /\ Plc!TypeOK
    /\ p_pinned \subseteq Plc!Children \X (0 .. 1)
    /\ p_kidcpus \in [Plc!Children -> SUBSET (0 .. p_ncpus - 1)]
    /\ \A i \in Plc!Children : PlcPins(i)

\* The CPU asked for is a number.
LEMMA CpuType ==
  ASSUME PlcSizes, PlcGiven, p_sched # "DEFAULT", NEW i \in Plc!Children, NEW b \in 0 .. 1,
         NEW k \in Nat
  PROVE  Plc!Cpu(i, b, k) \in Nat /\ Plc!Cpu(i, b, k) % p_ncpus \in Nat
<1>1. i \in Nat /\ PlcCpus \in Nat /\ p_ncpus \in 1 .. PlcCpus
  BY DEF Plc!Children, PlcSizes, PlcGiven
<1>2. i * (k + 1) + b \in Nat
  BY <1>1
<1> DEFINE unique == i * (k + 1) + b
<1>3. Plc!reverse_bits(i) \in Nat /\ Plc!reverse_bits(unique) \in Nat
  BY ONLY <1>1, <1>2, ReverseFits, Zenon
<1>4. ASSUME NEW x \in Nat PROVE Plc!custom(x) \in Nat
  <2>1. CASE p_values = <<>>
    BY <2>1 DEF Plc!custom
  <2>2. CASE p_values # <<>>
    <3>1. p_values \in Seq(Nat) /\ Len(p_values) \in Nat \ {0}
      BY <2>2 DEF PlcGiven
    <3>2. x % Len(p_values) \in Nat /\ x % Len(p_values) < Len(p_values)
      BY ONLY <3>1, x \in Nat, DivMod
    <3>3. (x % Len(p_values)) + 1 \in 1 .. Len(p_values)
      BY ONLY <3>1, <3>2
    <3>4. p_values[(x % Len(p_values)) + 1] \in Nat
      BY ONLY <3>1, <3>3
    <3> QED BY <2>2, <3>4 DEF Plc!custom
  <2> QED BY <2>1, <2>2
<1>5. Plc!custom(i) \in Nat /\ Plc!custom(unique) \in Nat
  BY ONLY <1>1, <1>2, <1>4, Zenon
<1>6. Plc!Cpu(i, b, k) \in Nat
  <2>1. /\ p_sched = "SINGLE" \/ p_sched = "BALANCED" \/ p_sched = "BALANCED_SPREAD" \/ p_sched = "UNIQUE"
           \/ p_sched = "UNIQUE_SPREAD" \/ p_sched = "CUSTOM" \/ p_sched = "CUSTOM_SPREAD"
    BY DEF PlcGiven, Plc!Modes
  <2> HIDE DEF unique
  <2>2. Plc!Cpu(i, b, k) = CASE p_sched = "SINGLE" -> 0
              [] p_sched = "BALANCED"        -> i
              [] p_sched = "BALANCED_SPREAD" -> Plc!reverse_bits(i)
              [] p_sched = "UNIQUE"          -> unique
              [] p_sched = "UNIQUE_SPREAD"   -> Plc!reverse_bits(unique)
              [] p_sched = "CUSTOM"          -> Plc!custom(i)
              [] p_sched = "CUSTOM_SPREAD"   -> Plc!custom(unique)
    BY DEF Plc!Cpu, unique
  <2> QED BY <1>1, <1>2, <1>3, <1>5, <2>1, <2>2 DEF unique
<1>7. p_ncpus \in Nat \ {0}
  BY <1>1
<1> QED BY ONLY <1>6, <1>7, DivMod

\* A process is pinned to one of the CPUs it may use.
LEMMA PinnedFits ==
  ASSUME PlcSizes, PlcGiven, p_sched # "DEFAULT", NEW i \in Plc!Children, NEW b \in 0 .. 1,
         NEW k \in Nat
  PROVE  Plc!OneOf(Plc!Cpu(i, b, k) % p_ncpus, p_allowed) \in (SUBSET p_allowed) \ {{}}
<1>1. Plc!Cpu(i, b, k) % p_ncpus \in Nat
  BY CpuType
<1>2. p_allowed \in SUBSET (0 .. p_ncpus - 1) /\ p_allowed # {} /\ p_ncpus \in Nat
  BY DEF PlcGiven, PlcSizes
<1>3. \E c \in p_allowed : Plc!OneOf(Plc!Cpu(i, b, k) % p_ncpus, p_allowed) = {c}
  BY ONLY <1>1, <1>2, PinOne, Zenon
<1> QED BY <1>3

\* Before anybody is placed.
LEMMA PlcBegins == ASSUME PlcSizes, Plc!Init PROVE PlcInv
<1>1. PlcGiven
  <2>1. PlcCustom \in Seq(Nat) /\ Append(PlcCustom, PlcBehind) \in Seq(Nat)
    BY DEF PlcSizes
  <2>2. p_values \in Seq(Nat)
    BY <2>1 DEF Plc!Init, Plc!Parsed
  <2> QED BY <2>2 DEF Plc!Init, PlcGiven
<1>2. p_allowed \in SUBSET (0 .. p_ncpus - 1) /\ p_allowed # {}
  BY DEF Plc!Init
<1>3. Plc!TypeOK
  <2>1. /\ p_pc \in [Plc!Children -> {"new", "start", "loop", "fork", "wait", "reaped", "dead"}]
        /\ p_kid \in [Plc!Children -> {"none", "new", "placed", "zombie"}]
        /\ p_known \in [Plc!Children -> BOOLEAN]
    BY DEF Plc!Init
  <2>2. p_cpus \in [Plc!Children -> (SUBSET p_allowed) \ {{}}] /\ p_cpumask \in [Plc!Children -> {{}, p_allowed}]
    BY <1>2 DEF Plc!Init
  <2> QED BY <2>1, <2>2 DEF Plc!TypeOK
<1>4. p_kidcpus \in [Plc!Children -> SUBSET (0 .. p_ncpus - 1)] /\ p_pinned = {}
  BY <1>2 DEF Plc!Init
<1>5. ASSUME NEW i \in Plc!Children PROVE PlcPins(i)
  <2>1. /\ p_pc[i] = IF i < p_parallel THEN "new" ELSE "dead"
        /\ p_cpus[i] = p_allowed /\ p_cpumask[i] = {} /\ p_kid[i] = "none" /\ p_known[i] = FALSE
    BY DEF Plc!Init
  <2> QED BY <2>1 DEF PlcPins, Plc!Measures
<1> QED BY <1>1, <1>3, <1>4, <1>5 DEF PlcInv

\* What a call of handle_scheduler() leaves: the CPUs the process had or, if it
\* succeeds, one of the CPUs it may use; and no CPUs counted if the first call
\* cannot read them.
PlacedFine(i, b, k, is, mask, own, o) ==
  /\ p_sched = "DEFAULT" => o.cpus = own /\ o.mask = {} /\ o.how = "placed"
  /\ o.mask \in {{}, p_allowed}
  /\ o.cpus = own \/ o.cpus \in (SUBSET p_allowed) \ {{}}
  /\ p_sched # "DEFAULT" /\ o.how = "placed" =>
         /\ o.mask = p_allowed
         /\ o.cpus = Plc!OneOf(Plc!Cpu(i, b, k) % p_ncpus, p_allowed)
  /\ p_sched # "DEFAULT" /\ is => o.mask = mask
  /\ p_sched # "DEFAULT" /\ is /\ mask = {} => o.how = "killed"
  /\ p_sched # "DEFAULT" /\ is /\ mask # {} => o.how # "killed"

LEMMA PlacedWhere ==
  ASSUME PlcSizes, PlcGiven, NEW i \in Plc!Children, NEW b \in 0 .. 1, NEW k \in Nat,
         NEW is \in BOOLEAN, NEW mask \in {{}, p_allowed}, NEW own,
         is \/ own = p_allowed, p_sched = "DEFAULT" => mask = {},
         NEW o \in Plc!handle_scheduler(i, b, k, is, mask, own)
  PROVE  PlacedFine(i, b, k, is, mask, own, o)
<1>1. CASE p_sched = "DEFAULT"
  BY <1>1 DEF Plc!handle_scheduler, PlacedFine
<1>2. CASE p_sched # "DEFAULT"
  <2> DEFINE m == Plc!Usable(is, mask, own)
             c == Plc!OneOf(Plc!Cpu(i, b, k) % p_ncpus, p_allowed)
  <2>1. c \in (SUBSET p_allowed) \ {{}} /\ p_allowed # {}
    BY <1>2, PinnedFits DEF PlcGiven
  <2>2. m = IF is THEN mask ELSE p_allowed
    BY DEF Plc!Usable
  <2>3. \/ ~ is /\ o = [mask |-> {}, cpus |-> own, how |-> "error"]
        \/ m = {} /\ o = [mask |-> m, cpus |-> own, how |-> "killed"]
        \/ m # {} /\ o = [mask |-> m, cpus |-> Plc!OneOf(Plc!Cpu(i, b, k) % p_ncpus, m), how |-> "placed"]
        \/ m # {} /\ o = [mask |-> m, cpus |-> own, how |-> "error"]
    BY <1>2 DEF Plc!handle_scheduler, Plc!sched_pin
  <2>4. m # {} => m = p_allowed
    BY <2>1, <2>2
  <2> HIDE DEF m, c
  <2>5. \/ ~ is /\ o = [mask |-> {}, cpus |-> own, how |-> "error"]
        \/ m = {} /\ o = [mask |-> m, cpus |-> own, how |-> "killed"]
        \/ m = p_allowed /\ o = [mask |-> m, cpus |-> c, how |-> "placed"]
        \/ m = p_allowed /\ o = [mask |-> m, cpus |-> own, how |-> "error"]
    BY <2>3, <2>4 DEF c
  <2> QED BY <1>2, <2>1, <2>2, <2>5 DEF c, PlacedFine
<1> QED BY <1>1, <1>2

\* Every step, and what it does to the CPUs of one process or its child.
LEMMA PlcKeeps == ASSUME PlcSizes, PlcInv, [Plc!Next]_(Plc!vars) PROVE PlcInv'
<1>a. PlcGiven /\ Plc!TypeOK /\ p_pinned \subseteq Plc!Children \X (0 .. 1)
      /\ p_kidcpus \in [Plc!Children -> SUBSET (0 .. p_ncpus - 1)]
      /\ \A j \in Plc!Children : PlcPins(j)
  BY DEF PlcInv
<1>c. /\ p_pc \in [Plc!Children -> {"new", "start", "loop", "fork", "wait", "reaped", "dead"}]
      /\ p_kid \in [Plc!Children -> {"none", "new", "placed", "zombie"}]
      /\ p_cpus \in [Plc!Children -> (SUBSET p_allowed) \ {{}}]
      /\ p_cpumask \in [Plc!Children -> {{}, p_allowed}] /\ p_known \in [Plc!Children -> BOOLEAN]
      /\ p_allowed \in SUBSET (0 .. p_ncpus - 1) /\ p_allowed # {}
  BY <1>a DEF Plc!TypeOK, PlcGiven
<1>g. ASSUME UNCHANGED Plc!placing
      PROVE  PlcGiven' /\ \A j \in Plc!Children, b \in 0 .. 1 : PinnedTo(j, b)' = PinnedTo(j, b)
  <2>1. PlcGiven'
    BY <1>g, <1>a DEF Plc!placing, PlcGiven
  <2>2. p_sched' = p_sched /\ p_ncpus' = p_ncpus /\ p_allowed' = p_allowed /\ p_values' = p_values
    BY <1>g DEF Plc!placing
  <2>3. ASSUME NEW j \in Plc!Children, NEW b \in 0 .. 1 PROVE PinnedTo(j, b)' = PinnedTo(j, b)
    BY <2>2 DEF PinnedTo, Plc!OneOf, Plc!Cpu, Plc!NBenchProcs, Plc!reverse_bits, Plc!nbits, Plc!custom
  <2> QED BY <2>1, <2>3
<1>u. CASE UNCHANGED Plc!vars
  <2>1. /\ PlcGiven' /\ Plc!TypeOK' /\ p_kidcpus' \in [Plc!Children -> SUBSET (0 .. p_ncpus' - 1)]
        /\ p_pinned' \subseteq Plc!Children \X (0 .. 1)
    BY <1>u, <1>a DEF Plc!vars, Plc!masks, Plc!placing, PlcGiven, Plc!TypeOK
  <2>2. ASSUME NEW j \in Plc!Children PROVE PlcPins(j)'
    <3>1. UNCHANGED Plc!placing
      BY <1>u DEF Plc!vars
    <3>2. PinnedTo(j, 0)' = PinnedTo(j, 0) /\ PinnedTo(j, 1)' = PinnedTo(j, 1)
      BY <1>g, <3>1
    <3>3. PlcPins(j)
      BY <1>a
    <3> QED BY ONLY <1>u, <3>2, <3>3 DEF Plc!vars, Plc!masks, Plc!placing, PlcPins, Plc!Measures
  <2> QED BY <2>1, <2>2 DEF PlcInv
<1>n. SUFFICES ASSUME NEW i \in Plc!Children,
                      Plc!Start(i) \/ Plc!Batch(i) \/ Plc!Fork(i) \/ Plc!ForkFails(i) \/ Plc!Forked(i) \/ Plc!KidPlaced(i) \/ Plc!KidExits(i)
                      \/ Plc!Reap(i) \/ Plc!Reaped(i) \/ Plc!cleanup(i)
               PROVE  PlcInv'
  BY <1>u DEF Plc!Next
<1>p. UNCHANGED Plc!placing
  BY <1>n DEF Plc!Start, Plc!Batch, Plc!Place, Plc!Fork, Plc!ForkFails, Plc!Forked, Plc!KidPlaced, Plc!KidExits, Plc!Reap, Plc!Reaped, Plc!cleanup
<1>q. /\ p_sched' = p_sched /\ p_ncpus' = p_ncpus /\ p_allowed' = p_allowed /\ p_values' = p_values
      /\ p_parallel' = p_parallel
  BY <1>p DEF Plc!placing
<1>r. PlcGiven' /\ PinnedTo(i, 0)' = PinnedTo(i, 0) /\ PinnedTo(i, 1)' = PinnedTo(i, 1)
      /\ \A j \in Plc!Children : PinnedTo(j, 0)' = PinnedTo(j, 0) /\ PinnedTo(j, 1)' = PinnedTo(j, 1)
  BY <1>p, <1>g
<1>s. SUFFICES /\ Plc!TypeOK' /\ p_kidcpus' \in [Plc!Children -> SUBSET (0 .. p_ncpus - 1)]
               /\ p_pinned' \subseteq Plc!Children \X (0 .. 1)
               /\ \A j \in Plc!Children : PlcPins(j)'
  BY <1>r, <1>q DEF PlcInv
<1>o. ASSUME NEW j \in Plc!Children,
             /\ p_pc'[j] = p_pc[j] /\ p_cpus'[j] = p_cpus[j] /\ p_cpumask'[j] = p_cpumask[j]
             /\ p_kid'[j] = p_kid[j] /\ p_kidcpus'[j] = p_kidcpus[j] /\ p_known'[j] = p_known[j]
             /\ \A e \in {0, 1} : <<j, e>> \in p_pinned' => <<j, e>> \in p_pinned
      PROVE  PlcPins(j)'
  <2>1. PlcPins(j) /\ PinnedTo(j, 0)' = PinnedTo(j, 0) /\ PinnedTo(j, 1)' = PinnedTo(j, 1)
    BY <1>a, <1>r
  <2> QED BY <1>o, <1>q, <2>1 DEF PlcPins, Plc!Measures
<1>i. PlcPins(i)
  BY <1>a
<1>1. CASE Plc!Start(i) \/ Plc!Batch(i)
  <2>0. PICK k \in Nat, next \in {"start", "loop"} :
          /\ p_pc[i] \in {"new", "start", "loop"} /\ Plc!Place(i, k, next)
          /\ next = "loop" => k = Plc!NBenchProcs
          /\ next = "start" <=> p_pc[i] = "new"
    <3>1. 0 \in Nat /\ Plc!NBenchProcs \in Nat
      BY DEF Plc!NBenchProcs
    <3>2. CASE Plc!Start(i)
      BY <3>1, <3>2 DEF Plc!Start
    <3>3. CASE Plc!Batch(i)
      BY <3>1, <3>3 DEF Plc!Batch
    <3> QED BY <1>1, <3>2, <3>3
  <2>1. p_pc[i] \in {"new", "start", "loop"} /\ Plc!Place(i, k, next)
    BY <2>0
  <2>2. k \in Nat /\ next \in {"start", "loop"} /\ (next = "loop" => k = Plc!NBenchProcs)
        /\ (next = "start" <=> p_pc[i] = "new")
    BY <2>0
  <2>3. PICK o \in Plc!handle_scheduler(i, 0, k, p_known[i], p_cpumask[i], p_cpus[i]) :
          /\ p_cpus' = [p_cpus EXCEPT ![i] = o.cpus]
          /\ p_cpumask' = [p_cpumask EXCEPT ![i] = o.mask]
          /\ p_pinned' = Plc!Pinned(<<i, 0>>, o.how)
          /\ p_pc' = [p_pc EXCEPT ![i] = IF o.how = "killed" THEN "dead" ELSE next]
    BY <2>1 DEF Plc!Place
  <2>4. /\ p_known' = [p_known EXCEPT ![i] = p_sched # "DEFAULT"]
        /\ p_kid' = p_kid /\ p_kidcpus' = p_kidcpus
    BY <2>1 DEF Plc!Place
  <2>5. /\ p_known[i] \in BOOLEAN /\ p_cpumask[i] \in {{}, p_allowed}
        /\ p_known[i] \/ p_cpus[i] = p_allowed
        /\ p_sched = "DEFAULT" => p_cpumask[i] = {}
    BY <1>c, <1>i, <2>1 DEF PlcPins, Plc!Measures
  <2>6. /\ p_sched = "DEFAULT" => o.cpus = p_cpus[i] /\ o.mask = {} /\ o.how = "placed"
        /\ o.mask \in {{}, p_allowed}
        /\ o.cpus = p_cpus[i] \/ o.cpus \in (SUBSET p_allowed) \ {{}}
        /\ p_sched # "DEFAULT" /\ o.how = "placed" =>
                /\ o.mask = p_allowed
                /\ o.cpus = Plc!OneOf(Plc!Cpu(i, 0, k) % p_ncpus, p_allowed)
        /\ p_sched # "DEFAULT" /\ p_known[i] => o.mask = p_cpumask[i]
        /\ p_sched # "DEFAULT" /\ p_known[i] /\ p_cpumask[i] = {} => o.how = "killed"
    <3>1. 0 \in 0 .. 1
      OBVIOUS
    <3>4. PlcGiven /\ k \in Nat
      BY <1>a, <2>2
    <3>5. /\ p_known[i] \in BOOLEAN /\ p_cpumask[i] \in {{}, p_allowed}
          /\ p_known[i] \/ p_cpus[i] = p_allowed
          /\ p_sched = "DEFAULT" => p_cpumask[i] = {}
      BY <2>5
    <3>2. o \in Plc!handle_scheduler(i, 0, k, p_known[i], p_cpumask[i], p_cpus[i])
      BY <2>3
    <3>3. PlacedFine(i, 0, k, p_known[i], p_cpumask[i], p_cpus[i], o)
      <4> DEFINE H(is, mask, own) == Plc!handle_scheduler(i, 0, k, is, mask, own)
      <4>1. \A own : \A is \in BOOLEAN, mask \in {{}, p_allowed} : \A x \in H(is, mask, own) :
               (is \/ own = p_allowed) /\ (p_sched = "DEFAULT" => mask = {})
                  => PlacedFine(i, 0, k, is, mask, own, x)
        BY <3>1, <3>4, PlacedWhere, Zenon
      <4> HIDE DEF H
      <4>2. o \in H(p_known[i], p_cpumask[i], p_cpus[i])
        BY <3>2 DEF H
      <4>3. \A is \in BOOLEAN, mask \in {{}, p_allowed} : \A x \in H(is, mask, p_cpus[i]) :
               (is \/ p_cpus[i] = p_allowed) /\ (p_sched = "DEFAULT" => mask = {})
                  => PlacedFine(i, 0, k, is, mask, p_cpus[i], x)
        BY ONLY <4>1, Zenon
      <4> QED BY ONLY <4>2, <4>3, <3>5, Zenon
    <3> QED BY ONLY <2>5, <3>3 DEF PlacedFine
  <2>7. o.cpus \in (SUBSET p_allowed) \ {{}}
    BY <1>c, <2>6
  <2>8. /\ p_pc'[i] = IF o.how = "killed" THEN "dead" ELSE next
        /\ p_cpus'[i] = o.cpus /\ p_cpumask'[i] = o.mask
        /\ p_known'[i] = (p_sched # "DEFAULT") /\ p_kid'[i] = p_kid[i]
    BY <1>c, <2>3, <2>4
  <2>9. /\ p_pinned' \subseteq Plc!Children \X (0 .. 1)
        /\ <<i, 0>> \in p_pinned' <=> o.how = "placed"
        /\ \A j, e : <<j, e>> # <<i, 0>> => (<<j, e>> \in p_pinned' <=> <<j, e>> \in p_pinned)
    BY <1>a, <2>3 DEF Plc!Pinned
  <2>10. Plc!TypeOK'
    <3>1. p_pc' \in [Plc!Children -> {"new", "start", "loop", "fork", "wait", "reaped", "dead"}]
      BY ONLY <1>c, <2>2, <2>3
    <3>2. p_cpus' \in [Plc!Children -> (SUBSET p_allowed) \ {{}}]
      BY ONLY <1>c, <2>7, <2>3
    <3>3. p_cpumask' \in [Plc!Children -> {{}, p_allowed}]
      BY ONLY <1>c, <2>6, <2>3
    <3>4. p_known' \in [Plc!Children -> BOOLEAN]
      BY ONLY <1>c, <2>4
    <3> QED BY ONLY <1>c, <1>q, <2>4, <3>1, <3>2, <3>3, <3>4, Zenon DEF Plc!TypeOK
  <2>11. PlcPins(i)'
    <3>1. /\ p_pc'[i] # "dead" \/ p_kid'[i] # "none" => i < p_parallel
          /\ p_kid[i] = "none" \/ p_pc[i] = "loop"
      BY <1>c, <1>i, <2>1, <2>8 DEF PlcPins
    <3>2. p_pc'[i] # "new" /\ (p_pc'[i] = "start" => p_pc[i] = "new")
      BY <2>2, <2>8
    <3>3. p_sched = "DEFAULT" => p_cpus'[i] = p_allowed /\ p_cpumask'[i] = {} /\ ~ p_known'[i]
      BY <1>i, <2>6, <2>8 DEF PlcPins
    <3>4. ASSUME p_sched # "DEFAULT", p_pc'[i] \notin {"new", "start", "dead"}
          PROVE  /\ p_known'[i] /\ p_cpumask'[i] = p_allowed
                 /\ <<i, 0>> \in p_pinned' => p_cpus'[i] = PinnedTo(i, 0)
      <4>1. o.how # "killed" /\ p_pc[i] \in {"start", "loop"} /\ k = Plc!NBenchProcs
        BY <2>1, <2>2, <2>8, <3>4
      <4>2. p_known[i] /\ o.mask = p_cpumask[i] /\ p_cpumask[i] # {}
        BY <1>i, <2>6, <3>4, <4>1 DEF PlcPins, Plc!Measures
      <4>3. o.how = "placed" => o.cpus = PinnedTo(i, 0)
        BY ONLY <2>6, <3>4, <4>1 DEF PinnedTo
      <4> QED BY <2>5, <2>8, <2>9, <3>4, <4>2, <4>3
    <3>5. p_sched # "DEFAULT" /\ p_kid'[i] # "none" => p_known'[i] /\ p_cpumask'[i] = p_allowed
      BY <1>i, <2>6, <2>8 DEF PlcPins
    <3>6. p_sched # "DEFAULT" /\ p_kid'[i] = "placed" /\ <<i, 1>> \in p_pinned' => p_kidcpus'[i] = PinnedTo(i, 1)
      BY <1>i, <2>4, <2>8, <2>9 DEF PlcPins
    <3> QED BY <1>q, <1>r, <2>8, <3>1, <3>2, <3>3, <3>4, <3>5, <3>6 DEF PlcPins, Plc!Measures
  <2>12. ASSUME NEW j \in Plc!Children, j # i PROVE PlcPins(j)'
    <3>1. /\ p_pc'[j] = p_pc[j] /\ p_cpus'[j] = p_cpus[j] /\ p_cpumask'[j] = p_cpumask[j]
          /\ p_known'[j] = p_known[j]
      BY <1>c, <2>3, <2>4, <2>12
    <3>2. \A e \in {0, 1} : <<j, e>> \in p_pinned' => <<j, e>> \in p_pinned
      BY <2>9, <2>12
    <3> QED BY <1>o, <2>4, <3>1, <3>2
  <2> QED BY <1>a, <2>4, <2>9, <2>10, <2>11, <2>12
<1>2. CASE Plc!Fork(i)
  <2>1. /\ p_pc[i] = "loop" /\ p_pc' = [p_pc EXCEPT ![i] = "fork"] /\ p_cpus' = p_cpus /\ p_cpumask' = p_cpumask /\ p_known' = p_known
        /\ p_kid' = [p_kid EXCEPT ![i] = "new"] /\ p_kidcpus' = [p_kidcpus EXCEPT ![i] = p_cpus[i]]
        /\ p_pinned' = p_pinned
    BY <1>2 DEF Plc!Fork, Plc!masks
  <2>2. Plc!TypeOK' /\ p_kidcpus' \in [Plc!Children -> SUBSET (0 .. p_ncpus - 1)]
    <3>1. p_cpus[i] \in SUBSET (0 .. p_ncpus - 1)
      BY <1>c
    <3> QED BY <1>a, <1>c, <1>q, <2>1, <3>1 DEF Plc!TypeOK
  <2>3. PlcPins(i)'
    <3>1. p_pc'[i] = "fork" /\ p_kid'[i] = "new" /\ p_cpus'[i] = p_cpus[i] /\ p_cpumask'[i] = p_cpumask[i]
      BY <1>c, <2>1
    <3> QED BY <1>i, <1>q, <1>r, <2>1, <3>1 DEF PlcPins, Plc!Measures
  <2>4. ASSUME NEW j \in Plc!Children, j # i PROVE PlcPins(j)'
    BY <1>o, <1>a, <1>c, <2>1, <2>4
  <2> QED BY <1>a, <2>1, <2>2, <2>3, <2>4
<1>k. ASSUME NEW left, NEW how, p_kid[i] = "new",
             p_pc' = p_pc, p_cpus' = p_cpus, p_cpumask' = p_cpumask, p_known' = p_known,
             p_kidcpus' = [p_kidcpus EXCEPT ![i] = left],
             p_pinned' = Plc!Pinned(<<i, 1>>, how), how # "killed",
             p_kid' = [p_kid EXCEPT ![i] = IF how = "killed" THEN Plc!Ended(i) ELSE "placed"],
             left = p_kidcpus[i] \/ left \in (SUBSET p_allowed) \ {{}},
             p_sched # "DEFAULT" /\ how = "placed" => left = PinnedTo(i, 1)
      PROVE  /\ Plc!TypeOK' /\ p_kidcpus' \in [Plc!Children -> SUBSET (0 .. p_ncpus - 1)]
             /\ p_pinned' \subseteq Plc!Children \X (0 .. 1)
             /\ \A j \in Plc!Children : PlcPins(j)'
  <2>1. p_kid' = [p_kid EXCEPT ![i] = "placed"] /\ left \in SUBSET (0 .. p_ncpus - 1)
    BY <1>a, <1>c, <1>k
  <2>2. Plc!TypeOK' /\ p_kidcpus' \in [Plc!Children -> SUBSET (0 .. p_ncpus - 1)]
    BY <1>a, <1>c, <1>q, <1>k, <2>1 DEF Plc!TypeOK
  <2>3. /\ p_pinned' \subseteq Plc!Children \X (0 .. 1)
        /\ <<i, 1>> \in p_pinned' <=> how = "placed"
        /\ \A j, e : <<j, e>> # <<i, 1>> => (<<j, e>> \in p_pinned' <=> <<j, e>> \in p_pinned)
    BY <1>a, <1>k DEF Plc!Pinned
  <2>4. PlcPins(i)'
    <3>1. p_kid'[i] = "placed" /\ p_kidcpus'[i] = left
      BY <1>a, <1>c, <1>k, <2>1
    <3>2. <<i, 0>> \in p_pinned' <=> <<i, 0>> \in p_pinned
      BY <2>3
    <3> QED BY <1>i, <1>q, <1>r, <1>k, <2>3, <3>1, <3>2 DEF PlcPins, Plc!Measures
  <2>5. ASSUME NEW j \in Plc!Children, j # i PROVE PlcPins(j)'
    <3>1. p_kid'[j] = p_kid[j] /\ p_kidcpus'[j] = p_kidcpus[j]
      BY <1>a, <1>c, <1>k, <2>1, <2>5
    <3>2. \A e \in {0, 1} : <<j, e>> \in p_pinned' => <<j, e>> \in p_pinned
      BY <2>3, <2>5
    <3> QED BY <1>o, <1>k, <3>1, <3>2
  <2> QED BY <2>2, <2>3, <2>4, <2>5
<1>3. CASE Plc!KidPlaced(i)
  <2>1. /\ p_kid[i] = "new" /\ p_pc' = p_pc /\ p_cpus' = p_cpus /\ p_cpumask' = p_cpumask /\ p_known' = p_known
        /\ \E o \in Plc!handle_scheduler(i, 1, Plc!NBenchProcs, p_known[i], p_cpumask[i], p_kidcpus[i]) :
              /\ p_kidcpus' = [p_kidcpus EXCEPT ![i] = o.cpus]
              /\ p_pinned' = Plc!Pinned(<<i, 1>>, o.how)
              /\ p_kid' = [p_kid EXCEPT ![i] = IF o.how = "killed" THEN Plc!Ended(i) ELSE "placed"]
    BY <1>3 DEF Plc!KidPlaced, Plc!masks
  <2>2. PICK o \in Plc!handle_scheduler(i, 1, Plc!NBenchProcs, p_known[i], p_cpumask[i], p_kidcpus[i]) :
              /\ p_kidcpus' = [p_kidcpus EXCEPT ![i] = o.cpus]
              /\ p_pinned' = Plc!Pinned(<<i, 1>>, o.how)
              /\ p_kid' = [p_kid EXCEPT ![i] = IF o.how = "killed" THEN Plc!Ended(i) ELSE "placed"]
    BY <2>1
  <2>3. CASE p_sched = "DEFAULT"
    <3>1. o.cpus = p_kidcpus[i] /\ o.how = "placed"
      BY <2>2, <2>3 DEF Plc!handle_scheduler
    <3> QED BY <1>k, <2>1, <2>2, <2>3, <3>1
  <2>4. CASE p_sched # "DEFAULT"
    <3>1. p_known[i] = TRUE /\ p_cpumask[i] = p_allowed
      BY <1>c, <1>i, <2>1, <2>4 DEF PlcPins
    <3>2. /\ o.cpus = p_kidcpus[i] \/ o.cpus \in (SUBSET p_allowed) \ {{}}
          /\ o.how = "placed" => o.cpus = PinnedTo(i, 1)
          /\ o.how # "killed"
      <4>1. Plc!NBenchProcs \in Nat /\ 1 \in 0 .. 1
        BY DEF Plc!NBenchProcs
      <4>2. /\ p_known[i] \in BOOLEAN /\ p_cpumask[i] \in {{}, p_allowed}
            /\ p_known[i] \/ p_kidcpus[i] = p_allowed
            /\ p_sched = "DEFAULT" => p_cpumask[i] = {}
            /\ PlcGiven /\ p_allowed # {}
        BY ONLY <1>a, <1>c, <2>4, <3>1, i \in Plc!Children
      <4>3. o \in Plc!handle_scheduler(i, 1, Plc!NBenchProcs, p_known[i], p_cpumask[i], p_kidcpus[i])
        BY <2>2
      <4>4. PlacedFine(i, 1, Plc!NBenchProcs, p_known[i], p_cpumask[i], p_kidcpus[i], o)
        BY ONLY <4>1, <4>2, <4>3, PlcSizes, i \in Plc!Children, PlacedWhere, Zenon
      <4> QED BY ONLY <2>4, <3>1, <4>2, <4>4 DEF PlacedFine, PinnedTo
    <3> QED BY <1>k, <2>1, <2>2, <2>4, <3>2
  <2> QED BY <2>3, <2>4
<1> DEFINE Moves(k, p) ==
             /\ k \in {"none", "zombie", p_kid[i]} /\ (k = "zombie" => p_kid[i] # "none")
             /\ p \in {"loop", "fork", "wait", "reaped", "dead"}
             /\ p_pc[i] \notin {"new", "start"} /\ (p # "dead" => p_pc[i] # "dead")
             /\ p_kid' = [p_kid EXCEPT ![i] = k] /\ p_pc' = [p_pc EXCEPT ![i] = p]
             /\ p_cpus' = p_cpus /\ p_cpumask' = p_cpumask /\ p_known' = p_known /\ p_pinned' = p_pinned /\ p_kidcpus' = p_kidcpus
<1>4. ASSUME NEW k, NEW p, Moves(k, p)
      PROVE  /\ Plc!TypeOK' /\ p_kidcpus' \in [Plc!Children -> SUBSET (0 .. p_ncpus - 1)]
             /\ p_pinned' \subseteq Plc!Children \X (0 .. 1)
             /\ \A j \in Plc!Children : PlcPins(j)'
  <2>1. p_kid[i] \in {"none", "new", "placed", "zombie"}
    BY <1>c
  <2>2. Plc!TypeOK'
    BY <1>c, <1>q, <1>4, <2>1 DEF Plc!TypeOK
  <2>3. PlcPins(i)'
    <3>1. p_kid'[i] = k /\ p_pc'[i] = p /\ (k = "placed" => p_kid[i] = "placed") /\ (k # "none" => p_kid[i] # "none")
      BY <1>c, <1>4
    <3>2. /\ p_cpus'[i] = p_cpus[i] /\ p_cpumask'[i] = p_cpumask[i] /\ p_kidcpus'[i] = p_kidcpus[i]
      BY <1>4
    <3>3. p_known'[i] = p_known[i] /\ p_pinned' = p_pinned
      BY <1>4
    <3> QED BY ONLY <1>i, <1>q, <1>r, <1>4, <3>1, <3>2, <3>3 DEF PlcPins, Plc!Measures
  <2>4. ASSUME NEW j \in Plc!Children, j # i PROVE PlcPins(j)'
    BY <1>o, <1>c, <1>4, <2>4
  <2> QED BY <1>a, <1>4, <2>2, <2>3, <2>4
<1> HIDE DEF Moves
<1>5. p_kid = [p_kid EXCEPT ![i] = p_kid[i]] /\ p_pc = [p_pc EXCEPT ![i] = p_pc[i]]
  BY <1>c
<1>6. CASE Plc!ForkFails(i)
  <2>1. p_kid' = [p_kid EXCEPT ![i] = p_kid[i]]
    BY <1>5, <1>6 DEF Plc!ForkFails, Plc!masks
  <2>2. /\ p_pc[i] = "loop" /\ p_pc' = [p_pc EXCEPT ![i] = "dead"]
        /\ p_cpus' = p_cpus /\ p_cpumask' = p_cpumask /\ p_known' = p_known /\ p_pinned' = p_pinned /\ p_kidcpus' = p_kidcpus
    BY <1>6 DEF Plc!ForkFails, Plc!masks
  <2>6. Moves(p_kid[i], "dead")
    BY ONLY <2>1, <2>2 DEF Moves
  <2> QED BY <1>4, <2>6
<1>7. CASE Plc!Forked(i)
  <2>1. p_kid' = [p_kid EXCEPT ![i] = p_kid[i]]
    BY <1>5, <1>7 DEF Plc!Forked, Plc!masks
  <2>2. /\ p_pc[i] = "fork" /\ p_pc' = [p_pc EXCEPT ![i] = "wait"]
        /\ p_cpus' = p_cpus /\ p_cpumask' = p_cpumask /\ p_known' = p_known /\ p_pinned' = p_pinned /\ p_kidcpus' = p_kidcpus
    BY <1>7 DEF Plc!Forked, Plc!masks
  <2>6. Moves(p_kid[i], "wait")
    BY ONLY <2>1, <2>2 DEF Moves
  <2> QED BY <1>4, <2>6
<1>8. CASE Plc!KidExits(i)
  <2> DEFINE k == IF p_pc[i] = "dead" THEN "none" ELSE "zombie"
  <2>1. /\ p_kid[i] = "placed" /\ p_kid' = [p_kid EXCEPT ![i] = k]
        /\ p_cpus' = p_cpus /\ p_cpumask' = p_cpumask /\ p_known' = p_known /\ p_pinned' = p_pinned /\ p_kidcpus' = p_kidcpus
    BY <1>8 DEF Plc!KidExits, Plc!Ended, Plc!masks
  <2>2. p_pc' = [p_pc EXCEPT ![i] = p_pc[i]]
    BY <1>5, <1>8 DEF Plc!KidExits, Plc!masks
  <2>3. p_pc[i] \notin {"new", "start"}
    BY <1>i, <2>1 DEF PlcPins
  <2>4. p_pc[i] \in {"loop", "fork", "wait", "reaped", "dead"}
    BY <1>c, <2>3
  <2>5. k \in {"none", "zombie", p_kid[i]}
    OBVIOUS
  <2> HIDE DEF k
  <2>6. Moves(k, p_pc[i])
    BY ONLY <2>1, <2>2, <2>3, <2>4, <2>5 DEF Moves
  <2> QED BY <1>4, <2>6
<1>9. CASE Plc!Reap(i)
  <2>1. /\ p_pc[i] = "wait" /\ p_kid' = [p_kid EXCEPT ![i] = "none"] /\ p_pc' = [p_pc EXCEPT ![i] = "reaped"]
        /\ p_cpus' = p_cpus /\ p_cpumask' = p_cpumask /\ p_known' = p_known /\ p_pinned' = p_pinned /\ p_kidcpus' = p_kidcpus
    BY <1>9 DEF Plc!Reap, Plc!masks
  <2>6. Moves("none", "reaped")
    BY ONLY <2>1 DEF Moves
  <2> QED BY <1>4, <2>6
<1>10. CASE Plc!Reaped(i)
  <2>1. p_kid' = [p_kid EXCEPT ![i] = p_kid[i]]
    BY <1>5, <1>10 DEF Plc!Reaped, Plc!masks
  <2>2. /\ p_pc[i] = "reaped" /\ p_pc' = [p_pc EXCEPT ![i] = "loop"]
        /\ p_cpus' = p_cpus /\ p_cpumask' = p_cpumask /\ p_known' = p_known /\ p_pinned' = p_pinned /\ p_kidcpus' = p_kidcpus
    BY <1>10 DEF Plc!Reaped, Plc!masks
  <2>6. Moves(p_kid[i], "loop")
    BY ONLY <2>1, <2>2 DEF Moves
  <2> QED BY <1>4, <2>6
<1>11. CASE Plc!cleanup(i)
  <2> DEFINE k == IF p_child_pid[i] # 0 \/ p_kid[i] = "zombie" THEN "none" ELSE p_kid[i]
  <2>1. /\ p_pc[i] \in {"loop", "fork", "wait", "reaped"} /\ p_pc' = [p_pc EXCEPT ![i] = "dead"]
        /\ p_kid' = [p_kid EXCEPT ![i] = k]
        /\ p_cpus' = p_cpus /\ p_cpumask' = p_cpumask /\ p_known' = p_known /\ p_pinned' = p_pinned /\ p_kidcpus' = p_kidcpus
    BY <1>11 DEF Plc!cleanup, Plc!masks
  <2>2. k \in {"none", "zombie", p_kid[i]} /\ (k = "zombie" => p_kid[i] # "none")
    OBVIOUS
  <2> HIDE DEF k
  <2>6. Moves(k, "dead")
    BY ONLY <2>1, <2>2 DEF Moves
  <2> QED BY <1>4, <2>6
<1> QED BY <1>n, <1>1, <1>2, <1>3, <1>6, <1>7, <1>8, <1>9, <1>10, <1>11

-----------------------------------------------------------------------------
(* Everybody on its own processor.                                         *)

\* Numbers below the count of the CPUs are asked for one by one and pinned apart.
LEMMA StraightApart ==
  ASSUME PlcSizes, PlcGiven, NEW a \in Nat, NEW b \in Nat,
         a < Plc!Cardinality(p_allowed), b < Plc!Cardinality(p_allowed),
         Plc!OneOf(a % p_ncpus, p_allowed) = Plc!OneOf(b % p_ncpus, p_allowed)
  PROVE  a = b
<1>1. /\ p_allowed \in SUBSET (0 .. p_ncpus - 1) /\ p_allowed # {} /\ p_ncpus \in Nat \ {0}
  BY DEF PlcGiven, PlcSizes
<1>2. Plc!Cardinality(p_allowed) \in Nat /\ Plc!Cardinality(p_allowed) <= p_ncpus
  BY <1>1, Ranks
<1>3. a < p_ncpus /\ b < p_ncpus
  BY <1>1, <1>2
<1>4. a % p_ncpus = a /\ b % p_ncpus = b
  BY ONLY <1>1, <1>3, a \in Nat, b \in Nat
<1>5. Plc!OneOf(a, p_allowed) = Plc!OneOf(b, p_allowed)
  BY ONLY <1>4, Plc!OneOf(a % p_ncpus, p_allowed) = Plc!OneOf(b % p_ncpus, p_allowed), Zenon
<1>6. p_ncpus \in Nat
  BY <1>1
<1> QED BY ONLY <1>1, <1>5, <1>6, PinApart, a \in Nat, b \in Nat,
           a < Plc!Cardinality(p_allowed), b < Plc!Cardinality(p_allowed)

\* So are reversed numbers, if the CPUs are all there and their count a power of two.
LEMMA ReversedApart ==
  ASSUME PlcSizes, PlcGiven, NEW a \in Nat, NEW b \in Nat,
         a < Plc!Cardinality(p_allowed), b < Plc!Cardinality(p_allowed),
         Plc!Cardinality(p_allowed) = p_ncpus, \E c \in 0 .. PlcCpus : p_ncpus = Plc!pow2[c],
         Plc!OneOf(Plc!reverse_bits(a) % p_ncpus, p_allowed) = Plc!OneOf(Plc!reverse_bits(b) % p_ncpus, p_allowed)
  PROVE  a = b
<1>1. PlcCpus \in Nat /\ p_ncpus \in 1 .. PlcCpus
  BY DEF PlcGiven, PlcSizes
<1>2. CASE p_ncpus = 1
  BY <1>2
<1>3. CASE p_ncpus # 1
  <2>1. PICK c \in 0 .. PlcCpus : p_ncpus = Plc!pow2[c]
    OBVIOUS
  <2>2. Plc!pow2[Plc!nbits] = p_ncpus
    BY ONLY <1>1, <1>3, <2>1, PowerBits
  <2>3. /\ Plc!reverse_bits(a) \in Nat /\ Plc!reverse_bits(a) < Plc!pow2[Plc!nbits]
        /\ Plc!reverse_bits(b) \in Nat /\ Plc!reverse_bits(b) < Plc!pow2[Plc!nbits]
    BY ONLY <1>1, a \in Nat, b \in Nat, ReverseFits, Zenon
  <2> DEFINE x == Plc!reverse_bits(a)
             y == Plc!reverse_bits(b)
  <2> HIDE DEF x, y
  <2>4. x \in Nat /\ y \in Nat /\ x < Plc!Cardinality(p_allowed) /\ y < Plc!Cardinality(p_allowed)
    BY ONLY <2>2, <2>3, Plc!Cardinality(p_allowed) = p_ncpus, Zenon DEF x, y
  <2>5. Plc!OneOf(x % p_ncpus, p_allowed) = Plc!OneOf(y % p_ncpus, p_allowed)
    BY Zenon DEF x, y
  <2>6. x = y
    BY ONLY <2>4, <2>5, PlcSizes, PlcGiven, StraightApart
  <2>7. a < Plc!pow2[Plc!nbits] /\ b < Plc!pow2[Plc!nbits]
    BY ONLY <2>2, Plc!Cardinality(p_allowed) = p_ncpus, a < Plc!Cardinality(p_allowed), b < Plc!Cardinality(p_allowed), Zenon
  <2>8. Plc!reverse_bits(a) = Plc!reverse_bits(b)
    BY <2>6 DEF x, y
  <2> QED BY ONLY <1>1, <2>7, <2>8, a \in Nat, b \in Nat, ReverseOneToOne
<1> QED BY <1>2, <1>3

\* Where a process that has placed itself is.
LEMMA OnPinned ==
  ASSUME PlcInv, p_sched # "DEFAULT", NEW p \in Plc!Placed
  PROVE  /\ p = <<p[1], p[2]>> /\ p[1] \in Plc!Children /\ p[2] \in 0 .. 1 /\ p[1] < p_parallel
         /\ Plc!On(p) = PinnedTo(p[1], p[2])
<1>1. \A i \in Plc!Children : PlcPins(i)
  BY DEF PlcInv
<1>2. PICK i \in Plc!Children, e \in 0 .. 1 : p = <<i, e>>
  BY DEF PlcInv, Plc!Placed
<1>3. p[1] = i /\ p[2] = e /\ (e = 0 \/ e = 1)
  BY <1>2
<1>4. p \in p_pinned /\ (IF p[2] = 0 THEN Plc!Measures(p[1]) ELSE p_kid[p[1]] = "placed")
  BY DEF Plc!Placed
<1>c. PlcPins(i)
  BY <1>1
<1>5. CASE e = 0
  <2>1. <<i, 0>> \in p_pinned /\ Plc!Measures(i)
    BY <1>2, <1>3, <1>4, <1>5
  <2>2. p_cpus[i] = PinnedTo(i, 0) /\ i < p_parallel
    BY <1>c, <2>1 DEF PlcPins, Plc!Measures
  <2> QED BY <1>2, <1>3, <1>5, <2>2 DEF Plc!On
<1>6. CASE e = 1
  <2>1. <<i, 1>> \in p_pinned /\ p_kid[i] = "placed"
    BY <1>2, <1>3, <1>4, <1>6
  <2>2. p_kidcpus[i] = PinnedTo(i, 1) /\ i < p_parallel
    BY <1>c, <2>1 DEF PlcPins
  <2> QED BY <1>2, <1>3, <1>6, <2>2 DEF Plc!On
<1> QED BY <1>3, <1>5, <1>6

\* The numbers of UNIQUE are different and small enough.
LEMMA UniqueNumbers ==
  ASSUME NEW i \in Nat, NEW b \in 0 .. 1, NEW j \in Nat, NEW c \in 0 .. 1, NEW n \in Nat,
         i < n, NEW k \in Nat, (Plc!NBenchProcs + 1) * n <= k
  PROVE  /\ i * (Plc!NBenchProcs + 1) + b \in Nat /\ i * (Plc!NBenchProcs + 1) + b < k
         /\ i * (Plc!NBenchProcs + 1) + b = j * (Plc!NBenchProcs + 1) + c => i = j /\ b = c
BY DEF Plc!NBenchProcs

\* The invariant says who is where, and the policies give different places.
LEMMA PlcImplied == ASSUME PlcSizes, PlcInv PROVE Plc!TypeOK /\ Plc!OwnProcessor
<1>0. Plc!TypeOK /\ PlcGiven
  BY DEF PlcInv
<1>c. Plc!Children \subseteq Nat /\ p_parallel \in Nat
  BY <1>0 DEF Plc!Children, PlcGiven, PlcSizes
<1>k. Plc!Cardinality(p_allowed) \in Nat
  <2>1. p_allowed \in SUBSET (0 .. p_ncpus - 1) /\ p_allowed # {} /\ p_ncpus \in Nat
    BY <1>0 DEF PlcGiven, PlcSizes
  <2> QED BY <2>1, Ranks
<1>1. ASSUME NEW p \in Plc!Placed, p_sched # "DEFAULT" PROVE Plc!Cardinality(Plc!On(p)) = 1
  <2>1. Plc!On(p) = PinnedTo(p[1], p[2])
    BY <1>1, OnPinned
  <2>2. \E c : Plc!On(p) = {c}
    BY <2>1 DEF PinnedTo, Plc!OneOf
  <2> QED BY <2>2, FS_Singleton, SameCardinality
<1>2. ASSUME p_sched \in {"UNIQUE", "UNIQUE_SPREAD"}, Plc!Enough((Plc!NBenchProcs + 1) * p_parallel),
             NEW p \in Plc!Placed, NEW q \in Plc!Placed, Plc!On(p) = Plc!On(q)
      PROVE  p = q
  <2>1. /\ p = <<p[1], p[2]>> /\ p[1] \in Plc!Children /\ p[2] \in 0 .. 1 /\ p[1] < p_parallel
        /\ Plc!On(p) = PinnedTo(p[1], p[2])
    BY <1>2, OnPinned
  <2>2. /\ q = <<q[1], q[2]>> /\ q[1] \in Plc!Children /\ q[2] \in 0 .. 1 /\ q[1] < p_parallel
        /\ Plc!On(q) = PinnedTo(q[1], q[2])
    BY <1>2, OnPinned
  <2> DEFINE x == p[1] * (Plc!NBenchProcs + 1) + p[2]
             y == q[1] * (Plc!NBenchProcs + 1) + q[2]
  <2>3. (Plc!NBenchProcs + 1) * p_parallel <= Plc!Cardinality(p_allowed)
    BY <1>2 DEF Plc!Enough
  <2>p. p[1] \in Nat /\ q[1] \in Nat
    BY <1>c, <2>1, <2>2
  <2>4. /\ x \in Nat /\ x < Plc!Cardinality(p_allowed)
        /\ x = y => p[1] = q[1] /\ p[2] = q[2]
    BY ONLY <1>c, <1>k, <2>1, <2>2, <2>3, <2>p, UniqueNumbers
  <2>5. y \in Nat /\ y < Plc!Cardinality(p_allowed)
    BY ONLY <1>c, <1>k, <2>1, <2>2, <2>3, <2>p, UniqueNumbers
  <2>6. PinnedTo(p[1], p[2]) = PinnedTo(q[1], q[2])
    BY ONLY <1>2, <2>1, <2>2, Zenon
  <2>7. CASE p_sched = "UNIQUE"
    <3>1. Plc!Cpu(p[1], p[2], Plc!NBenchProcs) = x /\ Plc!Cpu(q[1], q[2], Plc!NBenchProcs) = y
      BY <2>7 DEF Plc!Cpu
    <3> HIDE DEF x, y
    <3>2. Plc!OneOf(x % p_ncpus, p_allowed) = Plc!OneOf(y % p_ncpus, p_allowed)
      BY ONLY <2>6, <3>1, Zenon DEF PinnedTo
    <3>3. x = y
      BY ONLY <1>0, PlcSizes, <2>4, <2>5, <3>2, StraightApart
    <3> QED BY ONLY <2>1, <2>2, <2>4, <3>3, Zenon
  <2>8. CASE p_sched = "UNIQUE_SPREAD"
    <3>1. Plc!Cpu(p[1], p[2], Plc!NBenchProcs) = Plc!reverse_bits(x) /\ Plc!Cpu(q[1], q[2], Plc!NBenchProcs) = Plc!reverse_bits(y)
      BY <2>8 DEF Plc!Cpu
    <3> HIDE DEF x, y
    <3>2. Plc!OneOf(Plc!reverse_bits(x) % p_ncpus, p_allowed) = Plc!OneOf(Plc!reverse_bits(y) % p_ncpus, p_allowed)
      BY ONLY <2>6, <3>1, Zenon DEF PinnedTo
    <3>3. Plc!Cardinality(p_allowed) = p_ncpus /\ \E c \in 0 .. PlcCpus : p_ncpus = Plc!pow2[c]
      BY <1>2, <2>8 DEF Plc!Enough
    <3>4. x = y
      BY ONLY <1>0, PlcSizes, <2>4, <2>5, <3>2, <3>3, ReversedApart
    <3> QED BY ONLY <2>1, <2>2, <2>4, <3>4, Zenon
  <2> QED BY ONLY <1>2, <2>7, <2>8
<1>3. ASSUME p_sched \in {"BALANCED", "BALANCED_SPREAD"}, Plc!Enough(p_parallel),
             NEW p \in Plc!Placed, NEW q \in Plc!Placed
      PROVE  Plc!On(p) = Plc!On(q) <=> p[1] = q[1]
  <2>1. p[1] \in Plc!Children /\ p[1] < p_parallel /\ Plc!On(p) = PinnedTo(p[1], p[2])
    BY <1>3, OnPinned
  <2>2. q[1] \in Plc!Children /\ q[1] < p_parallel /\ Plc!On(q) = PinnedTo(q[1], q[2])
    BY <1>3, OnPinned
  <2> DEFINE x == p[1]
             y == q[1]
  <2>3. p_parallel <= Plc!Cardinality(p_allowed)
    BY <1>3 DEF Plc!Enough
  <2>4. x \in Nat /\ x < Plc!Cardinality(p_allowed) /\ y \in Nat /\ y < Plc!Cardinality(p_allowed)
    <3>1. x \in Nat /\ y \in Nat /\ x < p_parallel /\ y < p_parallel
      BY ONLY <1>c, <2>1, <2>2
    <3> HIDE DEF x, y
    <3> QED BY ONLY <1>c, <1>k, <2>3, <3>1
  <2>5. CASE p_sched = "BALANCED"
    <3>1. Plc!Cpu(x, p[2], Plc!NBenchProcs) = x /\ Plc!Cpu(y, q[2], Plc!NBenchProcs) = y
      BY <2>5 DEF Plc!Cpu
    <3>2. Plc!On(p) = Plc!OneOf(x % p_ncpus, p_allowed) /\ Plc!On(q) = Plc!OneOf(y % p_ncpus, p_allowed)
      BY ONLY <2>1, <2>2, <3>1, Zenon DEF PinnedTo
    <3> HIDE DEF x, y
    <3>3. Plc!On(p) = Plc!On(q) <=> x = y
      BY ONLY <1>0, PlcSizes, <2>4, <3>2, StraightApart
    <3> QED BY <3>3 DEF x, y
  <2>6. CASE p_sched = "BALANCED_SPREAD"
    <3>1. Plc!Cpu(x, p[2], Plc!NBenchProcs) = Plc!reverse_bits(x) /\ Plc!Cpu(y, q[2], Plc!NBenchProcs) = Plc!reverse_bits(y)
      BY <2>6 DEF Plc!Cpu
    <3>2. Plc!On(p) = Plc!OneOf(Plc!reverse_bits(x) % p_ncpus, p_allowed) /\ Plc!On(q) = Plc!OneOf(Plc!reverse_bits(y) % p_ncpus, p_allowed)
      BY ONLY <2>1, <2>2, <3>1, Zenon DEF PinnedTo
    <3>3. Plc!Cardinality(p_allowed) = p_ncpus /\ \E c \in 0 .. PlcCpus : p_ncpus = Plc!pow2[c]
      BY <1>3, <2>6 DEF Plc!Enough
    <3> HIDE DEF x, y
    <3>4. Plc!On(p) = Plc!On(q) => x = y
      BY ONLY <1>0, PlcSizes, <2>4, <3>2, <3>3, ReversedApart
    <3>5. x = y => Plc!On(p) = Plc!On(q)
      BY ONLY <3>2, Zenon
    <3> QED BY ONLY <3>4, <3>5, Zenon DEF x, y
  <2> QED BY ONLY <1>3, <2>5, <2>6
<1>4. ASSUME p_sched = "CUSTOM", NEW p \in Plc!Placed, NEW q \in Plc!Placed, p[1] = q[1] PROVE Plc!On(p) = Plc!On(q)
  <2>1. Plc!On(p) = PinnedTo(p[1], p[2]) /\ Plc!On(q) = PinnedTo(q[1], q[2])
    BY <1>4, OnPinned
  <2>2. Plc!Cpu(p[1], p[2], Plc!NBenchProcs) = Plc!custom(p[1]) /\ Plc!Cpu(q[1], q[2], Plc!NBenchProcs) = Plc!custom(q[1])
    BY <1>4 DEF Plc!Cpu
  <2> QED BY ONLY <1>4, <2>1, <2>2, Zenon DEF PinnedTo
<1>5. ASSUME NEW i \in Plc!Children, p_sched # "DEFAULT", Plc!Measures(i) PROVE p_cpumask[i] = p_allowed
  BY <1>5 DEF PlcInv, PlcPins
<1> QED BY <1>0, <1>1, <1>2, <1>3, <1>4, <1>5 DEF Plc!OwnProcessor

-----------------------------------------------------------------------------
(* cache.c, the search.  What search() has left behind is refined up to    *)
(* the next call on its stack, and the calls follow each other.            *)
CONSTANTS
    NSamples, SearchLatencies

VARIABLES
    s_pc, s_p, s_todo, s_start, s_levels

Search == INSTANCE CacheSearch WITH
    NSamples <- NSamples, Latencies <- SearchLatencies,
    pc <- s_pc, p <- s_p, todo <- s_todo, start <- s_start,
    levels <- s_levels

\* Two sizes to search between.
SearchSizes ==
    NSamples \in Nat /\ NSamples >= 2 /\ SearchLatencies \subseteq Nat
ASSUME SearchAssumption == SearchSizes

\* A set of numbers has a least one, and below a bound a greatest one.
LEMMA LeastIn ==
  ASSUME NEW S, S \subseteq Nat, S # {}
  PROVE  Search!Min(S) \in S /\ \A y \in S : Search!Min(S) <= y
<1> DEFINE R == OpToRel(<, Nat)
<1>1. IsWellFoundedOn(R, Nat)
  BY NatLessThanWellFounded
<1>2. PICK x \in S : \A y \in S : ~ (<<y, x>> \in R)
  <2> HIDE DEF R
  <2> QED BY <1>1, WFMin
<1>3. ASSUME NEW y \in S PROVE x <= y
  <2> SUFFICES ASSUME y < x PROVE FALSE
    OBVIOUS
  <2>1. <<y, x>> \in R
    BY DEF OpToRel
  <2> QED BY <2>1, <1>2
<1>4. \E z \in S : \A y \in S : z <= y
  BY <1>3
<1> QED BY <1>4, Zenon DEF Search!Min

\* The greatest element is the least one counted from above.
LEMMA GreatestIn ==
  ASSUME NEW n \in Nat, NEW S, S \subseteq 0 .. n, S # {}
  PROVE  Search!Max(S) \in S /\ \A y \in S : Search!Max(S) >= y
<1> DEFINE T == {n - x : x \in S}
<1>1. T \subseteq Nat /\ T # {}
  <2>1. T \subseteq Nat
    OBVIOUS
  <2>2. PICK x \in S : TRUE
    OBVIOUS
  <2>3. n - x \in T
    OBVIOUS
  <2> QED BY <2>1, <2>3
<1>2. Search!Min(T) \in T /\ \A y \in T : Search!Min(T) <= y
  <2> HIDE DEF T
  <2> QED BY <1>1, LeastIn
<1>3. PICK z \in S : Search!Min(T) = n - z
  BY <1>2
<1>4. ASSUME NEW y \in S PROVE z >= y
  <2>1. n - z <= n - y
    <3>1. n - y \in T
      OBVIOUS
    <3> QED BY <3>1, <1>2, <1>3
  <2> QED BY <2>1
<1>5. \E x \in S : \A y \in S : x >= y
  BY <1>4
<1> QED BY <1>5, Zenon DEF Search!Max

-----------------------------------------------------------------------------
\* What the array of collect_data() holds.
Entries == [latency : Int, ratio : Int \X Int, slope : Int \X Int]

\* The calls cover 0 to SearchedTo, each beginning where the one before ends.
SearchCalls(s) ==
    /\ s \in Seq(Search!Idx \X Search!Idx)
    /\ \A k \in 1 .. Len(s) : s[k][1] < s[k][2]
    /\ \A k \in 1 .. Len(s) - 1 : s[k][2] = s[k + 1][1]
    /\ \A k, m \in 1 .. Len(s) : k < m => s[k][2] <= s[m][1]
    /\ s # <<>> => s[1][1] = 0
\* From this size on everything has been searched.
SearchedTo(s) == IF s = <<>> THEN 0 ELSE s[Len(s)][2]
\* The next measured size.
NextIs(q, i, j) ==
    /\ i < j /\ q[j].latency >= 0
    /\ \A m \in Search!Idx : i < m /\ m < j => q[m].latency < 0

\* A measured size has its ratio to the next one, and a step is not between others.
RefinedTo(q, i, j) ==
    q[i].latency > 0 =>
        /\ q[i].ratio[1] * q[i].latency = q[j].latency * q[i].ratio[2]
        /\ 100 * q[j].latency > 135 * q[i].latency => j = i + 1

\* From b on every measured size but the last is.
Refined(q, b) ==
    \A i \in Search!Idx : b <= i /\ i # NSamples - 1 /\ q[i].latency >= 0 =>
        \E j \in Search!Idx : NextIs(q, i, j) /\ RefinedTo(q, i, j)

\* A call is made of two sizes that were measured, with none between them.
EndsMeasured(q, s) ==
    \A k \in 1 .. Len(s) : q[s[k][1]].latency >= 0 /\ NextIs(q, s[k][1], s[k][2])
Searching ==
    /\ s_p \in [Search!Idx -> Entries] /\ SearchCalls(s_todo)
    /\ EndsMeasured(s_p, s_todo) /\ Refined(s_p, SearchedTo(s_todo))

\* The levels found so far.
Growing ==
    /\ s_start \in 0 .. NSamples /\ s_levels \in Seq(Search!Idx) /\ Len(s_levels) <= s_start
    /\ \A n \in 1 .. Len(s_levels) : s_levels[n] < s_start /\ Search!Legal(s_levels[n])
    /\ \A n \in 2 .. Len(s_levels) : s_levels[n - 1] < s_levels[n]

SearchInv ==
    /\ s_pc \in {"collect", "search", "levels", "done", "lost"}
    /\ s_pc = "collect" => s_p = [i \in Search!Idx |-> Search!Unmeasured]
    /\ s_pc \in {"search", "levels", "done"} => Searching
    /\ s_pc \in {"levels", "done"} => s_todo = <<>>
    /\ Growing

\* Before anything is measured.
LEMMA SearchBegins ==
  ASSUME SearchSizes, Search!Init
  PROVE  SearchInv
  BY DEF SearchSizes, Search!Init, SearchInv, Growing, Search!Idx

\* The first and the last size are measured, and the first call made.
LEMMA CollectDataKeeps ==
  ASSUME SearchSizes, SearchInv, Search!CollectData
  PROVE  SearchInv'
<1>1. s_pc = "collect" /\ UNCHANGED <<s_start, s_levels>>
  BY DEF Search!CollectData
<1>2. PICK t \in SearchLatencies, u \in SearchLatencies :
         \/ /\ s_p' = [s_p EXCEPT ![NSamples - 1].latency = t, ![0].latency = u]
            /\ s_todo' = <<<<0, NSamples - 1>>>> /\ s_pc' = "search"
         \/ s_pc' = "lost"
  BY DEF Search!CollectData
<1>3. Growing'
  BY <1>1 DEF SearchInv, Growing
<1>4. CASE s_pc' = "lost"
  BY <1>3, <1>4 DEF SearchInv
<1>5. CASE /\ s_p' = [s_p EXCEPT ![NSamples - 1].latency = t, ![0].latency = u]
           /\ s_todo' = <<<<0, NSamples - 1>>>> /\ s_pc' = "search"
  <2>1. /\ NSamples \in Nat /\ NSamples >= 2 /\ t \in Nat /\ u \in Nat
        /\ 0 \in Search!Idx /\ NSamples - 1 \in Search!Idx
    BY DEF SearchSizes, Search!Idx
  <2>2. s_p = [i \in Search!Idx |-> Search!Unmeasured] /\ Search!Unmeasured \in Entries /\ Search!Unmeasured.latency = -1
    BY <1>1 DEF SearchInv, Search!Unmeasured, Entries
  <2>3. s_p' \in [Search!Idx -> Entries]
    BY <1>5, <2>1, <2>2 DEF Entries
  <2>4. /\ s_p'[0].latency = u /\ s_p'[NSamples - 1].latency = t
        /\ \A m \in Search!Idx : 0 < m /\ m < NSamples - 1 => s_p'[m].latency = -1
    BY <1>5, <2>1, <2>2 DEF Entries
  <2> DEFINE z == <<<<0, NSamples - 1>>>>
  <2>5. z \in Seq(Search!Idx \X Search!Idx) /\ Len(z) = 1 /\ z[1] = <<0, NSamples - 1>> /\ z # <<>>
    BY <2>1
  <2> HIDE DEF z
  <2>6. SearchCalls(z)
    BY <2>1, <2>5 DEF SearchCalls
  <2>7. NextIs(s_p', 0, NSamples - 1)
    BY <2>1, <2>4 DEF NextIs
  <2>8. EndsMeasured(s_p', z)
    BY <2>1, <2>4, <2>5, <2>7 DEF EndsMeasured
  <2>9. Refined(s_p', SearchedTo(z))
    BY <2>1, <2>5 DEF Refined, SearchedTo, Search!Idx
  <2>10. Searching'
    BY <1>5, <2>3, <2>6, <2>8, <2>9 DEF Searching, z
  <2> QED BY <1>3, <1>5, <2>10 DEF SearchInv
<1> QED BY <1>2, <1>4, <1>5

\* search() looks at the last call and leaves the calls before it.
LEMMA LastCall ==
  ASSUME SearchSizes, NEW s, SearchCalls(s), s # <<>>
  PROVE  /\ Search!Last(s) = s[Len(s)] /\ Len(s) \in Nat \ {0}
         /\ Search!Last(s) = <<Search!Last(s)[1], Search!Last(s)[2]>>
         /\ Search!Last(s)[1] \in Search!Idx /\ Search!Last(s)[2] \in Search!Idx /\ Search!Last(s)[1] < Search!Last(s)[2]
         /\ Len(Search!Front(s)) = Len(s) - 1 /\ Search!Front(s) \in Seq(Search!Idx \X Search!Idx)
         /\ \A k \in 1 .. Len(s) - 1 : Search!Front(s)[k] = s[k]
         /\ SearchCalls(Search!Front(s)) /\ SearchedTo(Search!Front(s)) = Search!Last(s)[1] /\ SearchedTo(s) = Search!Last(s)[2]
<1>1. s \in Seq(Search!Idx \X Search!Idx) /\ Len(s) \in Nat \ {0}
  BY DEF SearchCalls
<1>2. Search!Last(s) = s[Len(s)] /\ Search!Last(s) \in Search!Idx \X Search!Idx
  BY <1>1 DEF Search!Last
<1> DEFINE z == Search!Front(s)
<1>3. z = [k \in 1 .. Len(s) - 1 |-> s[k]]
  BY <1>1 DEF Search!Front
<1>4. z \in Seq(Search!Idx \X Search!Idx) /\ Len(z) = Len(s) - 1 /\ \A k \in 1 .. Len(s) - 1 : z[k] = s[k]
  BY <1>1, <1>3
<1> HIDE DEF z
<1>5. Search!Last(s)[1] < Search!Last(s)[2]
  BY <1>1, <1>2 DEF SearchCalls
<1>6. SearchCalls(z)
  <2>1. \A k \in 1 .. Len(z) : z[k][1] < z[k][2]
    BY <1>1, <1>4 DEF SearchCalls
  <2>2. \A k \in 1 .. Len(z) - 1 : z[k][2] = z[k + 1][1]
    BY <1>1, <1>4 DEF SearchCalls
  <2>3. z # <<>> => z[1][1] = 0
    BY <1>1, <1>4 DEF SearchCalls
  <2>4. ASSUME NEW k \in 1 .. Len(z), NEW m \in 1 .. Len(z), k < m PROVE z[k][2] <= z[m][1]
    <3>1. k \in 1 .. Len(s) /\ m \in 1 .. Len(s) /\ z[k] = s[k] /\ z[m] = s[m]
      BY <1>1, <1>4
    <3> QED BY <3>1, <2>4 DEF SearchCalls
  <2> QED BY <1>4, <2>1, <2>2, <2>3, <2>4 DEF SearchCalls
<1>7. SearchedTo(s) = Search!Last(s)[2]
  BY <1>2 DEF SearchedTo
<1>8. SearchedTo(z) = Search!Last(s)[1]
  <2>1. CASE Len(s) = 1
    <3>1. z = <<>>
      BY <1>4, <2>1
    <3>2. s[1][1] = 0
      BY DEF SearchCalls
    <3> QED BY <3>1, <3>2, <2>1, <1>2 DEF SearchedTo
  <2>2. CASE Len(s) # 1
    <3>1. Len(s) - 1 \in 1 .. Len(s) - 1
      <4>1. ASSUME NEW n \in Nat \ {0}, n # 1 PROVE n - 1 \in 1 .. n - 1
        BY <4>1
      <4> QED BY <1>1, <2>2, <4>1
    <3>2. s[Len(s) - 1][2] = s[(Len(s) - 1) + 1][1]
      BY <3>1 DEF SearchCalls
    <3>3. z # <<>> /\ z[Len(z)] = s[Len(s) - 1]
      BY <3>1, <1>1, <1>4
    <3> QED BY <3>2, <3>3, <1>1, <1>2 DEF SearchedTo
  <2> QED BY <2>1, <2>2
<1> QED BY <1>1, <1>2, <1>4, <1>5, <1>6, <1>7, <1>8 DEF z

\* What search() keeps with the left end.
LEMMA CompareFits ==
  ASSUME s_p \in [Search!Idx -> Entries], Search!Idx \subseteq Int, NEW left \in Search!Idx, NEW right \in Search!Idx,
         s_p[left].latency >= 0, s_p[right].latency >= 0, NEW e, e = Search!Compare(left, right)
  PROVE  /\ e \in Entries /\ e.latency >= 0
         /\ e.latency > 0 =>
              /\ e.ratio[1] * e.latency = s_p[right].latency * e.ratio[2]
              /\ 100 * s_p[right].latency > 135 * e.latency => Search!Greater(e.ratio, 135, 100)
<1> DEFINE l == s_p[left].latency
           r == s_p[right].latency
<1>1. s_p[left] \in Entries /\ l \in Nat /\ r \in Nat
  BY DEF Entries
<1> HIDE DEF l, r
<1>2. e = IF l <= 0 THEN s_p[left]
          ELSE IF Search!Less(<<r, l>>, 98, 100)
          THEN [latency |-> r, ratio |-> <<1, 1>>, slope |-> <<0, 1>>]
          ELSE [latency |-> l, ratio |-> <<r, l>>, slope |-> <<r - l, l * (right - left)>>]
  BY Zenon DEF Search!Compare, l, r
<1>3. CASE l <= 0
  <2>1. e = s_p[left] /\ e.latency = l
    BY <1>2, <1>3, Zenon DEF l
  <2> QED BY <1>1, <1>3, <2>1
<1>4. CASE ~ (l <= 0) /\ Search!Less(<<r, l>>, 98, 100)
  <2>1. e = [latency |-> r, ratio |-> <<1, 1>>, slope |-> <<0, 1>>]
    BY <1>2, <1>4, Zenon
  <2>2. e.latency = r /\ e.ratio = <<1, 1>>
    BY <2>1
  <2>3. e \in Entries
    BY <1>1, <2>1 DEF Entries
  <2>4. s_p[right].latency = r
    BY DEF r
  <2> QED BY <1>1, <2>2, <2>3, <2>4
<1>5. CASE ~ (l <= 0) /\ ~ Search!Less(<<r, l>>, 98, 100)
  <2>1. e = [latency |-> l, ratio |-> <<r, l>>, slope |-> <<r - l, l * (right - left)>>]
    BY <1>2, <1>5, Zenon
  <2>2. e.latency = l /\ e.ratio = <<r, l>>
    BY <2>1
  <2>s. r - l \in Int /\ l * (right - left) \in Int
    <3>1. left \in Int /\ right \in Int
      OBVIOUS
    <3> QED BY <1>1, <3>1
  <2>3. e \in Entries
    BY <1>1, <2>1, <2>s DEF Entries
  <2>4. s_p[right].latency = r
    BY DEF r
  <2>5. 100 * r > 135 * l => Search!Greater(<<r, l>>, 135, 100)
    BY <1>1 DEF Search!Greater
  <2> QED BY <1>1, <2>2, <2>3, <2>4, <2>5
<1> QED BY <1>3, <1>4, <1>5

\* Storing to the left of it does not disturb what has been searched.
LEMMA StillRefined ==
  ASSUME SearchSizes, NEW q, NEW b \in Search!Idx, Refined(s_p, b),
         \A i \in Search!Idx : b <= i => q[i] = s_p[i]
  PROVE  Refined(q, b)
<1> SUFFICES ASSUME NEW i \in Search!Idx, b <= i, i # NSamples - 1, q[i].latency >= 0
             PROVE  \E j \in Search!Idx : NextIs(q, i, j) /\ RefinedTo(q, i, j)
  BY DEF Refined
<1>1. q[i] = s_p[i]
  OBVIOUS
<1>2. PICK j \in Search!Idx : NextIs(s_p, i, j) /\ RefinedTo(s_p, i, j)
  BY <1>1 DEF Refined
<1>3. q[j] = s_p[j]
  BY <1>2 DEF NextIs, Search!Idx, SearchSizes
<1>4. NextIs(q, i, j)
  BY <1>2, <1>3 DEF NextIs, Search!Idx, SearchSizes
<1>5. RefinedTo(q, i, j)
  BY <1>1, <1>2, <1>3 DEF RefinedTo
<1> QED BY <1>4, <1>5

\* One more size is done.
LEMMA RefinedLeft ==
  ASSUME SearchSizes, NEW q \in [Search!Idx -> Entries], NEW left \in Search!Idx, NEW right \in Search!Idx,
         Refined(q, right),
         NextIs(q, left, right), RefinedTo(q, left, right)
  PROVE  Refined(q, left)
<1> SUFFICES ASSUME NEW i \in Search!Idx, left <= i, i # NSamples - 1, q[i].latency >= 0
             PROVE  \E j \in Search!Idx : NextIs(q, i, j) /\ RefinedTo(q, i, j)
  BY DEF Refined
<1>1. CASE i = left
  BY <1>1
<1>2. CASE right <= i
  BY <1>2 DEF Refined
<1>3. CASE left < i /\ i < right
  <2>1. q[i].latency < 0
    BY <1>3 DEF NextIs
  <2>2. q[i].latency \in Int
    BY DEF Entries
  <2> QED BY <2>1, <2>2
<1> QED BY <1>1, <1>2, <1>3 DEF Search!Idx, SearchSizes

\* The middle of two sizes is the left one only if they are adjacent.
LEMMA SearchMiddle ==
  ASSUME NEW l \in Int, NEW r \in Int, l < r, NEW m, m = l + (r - l) \div 2
  PROVE  m \in Int /\ l <= m /\ m < r /\ (m = l => r = l + 1)
  OBVIOUS

\* The end of a call of search() that looks no further.
LEMMA StopKeeps ==
  ASSUME SearchSizes, Searching, s_todo # <<>>, NEW left, NEW right, NEW middle, NEW e, NEW q,
         left = Search!Last(s_todo)[1], right = Search!Last(s_todo)[2],
         middle = left + (right - left) \div 2, e = Search!Compare(left, right),
         ~ (middle # left /\ (Search!Greater(e.ratio, 135, 100) \/ Search!Less(e.ratio, 97, 100))),
         q = [s_p EXCEPT ![left] = e]
  PROVE  /\ q \in [Search!Idx -> Entries] /\ SearchCalls(Search!Front(s_todo)) /\ EndsMeasured(q, Search!Front(s_todo))
         /\ Refined(q, SearchedTo(Search!Front(s_todo)))
<1>1. /\ s_p \in [Search!Idx -> Entries] /\ SearchCalls(s_todo) /\ EndsMeasured(s_p, s_todo) /\ Refined(s_p, SearchedTo(s_todo))
  BY DEF Searching
<1>2. /\ Len(s_todo) \in Nat \ {0} /\ Search!Last(s_todo) = s_todo[Len(s_todo)]
      /\ left \in Search!Idx /\ right \in Search!Idx /\ left < right
      /\ SearchCalls(Search!Front(s_todo)) /\ SearchedTo(Search!Front(s_todo)) = left /\ SearchedTo(s_todo) = right
      /\ Len(Search!Front(s_todo)) = Len(s_todo) - 1
      /\ \A k \in 1 .. Len(s_todo) - 1 : Search!Front(s_todo)[k] = s_todo[k]
  BY <1>1, LastCall
<1>3. s_p[left].latency >= 0 /\ NextIs(s_p, left, right)
  BY <1>1, <1>2 DEF EndsMeasured
<1>4. Search!Idx \subseteq Int /\ left \in Int /\ right \in Int
  BY <1>2 DEF Search!Idx, SearchSizes
<1>5. /\ e \in Entries /\ e.latency >= 0
      /\ e.latency > 0 =>
              /\ e.ratio[1] * e.latency = s_p[right].latency * e.ratio[2]
              /\ 100 * s_p[right].latency > 135 * e.latency => Search!Greater(e.ratio, 135, 100)
  <2>1. s_p[right].latency >= 0
    BY <1>3 DEF NextIs
  <2> QED BY <1>1, <1>2, <1>3, <1>4, <2>1, CompareFits
<1>6. /\ q \in [Search!Idx -> Entries] /\ q[left] = e
      /\ \A i \in Search!Idx : i # left => q[i] = s_p[i]
  BY <1>1, <1>2, <1>5
<1>7. Refined(q, right)
  <2>1. \A i \in Search!Idx : right <= i => q[i] = s_p[i]
    BY <1>2, <1>4, <1>6
  <2> QED BY <1>1, <1>2, <2>1, StillRefined
<1>8. NextIs(q, left, right)
  <2>1. q[right] = s_p[right] /\ \A m \in Search!Idx : left < m => q[m] = s_p[m]
    BY ONLY <1>2, <1>4, <1>6
  <2> QED BY ONLY <1>3, <2>1 DEF NextIs
<1>9. RefinedTo(q, left, right)
  <2>1. q[right] = s_p[right]
    BY <1>2, <1>4, <1>6
  <2>2. Search!Greater(e.ratio, 135, 100) => middle = left
    OBVIOUS
  <2>3. middle = left => right = left + 1
    BY <1>2, <1>4, SearchMiddle
  <2> QED BY <1>5, <1>6, <2>1, <2>2, <2>3 DEF RefinedTo
<1>10. Refined(q, left)
  BY <1>2, <1>6, <1>7, <1>8, <1>9, RefinedLeft
<1>11. EndsMeasured(q, Search!Front(s_todo))
  <2> SUFFICES ASSUME NEW k \in 1 .. Len(Search!Front(s_todo))
               PROVE  /\ q[Search!Front(s_todo)[k][1]].latency >= 0
                      /\ NextIs(q, Search!Front(s_todo)[k][1], Search!Front(s_todo)[k][2])
    BY DEF EndsMeasured
  <2> DEFINE a == s_todo[k][1]
             b == s_todo[k][2]
  <2>1. k \in 1 .. Len(s_todo) /\ Search!Front(s_todo)[k] = s_todo[k] /\ k \in 1 .. Len(s_todo) - 1
    BY <1>2
  <2>2. s_p[a].latency >= 0 /\ NextIs(s_p, a, b) /\ a \in Search!Idx /\ b \in Search!Idx
    BY <1>1, <2>1 DEF EndsMeasured, SearchCalls
  <2> HIDE DEF a, b
  <2>3. \A i \in Search!Idx : s_p[i].latency >= 0 => q[i].latency >= 0
    BY <1>5, <1>6
  <2>4. \A i \in Search!Idx : s_p[i].latency < 0 => q[i].latency < 0
    <3>1. s_p[left].latency \in Int
      BY <1>1, <1>2 DEF Entries
    <3> QED BY <3>1, <1>3, <1>6
  <2>5. q[a].latency >= 0 /\ NextIs(q, a, b)
    BY <2>2, <2>3, <2>4 DEF NextIs
  <2> QED BY <2>1, <2>5 DEF a, b
<1> QED BY <1>2, <1>6, <1>10, <1>11

\* What a call that looks at both halves leaves to be done and stores.
TwoCalls(f, l, m, r) == f \o <<<<l, m>>, <<m, r>>>>
SearchStored(l, e, m, t) == [s_p EXCEPT ![l] = e, ![m].latency = t]

\* search() measures the middle and calls itself for both halves.
LEMMA SplitCall ==
  ASSUME SearchSizes, Searching, s_todo # <<>>, NEW left, NEW right, NEW middle, NEW e, NEW q,
         left = Search!Last(s_todo)[1], right = Search!Last(s_todo)[2],
         middle = left + (right - left) \div 2, e = Search!Compare(left, right), middle # left,
         NEW t \in SearchLatencies, q = SearchStored(left, e, middle, t),
         NEW s, s = TwoCalls(Search!Front(s_todo), left, middle, right)
  PROVE  q \in [Search!Idx -> Entries] /\ SearchCalls(s) /\ EndsMeasured(q, s) /\ Refined(q, SearchedTo(s))
<1>1. /\ s_p \in [Search!Idx -> Entries] /\ SearchCalls(s_todo) /\ EndsMeasured(s_p, s_todo) /\ Refined(s_p, SearchedTo(s_todo))
  BY DEF Searching
<1>2. /\ Len(s_todo) \in Nat \ {0} /\ Search!Last(s_todo) = s_todo[Len(s_todo)]
      /\ left \in Search!Idx /\ right \in Search!Idx /\ left < right
      /\ SearchCalls(Search!Front(s_todo)) /\ SearchedTo(Search!Front(s_todo)) = left /\ SearchedTo(s_todo) = right
      /\ Len(Search!Front(s_todo)) = Len(s_todo) - 1 /\ Search!Front(s_todo) \in Seq(Search!Idx \X Search!Idx)
      /\ \A k \in 1 .. Len(s_todo) - 1 : Search!Front(s_todo)[k] = s_todo[k]
  BY <1>1, LastCall
<1>3. s_p[left].latency >= 0 /\ NextIs(s_p, left, right)
  BY <1>1, <1>2 DEF EndsMeasured
<1>4. Search!Idx \subseteq Int /\ left \in Int /\ right \in Int
  BY <1>2 DEF Search!Idx, SearchSizes
<1>5. e \in Entries /\ e.latency >= 0
  <2>1. s_p[right].latency >= 0
    BY <1>3 DEF NextIs
  <2> QED BY <1>1, <1>2, <1>3, <1>4, <2>1, CompareFits
<1>m. middle \in Search!Idx /\ left < middle /\ middle < right
  <2>1. middle \in Int /\ left <= middle /\ middle < right
    BY <1>2, <1>4, SearchMiddle
  <2>2. 0 <= left /\ right <= NSamples - 1 /\ NSamples \in Nat
    BY <1>2 DEF Search!Idx, SearchSizes
  <2> QED BY ONLY <1>4, <2>1, <2>2, middle # left DEF Search!Idx
<1>t. t \in Nat
  BY DEF SearchSizes
<1>6. /\ q \in [Search!Idx -> Entries] /\ q[left] = e /\ q[middle].latency = t
      /\ \A i \in Search!Idx : i # left /\ i # middle => q[i] = s_p[i]
  <2>1. [s_p[middle] EXCEPT !.latency = t] \in Entries /\ [s_p[middle] EXCEPT !.latency = t].latency = t
    BY ONLY <1>1, <1>m, <1>t DEF Entries
  <2>2. q = [s_p EXCEPT ![left] = e, ![middle] = [s_p[middle] EXCEPT !.latency = t]]
    BY <1>1, <1>2, <1>4, <1>m DEF SearchStored
  <2> HIDE DEF Entries
  <2> QED BY ONLY <1>1, <1>2, <1>4, <1>5, <1>m, <2>1, <2>2
<1>7. Refined(q, right)
  <2>1. \A i \in Search!Idx : right <= i => q[i] = s_p[i]
    <3>1. ASSUME NEW i \in Search!Idx, right <= i PROVE i # left /\ i # middle
      BY ONLY <1>2, <1>4, <1>m, <3>1, i \in Search!Idx
    <3> QED BY ONLY <3>1, <1>6
  <2> QED BY <1>1, <1>2, <2>1, StillRefined
<1> DEFINE n == Len(s_todo) - 1
<1>n. n \in Nat /\ Len(s_todo) = n + 1
  BY <1>2
<1>s. /\ s \in Seq(Search!Idx \X Search!Idx) /\ Len(s) = n + 2
      /\ s[n + 1] = <<left, middle>> /\ s[n + 2] = <<middle, right>>
      /\ \A k \in 1 .. n : s[k] = s_todo[k]
  <2> DEFINE f == Search!Front(s_todo)
             X == Search!Idx \X Search!Idx
             z == <<<<left, middle>>, <<middle, right>>>>
  <2>1. f \in Seq(X) /\ Len(f) = n /\ \A k \in 1 .. n : f[k] = s_todo[k]
    BY ONLY <1>2
  <2>2. /\ z \in Seq(X) /\ Len(z) = 2
        /\ z[1] = <<left, middle>> /\ z[2] = <<middle, right>>
    BY ONLY <1>2, <1>m
  <2>3. s = f \o z
    BY DEF TwoCalls
  <2> HIDE DEF f, z, n, X
  <2>4. /\ s \in Seq(X) /\ Len(s) = n + 2
        /\ \A i \in 1 .. n + 2 : s[i] = IF i <= n THEN f[i] ELSE z[i - n]
    <3>1. /\ f \o z \in Seq(X) /\ Len(f \o z) = Len(f) + Len(z)
          /\ \A i \in 1 .. Len(f) + Len(z) :
                (f \o z)[i] = IF i <= Len(f) THEN f[i] ELSE z[i - Len(f)]
      <4>1. f \in Seq(X) /\ z \in Seq(X)
        BY <2>1, <2>2
      <4> QED BY ONLY <4>1, ConcatProperties, Zenon
    <3> QED BY ONLY <3>1, <2>1, <2>2, <2>3, Zenon
  <2>5. n + 1 \in 1 .. n + 2 /\ n + 2 \in 1 .. n + 2 /\ (n + 1) - n = 1 /\ (n + 2) - n = 2
    BY ONLY <1>n
  <2>6. s[n + 1] = IF n + 1 <= n THEN f[n + 1] ELSE z[(n + 1) - n]
    BY <2>4, <2>5, Zenon
  <2>7. s[n + 2] = IF n + 2 <= n THEN f[n + 2] ELSE z[(n + 2) - n]
    BY <2>4, <2>5, Zenon
  <2>8. ~ (n + 1 <= n) /\ ~ (n + 2 <= n)
    BY ONLY <1>n
  <2>9. s[n + 1] = z[1] /\ s[n + 2] = z[2]
    BY ONLY <2>5, <2>6, <2>7, <2>8, Zenon
  <2>10. \A k \in 1 .. n : s[k] = f[k]
    BY ONLY <2>4, <1>n
  <2> QED BY ONLY <2>1, <2>2, <2>4, <2>9, <2>10, Zenon DEF X
<1>w. s_todo[n + 1] = Search!Last(s_todo)
  BY <1>2, <1>n
<1> HIDE DEF n
<1>8. SearchCalls(s)
  <2>1. ASSUME NEW k \in 1 .. Len(s) PROVE s[k][1] < s[k][2]
    <3>1. CASE k \in 1 .. n
      <4>1. k \in 1 .. Len(s_todo) /\ s[k] = s_todo[k]
        BY ONLY <3>1, <1>s, <1>n
      <4> QED BY ONLY <4>1, <1>1, Zenon DEF SearchCalls
    <3>2. CASE k = n + 1
      BY <3>2, <1>s, <1>m
    <3>3. CASE k = n + 2
      BY <3>3, <1>s, <1>m
    <3>4. k \in 1 .. n \/ k = n + 1 \/ k = n + 2
      BY ONLY <1>n, <1>s, k \in 1 .. Len(s)
    <3> QED BY ONLY <3>1, <3>2, <3>3, <3>4
  <2>2. ASSUME NEW k \in 1 .. Len(s) - 1 PROVE s[k][2] = s[k + 1][1]
    <3>1. CASE k \in 1 .. n /\ k # n
      <4>1. k \in 1 .. Len(s_todo) - 1 /\ k + 1 \in 1 .. n
        BY <3>1, <1>n
      <4> QED BY <4>1, <3>1, <1>1, <1>s DEF SearchCalls
    <3>2. CASE k = n
      <4>1. n \in 1 .. Len(s_todo) - 1 /\ n \in 1 .. n
        BY <3>2, <1>n, <1>s
      <4>2. s_todo[n][2] = s_todo[n + 1][1]
        BY <4>1, <1>1 DEF SearchCalls
      <4>3. s[n] = s_todo[n] /\ s[n + 1][1] = left /\ s_todo[n + 1][1] = left
        BY ONLY <4>1, <1>s, <1>w, left = Search!Last(s_todo)[1]
      <4> QED BY <3>2, <4>2, <4>3
    <3>3. CASE k = n + 1
      <4>1. (n + 1) + 1 = n + 2
        BY ONLY <1>n
      <4>2. s[n + 1][2] = middle /\ s[n + 2][1] = middle
        BY ONLY <1>s
      <4> QED BY ONLY <3>3, <4>1, <4>2
    <3>4. k \in 1 .. n + 1
      BY ONLY <1>n, <1>s, k \in 1 .. Len(s) - 1
    <3> QED BY ONLY <3>1, <3>2, <3>3, <3>4, <1>n
  <2>5. ASSUME NEW k \in 1 .. Len(s), NEW m \in 1 .. Len(s), k < m PROVE s[k][2] <= s[m][1]
    <3>1. ASSUME NEW x \in 1 .. n PROVE s[x][2] <= left
      <4>1. x \in 1 .. Len(s_todo) /\ n + 1 \in 1 .. Len(s_todo) /\ x < n + 1 /\ s[x] = s_todo[x]
        BY ONLY <1>n, <1>s, x \in 1 .. n
      <4>2. s_todo[x][2] <= s_todo[n + 1][1]
        BY <4>1, <1>1 DEF SearchCalls
      <4> QED BY ONLY <4>1, <4>2, <1>w, left = Search!Last(s_todo)[1]
    <3>2. CASE m \in 1 .. n
      <4>1. k \in 1 .. n
        <5>1. k \in Nat /\ 1 <= k /\ k < m /\ m <= n /\ n \in Nat
          BY ONLY <1>n, <2>5, <3>2, <1>s
        <5> QED BY ONLY <5>1
      <4>2. k \in 1 .. Len(s_todo) /\ m \in 1 .. Len(s_todo)
        BY ONLY <1>n, <3>2, <4>1
      <4>3. s[k] = s_todo[k]
        BY ONLY <1>s, <4>1
      <4>4. s[m] = s_todo[m]
        BY ONLY <1>s, <3>2
      <4> QED BY <4>2, <4>3, <4>4, <2>5, <1>1 DEF SearchCalls
    <3>3. CASE m = n + 1
      <4>1. k \in 1 .. n /\ s[m][1] = left
        BY ONLY <1>n, <1>s, <2>5, <3>3, k \in 1 .. Len(s)
      <4> QED BY <4>1, <3>1
    <3>4. CASE m = n + 2
      <4>1. s[m][1] = middle /\ (k \in 1 .. n \/ k = n + 1)
        BY ONLY <1>n, <1>s, <2>5, <3>4, k \in 1 .. Len(s)
      <4>2. CASE k \in 1 .. n
        <5>1. s[k][2] <= left /\ s[k][2] \in Int
          <6>1. s[k] \in Search!Idx \X Search!Idx
            BY ONLY <1>s, k \in 1 .. Len(s)
          <6> QED BY ONLY <4>2, <3>1, <6>1, <1>4
        <5> QED BY ONLY <5>1, <4>1, <1>m, <1>4
      <4>3. CASE k = n + 1
        BY ONLY <4>1, <4>3, <1>s, <1>m, <1>4
      <4> QED BY <4>1, <4>2, <4>3
    <3>5. m \in 1 .. n \/ m = n + 1 \/ m = n + 2
      BY ONLY <1>n, <1>s, m \in 1 .. Len(s)
    <3> QED BY <3>2, <3>3, <3>4, <3>5
  <2>3. s # <<>>
    BY <1>s, <1>n
  <2>4. s[1][1] = 0
    <3>1. s_todo[1][1] = 0
      BY <1>1 DEF SearchCalls
    <3>2. CASE n = 0
      <4>1. s[1][1] = left /\ s_todo[1][1] = left
        BY <3>2, <1>s, <1>w
      <4> QED BY <4>1, <3>1
    <3>3. CASE n # 0
      BY <3>1, <3>3, <1>s, <1>n
    <3> QED BY <3>2, <3>3
  <2> QED BY <1>s, <2>1, <2>2, <2>3, <2>4, <2>5 DEF SearchCalls
<1>9. SearchedTo(s) = right
  <2>1. s # <<>>
    BY <1>s, <1>n
  <2> QED BY <2>1, <1>s DEF SearchedTo
<1>10. EndsMeasured(q, s)
  <2>1. \A i \in Search!Idx : s_p[i].latency >= 0 => q[i].latency >= 0
    BY <1>5, <1>6, <1>t
  <2>2. ASSUME NEW i \in Search!Idx, s_p[i].latency < 0, i # middle PROVE q[i].latency < 0
    <3>1. s_p[left].latency \in Int
      BY <1>1, <1>2 DEF Entries
    <3> QED BY <3>1, <1>3, <1>6, <2>2
  <2>3. ASSUME NEW k \in 1 .. n
        PROVE  q[s[k][1]].latency >= 0 /\ NextIs(q, s[k][1], s[k][2])
    <3> DEFINE a == s_todo[k][1]
               b == s_todo[k][2]
    <3>1. k \in 1 .. Len(s_todo) /\ s[k] = s_todo[k]
      BY <1>n, <1>s
    <3>2. s_p[a].latency >= 0 /\ NextIs(s_p, a, b) /\ a \in Search!Idx /\ b \in Search!Idx
      BY <1>1, <3>1 DEF EndsMeasured, SearchCalls
    <3> HIDE DEF a, b
    <3>3. b <= left
      <4>1. k \in 1 .. Len(s) /\ n + 1 \in 1 .. Len(s) /\ k < n + 1 /\ s[n + 1][1] = left
        BY ONLY <1>n, <1>s, k \in 1 .. n
      <4>2. s[k][2] <= s[n + 1][1]
        BY ONLY <4>1, <1>8, Zenon DEF SearchCalls
      <4> QED BY <4>1, <4>2, <3>1 DEF b
    <3>4. ASSUME NEW i \in Search!Idx, a < i, i < b PROVE q[i].latency < 0
      <4>1. s_p[i].latency < 0
        BY <3>2, <3>4 DEF NextIs
      <4>2. i # middle
        BY ONLY <3>2, <3>3, <3>4, <1>m, <1>4, i \in Search!Idx
      <4> QED BY <4>1, <4>2, <2>2
    <3>5. q[a].latency >= 0 /\ NextIs(q, a, b)
      BY <3>2, <3>4, <2>1 DEF NextIs
    <3> QED BY <3>1, <3>5 DEF a, b
  <2>4. q[left].latency >= 0 /\ q[middle].latency >= 0 /\ q[right].latency >= 0
    <3>1. s_p[right].latency >= 0
      BY <1>3 DEF NextIs
    <3> QED BY ONLY <1>2, <1>3, <1>6, <1>t, <2>1, <3>1
  <2>5. NextIs(q, left, middle)
    <3>1. ASSUME NEW i \in Search!Idx, left < i, i < middle PROVE q[i].latency < 0
      <4>1. i < right /\ i # middle
        BY ONLY <3>1, <1>2, <1>4, <1>m, i \in Search!Idx
      <4>2. s_p[i].latency < 0
        BY <3>1, <4>1, <1>3 DEF NextIs
      <4> QED BY <4>1, <4>2, <2>2
    <3> QED BY <1>m, <2>4, <3>1 DEF NextIs
  <2>6. NextIs(q, middle, right)
    <3>1. ASSUME NEW i \in Search!Idx, middle < i, i < right PROVE q[i].latency < 0
      <4>1. left < i /\ i # middle
        BY ONLY <3>1, <1>2, <1>4, <1>m, i \in Search!Idx
      <4>2. s_p[i].latency < 0
        BY <3>1, <4>1, <1>3 DEF NextIs
      <4> QED BY <4>1, <4>2, <2>2
    <3> QED BY <1>m, <2>4, <3>1 DEF NextIs
  <2>7. ASSUME NEW k \in 1 .. Len(s)
        PROVE  q[s[k][1]].latency >= 0 /\ NextIs(q, s[k][1], s[k][2])
    <3>1. k \in 1 .. n \/ k = n + 1 \/ k = n + 2
      BY ONLY <1>n, <1>s, k \in 1 .. Len(s)
    <3>2. CASE k = n + 1
      <4>1. s[k][1] = left /\ s[k][2] = middle
        BY ONLY <3>2, <1>s
      <4> QED BY <4>1, <2>4, <2>5
    <3>3. CASE k = n + 2
      <4>1. s[k][1] = middle /\ s[k][2] = right
        BY ONLY <3>3, <1>s
      <4> QED BY <4>1, <2>4, <2>6
    <3> QED BY <3>1, <3>2, <3>3, <2>3
  <2> QED BY <2>7 DEF EndsMeasured
<1> QED BY <1>6, <1>7, <1>8, <1>9, <1>10

\* A call of search(), whether it goes on or not.
LEMMA SearchKeeps ==
  ASSUME SearchSizes, SearchInv, Search!Search
  PROVE  SearchInv'
<1> DEFINE left == Search!Last(s_todo)[1]
           right == Search!Last(s_todo)[2]
           middle == left + (right - left) \div 2
           e == Search!Compare(left, right)
<1>1. s_pc = "search" /\ s_todo # <<>> /\ UNCHANGED <<s_pc, s_start, s_levels>>
  BY DEF Search!Search
<1>2. Searching /\ Growing'
  BY <1>1 DEF SearchInv, Growing
<1>3. \/ /\ middle # left
         /\ s_todo' = Search!Front(s_todo) \o <<<<left, middle>>, <<middle, right>>>>
         /\ \E t \in SearchLatencies : s_p' = [s_p EXCEPT ![left] = e, ![middle].latency = t]
      \/ /\ ~ (middle # left /\ (Search!Greater(e.ratio, 135, 100) \/ Search!Less(e.ratio, 97, 100)))
         /\ s_todo' = Search!Front(s_todo) /\ s_p' = [s_p EXCEPT ![left] = e]
  BY Zenon DEF Search!Search
<1>4. s_p' \in [Search!Idx -> Entries] /\ SearchCalls(s_todo') /\ EndsMeasured(s_p', s_todo') /\ Refined(s_p', SearchedTo(s_todo'))
  <2>1. CASE /\ middle # left
             /\ s_todo' = Search!Front(s_todo) \o <<<<left, middle>>, <<middle, right>>>>
             /\ \E t \in SearchLatencies : s_p' = [s_p EXCEPT ![left] = e, ![middle].latency = t]
    <3>1. PICK t \in SearchLatencies : s_p' = [s_p EXCEPT ![left] = e, ![middle].latency = t]
      BY <2>1
    <3> HIDE DEF left, right, middle, e
    <3>2. /\ left = Search!Last(s_todo)[1] /\ right = Search!Last(s_todo)[2]
          /\ middle = left + (right - left) \div 2 /\ e = Search!Compare(left, right)
      BY Zenon DEF left, right, middle, e
    <3>3. s_p' = SearchStored(left, e, middle, t) /\ s_todo' = TwoCalls(Search!Front(s_todo), left, middle, right)
      BY <2>1, <3>1, Zenon DEF SearchStored, TwoCalls
    <3>4. middle # left /\ s_todo # <<>> /\ Searching /\ SearchSizes
      BY <1>1, <1>2, <2>1
    <3> QED BY ONLY t \in SearchLatencies, <3>2, <3>3, <3>4, SplitCall
  <2>2. CASE /\ ~ (middle # left /\ (Search!Greater(e.ratio, 135, 100) \/ Search!Less(e.ratio, 97, 100)))
             /\ s_todo' = Search!Front(s_todo) /\ s_p' = [s_p EXCEPT ![left] = e]
    <3> HIDE DEF left, right, middle, e
    <3>1. /\ left = Search!Last(s_todo)[1] /\ right = Search!Last(s_todo)[2]
          /\ middle = left + (right - left) \div 2 /\ e = Search!Compare(left, right)
      BY Zenon DEF left, right, middle, e
    <3>2. /\ s_p' \in [Search!Idx -> Entries] /\ SearchCalls(Search!Front(s_todo)) /\ EndsMeasured(s_p', Search!Front(s_todo))
          /\ Refined(s_p', SearchedTo(Search!Front(s_todo)))
      BY <1>1, <1>2, <2>2, <3>1, StopKeeps, Zenon
    <3> QED BY <2>2, <3>2
  <2> QED BY <1>3, <2>1, <2>2
<1>5. Searching'
  BY <1>4 DEF Searching
<1> QED BY <1>1, <1>2, <1>5 DEF SearchInv

\* The last call returns.
LEMMA SearchReturnsKeeps ==
  ASSUME SearchSizes, SearchInv, Search!SearchReturns
  PROVE  SearchInv'
  BY DEF Search!SearchReturns, SearchInv, Searching, Growing

\* find_cache() returns a size it has looked at, or none.
LEMMA FoundCache ==
  ASSUME SearchSizes, NEW first \in Nat, NEW i, i = Search!find_cache(first)
  PROVE  i = -1 \/ (i \in Search!Idx /\ first <= i)
<1> DEFINE above(k)  == s_p[k].latency >= 0 /\ Search!Greater(s_p[k].ratio, 3, 2)
           upto(k)   == {j \in first .. k : above(j)}
           stops(k)  == /\ s_p[k].latency >= 0 /\ upto(k) # {}
                        /\ Search!LenOf(Search!Max(upto(k))) * 2 <= Search!LenOf(k)
           found     == {k \in first .. NSamples - 1 : stops(k)}
<1>1. i = IF found = {} THEN -1 ELSE Search!Max(upto(Search!Min(found)))
  BY Zenon DEF Search!find_cache
<1>2. CASE found # {}
  <2>0. NSamples \in Nat
    BY DEF SearchSizes
  <2>1. found \subseteq Nat
    BY <2>0
  <2>2. Search!Min(found) \in found
    <3> HIDE DEF found
    <3> QED BY <1>2, <2>1, LeastIn
  <2>3. Search!Min(found) \in first .. NSamples - 1 /\ upto(Search!Min(found)) # {}
    <3> DEFINE m == Search!Min(found)
    <3>1. m \in found
      BY <2>2
    <3> HIDE DEF m
    <3>2. m \in first .. NSamples - 1 /\ upto(m) # {}
      BY <3>1
    <3> QED BY <3>2 DEF m
  <2> DEFINE u == upto(Search!Min(found))
             w == Search!Min(found)
  <2>4. u \subseteq first .. w
    OBVIOUS
  <2>5. w \in first .. NSamples - 1 /\ u # {}
    BY <2>3
  <2>6. i = Search!Max(u)
    BY <1>1, <1>2, Zenon
  <2> HIDE DEF u, w, found, upto, stops, above
  <2>7. w \in Nat /\ u \subseteq 0 .. w
    BY ONLY <2>0, <2>4, <2>5, first \in Nat
  <2>8. Search!Max(u) \in u
    BY ONLY <2>5, <2>7, GreatestIn
  <2>9. Search!Max(u) \in first .. w
    BY ONLY <2>8, <2>4
  <2> QED BY ONLY <2>0, <2>5, <2>6, <2>9, first \in Nat DEF Search!Idx
<1>3. CASE found = {}
  <2> HIDE DEF found
  <2> QED BY <1>1, <1>3
<1> QED BY <1>2, <1>3

\* main() takes a level, which is behind the one before, or has found them all.
LEMMA LevelKeeps ==
  ASSUME SearchSizes, SearchInv, Search!FindLevel
  PROVE  SearchInv'
<1> DEFINE i == Search!find_cache(s_start)
           next == IF Search!Legal(i) THEN i ELSE i + 1
<1>1. s_pc = "levels" /\ UNCHANGED <<s_p, s_todo>>
  BY DEF Search!FindLevel
<1>2. \/ s_pc' = "done" /\ UNCHANGED <<s_start, s_levels>>
      \/ /\ ~ (i < 0) /\ ~ (next >= NSamples) /\ s_pc' = s_pc
         /\ s_levels' = Append(s_levels, next) /\ s_start' = next + 1
  BY Zenon DEF Search!FindLevel
<1>3. Searching' /\ s_todo' = <<>>
  BY <1>1 DEF SearchInv, Searching
<1>4. Growing
  BY DEF SearchInv
<1>5. CASE s_pc' = "done" /\ UNCHANGED <<s_start, s_levels>>
  <2>1. Growing'
    BY <1>4, <1>5 DEF Growing
  <2> QED BY <1>3, <1>5, <2>1 DEF SearchInv
<1>6. CASE /\ ~ (i < 0) /\ ~ (next >= NSamples) /\ s_pc' = s_pc
           /\ s_levels' = Append(s_levels, next) /\ s_start' = next + 1
  <2>1. NSamples \in Nat /\ s_start \in Nat /\ s_levels \in Seq(Search!Idx) /\ Len(s_levels) \in Nat
    BY <1>4 DEF SearchSizes, Growing
  <2>2. i = -1 \/ (i \in Search!Idx /\ s_start <= i)
    BY <2>1, FoundCache
  <2> HIDE DEF i
  <2>3. i \in Nat /\ s_start <= i
    BY <1>6, <2>1, <2>2 DEF Search!Idx
  <2>4. next \in Search!Idx /\ s_start <= next /\ Search!Legal(next)
    <3>1. next \in {i, i + 1} /\ Search!Legal(next)
      <4>1. ASSUME NEW x \in Nat, ~ Search!Legal(x) PROVE Search!Legal(x + 1)
        BY <4>1 DEF Search!Legal
      <4> QED BY <2>3, <4>1
    <3>2. ~ (next >= NSamples)
      BY <1>6
    <3> HIDE DEF next
    <3> QED BY ONLY <2>1, <2>3, <3>1, <3>2 DEF Search!Idx
  <2> HIDE DEF next
  <2>5. /\ s_levels' \in Seq(Search!Idx) /\ Len(s_levels') = Len(s_levels) + 1
        /\ s_levels'[Len(s_levels) + 1] = next
        /\ \A n \in 1 .. Len(s_levels) : s_levels'[n] = s_levels[n]
    BY ONLY <1>6, <2>1, <2>4
  <2>6. s_start' \in 0 .. NSamples /\ s_start < s_start'
    BY ONLY <1>6, <2>1, <2>4 DEF Search!Idx
  <2>7. Len(s_levels') <= s_start'
    BY ONLY <2>1, <2>5, <2>6, <1>4 DEF Growing
  <2>8. ASSUME NEW n \in 1 .. Len(s_levels') PROVE s_levels'[n] < s_start' /\ Search!Legal(s_levels'[n])
    <3>1. CASE n \in 1 .. Len(s_levels)
      <4>1. s_levels[n] < s_start /\ Search!Legal(s_levels[n]) /\ s_levels[n] \in Int
        BY <3>1, <1>4, <2>1 DEF Growing, Search!Idx
      <4> QED BY ONLY <3>1, <4>1, <2>1, <2>5, <2>6
    <3>2. CASE n = Len(s_levels) + 1
      BY ONLY <3>2, <1>6, <2>1, <2>4, <2>5 DEF Search!Idx
    <3> QED BY ONLY <3>1, <3>2, <2>1, <2>5, n \in 1 .. Len(s_levels')
  <2>9. ASSUME NEW n \in 2 .. Len(s_levels') PROVE s_levels'[n - 1] < s_levels'[n]
    <3>1. CASE n \in 2 .. Len(s_levels)
      <4>1. s_levels[n - 1] < s_levels[n] /\ n - 1 \in 1 .. Len(s_levels) /\ n \in 1 .. Len(s_levels)
        BY <3>1, <1>4, <2>1 DEF Growing
      <4> QED BY ONLY <4>1, <2>5
    <3>2. CASE n = Len(s_levels) + 1
      <4>1. n - 1 \in 1 .. Len(s_levels)
        BY ONLY <3>2, <2>1, n \in 2 .. Len(s_levels'), <2>5
      <4>2. s_levels[n - 1] < s_start /\ s_levels[n - 1] \in Int
        BY <4>1, <1>4, <2>1 DEF Growing, Search!Idx
      <4>3. s_levels'[n - 1] = s_levels[n - 1] /\ s_levels'[n] = next
        BY ONLY <3>2, <4>1, <2>5
      <4>4. next \in Int
        BY <2>1, <2>4 DEF Search!Idx
      <4> QED BY ONLY <4>2, <4>3, <4>4, <2>1, <2>4
    <3> QED BY ONLY <3>1, <3>2, <2>1, <2>5, n \in 2 .. Len(s_levels')
  <2>10. Growing'
    BY <2>5, <2>6, <2>7, <2>8, <2>9 DEF Growing
  <2> QED BY <1>1, <1>3, <1>6, <2>10 DEF SearchInv
<1> QED BY <1>2, <1>5, <1>6

\* Every step.
LEMMA SearchInvKeeps ==
  ASSUME SearchSizes, SearchInv, [Search!Next]_(Search!vars)
  PROVE  SearchInv'
<1>1. CASE UNCHANGED Search!vars
  BY <1>1 DEF Search!vars, SearchInv, Searching, Growing
<1> QED BY <1>1, CollectDataKeeps, SearchKeeps, SearchReturnsKeeps, LevelKeeps DEF Search!Next

-----------------------------------------------------------------------------
\* The next measured size is what NextIs says it is.
LEMMA AfterIs ==
  ASSUME SearchSizes, s_p \in [Search!Idx -> Entries], NEW i \in Search!Idx, NEW j \in Search!Idx, NextIs(s_p, i, j)
  PROVE  Search!After(i) = j
<1> DEFINE S == {m \in Search!Measured : m > i}
<1>1. Search!Idx \subseteq Nat
  BY DEF Search!Idx, SearchSizes
<1>2. j \in S /\ S \subseteq Nat
  BY <1>1 DEF Search!Measured, NextIs
<1>3. Search!Min(S) \in S /\ \A y \in S : Search!Min(S) <= y
  <2> HIDE DEF S
  <2> QED BY <1>2, LeastIn
<1> DEFINE m == Search!Min(S)
<1>4. m \in Search!Idx /\ m > i /\ s_p[m].latency >= 0 /\ m <= j
  <2>1. m \in S /\ m <= j
    BY <1>2, <1>3
  <2> HIDE DEF m
  <2> QED BY <2>1 DEF Search!Measured
<1> HIDE DEF m, S
<1>5. ~ (m < j)
  <2>1. s_p[m].latency \in Int
    BY <1>4 DEF Entries
  <2> QED BY <1>4, <2>1 DEF NextIs
<1>6. m = j
  BY ONLY <1>1, <1>4, <1>5, j \in Search!Idx
<1> QED BY <1>6 DEF m, S, Search!After

\* Nothing is left to be searched: all of the array is refined.
LEMMA RefinedImplied ==
  ASSUME SearchSizes, SearchInv
  PROVE  Search!StepsRefined
<1> SUFFICES ASSUME s_pc \in {"levels", "done"}, NEW i \in Search!Measured \ {NSamples - 1},
                    s_p[i].latency > 0
             PROVE  /\ s_p[i].ratio[1] * s_p[i].latency = s_p[Search!After(i)].latency * s_p[i].ratio[2]
                    /\ 100 * s_p[Search!After(i)].latency > 135 * s_p[i].latency => Search!After(i) = i + 1
  BY Zenon DEF Search!StepsRefined
<1>1. Searching /\ s_todo = <<>>
  BY DEF SearchInv
<1>2. s_p \in [Search!Idx -> Entries] /\ Refined(s_p, 0)
  BY <1>1 DEF Searching, SearchedTo
<1>3. i \in Search!Idx /\ 0 <= i /\ i # NSamples - 1 /\ s_p[i].latency >= 0
  BY DEF Search!Measured, Search!Idx
<1>4. PICK j \in Search!Idx : NextIs(s_p, i, j) /\ RefinedTo(s_p, i, j)
  BY <1>2, <1>3 DEF Refined
<1>5. Search!After(i) = j
  BY <1>2, <1>3, <1>4, AfterIs
<1> QED BY <1>4, <1>5 DEF RefinedTo

\* The size whose latency is printed is not behind the level.
LEMMA FlattestWithin ==
  ASSUME NEW a \in Nat, NEW b \in Nat, a <= b, NEW n, s_levels[n] = b,
         a = IF n = 1 THEN 0 ELSE s_levels[n - 1] + 1
  PROVE  Search!LatencyOf(n) \in a .. b
<1> DEFINE N == b - a
           S == a .. b
           Step(q, x) == IF x \in 1 .. N THEN Search!Flatter(q, a + x - 1) ELSE q
           F == [c \in S \X Nat |-> Step(c[1], c[2])]
           Def(f) == [x \in 0 .. N |-> IF x = 0 THEN a ELSE Search!Flatter(f[x - 1], a + x - 1)]
           after == CHOOSE f : f = Def(f)
<1>n. N \in Nat
  OBVIOUS
<1> HIDE DEF Step
<1>0. \A q \in S, x \in 1 .. N : Search!Flatter(q, a + x - 1) \in S
  <2> SUFFICES ASSUME NEW q \in S, NEW x \in 1 .. N PROVE Search!Flatter(q, a + x - 1) \in S
    BY Zenon
  <2>1. a + x - 1 \in S
    OBVIOUS
  <2> HIDE DEF S
  <2> QED BY <2>1 DEF Search!Flatter
<1>s. a \in S
  OBVIOUS
<1>e. Search!LatencyOf(n) = after[N]
  <2> HIDE DEF Def
  <2>1. Search!LatencyOf(n) = (CHOOSE f : f = Def(f))[N]
    BY Zenon DEF Search!LatencyOf, Def
  <2> QED BY <2>1
<1> HIDE DEF S
<1>1. F \in [S \X Nat -> S]
  BY <1>0 DEF Step
<1> HIDE DEF F
<1>2. PICK g \in [0 .. N -> S] : g[0] = a /\ \A m \in 1 .. N : g[m] = F[<<g[m - 1], m>>]
  <2>1. \A k \in Nat : \E g \in [0 .. k -> S] : Iterates(g, F, a, k)
    BY ONLY <1>1, <1>s, LoopExists, Zenon
  <2> HIDE DEF N
  <2> QED BY ONLY <2>1, <1>n, Zenon DEF Iterates
<1> HIDE DEF N
<1>3. ASSUME NEW m \in 1 .. N PROVE g[m] = Search!Flatter(g[m - 1], a + m - 1)
  <2>1. g[m - 1] \in S
    BY <1>n
  <2>2. F[<<g[m - 1], m>>] = Step(g[m - 1], m)
    BY <2>1, <1>n DEF F
  <2> QED BY <2>2, <1>2 DEF Step
<1>4. g = Def(g)
  <2>1. g = [x \in 0 .. N |-> g[x]]
    OBVIOUS
  <2>2. ASSUME NEW x \in 0 .. N
        PROVE  g[x] = IF x = 0 THEN a ELSE Search!Flatter(g[x - 1], a + x - 1)
    <3>1. CASE x = 0
      BY <3>1, <1>2, Zenon
    <3>2. CASE x # 0
      <4>1. x \in 1 .. N
        BY <3>2, <1>n
      <4> QED BY <4>1, <3>2, <1>3, Zenon
    <3> QED BY <3>1, <3>2
  <2> QED BY <2>1, <2>2, Zenon
<1> HIDE DEF Def
<1>5. after = Def(after)
  BY <1>4
<1> HIDE DEF after
<1> DEFINE T == {x \in Nat : x \in 0 .. N => after[x] \in S}
<1>6. 0 \in T
  BY <1>5, <1>s, <1>n DEF Def
<1>7. ASSUME NEW x \in Nat, x \in T PROVE x + 1 \in T
  <2> SUFFICES ASSUME x + 1 \in 0 .. N PROVE after[x + 1] \in S
    OBVIOUS
  <2>1. after[x] \in S
    BY <1>7, <1>n
  <2>2. after[x + 1] = Search!Flatter(after[x], a + (x + 1) - 1)
    <3>1. x + 1 \in 0 .. N /\ x + 1 # 0 /\ (x + 1) - 1 = x
      BY <1>n
    <3>2. after[x + 1] = IF x + 1 = 0 THEN a
                         ELSE Search!Flatter(after[(x + 1) - 1], a + (x + 1) - 1)
      BY <1>5, <3>1, Zenon DEF Def
    <3>3. after[x + 1] = Search!Flatter(after[(x + 1) - 1], a + (x + 1) - 1)
      BY <3>2, <3>1, Zenon
    <3> QED BY <3>3, <3>1
  <2>3. x + 1 \in 1 .. N
    BY <1>n
  <2> QED BY <2>1, <2>2, <2>3, <1>0, Zenon
<1> HIDE DEF T
<1>8. \A x \in Nat : x \in T
  BY <1>6, <1>7, SetInduction
<1>9. after[N] \in S
  BY <1>8, <1>n DEF T
<1> QED BY <1>9, <1>e DEF S

\* The levels grow, and the size a latency is taken from is not behind its level.
LEMMA LevelsImplied ==
  ASSUME SearchSizes, SearchInv
  PROVE  Search!TypeOK /\ Search!LevelsGrow
<1>1. Growing /\ s_pc \in {"collect", "search", "levels", "done", "lost"}
  BY DEF SearchInv
<1>2. s_start \in Nat /\ s_levels \in Seq(Search!Idx) /\ Len(s_levels) \in Nat /\ Search!Idx \subseteq Nat
      /\ NSamples \in Nat
  BY <1>1 DEF Growing, Search!Idx, SearchSizes
<1>3. Search!TypeOK
  BY <1>1, <1>2 DEF Search!TypeOK, Growing
<1>4. \A n \in 1 .. Len(s_levels) : s_levels[n] \in Search!Idx /\ Search!Legal(s_levels[n])
  BY <1>1, <1>2 DEF Growing
<1>5. \A n \in 2 .. Len(s_levels) : s_levels[n - 1] < s_levels[n]
  BY <1>1 DEF Growing
<1>6. ASSUME NEW n \in 1 .. Len(s_levels) PROVE Search!LatencyOf(n) <= s_levels[n]
  <2> DEFINE a == IF n = 1 THEN 0 ELSE s_levels[n - 1] + 1
             b == s_levels[n]
  <2>1. b \in Nat
    BY <1>2, <1>4
  <2>2. a \in Nat /\ a <= b
    <3>1. CASE n = 1
      BY <2>1, <3>1
    <3>2. CASE n # 1
      <4>1. n - 1 \in 1 .. Len(s_levels) /\ n \in 2 .. Len(s_levels)
        BY <3>2, <1>2
      <4>2. s_levels[n - 1] \in Nat /\ s_levels[n - 1] < s_levels[n]
        BY <4>1, <1>2, <1>4, <1>5
      <4> QED BY <2>1, <3>2, <4>2
    <3> QED BY <3>1, <3>2
  <2>3. a = IF n = 1 THEN 0 ELSE s_levels[n - 1] + 1
    OBVIOUS
  <2>4. s_levels[n] = b
    OBVIOUS
  <2> HIDE DEF a, b
  <2>5. Search!LatencyOf(n) \in a .. b
    BY <2>1, <2>2, <2>3, <2>4, FlattestWithin
  <2> QED BY ONLY <2>1, <2>2, <2>4, <2>5
<1> QED BY <1>3, <1>4, <1>5, <1>6 DEF Search!LevelsGrow

-----------------------------------------------------------------------------
(* cache.c, the pages.  Every exchange keeps the list of pages a list of   *)
(* all of them, as long as it happens inside the list: the chunks of the   *)
(* calls on the stack are, and so is the page a spare one replaces.        *)
CONSTANTS
    NTotal, CacheLine, CachePage, ChunkMax, Repeats, PageReadings, Samples,
    SizeofInt, SizeofSize

VARIABLES
    c_pages, c_mem, c_pc, c_len, c_npages, c_baseline, c_again, c_stack,
    c_fix, c_avail, c_walked, c_want

Pages == INSTANCE CachePages WITH
    NTotal <- NTotal, Line <- CacheLine, Page <- CachePage,
    ChunkMax <- ChunkMax, Repeats <- Repeats, Readings <- PageReadings,
    Samples <- Samples, SizeofInt <- SizeofInt, SizeofSize <- SizeofSize,
    pages <- c_pages, mem <- c_mem, pc <- c_pc, len <- c_len,
    npages <- c_npages, baseline <- c_baseline, again <- c_again,
    stack <- c_stack, fix <- c_fix, avail <- c_avail, walked <- c_walked,
    want <- c_want

\* Chunks of at least a page, and page numbers no longer than an int: see
\* BackOut, which would not restore all of them.
PagesSizes ==
    /\ NTotal \in Nat /\ ChunkMax \in Nat \ {0} /\ PageReadings \subseteq Nat
    /\ SizeofSize \in Nat \ {0} /\ SizeofInt \in Nat /\ SizeofInt >= SizeofSize
ASSUME PagesAssumption == PagesSizes

\* What measure() returns, and what it is preset to.
PageTimes == PageReadings \cup {0}
PageOffsets == {x * CachePage : x \in Pages!Array(NTotal)}
PageList == {q \in [Pages!Array(NTotal) -> PageOffsets] : Pages!Range(q) = PageOffsets}

\* An exchange of two entries loses none.
LEMMA ExchangeKeeps ==
  ASSUME NEW q \in PageList, NEW a \in Pages!Array(NTotal), NEW b \in Pages!Array(NTotal)
  PROVE  Pages!Exchange(q, a, b) \in PageList
<1> DEFINE e == Pages!Exchange(q, a, b)
<1>1. q \in [Pages!Array(NTotal) -> PageOffsets] /\ Pages!Range(q) = PageOffsets
  BY DEF PageList
<1>2. e \in [Pages!Array(NTotal) -> PageOffsets]
  BY <1>1 DEF Pages!Exchange
<1>3. e[a] = q[b] /\ e[b] = q[a] /\ \A x \in Pages!Array(NTotal) : x # a /\ x # b => e[x] = q[x]
  BY <1>1 DEF Pages!Exchange
<1> HIDE DEF e
<1>4. ASSUME NEW y \in PageOffsets PROVE \E x \in Pages!Array(NTotal) : e[x] = y
  <2>1. PICK x \in Pages!Array(NTotal) : q[x] = y
    BY <1>1 DEF Pages!Range
  <2>2. CASE x = a
    BY <2>1, <2>2, <1>3
  <2>3. CASE x = b
    BY <2>1, <2>3, <1>3
  <2>4. CASE x # a /\ x # b
    BY <2>1, <2>4, <1>3
  <2> QED BY <2>2, <2>3, <2>4
<1>5. Pages!Range(e) = PageOffsets
  BY <1>2, <1>4 DEF Pages!Range
<1> QED BY <1>2, <1>5 DEF PageList, e

\* Nor does any number of them, one after the other.
LEMMA ExchangesKeep ==
  ASSUME NEW ps \in PageList, NEW at, Len(at) \in Nat,
         \A n \in 1 .. Len(at) : at[n][1] \in Pages!Array(NTotal) /\ at[n][2] \in Pages!Array(NTotal)
  PROVE  Pages!Exchanges(ps, at) \in PageList
<1> DEFINE N == Len(at)
           S == PageList
           Step(q, n) == IF n \in 1 .. N THEN Pages!Exchange(q, at[n][1], at[n][2]) ELSE q
           F == [c \in S \X Nat |-> Step(c[1], c[2])]
           Def(f) == [n \in 0 .. N |->
                        IF n = 0 THEN ps ELSE Pages!Exchange(f[n - 1], at[n][1], at[n][2])]
           after == CHOOSE f : f = Def(f)
<1> HIDE DEF Step
<1>0. \A q \in S, n \in 1 .. N : Pages!Exchange(q, at[n][1], at[n][2]) \in S
  BY ExchangeKeeps
<1> HIDE DEF S
<1>s. ps \in S
  BY DEF S
<1>1. F \in [S \X Nat -> S]
  BY <1>0 DEF Step
<1> HIDE DEF F
<1>2. PICK g \in [0 .. N -> S] : g[0] = ps /\ \A m \in 1 .. N : g[m] = F[<<g[m - 1], m>>]
  <2>1. \A n \in Nat : \E g \in [0 .. n -> S] : Iterates(g, F, ps, n)
    BY ONLY <1>1, <1>s, LoopExists, Zenon
  <2> HIDE DEF N
  <2>2. N \in Nat
    BY DEF N
  <2> QED BY ONLY <2>1, <2>2, Zenon DEF Iterates
<1>3. ASSUME NEW m \in 1 .. N PROVE g[m] = Pages!Exchange(g[m - 1], at[m][1], at[m][2])
  <2>1. g[m - 1] \in S
    OBVIOUS
  <2>2. F[<<g[m - 1], m>>] = Step(g[m - 1], m)
    BY <2>1 DEF F
  <2> QED BY <2>2, <1>2 DEF Step
<1> HIDE DEF N
<1>4. g = Def(g)
  <2>1. g = [n \in 0 .. N |-> g[n]]
    OBVIOUS
  <2>2. ASSUME NEW n \in 0 .. N
        PROVE  g[n] = IF n = 0 THEN ps ELSE Pages!Exchange(g[n - 1], at[n][1], at[n][2])
    BY <1>2, <1>3
  <2> QED BY <2>1, <2>2, Zenon
<1> HIDE DEF Def
<1>5. after = Def(after)
  BY <1>4
<1> HIDE DEF after
<1> DEFINE T == {n \in Nat : n \in 0 .. N => after[n] \in S}
<1>6. 0 \in T
  BY <1>5, <1>s DEF Def, N
<1>7. ASSUME NEW n \in Nat, n \in T PROVE n + 1 \in T
  <2> SUFFICES ASSUME n + 1 \in 0 .. N PROVE after[n + 1] \in S
    OBVIOUS
  <2>1. after[n] \in S
    BY <1>7 DEF N
  <2>2. after[n + 1] = Pages!Exchange(after[n], at[n + 1][1], at[n + 1][2])
    BY <1>5 DEF Def, N
  <2> QED BY <2>1, <2>2, <1>0 DEF N
<1> HIDE DEF T
<1>8. \A n \in Nat : n \in T
  BY <1>6, <1>7, SetInduction
<1>9. after[N] \in S
  BY <1>8 DEF T, N
<1> QED
  BY <1>9 DEF Pages!Exchanges, after, Def, N, S

\* fixup_chunk() moves a chunk to the end by exchanges inside the list.
LEMMA MoveKeeps ==
  ASSUME NEW ps \in PageList, NEW i \in Nat, NEW chunk \in Nat, c_npages \in Nat,
         NTotal \in Nat, i + chunk <= c_npages, c_npages <= NTotal
  PROVE  Pages!MoveChunk(ps, i, chunk) \in PageList
<1> DEFINE at == [j \in 1 .. chunk |-> <<i + j - 1, c_npages - chunk + j - 1>>]
<1>1. Len(at) = chunk
  OBVIOUS
<1>2. ASSUME NEW n \in 1 .. chunk
      PROVE  at[n][1] \in Pages!Array(NTotal) /\ at[n][2] \in Pages!Array(NTotal)
  BY DEF Pages!Array
<1> HIDE DEF at
<1>3. Pages!Exchanges(ps, at) \in PageList
  BY <1>1, <1>2, ExchangesKeep
<1> QED BY <1>3 DEF Pages!MoveChunk, at

PageLatencies(n) == [Pages!Array(n) -> PageTimes]

\* A comparison of pagesort(), with the exchange it may lead to.
LEMMA SortPairKeeps ==
  ASSUME c_npages \in Nat, c_fix.chunk \in Nat, NTotal \in Nat, c_fix.chunk <= c_npages,
         c_npages <= NTotal, NEW pl \in PageList \X PageLatencies(c_fix.chunk),
         NEW a \in Pages!Array(c_fix.chunk), NEW b \in Pages!Array(c_fix.chunk)
  PROVE  Pages!SortPair(pl, a, b) \in PageList \X PageLatencies(c_fix.chunk)
<1>1. Pages!At(a) \in Pages!Array(NTotal) /\ Pages!At(b) \in Pages!Array(NTotal)
  BY DEF Pages!At, Pages!Array
<1>2. Pages!Exchange(pl[1], Pages!At(a), Pages!At(b)) \in PageList
  BY <1>1, ExchangeKeeps
<1>3. Pages!Exchange(pl[2], a, b) \in PageLatencies(c_fix.chunk)
  BY DEF Pages!Exchange, PageLatencies
<1> QED BY <1>2, <1>3 DEF Pages!SortPair

\* All of pagesort().
LEMMA SortKeeps ==
  ASSUME c_npages \in Nat, c_fix.chunk \in Nat, NTotal \in Nat, c_fix.chunk <= c_npages,
         c_npages <= NTotal, NEW ps \in PageList, NEW lat \in PageLatencies(c_fix.chunk),
         NEW j \in Nat, j <= c_fix.chunk
  PROVE  Pages!pagesort(ps, lat, j) \in PageList \X PageLatencies(c_fix.chunk)
<1> DEFINE n == c_fix.chunk - j
           N == n * n
           S == PageList \X PageLatencies(c_fix.chunk)
           A(x) == j + ((x - 1) \div n)
           B(x) == j + ((x - 1) % n)
           Step(q, x) == IF x \in 1 .. N THEN Pages!SortPair(q, A(x), B(x)) ELSE q
           F == [c \in S \X Nat |-> Step(c[1], c[2])]
           Def(f) == [x \in 0 .. N |->
                        IF x = 0 THEN <<ps, lat>> ELSE Pages!SortPair(f[x - 1], A(x), B(x))]
           after == CHOOSE f : f = Def(f)
<1>n. n \in Nat /\ N \in Nat
  OBVIOUS
<1> HIDE DEF Step
<1>0. \A q \in S, x \in 1 .. N : Pages!SortPair(q, A(x), B(x)) \in S
  <2> SUFFICES ASSUME NEW q \in S, NEW x \in 1 .. N
               PROVE  Pages!SortPair(q, A(x), B(x)) \in S
    BY Zenon
  <2>1. (x - 1) \div n \in 0 .. n - 1 /\ (x - 1) % n \in 0 .. n - 1
    BY <1>n, PairPlaces
  <2>2. A(x) \in Pages!Array(c_fix.chunk) /\ B(x) \in Pages!Array(c_fix.chunk)
    BY <2>1 DEF Pages!Array
  <2> HIDE DEF A, B
  <2> QED BY <2>2, SortPairKeeps
<1>s. <<ps, lat>> \in S
  OBVIOUS
<1> HIDE DEF S, A, B
<1>1. F \in [S \X Nat -> S]
  BY <1>0 DEF Step
<1> HIDE DEF F
<1>2. PICK g \in [0 .. N -> S] :
         g[0] = <<ps, lat>> /\ \A m \in 1 .. N : g[m] = F[<<g[m - 1], m>>]
  <2>1. \A k \in Nat : \E g \in [0 .. k -> S] : Iterates(g, F, <<ps, lat>>, k)
    BY ONLY <1>1, <1>s, LoopExists, Zenon
  <2> HIDE DEF N
  <2> QED BY ONLY <2>1, <1>n, Zenon DEF Iterates
<1> HIDE DEF N
<1>3. ASSUME NEW m \in 1 .. N PROVE g[m] = Pages!SortPair(g[m - 1], A(m), B(m))
  <2>1. g[m - 1] \in S
    BY <1>n
  <2>2. F[<<g[m - 1], m>>] = Step(g[m - 1], m)
    BY <2>1, <1>n DEF F
  <2> QED BY <2>2, <1>2 DEF Step
<1>4. g = Def(g)
  <2>1. g = [x \in 0 .. N |-> g[x]]
    OBVIOUS
  <2>2. ASSUME NEW x \in 0 .. N
        PROVE  g[x] = IF x = 0 THEN <<ps, lat>> ELSE Pages!SortPair(g[x - 1], A(x), B(x))
    <3>1. CASE x = 0
      BY <3>1, <1>2, Zenon
    <3>2. CASE x # 0
      <4>1. x \in 1 .. N
        BY <3>2, <1>n
      <4> QED BY <4>1, <3>2, <1>3, Zenon
    <3> QED BY <3>1, <3>2
  <2> QED BY <2>1, <2>2, Zenon
<1> HIDE DEF Def
<1>5. after = Def(after)
  BY <1>4
<1> HIDE DEF after
<1> DEFINE T == {x \in Nat : x \in 0 .. N => after[x] \in S}
<1>6. 0 \in T
  BY <1>5, <1>s, <1>n DEF Def
<1>7. ASSUME NEW x \in Nat, x \in T PROVE x + 1 \in T
  <2> SUFFICES ASSUME x + 1 \in 0 .. N PROVE after[x + 1] \in S
    OBVIOUS
  <2>1. after[x] \in S
    BY <1>7, <1>n
  <2>2. after[x + 1] = Pages!SortPair(after[x], A(x + 1), B(x + 1))
    <3>1. x + 1 \in 0 .. N /\ x + 1 # 0 /\ (x + 1) - 1 = x
      BY <1>n
    <3>2. after[x + 1] = IF x + 1 = 0 THEN <<ps, lat>>
                         ELSE Pages!SortPair(after[(x + 1) - 1], A(x + 1), B(x + 1))
      BY <1>5, <3>1, Zenon DEF Def
    <3>3. after[x + 1] = Pages!SortPair(after[(x + 1) - 1], A(x + 1), B(x + 1))
      BY <3>2, <3>1, Zenon
    <3> QED BY <3>3, <3>1
  <2> QED BY <2>1, <2>2, <1>0, <1>n
<1> HIDE DEF T
<1>8. \A x \in Nat : x \in T
  BY <1>6, <1>7, SetInduction
<1>9. after[N] \in S
  BY <1>8, <1>n DEF T
<1> QED
  BY <1>9, Zenon DEF Pages!pagesort, after, Def, N, S, A, B

\* The calls of test_chunk(): their chunks and subchunks are inside the list, and
\* every call but the last waits for the answer about its subchunk.
TestFrames == [i : Nat, chunk : Nat, j : Nat, sub : Nat, nodiff : PageTimes, t : PageTimes,
               modified : BOOLEAN]
ChunkWithin(f, np) ==
    /\ f.i + f.chunk <= np /\ 1 <= f.chunk /\ 1 <= f.sub
    /\ f.i <= f.j /\ f.j <= f.i + f.chunk
Calling(f) == f.j + f.sub <= f.i + f.chunk
Called(s, np) ==
    /\ s \in Seq(TestFrames)
    /\ \A k \in 1 .. Len(s) : ChunkWithin(s[k], np)
    /\ \A k \in 1 .. Len(s) : k < Len(s) => Calling(s[k])
StackOK ==
    /\ Called(c_stack, c_npages)
    /\ c_pc = "sample" <=> c_stack = <<>>
    /\ c_pc \notin {"sample", "test"} => Calling(Pages!Top)

\* The variables of fixup_chunk().
FixOK ==
    /\ c_fix \in [i : Nat, chunk : Nat, goal : PageTimes, j : Nat, k : Nat,
                  lat : PageLatencies(c_fix.chunk), saved : PageList, swapped : Nat]
    /\ c_fix.i + c_fix.chunk <= c_npages /\ 1 <= c_fix.chunk
    /\ c_fix.j <= c_fix.chunk
    /\ c_pc = "keep" => c_fix.j <= c_fix.k /\ c_fix.k <= c_fix.chunk
PagesInv ==
    /\ c_pc \in {"sample", "test", "call", "keep", "replace"}
    /\ c_pages \in PageList
    /\ c_npages \in Nat /\ (c_pc # "sample" => c_npages + 2 <= NTotal)
    /\ c_baseline \in PageTimes
    /\ c_avail \in Nat
    /\ StackOK
    /\ c_pc \in {"keep", "replace"} => FixOK

\* The pages are in order.
LEMMA PagesBegin ==
  ASSUME PagesSizes, Pages!Init
  PROVE  PagesInv
<1>1. c_pages \in PageList
  <2>1. c_pages \in [Pages!Array(NTotal) -> PageOffsets]
    BY DEF Pages!Init, PageOffsets
  <2>2. Pages!Range(c_pages) = PageOffsets
    BY DEF Pages!Init, PageOffsets, Pages!Range
  <2> QED BY <2>1, <2>2 DEF PageList
<1> QED BY <1>1 DEF PagesInv, PagesSizes, Pages!Init, StackOK, Called, PageTimes

\* A rounded-up quotient of a positive number is positive.
LEMMA RoundUpPositive ==
  ASSUME NEW n \in Nat \ {0}, NEW u \in Nat \ {0}
  PROVE  Pages!RoundUp(n, u) \in Nat \ {0}
<1> DEFINE x == n + u - 1
           q == x \div u
<1>1. x \in Nat /\ x >= u
  OBVIOUS
<1>2. q \in Nat /\ x < q * u + u
  BY <1>1, DivMod
<1> HIDE DEF q, x
<1>3. q # 0
  BY <1>1, <1>2
<1> QED BY <1>2, <1>3 DEF q, x, Pages!RoundUp

\* A call of test_chunk() for a chunk inside the list.
LEMMA FrameFits ==
  ASSUME PagesSizes, NEW i \in Nat, NEW c \in Nat, NEW b \in PageTimes, NEW np \in Nat,
         1 <= c, i + c <= np
  PROVE  Pages!Frame(i, c, b) \in TestFrames /\ ChunkWithin(Pages!Frame(i, c, b), np)
<1>1. Pages!RoundUp(c, ChunkMax) \in Nat \ {0}
  BY RoundUpPositive DEF PagesSizes
<1>2. 0 \in PageTimes
  BY DEF PageTimes
<1> QED BY <1>1, <1>2 DEF Pages!Frame, TestFrames, ChunkWithin

\* The stack after a call and after a return.
LEMMA PushFrame ==
  ASSUME NEW np, NEW s, Called(s, np), NEW f \in TestFrames, ChunkWithin(f, np),
         s = <<>> \/ Calling(s[Len(s)])
  PROVE  Called(Append(s, f), np) /\ Append(s, f) # <<>>
         /\ Append(s, f)[Len(Append(s, f))] = f
<1>1. s \in Seq(TestFrames) /\ Len(s) \in Nat
  BY DEF Called
<1> DEFINE z == Append(s, f)
<1>2. z \in Seq(TestFrames) /\ Len(z) = Len(s) + 1 /\ z[Len(z)] = f
      /\ \A k \in 1 .. Len(s) : z[k] = s[k]
  BY <1>1
<1> HIDE DEF z
<1>3. \A k \in 1 .. Len(z) : ChunkWithin(z[k], np)
  BY <1>1, <1>2 DEF Called
<1>4. \A k \in 1 .. Len(z) : k < Len(z) => Calling(z[k])
  <2> SUFFICES ASSUME NEW k \in 1 .. Len(z), k < Len(z) PROVE Calling(z[k])
    OBVIOUS
  <2>1. k \in 1 .. Len(s) /\ z[k] = s[k]
    BY <1>1, <1>2
  <2>2. CASE k < Len(s)
    BY <2>1, <2>2 DEF Called
  <2>3. CASE k = Len(s)
    BY <2>1, <2>3, <1>1
  <2> QED BY <2>1, <2>2, <2>3, <1>1
<1>5. z # <<>>
  BY <1>1, <1>2
<1> QED BY <1>2, <1>3, <1>4, <1>5 DEF Called, z

\* The last call, and the calls before it.
LEMMA TopIn ==
  ASSUME NEW np, NEW s, Called(s, np), s # <<>>
  PROVE  /\ Len(s) \in Nat \ {0} /\ s[Len(s)] \in TestFrames /\ ChunkWithin(s[Len(s)], np)
         /\ Called(Pages!Front(s), np) /\ Len(Pages!Front(s)) = Len(s) - 1
         /\ \A k \in 1 .. Len(s) - 1 : Pages!Front(s)[k] = s[k] /\ Calling(s[k])
<1>1. s \in Seq(TestFrames) /\ Len(s) \in Nat /\ Len(s) # 0
  BY DEF Called
<1> DEFINE z == Pages!Front(s)
<1>2. z = [k \in 1 .. Len(s) - 1 |-> s[k]]
  BY <1>1 DEF Pages!Front
<1>3. z \in Seq(TestFrames) /\ Len(z) = Len(s) - 1
      /\ \A k \in 1 .. Len(s) - 1 : z[k] = s[k]
  BY <1>1, <1>2
<1> HIDE DEF z
<1>4. Called(z, np)
  BY <1>1, <1>3 DEF Called
<1>5. s[Len(s)] \in TestFrames /\ ChunkWithin(s[Len(s)], np)
  BY <1>1 DEF Called
<1>6. \A k \in 1 .. Len(s) - 1 : Calling(s[k])
  BY <1>1 DEF Called
<1> QED BY <1>1, <1>3, <1>4, <1>5, <1>6 DEF z

\* The last call has gone on.
LEMMA ChangeTop ==
  ASSUME NEW np, NEW s, Called(s, np), s # <<>>, NEW f \in TestFrames, ChunkWithin(f, np),
         NEW z, z = [s EXCEPT ![Len(s)] = f]
  PROVE  Called(z, np) /\ z # <<>> /\ Len(z) = Len(s) /\ z[Len(z)] = f
<1>1. s \in Seq(TestFrames) /\ Len(s) \in Nat \ {0}
  BY TopIn DEF Called
<1>2. /\ z \in Seq(TestFrames) /\ Len(z) = Len(s)
      /\ \A k \in 1 .. Len(s) : z[k] = IF k = Len(s) THEN f ELSE s[k]
  BY <1>1
<1>3. Called(z, np)
  <2>1. \A k \in 1 .. Len(z) : ChunkWithin(z[k], np)
    BY <1>1, <1>2 DEF Called
  <2>2. ASSUME NEW k \in 1 .. Len(z), k < Len(z) PROVE Calling(z[k])
    <3>1. k \in 1 .. Len(s) /\ k < Len(s) /\ z[k] = s[k]
      <4>1. k \in 1 .. Len(s) /\ k < Len(s) /\ k # Len(s)
        BY ONLY <1>1, <1>2, <2>2, k \in 1 .. Len(z)
      <4> QED BY ONLY <4>1, <1>2
    <3>2. Calling(s[k])
      BY <3>1 DEF Called
    <3> QED BY <3>1, <3>2
  <2> QED BY <1>2, <2>1, <2>2 DEF Called
<1>4. z # <<>> /\ z[Len(z)] = f
  BY <1>1, <1>2
<1> QED BY <1>2, <1>3, <1>4

\* A call is given the answer about its subchunk.
LEMMA AnswerKeeps ==
  ASSUME NEW np, NEW s, Called(s, np), s # <<>>, Calling(s[Len(s)]), NEW b \in BOOLEAN
  PROVE  Called(Pages!Answer(s, b), np) /\ Pages!Answer(s, b) # <<>>
<1> DEFINE f == s[Len(s)]
           m == f.modified \/ b
           nd == IF b THEN f.nodiff ELSE f.t
           h == [f EXCEPT !.j = @ + f.sub, !.modified = m, !.nodiff = nd]
<1>1. f \in TestFrames /\ ChunkWithin(f, np) /\ Calling(f)
  BY TopIn
<1> HIDE DEF f
<1>m. m \in BOOLEAN
  <2>1. f.modified \in BOOLEAN
    BY <1>1 DEF TestFrames
  <2> QED BY <2>1, Zenon
<1>n. nd \in PageTimes
  BY <1>1 DEF TestFrames
<1>5. Pages!Answer(s, b) = [s EXCEPT ![Len(s)] = h]
  BY Zenon DEF Pages!Answer, f
<1> HIDE DEF m, nd
<1>2. h \in TestFrames
  <2>1. f.j + f.sub \in Nat
    BY <1>1 DEF TestFrames
  <2> QED BY <1>1, <2>1, <1>m, <1>n, Zenon DEF TestFrames
<1>3. h.i = f.i /\ h.chunk = f.chunk /\ h.sub = f.sub /\ h.j = f.j + f.sub
  BY <1>1 DEF TestFrames
<1>4. ChunkWithin(h, np)
  BY <1>1, <1>3 DEF ChunkWithin, Calling, TestFrames
<1> HIDE DEF h
<1> QED BY <1>2, <1>4, <1>5, ChangeTop

\* collect_sample() calls test_chunk() for the whole list.
LEMMA SampleKeeps ==
  ASSUME PagesSizes, PagesInv, Pages!CollectSample
  PROVE  PagesInv'
<1>1. c_pc = "sample" /\ c_stack = <<>>
  BY DEF Pages!CollectSample, PagesInv, StackOK
<1>2. PICK np \in 1 .. NTotal - 2, rest \in CacheLine .. CachePage, t \in PageReadings :
         /\ c_npages' = np /\ c_baseline' = t
         /\ IF np > 1
            THEN c_stack' = <<Pages!Frame(0, np, t)>> /\ c_pc' = "test"
            ELSE UNCHANGED <<c_stack, c_pc>>
  BY DEF Pages!CollectSample
<1>3. c_pages' = c_pages /\ c_avail' = c_avail
  BY DEF Pages!CollectSample
<1>4. np \in Nat /\ np + 2 <= NTotal /\ t \in PageTimes
  BY <1>2 DEF PagesSizes, PageTimes
<1>5. CASE np > 1
  <2>1. c_stack' = <<Pages!Frame(0, np, t)>> /\ c_pc' = "test"
    BY <1>2, <1>5
  <2>2. Pages!Frame(0, np, t) \in TestFrames /\ ChunkWithin(Pages!Frame(0, np, t), np)
    BY <1>4, <1>5, FrameFits
  <2>3. Called(<<Pages!Frame(0, np, t)>>, np) /\ <<Pages!Frame(0, np, t)>> # <<>>
    BY <2>2 DEF Called
  <2> QED BY <1>1, <1>2, <1>3, <1>4, <2>1, <2>3 DEF PagesInv, StackOK
<1>6. CASE ~ np > 1
  <2>1. c_stack' = <<>> /\ c_pc' = "sample"
    BY <1>1, <1>2, <1>6
  <2>2. Called(<<>>, np)
    BY DEF Called
  <2> QED BY <1>1, <1>2, <1>3, <1>4, <2>1, <2>2 DEF PagesInv, StackOK
<1> QED BY <1>5, <1>6

\* A subchunk is not empty and inside its chunk.
LEMMA SizeFits ==
  ASSUME NEW f \in TestFrames, NEW np, ChunkWithin(f, np), f.j < f.i + f.chunk
  PROVE  Pages!Size(f) \in Nat /\ 1 <= Pages!Size(f) /\ f.j + Pages!Size(f) <= f.i + f.chunk
  BY DEF TestFrames, ChunkWithin, Pages!Size

\* A subchunk is removed for a measurement and put back.
LEMMA RemoveKeeps ==
  ASSUME PagesSizes, PagesInv, Pages!RemoveChunk
  PROVE  PagesInv'
<1>1. /\ c_pc = "test" /\ Pages!Top.j < Pages!Top.i + Pages!Top.chunk
      /\ UNCHANGED <<c_pages, c_npages, c_baseline, c_avail>>
  BY DEF Pages!RemoveChunk
<1>2. PICK t \in PageReadings, tt \in PageReadings :
        \/ c_stack' = [c_stack EXCEPT ![Len(c_stack)].j = @ + Pages!Size(Pages!Top)] /\ c_pc' = c_pc
        \/ /\ c_stack' = Append(Pages!Front(c_stack), [Pages!Top EXCEPT !.sub = Pages!Size(Pages!Top), !.t = Pages!Max({t, tt})])
           /\ c_pc' = "call"
  BY DEF Pages!RemoveChunk
<1>3. Called(c_stack, c_npages) /\ c_stack # <<>>
  BY <1>1 DEF PagesInv, StackOK
<1>4. Pages!Top \in TestFrames /\ ChunkWithin(Pages!Top, c_npages)
  BY <1>3, TopIn DEF Pages!Top
<1>5. Pages!Size(Pages!Top) \in Nat /\ 1 <= Pages!Size(Pages!Top) /\ Pages!Top.j + Pages!Size(Pages!Top) <= Pages!Top.i + Pages!Top.chunk
  BY <1>1, <1>4, SizeFits
<1>6. CASE c_stack' = [c_stack EXCEPT ![Len(c_stack)].j = @ + Pages!Size(Pages!Top)] /\ c_pc' = c_pc
  <2> DEFINE f == [Pages!Top EXCEPT !.j = @ + Pages!Size(Pages!Top)]
  <2>1. f \in TestFrames /\ ChunkWithin(f, c_npages)
    BY <1>4, <1>5 DEF TestFrames, ChunkWithin
  <2>2. c_stack' = [c_stack EXCEPT ![Len(c_stack)] = f]
    BY <1>6 DEF Pages!Top
  <2> HIDE DEF f
  <2>3. Called(c_stack', c_npages) /\ c_stack' # <<>>
    BY <1>3, <2>1, <2>2, ChangeTop
  <2> QED BY <1>1, <1>6, <2>3 DEF PagesInv, StackOK
<1>7. CASE /\ c_stack' = Append(Pages!Front(c_stack), [Pages!Top EXCEPT !.sub = Pages!Size(Pages!Top), !.t = Pages!Max({t, tt})])
           /\ c_pc' = "call"
  <2> DEFINE w == Pages!Max({t, tt})
             f == [Pages!Top EXCEPT !.sub = Pages!Size(Pages!Top), !.t = w]
  <2>1. w \in PageTimes
    <3>1. t \in Nat /\ tt \in Nat
      BY DEF PagesSizes
    <3>2. \E x \in {t, tt} : \A y \in {t, tt} : x >= y
      BY <3>1
    <3>3. w \in {t, tt}
      BY <3>2 DEF Pages!Max
    <3> QED BY <3>3 DEF PageTimes
  <2> HIDE DEF w
  <2>2. f \in TestFrames /\ ChunkWithin(f, c_npages) /\ Calling(f)
    BY <1>4, <1>5, <2>1 DEF TestFrames, ChunkWithin, Calling
  <2>3. /\ Called(Pages!Front(c_stack), c_npages)
        /\ Pages!Front(c_stack) = <<>> \/ Calling(Pages!Front(c_stack)[Len(Pages!Front(c_stack))])
    <3>1. /\ Len(c_stack) \in Nat \ {0} /\ Called(Pages!Front(c_stack), c_npages)
          /\ Len(Pages!Front(c_stack)) = Len(c_stack) - 1
          /\ \A k \in 1 .. Len(c_stack) - 1 : Pages!Front(c_stack)[k] = c_stack[k] /\ Calling(c_stack[k])
      BY <1>3, TopIn
    <3>2. CASE Len(c_stack) = 1
      <4>1. Pages!Front(c_stack) \in Seq(TestFrames) /\ Len(Pages!Front(c_stack)) = 0
        BY <3>1, <3>2 DEF Called
      <4> QED BY <3>1, <4>1
    <3>3. CASE Len(c_stack) # 1
      BY <3>1, <3>3
    <3> QED BY <3>2, <3>3
  <2>4. c_stack' = Append(Pages!Front(c_stack), f)
    BY <1>7 DEF w
  <2> HIDE DEF f
  <2>5. Called(c_stack', c_npages) /\ c_stack' # <<>> /\ Pages!Top' = f
    BY <2>2, <2>3, <2>4, PushFrame DEF Pages!Top
  <2> QED BY <1>1, <1>7, <2>2, <2>5 DEF PagesInv, StackOK
<1> QED BY <1>2, <1>6, <1>7

\* test_chunk() calls itself.
LEMMA SplitKeeps ==
  ASSUME PagesSizes, PagesInv, Pages!SplitChunk
  PROVE  PagesInv'
<1>1. /\ c_pc = "call" /\ c_pc' = "test" /\ c_stack' = Append(c_stack, Pages!Frame(Pages!Top.j, Pages!Top.sub, c_baseline))
      /\ UNCHANGED <<c_pages, c_npages, c_baseline, c_avail>>
  BY DEF Pages!SplitChunk
<1>2. Called(c_stack, c_npages) /\ c_stack # <<>> /\ Calling(Pages!Top)
  BY <1>1 DEF PagesInv, StackOK
<1>3. Pages!Top \in TestFrames /\ ChunkWithin(Pages!Top, c_npages)
  BY <1>2, TopIn DEF Pages!Top
<1>4. Pages!Top.j \in Nat /\ Pages!Top.sub \in Nat /\ 1 <= Pages!Top.sub /\ Pages!Top.j + Pages!Top.sub <= c_npages
  BY <1>2, <1>3 DEF TestFrames, ChunkWithin, Calling, PagesInv
<1> DEFINE f == Pages!Frame(Pages!Top.j, Pages!Top.sub, c_baseline)
<1>5. f \in TestFrames /\ ChunkWithin(f, c_npages)
  BY <1>4, FrameFits DEF PagesInv
<1> HIDE DEF f
<1>6. Called(c_stack', c_npages) /\ c_stack' # <<>>
  <2>1. c_stack' = Append(c_stack, f)
    BY <1>1 DEF f
  <2> QED BY <1>2, <1>5, <2>1, PushFrame DEF Pages!Top
<1> QED BY <1>1, <1>6 DEF PagesInv, StackOK

\* test_chunk() returns to itself or to collect_sample().
LEMMA ReturnKeeps ==
  ASSUME PagesSizes, PagesInv, Pages!TestChunkReturns
  PROVE  PagesInv'
<1>1. /\ c_pc = "test" /\ UNCHANGED <<c_pages, c_npages, c_baseline, c_avail>>
  BY DEF Pages!TestChunkReturns
<1>2. Called(c_stack, c_npages) /\ c_stack # <<>>
  BY <1>1 DEF PagesInv, StackOK
<1>3. \/ /\ Len(c_stack) > 1 /\ c_stack' = Pages!Answer(Pages!Front(c_stack), Pages!Top.modified) /\ c_pc' = "test"
      \/ c_stack' = <<Pages!Frame(0, c_npages, c_baseline)>> /\ c_pc' = "test"
      \/ c_stack' = <<>> /\ c_pc' = "sample"
  BY <1>1 DEF Pages!TestChunkReturns
<1>t. Pages!Top \in TestFrames /\ ChunkWithin(Pages!Top, c_npages)
  BY <1>2, TopIn DEF Pages!Top
<1>4. CASE Len(c_stack) > 1 /\ c_stack' = Pages!Answer(Pages!Front(c_stack), Pages!Top.modified) /\ c_pc' = "test"
  <2>1. /\ Len(c_stack) \in Nat \ {0} /\ Called(Pages!Front(c_stack), c_npages)
        /\ Len(Pages!Front(c_stack)) = Len(c_stack) - 1
        /\ \A k \in 1 .. Len(c_stack) - 1 : Pages!Front(c_stack)[k] = c_stack[k] /\ Calling(c_stack[k])
    BY <1>2, TopIn
  <2>2. Pages!Front(c_stack) # <<>> /\ Calling(Pages!Front(c_stack)[Len(Pages!Front(c_stack))])
    BY <1>4, <2>1
  <2>3. Pages!Top.modified \in BOOLEAN
    BY <1>t DEF TestFrames
  <2>4. Called(c_stack', c_npages) /\ c_stack' # <<>>
    BY <1>4, <2>1, <2>2, <2>3, AnswerKeeps
  <2> QED BY <1>1, <1>4, <2>4 DEF PagesInv, StackOK
<1>5. CASE c_stack' = <<Pages!Frame(0, c_npages, c_baseline)>> /\ c_pc' = "test"
  <2>1. c_npages \in Nat /\ c_baseline \in PageTimes /\ 1 <= c_npages
    BY <1>t DEF PagesInv, ChunkWithin, TestFrames
  <2>2. Pages!Frame(0, c_npages, c_baseline) \in TestFrames /\ ChunkWithin(Pages!Frame(0, c_npages, c_baseline), c_npages)
    BY <2>1, FrameFits
  <2>3. Called(<<Pages!Frame(0, c_npages, c_baseline)>>, c_npages) /\ <<Pages!Frame(0, c_npages, c_baseline)>> # <<>>
    BY <2>2 DEF Called
  <2> QED BY <1>1, <1>5, <2>3 DEF PagesInv, StackOK
<1>6. CASE c_stack' = <<>> /\ c_pc' = "sample"
  <2>1. Called(<<>>, c_npages)
    BY DEF Called
  <2> QED BY <1>1, <1>6, <2>1 DEF PagesInv, StackOK
<1> QED BY <1>3, <1>4, <1>5, <1>6

\* fixup_chunk() copies the list and moves the chunk to its end.
LEMMA FixupKeeps ==
  ASSUME PagesSizes, PagesInv, Pages!FixupChunk
  PROVE  PagesInv'
<1>1. /\ c_pc = "call" /\ c_pc' = "keep" /\ UNCHANGED <<c_npages, c_baseline, c_stack>>
      /\ c_fix' = [i |-> Pages!Top.j, chunk |-> Pages!Top.sub, goal |-> Pages!Top.t, j |-> 0, k |-> Pages!Top.sub,
                   lat |-> [x \in Pages!Array(Pages!Top.sub) |-> 0], saved |-> c_pages, swapped |-> 0]
      /\ c_pages' = Pages!MoveChunk(c_pages, Pages!Top.j, Pages!Top.sub)
      /\ c_avail' = IF c_avail >= Pages!Spare THEN 0 ELSE c_avail
  BY DEF Pages!FixupChunk
<1>2. Called(c_stack, c_npages) /\ c_stack # <<>> /\ Calling(Pages!Top)
  BY <1>1 DEF PagesInv, StackOK
<1>3. Pages!Top \in TestFrames /\ ChunkWithin(Pages!Top, c_npages)
  BY <1>2, TopIn DEF Pages!Top
<1>4. Pages!Top.j \in Nat /\ Pages!Top.sub \in Nat /\ 1 <= Pages!Top.sub /\ Pages!Top.j + Pages!Top.sub <= c_npages /\ Pages!Top.t \in PageTimes
  BY <1>2, <1>3 DEF TestFrames, ChunkWithin, Calling, PagesInv
<1>5. c_npages \in Nat /\ c_npages + 2 <= NTotal /\ NTotal \in Nat /\ c_pages \in PageList /\ c_avail \in Nat
  BY <1>1 DEF PagesInv, PagesSizes
<1>6. c_pages' \in PageList
  BY <1>1, <1>4, <1>5, MoveKeeps
<1>7. [x \in Pages!Array(Pages!Top.sub) |-> 0] \in PageLatencies(Pages!Top.sub)
  BY DEF PageLatencies, PageTimes
<1>8. FixOK'
  BY <1>1, <1>4, <1>5, <1>7 DEF FixOK
<1>9. StackOK'
  BY <1>1, <1>2 DEF StackOK, Pages!Top
<1>10. c_avail' \in Nat
  BY <1>1, <1>5
<1> QED BY <1>1, <1>5, <1>6, <1>8, <1>9, <1>10 DEF PagesInv

\* What the steps of fixup_chunk() may use.
LEMMA InFixup ==
  ASSUME PagesSizes, PagesInv, c_pc \in {"keep", "replace"}
  PROVE  /\ FixOK /\ c_npages \in Nat /\ c_npages + 2 <= NTotal /\ NTotal \in Nat /\ c_npages <= NTotal
         /\ c_fix.i \in Nat /\ c_fix.chunk \in Nat /\ c_fix.goal \in PageTimes /\ c_fix.j \in Nat
         /\ c_fix.k \in Nat /\ c_fix.lat \in PageLatencies(c_fix.chunk) /\ c_fix.saved \in PageList
         /\ c_fix.swapped \in Nat /\ c_fix.i + c_fix.chunk <= c_npages /\ 1 <= c_fix.chunk
         /\ c_fix.chunk <= c_npages /\ c_fix.j <= c_fix.chunk
         /\ c_pages \in PageList /\ c_avail \in Nat
<1>1. FixOK /\ c_npages \in Nat /\ c_npages + 2 <= NTotal /\ c_pages \in PageList /\ c_avail \in Nat
  BY DEF PagesInv
<1>2. NTotal \in Nat
  BY DEF PagesSizes
<1> QED BY <1>1, <1>2 DEF FixOK

\* A page is kept, or exchanged with one that has not been tried yet.
LEMMA KeepKeeps ==
  ASSUME PagesSizes, PagesInv, Pages!KeepPage
  PROVE  PagesInv'
<1>1. c_pc = "keep" /\ c_fix.j < c_fix.k /\ UNCHANGED <<c_pc, c_npages, c_baseline, c_stack, c_avail>>
  BY DEF Pages!KeepPage
<1>2. /\ FixOK /\ c_npages \in Nat /\ c_npages + 2 <= NTotal /\ NTotal \in Nat /\ c_npages <= NTotal
      /\ c_fix.chunk \in Nat /\ c_fix.j \in Nat /\ c_fix.k \in Nat /\ c_fix.lat \in PageLatencies(c_fix.chunk)
      /\ c_fix.chunk <= c_npages /\ c_pages \in PageList
  BY <1>1, InFixup
<1>3. c_fix.k <= c_fix.chunk
  BY <1>1, <1>2 DEF FixOK
<1>4. PICK t \in PageReadings :
        \/ c_fix' = [c_fix EXCEPT !.lat[c_fix.j] = t, !.j = @ + 1] /\ c_pages' = c_pages
        \/ /\ c_fix' = [c_fix EXCEPT !.lat[c_fix.k - 1] = t, !.k = @ - 1]
           /\ c_pages' = Pages!Exchange(c_pages, Pages!At(c_fix.j), Pages!At(c_fix.k - 1))
  BY DEF Pages!KeepPage
<1>t. t \in PageTimes
  BY DEF PageTimes
<1>5. CASE c_fix' = [c_fix EXCEPT !.lat[c_fix.j] = t, !.j = @ + 1] /\ c_pages' = c_pages
  <2> DEFINE l == [c_fix.lat EXCEPT ![c_fix.j] = t]
  <2>1. l \in PageLatencies(c_fix.chunk)
    BY <1>2, <1>t DEF PageLatencies
  <2>2. c_fix' = [c_fix EXCEPT !.lat = l, !.j = c_fix.j + 1]
    BY <1>5
  <2> HIDE DEF l
  <2>3. FixOK'
    <3>1. /\ c_fix \in [i : Nat, chunk : Nat, goal : PageTimes, j : Nat, k : Nat,
                        lat : PageLatencies(c_fix.chunk), saved : PageList, swapped : Nat]
          /\ c_fix.i + c_fix.chunk <= c_npages /\ 1 <= c_fix.chunk /\ c_fix.j <= c_fix.chunk
      BY <1>2 DEF FixOK
    <3>2. /\ c_fix' \in [i : Nat, chunk : Nat, goal : PageTimes, j : Nat, k : Nat,
                         lat : PageLatencies(c_fix.chunk), saved : PageList, swapped : Nat]
          /\ c_fix'.i = c_fix.i /\ c_fix'.chunk = c_fix.chunk
          /\ c_fix'.j = c_fix.j + 1 /\ c_fix'.k = c_fix.k
      <4>1. c_fix.j + 1 \in Nat
        BY <1>1, <1>2
      <4> QED BY <2>1, <2>2, <3>1, <4>1
    <3> QED BY <1>1, <1>2, <1>3, <3>1, <3>2 DEF FixOK
  <2> QED BY <1>1, <1>5, <2>3 DEF PagesInv, StackOK, Pages!Top
<1>6. CASE /\ c_fix' = [c_fix EXCEPT !.lat[c_fix.k - 1] = t, !.k = @ - 1]
           /\ c_pages' = Pages!Exchange(c_pages, Pages!At(c_fix.j), Pages!At(c_fix.k - 1))
  <2> DEFINE l == [c_fix.lat EXCEPT ![c_fix.k - 1] = t]
  <2>1. l \in PageLatencies(c_fix.chunk)
    BY <1>2, <1>t DEF PageLatencies
  <2>2. c_fix' = [c_fix EXCEPT !.lat = l, !.k = c_fix.k - 1]
    BY <1>6
  <2> HIDE DEF l
  <2>3. FixOK'
    <3>1. /\ c_fix \in [i : Nat, chunk : Nat, goal : PageTimes, j : Nat, k : Nat,
                        lat : PageLatencies(c_fix.chunk), saved : PageList, swapped : Nat]
          /\ c_fix.i + c_fix.chunk <= c_npages /\ 1 <= c_fix.chunk /\ c_fix.j <= c_fix.chunk
      BY <1>2 DEF FixOK
    <3>2. /\ c_fix' \in [i : Nat, chunk : Nat, goal : PageTimes, j : Nat, k : Nat,
                         lat : PageLatencies(c_fix.chunk), saved : PageList, swapped : Nat]
          /\ c_fix'.i = c_fix.i /\ c_fix'.chunk = c_fix.chunk
          /\ c_fix'.j = c_fix.j /\ c_fix'.k = c_fix.k - 1
      <4>1. c_fix.k - 1 \in Nat
        BY <1>1, <1>2
      <4> QED BY <2>1, <2>2, <3>1, <4>1
    <3> QED BY <1>1, <1>2, <1>3, <3>1, <3>2 DEF FixOK
  <2>4. Pages!At(c_fix.j) \in Pages!Array(NTotal) /\ Pages!At(c_fix.k - 1) \in Pages!Array(NTotal)
    BY <1>1, <1>2, <1>3 DEF Pages!At, Pages!Array
  <2>5. c_pages' \in PageList
    BY <1>2, <1>6, <2>4, ExchangeKeeps
  <2> QED BY <1>1, <2>3, <2>5 DEF PagesInv, StackOK, Pages!Top
<1> QED BY <1>4, <1>5, <1>6

\* The pages that were not kept are sorted.
LEMMA SortBadKeeps ==
  ASSUME PagesSizes, PagesInv, Pages!SortBad
  PROVE  PagesInv'
<1> DEFINE s == Pages!pagesort(c_pages, c_fix.lat, c_fix.j)
<1>1. /\ c_pc = "keep" /\ c_pc' = "replace" /\ UNCHANGED <<c_npages, c_baseline, c_stack, c_avail>>
      /\ c_pages' = s[1] /\ c_fix' = [c_fix EXCEPT !.lat = s[2], !.k = 0]
  BY DEF Pages!SortBad
<1>2. /\ FixOK /\ c_npages \in Nat /\ NTotal \in Nat /\ c_npages <= NTotal
      /\ c_fix.chunk \in Nat /\ c_fix.j \in Nat /\ c_fix.lat \in PageLatencies(c_fix.chunk)
      /\ c_fix.chunk <= c_npages /\ c_fix.j <= c_fix.chunk /\ c_pages \in PageList
  BY <1>1, InFixup
<1>3. s \in PageList \X PageLatencies(c_fix.chunk)
  BY <1>2, SortKeeps
<1> HIDE DEF s
<1>4. s[1] \in PageList /\ s[2] \in PageLatencies(c_fix.chunk)
  BY <1>3
<1>5. FixOK'
  BY <1>1, <1>2, <1>4 DEF FixOK
<1> QED BY <1>1, <1>4, <1>5 DEF PagesInv, StackOK, Pages!Top

\* The page that is tried instead is a spare one.
LEMMA SubstituteFits ==
  ASSUME c_npages \in Nat, c_npages + 2 <= NTotal, NTotal \in Nat, c_fix.k \in Nat, c_avail \in Nat
  PROVE  Pages!Substitute \in Pages!Array(NTotal) /\ (c_fix.k + c_avail) % (Pages!Spare - 1) \in Nat
<1> DEFINE r == (c_fix.k + c_avail) % (Pages!Spare - 1)
<1>1. Pages!Spare - 1 \in Nat \ {0} /\ Pages!Spare = NTotal - c_npages
  BY DEF Pages!Spare
<1>2. r \in Nat /\ r < Pages!Spare - 1
  <2>1. c_fix.k + c_avail \in Nat
    OBVIOUS
  <2> QED BY ONLY <1>1, <2>1, DivMod
<1> HIDE DEF r
<1>3. Pages!Substitute = c_npages + Pages!Spare - 1 - r
  BY DEF Pages!Substitute, r
<1>4. Pages!Substitute \in Pages!Array(NTotal)
  BY ONLY <1>1, <1>2, <1>3, c_npages \in Nat, c_npages + 2 <= NTotal, NTotal \in Nat DEF Pages!Array
<1> QED BY ONLY <1>2, <1>4 DEF r

\* A page is replaced by a spare one, which stays if it is faster.
LEMMA ReplaceKeeps ==
  ASSUME PagesSizes, PagesInv, Pages!ReplacePage
  PROVE  PagesInv'
<1> DEFINE last == c_fix.chunk - 1
           S(t) == IF t < c_fix.lat[last]
                   THEN Pages!pagesort(Pages!Exchange(c_pages, c_npages - 1, Pages!Substitute),
                                       [c_fix.lat EXCEPT ![last] = t], c_fix.j)
                   ELSE <<c_pages, c_fix.lat>>
<1>1. /\ c_pc = "replace" /\ c_fix.j < c_fix.chunk /\ UNCHANGED <<c_pc, c_npages, c_baseline, c_stack, c_avail>>
  BY DEF Pages!ReplacePage
<1>2. /\ FixOK /\ c_npages \in Nat /\ c_npages + 2 <= NTotal /\ NTotal \in Nat /\ c_npages <= NTotal
      /\ c_fix.chunk \in Nat /\ c_fix.j \in Nat /\ c_fix.k \in Nat /\ c_fix.lat \in PageLatencies(c_fix.chunk)
      /\ c_fix.swapped \in Nat /\ c_avail \in Nat
      /\ 1 <= c_fix.chunk /\ c_fix.chunk <= c_npages /\ c_fix.j <= c_fix.chunk /\ c_pages \in PageList
  BY <1>1, InFixup
<1>3. PICK t \in PageReadings : \E ok \in {0, 1} :
         /\ c_pages' = S(t)[1]
         /\ c_fix' = [c_fix EXCEPT !.lat = S(t)[2], !.k = @ + 1, !.j = @ + ok, !.swapped = @ + ok]
  <2>1. PICK t \in PageReadings :
         /\ c_pages' = S(t)[1]
         /\ c_fix' = LET ok == IF S(t)[2][c_fix.j] <= c_fix.goal THEN 1 ELSE 0
                     IN  [c_fix EXCEPT !.lat = S(t)[2], !.k = @ + 1, !.j = @ + ok, !.swapped = @ + ok]
    BY DEF Pages!ReplacePage
  <2> QED BY <2>1
<1>4. PICK ok \in {0, 1} :
         /\ c_pages' = S(t)[1]
         /\ c_fix' = [c_fix EXCEPT !.lat = S(t)[2], !.k = @ + 1, !.j = @ + ok, !.swapped = @ + ok]
  BY <1>3
<1>5. S(t) \in PageList \X PageLatencies(c_fix.chunk)
  <2>1. Pages!Exchange(c_pages, c_npages - 1, Pages!Substitute) \in PageList
    <3>1. c_npages - 1 \in Pages!Array(NTotal)
      BY <1>2 DEF Pages!Array
    <3> QED BY <1>2, <3>1, SubstituteFits, ExchangeKeeps
  <2>2. [c_fix.lat EXCEPT ![last] = t] \in PageLatencies(c_fix.chunk)
    BY <1>2 DEF PageLatencies, PageTimes
  <2>3. Pages!pagesort(Pages!Exchange(c_pages, c_npages - 1, Pages!Substitute), [c_fix.lat EXCEPT ![last] = t], c_fix.j)
          \in PageList \X PageLatencies(c_fix.chunk)
    BY <1>2, <2>1, <2>2, SortKeeps
  <2>4. <<c_pages, c_fix.lat>> \in PageList \X PageLatencies(c_fix.chunk)
    BY <1>2
  <2> QED BY <2>3, <2>4, Zenon
<1> HIDE DEF S
<1>6. S(t)[1] \in PageList /\ S(t)[2] \in PageLatencies(c_fix.chunk)
  BY <1>5
<1>7. FixOK'
  <2>1. /\ c_fix \in [i : Nat, chunk : Nat, goal : PageTimes, j : Nat, k : Nat,
                      lat : PageLatencies(c_fix.chunk), saved : PageList, swapped : Nat]
        /\ c_fix.i + c_fix.chunk <= c_npages
    BY <1>2 DEF FixOK
  <2> DEFINE l == S(t)[2]
  <2>2. c_fix' = [c_fix EXCEPT !.lat = l, !.k = c_fix.k + 1, !.j = c_fix.j + ok,
                               !.swapped = c_fix.swapped + ok]
    BY <1>4
  <2>3. l \in PageLatencies(c_fix.chunk)
    BY <1>6
  <2> HIDE DEF l
  <2>4. c_fix.k + 1 \in Nat /\ c_fix.j + ok \in Nat /\ c_fix.swapped + ok \in Nat
        /\ c_fix.j + ok <= c_fix.chunk
    BY <1>1, <1>2
  <2>5. /\ c_fix' \in [i : Nat, chunk : Nat, goal : PageTimes, j : Nat, k : Nat,
                       lat : PageLatencies(c_fix.chunk), saved : PageList, swapped : Nat]
        /\ c_fix'.i = c_fix.i /\ c_fix'.chunk = c_fix.chunk /\ c_fix'.j = c_fix.j + ok
    BY <2>1, <2>2, <2>3, <2>4
  <2> QED BY <1>1, <1>2, <2>1, <2>4, <2>5 DEF FixOK
<1> QED BY <1>1, <1>4, <1>6, <1>7 DEF PagesInv, StackOK, Pages!Top

\* bcopy() with sizeof(int) copies the whole list.
LEMMA CopiedAll ==
  ASSUME PagesSizes
  PROVE  Pages!Copied = NTotal
<1> DEFINE p == SizeofInt * NTotal
           x == p + SizeofSize - 1
           q == x \div SizeofSize
<1>1. /\ SizeofInt \in Nat /\ SizeofSize \in Nat \ {0} /\ NTotal \in Nat
      /\ SizeofInt >= SizeofSize
  BY DEF PagesSizes
<1>2. p \in Nat /\ p >= NTotal * SizeofSize /\ NTotal * SizeofSize \in Nat
  BY <1>1
<1> HIDE DEF p
<1>3. x \in Nat
  BY <1>1, <1>2
<1>4. q \in Nat /\ x < q * SizeofSize + SizeofSize
  BY <1>1, <1>3, DivMod
<1>5. p - 1 < q * SizeofSize
  BY <1>1, <1>2, <1>4
<1> HIDE DEF q, x
<1>6. q >= NTotal
  <2> SUFFICES ASSUME q < NTotal PROVE FALSE
    BY <1>1, <1>4
  <2>1. q * SizeofSize + SizeofSize <= NTotal * SizeofSize
    BY <1>1, <1>4
  <2> QED BY <1>1, <1>2, <1>4, <1>5, <2>1
<1>7. Pages!RoundUp(SizeofInt * NTotal, SizeofSize) = q
  BY DEF Pages!RoundUp, p, x, q
<1>8. NTotal \in {NTotal, q} /\ \A y \in {NTotal, q} : NTotal <= y
  BY <1>1, <1>4, <1>6
<1>9. ASSUME NEW y \in {NTotal, q}, \A z \in {NTotal, q} : y <= z PROVE y = NTotal
  BY <1>1, <1>4, <1>6, <1>9
<1>10. Pages!Min({NTotal, q}) = NTotal
  BY <1>8, <1>9 DEF Pages!Min
<1> QED BY <1>7, <1>10 DEF Pages!Copied

\* The exchanges stay, or the list is what it was before.
LEMMA FixupReturnsKeeps ==
  ASSUME PagesSizes, PagesInv, Pages!FixupReturns
  PROVE  PagesInv'
<1>1. /\ c_pc = "replace" /\ c_pc' = "test" /\ c_npages' = c_npages
      /\ c_avail' = (c_fix.k + c_avail) % (Pages!Spare - 1)
  BY DEF Pages!FixupReturns
<1>2. /\ c_npages \in Nat /\ c_npages + 2 <= NTotal /\ NTotal \in Nat /\ c_npages <= NTotal
      /\ c_fix.i \in Nat /\ c_fix.chunk \in Nat /\ c_fix.k \in Nat /\ c_fix.saved \in PageList
      /\ c_fix.i + c_fix.chunk <= c_npages /\ c_avail \in Nat /\ c_pages \in PageList
  BY <1>1, InFixup
<1>3. \E b \in BOOLEAN :
        /\ c_stack' = Pages!Answer(c_stack, b)
        /\ c_baseline' \in PageTimes
        /\ c_pages' \in {c_pages, Pages!BackOut, Pages!MoveChunk(c_pages, c_fix.i, c_fix.chunk)}
  BY DEF Pages!FixupReturns, PageTimes, PagesInv
<1>4. Pages!BackOut \in PageList
  <2>1. c_fix.saved \in [Pages!Array(NTotal) -> PageOffsets]
    BY <1>2 DEF PageList
  <2>2. Pages!BackOut = c_fix.saved
    <3>1. \A x \in Pages!Array(NTotal) : x < Pages!Copied
      BY <1>2, CopiedAll DEF Pages!Array
    <3>2. Pages!BackOut = [x \in Pages!Array(NTotal) |-> c_fix.saved[x]]
      BY <3>1 DEF Pages!BackOut
    <3> QED BY <2>1, <3>2
  <2> QED BY <1>2, <2>2
<1>5. Pages!MoveChunk(c_pages, c_fix.i, c_fix.chunk) \in PageList
  BY <1>2, MoveKeeps
<1>6. c_pages' \in PageList
  BY <1>2, <1>3, <1>4, <1>5
<1>7. Called(c_stack', c_npages) /\ c_stack' # <<>>
  <2>1. Called(c_stack, c_npages) /\ c_stack # <<>> /\ Calling(c_stack[Len(c_stack)])
    BY <1>1 DEF PagesInv, StackOK, Pages!Top
  <2> QED BY <1>3, <2>1, AnswerKeeps
<1>8. c_avail' \in Nat
  BY <1>1, <1>2, SubstituteFits
<1> QED BY <1>1, <1>2, <1>3, <1>6, <1>7, <1>8 DEF PagesInv, StackOK

\* Every step.
LEMMA PagesKeep ==
  ASSUME PagesSizes, PagesInv, [Pages!Next]_(Pages!vars)
  PROVE  PagesInv'
<1>1. CASE UNCHANGED Pages!vars
  BY <1>1 DEF Pages!vars, PagesInv, StackOK, FixOK, Pages!Top
<1> QED BY <1>1, SampleKeeps, RemoveKeeps, SplitKeeps, ReturnKeeps, FixupKeeps, KeepKeeps,
           SortBadKeeps, ReplaceKeeps, FixupReturnsKeeps DEF Pages!Next

\* A list of all pages.
LEMMA PagesImplied ==
  ASSUME PagesInv
  PROVE  Pages!PagesPermuted
  BY DEF PagesInv, PageList, PageOffsets, Pages!PagesPermuted

-----------------------------------------------------------------------------
(* find_tlb().                                                             *)
CONSTANTS
    TlbStarts, TlbPages

VARIABLES
    t_pc, t_i, t_lower, t_upper, t_maxpages, t_tlb, t_slow

Tlb == INSTANCE TlbSearch WITH
    Starts <- TlbStarts, MaxPages <- TlbPages,
    pc <- t_pc, i <- t_i, lower <- t_lower, upper <- t_upper,
    maxpages <- t_maxpages, tlb <- t_tlb, slow <- t_slow

\* A search that starts somewhere.
ASSUME TlbAssumption == TlbPages \in Nat /\ TlbStarts \subseteq Nat \ {0}

TlbTypes ==
    /\ t_pc \in {"double", "bisect", "done"}
    /\ t_i \in Nat /\ t_lower \in Nat /\ t_upper \in Nat /\ t_tlb \in Nat
    /\ t_maxpages \in 1 .. TlbPages
    /\ t_slow \in [0 .. TlbPages -> {"unknown", "yes", "no"}]

Unseen(p) == t_slow[p] = "no" \/ \E s \in TlbStarts : p = s \div 2

(* While doubling no effect has been seen, and the size before is without. *)
Doubling ==
    /\ t_i > 0 /\ t_tlb = 0
    /\ \A p \in 0 .. TlbPages : t_slow[p] # "yes"
    /\ t_i \div 2 <= TlbPages => Unseen(t_i \div 2)

(* While bisecting the step is between lower and upper.                    *)
Bisecting ==
    /\ t_lower < t_upper /\ t_upper <= t_maxpages
    /\ t_i = Tlb!Middle(t_lower, t_upper)
    /\ t_slow[t_upper] = "yes" /\ Unseen(t_lower)
    /\ t_lower = 0 => t_upper = 1 /\ \A p \in 2 .. TlbPages : t_slow[p] # "yes"

TlbInv == /\ TlbTypes
          /\ t_pc = "double" => Doubling
          /\ t_pc = "bisect" => Bisecting
          /\ Tlb!StepFound

\* The bisection makes progress.
LEMMA MiddleIsBetween ==
  ASSUME NEW lo \in Nat, NEW up \in Nat, lo < up
  PROVE  /\ Tlb!Middle(lo, up) \in Nat /\ lo <= Tlb!Middle(lo, up) /\ Tlb!Middle(lo, up) < up
         /\ lo + 1 < up => lo < Tlb!Middle(lo, up)
  BY DEF Tlb!Middle

\* Half of a number, and half of its double.
LEMMA Halves ==
  ASSUME NEW x \in Nat, x > 0
  PROVE  x \div 2 \in Nat /\ x \div 2 < x /\ (x \div 2 = 0 => x = 1) /\ (x * 2) \div 2 = x
  OBVIOUS

\* Before the first measurement.
LEMMA TlbBegins == Tlb!Init => TlbInv
<1> SUFFICES ASSUME Tlb!Init PROVE TlbInv
  OBVIOUS
<1> USE TlbAssumption
<1>1. TlbTypes
  BY DEF Tlb!Init, TlbTypes
<1>2. Doubling
  <2>1. t_i \in TlbStarts /\ t_i \in Nat /\ t_i > 0
    BY DEF Tlb!Init
  <2> QED BY <2>1 DEF Tlb!Init, Doubling, Unseen
<1> QED BY <1>1, <1>2 DEF Tlb!Init, TlbInv, Tlb!StepFound

\* Twice as many pages, as long as there is no effect.
LEMMA DoubleKeeps == ASSUME TlbInv, Tlb!Double PROVE TlbInv'
<1> USE TlbAssumption
<1>1. /\ TlbTypes /\ Doubling /\ t_pc = "double" /\ t_i <= t_maxpages
      /\ t_maxpages' = t_maxpages /\ t_tlb' = t_tlb
  BY DEF TlbInv, Tlb!Double
<1>2. t_i \in 0 .. TlbPages /\ t_i > 0 /\ t_tlb = 0 /\ t_i \div 2 \in 0 .. TlbPages
  BY <1>1, Halves DEF TlbTypes, Doubling
<1>3. CASE /\ Tlb!compute_times(TRUE) /\ t_lower' = t_i \div 2 /\ t_upper' = t_i
           /\ t_i' = Tlb!Middle(t_i \div 2, t_i)
           /\ t_pc' = Tlb!AfterLoop(Tlb!Middle(t_i \div 2, t_i))
  <2>1. /\ t_i' \in Nat /\ t_i' < t_i /\ t_i \div 2 < t_i /\ t_i \div 2 \in Nat
        /\ t_i \div 2 = 0 => t_i = 1
    BY <1>2, <1>3, Halves, MiddleIsBetween
  <2>2. t_pc' = "bisect"
    BY <1>1, <1>3, <2>1 DEF Tlb!AfterLoop, TlbTypes
  <2>3. t_slow' = [t_slow EXCEPT ![t_i] = "yes"]
    BY <1>3 DEF Tlb!compute_times
  <2>4. TlbTypes'
    BY <1>1, <1>2, <1>3, <2>1, <2>2, <2>3 DEF TlbTypes
  <2>5. t_slow'[t_i \div 2] = t_slow[t_i \div 2] /\ t_slow'[t_i] = "yes"
    BY <1>1, <1>2, <2>1, <2>3 DEF TlbTypes
  <2>6. Unseen(t_i \div 2)
    BY <1>1, <1>2 DEF Doubling
  <2>7. t_slow'[t_lower'] = "no" \/ \E s \in TlbStarts : t_lower' = s \div 2
    BY <2>5, <2>6, <1>3 DEF Unseen
  <2>8. t_lower' = 0 => t_upper' = 1 /\ \A p \in 2 .. TlbPages : t_slow'[p] # "yes"
    BY <1>1, <1>2, <1>3, <2>1, <2>3 DEF Doubling, TlbTypes
  <2>9. Bisecting'
    BY <1>1, <1>3, <2>1, <2>5, <2>7, <2>8 DEF Bisecting, Unseen
  <2> QED BY <2>2, <2>4, <2>9 DEF TlbInv, Tlb!StepFound
<1>4. CASE Tlb!compute_times(FALSE) /\ t_i' = t_i * 2 /\ UNCHANGED <<t_pc, t_lower, t_upper>>
  <2>1. t_slow' = [t_slow EXCEPT ![t_i] = "no"]
    BY <1>4 DEF Tlb!compute_times
  <2>2. TlbTypes'
    BY <1>1, <1>2, <1>4, <2>1 DEF TlbTypes
  <2>3. t_i' > 0 /\ t_i' \div 2 = t_i
    BY <1>2, <1>4, Halves
  <2>4. t_slow'[t_i' \div 2] = "no"
    BY <1>1, <1>2, <2>1, <2>3 DEF TlbTypes
  <2>5. \A p \in 0 .. TlbPages : t_slow'[p] # "yes"
    BY <1>1, <1>2, <2>1 DEF Doubling, TlbTypes
  <2>6. Doubling'
    BY <1>1, <1>2, <2>3, <2>4, <2>5 DEF Doubling, Unseen
  <2> QED BY <1>1, <1>4, <2>2, <2>6 DEF TlbInv, Tlb!StepFound
<1> QED BY <1>3, <1>4 DEF Tlb!Double

\* There is an effect, or no room.
LEMMA LoopEndsKeeps == ASSUME TlbInv, Tlb!LoopEnds PROVE TlbInv'
<1> USE TlbAssumption
<1>1. /\ TlbTypes /\ Doubling /\ t_i > t_maxpages /\ t_pc' = Tlb!AfterLoop(t_i)
      /\ UNCHANGED <<t_i, t_lower, t_upper, t_maxpages, t_tlb, t_slow>>
  BY DEF TlbInv, Tlb!LoopEnds
<1>2. t_pc' = "done"
  BY <1>1 DEF Tlb!AfterLoop, TlbTypes
<1>3. t_tlb = 0 /\ \A p \in 2 .. t_maxpages : t_slow[p] # "yes"
  BY <1>1 DEF Doubling, TlbTypes
<1>4. TlbTypes'
  BY <1>1, <1>2 DEF TlbTypes
<1>5. Tlb!StepFound'
  BY <1>1, <1>3 DEF Tlb!StepFound
<1> QED BY <1>2, <1>4, <1>5 DEF TlbInv

\* The middle is measured, and becomes one of the ends.
LEMMA BisectKeeps == ASSUME TlbInv, Tlb!Bisect PROVE TlbInv'
<1> USE TlbAssumption
<1>1. /\ TlbTypes /\ Bisecting /\ t_pc = "bisect" /\ t_lower + 1 < t_upper
      /\ UNCHANGED <<t_pc, t_maxpages, t_tlb>>
  BY DEF TlbInv, Tlb!Bisect
<1>2. t_i \in Nat /\ t_lower < t_i /\ t_i < t_upper
  BY <1>1, MiddleIsBetween DEF TlbTypes, Bisecting
<1>3. /\ t_i \in 0 .. TlbPages /\ t_lower \in 0 .. TlbPages /\ t_upper \in 0 .. TlbPages
      /\ t_lower > 0
  BY <1>1, <1>2 DEF TlbTypes, Bisecting
<1>4. CASE /\ Tlb!compute_times(TRUE) /\ t_upper' = t_i /\ t_i' = Tlb!Middle(t_lower, t_i)
           /\ UNCHANGED t_lower
  <2>1. t_slow' = [t_slow EXCEPT ![t_i] = "yes"]
    BY <1>4 DEF Tlb!compute_times
  <2>2. TlbTypes'
    BY <1>1, <1>2, <1>3, <1>4, <2>1, MiddleIsBetween DEF TlbTypes
  <2>3. t_slow'[t_i] = "yes" /\ t_slow'[t_lower] = t_slow[t_lower]
    BY <1>1, <1>2, <1>3, <2>1 DEF TlbTypes
  <2>4. Bisecting'
    BY <1>1, <1>2, <1>3, <1>4, <2>3 DEF Bisecting, Unseen, TlbTypes
  <2> QED BY <1>1, <2>2, <2>4 DEF TlbInv, Tlb!StepFound
<1>5. CASE /\ Tlb!compute_times(FALSE) /\ t_lower' = t_i /\ t_i' = Tlb!Middle(t_i, t_upper)
           /\ UNCHANGED t_upper
  <2>1. t_slow' = [t_slow EXCEPT ![t_i] = "no"]
    BY <1>5 DEF Tlb!compute_times
  <2>2. TlbTypes'
    BY <1>1, <1>2, <1>3, <1>5, <2>1, MiddleIsBetween DEF TlbTypes
  <2>3. t_slow'[t_i] = "no" /\ t_slow'[t_upper] = t_slow[t_upper]
    BY <1>1, <1>2, <1>3, <2>1 DEF TlbTypes
  <2>4. Bisecting'
    BY <1>1, <1>2, <1>3, <1>5, <2>3 DEF Bisecting, Unseen, TlbTypes
  <2> QED BY <1>1, <2>2, <2>4 DEF TlbInv, Tlb!StepFound
<1> QED BY <1>4, <1>5 DEF Tlb!Bisect

\* Both ends are neighbours.
LEMMA FoundKeeps == ASSUME TlbInv, Tlb!Found PROVE TlbInv'
<1> USE TlbAssumption
<1>1. /\ TlbTypes /\ Bisecting /\ t_lower + 1 >= t_upper /\ t_tlb' = t_lower /\ t_pc' = "done"
      /\ UNCHANGED <<t_i, t_lower, t_upper, t_maxpages, t_slow>>
  BY DEF TlbInv, Tlb!Found
<1>2. TlbTypes'
  BY <1>1 DEF TlbTypes
<1>3. t_upper = t_lower + 1
  BY <1>1 DEF TlbTypes, Bisecting
<1>4. Tlb!StepFound'
  BY <1>1, <1>3 DEF Tlb!StepFound, Bisecting, Unseen, TlbTypes
<1> QED BY <1>1, <1>2, <1>4 DEF TlbInv

\* Every step.
LEMMA TlbKeeps == ASSUME TlbInv, [Tlb!Next]_(Tlb!vars) PROVE TlbInv'
<1>1. CASE UNCHANGED Tlb!vars
  BY <1>1 DEF Tlb!vars, TlbInv, TlbTypes, Doubling, Bisecting, Unseen, Tlb!StepFound
<1> QED BY <1>1, DoubleKeeps, LoopEndsKeeps, BisectKeeps, FoundKeeps DEF Tlb!Next

-----------------------------------------------------------------------------
(* struct mem_state, and the walks that resume from static pointers.       *)
CONSTANTS
    MemPage, MemPages, MemLines, MemAddrs, MemPar, MemLineMax, MemRounds

VARIABLES
    m_prog, m_round, m_pc, m_st, m_mem, m_width, m_rerun, m_saved, m_used

Mem == INSTANCE MemState WITH
    Page <- MemPage, MaxPages <- MemPages, Lines <- MemLines,
    Addrs <- MemAddrs, MaxPar <- MemPar, MaxLine <- MemLineMax,
    Rounds <- MemRounds,
    prog <- m_prog, round <- m_round, pc <- m_pc, st <- m_st, mem <- m_mem,
    width <- m_width, rerun <- m_rerun, saved <- m_saved, used <- m_used

\* There is a mem_benchmark_0().
MemSizes == MemPar \in Nat \ {0}
ASSUME MemAssumption == MemSizes

(* What mem_benchmark_n() knows is the chain that is there, if it is going *)
(* to use it.                                                              *)
Knows(n) == m_rerun /\ m_saved[n].addr = m_st.addr => m_saved[n].chain = m_round

MemInv ==
    /\ m_round \in Nat
    /\ m_saved \in [Mem!Array(MemPar) -> [addr : MemAddrs \cup {0}, chain : Nat]]
    /\ m_pc # "idle" =>
        /\ m_used = m_round
        /\ DOMAIN m_st = {"addr", "kind", "len", "line", "pages", "lines", "first", "test", "par"}
        /\ m_st.addr \in MemAddrs
        /\ m_prog = "tlb" => m_width = 1 /\ Knows(0)
        /\ m_prog = "par_mem" => /\ m_st.par \in 0 .. MemPar
                                 /\ m_st.par > 0 => m_width = m_st.par /\ Knows(m_st.par - 1)

\* Before the first chain.
LEMMA MemBegins == ASSUME MemSizes, Mem!Init PROVE MemInv
  BY DEF MemSizes, Mem!Init, MemInv, Mem!Array

\* A chain is built, walked, cut and repaired, or freed.
LEMMA MemKeeps == ASSUME MemSizes, MemInv, [Mem!Next]_(Mem!vars) PROVE MemInv'
<1> USE DEF MemSizes
<1>0. /\ 0 \in Mem!Array(MemPar)
      /\ \A i \in 0 .. MemPar - 1 : i \in Mem!Array(MemPar)
  BY DEF Mem!Array
<1>1. CASE Mem!Initialize
  <2> PICK q \in Mem!Requests, a \in MemAddrs :
         /\ \E pages \in Mem!PageOrders(q.len) :
             m_st' = [addr |-> a, kind |-> q.kind, len |-> q.len, line |-> q.line, pages |-> pages,
                     lines |-> Mem!words_initialize(MemPage \div q.line, q.line),
                     first |-> Mem!First(q.kind, q.len, pages), test |-> 0, par |-> 0]
         /\ IF q.kind \in {"mem", "line", "tlb", "dram"}
              THEN /\ m_used' = Mem!StartOf(0, a, m_round + 1, 1, Mem!mem_reset)
                   /\ m_saved' = [m_saved EXCEPT ![0] = [addr |-> a, chain |-> m_used']]
                   /\ m_rerun' = TRUE
              ELSE m_used' = m_round + 1 /\ m_rerun' = Mem!mem_reset /\ UNCHANGED m_saved
    BY <1>1 DEF Mem!Initialize
  <2>1. m_round' = m_round + 1 /\ m_width' = 1 /\ m_pc' = "ready" /\ m_round \in Nat
    BY <1>1 DEF Mem!Initialize, MemInv
  <2>2. m_used' = m_round + 1 /\ m_round + 1 \in Nat
    BY <2>1 DEF Mem!StartOf, Mem!mem_reset
  <2>3. m_saved' \in [Mem!Array(MemPar) -> [addr : MemAddrs \cup {0}, chain : Nat]]
    <3>1. m_saved \in [Mem!Array(MemPar) -> [addr : MemAddrs \cup {0}, chain : Nat]]
      BY DEF MemInv
    <3> QED BY <3>1, <2>2
  <2>4. /\ DOMAIN m_st' = {"addr", "kind", "len", "line", "pages", "lines", "first", "test", "par"}
        /\ m_st'.addr = a /\ m_st'.par = 0
    OBVIOUS
  <2>5. m_rerun' => m_saved'[0].chain = m_round'
    <3>1. CASE q.kind \in {"mem", "line", "tlb", "dram"}
      <4>1. m_saved \in [Mem!Array(MemPar) -> [addr : MemAddrs \cup {0}, chain : Nat]]
        BY DEF MemInv
      <4> QED BY <3>1, <4>1, <1>0, <2>1, <2>2
    <3>2. CASE q.kind \notin {"mem", "line", "tlb", "dram"}
      BY <3>2 DEF Mem!mem_reset
    <3> QED BY <3>1, <3>2
  <2> QED BY <2>1, <2>2, <2>3, <2>4, <2>5 DEF MemInv, Knows
<1>2. CASE Mem!TlbWalk
  <2>1. /\ m_pc = "ready" /\ m_prog = "tlb" /\ m_width = 1
        /\ m_rerun /\ m_saved[0].addr = m_st.addr => m_saved[0].chain = m_round
        /\ UNCHANGED <<m_prog, m_round, m_pc, m_st, m_mem, m_width>>
        /\ m_saved \in [Mem!Array(MemPar) -> [addr : MemAddrs \cup {0}, chain : Nat]]
        /\ m_st.addr \in MemAddrs /\ m_round \in Nat
    BY <1>2 DEF Mem!TlbWalk, MemInv, Knows
  <2>2. /\ m_used' = m_round
        /\ m_saved' = [m_saved EXCEPT ![0] = [addr |-> m_st.addr, chain |-> m_used']]
    BY <1>2, <2>1 DEF Mem!TlbWalk, Mem!mem_benchmark, Mem!StartOf
  <2>3. /\ m_saved' \in [Mem!Array(MemPar) -> [addr : MemAddrs \cup {0}, chain : Nat]]
        /\ m_saved'[0].chain = m_round
    BY <2>1, <2>2, <1>0
  <2> QED BY <2>1, <2>2, <2>3 DEF MemInv, Knows
<1>3. CASE Mem!LatMemRdWalk
  BY <1>3 DEF Mem!LatMemRdWalk, MemInv
<1>4. CASE Mem!LatDramPageWalk
  BY <1>4 DEF Mem!LatDramPageWalk, MemInv
<1>5. CASE Mem!ParMem
  <2>1. /\ m_pc = "ready" /\ m_prog = "par_mem" /\ m_st.par < MemPar /\ m_st.par \in Nat
        /\ m_width' = m_st.par + 1
        /\ m_st' = [m_st EXCEPT !.par = @ + 1]
        /\ UNCHANGED <<m_prog, m_round, m_pc, m_mem>>
        /\ m_saved \in [Mem!Array(MemPar) -> [addr : MemAddrs \cup {0}, chain : Nat]]
        /\ m_st.addr \in MemAddrs /\ m_round \in Nat
        /\ DOMAIN m_st = {"addr", "kind", "len", "line", "pages", "lines", "first", "test", "par"}
    BY <1>5 DEF Mem!ParMem, MemInv
  <2>2. /\ m_used' = m_round
        /\ m_saved' = [m_saved EXCEPT ![m_st.par] = [addr |-> m_st.addr, chain |-> m_used']]
    BY <1>5, <2>1 DEF Mem!ParMem, Mem!mem_benchmark, Mem!StartOf, Mem!mem_reset
  <2>3. /\ m_st'.par = m_st.par + 1 /\ m_st'.addr = m_st.addr
        /\ DOMAIN m_st' = {"addr", "kind", "len", "line", "pages", "lines", "first", "test", "par"}
    BY <2>1
  <2>4. m_st.par \in Mem!Array(MemPar) /\ m_st.par + 1 \in 0 .. MemPar /\ (m_st.par + 1) - 1 = m_st.par
    BY <2>1 DEF Mem!Array
  <2>5. /\ m_saved' \in [Mem!Array(MemPar) -> [addr : MemAddrs \cup {0}, chain : Nat]]
        /\ m_saved'[m_st.par].chain = m_round
    BY <2>1, <2>2, <2>4
  <2>7. /\ m_round' \in Nat /\ m_used' = m_round' /\ m_st'.addr \in MemAddrs
        /\ m_prog' = "par_mem" /\ m_st'.par \in 0 .. MemPar
    BY <2>1, <2>2, <2>3, <2>4
  <2>8. m_st'.par > 0 => m_width' = m_st'.par /\ Knows(m_st.par - 1)'
    BY <2>1, <2>3, <2>5 DEF Knows
  <2> QED BY <2>3, <2>5, <2>7, <2>8 DEF MemInv
<1>6. CASE Mem!ParMemAgain
  <2>1. /\ m_pc = "ready" /\ m_prog = "par_mem" /\ m_st.par > 0 /\ m_st.par \in 0 .. MemPar
        /\ m_width = m_st.par
        /\ m_rerun /\ m_saved[m_st.par - 1].addr = m_st.addr => m_saved[m_st.par - 1].chain = m_round
        /\ UNCHANGED <<m_prog, m_round, m_pc, m_st, m_mem, m_width>>
        /\ m_saved \in [Mem!Array(MemPar) -> [addr : MemAddrs \cup {0}, chain : Nat]]
        /\ m_st.addr \in MemAddrs /\ m_round \in Nat
    BY <1>6 DEF Mem!ParMemAgain, MemInv, Knows
  <2>2. /\ m_used' = m_round
        /\ m_saved' = [m_saved EXCEPT ![m_st.par - 1] = [addr |-> m_st.addr, chain |-> m_used']]
    BY <1>6, <2>1 DEF Mem!ParMemAgain, Mem!mem_benchmark, Mem!StartOf
  <2>3. m_st.par - 1 \in Mem!Array(MemPar)
    BY <2>1 DEF Mem!Array
  <2>4. /\ m_saved' \in [Mem!Array(MemPar) -> [addr : MemAddrs \cup {0}, chain : Nat]]
        /\ m_saved'[m_st.par - 1].chain = m_round
    BY <2>1, <2>2, <2>3
  <2> QED BY <2>1, <2>2, <2>4 DEF MemInv, Knows
<1>7. CASE Mem!LineTest
  <2>1. /\ m_pc = "ready" /\ m_prog = "line" /\ m_pc' = "short" /\ m_used' = m_round
        /\ m_st' = [m_st EXCEPT !.test = 2 ^ m_st.par, !.par = @ + 1]
        /\ UNCHANGED <<m_prog, m_round, m_width, m_rerun, m_saved>>
    BY <1>7 DEF Mem!LineTest
  <2> QED BY <2>1 DEF MemInv
<1>8. CASE Mem!LineTestEnds
  <2>1. /\ m_pc = "short" /\ m_pc' = "ready"
        /\ m_st' = [m_st EXCEPT !.test = 0]
        /\ UNCHANGED <<m_prog, m_round, m_width, m_rerun, m_saved, m_used>>
    BY <1>8 DEF Mem!LineTestEnds
  <2> QED BY <2>1 DEF MemInv, Knows
<1>9. CASE Mem!Cleanup
  BY <1>9 DEF Mem!Cleanup, MemInv
<1>10. CASE UNCHANGED Mem!vars
  BY <1>10 DEF Mem!vars, MemInv, Knows
<1> QED BY <1>1, <1>2, <1>3, <1>4, <1>5, <1>6, <1>7, <1>8, <1>9, <1>10 DEF Mem!Next

\* A walk that resumes does so in this chain.
LEMMA MemImplied == ASSUME MemInv PROVE Mem!ResumesHere
  BY DEF MemInv, Mem!ResumesHere

-----------------------------------------------------------------------------
(* The programs with proofs of their own.                                  *)
CONSTANTS
    Bsize, InSize, Areas, CopyEnds, CopyCounts, Millis, MaxIos, CopyFaults,
    TreeFiles, TreeMaxes, TreeFails,
    Tries, Parallel, RepRequests, LongInterval, Readings, Counts,
    Rate(_, _),
    Possibilities, Default, Noise, Calls

VARIABLES
    d_opt, d_pc, d_count, d_off, d_pos, d_got, d_ints, d_shifts, d_sigs,
    d_pad, d_tab, d_norepeats, d_kids, d_log, d_hist, d_done, d_faults,
    f_max, f_test, f_pc, f_n, f_ndirs, f_dirs, f_names, f_stack, f_left,
    f_made, f_files, f_fails,
    r_request, r_r, r_done, r_reported, r_current, r_j, r_merged, r_saved,
    k_stack, k_done, k_init, k_enough, k_overhead, k_res, k_env, k_ran,
    k_calls, k_before

\* Copy and Tree, Res and Calib, each with the names above.
Disk == INSTANCE DiskProofs
Lib == INSTANCE TimingProofs

\* Blocks of at least a byte; with -n 1 setup_names() never ends; children
\* and slots; possible intervals.
ASSUME CopyAssumption == Disk!CopySizes
ASSUME TreeAssumption == Disk!TreeSizes
ASSUME ResultsAssumption == Lib!Limits
ASSUME CalibrationAssumption == Lib!Intervals

-----------------------------------------------------------------------------
(* The tools side by side.                                                 *)
VARIABLE
    which       \* the program a behaviour is about

ResVars == <<r_request, r_r, r_done, r_reported, r_current, r_j, r_merged,
             r_saved>>
MemVars == <<m_prog, m_round, m_pc, m_st, m_mem, m_width, m_rerun, m_saved,
             m_used>>
PagesVars == <<c_pages, c_mem, c_pc, c_len, c_npages, c_baseline, c_again,
               c_stack, c_fix, c_avail, c_walked, c_want>>
SearchVars == <<s_pc, s_p, s_todo, s_start, s_levels>>
CopyVars == <<d_opt, d_pc, d_count, d_off, d_pos, d_got, d_ints, d_shifts,
              d_sigs, d_pad, d_tab, d_norepeats, d_kids, d_log, d_hist, d_done,
              d_faults>>
CalibVars == <<k_stack, k_done, k_init, k_enough, k_overhead, k_res, k_env,
               k_ran, k_calls, k_before>>
PlcVars == <<p_sched, p_ncpus, p_allowed, p_values, p_parallel, p_pc, p_cpus,
             p_known, p_cpumask, p_pinned, p_kid, p_kidcpus, p_child_pid>>
TlbVars == <<t_pc, t_i, t_lower, t_upper, t_maxpages, t_tlb, t_slow>>
TreeVars == <<f_max, f_test, f_pc, f_n, f_ndirs, f_dirs, f_names, f_stack,
              f_left, f_made, f_files, f_fails>>

\* The variables of the programs a behaviour is not about.
WatchIdle == Init
ResIdle ==
    /\ r_request = 0 /\ r_r = 0 /\ r_done = 0 /\ r_reported = 0
    /\ r_current = 0 /\ r_j = 0 /\ r_merged = 0 /\ r_saved = 0
MemIdle ==
    /\ m_prog = 0 /\ m_round = 0 /\ m_pc = 0 /\ m_st = 0 /\ m_mem = 0
    /\ m_width = 0 /\ m_rerun = 0 /\ m_saved = 0 /\ m_used = 0
PagesIdle ==
    /\ c_pages = 0 /\ c_mem = 0 /\ c_pc = 0 /\ c_len = 0 /\ c_npages = 0
    /\ c_baseline = 0 /\ c_again = 0 /\ c_stack = 0 /\ c_fix = 0
    /\ c_avail = 0 /\ c_walked = 0 /\ c_want = 0
SearchIdle ==
    /\ s_pc = 0 /\ s_p = 0 /\ s_todo = 0 /\ s_start = 0 /\ s_levels = 0
CopyIdle ==
    /\ d_opt = 0 /\ d_pc = 0 /\ d_count = 0 /\ d_off = 0 /\ d_pos = 0
    /\ d_shifts = 0 /\ d_sigs = 0
    /\ d_got = 0 /\ d_ints = 0 /\ d_pad = 0 /\ d_tab = 0 /\ d_norepeats = 0
    /\ d_kids = 0 /\ d_log = 0 /\ d_hist = 0 /\ d_done = 0 /\ d_faults = 0
CalibIdle ==
    /\ k_stack = 0 /\ k_done = 0 /\ k_init = 0 /\ k_enough = 0
    /\ k_overhead = 0 /\ k_res = 0 /\ k_env = 0 /\ k_ran = 0 /\ k_calls = 0
    /\ k_before = 0
PlcIdle ==
    /\ p_sched = 0 /\ p_ncpus = 0 /\ p_allowed = 0 /\ p_values = 0
    /\ p_parallel = 0 /\ p_pc = 0 /\ p_cpus = 0 /\ p_cpumask = 0 /\ p_kid = 0
    /\ p_known = 0 /\ p_pinned = 0
    /\ p_kidcpus = 0 /\ p_child_pid = 0
TlbIdle ==
    /\ t_pc = 0 /\ t_i = 0 /\ t_lower = 0 /\ t_upper = 0 /\ t_maxpages = 0
    /\ t_tlb = 0 /\ t_slow = 0
TreeIdle ==
    /\ f_max = 0 /\ f_test = 0 /\ f_pc = 0 /\ f_n = 0 /\ f_ndirs = 0
    /\ f_dirs = 0 /\ f_names = 0 /\ f_stack = 0 /\ f_left = 0 /\ f_made = 0
    /\ f_files = 0 /\ f_fails = 0

ToolsInit ==
    \/ /\ which = "Watch" /\ Init
       /\ ResIdle /\ MemIdle /\ PagesIdle /\ SearchIdle /\ CopyIdle /\ CalibIdle /\ PlcIdle /\ TlbIdle /\ TreeIdle
    \/ /\ which = "Res" /\ Lib!Res!Init
       /\ WatchIdle /\ MemIdle /\ PagesIdle /\ SearchIdle /\ CopyIdle /\ CalibIdle /\ PlcIdle /\ TlbIdle /\ TreeIdle
    \/ /\ which = "Mem" /\ Mem!Init
       /\ WatchIdle /\ ResIdle /\ PagesIdle /\ SearchIdle /\ CopyIdle /\ CalibIdle /\ PlcIdle /\ TlbIdle /\ TreeIdle
    \/ /\ which = "Pages" /\ Pages!Init
       /\ WatchIdle /\ ResIdle /\ MemIdle /\ SearchIdle /\ CopyIdle /\ CalibIdle /\ PlcIdle /\ TlbIdle /\ TreeIdle
    \/ /\ which = "Search" /\ Search!Init
       /\ WatchIdle /\ ResIdle /\ MemIdle /\ PagesIdle /\ CopyIdle /\ CalibIdle /\ PlcIdle /\ TlbIdle /\ TreeIdle
    \/ /\ which = "Copy" /\ Disk!Copy!Init
       /\ WatchIdle /\ ResIdle /\ MemIdle /\ PagesIdle /\ SearchIdle /\ CalibIdle /\ PlcIdle /\ TlbIdle /\ TreeIdle
    \/ /\ which = "Calib" /\ Lib!Calib!Init
       /\ WatchIdle /\ ResIdle /\ MemIdle /\ PagesIdle /\ SearchIdle /\ CopyIdle /\ PlcIdle /\ TlbIdle /\ TreeIdle
    \/ /\ which = "Plc" /\ Plc!Init
       /\ WatchIdle /\ ResIdle /\ MemIdle /\ PagesIdle /\ SearchIdle /\ CopyIdle /\ CalibIdle /\ TlbIdle /\ TreeIdle
    \/ /\ which = "Tlb" /\ Tlb!Init
       /\ WatchIdle /\ ResIdle /\ MemIdle /\ PagesIdle /\ SearchIdle /\ CopyIdle /\ CalibIdle /\ PlcIdle /\ TreeIdle
    \/ /\ which = "Tree" /\ Disk!Tree!Init
       /\ WatchIdle /\ ResIdle /\ MemIdle /\ PagesIdle /\ SearchIdle /\ CopyIdle /\ CalibIdle /\ PlcIdle /\ TlbIdle

ToolsNext ==
    \/ /\ which = "Watch" /\ Next
       /\ UNCHANGED <<which, ResVars, MemVars, PagesVars, SearchVars,
                       CopyVars, CalibVars, PlcVars, TlbVars, TreeVars>>
    \/ /\ which = "Res" /\ Lib!Res!Next
       /\ UNCHANGED <<which, vars, MemVars, PagesVars, SearchVars, CopyVars,
                       CalibVars, PlcVars, TlbVars, TreeVars>>
    \/ /\ which = "Mem" /\ Mem!Next
       /\ UNCHANGED <<which, vars, ResVars, PagesVars, SearchVars, CopyVars,
                       CalibVars, PlcVars, TlbVars, TreeVars>>
    \/ /\ which = "Pages" /\ Pages!Next
       /\ UNCHANGED <<which, vars, ResVars, MemVars, SearchVars, CopyVars,
                       CalibVars, PlcVars, TlbVars, TreeVars>>
    \/ /\ which = "Search" /\ Search!Next
       /\ UNCHANGED <<which, vars, ResVars, MemVars, PagesVars, CopyVars,
                       CalibVars, PlcVars, TlbVars, TreeVars>>
    \/ /\ which = "Copy" /\ Disk!Copy!Next
       /\ UNCHANGED <<which, vars, ResVars, MemVars, PagesVars, SearchVars,
                       CalibVars, PlcVars, TlbVars, TreeVars>>
    \/ /\ which = "Calib" /\ Lib!Calib!Next
       /\ UNCHANGED <<which, vars, ResVars, MemVars, PagesVars, SearchVars,
                       CopyVars, PlcVars, TlbVars, TreeVars>>
    \/ /\ which = "Plc" /\ Plc!Next
       /\ UNCHANGED <<which, vars, ResVars, MemVars, PagesVars, SearchVars,
                       CopyVars, CalibVars, TlbVars, TreeVars>>
    \/ /\ which = "Tlb" /\ Tlb!Next
       /\ UNCHANGED <<which, vars, ResVars, MemVars, PagesVars, SearchVars,
                       CopyVars, CalibVars, PlcVars, TreeVars>>
    \/ /\ which = "Tree" /\ Disk!Tree!Next
       /\ UNCHANGED <<which, vars, ResVars, MemVars, PagesVars, SearchVars,
                       CopyVars, CalibVars, PlcVars, TlbVars>>

ToolsVars == <<which, vars, ResVars, MemVars, PagesVars, SearchVars,
    CopyVars, CalibVars, PlcVars, TlbVars, TreeVars>>

ToolsSpec == ToolsInit /\ [][ToolsNext]_ToolsVars

-----------------------------------------------------------------------------
(* lib_timing.c: the merged results of the children hold every value that  *)
(* was measured, once, in whatever order the children answered, and        *)
(* save_median() takes a middle element of them; insertsort() never writes *)
(* behind the slots an array was allocated with.                           *)
Merged == which = "Res" => /\ Lib!Res!TypeOK /\ Lib!Res!BiggestToSmallest
                           /\ Lib!Res!MergedIsUnion /\ Lib!Res!MedianIsMiddle
                           /\ Lib!Res!WithinSlots

(* lib_sched.c, lat_proc.c: processes and their children share or have     *)
(* their own processor, as LMBENCH_SCHED asks, though they inherit the     *)
(* affinity of their parent.                                               *)
OwnProcessor == which = "Plc" => Plc!TypeOK /\ Plc!OwnProcessor

(* lib_mem.c: every pointer chain is one cycle that visits what its        *)
(* initializer promises, also while line_test() has shortened it.          *)
ChainIsCycle == which = "Mem" => Mem!TypeOK /\ Mem!OneCycle

(* lib_mem.c: a walk resumed from the static pointers is in the chain that *)
(* is there now, never in one that has been freed; the walks par_mem runs  *)
(* side by side start in different places of it.                           *)
ChainIsCurrent == which = "Mem" => Mem!ResumesHere /\ Mem!StartsApart

(* cache.c: what measure() times is one cycle through exactly the pages    *)
(* that were meant, as check_memory() would find.                          *)
CheckMemory == which = "Pages" => Pages!TypeOK /\ Pages!CheckMemory

(* cache.c: whatever fixup_chunk() exchanges and backs out, no page is     *)
(* lost and none is in the list twice.                                     *)
PagesPermuted == which = "Pages" => Pages!PagesPermuted

(* cache.c: search() refines every large step to adjacent sizes, and keeps *)
(* ratios that belong to the latencies it ends with; the levels main()     *)
(* then prints grow, and are sizes a cache can have.  tlb.c: so does       *)
(* find_tlb(), and it overlooks no effect it has measured.                 *)
StepsRefined ==
    /\ which = "Search" => /\ Search!TypeOK
                            /\ Search!StepsRefined
                            /\ Search!LevelsGrow
    /\ which = "Tlb" => Tlb!StepFound

(* lat_fs.c: setup_names() makes room for exactly the directories and      *)
(* names its recursion finds, and cleanup_names() leaves nothing behind.   *)
TreeFits == which = "Tree" => /\ Disk!Tree!TypeOK
                              /\ Disk!Tree!TreeFits
                              /\ Disk!Tree!NothingLeft

(* lmdd.c: blocks are written where they belong and in order, also by      *)
(* forked children; random ones stay in their area, and repeat no offset   *)
(* with norepeat but the first.                                            *)
InPlace == which = "Copy" => /\ Disk!Copy!TypeOK
                             /\ Disk!Copy!InPlace
                             /\ Disk!Copy!InArea
                             /\ Disk!Copy!RepeatsOnlyFirst

(* lmdd.c: the amount printed is the amount written.                       *)
Accounted == which = "Copy" => Disk!Copy!Accounted

(* lib_timing.c: the calibration that some first call triggers does not    *)
(* disturb the results of the caller, and happens once.                    *)
LeavesCallerAlone == which = "Calib" => /\ Lib!Calib!TypeOK
                                        /\ Lib!Calib!CalibratedOnce
                                        /\ Lib!Calib!LeavesCallerAlone

-----------------------------------------------------------------------------
(* What every one of them keeps, and the theorems.                         *)

ResSafe == which = "Res" => Lib!RInv
CalibSafe == which = "Calib" => Lib!CInv
TlbSafe == which = "Tlb" => TlbInv
CopySafe == which = "Copy" => Disk!CopyInv /\ Disk!Accounts
PagesSafe == which = "Pages" => PagesInv
SearchSafe == which = "Search" => SearchInv
PlcSafe == which = "Plc" => PlcInv
MemSafe == which = "Mem" => MemInv
TreeSafe == which = "Tree" => Disk!TreeInv

ToolsSafe == /\ ResSafe /\ CalibSafe /\ TlbSafe /\ CopySafe
             /\ PagesSafe /\ SearchSafe /\ PlcSafe /\ MemSafe /\ TreeSafe

(* A step is a step of the program the behaviour is about, and leaves      *)
(* every other program as it is.                                           *)
LEMMA ToolsStep ==
  ASSUME [ToolsNext]_ToolsVars
  PROVE  /\ which' = which
         /\ [Next]_vars
         /\ which = "Res" => [Lib!Res!Next]_(Lib!Res!rvars)
         /\ which = "Calib" => [Lib!Calib!Next]_(Lib!Calib!vars)
         /\ which = "Tlb" => [Tlb!Next]_(Tlb!vars)
         /\ which = "Copy" => [Disk!Copy!Next]_(Disk!Copy!vars)
         /\ which = "Pages" => [Pages!Next]_(Pages!vars)
         /\ which = "Search" => [Search!Next]_(Search!vars)
         /\ which = "Plc" => [Plc!Next]_(Plc!vars)
         /\ which = "Mem" => [Mem!Next]_(Mem!vars)
         /\ which = "Tree" => [Disk!Tree!Next]_(Disk!Tree!vars)
<1>1. which' = which /\ [Next]_vars
  BY DEF ToolsNext, ToolsVars
<1>2. which = "Res" => [Lib!Res!Next]_(Lib!Res!rvars)
  BY DEF ToolsNext, ToolsVars, ResVars, Lib!Res!rvars
<1>3. which = "Calib" => [Lib!Calib!Next]_(Lib!Calib!vars)
  BY DEF ToolsNext, ToolsVars, CalibVars, Lib!Calib!vars
<1>4. which = "Tlb" => [Tlb!Next]_(Tlb!vars)
  BY DEF ToolsNext, ToolsVars, TlbVars, Tlb!vars
<1>5. which = "Copy" => [Disk!Copy!Next]_(Disk!Copy!vars)
  BY DEF ToolsNext, ToolsVars, CopyVars, Disk!Copy!vars, Disk!Copy!ending, Disk!Copy!drawing
<1>6. which = "Pages" => [Pages!Next]_(Pages!vars)
  BY DEF ToolsNext, ToolsVars, PagesVars, Pages!vars
<1>7. which = "Search" => [Search!Next]_(Search!vars)
  BY DEF ToolsNext, ToolsVars, SearchVars, Search!vars
<1>8. which = "Plc" => [Plc!Next]_(Plc!vars)
  BY DEF ToolsNext, ToolsVars, PlcVars, Plc!vars, Plc!placing, Plc!masks
<1>9. which = "Mem" => [Mem!Next]_(Mem!vars)
  BY DEF ToolsNext, ToolsVars, MemVars, Mem!vars
<1>10. which = "Tree" => [Disk!Tree!Next]_(Disk!Tree!vars)
  BY DEF ToolsNext, ToolsVars, TreeVars, Disk!Tree!vars
<1> QED BY <1>1, <1>2, <1>3, <1>4, <1>5, <1>6, <1>7, <1>8, <1>9, <1>10

\* A step of the program keeps what is known of it; nothing else changes.
LEMMA ToolsKeep ==
  ASSUME ToolsSafe, [ToolsNext]_ToolsVars
  PROVE  ToolsSafe'
<1> /\ ResSafe /\ CalibSafe /\ TlbSafe /\ CopySafe /\ PagesSafe
    /\ SearchSafe /\ PlcSafe /\ MemSafe /\ TreeSafe
  BY DEF ToolsSafe
<1>1. ResSafe'
  <2> SUFFICES ASSUME which = "Res" PROVE Lib!RInv'
    BY ToolsStep DEF ResSafe
  <2>1. Lib!RInv /\ [Lib!Res!Next]_(Lib!Res!rvars)
    BY ToolsStep DEF ResSafe
  <2> QED BY <2>1, ResultsAssumption, Lib!ResKeeps
<1>2. CalibSafe'
  <2> SUFFICES ASSUME which = "Calib" PROVE Lib!CInv'
    BY ToolsStep DEF CalibSafe
  <2>1. Lib!CInv /\ [Lib!Calib!Next]_(Lib!Calib!vars)
    BY ToolsStep DEF CalibSafe
  <2> QED BY <2>1, CalibrationAssumption, Lib!CalibKeeps
<1>3. TlbSafe'
  <2> SUFFICES ASSUME which = "Tlb" PROVE TlbInv'
    BY ToolsStep DEF TlbSafe
  <2>1. TlbInv /\ [Tlb!Next]_(Tlb!vars)
    BY ToolsStep DEF TlbSafe
  <2> QED BY <2>1, TlbKeeps
<1>4. CopySafe'
  <2> SUFFICES ASSUME which = "Copy" PROVE Disk!CopyInv' /\ Disk!Accounts'
    BY ToolsStep DEF CopySafe
  <2>1. Disk!CopyInv /\ Disk!Accounts /\ [Disk!Copy!Next]_(Disk!Copy!vars)
    BY ToolsStep DEF CopySafe
  <2>2. Disk!CopyInv'
    BY <2>1, CopyAssumption, Disk!CopyKeeps
  <2>3. Disk!Accounts'
    BY <2>1, CopyAssumption, Disk!AccountsKeep
  <2> QED BY <2>2, <2>3
<1>5. PagesSafe'
  <2> SUFFICES ASSUME which = "Pages" PROVE PagesInv'
    BY ToolsStep DEF PagesSafe
  <2>1. PagesInv /\ [Pages!Next]_(Pages!vars)
    BY ToolsStep DEF PagesSafe
  <2> QED BY <2>1, PagesAssumption, PagesKeep
<1>6. SearchSafe'
  <2> SUFFICES ASSUME which = "Search" PROVE SearchInv'
    BY ToolsStep DEF SearchSafe
  <2>1. SearchInv /\ [Search!Next]_(Search!vars)
    BY ToolsStep DEF SearchSafe
  <2> QED BY <2>1, SearchAssumption, SearchInvKeeps
<1>7. PlcSafe'
  <2> SUFFICES ASSUME which = "Plc" PROVE PlcInv'
    BY ToolsStep DEF PlcSafe
  <2>1. PlcInv /\ [Plc!Next]_(Plc!vars)
    BY ToolsStep DEF PlcSafe
  <2> QED BY <2>1, PlcAssumption, PlcKeeps
<1>8. MemSafe'
  <2> SUFFICES ASSUME which = "Mem" PROVE MemInv'
    BY ToolsStep DEF MemSafe
  <2>1. MemInv /\ [Mem!Next]_(Mem!vars)
    BY ToolsStep DEF MemSafe
  <2> QED BY <2>1, MemAssumption, MemKeeps
<1>9. TreeSafe'
  <2> SUFFICES ASSUME which = "Tree" PROVE Disk!TreeInv'
    BY ToolsStep DEF TreeSafe
  <2>1. Disk!TreeInv /\ [Disk!Tree!Next]_(Disk!Tree!vars)
    BY ToolsStep DEF TreeSafe
  <2> QED BY <2>1, TreeAssumption, Disk!TreeKeeps
<1> QED BY <1>1, <1>2, <1>3, <1>4, <1>5, <1>6, <1>7, <1>8, <1>9 DEF ToolsSafe

\* Every program begins as its own proof has it.
LEMMA ToolsBegin == ToolsInit => Inv /\ ToolsSafe
<1> SUFFICES ASSUME ToolsInit PROVE Inv /\ ToolsSafe
  OBVIOUS
<1>1. Init
  BY DEF ToolsInit, WatchIdle
<1>2. which = "Res" => Lib!Res!Init
  BY DEF ToolsInit
<1>3. which = "Calib" => Lib!Calib!Init
  BY DEF ToolsInit
<1>4. which = "Tlb" => Tlb!Init
  BY DEF ToolsInit
<1>5. ResSafe
  BY <1>2, ResultsAssumption, Lib!InitRInv DEF ResSafe
<1>6. CalibSafe
  BY <1>3, CalibrationAssumption, Lib!InitCInv DEF CalibSafe
<1>7. TlbSafe
  BY <1>4, TlbBegins DEF TlbSafe
<1>8. which = "Copy" => Disk!Copy!Init
  BY DEF ToolsInit
<1>9. CopySafe
  BY <1>8, CopyAssumption, Disk!CopyBegins, Disk!AccountsBegin DEF CopySafe
<1>10. PagesSafe
  <2>1. which = "Pages" => Pages!Init
    BY DEF ToolsInit
  <2> QED BY <2>1, PagesAssumption, PagesBegin DEF PagesSafe
<1>11. SearchSafe
  <2>1. which = "Search" => Search!Init
    BY DEF ToolsInit
  <2> QED BY <2>1, SearchAssumption, SearchBegins DEF SearchSafe
<1>12. PlcSafe
  <2>1. which = "Plc" => Plc!Init
    BY DEF ToolsInit
  <2> QED BY <2>1, PlcAssumption, PlcBegins DEF PlcSafe
<1>13. MemSafe
  <2>1. which = "Mem" => Mem!Init
    BY DEF ToolsInit
  <2> QED BY <2>1, MemAssumption, MemBegins DEF MemSafe
<1>14. TreeSafe
  <2>1. which = "Tree" => Disk!Tree!Init
    BY DEF ToolsInit
  <2> QED BY <2>1, TreeAssumption, Disk!TreeBegins DEF TreeSafe
<1> QED BY <1>1, <1>5, <1>6, <1>7, <1>9, <1>10, <1>11, <1>12, <1>13, <1>14,
           InitInv DEF ToolsSafe

(* What holds in every state of every one of these programs.               *)
THEOREM ToolsInvariance == ToolsSpec => [](Inv /\ ToolsSafe)
<1>1. ASSUME Inv, [ToolsNext]_ToolsVars PROVE Inv'
  BY <1>1, ToolsStep, InvStep
<1>2. Inv /\ ToolsSafe /\ [ToolsNext]_ToolsVars
      => Inv' /\ ToolsSafe'
  BY <1>1, ToolsKeep
<1> QED BY <1>2, ToolsBegin, PTL DEF ToolsSpec

(* lib_timing.c: in whatever order the children answer, the merged array   *)
(* holds what they measured, sorted and within its slots, and the median   *)
(* is a middle element of it.                                              *)
THEOREM MergedResults == ToolsSpec => []Merged
<1>1. ToolsSafe => Merged
  BY ResultsAssumption, Lib!ResImplied DEF ToolsSafe, ResSafe, Merged
<1> QED BY <1>1, ToolsInvariance, PTL

(* lib_timing.c: calibrating happens once and disturbs no caller.          *)
THEOREM CallerUndisturbed == ToolsSpec => []LeavesCallerAlone
<1>1. ToolsSafe => LeavesCallerAlone
  BY CalibrationAssumption, Lib!CalibImplied DEF ToolsSafe, CalibSafe, LeavesCallerAlone
<1> QED BY <1>1, ToolsInvariance, PTL

(* tlb.c: find_tlb() returns the last size before a measured step, and     *)
(* never returns 0 when it has measured one.                               *)
THEOREM LastBeforeStep == ToolsSpec => [](which = "Tlb" => Tlb!StepFound)
<1>1. ToolsSafe => (which = "Tlb" => Tlb!StepFound)
  BY DEF ToolsSafe, TlbSafe, TlbInv
<1> QED BY <1>1, ToolsInvariance, PTL

(* lmdd.c: in a copy every block is written where it was read, in order    *)
(* and without gaps, with or without children, for every block size, size  *)
(* of the input, count and area; random offsets stay in the area and, with *)
(* norepeat, only the first comes twice.                                   *)
THEOREM BlocksInPlace == ToolsSpec => []InPlace
<1>1. ToolsSafe => InPlace
  BY CopyAssumption, Disk!CopyImplied DEF ToolsSafe, CopySafe, InPlace
<1> QED BY <1>1, ToolsInvariance, PTL

(* lmdd.c: what it prints as written is what it and its children wrote,    *)
(* whatever reads, writes and forks fail or fall short, and no more blocks *)
(* are copied than count= asks for; with rtmax= the histogram holds every  *)
(* read that was timed, once.                                              *)
THEOREM AmountsAccounted == ToolsSpec => []Accounted
<1>1. ToolsSafe => Accounted
  BY CopyAssumption, Disk!AccountsImplied DEF ToolsSafe, CopySafe, Accounted
<1> QED BY <1>1, ToolsInvariance, PTL

(* cache.c: whatever remove_chunk() and fixup_chunk() exchange, sort and   *)
(* back out, the list of pages holds every page once, for any number of    *)
(* pages, chunk size and measured times, if sizeof(int) is sizeof(size_t). *)
THEOREM PagesNeverLost == ToolsSpec => []PagesPermuted
<1>1. ToolsSafe => PagesPermuted
  BY PagesImplied DEF ToolsSafe, PagesSafe, PagesPermuted
<1> QED BY <1>1, ToolsInvariance, PTL

(* cache.c, tlb.c: when search() returns, every step of the latency it has *)
(* measured lies between adjacent sizes, and the levels main() then finds  *)
(* grow, for any number of sizes and whatever is measured.                 *)
THEOREM AllStepsRefined == ToolsSpec => []StepsRefined
<1>1. ToolsSafe => StepsRefined
  <2>1. SearchInv => Search!StepsRefined
    BY SearchAssumption, RefinedImplied
  <2>2. SearchInv => Search!TypeOK /\ Search!LevelsGrow
    BY SearchAssumption, LevelsImplied
  <2>3. TlbInv => Tlb!StepFound
    BY DEF TlbInv
  <2> QED BY <2>1, <2>2, <2>3 DEF ToolsSafe, SearchSafe, TlbSafe, StepsRefined
<1> QED BY <1>1, ToolsInvariance, PTL

(* lib_sched.c, lat_proc.c: for any number of processors, processes and    *)
(* any affinity mask, processes and their children have a processor of     *)
(* their own or share one, as LMBENCH_SCHED asks.                          *)
THEOREM ProcessorsOwn == ToolsSpec => []OwnProcessor
<1>1. ToolsSafe => OwnProcessor
  BY PlcAssumption, PlcImplied DEF ToolsSafe, PlcSafe, OwnProcessor
<1> QED BY <1>1, ToolsInvariance, PTL

(* lat_fs.c: for any number of files and any -n of 2 or more, the arrays   *)
(* setup_names() allocates are never overrun by its recursion and are full *)
(* when it returns, with every name once, in a directory that was made     *)
(* before it and has no more than max of them; and an interval leaves      *)
(* nothing on the disk, whatever mkdir() and creat() fail.                 *)
THEOREM NamesFit == ToolsSpec => []TreeFits
<1>1. ToolsSafe => TreeFits
  BY TreeAssumption, Disk!TreeImplied DEF ToolsSafe, TreeSafe, TreeFits
<1> QED BY <1>1, ToolsInvariance, PTL

(* lib_mem.c: a walk is in the chain that is there now, in whatever order  *)
(* chains are built and freed, and whatever addresses malloc() returns:    *)
(* the pointer a walk resumes from never belongs to a chain before.        *)
THEOREM WalksResumeHere == ToolsSpec => [](which = "Mem" => Mem!ResumesHere)
<1>1. ToolsSafe => (which = "Mem" => Mem!ResumesHere)
  BY MemImplied DEF ToolsSafe, MemSafe
<1> QED BY <1>1, ToolsInvariance, PTL
==============================================================================
