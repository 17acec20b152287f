----------------------------- MODULE Calibration ----------------------------
(***************************************************************************)
(* lib_timing.c: how long a measurement has to be (compute_enough), what   *)
(* reading the clock and running an empty loop cost (t_overhead,           *)
(* l_overhead), and the loop macros of bench.h that use them.  All of it   *)
(* is computed on the first call of any of these functions, which call     *)
(* each other, and which use the global results, n and time of the caller. *)
(***************************************************************************)
EXTENDS Integers, Sequences, SequencesExt, FiniteSetsExt

CONSTANTS
    Possibilities,  \* the intervals tried, the shortest first
    Default,        \* SHORT, if none of them is accurate
    Noise,          \* 50000: above this the clock's own cost is not measured
    Calls           \* bound: calls made by the program

VARIABLES
    stack,      \* the active calls: [fn, step, save]
    done,       \* init_timing(): done
    init,       \* `initialized' of t_overhead and l_overhead
    enough,     \* long_enough
    overhead,   \* the two overheads: 0 until computed
    res,        \* the global result array, n and time: whose values they are
    env,        \* the environment variables that replace a computation
    ran,        \* how often each value was computed
    calls,      \* calls made so far
    before      \* res when the outermost call was made, and whether calibrated

vars == <<stack, done, init, enough, overhead, res, env, ran, calls, before>>

Functions == {"get_enough", "t_overhead", "l_overhead"}
Top == Last(stack)
Frame(f) == [fn |-> f, step |-> 1, save |-> 0]

Init ==
    /\ stack = <<>>
    /\ done = FALSE
    /\ init = [t |-> FALSE, l |-> FALSE]
    /\ enough = 0
    /\ overhead = [t |-> 0, l |-> 0]
    /\ res = [results |-> "caller", time |-> "caller"]
    /\ env \in [enough : BOOLEAN, t : BOOLEAN, l : BOOLEAN]
    /\ ran = [enough |-> 0, t |-> 0, l |-> 0]
    /\ calls = 0
    /\ before = [res |-> res, done |-> FALSE]

(* The program calls one of the functions.                                 *)
Call ==
    /\ stack = <<>>
    /\ calls < Calls
    /\ \E f \in Functions : stack' = <<Frame(f)>>
    /\ calls' = calls + 1
    /\ before' = [res |-> res, done |-> done]
    /\ UNCHANGED <<done, init, enough, overhead, res, env, ran>>

Goto(n) == [stack EXCEPT ![Len(stack)].step = n]
Calling(f, n) == Append(Goto(n), Frame(f))

At(f, n) == stack # <<>> /\ Top.fn = f /\ Top.step = n

Return ==
    /\ stack' = Front(stack)
    /\ UNCHANGED <<done, init, enough, overhead, res, env, ran, calls, before>>

JustCall(f, n) ==
    /\ stack' = Calling(f, n)
    /\ UNCHANGED <<done, init, enough, overhead, res, env, ran, calls, before>>

(* All three begin with init_timing().                                     *)
Enter == \E f \in Functions : At(f, 1) /\ JustCall("init_timing", 2)

get_enough == At("get_enough", 2) /\ Return

-----------------------------------------------------------------------------
(* init_timing() marks itself as done before it does anything.             *)
init_timing ==
    /\ At("init_timing", 1)
    /\ IF done THEN Return
       ELSE /\ done' = TRUE
            /\ stack' = Goto(2)
            /\ UNCHANGED <<init, enough, overhead, res, env, ran, calls, before>>

(* compute_enough(): the first interval for which test_time() finds that   *)
(* small changes of the work change the time in proportion.  time_N() puts *)
(* the caller's results back, but not n and the time: they become those of *)
(* the median of these results.                                            *)
compute_enough ==
    /\ At("init_timing", 2)
    /\ stack' = Goto(3)
    /\ IF env.enough
       THEN /\ enough' \in {Min(Possibilities), Default}
            /\ UNCHANGED res
       ELSE /\ enough' \in Possibilities \cup {Default}
            /\ res' = [res EXCEPT !.time = "median"]
    /\ ran' = [ran EXCEPT !.enough = @ + 1]
    /\ UNCHANGED <<done, init, overhead, env, calls, before>>

InitCalls ==
    \/ At("init_timing", 3) /\ JustCall("t_overhead", 4)
    \/ At("init_timing", 4) /\ JustCall("l_overhead", 5)
    \/ At("init_timing", 5) /\ Return

-----------------------------------------------------------------------------
(* The two overheads.  Each is marked as initialized before it is          *)
(* measured, saves the caller's results, n and time, and puts them back.   *)
Key(f) == IF f = "t_overhead" THEN "t" ELSE "l"

Begin ==
    \E f \in {"t_overhead", "l_overhead"} :
        /\ At(f, 2)
        /\ IF init[Key(f)] THEN Return
           ELSE /\ init' = [init EXCEPT ![Key(f)] = TRUE]
                /\ stack' = Goto(3)
                /\ UNCHANGED <<done, enough, overhead, res, env, ran, calls, before>>

(* The environment has the value; or reading the clock is in the noise.    *)
Given ==
    \E f \in {"t_overhead", "l_overhead"} :
        /\ At(f, 3)
        /\ env[Key(f)] \/ (f = "t_overhead" /\ enough > Noise)
        /\ overhead' = [overhead EXCEPT ![Key(f)] = 1]
        /\ stack' = Front(stack)
        /\ UNCHANGED <<done, init, enough, res, env, ran, calls, before>>

Save ==
    \E f \in {"t_overhead", "l_overhead"} :
        /\ At(f, 3)
        /\ ~ env[Key(f)] /\ (f = "t_overhead" => enough <= Noise)
        /\ stack' = [stack EXCEPT ![Len(stack)] = [fn |-> f, step |-> 4, save |-> res]]
        /\ UNCHANGED <<done, init, enough, overhead, res, env, ran, calls, before>>

(* BENCH_INNER asks for the interval; l_overhead() also for t_overhead().  *)
Nested ==
    \/ \E f \in {"t_overhead", "l_overhead"} : At(f, 4) /\ JustCall("get_enough", 5)
    \/ At("l_overhead", 5) /\ JustCall("t_overhead", 6)

(* The measurement itself: TRIES times BENCH_INNER into arrays of its own. *)
MeasureOverhead ==
    \E f \in {"t_overhead", "l_overhead"} :
        /\ At(f, IF f = "t_overhead" THEN 5 ELSE 6)
        /\ stack' = Goto(7)
        /\ res' = [results |-> f, time |-> f]
        /\ overhead' = [overhead EXCEPT ![Key(f)] = 1]
        /\ ran' = [ran EXCEPT ![Key(f)] = IF enough = 0 THEN 99 ELSE @ + 1]
        /\ UNCHANGED <<done, init, enough, env, calls, before>>

(* Mutant of PutBack: n and the time are not put back.                     *)
PutBack_ResultsOnly ==
    \E f \in {"t_overhead", "l_overhead"} :
        /\ At(f, 7)
        /\ res' = [Top.save EXCEPT !.time = "median"]
        /\ stack' = Front(stack)
        /\ UNCHANGED <<done, init, enough, overhead, env, ran, calls, before>>

PutBack ==
    \E f \in {"t_overhead", "l_overhead"} :
        /\ At(f, 7)
        /\ res' = Top.save
        /\ stack' = Front(stack)
        /\ UNCHANGED <<done, init, enough, overhead, env, ran, calls, before>>

Next == \/ Call \/ Enter \/ get_enough \/ init_timing \/ compute_enough \/ InitCalls
        \/ Begin \/ Given \/ Save \/ Nested \/ MeasureOverhead \/ PutBack

Spec == Init /\ [][Next]_vars

-----------------------------------------------------------------------------
TypeOK ==
    /\ done \in BOOLEAN
    /\ init \in [t : BOOLEAN, l : BOOLEAN]
    /\ enough \in Possibilities \cup {0, Default}
    /\ Len(stack) <= 8

(* Each value is computed at most once, however the functions call each    *)
(* other, never by a loop that does not know yet how long to run, and when *)
(* a call of the program returns, everything has been computed.            *)
CalibratedOnce ==
    /\ \A k \in {"enough", "t", "l"} : ran[k] <= 1
    /\ Len(stack) <= 8
    /\ stack = <<>> /\ calls > 0 => enough > 0 /\ overhead = [t |-> 1, l |-> 1]

(* A call leaves the caller's results alone; its n and time only if the    *)
(* library was calibrated before.                                          *)
LeavesCallerAlone ==
    stack = <<>> /\ calls > 0 =>
        /\ res.results = before.res.results
        /\ before.done \/ env.enough => res.time = before.res.time
=============================================================================
