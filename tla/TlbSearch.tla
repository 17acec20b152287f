----------------------------- MODULE TlbSearch ------------------------------
(***************************************************************************)
(* tlb.c, find_tlb(): the number of pages is doubled until a walk over     *)
(* pages is slower than one over lines, then the step is searched by       *)
(* bisection.  Whether a number of pages shows the effect is whatever      *)
(* compute_times() measures: it need not grow with the number.             *)
(***************************************************************************)
EXTENDS Naturals

CONSTANTS
    Starts,     \* find_tlb(start, ...): 8 in main()
    MaxPages    \* bound: maxpages

VARIABLES pc, i, lower, upper, maxpages, tlb,
          slow      \* what was measured last of each number of pages

vars == <<pc, i, lower, upper, maxpages, tlb, slow>>

Init ==
    /\ pc = "double"
    /\ i \in Starts /\ maxpages \in 1 .. MaxPages
    /\ lower = 0 /\ upper = 0 /\ tlb = 0
    /\ slow = [p \in 0 .. MaxPages |-> "unknown"]

compute_times(effect) == slow' = [slow EXCEPT ![i] = IF effect THEN "yes" ELSE "no"]

Middle(lo, up) == lo + ((up - lo) \div 2)

(* After the loop: "we can't find any tlb effect"                          *)
AfterLoop(last) == IF last >= maxpages THEN "done" ELSE "bisect"

(* for (i = start; i <= maxpages; i <<= 1)                                 *)
Double ==
    /\ pc = "double" /\ i <= maxpages
    /\ \/ /\ compute_times(TRUE)
          /\ lower' = i \div 2 /\ upper' = i
          /\ i' = Middle(i \div 2, i)
          /\ pc' = AfterLoop(Middle(i \div 2, i))
       \/ /\ compute_times(FALSE)
          /\ i' = i * 2
          /\ UNCHANGED <<pc, lower, upper>>
    /\ UNCHANGED <<maxpages, tlb>>

LoopEnds ==
    /\ pc = "double" /\ i > maxpages
    /\ pc' = AfterLoop(i)
    /\ UNCHANGED <<i, lower, upper, maxpages, tlb, slow>>

Bisect ==
    /\ pc = "bisect" /\ lower + 1 < upper
    /\ \/ compute_times(TRUE) /\ upper' = i /\ i' = Middle(lower, i) /\ UNCHANGED lower
       \/ compute_times(FALSE) /\ lower' = i /\ i' = Middle(i, upper) /\ UNCHANGED upper
    /\ UNCHANGED <<pc, maxpages, tlb>>

(* return (lower)                                                          *)
Found ==
    /\ pc = "bisect" /\ lower + 1 >= upper
    /\ tlb' = lower
    /\ pc' = "done"
    /\ UNCHANGED <<i, lower, upper, maxpages, slow>>

Next == Double \/ LoopEnds \/ Bisect \/ Found

Spec == Init /\ [][Next]_vars

-----------------------------------------------------------------------------
(* A size that is found is the last one without the effect: the next has   *)
(* it, and it was itself measured without, unless it is below where the    *)
(* search began.  Nothing is found only if no size measured had it.        *)
StepFound ==
    pc = "done" =>
        /\ tlb > 0 => /\ slow[tlb + 1] = "yes"
                      /\ slow[tlb] = "no" \/ \E s \in Starts : tlb = s \div 2
        /\ tlb = 0 => \A p \in 2 .. maxpages : slow[p] # "yes"
=============================================================================
