----------------------------- MODULE LoadBarrier -----------------------------
(***************************************************************************)
(* What benchmp() promises, without pipes, signals or a parent's program:  *)
(* a measurement is taken by a team of workers, each measuring only while  *)
(* every worker of the team supplies load.  There are two barriers.  No    *)
(* worker measures before all are loaded, and none stops supplying load    *)
(* (to report) before all have finished measuring.  A worker may die at    *)
(* any time; the others need not notice.  Once the coordinator has hung up *)
(* nothing is promised any more: its result is already made or is void.    *)
(***************************************************************************)
CONSTANT Worker
VARIABLES phase, up
bvars == <<phase, up>>

Phases == {"off", "loaded", "measuring", "stopped", "reporting", "dead"}

BInit == phase = [w \in Worker |-> "off"] /\ up = TRUE

Move(w, from, to) ==
    /\ phase[w] = from
    /\ phase' = [phase EXCEPT ![w] = to]
    /\ UNCHANGED up

Load(w) == Move(w, "off", "loaded")

\* The first barrier.
Measure(w) ==
    /\ up => \A v \in Worker : phase[v] # "off"
    /\ Move(w, "loaded", "measuring")

Finish(w) == Move(w, "measuring", "stopped")

\* The second barrier.
Report(w) ==
    /\ up => \A v \in Worker : phase[v] \in {"stopped", "reporting", "dead"}
    /\ Move(w, "stopped", "reporting")

Perish(w) ==
    /\ phase' = [phase EXCEPT ![w] = "dead"]
    /\ UNCHANGED up

HangUp == up' = FALSE /\ UNCHANGED phase

BNext ==
    \/ \E w \in Worker :
          Load(w) \/ Measure(w) \/ Finish(w) \/ Report(w) \/ Perish(w)
    \/ HangUp

BSpec == BInit /\ [][BNext]_bvars
=============================================================================
