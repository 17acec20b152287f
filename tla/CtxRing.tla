------------------------------- MODULE CtxRing -------------------------------
(***************************************************************************)
(* lat_ctx: the context switch benchmark, as it runs in one child of       *)
(* benchmp() ("main" below).  initialize() makes procs pipes and forks     *)
(* procs - 1 daemons; daemon k reads from pipe k - 1 and writes to pipe k; *)
(* main writes to pipe 0 and reads from the last pipe.  One token goes     *)
(* round, and the time of a round is divided by procs.                     *)
(*                                                                         *)
(* There are two programs: lat_ctx_qnx.c closes in each daemon the pipe    *)
(* ends it does not use, in lat_ctx.c that loop is compiled out.           *)
(***************************************************************************)
EXTENDS Integers

CONSTANTS
    Procs,        \* state.procs
    Variants,     \* which programs: FALSE for lat_ctx.c, TRUE for lat_ctx_qnx.c
    Faults,       \* what may fail: a subset of FaultKinds
    MaxRounds,    \* bound: rounds of the token
    MaxCrash      \* bound: daemons killed from outside

FaultKinds == {"pipe", "fork", "malloc", "kill"}

ASSUME ProcsAssumption == Procs \in Nat \ {0}
ASSUME VariantAssumption == Variants \subseteq BOOLEAN /\ Faults \subseteq FaultKinds
ASSUME CtxBoundAssumption == MaxRounds \in Nat /\ MaxCrash \in Nat

Daemons == 1..(Procs - 1)
Pipes == 0..(Procs - 1)

VARIABLES
    closes,       \* does a daemon close the ends it does not use?
    mpc,          \* where main is
    n,            \* its loop index in create_daemons() and cleanup()
    armed,        \* is SIGCHLD caught by benchmp_child_sigchld?
    pend,         \* SIGCHLD sent to main and not handled
    rounds,       \* rounds main has completed, the priming one included
    pipe,         \* messages in each pipe
    d,            \* where each daemon is
    passes,       \* messages each daemon has forwarded
    crashes
mainVars == <<closes, mpc, n, armed, rounds>>
vars == <<mainVars, pend, pipe, d, passes, crashes>>

Live(k) == d[k] \in {"close", "read", "write"}
Ended == mpc \in {"done", "dead"}

\* Who holds the ends of pipe k: main until cleanup_overhead(), a daemon those it
\* has not closed.
MainOpen == mpc \notin {"kill", "wait", "done", "dead"}
KeepsAll(j) == d[j] = "close" \/ ~closes
Writes_Both(j, k) == Live(j) /\ (k \in {j - 1, j} \/ KeepsAll(j))    \* seeded fault: one end kept
Writes(j, k) == Live(j) /\ (k = j \/ KeepsAll(j))
Reads(j, k) == Live(j) /\ (k = j - 1 \/ KeepsAll(j))
NoWriter(k) == ~MainOpen /\ \A j \in Daemons : ~Writes(j, k)
NoReader(k) == ~MainOpen /\ \A j \in Daemons : ~Reads(j, k)

\* A daemon ends and its parent gets a SIGCHLD.
ExitDaemon(k) ==
    /\ d' = [d EXCEPT ![k] = "zombie"]
    /\ pend' = (pend \/ (armed /\ ~Ended))

Init ==
    /\ closes \in Variants
    /\ mpc = "pipes" /\ n = 1 /\ armed = TRUE /\ pend = FALSE /\ rounds = 0
    /\ pipe = [k \in Pipes |-> 0]
    /\ d = [k \in Daemons |-> "unborn"] /\ passes = [k \in Daemons |-> 0]
    /\ crashes = 0

-----------------------------------------------------------------------------
(* initialize()                                                            *)

CreatePipes ==
    /\ mpc = "pipes"
    /\ \/ mpc' = "fork"
       \/ "pipe" \in Faults /\ mpc' = "dead"          \* cleanup_overhead(0), exit(1)
    /\ UNCHANGED <<closes, n, armed, rounds, pend, pipe, d, passes, crashes>>

\* for (i = 1; i < procs; ++i)
MoreDaemons == n < Procs

\* A daemon, or after the last one the step to the priming of the ring.
Fork ==
    /\ mpc = "fork"
    /\ IF MoreDaemons
       THEN d' = [d EXCEPT ![n] = "close"] /\ n' = n + 1 /\ UNCHANGED mpc
       ELSE mpc' = "primeWrite" /\ UNCHANGED <<d, n>>
    /\ UNCHANGED <<closes, armed, rounds, pend, pipe, passes, crashes>>

\* create_daemons() returns i; initialize() calls cleanup(0, cookie) under the
\* harness's SIGCHLD handler.
ForkFails ==
    /\ mpc = "fork" /\ MoreDaemons /\ "fork" \in Faults
    /\ mpc' = "kill" /\ n' = 1
    /\ UNCHANGED <<closes, armed, rounds, pend, pipe, d, passes, crashes>>

-----------------------------------------------------------------------------
(* The ring: the priming round of create_daemons(), benchmark(), doit().   *)

MainWrite ==
    /\ mpc \in {"primeWrite", "write"}
    /\ pipe' = [pipe EXCEPT ![0] = @ + 1]
    /\ mpc' = IF mpc = "write" THEN "read" ELSE "primeRead"
    /\ UNCHANGED <<closes, n, armed, rounds, pend, d, passes, crashes>>

\* p[procs-1][0].
LastPipe_First == 0                                   \* seeded fault: main reads its own pipe
LastPipe == Procs - 1

\* Blocks while the pipe is empty: main itself holds a write end, there is no EOF.
MainRead ==
    /\ mpc \in {"primeRead", "read"} /\ pipe[LastPipe] > 0
    /\ pipe' = [pipe EXCEPT ![LastPipe] = @ - 1]
    /\ rounds' = rounds + 1
    /\ \/ mpc = "read" /\ rounds' < MaxRounds /\ mpc' = "write" /\ UNCHANGED armed
       \/ mpc = "read" /\ mpc' = "harness" /\ armed' = FALSE
       \/ mpc = "primeRead" /\ mpc' = "harness" /\ UNCHANGED armed
    /\ UNCHANGED <<closes, n, pend, d, passes, crashes>>

StartBatch ==
    /\ mpc = "harness" /\ rounds < MaxRounds
    /\ mpc' = "write"
    /\ UNCHANGED <<closes, n, armed, rounds, pend, pipe, d, passes, crashes>>

\* doit(): malloc(), after the close loop of lat_ctx_qnx.c.
DaemonStart(k) ==
    /\ d[k] = "close"
    /\ \/ d' = [d EXCEPT ![k] = "read"] /\ UNCHANGED pend
       \/ "malloc" \in Faults /\ ExitDaemon(k)
    /\ UNCHANGED <<mainVars, pipe, passes, crashes>>

\* Seeded fault: rd is p[i][0].
DaemonRead_Own(k) ==
    /\ d[k] = "read" /\ pipe[k] > 0
    /\ pipe' = [pipe EXCEPT ![k] = @ - 1]
    /\ d' = [d EXCEPT ![k] = "write"]
    /\ UNCHANGED <<mainVars, pend, passes, crashes>>

\* Seeded fault: the message stays in the pipe.
DaemonRead_Peeks(k) ==
    /\ d[k] = "read" /\ pipe[k - 1] > 0
    /\ d' = [d EXCEPT ![k] = "write"]
    /\ UNCHANGED <<mainVars, pend, pipe, passes, crashes>>

DaemonRead(k) ==
    /\ d[k] = "read" /\ pipe[k - 1] > 0
    /\ pipe' = [pipe EXCEPT ![k - 1] = @ - 1]
    /\ d' = [d EXCEPT ![k] = "write"]
    /\ UNCHANGED <<mainVars, pend, passes, crashes>>

DaemonWrite(k) ==
    /\ d[k] = "write" /\ ~NoReader(k)
    /\ pipe' = [pipe EXCEPT ![k] = @ + 1]
    /\ passes' = [passes EXCEPT ![k] = @ + 1]
    /\ d' = [d EXCEPT ![k] = "read"]
    /\ UNCHANGED <<mainVars, pend, crashes>>

\* End of file, or a write that nobody can read.
DaemonEnds(k) ==
    /\ \/ d[k] = "read" /\ pipe[k - 1] = 0 /\ NoWriter(k - 1)
       \/ d[k] = "write" /\ NoReader(k)
    /\ ExitDaemon(k)
    /\ UNCHANGED <<mainVars, pipe, passes, crashes>>

DaemonCrash(k) ==
    /\ Live(k) /\ crashes < MaxCrash
    /\ crashes' = crashes + 1
    /\ ExitDaemon(k)
    /\ UNCHANGED <<mainVars, pipe, passes>>

-----------------------------------------------------------------------------
(* cleanup()                                                               *)

\* benchmp_interval() calls cleanup(0, cookie), with SIGCHLD set to its default.
Finish ==
    /\ mpc = "harness"
    /\ mpc' = "kill" /\ n' = 1 /\ armed' = FALSE
    /\ UNCHANGED <<closes, rounds, pend, pipe, d, passes, crashes>>

\* Seeded fault: the last daemon is forgotten.
Kill_NotLast ==
    /\ mpc = "kill"
    /\ IF n < Procs - 1
       THEN IF d[n] = "unborn"
            THEN n' = n + 1 /\ UNCHANGED <<mpc, d, pend>>
            ELSE ExitDaemon(n) /\ mpc' = "wait" /\ UNCHANGED n
       ELSE mpc' = "done" /\ UNCHANGED <<n, d, pend>>
    /\ UNCHANGED <<closes, armed, rounds, pipe, passes, crashes>>

\* SIGKILL for every pids[i] > 0 ...
Kill ==
    /\ mpc = "kill"
    /\ IF n < Procs
       THEN IF d[n] = "unborn"
            THEN n' = n + 1 /\ UNCHANGED <<mpc, d, pend>>
            ELSE ExitDaemon(n) /\ mpc' = "wait" /\ UNCHANGED n
       ELSE mpc' = "done" /\ UNCHANGED <<n, d, pend>>
    /\ UNCHANGED <<closes, armed, rounds, pipe, passes, crashes>>

\* ... and waitpid() for it.
Wait ==
    /\ mpc = "wait" /\ d[n] = "zombie"
    /\ d' = [d EXCEPT ![n] = "reaped"]
    /\ n' = n + 1 /\ mpc' = "kill"
    /\ UNCHANGED <<closes, armed, rounds, pend, pipe, passes, crashes>>

\* benchmp_child_sigchld: cleanup() is called with the harness's own state for a
\* cookie.  Whatever it makes of that, it kills no daemon; exit(1) at the latest.
Sigchld ==
    /\ pend /\ armed /\ ~Ended
    /\ mpc' = "dead" /\ pend' = FALSE
    /\ UNCHANGED <<closes, n, armed, rounds, pipe, d, passes, crashes>>

MainKilled ==
    /\ ~Ended /\ "kill" \in Faults
    /\ mpc' = "dead"
    /\ UNCHANGED <<closes, n, armed, rounds, pend, pipe, d, passes, crashes>>

MainStep ==
    \/ CreatePipes \/ Fork \/ ForkFails \/ MainWrite \/ MainRead \/ StartBatch
    \/ Finish \/ Kill \/ Wait
DaemonStep(k) == DaemonStart(k) \/ DaemonRead(k) \/ DaemonWrite(k) \/ DaemonEnds(k)

Next ==
    \/ MainStep \/ Sigchld \/ MainKilled
    \/ \E k \in Daemons : DaemonStep(k) \/ DaemonCrash(k)

Spec == Init /\ [][Next]_vars

\* Every process is scheduled, a pending signal is delivered.
FairSpec ==
    /\ Spec
    /\ WF_vars(MainStep) /\ WF_vars(Sigchld)
    /\ \A k \in Daemons : WF_vars(DaemonStep(k))

-----------------------------------------------------------------------------
(* Properties.                                                             *)

MainPCs ==
    {"pipes", "fork", "primeWrite", "primeRead", "harness", "write", "read", "kill",
     "wait", "done", "dead"}

FlagType == closes \in BOOLEAN /\ armed \in BOOLEAN /\ pend \in BOOLEAN
RingType ==
    /\ mpc \in MainPCs /\ n \in 1..Procs /\ rounds \in Nat /\ crashes \in 0..MaxCrash
    /\ pipe \in [Pipes -> Nat] /\ passes \in [Daemons -> Nat]
    /\ d \in [Daemons -> {"unborn", "close", "read", "write", "zombie", "reaped"}]

\* The variables have their types, and the loops over pids[] stay inside it.
TypeOK == FlagType /\ RingType

\* Main has the token, or has not sent it yet.
MainHolds == mpc \in {"pipes", "fork", "primeWrite", "harness", "write"}
Holds(k) == d[k] = "write"

\* There is one token: in one pipe, in one daemon, with main, or lost with a
\* daemon that died.  A second one would let two processes run at a time.
OneToken ==
    /\ \A k \in Pipes : pipe[k] <= 1
    /\ \A k, l \in Pipes : pipe[k] > 0 /\ pipe[l] > 0 => k = l
    /\ \A k, l \in Daemons : Holds(k) /\ Holds(l) => k = l
    /\ \A k \in Pipes, l \in Daemons : ~(pipe[k] > 0 /\ Holds(l))
    /\ MainHolds => (\A k \in Pipes : pipe[k] = 0) /\ (\A l \in Daemons : ~Holds(l))

\* "time /= state.procs" (lat_ctx.c 141): whenever the harness or the loop of
\* benchmark() has counted a round, every daemon was switched to once in it.
EveryoneSwitched ==
    mpc \in {"harness", "write"} => \A k \in Daemons : passes[k] = rounds

\* cleanup() returns when every daemon has been killed and waited for.
NoDaemonLeft == mpc = "done" => \A k \in Daemons : d[k] \in {"unborn", "reaped"}

\* Where a daemon closes the ends it does not use (lat_ctx_qnx.c), the end of main, in
\* whatever way, ends all daemons: each gets EOF from its predecessor.
DaemonsEnd == closes => (Ended ~> \A k \in Daemons : ~Live(k))

\* Main ends unless a daemon is killed from outside: a failing malloc() in a daemon
\* ends it by the SIGCHLD that is caught until the first batch is over.
MainEnds == <>(Ended \/ crashes > 0)

\* "Close the pipes and kill the children." (lat_ctx.c 255): once cleanup() is
\* called, no daemon survives.
CleanupKills == (mpc = "kill") ~> \A k \in Daemons : ~Live(k)

-----------------------------------------------------------------------------
(* The inductive invariant.                                                *)

\* How often each daemon has passed the token, for every place it can be in.
PassesInv ==
    /\ MainHolds => \A j \in Daemons : passes[j] = rounds
    /\ \A k \in Pipes : pipe[k] > 0 =>
          \A j \in Daemons : passes[j] = IF j <= k THEN rounds + 1 ELSE rounds
    /\ \A k \in Daemons : Holds(k) =>
          \A j \in Daemons : passes[j] = IF j < k THEN rounds + 1 ELSE rounds

\* What the loops of create_daemons() and cleanup() have left behind.
LoopInv ==
    /\ mpc = "pipes" => n = 1
    /\ mpc \in {"pipes", "fork"} => \A k \in Daemons : k >= n => d[k] = "unborn"
    /\ mpc \in {"kill", "wait"} => \A k \in Daemons : k < n => d[k] \in {"unborn", "reaped"}
    /\ mpc = "wait" => n < Procs

Inv == TypeOK /\ OneToken /\ PassesInv /\ LoopInv /\ NoDaemonLeft
=============================================================================
