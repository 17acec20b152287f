------------------------------- MODULE Benchmp -------------------------------
(***************************************************************************)
(* benchmp(), the timing harness every lat_ and bw_ benchmark runs under   *)
(* (lib_timing.c 84-770).  The calling process forks `parallel' children   *)
(* that execute the same benchmark function, and steers them through       *)
(*                                                                         *)
(*    warmup  -->  timing_interval  -->  cooldown  -->  report, exit       *)
(*                                                                         *)
(* over four shared pipes.  A byte on a pipe carries no sender and no      *)
(* meaning: the parent counts bytes, so the protocol is right only if the  *)
(* bytes it counts are the ones it was waiting for.  When parallel > 1 the *)
(* whole procedure is first executed with one child (round "base"), and    *)
(* its result sizes the batches of the real round (round "par").           *)
(*                                                                         *)
(* Signals have the semantics of glibc's signal(): the handler stays       *)
(* installed and an interrupted read() or waitpid() is restarted.          *)
(***************************************************************************)
EXTENDS Integers, FiniteSets

CONSTANTS
    N,            \* parallel: children of the main round
    R,            \* repetitions: timing intervals each child must complete (1 for -N 0 too)
    HasCleanup,   \* does the benchmark pass a cleanup function?
    Earlier,      \* has this process called benchmp() before?
    MaxScale,     \* bound: how often a child may multiply its iterations by 8
    MaxTerm,      \* bound: SIGTERMs sent to the parent from outside
    MaxCrash,     \* bound: children that die inside their benchmark code
    Faults        \* which calls may fail: a subset of FaultKinds

FaultKinds == {"pipe", "malloc", "fork", "kill"}

ASSUME NAssumption == N \in Nat \ {0}
ASSUME RAssumption == R \in Nat \ {0}
ASSUME FlagAssumption == HasCleanup \in BOOLEAN /\ Earlier \in BOOLEAN
ASSUME BoundAssumption == MaxScale \in Nat /\ MaxTerm \in Nat /\ MaxCrash \in Nat
ASSUME FaultAssumption == Faults \subseteq FaultKinds

Kids == 0..N      \* 0 is the child of the baseline round, 1..N those of the main one

VARIABLES
    round,        \* "base": the recursive benchmp() with parallel = 1; "par": the call itself
    pc,           \* where the parent is
    i,            \* its loop index: forks, kills and waits
    got,          \* the response bytes counted by the collection loop it is in
    merged,       \* the children whose results are in merged_results
    timed,        \* gettime() # 0
    termH,        \* the parent's SIGTERM disposition
    savedTerm,    \* benchmp_sigterm_handler: the disposition found by signal()
    termFlag,     \* benchmp_sigterm_received
    chldFlag,     \* benchmp_sigchld_received
    chldArmed,    \* is benchmp_sigchld installed for SIGCHLD?
    alarmed,      \* has SIGALRM fired for the child being waited for?
    open,         \* does the parent hold its ends of the four pipes?
    resp,         \* unread messages in the response pipe
    startB,       \* unread bytes in start_signal
    resultB,      \* unread bytes in result_signal
    exitB,        \* unread bytes in exit_signal
    kpc,          \* where each child is
    st,           \* its benchmp_child_state.state
    need,         \* its need_warmup
    reps,         \* its i: completed timing intervals
    kept,         \* r->N: results it holds
    scale,        \* how often it has multiplied iterations by 8
    kterm,        \* its SIGTERM disposition
    kflag,        \* its copy of benchmp_sigterm_received
    kpend,        \* SIGTERM sent to it and not handled yet
    released,     \* calls of cleanup(0, cookie)
    misfired,     \* calls of cleanup(0, &_benchmp_child_state)
    terms,        \* SIGTERMs sent to the parent so far
    crashes       \* children that crashed so far

parentVars == <<round, pc, i, got, merged, timed>>
signalVars == <<termH, savedTerm, termFlag>>
chldVars   == <<chldFlag, chldArmed>>
pipeVars   == <<open, resp, startB, resultB, exitB>>
batchVars  == <<st, need, reps, kept, scale>>
killVars   == <<kterm, kflag>>
cleanVars  == <<released, misfired>>
faultVars  == <<terms, crashes>>
childVars  == <<kpc, batchVars, killVars, kpend, cleanVars>>

vars == <<parentVars, signalVars, chldVars, alarmed, pipeVars, childVars, faultVars>>

-----------------------------------------------------------------------------
(* Helpers.  A message is tagged with its meaning and its sender; the code *)
(* sees only that a byte (or r_size bytes of results) arrived.             *)

Msg(kind, c) == [kind |-> kind, from |-> c]
Messages == [kind: {"ready", "done", "results"}, from: Kids]

Parallel == IF round = "base" THEN 1 ELSE N
Kid(k) == IF round = "base" THEN 0 ELSE k + 1    \* the child whose pid is pids[k]
Active == IF round = "base" THEN {0} ELSE 1..N

Gone(c)  == kpc[c] \in {"zombie", "reaped"}
Alive(c) == kpc[c] \notin {"unborn", "zombie", "reaped"}

\* benchmp() returns: to the baseline's caller, or to the benchmark's main().
Return == pc' = IF round = "base" THEN "baseDone" ELSE "returned"

\* A child exits.  The parent's SIGCHLD handler is one-shot (98-106).
ExitFrom(c) ==
    /\ kpc' = [kpc EXCEPT ![c] = "zombie"]
    /\ chldFlag' = (chldFlag \/ chldArmed)
    /\ chldArmed' = FALSE

Kill(c) == kpend' = [kpend EXCEPT ![c] = Alive(c) \/ @]

\* waitpid(c): collects a zombie, blocks on a live child.
Reap(c) == kpc[c] = "zombie" /\ kpc' = [kpc EXCEPT ![c] = "reaped"]

-----------------------------------------------------------------------------
(* The initial state: benchmp() has been entered and settime(0) done.  A   *)
(* process that called benchmp() before still has benchmp_sigterm          *)
(* installed: the code never restores SIGTERM.                             *)

Init ==
    /\ round = IF N > 1 THEN "base" ELSE "par"
    /\ pc = "pipes" /\ i = 0 /\ got = {} /\ merged = {} /\ timed = FALSE
    /\ termH = IF Earlier THEN "flag" ELSE "default"
    /\ savedTerm = "default"
    /\ termFlag = FALSE /\ chldFlag = FALSE /\ chldArmed = FALSE /\ alarmed = FALSE
    /\ open = FALSE /\ resp = {} /\ startB = 0 /\ resultB = 0 /\ exitB = 0
    /\ kpc = [c \in Kids |-> "unborn"]
    /\ st = [c \in Kids |-> "warmup"]
    /\ need = [c \in Kids |-> TRUE]
    /\ reps = [c \in Kids |-> 0] /\ kept = [c \in Kids |-> 0] /\ scale = [c \in Kids |-> 0]
    /\ kterm = [c \in Kids |-> "flag"] /\ kflag = [c \in Kids |-> FALSE]
    /\ kpend = [c \in Kids |-> FALSE]
    /\ released = [c \in Kids |-> 0] /\ misfired = [c \in Kids |-> 0]
    /\ terms = 0 /\ crashes = 0

-----------------------------------------------------------------------------
(* benchmp(): pipes, handlers and forks.                                   *)

\* The four pipes exist, both flags are cleared and the handlers installed.
CreatePipes ==
    /\ pc = "pipes"
    /\ open' = TRUE /\ resp' = {} /\ startB' = 0 /\ resultB' = 0 /\ exitB' = 0
    /\ termFlag' = FALSE /\ chldFlag' = FALSE
    /\ savedTerm' = termH /\ termH' = "flag" /\ chldArmed' = TRUE
    /\ i' = 0 /\ got' = {} /\ merged' = {}
    /\ pc' = "pids"
    /\ UNCHANGED <<round, timed, alarmed, childVars, faultVars>>

PipesFail ==
    /\ pc = "pipes" /\ "pipe" \in Faults
    /\ Return
    /\ UNCHANGED <<round, i, got, merged, timed, signalVars, chldVars, alarmed,
                   pipeVars, childVars, faultVars>>

AllocPids ==
    /\ pc = "pids"
    /\ \/ pc' = "forkCheck"
       \/ "malloc" \in Faults /\ Return
    /\ UNCHANGED <<round, i, got, merged, timed, signalVars, chldVars, alarmed,
                   pipeVars, childVars, faultVars>>

\* Head of the fork loop; after the last child the child's pipe ends are closed.
ForkCheck ==
    /\ pc = "forkCheck"
    /\ pc' = IF i = Parallel THEN "parent"
             ELSE IF termFlag THEN "errKill" ELSE "fork"
    /\ UNCHANGED <<round, i, got, merged, timed, signalVars, chldVars, alarmed,
                   pipeVars, childVars, faultVars>>

\* The child inherits the handler benchmp_sigterm and the flag's present value.
Fork ==
    /\ pc = "fork"
    /\ kpc' = [kpc EXCEPT ![Kid(i)] = "setup"]
    /\ kflag' = [kflag EXCEPT ![Kid(i)] = termFlag]
    /\ i' = i + 1
    /\ pc' = "forkCheck"
    /\ UNCHANGED <<round, got, merged, timed, signalVars, chldVars, alarmed, pipeVars,
                   batchVars, kterm, kpend, cleanVars, faultVars>>

\* Seeded fault: returns without error_exit.
ForkFails_Leaks ==
    /\ pc = "fork" /\ "fork" \in Faults
    /\ Return
    /\ UNCHANGED <<round, i, got, merged, timed, signalVars, chldVars, alarmed,
                   pipeVars, childVars, faultVars>>

ForkFails ==
    /\ pc = "fork" /\ "fork" \in Faults
    /\ pc' = "errKill"
    /\ UNCHANGED <<round, i, got, merged, timed, signalVars, chldVars, alarmed,
                   pipeVars, childVars, faultVars>>

\* error_exit of benchmp(): newest child first; the pipes are left open.
ErrKill ==
    /\ pc = "errKill"
    /\ chldArmed' = FALSE
    /\ IF i > 0
       THEN /\ Kill(Kid(i - 1))
            /\ i' = i - 1
            /\ pc' = "errWait"
       ELSE Return /\ UNCHANGED <<i, kpend>>
    /\ UNCHANGED <<round, got, merged, timed, signalVars, chldFlag, alarmed, pipeVars,
                   kpc, batchVars, killVars, cleanVars, faultVars>>

ErrWait ==
    /\ pc = "errWait"
    /\ Reap(Kid(i))
    /\ pc' = "errKill"
    /\ UNCHANGED <<round, i, got, merged, timed, signalVars, chldVars, alarmed, pipeVars,
                   batchVars, killVars, kpend, cleanVars, faultVars>>

-----------------------------------------------------------------------------
(* benchmp_parent().                                                       *)

Interrupted == termFlag \/ chldFlag

\* A write to a pipe nobody reads any more raises SIGPIPE, which is fatal.
NoReaders == \A c \in Active : Gone(c)

Die ==
    /\ pc' = "dead"
    /\ open' = FALSE

ParentEntry ==
    /\ pc = "parent"
    /\ \/ /\ Interrupted
          /\ pc' = "pErr" /\ i' = 0
       \/ /\ ~Interrupted
          /\ pc' = "ready" /\ UNCHANGED i
       \/ /\ ~Interrupted /\ "malloc" \in Faults     \* returns to benchmp's cleanup_exit
          /\ pc' = "wait" /\ i' = Parallel
    /\ UNCHANGED <<round, got, merged, timed, signalVars, chldVars, alarmed, pipeVars,
                   childVars, faultVars>>

\* Has every child answered?  (i reached parallel * sizeof(char), or parallel.)
AllIn_OneShort(msgs) == Cardinality(msgs) >= Parallel - 1      \* seeded fault: stops one byte early
AllIn(msgs) == Cardinality(msgs) = Parallel

\* One turn of a loop that counts bytes on the response pipe: the flags are
\* looked at after every select(), whether or not a byte is there.
Collect(here, next) ==
    /\ pc = here
    /\ \/ /\ Interrupted
          /\ pc' = "pErr" /\ i' = 0
          /\ UNCHANGED <<got, resp>>
       \/ /\ ~Interrupted
          /\ \E m \in resp :
                /\ resp' = resp \ {m}
                /\ IF AllIn(got \cup {m})
                   THEN pc' = next /\ got' = {}
                   ELSE got' = got \cup {m} /\ UNCHANGED pc
          /\ UNCHANGED i
    /\ UNCHANGED <<round, merged, timed, signalVars, chldVars, alarmed, open, startB,
                   resultB, exitB, childVars, faultVars>>

CollectReady == Collect("ready", "start")
CollectDone  == Collect("done", "report")

\* Seeded fault: one start byte too few.
WriteStart_OneShort ==
    /\ pc = "start"
    /\ IF NoReaders
       THEN Die /\ UNCHANGED startB
       ELSE pc' = "done" /\ startB' = startB + Parallel - 1 /\ UNCHANGED open
    /\ UNCHANGED <<round, i, got, merged, timed, signalVars, chldVars, alarmed, resp,
                   resultB, exitB, childVars, faultVars>>

\* After the warmup sleep, one start byte per child in a single write().
WriteStart ==
    /\ pc = "start"
    /\ IF NoReaders
       THEN Die /\ UNCHANGED startB
       ELSE pc' = "done" /\ startB' = startB + Parallel /\ UNCHANGED open
    /\ UNCHANGED <<round, i, got, merged, timed, signalVars, chldVars, alarmed, resp,
                   resultB, exitB, childVars, faultVars>>

\* Seeded fault: asks all children at once.
WriteResultSignal_ToAll ==
    /\ pc = "report"
    /\ IF NoReaders
       THEN Die /\ UNCHANGED resultB
       ELSE pc' = "results" /\ resultB' = resultB + Parallel /\ UNCHANGED open
    /\ UNCHANGED <<round, i, got, merged, timed, signalVars, chldVars, alarmed, resp,
                   startB, exitB, childVars, faultVars>>

\* Ask for one child's results.
WriteResultSignal ==
    /\ pc = "report"
    /\ IF NoReaders
       THEN Die /\ UNCHANGED resultB
       ELSE pc' = "results" /\ resultB' = resultB + 1 /\ UNCHANGED open
    /\ UNCHANGED <<round, i, got, merged, timed, signalVars, chldVars, alarmed, resp,
                   startB, exitB, childVars, faultVars>>

\* Mutant of Merged: insertinit(merged_results) for every child, not once.
Merged_LastOnly(m) == {m.from}

\* insertsort() of a child's results into merged_results.
Merged(m) == merged \cup {m.from}

\* Read sizeof_result(repetitions) bytes and insertsort them into merged_results.
ReadResults ==
    /\ pc = "results"
    /\ \/ /\ Interrupted
          /\ pc' = "pErr" /\ i' = 0
          /\ UNCHANGED <<resp, got, merged>>
       \/ /\ ~Interrupted
          /\ \E m \in resp :
                /\ resp' = resp \ {m}
                /\ merged' = Merged(m)
                /\ got' = got \cup {m}
                /\ pc' = IF AllIn(got \cup {m}) THEN "exit" ELSE "report"
          /\ UNCHANGED i
    /\ UNCHANGED <<round, timed, signalVars, chldVars, alarmed, open, startB, resultB,
                   exitB, childVars, faultVars>>

\* The median of merged_results is 0 exactly when they are empty.
Measured == \E c \in merged : kept[c] > 0

\* SIGCHLD is ignored from here on; exit bytes, set_results() and close() of the pipes.
WriteExit ==
    /\ pc = "exit"
    /\ chldArmed' = FALSE
    /\ IF NoReaders
       THEN Die /\ UNCHANGED <<exitB, timed, i>>
       ELSE /\ exitB' = exitB + Parallel
            /\ timed' = Measured
            /\ open' = FALSE
            /\ i' = Parallel
            /\ pc' = "wait"
    /\ UNCHANGED <<round, got, merged, signalVars, chldFlag, alarmed, resp, startB,
                   resultB, childVars, faultVars>>

\* error_exit of benchmp_parent(): SIGTERM and waitpid() one child at a time.
ParentErrKill ==
    /\ pc = "pErr"
    /\ chldArmed' = FALSE
    /\ IF i < Parallel
       THEN /\ Kill(Kid(i))
            /\ pc' = "pErrWait"
            /\ UNCHANGED <<i, open>>
       ELSE /\ open' = FALSE
            /\ i' = Parallel
            /\ pc' = "wait"
            /\ UNCHANGED kpend
    /\ UNCHANGED <<round, got, merged, timed, signalVars, chldFlag, alarmed, resp, startB,
                   resultB, exitB, kpc, batchVars, killVars, cleanVars, faultVars>>

ParentErrWait ==
    /\ pc = "pErrWait"
    /\ Reap(Kid(i))
    /\ i' = i + 1
    /\ pc' = "pErr"
    /\ UNCHANGED <<round, got, merged, timed, signalVars, chldVars, alarmed, pipeVars,
                   batchVars, killVars, kpend, cleanVars, faultVars>>

-----------------------------------------------------------------------------
(* cleanup_exit of benchmp(): wait for every child, newest first, each     *)
(* under an alarm.                                                         *)

WaitChild ==
    /\ pc = "wait"
    /\ chldArmed' = FALSE
    /\ IF i > 0
       THEN /\ \/ Reap(Kid(i - 1))
               \/ kpc[Kid(i - 1)] = "reaped" /\ UNCHANGED kpc        \* ECHILD
            /\ i' = i - 1
            /\ alarmed' = FALSE
            /\ UNCHANGED pc
       ELSE Return /\ UNCHANGED <<i, kpc, alarmed>>
    /\ UNCHANGED <<round, got, merged, timed, signalVars, chldFlag, pipeVars, batchVars,
                   killVars, kpend, cleanVars, faultVars>>

\* benchmp_sigalrm: the timeout expired, SIGTERM the child; only once, as the
\* handler sets SIGALRM to SIG_IGN.
Alarm ==
    /\ pc = "wait" /\ i > 0 /\ ~alarmed
    /\ Alive(Kid(i - 1))
    /\ Kill(Kid(i - 1))
    /\ alarmed' = TRUE
    /\ UNCHANGED <<parentVars, signalVars, chldVars, pipeVars, kpc, batchVars, killVars,
                   cleanVars, faultVars>>

\* Seeded fault: the baseline's time is not cleared.
BaseDone_KeepsTime ==
    /\ pc = "baseDone"
    /\ IF timed
       THEN round' = "par" /\ pc' = "pipes"
       ELSE pc' = "returned" /\ UNCHANGED round
    /\ UNCHANGED <<timed, i, got, merged, signalVars, chldVars, alarmed, pipeVars,
                   childVars, faultVars>>

\* The outer call takes over from its baseline: no time, no parallel round.
BaseDone ==
    /\ pc = "baseDone"
    /\ IF timed
       THEN round' = "par" /\ pc' = "pipes" /\ timed' = FALSE
       ELSE pc' = "returned" /\ UNCHANGED <<round, timed>>
    /\ UNCHANGED <<i, got, merged, signalVars, chldVars, alarmed, pipeVars, childVars,
                   faultVars>>

\* SIGTERM from outside: remembered once benchmp_sigterm is installed, fatal before.
Sigterm ==
    /\ pc \notin {"returned", "dead"} /\ terms < MaxTerm
    /\ terms' = terms + 1
    /\ IF termH = "flag"
       THEN termFlag' = TRUE /\ UNCHANGED <<pc, open>>
       ELSE Die /\ UNCHANGED termFlag
    /\ UNCHANGED <<round, i, got, merged, timed, termH, savedTerm, chldVars, alarmed,
                   resp, startB, resultB, exitB, childVars, crashes>>

ParentKilled ==
    /\ pc \notin {"returned", "dead"} /\ "kill" \in Faults
    /\ Die
    /\ UNCHANGED <<round, i, got, merged, timed, signalVars, chldVars, alarmed, resp,
                   startB, resultB, exitB, childVars, faultVars>>

-----------------------------------------------------------------------------
(* benchmp_child() and benchmp_interval().                                 *)

Orphan == pc = "dead"                       \* getppid() == 1
Hup    == ~open                             \* reads return EOF, writes raise SIGPIPE
Readable_NoEOF(bytes) == bytes > 0          \* seeded fault: the children kept the write ends open
Readable(bytes) == bytes > 0 \/ Hup         \* what select() reports, and read() does not block
Drop(bytes) == IF bytes > 0 THEN bytes - 1 ELSE bytes

\* write() to the response pipe by a child that goes on to `next' if it survives.
Respond(kind, c, next) ==
    IF Hup
    THEN ExitFrom(c) /\ UNCHANGED resp
    ELSE /\ kpc' = [kpc EXCEPT ![c] = next]
         /\ resp' = resp \cup {Msg(kind, c)}
         /\ UNCHANGED chldVars

Goto(c, next) == kpc' = [kpc EXCEPT ![c] = next] /\ UNCHANGED chldVars

\* benchmp_child_sigterm: cleanup is called with &_benchmp_child_state, not the cookie.
ChildSigterm(c) ==
    /\ misfired' = [misfired EXCEPT ![c] = IF HasCleanup THEN @ + 1 ELSE @]
    /\ ExitFrom(c)

\* State filled in, initialize(0, cookie) called.
ChildSetup(c) ==
    /\ kpc[c] = "setup"
    /\ Goto(c, "install")
    /\ UNCHANGED <<parentVars, signalVars, alarmed, pipeVars, batchVars, killVars, kpend,
                   cleanVars, faultVars>>

ChildMallocFails(c) ==
    /\ kpc[c] = "setup" /\ "malloc" \in Faults
    /\ ExitFrom(c)
    /\ UNCHANGED <<parentVars, signalVars, alarmed, pipeVars, batchVars, killVars, kpend,
                   cleanVars, faultVars>>

\* Seeded fault: the inherited handler is kept in any case.
ChildInstall_Inherits(c) ==
    /\ kpc[c] = "install"
    /\ Goto(c, "check")
    /\ UNCHANGED <<parentVars, signalVars, alarmed, pipeVars, batchVars, killVars, kpend,
                   cleanVars, faultVars>>

\* The child's own SIGTERM handler is used only if the parent had none before.
ChildInstall(c) ==
    /\ kpc[c] = "install"
    /\ kterm' = [kterm EXCEPT ![c] = IF savedTerm = "default" THEN "exit" ELSE savedTerm]
    /\ Goto(c, "check")
    /\ UNCHANGED <<parentVars, signalVars, alarmed, pipeVars, batchVars, kflag, kpend,
                   cleanVars, faultVars>>

ChildCheck(c) ==
    /\ kpc[c] = "check"
    /\ IF kflag[c] THEN ChildSigterm(c)
                   ELSE Goto(c, "interval") /\ UNCHANGED misfired
    /\ UNCHANGED <<parentVars, signalVars, alarmed, pipeVars, batchVars, killVars, kpend,
                   released, faultVars>>

\* The benchmark function runs one batch.
Run(c) ==
    /\ kpc[c] = "run"
    /\ Goto(c, "interval")
    /\ UNCHANGED <<parentVars, signalVars, alarmed, pipeVars, batchVars, killVars, kpend,
                   cleanVars, faultVars>>

\* benchmp_interval: if the parent died, then give up.
GivesUp(c) == Orphan /\ HasCleanup

OrphanExit(c) ==
    /\ kpc[c] = "interval" /\ GivesUp(c)
    /\ released' = [released EXCEPT ![c] = @ + 1]
    /\ ExitFrom(c)
    /\ UNCHANGED <<parentVars, signalVars, alarmed, pipeVars, batchVars, killVars, kpend,
                   misfired, faultVars>>

InInterval(c, state) == kpc[c] = "interval" /\ ~GivesUp(c) /\ st[c] = state

\* warmup: poll start_signal; the first call sends `ready'.
PollStart(c) ==
    /\ InInterval(c, "warmup")
    /\ IF Readable(startB)
       THEN Goto(c, "readStart") /\ UNCHANGED <<need, resp>>
       ELSE IF need[c]
            THEN Respond("ready", c, "run") /\ need' = [need EXCEPT ![c] = FALSE]
            ELSE Goto(c, "run") /\ UNCHANGED <<need, resp>>
    /\ UNCHANGED <<parentVars, signalVars, alarmed, open, startB, resultB, exitB, st, reps,
                   kept, scale, killVars, kpend, cleanVars, faultVars>>

ReadStart(c) ==
    /\ kpc[c] = "readStart" /\ Readable(startB)
    /\ startB' = Drop(startB)
    /\ st' = [st EXCEPT ![c] = "timing"]
    /\ need' = [need EXCEPT ![c] = FALSE]
    /\ IF need[c] THEN Respond("ready", c, "run") ELSE Goto(c, "run") /\ UNCHANGED resp
    /\ UNCHANGED <<parentVars, signalVars, alarmed, open, resultB, exitB, reps, kept,
                   scale, killVars, kpend, cleanVars, faultVars>>

\* The transition to cooldown sends `done'.
Stop(c) == Respond("done", c, "run") /\ st' = [st EXCEPT ![c] = "cooldown"]

\* state->i++; state->i >= state->repetitions.
LastInterval(c) == reps[c] + 1 >= R

\* timing_interval, the batch counts: insertsort() stores it (unless its time
\* came out as 0, which cannot pass the test `result > 0.95 * enough').  An accepted
\* batch may still be rescaled; as enough > 158us it is never multiplied by 8.
Accept(c) ==
    /\ InInterval(c, "timing")
    /\ reps' = [reps EXCEPT ![c] = @ + 1]
    /\ \/ kept' = [kept EXCEPT ![c] = @ + 1]
       \/ Parallel > 1 /\ UNCHANGED kept
    /\ IF LastInterval(c) THEN Stop(c) ELSE Goto(c, "run") /\ UNCHANGED <<st, resp>>
    /\ UNCHANGED <<parentVars, signalVars, alarmed, open, startB, resultB, exitB, need,
                   scale, killVars, kpend, cleanVars, faultVars>>

\* timing_interval with one child, the batch was too short: iterations is
\* rescaled, or, when it lasted less than 150us, multiplied by 8 until it passes 1<<27
\* (or 1<<20), which ends the child's timing: after MaxScale factors at the latest,
\* sooner if a rescaling came before.
Reject(c) ==
    /\ InInterval(c, "timing") /\ Parallel = 1
    /\ \/ Goto(c, "run") /\ UNCHANGED <<st, resp, scale>>
       \/ /\ scale[c] < MaxScale
          /\ scale' = [scale EXCEPT ![c] = @ + 1]
          /\ Goto(c, "run") /\ UNCHANGED <<st, resp>>
       \/ Stop(c) /\ UNCHANGED scale
    /\ UNCHANGED <<parentVars, signalVars, alarmed, open, startB, resultB, exitB, need,
                   reps, kept, killVars, kpend, cleanVars, faultVars>>

\* cooldown: keep up the load, and poll result_signal.
PollResult(c) ==
    /\ InInterval(c, "cooldown")
    /\ Goto(c, IF Readable(resultB) THEN "readResult" ELSE "run")
    /\ UNCHANGED <<parentVars, signalVars, alarmed, pipeVars, batchVars, killVars, kpend,
                   cleanVars, faultVars>>

\* Blocks while another child holds the only byte.
ReadResult(c) ==
    /\ kpc[c] = "readResult" /\ Readable(resultB)
    /\ resultB' = Drop(resultB)
    /\ Respond("results", c, "cleanup")
    /\ UNCHANGED <<parentVars, signalVars, alarmed, open, startB, exitB, batchVars,
                   killVars, kpend, cleanVars, faultVars>>

\* Seeded fault: cleanup(0, cookie) is forgotten before exit.
ChildCleanup_Skips(c) ==
    /\ kpc[c] = "cleanup"
    /\ Goto(c, "waitExit")
    /\ UNCHANGED <<parentVars, signalVars, alarmed, pipeVars, batchVars, killVars, kpend,
                   cleanVars, faultVars>>

ChildCleanup(c) ==
    /\ kpc[c] = "cleanup"
    /\ released' = [released EXCEPT ![c] = IF HasCleanup THEN @ + 1 ELSE @]
    /\ Goto(c, "waitExit")
    /\ UNCHANGED <<parentVars, signalVars, alarmed, pipeVars, batchVars, killVars, kpend,
                   misfired, faultVars>>

ReadExit(c) ==
    /\ kpc[c] = "waitExit" /\ Readable(exitB)
    /\ exitB' = Drop(exitB)
    /\ ExitFrom(c)
    /\ UNCHANGED <<parentVars, signalVars, alarmed, open, resp, startB, resultB, batchVars,
                   killVars, kpend, cleanVars, faultVars>>

\* A pending SIGTERM reaches the child, wherever it is.
HandleTerm(c) ==
    /\ kpend[c] /\ Alive(c)
    /\ kpend' = [kpend EXCEPT ![c] = FALSE]
    /\ IF kterm[c] = "exit"
       THEN ChildSigterm(c) /\ UNCHANGED kflag
       ELSE kflag' = [kflag EXCEPT ![c] = TRUE] /\ UNCHANGED <<kpc, chldVars, misfired>>
    /\ UNCHANGED <<parentVars, signalVars, alarmed, pipeVars, batchVars, kterm, released,
                   faultVars>>

\* The benchmark's own code exits or crashes: in initialize() or in a batch.
Crash(c) ==
    /\ kpc[c] \in {"setup", "run"} /\ crashes < MaxCrash
    /\ crashes' = crashes + 1
    /\ ExitFrom(c)
    /\ UNCHANGED <<parentVars, signalVars, alarmed, pipeVars, batchVars, killVars, kpend,
                   cleanVars, terms>>

-----------------------------------------------------------------------------
ParentStep ==
    \/ CreatePipes \/ PipesFail \/ AllocPids \/ ForkCheck \/ Fork \/ ForkFails
    \/ ErrKill \/ ErrWait \/ ParentEntry \/ CollectReady \/ WriteStart \/ CollectDone
    \/ WriteResultSignal \/ ReadResults \/ WriteExit \/ ParentErrKill \/ ParentErrWait
    \/ WaitChild \/ BaseDone

ChildStep(c) ==
    \/ ChildSetup(c) \/ ChildMallocFails(c) \/ ChildInstall(c) \/ ChildCheck(c) \/ Run(c)
    \/ OrphanExit(c) \/ PollStart(c) \/ ReadStart(c) \/ Accept(c) \/ Reject(c)
    \/ PollResult(c) \/ ReadResult(c) \/ ChildCleanup(c) \/ ReadExit(c)

Environment ==
    \/ Alarm \/ Sigterm \/ ParentKilled
    \/ \E c \in Kids : HandleTerm(c) \/ Crash(c)

\* The call is over and no child is left: any other state without a step is a deadlock.
Finished ==
    /\ pc \in {"returned", "dead"} /\ \A c \in Kids : ~Alive(c)
    /\ UNCHANGED vars

Next ==
    \/ ParentStep
    \/ \E c \in Kids : ChildStep(c)
    \/ Environment
    \/ Finished

Spec == Init /\ [][Next]_vars

\* The scheduler runs every process; a pending signal and an expired alarm are
\* delivered; a batch resized to 110% of `enough' eventually lasts 95% of it.
Fairness ==
    /\ WF_vars(ParentStep) /\ WF_vars(Alarm)
    /\ \A c \in Kids : WF_vars(ChildStep(c)) /\ WF_vars(HandleTerm(c)) /\ SF_vars(Accept(c))

FairSpec == Spec /\ Fairness

-----------------------------------------------------------------------------
(* Properties.                                                             *)

ParentPCs ==
    {"pipes", "pids", "forkCheck", "fork", "errKill", "errWait", "parent", "ready",
     "start", "done", "report", "results", "exit", "pErr", "pErrWait", "wait",
     "baseDone", "returned", "dead"}
ChildPCs ==
    {"unborn", "setup", "install", "check", "interval", "run", "readStart", "readResult",
     "cleanup", "waitExit", "zombie", "reaped"}

ParentType ==
    /\ round \in {"base", "par"} /\ pc \in ParentPCs /\ i \in 0..Parallel
    /\ got \subseteq Messages /\ merged \subseteq Kids
    /\ termH \in {"default", "flag"} /\ savedTerm \in {"default", "flag"}
    /\ terms \in 0..MaxTerm /\ crashes \in 0..MaxCrash
PipeType ==
    resp \subseteq Messages /\ startB \in Nat /\ resultB \in Nat /\ exitB \in Nat
ChildType ==
    /\ kpc \in [Kids -> ChildPCs] /\ st \in [Kids -> {"warmup", "timing", "cooldown"}]
    /\ reps \in [Kids -> Nat] /\ kept \in [Kids -> Nat] /\ scale \in [Kids -> 0..MaxScale]
    /\ kterm \in [Kids -> {"flag", "exit"}]
    /\ released \in [Kids -> Nat] /\ misfired \in [Kids -> Nat]
FlagType ==
    /\ timed \in BOOLEAN /\ open \in BOOLEAN /\ alarmed \in BOOLEAN
    /\ termFlag \in BOOLEAN /\ chldFlag \in BOOLEAN /\ chldArmed \in BOOLEAN
    /\ need \in [Kids -> BOOLEAN] /\ kflag \in [Kids -> BOOLEAN] /\ kpend \in [Kids -> BOOLEAN]

\* The variables have their types, and the loop index of the parent's loops over
\* pids[] (fork, kill, waitpid: lines 233, 292, 314, 506) never leaves 0..parallel.
TypeOK == ParentType /\ PipeType /\ ChildType /\ FlagType

Reporting(c) == kpc[c] \in {"readResult", "cleanup", "waitExit"}
Measuring(c) == st[c] = "timing" /\ Alive(c)

\* While a child measures, every child of the round has been initialised and has
\* entered its batch loop (its `ready' is out), and none has begun to report:
\* each timing interval sees the full load, unless a child died of its own.
MeasuredUnderLoad ==
    open => \A c \in Active : Measuring(c) =>
                \A d \in Active : ~need[d] /\ ~Reporting(d) /\ kpc[d] # "unborn"

\* A child reports only when "all children have stopped their measurement
\* loops" (lib_timing.c 747): the reason why it may block in read().
ReportAfterAllStopped ==
    open => \A c \in Active : Reporting(c) =>
                \A d \in Active : st[d] = "cooldown" \/ Gone(d)

\* The anonymous bytes the parent counts are the ones it is waiting for: no
\* `done' is ever taken for a `ready', no byte of results for a `done'.
BytesMeanWhatIsAwaited ==
    /\ pc = "ready"   => \A m \in got \cup resp : m.kind = "ready"
    /\ pc = "done"    => \A m \in got \cup resp : m.kind = "done"
    /\ pc = "results" => /\ \A m \in got \cup resp : m.kind = "results"
                         /\ Cardinality(resp) <= 1
                         /\ \A m \in resp : m.from \notin merged

\* A time is returned only for the main round, and then it is made of the
\* results of every child, each of which did its repetitions.
CompleteOrNothing ==
    pc = "returned" /\ timed =>
        /\ round = "par" /\ merged = Active
        /\ N > 1 => \A c \in Active : reps[c] = R

\* result_t has room for what is inserted: a child never stores more than the
\* `repetitions' values sizeof_result() made room for (insertsort has no check).
WithinCapacity == \A c \in Kids : kept[c] <= reps[c] /\ reps[c] <= R

\* When benchmp() returns, each of its children has been waited for: none is
\* left to disturb the next measurement or to raise a late SIGCHLD in it.
NoChildLeft ==
    pc \in {"baseDone", "returned"} => \A c \in Kids : kpc[c] \in {"unborn", "reaped"}

\* A child that reported its results has released its resources, and no child
\* ever hands its cookie to cleanup(0, cookie) twice; a second call, from the SIGTERM
\* handler and without the cookie, is the last thing a child does.
ReleasedOnce ==
    \A c \in Kids : /\ released[c] <= 1 /\ misfired[c] <= 1
                    /\ kpc[c] = "waitExit" /\ HasCleanup => released[c] = 1
                    /\ misfired[c] > 0 => Gone(c)

\* The phase of a child of the main round, as LoadBarrier sees it: loaded from
\* the moment its `ready' is out.
PhaseOf(c) ==
    CASE Gone(c) -> "dead"
      [] Reporting(c) -> "reporting"
      [] ~Gone(c) /\ ~Reporting(c) /\ st[c] = "cooldown" -> "stopped"
      [] ~Gone(c) /\ ~Reporting(c) /\ st[c] = "timing" -> "measuring"
      [] OTHER -> IF need[c] THEN "off" ELSE "loaded"

HungUp == pc = "dead" \/ (round = "par" /\ ~open /\ pc # "pipes")

Barrier == INSTANCE LoadBarrier
    WITH Worker <- 1..N, phase <- [c \in 1..N |-> PhaseOf(c)], up <- ~HungUp

\* benchmp() implements the two barriers of LoadBarrier, whatever fails.
ImplementsBarrier == Barrier!BSpec

\* The harness ends by itself: benchmp() returns, or its process is dead.
Terminates == <>(pc \in {"returned", "dead"})

\* Unless its process is killed, a harness that meets no failure returns a
\* time.  There is one excuse: every child of the last round went through its
\* measurement to the end and not one of its batches counted, as it gave up
\* short ones at 1<<27 iterations (line 728) or its time came out as 0.
Succeeds ==
    <>(\/ pc = "dead"
       \/ pc = "returned" /\ (timed \/ \A c \in Active : st[c] = "cooldown" /\ kept[c] = 0))

\* If the parent died, every child gives up.
OrphansGiveUp == (pc = "dead") ~> (\A c \in Kids : ~Alive(c))

-----------------------------------------------------------------------------
(* The inductive invariant.  BenchmpProofs shows that it is one, and that  *)
(* it implies the safety properties above.                                 *)

Waited(c) == kpc[c] \in {"unborn", "reaped"}

\* Who exists: children outside the round are gone or not yet born, the loops
\* over pids[] have left behind only children they waited for.
Census ==
    /\ \A c \in Kids \ Active : Waited(c)
    /\ round = "base" => \A c \in 1..N : kpc[c] = "unborn"
    /\ pc = "pipes" => \A c \in Active : kpc[c] = "unborn"
    /\ pc \in {"pids", "forkCheck", "fork"} =>
          \A k \in 0..(Parallel - 1) : k >= i => kpc[Kid(k)] = "unborn"
    /\ pc = "pids" => i = 0
    /\ pc = "fork" => i < Parallel
    /\ pc = "errKill" => \A k \in 0..(Parallel - 1) : k >= i => Waited(Kid(k))
    /\ pc = "errWait" => i < Parallel /\ \A k \in 0..(Parallel - 1) : k > i => Waited(Kid(k))
    /\ pc \in {"pErr", "pErrWait"} => \A k \in 0..(Parallel - 1) : k < i => Waited(Kid(k))
    /\ pc = "pErrWait" => i < Parallel
    /\ pc = "wait" => \A k \in 0..(Parallel - 1) : k >= i => Waited(Kid(k))
    /\ pc \in {"baseDone", "returned"} => \A c \in Kids : Waited(c)
    /\ pc = "baseDone" => round = "base"

\* What a child has counted, sent and kept.
Progress ==
    \A c \in Kids :
        /\ kept[c] <= reps[c] /\ reps[c] <= R
        /\ st[c] # "cooldown" => reps[c] < R
        /\ kpc[c] = "unborn" => need[c] /\ st[c] = "warmup"
        /\ kpc[c] = "readStart" => st[c] = "warmup"
        /\ N > 1 /\ c # 0 /\ st[c] = "cooldown" => reps[c] = R

\* The two barriers, whatever the parent is doing.
Barriers ==
    open => /\ (startB > 0 \/ \E c \in Active : kpc[c] = "readStart" \/ st[c] # "warmup")
                  => \A d \in Active : ~need[d]
            /\ (resultB > 0 \/ \E c \in Active : Reporting(c))
                  => \A d \in Active : st[d] = "cooldown"

\* A message is evidence of what its sender has done.
Evidence(m) ==
    /\ m.from \in Active
    /\ m.kind = "ready" => ~need[m.from]
    /\ m.kind = "done" => st[m.from] = "cooldown"
    /\ m.kind = "results" => kpc[m.from] \in {"cleanup", "waitExit", "zombie", "reaped"}

\* The parent's phases: which kinds of messages can be on their way in each.
Awaiting(kind) == \A m \in got \cup resp : m.kind = kind /\ Evidence(m)

PhaseInv ==
    /\ open => \A m \in resp : Evidence(m)
    /\ got \cap resp = {} \/ pc \notin {"ready", "done", "report", "results"}
    /\ pc \in {"pids", "forkCheck", "fork", "parent", "ready", "start"} =>
          /\ open /\ startB = 0 /\ resultB = 0 /\ merged = {}
          /\ \A c \in Active : st[c] = "warmup" /\ kpc[c] # "readStart"
    /\ pc \in {"pids", "forkCheck", "fork", "parent"} => got = {}
    /\ pc \in {"pids", "forkCheck", "fork", "parent", "ready"} => Awaiting("ready")
    /\ pc = "start" => got = {} /\ resp = {}
    /\ pc \in {"start", "done", "report", "results", "exit"} =>
          open /\ \A c \in Active : ~need[c]
    /\ pc = "done" => resultB = 0 /\ merged = {} /\ Awaiting("done")
    /\ pc \in {"report", "results", "exit"} =>
          /\ \A c \in Active : st[c] = "cooldown"
          /\ Awaiting("results")
          /\ merged = {m.from : m \in got}
    /\ pc \in {"report", "exit"} => resultB = 0 /\ resp = {}
    /\ pc = "results" => /\ resultB = 0 \/ (resultB = 1 /\ resp = {})
                         /\ \A m1, m2 \in resp : m1 = m2
    /\ pc = "exit" => merged = Active

\* A time exists only between set_results() and the next benchmp().
TimedInv ==
    /\ pc = "pipes" => ~timed /\ ~open
    /\ timed => /\ pc \in {"wait", "baseDone", "returned", "dead"}
                /\ ~open /\ merged = Active
                /\ \A c \in Active : st[c] = "cooldown"
    /\ pc = "returned" /\ round = "base" => ~timed
    /\ pc = "dead" => ~open
    /\ round = "base" => N > 1

\* Everything the safety of the harness rests on.
Inv == TypeOK /\ Census /\ Progress /\ Barriers /\ PhaseInv /\ TimedInv
=============================================================================
