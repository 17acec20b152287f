------------------------------ MODULE PingPong -------------------------------
(***************************************************************************)
(* The benchmarks in which a child of benchmp() ("main") and one partner   *)
(* it forks take turns: lat_pipe, lat_fifo and lat_unix hand a byte to and *)
(* fro, lat_sem a semaphore unit, lat_fcntl two file locks.  Each iteration *)
(* is meant to be one turn of each; its time is printed as a latency.      *)
(*                                                                         *)
(* The programs differ in what is shared, in what a failed call does, and  *)
(* in how cleanup() gets rid of the partner.  The harness runs with one    *)
(* child, so that a SIGTERM ends main (Benchmp); POSIX pipes.              *)
(***************************************************************************)
EXTENDS Integers

CONSTANTS
    Programs,     \* a subset of ProgramNames
    Faults,       \* what may fail: a subset of FaultKinds
    MaxRounds,    \* bound: exchanges main completes
    MaxCrash      \* bound: partners killed from outside

ProgramNames == {"pipe", "fifo", "unix", "sem", "fcntl"}
FaultKinds == {"resource", "fork", "kill", "orphan"}

ASSUME ProgramAssumption == Programs \subseteq ProgramNames /\ Faults \subseteq FaultKinds
ASSUME TurnAssumption == MaxRounds \in Nat /\ MaxCrash \in Nat

VARIABLES
    prog,         \* the program
    mpc,          \* where main is
    w,            \* where its partner is
    pid,          \* state->pid: 0, 1 for the partner, -1 after a failed fork()
    broken,       \* socketpair() or semget() failed, and main went on
    toW, toM,     \* bytes on their way to the partner and to main; semaphores 0 and 1
    lock,         \* who holds the locks on the two files of lat_fcntl
    phase,        \* benchmp_state; "fresh" while need_warmup, "reported" after the results
    armed,        \* is SIGCHLD caught by benchmp_child_sigchld?
    told,         \* benchmp_sigterm_received: a SIGTERM came during initialize()
    pend,         \* SIGCHLD sent to main and not handled
    orphan,       \* is the harness's parent dead?
    rounds,       \* exchanges main has completed, the priming one included
    turns,        \* exchanges its partner has completed
    killedAll,    \* kill(-1, SIGKILL) was called
    stray,        \* the handler in which cleanup() signalled a process it knows nothing of
    crashes
chanVars == <<toW, toM, lock>>
harnessVars == <<phase, armed, told, orphan, stray>>
vars == <<prog, mpc, w, pid, broken, chanVars, harnessVars, pend, rounds, turns, killedAll,
          crashes>>

Stream == prog \in {"pipe", "fifo", "unix"}
Ended == mpc \in {"done", "dead"}
Alive == w \notin {"unborn", "zombie", "reaped"}
Fresh == phase = "fresh"

\* Locks are gone with their owner.
Without(who) == [f \in {1, 2} |-> IF lock[f] = who THEN "free" ELSE lock[f]]

\* Main exits or is killed.
Die == mpc' = "dead" /\ lock' = Without("main")

\* The partner exits or is killed; main gets a SIGCHLD.
ExitPartner ==
    /\ w' = "zombie"
    /\ lock' = Without("partner")
    /\ pend' = (pend \/ (armed /\ ~Ended))

Init ==
    /\ prog \in Programs
    /\ mpc = "resources" /\ w = "unborn" /\ pid = 0 /\ broken = FALSE
    /\ toW = 0 /\ toM = 0 /\ lock = [f \in {1, 2} |-> "free"]
    /\ phase = "fresh" /\ armed = TRUE /\ told = FALSE /\ pend = FALSE /\ orphan = FALSE
    /\ rounds = 0 /\ turns = 0 /\ killedAll = FALSE /\ stray = "none"
    /\ crashes = 0

-----------------------------------------------------------------------------
(* initialize()                                                            *)

\* Pipes, FIFOs, a socket pair, semaphores set to 0, or two files, both locked.
Resources ==
    /\ mpc = "resources" /\ mpc' = "fork"
    /\ lock' = IF prog = "fcntl" THEN [f \in {1, 2} |-> "main"] ELSE lock
    /\ UNCHANGED <<prog, w, pid, broken, toW, toM, harnessVars, pend, rounds, turns,
                   killedAll, crashes>>

\* Without a socket pair or semaphores main goes on (with descriptors taken to be bad
\* ones), without anything else, the buffer of lat_unix included, it exits.
ResourcesFail ==
    /\ mpc = "resources" /\ "resource" \in Faults
    /\ \/ prog \in {"unix", "sem"} /\ mpc' = "fork" /\ broken' = TRUE /\ UNCHANGED lock
       \/ prog # "sem" /\ Die /\ UNCHANGED broken
    /\ UNCHANGED <<prog, w, pid, toW, toM, harnessVars, pend, rounds, turns, killedAll,
                   crashes>>

\* lat_pipe and lat_fifo go round once before they return.
Fork ==
    /\ mpc = "fork"
    /\ pid' = 1 /\ w' = "start"
    /\ mpc' = CASE prog = "pipe" -> "primeWrite"
                [] prog = "fifo" -> "open"
                [] OTHER -> "interval"
    /\ UNCHANGED <<prog, broken, chanVars, harnessVars, pend, rounds, turns, killedAll,
                   crashes>>

\* lat_fcntl exits; the others return to the harness, without a partner (lat_fifo
\* with descriptors that were never set, taken to be bad ones).
ForkFails ==
    /\ mpc = "fork" /\ "fork" \in Faults
    /\ pid' = -1
    /\ IF prog = "fcntl" THEN Die ELSE mpc' = "interval" /\ UNCHANGED lock
    /\ UNCHANGED <<prog, w, broken, toW, toM, harnessVars, pend, rounds, turns, killedAll,
                   crashes>>

\* open() of a FIFO waits for the other side: main and partner meet twice.
OpenFifos ==
    /\ mpc = "open" /\ w = "open"
    /\ mpc' = "primeWrite" /\ w' = "read"
    /\ UNCHANGED <<prog, pid, broken, chanVars, harnessVars, pend, rounds, turns, killedAll,
                   crashes>>

-----------------------------------------------------------------------------
(* benchmp_interval(), as far as it concerns the benchmark.                *)

\* After a batch SIGCHLD gets its default action again.
Armed_Kept == armed                  \* seeded fault: it does not
Armed == armed /\ Fresh

\* The batches: a first one, the others until the start signal is seen, those that are
\* measured, and those run until the results are asked for.
NextPhases ==
    CASE Fresh -> {"warmup"}
      [] phase = "warmup" -> {"warmup", "timing"}
      [] phase = "timing" -> {"timing", "cooldown"}
      [] OTHER -> {phase}

StartBatch ==
    /\ mpc = "interval" /\ ~told /\ ~orphan /\ rounds < MaxRounds
    /\ mpc' = CASE Stream -> "write" [] prog = "sem" -> "semop" [] prog = "fcntl" -> "lock1"
    /\ phase' \in NextPhases
    /\ armed' = Armed
    /\ UNCHANGED <<prog, w, pid, broken, chanVars, told, orphan, stray, pend, rounds, turns,
                   killedAll, crashes>>

\* "if the parent died, then give up", or the results are sent: cleanup(0, cookie),
\* which closes main's ends in lat_fifo and lat_fcntl first.  Batches beyond MaxRounds
\* are not followed.
CallCleanup ==
    /\ mpc = "interval" /\ ~told
    /\ orphan \/ phase = "cooldown" \/ (~Fresh /\ rounds = MaxRounds)
    /\ phase' = IF orphan THEN phase ELSE "reported"
    /\ mpc' = "kill" /\ armed' = FALSE
    /\ lock' = Without("main")
    /\ UNCHANGED <<prog, w, pid, broken, toW, toM, told, orphan, stray, pend, rounds, turns,
                   killedAll, crashes>>

\* An exchange is complete: the batch goes on, or is over.
Completed(first) ==
    /\ rounds' = rounds + 1
    /\ \/ rounds' < MaxRounds /\ mpc' = first
       \/ mpc' = "interval"

-----------------------------------------------------------------------------
(* One iteration of main.                                                  *)

\* Nobody reads what main writes to a FIFO.  The other channels main itself holds
\* open at both ends.
PartnerHungUp == prog = "fifo" /\ ~Alive

\* In lat_unix a failed call leads to cleanup(0, cookie), elsewhere to exit(1) or SIGPIPE.
MainCallFails ==
    /\ mpc \in {"primeWrite", "primeRead", "write", "read", "semop"}
    /\ \/ broken
       \/ PartnerHungUp /\ (mpc \in {"primeRead", "read"} => toM = 0)
    /\ IF prog = "unix" THEN mpc' = "kill" /\ UNCHANGED lock ELSE Die
    /\ UNCHANGED <<prog, w, pid, broken, toW, toM, harnessVars, pend, rounds, turns,
                   killedAll, crashes>>

MainWrite ==
    /\ mpc \in {"primeWrite", "write"} /\ ~broken /\ ~PartnerHungUp
    /\ toW' = toW + 1
    /\ mpc' = IF mpc = "write" THEN "read" ELSE "primeRead"
    /\ UNCHANGED <<prog, w, pid, broken, toM, lock, harnessVars, pend, rounds, turns,
                   killedAll, crashes>>

MainRead ==
    /\ mpc \in {"primeRead", "read"} /\ toM > 0
    /\ toM' = toM - 1
    /\ IF mpc = "read" THEN Completed("write") ELSE rounds' = rounds + 1 /\ mpc' = "interval"
    /\ UNCHANGED <<prog, w, pid, broken, toW, lock, harnessVars, pend, turns, killedAll,
                   crashes>>

\* lat_sem: take from semaphore 1 and give to semaphore 0, in one semop().
MainSemop ==
    /\ mpc = "semop" /\ ~broken /\ toM > 0
    /\ toM' = toM - 1 /\ toW' = toW + 1
    /\ Completed("semop")
    /\ UNCHANGED <<prog, w, pid, broken, lock, harnessVars, pend, turns, killedAll, crashes>>

\* waiton(): blocks while the other holds the lock, and is granted at once if the
\* caller holds it.  release(): of a lock one does not hold has no effect.
Waiton(f, who) == lock[f] \in {"free", who} /\ lock' = [lock EXCEPT ![f] = who]
Release(f, who) == lock' = [lock EXCEPT ![f] = IF @ = who THEN "free" ELSE @]

\* procA(): wait(1), release(2), wait(2), release(1).
ProcA ==
    /\ \/ mpc = "lock1" /\ Waiton(1, "main") /\ mpc' = "unlock2" /\ UNCHANGED rounds
       \/ mpc = "unlock2" /\ Release(2, "main") /\ mpc' = "lock2" /\ UNCHANGED rounds
       \/ mpc = "lock2" /\ Waiton(2, "main") /\ mpc' = "unlock1" /\ UNCHANGED rounds
       \/ mpc = "unlock1" /\ Release(1, "main") /\ Completed("lock1")
    /\ UNCHANGED <<prog, w, pid, broken, toW, toM, harnessVars, pend, turns, killedAll,
                   crashes>>

-----------------------------------------------------------------------------
(* The partner.                                                            *)

PartnerStart ==
    /\ w = "start"
    /\ w' = CASE prog = "fifo" -> "open"
              [] prog \in {"pipe", "unix"} -> "read"
              [] prog = "sem" -> "post"
              [] prog = "fcntl" -> "unlock1"
    /\ UNCHANGED <<prog, mpc, pid, broken, chanVars, harnessVars, pend, rounds, turns,
                   killedAll, crashes>>

\* An empty pipe blocks.  The writer() of lat_fifo meets EOF when main is gone: it
\* prints an error and reads again, for ever.
PartnerRead ==
    /\ w = "read" /\ ~broken /\ toW > 0
    /\ toW' = toW - 1 /\ w' = "write"
    /\ UNCHANGED <<prog, mpc, pid, broken, toM, lock, harnessVars, pend, rounds, turns,
                   killedAll, crashes>>

MainHungUp == prog = "fifo" /\ mpc \in {"kill", "wait", "done", "dead"}

\* Seeded fault: the answer is written twice.
PartnerWrite_Twice ==
    /\ w = "write" /\ ~MainHungUp
    /\ toM' = toM + 2 /\ turns' = turns + 1 /\ w' = "read"
    /\ UNCHANGED <<prog, mpc, pid, broken, toW, lock, harnessVars, pend, rounds, killedAll,
                   crashes>>

PartnerWrite ==
    /\ w = "write" /\ ~MainHungUp
    /\ toM' = toM + 1 /\ turns' = turns + 1 /\ w' = "read"
    /\ UNCHANGED <<prog, mpc, pid, broken, toW, lock, harnessVars, pend, rounds, killedAll,
                   crashes>>

\* Seeded fault: the writer takes before it gives, also the first time.
PartnerPost_Takes ==
    /\ w = "post" /\ ~broken /\ toW > 0
    /\ toW' = toW - 1 /\ toM' = toM + 1 /\ turns' = turns + 1 /\ w' = "semop"
    /\ UNCHANGED <<prog, mpc, pid, broken, lock, harnessVars, pend, rounds, killedAll, crashes>>

\* lat_sem: the first semop() gives to semaphore 1, the others take from 0 as well.
PartnerPost ==
    /\ w = "post" /\ ~broken
    /\ toM' = toM + 1 /\ turns' = turns + 1 /\ w' = "semop"
    /\ UNCHANGED <<prog, mpc, pid, broken, toW, lock, harnessVars, pend, rounds, killedAll,
                   crashes>>

PartnerSemop ==
    /\ w = "semop" /\ toW > 0
    /\ toW' = toW - 1 /\ toM' = toM + 1 /\ turns' = turns + 1
    /\ UNCHANGED <<prog, mpc, w, pid, broken, lock, harnessVars, pend, rounds, killedAll,
                   crashes>>

\* procB(): release(1), wait(2), release(2), wait(1).  Without main it runs for ever; its
\* turns are counted up to MaxRounds.
ProcB ==
    /\ \/ w = "unlock1" /\ Release(1, "partner") /\ w' = "lock2" /\ UNCHANGED turns
       \/ w = "lock2" /\ Waiton(2, "partner") /\ w' = "unlock2" /\ UNCHANGED turns
       \/ w = "unlock2" /\ Release(2, "partner") /\ w' = "lock1" /\ UNCHANGED turns
       \/ w = "lock1" /\ Waiton(1, "partner") /\ w' = "unlock1"
          /\ turns' = IF turns < MaxRounds THEN turns + 1 ELSE turns
    /\ UNCHANGED <<prog, mpc, pid, broken, toW, toM, harnessVars, pend, rounds, killedAll,
                   crashes>>

\* A failed read() of lat_unix or semop() of lat_sem; SIGPIPE in lat_fifo.
PartnerEnds ==
    /\ \/ broken /\ w \in {"read", "post"}
       \/ w = "write" /\ MainHungUp
    /\ ExitPartner
    /\ UNCHANGED <<prog, mpc, pid, broken, toW, toM, harnessVars, rounds, turns, killedAll,
                   crashes>>

PartnerCrash ==
    /\ Alive /\ crashes < MaxCrash
    /\ crashes' = crashes + 1
    /\ ExitPartner
    /\ UNCHANGED <<prog, mpc, pid, broken, toW, toM, harnessVars, rounds, turns, killedAll>>

-----------------------------------------------------------------------------
(* cleanup()                                                               *)

\* `if (state->pid > 0)' in lat_fifo, `if (state->pid)' elsewhere.
HasPid == IF prog = "fifo" THEN pid > 0 ELSE pid # 0

\* SIGTERM in lat_fifo, where the partner still has the handler benchmp_sigterm that
\* it inherited and that only sets a flag; SIGKILL elsewhere.
Fatal_Term == w # "start"                       \* seeded fault: SIGTERM, not yet set to exit()
Fatal == prog # "fifo"

Kill ==
    /\ mpc = "kill"
    /\ IF HasPid
       THEN /\ mpc' = "wait"
            /\ killedAll' = (killedAll \/ pid = -1)
            /\ IF Fatal /\ Alive THEN ExitPartner ELSE UNCHANGED <<w, lock, pend>>
       ELSE mpc' = "done" /\ UNCHANGED <<w, lock, pend, killedAll>>
    /\ UNCHANGED <<prog, pid, broken, toW, toM, harnessVars, rounds, turns, crashes>>

\* waitpid(), which finds no child if fork() failed.
Wait ==
    /\ mpc = "wait" /\ (w = "zombie" \/ pid = -1)
    /\ w' = IF w = "zombie" THEN "reaped" ELSE w
    /\ pid' = 0 /\ mpc' = "done"
    /\ UNCHANGED <<prog, broken, chanVars, harnessVars, pend, rounds, turns, killedAll,
                   crashes>>

-----------------------------------------------------------------------------
(* Signals to main.  The handlers call cleanup(0, &_benchmp_child_state):  *)
(* with the harness's structure instead of the benchmark's, so that the    *)
(* partner stays.  (The semaphore set cleanup() of lat_sem frees, and the  *)
(* names and descriptors of lat_fifo and lat_fcntl, are wrong as well, and *)
(* main exits at once: none of that reaches the partner.)                  *)

\* Is there a pid where cleanup() looks for it?  In lat_pipe and lat_sem this is the
\* benchmp_state itself, and warmup is 0; in lat_unix the address of a function, or half
\* of it.  The file names of lat_fifo and lat_fcntl are longer than the structure, and
\* anything may follow it.
SeesPid ==
    CASE prog \in {"pipe", "sem"} -> {phase \notin {"fresh", "warmup"}}
      [] prog = "unix" -> {TRUE}
      [] OTHER -> BOOLEAN

\* waitpid() does not wait for a process that is no child.
Handler(signal) ==
    /\ \E sees \in SeesPid : stray' = IF sees THEN signal ELSE stray
    /\ Die
    /\ UNCHANGED <<prog, w, pid, broken, toW, toM, phase, armed, told, orphan, rounds, turns,
                   killedAll, crashes>>

\* benchmp_child_sigchld.
Sigchld ==
    /\ pend /\ armed /\ ~Ended
    /\ Handler("sigchld") /\ pend' = FALSE

\* Until initialize() returns, SIGTERM only sets a flag: main still has the handler of
\* benchmp(), which then calls the other one.  Interrupted calls are restarted.
InInitialize == mpc \in {"resources", "fork", "open", "primeWrite", "primeRead"}

Sigterm ==
    /\ "kill" \in Faults /\ mpc # "dead"
    /\ \/ /\ InInitialize /\ told' = TRUE
          /\ UNCHANGED <<prog, mpc, w, pid, broken, chanVars, phase, armed, orphan, stray,
                         pend, rounds, turns, killedAll, crashes>>
       \/ ~InInitialize /\ Handler("sigterm") /\ UNCHANGED pend

HandleFlag == mpc = "interval" /\ told /\ Handler("sigterm") /\ UNCHANGED pend

\* The alarm of benchmp(): main has not exited in time and gets a SIGTERM.
Alarm ==
    /\ mpc = "wait" /\ phase = "reported" /\ ~orphan
    /\ Handler("sigterm") /\ UNCHANGED pend

\* SIGKILL.
MainKilled ==
    /\ ~Ended /\ "kill" \in Faults
    /\ Die
    /\ UNCHANGED <<prog, w, pid, broken, toW, toM, harnessVars, pend, rounds, turns,
                   killedAll, crashes>>

ParentDies ==
    /\ ~orphan /\ ~Ended /\ "orphan" \in Faults
    /\ orphan' = TRUE
    /\ UNCHANGED <<prog, mpc, w, pid, broken, chanVars, phase, armed, told, stray, pend,
                   rounds, turns, killedAll, crashes>>

MainStep ==
    \/ Resources \/ ResourcesFail \/ Fork \/ ForkFails \/ StartBatch \/ CallCleanup
    \/ MainCallFails \/ MainWrite \/ MainRead \/ MainSemop \/ ProcA \/ Kill \/ Wait
    \/ HandleFlag
PartnerStep ==
    \/ PartnerStart \/ PartnerRead \/ PartnerWrite \/ PartnerPost \/ PartnerSemop \/ ProcB
    \/ PartnerEnds

Next ==
    \/ MainStep \/ OpenFifos \/ PartnerStep
    \/ PartnerCrash \/ Sigchld \/ Sigterm \/ Alarm \/ MainKilled \/ ParentDies

Spec == Init /\ [][Next]_vars

\* Both processes are scheduled, signals are delivered and alarms expire.
FairSpec ==
    /\ Spec
    /\ WF_vars(MainStep) /\ WF_vars(OpenFifos) /\ WF_vars(PartnerStep)
    /\ WF_vars(Sigchld) /\ WF_vars(Alarm)

-----------------------------------------------------------------------------
(* Properties.                                                             *)

MainPCs ==
    {"resources", "fork", "open", "primeWrite", "primeRead", "interval", "write", "read",
     "semop", "lock1", "unlock2", "lock2", "unlock1", "kill", "wait", "done", "dead"}
PartnerPCs ==
    {"unborn", "start", "open", "read", "write", "post", "semop", "unlock1", "lock2",
     "unlock2", "lock1", "zombie", "reaped"}

PlaceType ==
    /\ prog \in ProgramNames /\ mpc \in MainPCs /\ w \in PartnerPCs /\ pid \in {-1, 0, 1}
    /\ lock \in [{1, 2} -> {"free", "main", "partner"}]
CountType ==
    /\ toW \in 0..1 /\ toM \in 0..1 /\ rounds \in Nat /\ turns \in Nat
    /\ crashes \in 0..MaxCrash
FlagType ==
    /\ broken \in BOOLEAN /\ armed \in BOOLEAN /\ told \in BOOLEAN /\ pend \in BOOLEAN
    /\ orphan \in BOOLEAN /\ killedAll \in BOOLEAN
    /\ phase \in {"fresh", "warmup", "timing", "cooldown", "reported"}
    /\ stray \in {"none", "sigchld", "sigterm"}

\* The variables have their types, and no channel ever holds two bytes.
TypeOK == PlaceType /\ CountType /\ FlagType

\* The printed latency is that of two switches: main and its partner take turns, and
\* neither completes two exchanges in a row.  Not so in lat_fcntl, where main can take
\* a lock again before the partner it has just released gets it.
TakeTurns == prog # "fcntl" => rounds <= turns /\ turns <= rounds + 1

\* lat_fcntl's four lock operations never block each other for good, and no program
\* waits for ever for a partner, unless that was killed or never created and main
\* itself keeps the channel open.
EndedOrMayWait ==
    \/ Ended
    \/ prog \in {"pipe", "unix", "sem"} /\ (crashes > 0 \/ pid = -1)
    \/ prog = "fifo" /\ orphan
MainEnds == <>EndedOrMayWait

\* "cleanup any resources that may have been allocated" (CHANGES 53-56): a cleanup()
\* that is not cut short by the end of main ends the partner, except in lat_fifo ...
CleanupKillsPartner ==
    prog # "fifo" => ((mpc = "kill") ~> (~Alive \/ mpc = "dead"))

\* ... where it should, too.
PartnerEndsWithCleanup == (mpc = "kill") ~> ~Alive

\* cleanup() signals processes that are none of its own in two ways.  It calls kill(-1)
\* if fork() had failed unnoticed, and then only before a first exchange.  And a handler
\* makes it take something else for a pid: in lat_pipe and lat_sem only a SIGTERM after
\* a first exchange, never the death of the partner.
KillsOwnOnly ==
    /\ killedAll => prog # "fifo" /\ (orphan \/ broken) /\ rounds = 0
    /\ prog \in {"pipe", "sem"} /\ stray # "none" => stray = "sigterm" /\ rounds > 0

-----------------------------------------------------------------------------
(* The inductive invariant.                                                *)

\* Main is before or between its exchanges: it has the byte.
MainHas == mpc \in {"resources", "fork", "open", "primeWrite", "interval", "write"}

\* The exchanges differ by what is on its way to main, and there is one byte.
Balance ==
    /\ prog # "fcntl" => turns = rounds + toM /\ toW + toM <= 1
    /\ Stream => /\ w = "write" => toW = 0 /\ toM = 0
                 /\ MainHas => toW = 0 /\ toM = 0 /\ w # "write"
    /\ w \in {"unborn", "start", "open", "post"} /\ ~Stream => toW = 0 /\ toM = 0

\* Which steps belong to which program.
Shape ==
    /\ mpc \in {"primeWrite", "primeRead", "write", "read"} \/ w \in {"read", "write"} => Stream
    /\ mpc = "semop" \/ w \in {"post", "semop"} => prog = "sem"
    /\ mpc \in {"lock1", "unlock2", "lock2", "unlock1"} => prog = "fcntl"
    /\ w \in {"lock1", "unlock2", "lock2", "unlock1"} => prog = "fcntl"
    /\ mpc = "open" \/ w = "open" => prog = "fifo"

\* Before and after a fork() that failed.
NoPartner ==
    /\ mpc \in {"resources", "fork"} => pid = 0 /\ w = "unborn" /\ Fresh
    /\ w = "unborn" => turns = 0 /\ toM = 0
    /\ pid = -1 => /\ w = "unborn"
                   /\ prog = "fcntl" => mpc = "dead"
                   /\ mpc = "interval" => Fresh
                   /\ mpc \in {"kill", "wait"} => orphan \/ broken
    /\ killedAll => /\ prog \notin {"fifo", "fcntl"} /\ (orphan \/ broken) /\ rounds = 0
                    /\ mpc \in {"wait", "done", "dead"}

\* SIGCHLD is caught while the structure begins with a 0; the start signal is seen after
\* a first batch.
Handlers ==
    /\ armed => phase \in {"fresh", "warmup"}
    /\ mpc = "interval" /\ ~Fresh => rounds > 0
    /\ phase \in {"timing", "cooldown", "reported"} => rounds > 0
    /\ prog \in {"pipe", "sem"} /\ stray # "none" => stray = "sigterm" /\ rounds > 0

Inv == TypeOK /\ Balance /\ Shape /\ NoPartner /\ Handlers
=============================================================================
