------------------------------- MODULE MsgRing -------------------------------
(***************************************************************************)
(* msgring.c on QNX: P processes in a ring pass one message ("hot potato") *)
(* Rounds times round, twice.  Process 0 is the one the user started; each *)
(* process forks the next and connects to its parent's channel, so process *)
(* p sends to p - 1.  The last process closes the ring: it leaves its pid  *)
(* and channel id in a file that process 0 polls for.                      *)
(*                                                                         *)
(* External: QNX message passing.  MsgSend() blocks until the receiver     *)
(* has received (SEND-blocked) and then until it has replied               *)
(* (REPLY-blocked), and fails when the channel's owner is dead; the        *)
(* message of a SEND-blocked process that dies is gone with it.            *)
(***************************************************************************)
EXTENDS Integers, FiniteSets

CONSTANTS
    P,            \* procs: the length of the ring (-P), 2 or more
    Rounds,       \* rounds (-N), 1 or more
    MaxRetry,     \* MAXRETRY of readfile()
    MaxCrash,     \* bound: jumpers killed from outside
    ForkMayFail   \* may fork(), ChannelCreate() or ConnectAttach() fail?

Procs == 0..(P - 1)
Next_(p) == IF p = 0 THEN P - 1 ELSE p - 1     \* whose channel p sends to
Prev(p) == IF p = P - 1 THEN 0 ELSE p + 1      \* who sends to p's channel

VARIABLES
    at,           \* where each process is
    msg,          \* msg[p]: a message is queued at p's channel
    bad,          \* bad[p]: err = -1 from the first call of the pair, looked at after the second
    file,         \* FILENAME: "none", "empty" (created, not yet written), "written", "locked"
    tries,        \* retry_count of readfile()
    knows,        \* whose pid and chid process 0 read: -1 before, -2 for garbage
    round,        \* completed rounds of the present run_iterator()
    runs,         \* completed run_iterator() calls
    hops,         \* messages sent so far
    crashes
ringVars == <<at, msg, bad, round, hops>>
fileVars == <<file, tries, knows>>
vars == <<ringVars, fileVars, runs, crashes>>

Dead(p) == at[p] = "dead"
Goto(p, where) == at' = [at EXCEPT ![p] = where]
KillGroup == at' = [p \in Procs |-> IF at[p] = "unborn" THEN "unborn" ELSE "dead"]

Init ==
    /\ at = [p \in Procs |-> IF p = 0 THEN "fork" ELSE "unborn"]
    /\ msg = [p \in Procs |-> FALSE] /\ bad = [p \in Procs |-> FALSE]
    /\ file = "none" /\ tries = 0 /\ knows = -1
    /\ round = 0 /\ runs = 0 /\ hops = 0 /\ crashes = 0

-----------------------------------------------------------------------------
(* fork_msgring()                                                          *)

\* Seeded fault: a new ring member sends before it has received.
Fork_SendsFirst(p) ==
    /\ at[p] = "fork"
    /\ \/ at' = [at EXCEPT ![p] = IF p = 0 THEN "open" ELSE "send", ![p + 1] = "boot"]
       \/ ForkMayFail /\ Goto(p, "dead")
    /\ UNCHANGED <<msg, bad, round, hops, fileVars, runs, crashes>>

\* Each process forks one child and then goes on as a ring member.
Fork(p) ==
    /\ at[p] = "fork"
    /\ \/ at' = [at EXCEPT ![p] = IF p = 0 THEN "open" ELSE "receive", ![p + 1] = "boot"]
       \/ ForkMayFail /\ Goto(p, "dead")
    /\ UNCHANGED <<msg, bad, round, hops, fileVars, runs, crashes>>

\* The child creates its channel and connects to its parent's.
Boot(p) ==
    /\ at[p] = "boot"
    /\ \/ ~Dead(p - 1) /\ Goto(p, IF p = P - 1 THEN "create" ELSE "fork")
       \/ (ForkMayFail \/ Dead(p - 1)) /\ Goto(p, "dead")
    /\ UNCHANGED <<msg, bad, round, hops, fileVars, runs, crashes>>

\* writefile(): open(O_CREAT) makes the empty file visible, write() fills it.
\* The call has no mode argument: the file may turn out to be unreadable.
CreateFile(p) ==
    /\ at[p] = "create"
    /\ file' \in {"empty", "locked"}
    /\ Goto(p, "write")
    /\ UNCHANGED <<msg, bad, round, hops, tries, knows, runs, crashes>>

WriteFile(p) ==
    /\ at[p] = "write"
    /\ file' = IF file = "empty" THEN "written" ELSE file
    /\ Goto(p, "receive")
    /\ UNCHANGED <<msg, bad, round, hops, tries, knows, runs, crashes>>

-----------------------------------------------------------------------------
(* run_iterator() up to ConnectAttach(), in process 0                      *)

\* One try of readfile(): sleep(1), open(); after MAXRETRY the group is killed.
OpenFile ==
    /\ at[0] = "open"
    /\ IF file \notin {"none", "locked"} THEN Goto(0, "read") /\ UNCHANGED tries
       ELSE /\ tries' = tries + 1
            /\ IF tries + 1 = MaxRetry THEN KillGroup ELSE UNCHANGED at
    /\ UNCHANGED <<msg, bad, round, hops, file, knows, runs, crashes>>

\* read() of an empty file leaves txt[] uninitialised, to be parsed all the same,
\* and even a complete text is not terminated: digits may follow it.
ReadFile ==
    /\ at[0] = "read"
    /\ knows' \in IF file = "written" THEN {P - 1, -2} ELSE {-2}
    /\ Goto(0, "connect")
    /\ UNCHANGED <<msg, bad, round, hops, file, tries, runs, crashes>>

\* Parsing garbage may crash process 0 (strtok() returned NULL); connecting to
\* garbage or to a dead process fails.
Connect ==
    /\ at[0] = "connect"
    /\ tries' = 0 /\ round' = 0
    /\ \/ knows = P - 1 /\ ~Dead(P - 1) /\ Goto(0, "send")
       \/ (knows # P - 1 \/ Dead(P - 1)) /\ KillGroup
       \/ knows = -2 /\ Goto(0, "dead")
    /\ UNCHANGED <<msg, bad, hops, file, knows, runs, crashes>>

-----------------------------------------------------------------------------
(* jumper() and iterator(): receive, reply, work, send.                    *)

Send(p) ==
    /\ at[p] = "send" /\ ~Dead(Next_(p))
    /\ msg' = [msg EXCEPT ![Next_(p)] = TRUE]
    /\ hops' = hops + 1
    /\ Goto(p, "sendBlocked")
    /\ UNCHANGED <<bad, round, fileVars, runs, crashes>>

\* Seeded fault: the message is forwarded before the sender is released.
Receive_NoReply(p) ==
    /\ at[p] = "receive" /\ msg[p]
    /\ msg' = [msg EXCEPT ![p] = FALSE]
    /\ at' = [at EXCEPT ![p] = "send",
                        ![Prev(p)] = IF @ = "sendBlocked" THEN "replyBlocked" ELSE @]
    /\ UNCHANGED <<bad, round, hops, fileVars, runs, crashes>>

Receive(p) ==
    /\ at[p] = "receive" /\ msg[p]
    /\ msg' = [msg EXCEPT ![p] = FALSE]
    /\ at' = [at EXCEPT ![p] = "reply",
                        ![Prev(p)] = IF @ = "sendBlocked" THEN "replyBlocked" ELSE @]
    /\ UNCHANGED <<bad, round, hops, fileVars, runs, crashes>>

\* "Release previous process from dead lock": the reply precedes the forwarding.
AfterReply_OneMore(p) ==                      \* seeded fault: one round too many
    IF p # 0 THEN "send" ELSE IF round = Rounds THEN "print" ELSE "send"
AfterReply(p) ==
    IF p # 0 THEN "send" ELSE IF round + 1 = Rounds THEN "print" ELSE "send"

\* MsgSend() of a process returned: a jumper whose err is set exits.
Resume(p) == IF p # 0 /\ bad[p] THEN "dead" ELSE "receive"

Reply(p) ==
    /\ at[p] = "reply"
    /\ round' = IF p = 0 THEN round + 1 ELSE round
    /\ LET released == at[Prev(p)] = "replyBlocked"       \* else MsgReply() returns -1
       IN  \/ /\ p = 0 /\ (bad[0] \/ ~released)
              /\ KillGroup
              /\ UNCHANGED bad
           \/ /\ released /\ ~(p = 0 /\ bad[0])
              /\ at' = [at EXCEPT ![p] = AfterReply(p), ![Prev(p)] = Resume(Prev(p))]
              /\ UNCHANGED bad
           \/ /\ p # 0 /\ ~released
              /\ Goto(p, "send")
              /\ bad' = [bad EXCEPT ![p] = TRUE]
    /\ UNCHANGED <<msg, hops, fileVars, runs, crashes>>

\* MsgSend() returns -1: the owner of the channel died.  A jumper exits at once;
\* process 0 looks at err only after its MsgReceive() and MsgReply().
SendFails(p) ==
    /\ at[p] \in {"send", "sendBlocked", "replyBlocked"} /\ Dead(Next_(p))
    /\ Goto(p, IF p = 0 THEN "receive" ELSE "dead")
    /\ bad' = [bad EXCEPT ![p] = TRUE]
    /\ UNCHANGED <<msg, round, hops, fileVars, runs, crashes>>

\* main(): print_result() after each run.
Report ==
    /\ at[0] = "print"
    /\ runs' = runs + 1
    /\ Goto(0, IF runs + 1 = 2 THEN "finish" ELSE "open")
    /\ UNCHANGED <<msg, bad, round, hops, fileVars, crashes>>

\* remove(FILENAME) and kill(0, SIGKILL), which the caller does not survive
\* either: what follows in main() is never reached.
Finish ==
    /\ at[0] = "finish"
    /\ file' = "none"
    /\ KillGroup
    /\ UNCHANGED <<msg, bad, round, hops, tries, knows, runs, crashes>>

Crash(p) ==
    /\ p # 0 /\ ~Dead(p) /\ at[p] # "unborn" /\ crashes < MaxCrash
    /\ Goto(p, "dead") /\ crashes' = crashes + 1
    /\ msg' = [msg EXCEPT ![Next_(p)] = @ /\ at[p] # "sendBlocked"]
    /\ UNCHANGED <<bad, round, hops, fileVars, runs>>

\* Process 0 has ended; the others are dead or blocked for good.
Over ==
    /\ Dead(0)
    /\ UNCHANGED vars

Step(p) ==
    \/ Fork(p) \/ Boot(p) \/ CreateFile(p) \/ WriteFile(p)
    \/ Send(p) \/ Receive(p) \/ Reply(p) \/ SendFails(p)

Next ==
    \/ \E p \in Procs : Step(p) \/ Crash(p)
    \/ OpenFile \/ ReadFile \/ Connect \/ Report \/ Finish \/ Over

Spec == Init /\ [][Next]_vars

FairSpec ==
    /\ Spec
    /\ \A p \in Procs : WF_vars(Step(p))
    /\ WF_vars(OpenFile \/ ReadFile \/ Connect \/ Report \/ Finish)

-----------------------------------------------------------------------------
(* Properties.                                                             *)

Places ==
    {"unborn", "boot", "fork", "create", "write", "open", "read", "connect", "receive",
     "reply", "send", "sendBlocked", "replyBlocked", "print", "finish", "dead"}

\* The variables have their types.
TypeOK ==
    /\ at \in [Procs -> Places] /\ msg \in [Procs -> BOOLEAN] /\ bad \in [Procs -> BOOLEAN]
    /\ file \in {"none", "empty", "written", "locked"} /\ tries \in 0..MaxRetry
    /\ knows \in {-2, -1, P - 1} /\ round \in 0..Rounds /\ runs \in 0..2 /\ hops \in Nat
    /\ crashes \in 0..MaxCrash

Holders == {p \in Procs : at[p] \in {"reply", "send"}}
InFlight == {p \in Procs : msg[p] /\ ~Dead(p)}

\* There is one hot potato: never two processes that hold or forward the
\* message, and never a held message beside a queued one.
OnePotato == Cardinality(Holders) + Cardinality(InFlight) <= 1

\* print_result() divides by procs * rounds: exactly that many messages have
\* been passed in each run when it is printed, even after a process was lost.
PassesAsPrinted == at[0] = "print" => hops = P * Rounds * (runs + 1)

\* A message goes to a process only while its sender waits for the reply: no
\* process is ever ahead of its successor by more than the message it sent.
SenderWaits ==
    \A p \in Procs : msg[p] /\ ~Dead(p) => at[Prev(p)] = "sendBlocked"

\* Unless a jumper is killed, the test ends: process 0 finishes or kills the
\* group, also when a fork failed or the file cannot be read.
Ends == <>(Dead(0) \/ crashes > 0)

\* "Get last process's PID and channel ID for connection" (437): what process
\* 0 connects to is the last process.
KnowsLastProcess == at[0] = "connect" => knows = P - 1
=============================================================================
