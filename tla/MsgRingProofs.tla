---------------------------- MODULE MsgRingProofs ----------------------------
(***************************************************************************)
(* The safety properties of module MsgRing for rings of any length and any *)
(* number of rounds, whatever fails or dies.  The invariant says where the *)
(* message is, and for each place how many passes there have been; while   *)
(* process 0 is outside iterator() the message is nowhere.  Types, and who *)
(* waits for whom, are a second invariant that rests on the first.         *)
(***************************************************************************)
EXTENDS MsgRing, FiniteSetTheorems, TLAPS

Sizes == P \in Nat /\ P >= 2 /\ Rounds \in Nat

(* What the proofs of the steps need to know of the types.                 *)
Types ==
    /\ DOMAIN at = Procs /\ msg \in [Procs -> BOOLEAN]
    /\ round \in Nat /\ runs \in Nat /\ hops \in Nat

(* The message is held by p, or queued for p.                              *)
Holds(p) == at[p] \in {"reply", "send"}
Queued(p) == msg[p] /\ at[p] # "dead"
Single ==
    \A p, q \in Procs :
        /\ (Holds(p) \/ Queued(p)) /\ (Holds(q) \/ Queued(q)) => p = q
        /\ ~(Holds(p) /\ Queued(p))

(* Process 0 is not in iterator().                                         *)
Outside == at[0] \in {"fork", "open", "read", "connect", "print", "finish"}
Quiet == Outside => \A p \in Procs : ~Holds(p) /\ ~Queued(p)

(* Passes so far: whole rounds, and in the present one a pass for each     *)
(* process from the last one down to the one that has the message.         *)
Before == P * (Rounds * runs + round)
Passes ==
    /\ \A p \in Procs : at[p] = "reply" \/ Queued(p) => hops = Before + (P - p)
    /\ \A p \in Procs : at[p] = "send" => hops = Before + (IF p = 0 THEN 0 ELSE P - p)
    /\ at[0] = "print" => hops = P * (Rounds * (runs + 1))
    /\ Outside /\ at[0] # "print" => hops = P * (Rounds * runs)

(* Processes are created in turn: none of them lives twice.                *)
Early(p) == at[p] \in {"unborn", "boot", "fork"}
Born ==
    /\ at[0] \notin {"unborn", "boot", "create", "write"}
    /\ \A p, q \in Procs : Early(p) /\ q > p => at[q] = "unborn"

IInv == Types /\ Single /\ Quiet /\ Passes

LEMMA Neighbours ==
    ASSUME Sizes, NEW p \in Procs
    PROVE  /\ Next_(p) \in Procs /\ Next_(p) # p
           /\ Prev(p) \in Procs /\ Prev(p) # p /\ 0 \in Procs
    BY DEF Sizes, Procs, Next_, Prev

LEMMA InitIInv == ASSUME Sizes PROVE Init => IInv
<1> SUFFICES ASSUME Init PROVE IInv
    OBVIOUS
<1>1. Types /\ 0 \in Procs
    BY DEF Init, Types, Procs, Sizes
<1>2. at[0] = "fork" /\ \A p \in Procs : ~Holds(p) /\ ~Queued(p)
    BY <1>1 DEF Init, Holds, Queued
<1>3. hops = 0 /\ runs = 0 /\ P * (Rounds * 0) = 0
    BY DEF Init, Sizes
<1>4. Passes
    BY <1>2, <1>3 DEF Passes, Holds, Outside
<1> QED BY <1>1, <1>2, <1>4 DEF IInv, Single, Quiet

-----------------------------------------------------------------------------
(* Steps that move nothing: the message stays where it is or is lost.      *)
Loses ==
    /\ DOMAIN at' = Procs /\ msg' \in [Procs -> BOOLEAN]
    /\ UNCHANGED <<round, runs, hops>>
    /\ \A p \in Procs : /\ Holds(p)' => at'[p] = at[p]
                        /\ Queued(p)' => Queued(p)
    /\ Outside' => Outside /\ (at'[0] = "print" <=> at[0] = "print")

LEMMA LosesKeeps == ASSUME Sizes, IInv, Loses PROVE IInv'
<1>1. Types'
    BY DEF IInv, Types, Loses
<1>2. Single' /\ Quiet'
    BY DEF IInv, Single, Quiet, Loses, Holds
<1>3. Before' = Before
    BY DEF Loses, Before
<1>4. Passes'
    <2>1. \A p \in Procs : /\ (at[p] = "reply" \/ Queued(p))' => at[p] = "reply" \/ Queued(p)
                           /\ at'[p] = "send" => at[p] = "send"
        BY DEF Loses, Holds
    <2>2. 0 \in Procs
        BY DEF Procs, Sizes
    <2>3. at'[0] = "print" => at[0] = "print"
        BY DEF Loses, Outside
    <2> QED BY <1>3, <2>1, <2>2, <2>3 DEF IInv, Passes, Loses
<1> QED BY <1>1, <1>2, <1>4 DEF IInv

(* ... and steps after which it is nowhere and process 0 has ended.        *)
LEMMA EndKeeps ==
    ASSUME Sizes, at'[0] = "dead", Types', \A p \in Procs : ~Holds(p)' /\ ~Queued(p)'
    PROVE  IInv'
    BY DEF IInv, Single, Quiet, Passes, Outside, Holds

LEMMA KillGroupLoses ==
    ASSUME Sizes, IInv, KillGroup, UNCHANGED <<msg, round, runs, hops>> PROVE Loses
    BY DEF KillGroup, Loses, IInv, Types, Holds, Queued, Outside, Sizes, Procs

LEMMA GotoLoses ==
    ASSUME Sizes, IInv, UNCHANGED <<msg, round, runs, hops>>, NEW p \in Procs, NEW where,
           Goto(p, where), where \notin {"reply", "send", "print"}, at[p] # "dead",
           p = 0 => (where \in {"fork", "open", "read", "connect", "finish"}
                        => Outside /\ at[0] # "print")
    PROVE  Loses
<1>1. DOMAIN at' = Procs /\ at'[p] = where /\ \A q \in Procs : q # p => at'[q] = at[q]
    BY DEF Goto, IInv, Types
<1>2. \A q \in Procs : (Holds(q)' => at'[q] = at[q]) /\ (Queued(q)' => Queued(q))
    BY <1>1 DEF Holds, Queued
<1>3. Outside' => Outside /\ (at'[0] = "print" <=> at[0] = "print")
    <2>1. 0 \in Procs
        BY DEF Procs, Sizes
    <2> QED BY <1>1, <2>1 DEF Outside
<1> QED BY <1>1, <1>2, <1>3 DEF Loses, IInv, Types

(* KillGroup and exit() bring nobody to life.                              *)
LEMMA BornKeeps ==
    ASSUME Born, at'[0] \notin {"unborn", "boot", "create", "write"},
           \A p \in Procs : (Early(p)' => Early(p)) /\ (at[p] = "unborn" => at'[p] = "unborn")
    PROVE  Born'
    BY DEF Born

LEMMA InitBorn == ASSUME Sizes PROVE Init => Born
    BY DEF Init, Born, Early, Procs, Sizes

LEMMA GotoBorn ==
    ASSUME Sizes, IInv, Born, NEW p \in Procs, NEW where, Goto(p, where),
           at[p] # "unborn", where \notin {"unborn", "boot"},
           where = "fork" => at[p] = "boot", p = 0 => where \notin {"create", "write"}
    PROVE  Born'
<1>1. DOMAIN at' = Procs /\ at'[p] = where /\ \A q \in Procs : q # p => at'[q] = at[q]
    BY DEF Goto, IInv, Types
<1>2. 0 \in Procs
    BY DEF Procs, Sizes
<1>3. at'[0] \notin {"unborn", "boot", "create", "write"}
    BY <1>1, <1>2 DEF Born
<1> QED BY <1>1, <1>3, BornKeeps DEF Early

LEMMA KillGroupBorn == ASSUME Sizes, Born, KillGroup PROVE Born'
<1>1. 0 \in Procs
    BY DEF Procs, Sizes
<1> QED BY <1>1, BornKeeps DEF KillGroup, Early, Born

(* fork(): the child was not there before, so no message was left for it.  *)
LEMMA ForkKeeps ==
    ASSUME Sizes, IInv, Born, NEW p \in Procs, Fork(p) PROVE Loses /\ Born'
<1>1. UNCHANGED <<msg, round, runs, hops>> /\ at[p] = "fork"
    BY DEF Fork
<1>2. CASE Goto(p, "dead")
    BY <1>1, <1>2, GotoLoses, GotoBorn
<1>3. CASE at' = [at EXCEPT ![p] = IF p = 0 THEN "open" ELSE "receive", ![p + 1] = "boot"]
    <2>1. p \in Int /\ 0 \in Procs /\ \A q \in Procs : q \in Int
        BY DEF Procs, Sizes
    <2>2. DOMAIN at' = Procs /\ at'[p] = IF p = 0 THEN "open" ELSE "receive"
        BY <1>3, <2>1 DEF IInv, Types
    <2>3. p + 1 \in Procs => at'[p + 1] = "boot" /\ at[p + 1] = "unborn"
        BY <1>1, <1>3, <2>1 DEF IInv, Types, Born, Early
    <2>4. \A q \in Procs : q # p /\ q # p + 1 => at'[q] = at[q]
        BY <1>3 DEF IInv, Types
    <2>5. \A q \in Procs : (Holds(q)' => at'[q] = at[q]) /\ (Queued(q)' => Queued(q))
        BY <1>1, <2>2, <2>3, <2>4 DEF Holds, Queued
    <2>6. p + 1 # 0
        BY DEF Procs, Sizes
    <2>7. at'[0] = at[0] \/ (at[0] = "fork" /\ at'[0] = "open")
        BY <1>1, <2>1, <2>2, <2>4, <2>6
    <2>8. Loses
        BY <1>1, <2>2, <2>5, <2>7 DEF Loses, Outside, IInv, Types
    <2>9. Born'
        <3>1. at'[0] \notin {"unborn", "boot", "create", "write"}
            BY <2>7 DEF Born
        <3>2. ASSUME NEW r \in Procs, NEW q \in Procs, Early(r)', q > r
              PROVE  at'[q] = "unborn"
            <4>1. r # p
                BY <2>2, <3>2 DEF Early
            <4>2. CASE r = p + 1
                BY <1>1, <2>1, <2>4, <3>2, <4>2 DEF Born, Early
            <4>3. CASE r # p + 1
                <5>1. at[q] = "unborn" /\ q # p
                    BY <1>1, <2>4, <3>2, <4>1, <4>3 DEF Born, Early
                <5>2. r > p
                    BY <1>1, <2>1, <2>4, <3>2, <4>1, <4>3 DEF Born, Early
                <5> QED BY <2>1, <2>4, <3>2, <5>1, <5>2, <4>3
            <4> QED BY <4>2, <4>3
        <3> QED BY <3>1, <3>2 DEF Born
    <2> QED BY <2>8, <2>9
<1> QED BY <1>2, <1>3 DEF Fork

LEMMA SetupKeeps ==
    ASSUME Sizes, IInv, Born, NEW p \in Procs, Boot(p) \/ CreateFile(p) \/ WriteFile(p)
    PROVE  Loses /\ Born'
<1>1. UNCHANGED <<msg, round, runs, hops>>
    BY DEF Boot, CreateFile, WriteFile
<1>2. p # 0 /\ at[p] \in {"boot", "create", "write"}
    BY DEF Boot, CreateFile, WriteFile, Born
<1>3. PICK where \in {"create", "fork", "dead", "write", "receive"} :
            Goto(p, where) /\ (where = "fork" => at[p] = "boot")
    BY DEF Boot, CreateFile, WriteFile
<1> QED BY <1>1, <1>2, <1>3, GotoLoses, GotoBorn

LEMMA FileKeeps ==
    ASSUME Sizes, IInv, Born, OpenFile \/ ReadFile \/ Finish PROVE Loses /\ Born'
<1>1. UNCHANGED <<msg, round, runs, hops>> /\ 0 \in Procs
    BY DEF OpenFile, ReadFile, Finish, Sizes, Procs
<1>2. CASE KillGroup
    BY <1>1, <1>2, KillGroupLoses, KillGroupBorn
<1>3. CASE UNCHANGED at
    BY <1>1, <1>3 DEF Loses, Born, IInv, Types, Holds, Queued, Outside, Early
<1>4. CASE \E where \in {"read", "connect"} : Goto(0, where) /\ at[0] \in {"open", "read"}
    BY <1>1, <1>4, GotoLoses, GotoBorn DEF Outside
<1> QED BY <1>2, <1>3, <1>4 DEF OpenFile, ReadFile, Finish

LEMMA FailuresKeep ==
    ASSUME Sizes, IInv, Born, NEW p \in Procs, SendFails(p) \/ Crash(p)
    PROVE  Loses /\ Born'
<1>1. CASE SendFails(p)
    <2>1. UNCHANGED <<msg, round, runs, hops>>
        BY <1>1 DEF SendFails
    <2>2. PICK where \in {"receive", "dead"} : Goto(p, where)
        BY <1>1 DEF SendFails
    <2>3. at[p] \in {"send", "sendBlocked", "replyBlocked"}
        BY <1>1 DEF SendFails
    <2> QED BY <2>1, <2>2, <2>3, GotoLoses, GotoBorn
<1>2. CASE Crash(p)
    <2>1. /\ UNCHANGED <<round, runs, hops>> /\ Goto(p, "dead") /\ p # 0
          /\ at[p] \notin {"dead", "unborn"}
          /\ msg' = [msg EXCEPT ![Next_(p)] = @ /\ at[p] # "sendBlocked"]
        BY <1>2 DEF Crash, Dead
    <2>2. DOMAIN at' = Procs /\ at'[p] = "dead" /\ \A q \in Procs : q # p => at'[q] = at[q]
        BY <2>1 DEF Goto, IInv, Types
    <2>3. msg' \in [Procs -> BOOLEAN] /\ \A q \in Procs : msg'[q] => msg[q]
        BY <2>1, Neighbours DEF IInv, Types
    <2>4. \A q \in Procs : (Holds(q)' => at'[q] = at[q]) /\ (Queued(q)' => Queued(q))
        BY <2>2, <2>3 DEF Holds, Queued
    <2>5. at'[0] = at[0]
        BY <2>1, <2>2, Neighbours
    <2>6. Loses
        BY <2>1, <2>2, <2>3, <2>4, <2>5 DEF Loses, Outside
    <2> QED BY <2>1, <2>6, GotoBorn
<1> QED BY <1>1, <1>2

-----------------------------------------------------------------------------
(* run_iterator(): nothing is under way when process 0 begins a run.       *)
LEMMA ConnectKeeps == ASSUME Sizes, IInv, Born, Connect PROVE IInv' /\ Born'
<1>1. /\ at[0] = "connect" /\ round' = 0 /\ UNCHANGED <<msg, hops, runs>> /\ 0 \in Procs
      /\ Goto(0, "send") \/ KillGroup \/ Goto(0, "dead")
    BY DEF Connect, Sizes, Procs
<1>2. (\A p \in Procs : ~Holds(p) /\ ~Queued(p)) /\ hops = P * (Rounds * runs)
    BY <1>1 DEF IInv, Quiet, Passes, Outside
<1>3. CASE Goto(0, "send")
    <2>1. DOMAIN at' = Procs /\ at'[0] = "send" /\ \A q \in Procs : q # 0 => at'[q] = at[q]
        BY <1>1, <1>3 DEF Goto, IInv, Types
    <2>2. \A p \in Procs : (Holds(p)' => p = 0) /\ ~Queued(p)'
        BY <1>1, <1>2, <2>1 DEF Holds, Queued
    <2>3. Types' /\ Single' /\ Quiet'
        BY <1>1, <2>1, <2>2 DEF IInv, Types, Single, Quiet, Outside
    <2>4. Before' = hops'
        BY <1>1, <1>2 DEF Before, IInv, Types, Sizes
    <2>5. Passes'
        BY <1>1, <2>1, <2>2, <2>3, <2>4 DEF Passes, Holds, Outside, Types
    <2> QED BY <1>1, <1>3, <2>3, <2>5, GotoBorn DEF IInv
<1>4. CASE KillGroup \/ Goto(0, "dead")
    <2>1. at'[0] = "dead" /\ DOMAIN at' = Procs
          /\ \A p \in Procs : at'[p] = at[p] \/ at'[p] = "dead"
        BY <1>1, <1>4 DEF KillGroup, Goto, IInv, Types
    <2>2. Types' /\ \A p \in Procs : ~Holds(p)' /\ ~Queued(p)'
        BY <1>1, <1>2, <2>1 DEF IInv, Types, Holds, Queued
    <2> QED BY <1>1, <1>4, <2>1, <2>2, EndKeeps, KillGroupBorn, GotoBorn
<1> QED BY <1>1, <1>3, <1>4

LEMMA ReportKeeps == ASSUME Sizes, IInv, Born, Report PROVE IInv' /\ Born'
<1>1. PICK where \in {"open", "finish"} :
        /\ Goto(0, where) /\ at[0] = "print" /\ runs' = runs + 1
        /\ UNCHANGED <<msg, hops, round>> /\ 0 \in Procs
    BY DEF Report, Sizes, Procs
<1>2. DOMAIN at' = Procs /\ at'[0] = where /\ \A q \in Procs : q # 0 => at'[q] = at[q]
    BY <1>1 DEF Goto, IInv, Types
<1>3. \A p \in Procs : ~Holds(p)' /\ ~Queued(p)'
    BY <1>1, <1>2 DEF IInv, Quiet, Outside, Holds, Queued
<1>4. Types' /\ Single' /\ Quiet'
    BY <1>1, <1>2, <1>3 DEF IInv, Types, Single, Quiet
<1>5. hops' = P * (Rounds * runs')
    BY <1>1 DEF IInv, Passes
<1>6. Passes'
    BY <1>1, <1>2, <1>3, <1>5 DEF Passes, Holds
<1> QED BY <1>1, <1>4, <1>6, GotoBorn DEF IInv

(* MsgSend(): from the sender to the queue of its neighbour, one pass.     *)
LEMMA SendKeeps ==
    ASSUME Sizes, IInv, Born, NEW p \in Procs, Send(p) PROVE IInv' /\ Born'
<1> DEFINE n == Next_(p)
<1>1. /\ at[p] = "send" /\ at[n] # "dead" /\ msg' = [msg EXCEPT ![n] = TRUE]
      /\ hops' = hops + 1 /\ Goto(p, "sendBlocked") /\ UNCHANGED <<round, runs>>
    BY DEF Send, Dead
<1>2. n \in Procs /\ n # p /\ 0 \in Procs /\ \A q \in Procs : q \in Int
    BY Neighbours DEF Procs
<1>3. DOMAIN at' = Procs /\ at'[p] = "sendBlocked" /\ \A q \in Procs : q # p => at'[q] = at[q]
    BY <1>1 DEF Goto, IInv, Types
<1>4. \A q \in Procs : q # p => ~Holds(q) /\ ~Queued(q)
    BY <1>1 DEF IInv, Single, Holds
<1>5. ~Queued(p)
    BY <1>1 DEF IInv, Single, Holds
<1>6. msg'[n] /\ msg' \in [Procs -> BOOLEAN] /\ \A q \in Procs : q # n => msg'[q] = msg[q]
    BY <1>1, <1>2 DEF IInv, Types
<1>7. \A q \in Procs : ~Holds(q)' /\ (Queued(q)' => q = n)
    BY <1>1, <1>2, <1>3, <1>4, <1>5, <1>6 DEF Holds, Queued
<1>8. Types' /\ Single'
    BY <1>1, <1>3, <1>6, <1>7 DEF IInv, Types, Single
<1>9. ~Outside /\ ~Outside'
    <2>1. ~Outside
        BY <1>1 DEF IInv, Quiet, Holds
    <2> QED BY <2>1, <1>2, <1>3 DEF Outside
<1>10. hops' = Before' + (P - n)
    <2>1. Before' = Before /\ Before \in Int
        BY <1>1 DEF Before, IInv, Types, Sizes
    <2>2. hops = Before + (IF p = 0 THEN 0 ELSE P - p)
        BY <1>1 DEF IInv, Passes
    <2>3. n = IF p = 0 THEN P - 1 ELSE p - 1
        BY DEF Next_
    <2> QED BY <1>1, <1>2, <2>1, <2>2, <2>3 DEF Sizes
<1>11. Passes'
    BY <1>7, <1>9, <1>10 DEF Passes, Holds, Outside
<1> QED BY <1>1, <1>8, <1>9, <1>11, GotoBorn DEF IInv, Quiet

(* MsgReceive(): from the queue to the process.                            *)
LEMMA ReceiveKeeps ==
    ASSUME Sizes, IInv, Born, NEW p \in Procs, Receive(p) PROVE IInv' /\ Born'
<1> DEFINE v == Prev(p)
<1>1. /\ at[p] = "receive" /\ msg[p] /\ msg' = [msg EXCEPT ![p] = FALSE]
      /\ at' = [at EXCEPT ![p] = "reply",
                          ![v] = IF @ = "sendBlocked" THEN "replyBlocked" ELSE @]
      /\ UNCHANGED <<round, runs, hops>>
    BY DEF Receive
<1>2. v \in Procs /\ v # p /\ 0 \in Procs
    BY Neighbours
<1>3. /\ DOMAIN at' = Procs /\ at'[p] = "reply"
      /\ \A q \in Procs : q # p => at'[q] = at[q] \/ (at[q] = "sendBlocked" /\ at'[q] = "replyBlocked")
    BY <1>1, <1>2 DEF IInv, Types
<1>4. msg' \in [Procs -> BOOLEAN] /\ ~msg'[p] /\ \A q \in Procs : q # p => msg'[q] = msg[q]
    BY <1>1 DEF IInv, Types
<1>5. Queued(p) /\ \A q \in Procs : q # p => ~Holds(q) /\ ~Queued(q)
    BY <1>1 DEF IInv, Single, Queued
<1>6. \A q \in Procs : (Holds(q)' => q = p) /\ ~Queued(q)'
    BY <1>3, <1>4, <1>5 DEF Holds, Queued
<1>7. Types' /\ Single'
    BY <1>1, <1>3, <1>4, <1>6 DEF IInv, Types, Single
<1>8. ~Outside'
    <2>1. ~Outside
        BY <1>5 DEF IInv, Quiet
    <2> QED BY <2>1, <1>2, <1>3 DEF Outside
<1>9. Passes'
    <2>1. hops' = Before' + (P - p)
        BY <1>1, <1>5 DEF IInv, Passes, Before
    <2> QED BY <2>1, <1>3, <1>6, <1>8 DEF Passes, Holds, Outside
<1>10. Born'
    <2>1. at'[0] \notin {"unborn", "boot", "create", "write"}
        BY <1>2, <1>3 DEF Born
    <2>2. \A q \in Procs : (Early(q)' => Early(q)) /\ (at[q] = "unborn" => at'[q] = "unborn")
        BY <1>1, <1>3 DEF Early
    <2> QED BY <2>1, <2>2, BornKeeps
<1> QED BY <1>7, <1>8, <1>9, <1>10 DEF IInv, Quiet

(* MsgReply(): the message stays; at process 0 the round is complete.      *)
LEMMA ReplyKeeps ==
    ASSUME Sizes, IInv, Born, NEW p \in Procs, Reply(p) PROVE IInv' /\ Born'
<1> DEFINE v == Prev(p)
<1>1. /\ at[p] = "reply" /\ UNCHANGED <<msg, runs, hops>>
      /\ round' = IF p = 0 THEN round + 1 ELSE round
    BY DEF Reply
<1>2. v \in Procs /\ v # p /\ 0 \in Procs /\ p \in Int
    BY Neighbours DEF Procs
<1>3. ~Queued(p) /\ \A q \in Procs : q # p => ~Holds(q) /\ ~Queued(q)
    BY <1>1 DEF IInv, Single, Holds
<1>4. ~Outside
    BY <1>1 DEF IInv, Quiet, Holds
<1>5. hops = Before + (P - p)
    BY <1>1 DEF IInv, Passes
<1>6. CASE p = 0 /\ KillGroup
    <2>1. /\ at'[0] = "dead" /\ DOMAIN at' = Procs
          /\ \A q \in Procs : at'[q] = "unborn" \/ at'[q] = "dead"
          /\ \A q \in Procs : at'[q] = "unborn" => at[q] = "unborn"
        BY <1>1, <1>2, <1>6 DEF KillGroup
    <2>2. \A q \in Procs : ~Holds(q)' /\ ~Queued(q)'
        BY <1>1, <1>3, <2>1 DEF Holds, Queued
    <2>3. Types'
        BY <1>1, <2>1 DEF IInv, Types
    <2> QED BY <1>6, <2>1, <2>2, <2>3, EndKeeps, KillGroupBorn
<1>7. ASSUME NEW where \in {"send", "print"}, where = "print" => p = 0 /\ round + 1 = Rounds,
             DOMAIN at' = Procs, at'[p] = where,
             \A q \in Procs : q # p => \/ at'[q] = at[q]
                                       \/ at[q] = "replyBlocked" /\ at'[q] \in {"dead", "receive"}
      PROVE  IInv' /\ Born'
    <2>1. \A q \in Procs : ~Queued(q)' /\ (Holds(q)' => q = p)
        BY <1>1, <1>3, <1>7 DEF Holds, Queued
    <2>2. Types' /\ Single'
        BY <1>1, <1>7, <2>1 DEF IInv, Types, Single
    <2>3. Outside' => where = "print" /\ p = 0
        BY <1>2, <1>4, <1>7 DEF Outside
    <2>4. Quiet'
        BY <1>7, <2>1, <2>3 DEF Quiet, Holds
    <2>5. hops' = Before' + (IF p = 0 THEN 0 ELSE P - p)
        <3>1. CASE p = 0
            <4>1. /\ round' = round + 1 /\ Rounds * runs \in Nat /\ round \in Nat
                  /\ runs' = runs /\ hops' = hops
                BY <1>1, <3>1 DEF IInv, Types, Sizes
            <4>2. P * (Rounds * runs + (round + 1)) = P * (Rounds * runs + round) + P
                BY <4>1 DEF Sizes
            <4>3. Before \in Int /\ P \in Int
                BY <4>1 DEF Before, Sizes
            <4> QED BY <1>5, <3>1, <4>1, <4>2, <4>3 DEF Before
        <3>2. CASE p # 0
            BY <1>1, <1>5, <3>2 DEF Before
        <3> QED BY <3>1, <3>2
    <2>6. where = "print" => hops' = P * (Rounds * (runs' + 1))
        <3> SUFFICES ASSUME where = "print" PROVE hops' = P * (Rounds * (runs' + 1))
            OBVIOUS
        <3>1. p = 0 /\ round' = Rounds
            BY <1>1, <1>7
        <3>2. Rounds * runs' + Rounds = Rounds * (runs' + 1)
            BY <2>2 DEF Types, Sizes
        <3>3. Before' = P * (Rounds * (runs' + 1))
            BY <3>1, <3>2 DEF Before
        <3>4. Before' \in Int
            BY <2>2 DEF Before, Types, Sizes
        <3> QED BY <2>5, <3>1, <3>3, <3>4
    <2>7. Passes'
        <3>1. \A q \in Procs : at'[q] = "reply" => FALSE
            BY <1>7, <2>1 DEF Holds
        <3>2. \A q \in Procs : at'[q] = "send" => q = p
            BY <2>1 DEF Holds
        <3>3. at'[0] = "print" => where = "print"
            BY <1>2, <1>4, <1>7 DEF Outside
        <3>4. Outside' => at'[0] = "print"
            BY <1>7, <2>3
        <3> QED BY <2>1, <2>5, <2>6, <3>1, <3>2, <3>3, <3>4 DEF Passes
    <2>8. Born'
        <3>1. at'[0] \notin {"unborn", "boot", "create", "write"}
            BY <1>2, <1>7 DEF Born
        <3>2. \A q \in Procs : (Early(q)' => Early(q)) /\ (at[q] = "unborn" => at'[q] = "unborn")
            BY <1>1, <1>7 DEF Early
        <3> QED BY <3>1, <3>2, BornKeeps
    <2> QED BY <2>2, <2>4, <2>7, <2>8 DEF IInv
<1>8. CASE at' = [at EXCEPT ![p] = AfterReply(p), ![v] = Resume(v)] /\ at[v] = "replyBlocked"
    <2>1. AfterReply(p) \in {"send", "print"}
          /\ (AfterReply(p) = "print" => p = 0 /\ round + 1 = Rounds)
        BY DEF AfterReply
    <2>2. Resume(v) \in {"dead", "receive"}
        BY DEF Resume
    <2>3. /\ DOMAIN at' = Procs /\ at'[p] = AfterReply(p)
          /\ \A q \in Procs : q # p => \/ at'[q] = at[q]
                                       \/ at[q] = "replyBlocked" /\ at'[q] \in {"dead", "receive"}
        <3>1. PICK a, r : a = AfterReply(p) /\ r = Resume(v)
            OBVIOUS
        <3>2. at' = [at EXCEPT ![p] = a, ![v] = r] /\ DOMAIN at = Procs
            BY <1>8, <3>1 DEF IInv, Types
        <3>3. DOMAIN at' = Procs /\ at'[p] = a /\ at'[v] = r
              /\ \A q \in Procs : q # p /\ q # v => at'[q] = at[q]
            BY <1>2, <3>2
        <3>4. ASSUME NEW q \in Procs, q # p
              PROVE  \/ at'[q] = at[q]
                     \/ at[q] = "replyBlocked" /\ at'[q] \in {"dead", "receive"}
            <4>1. CASE q = v
                <5>1. at[q] = "replyBlocked"
                    BY <1>8, <4>1
                <5>2. at'[q] = Resume(v)
                    BY <3>1, <3>3, <4>1
                <5> QED BY <2>2, <5>1, <5>2
            <4>2. CASE q # v
                BY <3>3, <3>4, <4>2
            <4> QED BY <4>1, <4>2
        <3>5. at'[p] = AfterReply(p)
            BY <3>1, <3>3
        <3> QED BY <3>3, <3>4, <3>5
    <2> QED BY <1>7, <2>1, <2>3
<1>9. CASE p # 0 /\ Goto(p, "send")
    <2>1. DOMAIN at' = Procs /\ at'[p] = "send" /\ \A q \in Procs : q # p => at'[q] = at[q]
        BY <1>9 DEF Goto, IInv, Types
    <2>2. PICK where \in {"send", "print"} : where = "send"
        OBVIOUS
    <2>3. where = "print" => p = 0 /\ round + 1 = Rounds
        BY <2>2
    <2>4. \A q \in Procs : q # p => \/ at'[q] = at[q]
                                    \/ at[q] = "replyBlocked" /\ at'[q] \in {"dead", "receive"}
        BY <2>1
    <2>5. DOMAIN at' = Procs /\ at'[p] = where
        BY <2>1, <2>2
    <2> QED BY <1>7, <2>3, <2>4, <2>5
<1> QED BY <1>6, <1>8, <1>9 DEF Reply

LEMMA NextKeeps == ASSUME Sizes, IInv, Born, [Next]_vars PROVE IInv' /\ Born'
<1>1. CASE UNCHANGED vars
    <2>1. Loses
        BY <1>1 DEF vars, ringVars, Loses, IInv, Types, Holds, Queued, Outside
    <2>2. Born'
        BY <1>1 DEF vars, ringVars, Born, Early
    <2> QED BY <2>1, <2>2, LosesKeeps
<1>2. ASSUME NEW p \in Procs, Step(p) \/ Crash(p) PROVE IInv' /\ Born'
    <2>1. CASE Fork(p)
        BY <2>1, ForkKeeps, LosesKeeps
    <2>2. CASE Boot(p) \/ CreateFile(p) \/ WriteFile(p)
        BY <2>2, SetupKeeps, LosesKeeps
    <2>3. CASE Send(p)
        BY <2>3, SendKeeps
    <2>4. CASE Receive(p)
        BY <2>4, ReceiveKeeps
    <2>5. CASE Reply(p)
        BY <2>5, ReplyKeeps
    <2>6. CASE SendFails(p) \/ Crash(p)
        BY <2>6, FailuresKeep, LosesKeeps
    <2> QED BY <1>2, <2>1, <2>2, <2>3, <2>4, <2>5, <2>6 DEF Step
<1>3. CASE OpenFile \/ ReadFile \/ Finish
    BY <1>3, FileKeeps, LosesKeeps
<1>4. CASE Connect
    BY <1>4, ConnectKeeps
<1>5. CASE Report
    BY <1>5, ReportKeeps
<1>6. CASE Over
    BY <1>6, <1>1 DEF Over
<1> QED BY <1>1, <1>2, <1>3, <1>4, <1>5, <1>6 DEF Next

-----------------------------------------------------------------------------
(* One place for the message, counted.                                     *)
LEMMA Counted == ASSUME Sizes, IInv PROVE OnePotato
<1>1. Cardinality({}) = 0 /\ \A p : Cardinality({p}) = 1
    BY FS_EmptySet, FS_Singleton
<1>2. Holders = {p \in Procs : Holds(p)} /\ InFlight = {p \in Procs : Queued(p)}
    BY DEF Holders, InFlight, Holds, Queued, Dead
<1>3. CASE \A p \in Procs : ~Holds(p) /\ ~Queued(p)
    <2>1. Holders = {} /\ InFlight = {}
        BY <1>2, <1>3
    <2> QED BY <1>1, <2>1 DEF OnePotato
<1>4. ASSUME NEW p \in Procs, Holds(p) PROVE OnePotato
    <2>1. Holders = {p} /\ InFlight = {}
        BY <1>2, <1>4 DEF IInv, Single
    <2>2. Cardinality(Holders) = 1 /\ Cardinality(InFlight) = 0
        BY <1>1, <2>1
    <2> QED BY <2>2 DEF OnePotato
<1>5. ASSUME NEW p \in Procs, Queued(p) PROVE OnePotato
    <2>1. Holders = {} /\ InFlight = {p}
        BY <1>2, <1>5 DEF IInv, Single
    <2>2. Cardinality(Holders) = 0 /\ Cardinality(InFlight) = 1
        BY <1>1, <2>1
    <2> QED BY <2>2 DEF OnePotato
<1> QED BY <1>3, <1>4, <1>5

(* msgring.c: IInv and Born hold in every state, for rings of any length,  *)
(* any number of rounds, and whatever fork(), the file or a killed jumper  *)
(* does to them.                                                           *)
THEOREM Invariance == ASSUME Sizes PROVE Spec => [](IInv /\ Born)
<1>1. Init => IInv /\ Born
    BY InitIInv, InitBorn
<1>2. IInv /\ Born /\ [Next]_vars => IInv' /\ Born'
    BY NextKeeps
<1> QED BY <1>1, <1>2, PTL DEF Spec

(* jumper() and iterator() never have two messages in the ring.            *)
THEOREM OneInTheRing == ASSUME Sizes PROVE Spec => []OnePotato
<1>1. IInv => OnePotato
    BY Counted
<1> QED BY <1>1, Invariance, PTL

LEMMA Printed == ASSUME Sizes, IInv PROVE PassesAsPrinted
<1> SUFFICES ASSUME at[0] = "print" PROVE hops = P * Rounds * (runs + 1)
    BY DEF PassesAsPrinted
<1>1. hops = P * (Rounds * (runs + 1)) /\ runs \in Nat
    BY DEF IInv, Passes, Types
<1> QED BY <1>1 DEF Sizes

(* When print_result() is called the ring has passed the message exactly   *)
(* procs * rounds times in each run so far.                                *)
THEOREM AsPrinted == ASSUME Sizes PROVE Spec => []PassesAsPrinted
<1>1. IInv => PassesAsPrinted
    BY Printed
<1> QED BY <1>1, Invariance, PTL

-----------------------------------------------------------------------------
(* Types, bounds and who waits.                                            *)

Limits == Rounds >= 1 /\ MaxRetry \in Nat \ {0} /\ MaxCrash \in Nat

(* Process 0 is in iterator().                                             *)
Running == at[0] \in {"receive", "reply", "send", "sendBlocked", "replyBlocked"}

(* The counters stop before their bounds: readfile() gives up, iterator()  *)
(* and main() leave their loops.                                           *)
Bounded ==
    /\ TypeOK
    /\ at[0] # "dead" => tries < MaxRetry
    /\ Running => round < Rounds
    /\ at[0] \notin {"finish", "dead"} => runs < 2

(* Nothing is sent to a process that does not exist yet, and whoever has a *)
(* message queued waits for it to be received.                             *)
LastBorn == at[P - 1] # "unborn"
Settled ==
    /\ \A p \in Procs : at[p] \in {"create", "write"} => p = P - 1
    /\ Running \/ file # "none" \/ knows = P - 1 => LastBorn
    /\ \A p \in Procs : at[p] = "unborn" => ~msg[p]
    /\ SenderWaits

LEMMA Opposite ==
    ASSUME Sizes, NEW p \in Procs
    PROVE  /\ Prev(Next_(p)) = p /\ Next_(Prev(p)) = p /\ P - 1 \in Procs /\ P - 1 # 0
           /\ \A q \in Procs : (Prev(q) = p <=> q = Next_(p))
    BY DEF Sizes, Procs, Next_, Prev

LEMMA InitSettled == ASSUME Sizes, Limits PROVE Init => Bounded /\ Settled
<1> SUFFICES ASSUME Init PROVE Bounded /\ Settled
    OBVIOUS
<1>1. 0 \in Procs
    BY DEF Procs, Sizes
<1>2. at[0] = "fork" /\ \A p \in Procs : at[p] \in {"fork", "unborn"} /\ ~msg[p]
    BY <1>1 DEF Init
<1>3. TypeOK
    BY DEF Init, TypeOK, Places, Sizes, Limits
<1>4. Bounded
    BY <1>2, <1>3 DEF Init, Bounded, Running, Limits, Sizes
<1>5. knows # P - 1 /\ file = "none"
    BY DEF Init, Sizes
<1> QED BY <1>2, <1>4, <1>5 DEF Settled, SenderWaits, Running

(* A process moves, and no message with it.                                *)
LEMMA GotoKeeps ==
    ASSUME Sizes, Limits, Bounded, Settled, NEW p \in Procs, NEW where \in Places \ {"unborn"},
           Goto(p, where), at[p] \notin {"unborn", "dead"},
           at[p] = "sendBlocked" => Dead(Next_(p)),
           where \in {"create", "write"} => p = P - 1,
           p = 0 /\ where \in {"receive", "reply", "send"} => LastBorn /\ round' < Rounds,
           where \notin {"sendBlocked", "replyBlocked"},
           p = 0 /\ where \notin {"finish", "dead"} => runs' < 2,
           UNCHANGED msg, bad' \in [Procs -> BOOLEAN],
           runs' \in {runs, runs + 1}, p # 0 \/ at[p] = "finish" => runs' = runs,
           round' \in {0, round}, tries' \in {0, tries}, hops' \in Nat, crashes' \in 0..MaxCrash,
           file' \in {"none", "empty", "written", "locked"}, knows' \in {-2, -1, P - 1},
           file' # "none" \/ knows' = P - 1 => LastBorn
    PROVE  Bounded' /\ Settled'
<1>1. /\ at' \in [Procs -> Places] /\ at'[p] = where
      /\ \A q \in Procs : q # p => at'[q] = at[q]
    BY DEF Goto, Bounded, TypeOK
<1>2. P - 1 \in Procs /\ 0 \in Procs
    BY DEF Procs, Sizes
<1>3. SenderWaits'
    <2> SUFFICES ASSUME NEW q \in Procs, msg'[q], at'[q] # "dead"
                 PROVE  at'[Prev(q)] = "sendBlocked"
        BY DEF SenderWaits, Dead
    <2>1. at[q] # "dead" /\ msg[q]
        BY <1>1
    <2>2. at[Prev(q)] = "sendBlocked" /\ Prev(q) \in Procs
        BY <2>1, Neighbours DEF Settled, SenderWaits, Dead
    <2>3. Prev(q) # p
        BY <2>1, <2>2, Opposite DEF Dead
    <2> QED BY <1>1, <2>2, <2>3
<1>4. LastBorn => LastBorn'
    BY <1>1, <1>2 DEF LastBorn
<1>5. \A q \in Procs : /\ at'[q] = "unborn" => ~msg'[q]
                       /\ at'[q] \in {"create", "write"} => q = P - 1
    BY <1>1 DEF Settled
<1>6. Running' => LastBorn /\ round' < Rounds
    <2>1. CASE p = 0
        BY <1>1, <2>1 DEF Running
    <2>2. CASE p # 0
        <3>1. Running' => Running
            BY <1>1, <1>2, <2>2 DEF Running
        <3> QED BY <3>1 DEF Bounded, Settled, Limits, Sizes
    <2> QED BY <2>1, <2>2
<1>7. Settled'
    BY <1>3, <1>4, <1>5, <1>6 DEF Settled
<1>8. at[0] # "dead" \/ at'[0] = "dead"
    BY <1>1, <1>2
<1>9. at'[0] \notin {"finish", "dead"} => runs' < 2
    BY <1>1, <1>2 DEF Bounded
<1>10. runs' \in 0..2
    <2>1. CASE p = 0
        BY <2>1 DEF Bounded, TypeOK
    <2>2. CASE p # 0
        BY <2>2 DEF Bounded, TypeOK
    <2> QED BY <2>1, <2>2
<1>11. TypeOK'
    BY <1>1, <1>10 DEF Bounded, TypeOK, Limits, Sizes
<1>12. at'[0] # "dead" => tries' < MaxRetry
    BY <1>8 DEF Bounded, Limits
<1> QED BY <1>6, <1>7, <1>9, <1>11, <1>12 DEF Bounded

(* kill(0, SIGKILL) leaves nobody to wait.                                 *)
LEMMA KillGroupKeeps ==
    ASSUME Sizes, Limits, Born, Bounded, Settled, KillGroup,
           UNCHANGED <<msg, bad, knows, runs, hops, crashes>>, file' \in {file, "none"},
           tries' \in 0..MaxRetry, round' \in 0..Rounds
    PROVE  Bounded' /\ Settled'
<1>1. /\ at' \in [Procs -> Places]
      /\ \A q \in Procs : at'[q] = IF at[q] = "unborn" THEN "unborn" ELSE "dead"
    BY DEF KillGroup, Places
<1>2. 0 \in Procs /\ P - 1 \in Procs
    BY DEF Procs, Sizes
<1>3. at'[0] = "dead"
    BY <1>1, <1>2 DEF Born
<1>4. LastBorn => LastBorn'
    BY <1>1, <1>2 DEF LastBorn
<1>5. \A q \in Procs : msg'[q] => at'[q] = "dead"
    BY <1>1 DEF Settled
<1>6. SenderWaits'
    BY <1>5 DEF SenderWaits, Dead
<1>7. \A q \in Procs : at'[q] = "unborn" => ~msg'[q]
    BY <1>5
<1>8. \A q \in Procs : at'[q] \in {"create", "write"} => q = P - 1
    BY <1>1
<1>9. ~Running'
    BY <1>3 DEF Running
<1>10. file' # "none" \/ knows' = P - 1 => LastBorn'
    BY <1>4 DEF Settled
<1>11. Settled'
    BY <1>6, <1>7, <1>8, <1>9, <1>10 DEF Settled
<1>12. TypeOK'
    BY <1>1 DEF Bounded, TypeOK
<1> QED BY <1>3, <1>9, <1>11, <1>12 DEF Bounded

(* fork(): the child is new.                                               *)
LEMMA ForkSettled ==
    ASSUME Sizes, Limits, Born, Bounded, Settled, NEW p \in Procs, Fork(p)
    PROVE  Bounded' /\ Settled'
<1>1. /\ UNCHANGED <<msg, bad, round, file, tries, knows, runs, hops, crashes>>
      /\ at[p] = "fork"
    BY DEF Fork, fileVars
<1>2. CASE Goto(p, "dead")
    BY <1>1, <1>2, GotoKeeps, "dead" \in Places \ {"unborn"} DEF Bounded, TypeOK, Settled, Places
<1>3. CASE at' = [at EXCEPT ![p] = IF p = 0 THEN "open" ELSE "receive", ![p + 1] = "boot"]
    <2>1. p \in Int /\ p + 1 # p /\ 0 \in Procs /\ P - 1 \in Procs /\ p + 1 # 0
        BY DEF Procs, Sizes
    <2>2. /\ at' \in [Procs -> Places] /\ at'[p] = IF p = 0 THEN "open" ELSE "receive"
          /\ \A q \in Procs : q # p => \/ at'[q] = at[q]
                                       \/ at'[q] = "boot" /\ q = p + 1
        BY <1>3, <2>1 DEF Bounded, TypeOK, Places
    <2>3. \A q \in Procs : at'[q] = "boot" => at[q] \in {"boot", "unborn"}
        BY <1>1, <2>1, <2>2 DEF Born, Early
    <2>4. at'[0] = at[0] \/ (at[0] = "fork" /\ at'[0] = "open")
        BY <1>1, <2>1, <2>2
    <2>5. LastBorn => LastBorn'
        BY <2>1, <2>2 DEF LastBorn
    <2>6. SenderWaits'
        <3> SUFFICES ASSUME NEW q \in Procs, msg'[q], at'[q] # "dead"
                     PROVE  at'[Prev(q)] = "sendBlocked"
            BY DEF SenderWaits, Dead
        <3>1. at[q] # "dead" /\ msg[q]
            BY <1>1, <2>2, <2>3
        <3>2. at[Prev(q)] = "sendBlocked" /\ Prev(q) \in Procs
            BY <3>1, Neighbours DEF Settled, SenderWaits, Dead
        <3> QED BY <1>1, <2>2, <2>3, <3>2
    <2>7. \A q \in Procs : /\ at'[q] = "unborn" => ~msg'[q]
                           /\ at'[q] \in {"create", "write"} => q = P - 1
        BY <1>1, <2>2 DEF Settled
    <2>8. Running' => Running
        BY <2>4 DEF Running
    <2>9. Settled'
        BY <1>1, <2>5, <2>6, <2>7, <2>8 DEF Settled
    <2>10. TypeOK'
        BY <1>1, <2>2 DEF Bounded, TypeOK
    <2> QED BY <1>1, <2>4, <2>8, <2>9, <2>10 DEF Bounded
<1> QED BY <1>2, <1>3 DEF Fork

LEMMA SetupSettled ==
    ASSUME Sizes, Limits, Born, Bounded, Settled, NEW p \in Procs,
           Boot(p) \/ CreateFile(p) \/ WriteFile(p)
    PROVE  Bounded' /\ Settled'
<1>1. /\ UNCHANGED <<msg, bad, round, tries, knows, runs, hops, crashes>>
      /\ at[p] \in {"boot", "create", "write"} /\ p # 0
    BY DEF Boot, CreateFile, WriteFile, fileVars, Born
<1>2. PICK where \in {"create", "fork", "dead", "write", "receive"} :
          Goto(p, where) /\ (where \in {"create", "write"} => p = P - 1)
    BY DEF Boot, CreateFile, WriteFile, Settled
<1>3. where \in Places \ {"unborn"}
    BY DEF Places
<1>4. file' \in {"none", "empty", "written", "locked"}
    BY DEF Boot, CreateFile, WriteFile, fileVars, Bounded, TypeOK
<1>5. file' # "none" \/ knows' = P - 1 => LastBorn
    BY <1>1 DEF Boot, CreateFile, WriteFile, fileVars, Settled, LastBorn
<1> QED BY <1>1, <1>2, <1>3, <1>4, <1>5, GotoKeeps DEF Bounded, TypeOK

(* readfile() and the rest of run_iterator() and main().                   *)
LEMMA FileSettled ==
    ASSUME Sizes, Limits, Born, Bounded, Settled, OpenFile \/ ReadFile \/ Connect \/ Report \/ Finish
    PROVE  Bounded' /\ Settled'
<1>1. 0 \in Procs /\ UNCHANGED <<msg, bad, hops, crashes>>
    BY DEF Procs, Sizes, OpenFile, ReadFile, Connect, Report, Finish
<1> USE <1>1
<1>2. CASE OpenFile
    <2>1. CASE Goto(0, "read") /\ UNCHANGED tries
        BY <1>2, <2>1, GotoKeeps, "read" \in Places \ {"unborn"}
           DEF OpenFile, Bounded, TypeOK, Settled, Places
    <2>2. CASE KillGroup /\ tries' = MaxRetry
        BY <1>2, <2>2, KillGroupKeeps DEF OpenFile, Bounded, TypeOK, Limits
    <2>3. CASE UNCHANGED at /\ tries' = tries + 1 /\ tries + 1 # MaxRetry
        <3>1. tries < MaxRetry /\ tries \in Nat
            BY <1>2 DEF OpenFile, Bounded, TypeOK
        <3>2. TypeOK' /\ tries' < MaxRetry
            BY <1>2, <2>3, <3>1 DEF OpenFile, Bounded, TypeOK, Limits
        <3>3. Bounded'
            BY <1>2, <2>3, <3>2 DEF OpenFile, Bounded, Running
        <3> QED BY <1>2, <2>3, <3>3 DEF OpenFile, Settled, Running, LastBorn, SenderWaits, Dead
    <2> QED BY <1>2, <2>1, <2>2, <2>3 DEF OpenFile
<1>3. CASE ReadFile
    <2>1. knows' \in {-2, -1, P - 1} /\ (knows' = P - 1 => file = "written")
        BY <1>3 DEF ReadFile, Sizes
    <2> QED BY <1>3, <2>1, GotoKeeps, "connect" \in Places \ {"unborn"}
               DEF ReadFile, Bounded, TypeOK, Settled, Places
<1>4. CASE Connect
    <2>1. /\ at[0] = "connect" /\ tries' = 0 /\ round' = 0 /\ UNCHANGED <<file, knows, runs>>
          /\ runs < 2
        BY <1>4 DEF Connect, Bounded
    <2>2. CASE knows = P - 1 /\ Goto(0, "send")
        BY <2>1, <2>2, GotoKeeps, "send" \in Places \ {"unborn"}
           DEF Bounded, TypeOK, Settled, Places, Limits, Sizes
    <2>3. CASE KillGroup
        BY <2>1, <2>3, KillGroupKeeps DEF Limits, Sizes
    <2>4. CASE Goto(0, "dead")
        BY <2>1, <2>4, GotoKeeps, "dead" \in Places \ {"unborn"} DEF Bounded, TypeOK, Settled, Places
    <2> QED BY <1>4, <2>2, <2>3, <2>4 DEF Connect
<1>5. CASE Report
    <2>1. PICK where \in {"finish", "open"} :
            Goto(0, where) /\ (where = "open" => runs + 1 # 2)
        BY <1>5 DEF Report
    <2>2. /\ at[0] = "print" /\ runs' = runs + 1 /\ runs < 2 /\ runs \in Nat
          /\ UNCHANGED <<round, file, tries, knows>>
        BY <1>5 DEF Report, fileVars, Bounded, TypeOK
    <2>3. where \in Places \ {"unborn"}
        BY DEF Places
    <2> QED BY <2>1, <2>2, <2>3, GotoKeeps DEF Bounded, TypeOK, Settled
<1>6. CASE Finish
    BY <1>6, KillGroupKeeps DEF Finish, Bounded, TypeOK
<1> QED BY <1>2, <1>3, <1>4, <1>5, <1>6

(* MsgSend(), MsgReceive() and MsgReply(): who has sent waits.             *)
LEMMA SendSettled ==
    ASSUME Sizes, Limits, Born, Bounded, Settled, NEW p \in Procs, Send(p)
    PROVE  Bounded' /\ Settled'
<1> DEFINE n == Next_(p)
<1>1. /\ at[p] = "send" /\ msg' = [msg EXCEPT ![n] = TRUE] /\ hops' = hops + 1
      /\ at' = [at EXCEPT ![p] = "sendBlocked"]
      /\ UNCHANGED <<bad, round, file, tries, knows, runs, crashes>>
    BY DEF Send, Goto, fileVars
<1>2. n \in Procs /\ n # p /\ 0 \in Procs /\ P - 1 \in Procs /\ Prev(n) = p
    BY Neighbours, Opposite
<1>3. at' \in [Procs -> Places] /\ at'[p] = "sendBlocked" /\ \A q \in Procs : q # p => at'[q] = at[q]
    BY <1>1 DEF Bounded, TypeOK, Places
<1>4. msg' \in [Procs -> BOOLEAN] /\ msg'[n] /\ \A q \in Procs : q # n => msg'[q] = msg[q]
    BY <1>1, <1>2 DEF Bounded, TypeOK
<1>5. at[n] # "unborn"
    <2>1. CASE p = 0
        BY <1>1, <2>1 DEF Settled, Running, LastBorn, Next_
    <2>2. CASE p # 0
        <3>1. n = p - 1 /\ p > n
            BY <2>2 DEF Next_, Procs, Sizes
        <3> QED BY <1>1, <1>2, <3>1 DEF Born, Early
    <2> QED BY <2>1, <2>2
<1>6. SenderWaits'
    <2> SUFFICES ASSUME NEW q \in Procs, msg'[q], at'[q] # "dead"
                 PROVE  at'[Prev(q)] = "sendBlocked"
        BY DEF SenderWaits, Dead
    <2>1. CASE q = n
        BY <1>2, <1>3, <2>1
    <2>2. CASE q # n
        <3>1. at[q] # "dead" /\ msg[q]
            BY <1>1, <1>3, <1>4, <2>2
        <3>2. at[Prev(q)] = "sendBlocked" /\ Prev(q) \in Procs
            BY <3>1, Neighbours DEF Settled, SenderWaits, Dead
        <3> QED BY <1>3, <3>2
    <2> QED BY <2>1, <2>2
<1>7. LastBorn => LastBorn'
    BY <1>2, <1>3 DEF LastBorn
<1>8. Running' => Running
    BY <1>1, <1>2, <1>3 DEF Running
<1>9. \A q \in Procs : /\ at'[q] = "unborn" => ~msg'[q]
                       /\ at'[q] \in {"create", "write"} => q = P - 1
    BY <1>3, <1>4, <1>5 DEF Settled
<1>10. Settled'
    BY <1>1, <1>6, <1>7, <1>8, <1>9 DEF Settled
<1>11. TypeOK'
    BY <1>1, <1>3, <1>4 DEF Bounded, TypeOK
<1>12. at'[0] = "dead" <=> at[0] = "dead"
    BY <1>1, <1>2, <1>3
<1>13. at'[0] = "finish" <=> at[0] = "finish"
    BY <1>1, <1>2, <1>3
<1> QED BY <1>1, <1>8, <1>10, <1>11, <1>12, <1>13 DEF Bounded

LEMMA ReceiveSettled ==
    ASSUME Sizes, Limits, Born, Bounded, Settled, NEW p \in Procs, Receive(p)
    PROVE  Bounded' /\ Settled'
<1> DEFINE v == Prev(p)
<1>1. /\ at[p] = "receive" /\ msg' = [msg EXCEPT ![p] = FALSE]
      /\ at' = [at EXCEPT ![p] = "reply",
                          ![v] = IF @ = "sendBlocked" THEN "replyBlocked" ELSE @]
      /\ UNCHANGED <<bad, round, file, tries, knows, runs, hops, crashes>>
    BY DEF Receive, fileVars
<1>2. v \in Procs /\ v # p /\ 0 \in Procs /\ P - 1 \in Procs
    BY Neighbours, Opposite
<1>3. /\ at' \in [Procs -> Places] /\ at'[p] = "reply"
      /\ at'[v] = at[v] \/ (at[v] = "sendBlocked" /\ at'[v] = "replyBlocked")
      /\ \A q \in Procs : q # p /\ q # v => at'[q] = at[q]
    BY <1>1, <1>2 DEF Bounded, TypeOK, Places
<1>4. msg' \in [Procs -> BOOLEAN] /\ ~msg'[p] /\ \A q \in Procs : q # p => msg'[q] = msg[q]
    BY <1>1 DEF Bounded, TypeOK
<1>5. SenderWaits'
    <2> SUFFICES ASSUME NEW q \in Procs, msg'[q], at'[q] # "dead"
                 PROVE  at'[Prev(q)] = "sendBlocked"
        BY DEF SenderWaits, Dead
    <2>1. q # p /\ msg[q] /\ at[q] # "dead"
        BY <1>1, <1>3, <1>4
    <2>2. at[Prev(q)] = "sendBlocked" /\ Prev(q) \in Procs
        BY <2>1, Neighbours DEF Settled, SenderWaits, Dead
    <2>3. Prev(q) # v
        BY <1>2, <2>1, Opposite
    <2> QED BY <1>1, <1>3, <2>2, <2>3
<1>6. LastBorn => LastBorn'
    BY <1>2, <1>3 DEF LastBorn
<1>7. (Running' <=> Running) /\ (at'[0] \in {"dead", "finish"} => at'[0] = at[0])
      /\ (at[0] \in {"dead", "finish"} => at'[0] = at[0])
    BY <1>1, <1>2, <1>3 DEF Running
<1>8. \A q \in Procs : /\ at'[q] = "unborn" => ~msg'[q]
                       /\ at'[q] \in {"create", "write"} => q = P - 1
    BY <1>3, <1>4 DEF Settled
<1>9. Settled'
    BY <1>1, <1>5, <1>6, <1>7, <1>8 DEF Settled
<1>10. TypeOK'
    BY <1>1, <1>3, <1>4 DEF Bounded, TypeOK
<1> QED BY <1>1, <1>7, <1>9, <1>10 DEF Bounded

LEMMA ReplySettled ==
    ASSUME Sizes, Limits, Born, Bounded, Settled, NEW p \in Procs, Reply(p)
    PROVE  Bounded' /\ Settled'
<1> DEFINE v == Prev(p)
<1>1. /\ at[p] = "reply" /\ round' = IF p = 0 THEN round + 1 ELSE round
      /\ UNCHANGED <<msg, file, tries, knows, runs, hops, crashes>>
    BY DEF Reply, fileVars
<1>2. v \in Procs /\ v # p /\ 0 \in Procs /\ P - 1 \in Procs
    BY Neighbours, Opposite
<1>3. round \in Nat /\ round <= Rounds /\ (p = 0 => round < Rounds)
    BY <1>1 DEF Bounded, TypeOK, Running, Sizes
<1>4. CASE p = 0 /\ KillGroup /\ UNCHANGED bad
    BY <1>1, <1>3, <1>4, KillGroupKeeps DEF Sizes, Bounded, TypeOK
<1>5. CASE p # 0 /\ Goto(p, "send") /\ bad' = [bad EXCEPT ![p] = TRUE]
    BY <1>1, <1>5, GotoKeeps, "send" \in Places \ {"unborn"}
       DEF Bounded, TypeOK, Settled, Places
<1>6. CASE /\ at[v] = "replyBlocked" /\ UNCHANGED bad
           /\ at' = [at EXCEPT ![p] = AfterReply(p), ![v] = Resume(v)]
    <2>1. /\ AfterReply(p) \in {"send", "print"}
          /\ p = 0 /\ AfterReply(p) = "send" => round + 1 # Rounds
          /\ Resume(v) \in {"dead", "receive"} /\ (v = 0 => Resume(v) = "receive")
        BY DEF AfterReply, Resume
    <2>2. PICK a \in {"send", "print"}, r \in {"dead", "receive"} :
            /\ at' = [at EXCEPT ![p] = a, ![v] = r]
            /\ (p = 0 /\ a = "send" => round + 1 # Rounds) /\ (v = 0 => r = "receive")
            /\ p # 0 => a = "send"
        BY <1>6, <2>1 DEF AfterReply
    <2>3. /\ at' \in [Procs -> Places] /\ at'[p] = a /\ at'[v] = r
          /\ \A q \in Procs : q # p /\ q # v => at'[q] = at[q]
        BY <1>2, <2>2 DEF Bounded, TypeOK, Places
    <2>4. SenderWaits'
        <3> SUFFICES ASSUME NEW q \in Procs, msg'[q], at'[q] # "dead"
                     PROVE  at'[Prev(q)] = "sendBlocked"
            BY DEF SenderWaits, Dead
        <3>1. msg[q] /\ at[q] # "dead"
            BY <1>1, <1>6, <2>3
        <3>2. at[Prev(q)] = "sendBlocked" /\ Prev(q) \in Procs
            BY <3>1, Neighbours DEF Settled, SenderWaits, Dead
        <3> QED BY <1>1, <1>6, <2>3, <3>2
    <2>5. LastBorn => LastBorn'
        BY <1>1, <1>2, <1>6, <2>3 DEF LastBorn
    <2>6. Running' => Running /\ round' < Rounds
        <3>1. CASE p = 0
            BY <1>1, <1>3, <2>2, <2>3, <3>1 DEF Running, Sizes
        <3>2. CASE v = 0
            BY <1>1, <1>2, <1>6, <3>2 DEF Running, Bounded
        <3>3. CASE p # 0 /\ v # 0
            BY <1>1, <1>2, <2>3, <3>3 DEF Running, Bounded
        <3> QED BY <3>1, <3>2, <3>3
    <2>7. /\ at[0] = "dead" => at'[0] = "dead"
          /\ at[0] = "finish" => at'[0] = "finish"
        BY <1>1, <1>2, <1>6, <2>3
    <2>8. \A q \in Procs : /\ at'[q] = "unborn" => ~msg'[q]
                           /\ at'[q] \in {"create", "write"} => q = P - 1
        BY <1>1, <2>3 DEF Settled
    <2>9. Settled'
        BY <1>1, <2>4, <2>5, <2>6, <2>8 DEF Settled
    <2>10. TypeOK'
        BY <1>1, <1>3, <1>6, <2>3 DEF Bounded, TypeOK, Sizes
    <2> QED BY <1>1, <2>6, <2>7, <2>9, <2>10 DEF Bounded
<1> QED BY <1>4, <1>5, <1>6 DEF Reply

LEMMA FailuresSettled ==
    ASSUME Sizes, Limits, Born, Bounded, Settled, NEW p \in Procs, SendFails(p) \/ Crash(p)
    PROVE  Bounded' /\ Settled'
<1>1. CASE SendFails(p)
    <2>1. PICK where \in {"receive", "dead"} : Goto(p, where)
        BY <1>1 DEF SendFails
    <2>2. where \in Places \ {"unborn"}
        BY DEF Places
    <2>3. /\ at[p] \in {"send", "sendBlocked", "replyBlocked"} /\ Dead(Next_(p))
          /\ bad' = [bad EXCEPT ![p] = TRUE]
          /\ UNCHANGED <<msg, round, hops, file, tries, knows, runs, crashes>>
        BY <1>1 DEF SendFails, fileVars
    <2>4. p = 0 => LastBorn /\ round < Rounds /\ runs < 2
        BY <2>3 DEF Settled, Bounded, Running
    <2> QED BY <2>1, <2>2, <2>3, <2>4, GotoKeeps DEF Bounded, TypeOK, Settled
<1>2. CASE Crash(p)
    <2> DEFINE n == Next_(p)
    <2>1. /\ p # 0 /\ at[p] \notin {"dead", "unborn"} /\ at' = [at EXCEPT ![p] = "dead"]
          /\ crashes < MaxCrash /\ crashes' = crashes + 1
          /\ msg' = [msg EXCEPT ![n] = @ /\ at[p] # "sendBlocked"]
          /\ UNCHANGED <<bad, round, hops, file, tries, knows, runs>>
        BY <1>2 DEF Crash, Goto, Dead, fileVars
    <2>2. n \in Procs /\ n # p /\ 0 \in Procs /\ P - 1 \in Procs /\ Prev(n) = p
        BY Neighbours, Opposite
    <2>3. at' \in [Procs -> Places] /\ at'[p] = "dead" /\ \A q \in Procs : q # p => at'[q] = at[q]
        BY <2>1 DEF Bounded, TypeOK, Places
    <2>4. /\ msg' \in [Procs -> BOOLEAN] /\ \A q \in Procs : msg'[q] => msg[q]
          /\ msg'[n] => at[p] # "sendBlocked"
        BY <2>1, <2>2 DEF Bounded, TypeOK
    <2>5. SenderWaits'
        <3> SUFFICES ASSUME NEW q \in Procs, msg'[q], at'[q] # "dead"
                     PROVE  at'[Prev(q)] = "sendBlocked"
            BY DEF SenderWaits, Dead
        <3>1. msg[q] /\ at[q] # "dead"
            BY <2>3, <2>4
        <3>2. at[Prev(q)] = "sendBlocked" /\ Prev(q) \in Procs
            BY <3>1, Neighbours DEF Settled, SenderWaits, Dead
        <3>3. Prev(q) # p
            BY <2>4, <3>2, Opposite
        <3> QED BY <2>3, <3>2, <3>3
    <2>6. LastBorn => LastBorn'
        BY <2>2, <2>3 DEF LastBorn
    <2>7. at'[0] = at[0]
        BY <2>1, <2>2, <2>3
    <2>8. \A q \in Procs : /\ at'[q] = "unborn" => ~msg'[q]
                           /\ at'[q] \in {"create", "write"} => q = P - 1
        BY <2>3, <2>4 DEF Settled
    <2>9. Settled'
        BY <2>1, <2>5, <2>6, <2>7, <2>8 DEF Settled, Running
    <2>10. TypeOK'
        BY <2>1, <2>3, <2>4 DEF Bounded, TypeOK, Limits
    <2> QED BY <2>1, <2>7, <2>9, <2>10 DEF Bounded, Running
<1> QED BY <1>1, <1>2

LEMMA NextSettled ==
    ASSUME Sizes, Limits, Born, Bounded, Settled, [Next]_vars PROVE Bounded' /\ Settled'
<1>1. CASE UNCHANGED vars
    BY <1>1 DEF vars, ringVars, fileVars, Bounded, Settled, TypeOK, Running, LastBorn,
       SenderWaits, Dead
<1>2. ASSUME NEW p \in Procs, Step(p) \/ Crash(p) PROVE Bounded' /\ Settled'
    BY <1>2, ForkSettled, SetupSettled, SendSettled, ReceiveSettled, ReplySettled,
       FailuresSettled DEF Step
<1>3. CASE OpenFile \/ ReadFile \/ Connect \/ Report \/ Finish
    BY <1>3, FileSettled
<1>4. CASE Over
    BY <1>4, <1>1 DEF Over
<1> QED BY <1>1, <1>2, <1>3, <1>4 DEF Next

(* msgring.c: the counters stay in their ranges, and a message is queued   *)
(* only while its sender waits for it to be received.                      *)
THEOREM QueuedWaits == ASSUME Sizes, Limits PROVE Spec => [](TypeOK /\ SenderWaits)
<1>1. Init => Bounded /\ Settled
    BY InitSettled
<1>2. Born /\ Bounded /\ Settled /\ [Next]_vars => Bounded' /\ Settled'
    BY NextSettled
<1>3. Bounded /\ Settled => TypeOK /\ SenderWaits
    BY DEF Bounded, Settled
<1> QED BY <1>1, <1>2, <1>3, Invariance, PTL DEF Spec
==============================================================================
