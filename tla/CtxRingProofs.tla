---------------------------- MODULE CtxRingProofs ----------------------------
(***************************************************************************)
(* The safety of the context switch ring, proved for any number of         *)
(* processes, rounds, crashes and for both programs.  The invariant says   *)
(* where the one token can be (OneToken) and how often each daemon has     *)
(* passed it on for each of these places (PassesInv): a round counts only  *)
(* when the token comes back, and by then every daemon had it once.        *)
(***************************************************************************)
EXTENDS CtxRing, TLAPS

USE DEF mainVars, Daemons, Pipes

\* The ring starts empty, with the token in main's hand.
LEMMA InitInv == Init => Inv
<1> SUFFICES ASSUME Init PROVE Inv
  OBVIOUS
<1> USE ProcsAssumption, VariantAssumption, CtxBoundAssumption
<1>1. TypeOK
  <2>1. FlagType
    BY DEF Init, FlagType
  <2>2. RingType
    BY DEF Init, RingType, MainPCs
  <2>3. QED
    BY <2>1, <2>2 DEF TypeOK
<1>2. OneToken
  BY DEF Init, OneToken, MainHolds, Holds
<1>3. PassesInv /\ LoopInv /\ NoDaemonLeft
  BY DEF Init, PassesInv, MainHolds, Holds, LoopInv, NoDaemonLeft
<1>4. QED
  BY <1>1, <1>2, <1>3 DEF Inv

\* Steps of main: initialize(), benchmark(), cleanup() and its death.
LEMMA MainPreserves ==
    ASSUME Inv, MainStep \/ Sigchld \/ MainKilled
    PROVE  Inv'
<1>a. TypeOK /\ OneToken /\ PassesInv /\ LoopInv /\ NoDaemonLeft
  BY DEF Inv
<1> USE <1>a, ProcsAssumption, CtxBoundAssumption
<1>1. CASE CreatePipes
  <2>1. TypeOK'
    <3>1. FlagType'
      BY <1>1 DEF TypeOK, FlagType, CreatePipes
    <3>2. RingType'
      BY <1>1 DEF TypeOK, RingType, MainPCs, LoopInv, CreatePipes
    <3>3. QED
      BY <3>1, <3>2 DEF TypeOK
  <2>2. OneToken'
    BY <1>1 DEF TypeOK, RingType, OneToken, MainHolds, Holds, LoopInv, CreatePipes
  <2>3. PassesInv'
    BY <1>1 DEF TypeOK, RingType, OneToken, PassesInv, MainHolds, Holds, LoopInv, CreatePipes
  <2>4. LoopInv'
    BY <1>1 DEF TypeOK, RingType, LoopInv, CreatePipes
  <2>5. NoDaemonLeft'
    BY <1>1 DEF TypeOK, RingType, LoopInv, NoDaemonLeft, CreatePipes
  <2>6. QED
    BY <2>1, <2>2, <2>3, <2>4, <2>5 DEF Inv
<1>2. CASE Fork
  <2>1. TypeOK'
    <3>1. FlagType'
      BY <1>2 DEF TypeOK, FlagType, Fork, MoreDaemons
    <3>2. CASE n < Procs
      <4>1. n' \in 1..Procs
        BY <1>2, <3>2 DEF TypeOK, RingType, Fork, MoreDaemons
      <4>2. RingType'
        BY <1>2, <3>2, <4>1 DEF TypeOK, RingType, MainPCs, Fork, MoreDaemons
      <4>3. QED
        BY <3>1, <4>2 DEF TypeOK
    <3>3. CASE ~(n < Procs)
      <4>1. RingType'
        BY <1>2, <3>3 DEF TypeOK, RingType, MainPCs, Fork, MoreDaemons
      <4>2. QED
        BY <3>1, <4>1 DEF TypeOK
    <3>4. QED
      BY <3>2, <3>3
  <2>2. OneToken'
    BY <1>2 DEF TypeOK, RingType, OneToken, MainHolds, Holds, LoopInv, Fork, MoreDaemons
  <2>3. PassesInv'
    BY <1>2 DEF TypeOK, RingType, OneToken, PassesInv, MainHolds, Holds, LoopInv, Fork,
       MoreDaemons
  <2>4. LoopInv'
    BY <1>2 DEF TypeOK, RingType, LoopInv, Fork, MoreDaemons
  <2>5. NoDaemonLeft'
    BY <1>2 DEF TypeOK, RingType, LoopInv, NoDaemonLeft, Fork, MoreDaemons
  <2>6. QED
    BY <2>1, <2>2, <2>3, <2>4, <2>5 DEF Inv
<1>3. CASE ForkFails
  <2>1. TypeOK'
    <3>1. FlagType'
      BY <1>3 DEF TypeOK, FlagType, ForkFails, MoreDaemons
    <3>2. RingType'
      BY <1>3 DEF TypeOK, RingType, MainPCs, LoopInv, ForkFails, MoreDaemons
    <3>3. QED
      BY <3>1, <3>2 DEF TypeOK
  <2>2. OneToken'
    BY <1>3 DEF TypeOK, RingType, OneToken, MainHolds, Holds, LoopInv, ForkFails, MoreDaemons
  <2>3. PassesInv'
    BY <1>3 DEF TypeOK, RingType, OneToken, PassesInv, MainHolds, Holds, LoopInv, ForkFails,
       MoreDaemons
  <2>4. LoopInv'
    BY <1>3 DEF TypeOK, RingType, LoopInv, ForkFails, MoreDaemons
  <2>5. NoDaemonLeft'
    BY <1>3 DEF TypeOK, RingType, LoopInv, NoDaemonLeft, ForkFails, MoreDaemons
  <2>6. QED
    BY <2>1, <2>2, <2>3, <2>4, <2>5 DEF Inv
<1>4. CASE MainWrite
  <2>1. TypeOK'
    <3>1. FlagType'
      BY <1>4 DEF TypeOK, FlagType, MainWrite
    <3>2. RingType'
      BY <1>4 DEF TypeOK, RingType, MainPCs, LoopInv, MainWrite
    <3>3. QED
      BY <3>1, <3>2 DEF TypeOK
  <2>2. OneToken'
    BY <1>4 DEF TypeOK, RingType, OneToken, MainHolds, Holds, LoopInv, MainWrite
  <2>3. PassesInv'
    BY <1>4, SMTT(20) DEF TypeOK, RingType, OneToken, PassesInv, MainHolds, Holds, LoopInv, MainWrite
  <2>4. LoopInv'
    BY <1>4 DEF TypeOK, RingType, LoopInv, MainWrite
  <2>5. NoDaemonLeft'
    BY <1>4 DEF TypeOK, RingType, LoopInv, NoDaemonLeft, MainWrite
  <2>6. QED
    BY <2>1, <2>2, <2>3, <2>4, <2>5 DEF Inv
<1>5. CASE MainRead
  <2>1. TypeOK'
    <3>1. FlagType'
      BY <1>5 DEF TypeOK, FlagType, MainRead, LastPipe
    <3>2. RingType'
      BY <1>5 DEF TypeOK, RingType, MainPCs, LoopInv, MainRead, LastPipe
    <3>3. QED
      BY <3>1, <3>2 DEF TypeOK
  <2>2. OneToken'
    BY <1>5 DEF TypeOK, RingType, OneToken, MainHolds, Holds, LoopInv, MainRead, LastPipe
  <2>3. PassesInv'
    BY <1>5 DEF TypeOK, RingType, OneToken, PassesInv, MainHolds, Holds, LoopInv, MainRead,
       LastPipe
  <2>4. LoopInv'
    BY <1>5 DEF TypeOK, RingType, LoopInv, MainRead, LastPipe
  <2>5. NoDaemonLeft'
    BY <1>5 DEF TypeOK, RingType, LoopInv, NoDaemonLeft, MainRead, LastPipe
  <2>6. QED
    BY <2>1, <2>2, <2>3, <2>4, <2>5 DEF Inv
<1>6. CASE StartBatch
  <2>1. TypeOK'
    <3>1. FlagType'
      BY <1>6 DEF TypeOK, FlagType, StartBatch
    <3>2. RingType'
      BY <1>6 DEF TypeOK, RingType, MainPCs, LoopInv, StartBatch
    <3>3. QED
      BY <3>1, <3>2 DEF TypeOK
  <2>2. OneToken'
    BY <1>6 DEF TypeOK, RingType, OneToken, MainHolds, Holds, LoopInv, StartBatch
  <2>3. PassesInv'
    BY <1>6 DEF TypeOK, RingType, OneToken, PassesInv, MainHolds, Holds, LoopInv, StartBatch
  <2>4. LoopInv'
    BY <1>6 DEF TypeOK, RingType, LoopInv, StartBatch
  <2>5. NoDaemonLeft'
    BY <1>6 DEF TypeOK, RingType, LoopInv, NoDaemonLeft, StartBatch
  <2>6. QED
    BY <2>1, <2>2, <2>3, <2>4, <2>5 DEF Inv
<1>7. CASE Finish
  <2>1. TypeOK'
    <3>1. FlagType'
      BY <1>7 DEF TypeOK, FlagType, Finish
    <3>2. RingType'
      BY <1>7 DEF TypeOK, RingType, MainPCs, LoopInv, Finish
    <3>3. QED
      BY <3>1, <3>2 DEF TypeOK
  <2>2. OneToken'
    BY <1>7 DEF TypeOK, RingType, OneToken, MainHolds, Holds, LoopInv, Finish
  <2>3. PassesInv'
    BY <1>7 DEF TypeOK, RingType, OneToken, PassesInv, MainHolds, Holds, LoopInv, Finish
  <2>4. LoopInv'
    BY <1>7 DEF TypeOK, RingType, LoopInv, Finish
  <2>5. NoDaemonLeft'
    BY <1>7 DEF TypeOK, RingType, LoopInv, NoDaemonLeft, Finish
  <2>6. QED
    BY <2>1, <2>2, <2>3, <2>4, <2>5 DEF Inv
<1>8. CASE Kill
  <2>1. TypeOK'
    <3>1. FlagType'
      BY <1>8 DEF TypeOK, FlagType, Kill, ExitDaemon, Ended
    <3>a. n' \in 1..Procs
      BY <1>8 DEF TypeOK, RingType, Kill
    <3>b. d' \in [Daemons -> {"unborn", "close", "read", "write", "zombie", "reaped"}]
      BY <1>8 DEF TypeOK, RingType, Kill, ExitDaemon
    <3>2. RingType'
      BY <1>8, <3>a, <3>b DEF TypeOK, RingType, MainPCs, Kill
    <3>3. QED
      BY <3>1, <3>2 DEF TypeOK
  <2>2. OneToken'
    BY <1>8 DEF TypeOK, RingType, OneToken, MainHolds, Holds, LoopInv, Kill, ExitDaemon, Ended
  <2>3. PassesInv'
    BY <1>8 DEF TypeOK, RingType, OneToken, PassesInv, MainHolds, Holds, LoopInv, Kill,
       ExitDaemon, Ended
  <2>4. LoopInv'
    BY <1>8, SMTT(20) DEF TypeOK, RingType, LoopInv, Kill, ExitDaemon, Ended
  <2>5. NoDaemonLeft'
    BY <1>8 DEF TypeOK, RingType, LoopInv, NoDaemonLeft, Kill, ExitDaemon, Ended
  <2>6. QED
    BY <2>1, <2>2, <2>3, <2>4, <2>5 DEF Inv
<1>9. CASE Wait
  <2>1. TypeOK'
    <3>1. FlagType'
      BY <1>9 DEF TypeOK, FlagType, Wait
    <3>2. RingType'
      BY <1>9 DEF TypeOK, RingType, MainPCs, LoopInv, Wait
    <3>3. QED
      BY <3>1, <3>2 DEF TypeOK
  <2>2. OneToken'
    BY <1>9 DEF TypeOK, RingType, OneToken, MainHolds, Holds, LoopInv, Wait
  <2>3. PassesInv'
    BY <1>9 DEF TypeOK, RingType, OneToken, PassesInv, MainHolds, Holds, LoopInv, Wait
  <2>4. LoopInv'
    BY <1>9 DEF TypeOK, RingType, LoopInv, Wait
  <2>5. NoDaemonLeft'
    BY <1>9 DEF TypeOK, RingType, LoopInv, NoDaemonLeft, Wait
  <2>6. QED
    BY <2>1, <2>2, <2>3, <2>4, <2>5 DEF Inv
<1>10. CASE Sigchld
  <2>1. TypeOK'
    <3>1. FlagType'
      BY <1>10 DEF TypeOK, FlagType, Sigchld, Ended
    <3>2. RingType'
      BY <1>10 DEF TypeOK, RingType, MainPCs, LoopInv, Sigchld, Ended
    <3>3. QED
      BY <3>1, <3>2 DEF TypeOK
  <2>2. OneToken'
    BY <1>10 DEF TypeOK, RingType, OneToken, MainHolds, Holds, LoopInv, Sigchld, Ended
  <2>3. PassesInv'
    BY <1>10 DEF TypeOK, RingType, OneToken, PassesInv, MainHolds, Holds, LoopInv, Sigchld, Ended
  <2>4. LoopInv'
    BY <1>10 DEF TypeOK, RingType, LoopInv, Sigchld, Ended
  <2>5. NoDaemonLeft'
    BY <1>10 DEF TypeOK, RingType, LoopInv, NoDaemonLeft, Sigchld, Ended
  <2>6. QED
    BY <2>1, <2>2, <2>3, <2>4, <2>5 DEF Inv
<1>11. CASE MainKilled
  <2>1. TypeOK'
    <3>1. FlagType'
      BY <1>11 DEF TypeOK, FlagType, MainKilled, Ended
    <3>2. RingType'
      BY <1>11 DEF TypeOK, RingType, MainPCs, LoopInv, MainKilled, Ended
    <3>3. QED
      BY <3>1, <3>2 DEF TypeOK
  <2>2. OneToken'
    BY <1>11 DEF TypeOK, RingType, OneToken, MainHolds, Holds, LoopInv, MainKilled, Ended
  <2>3. PassesInv'
    BY <1>11 DEF TypeOK, RingType, OneToken, PassesInv, MainHolds, Holds, LoopInv,
       MainKilled, Ended
  <2>4. LoopInv'
    BY <1>11 DEF TypeOK, RingType, LoopInv, MainKilled, Ended
  <2>5. NoDaemonLeft'
    BY <1>11 DEF TypeOK, RingType, LoopInv, NoDaemonLeft, MainKilled, Ended
  <2>6. QED
    BY <2>1, <2>2, <2>3, <2>4, <2>5 DEF Inv
<1>12. QED
  BY <1>1, <1>2, <1>3, <1>4, <1>5, <1>6, <1>7, <1>8, <1>9, <1>10, <1>11 DEF MainStep

\* Steps of a daemon: doit() and its death.
LEMMA DaemonPreserves ==
    ASSUME Inv, NEW k \in Daemons, DaemonStep(k) \/ DaemonCrash(k)
    PROVE  Inv'
<1>a. TypeOK /\ OneToken /\ PassesInv /\ LoopInv /\ NoDaemonLeft
  BY DEF Inv
<1> USE <1>a, ProcsAssumption, CtxBoundAssumption
<1>1. CASE DaemonStart(k)
  <2>1. TypeOK'
    <3>1. FlagType'
      BY <1>1 DEF TypeOK, FlagType, DaemonStart, ExitDaemon, Ended
    <3>2. RingType'
      BY <1>1 DEF TypeOK, RingType, MainPCs, LoopInv, DaemonStart, ExitDaemon, Ended
    <3>3. QED
      BY <3>1, <3>2 DEF TypeOK
  <2>2. OneToken'
    <3>1. d \in [Daemons -> {"unborn", "close", "read", "write", "zombie", "reaped"}] /\ UNCHANGED <<pipe, mpc>>
      BY <1>1 DEF TypeOK, RingType, DaemonStart, mainVars
    <3>2. d' = [d EXCEPT ![k] = "read"] \/ d' = [d EXCEPT ![k] = "zombie"]
      BY <1>1 DEF DaemonStart, ExitDaemon
    <3>3. \A l \in Daemons : Holds(l)' => Holds(l)
      BY <3>1, <3>2 DEF Holds
    <3>4. QED
      BY <3>1, <3>3 DEF OneToken, MainHolds
  <2>3. PassesInv'
    BY <1>1 DEF TypeOK, RingType, OneToken, PassesInv, MainHolds, Holds, LoopInv, DaemonStart,
       ExitDaemon, Ended
  <2>4. LoopInv'
    BY <1>1 DEF TypeOK, RingType, LoopInv, DaemonStart, ExitDaemon, Ended
  <2>5. NoDaemonLeft'
    BY <1>1 DEF TypeOK, RingType, LoopInv, NoDaemonLeft, DaemonStart, ExitDaemon, Ended
  <2>6. QED
    BY <2>1, <2>2, <2>3, <2>4, <2>5 DEF Inv
<1>2. CASE DaemonRead(k)
  <2>1. TypeOK'
    <3>1. FlagType'
      BY <1>2 DEF TypeOK, FlagType, DaemonRead
    <3>2. RingType'
      <4>1. k - 1 \in Pipes /\ pipe[k - 1] \in Nat /\ pipe[k - 1] > 0
        BY <1>2 DEF TypeOK, RingType, DaemonRead
      <4>2. pipe' \in [Pipes -> Nat]
        BY <1>2, <4>1 DEF TypeOK, RingType, DaemonRead
      <4>3. QED
        BY <1>2, <4>2 DEF TypeOK, RingType, MainPCs, DaemonRead
    <3>3. QED
      BY <3>1, <3>2 DEF TypeOK
  <2>a. /\ k - 1 \in Pipes /\ pipe[k - 1] = 1 /\ ~MainHolds
        /\ \A j \in Pipes : pipe'[j] = 0
        /\ \A j \in Daemons : Holds(j)' <=> j = k
    <3>1. k - 1 \in Pipes
      BY <1>2 DEF TypeOK
    <3>2. pipe[k - 1] > 0 /\ pipe[k - 1] \in Nat
      BY <1>2, <3>1 DEF TypeOK, RingType, DaemonRead
    <3>3. pipe[k - 1] = 1 /\ ~MainHolds
      BY <3>1, <3>2 DEF OneToken
    <3>4. \A j \in Pipes : j # k - 1 => pipe[j] = 0
      BY <3>1, <3>2 DEF TypeOK, RingType, OneToken
    <3>5. \A j \in Pipes : pipe'[j] = 0
      BY <1>2, <3>1, <3>3, <3>4 DEF TypeOK, RingType, DaemonRead
    <3>6. \A j \in Daemons : ~Holds(j)
      BY <3>1, <3>2 DEF OneToken
    <3>7. \A j \in Daemons : Holds(j)' <=> j = k
      BY <1>2, <3>6 DEF TypeOK, RingType, Holds, DaemonRead
    <3>8. QED
      BY <3>1, <3>3, <3>5, <3>7
  <2>2. OneToken'
    BY <1>2, <2>a DEF OneToken, MainHolds, DaemonRead
  <2>3. PassesInv'
    <3>1. \A j \in Daemons : passes[j] = IF j <= k - 1 THEN rounds + 1 ELSE rounds
      BY <2>a DEF PassesInv
    <3>2. \A j \in Daemons : passes'[j] = IF j < k THEN rounds' + 1 ELSE rounds'
      BY <1>2, <3>1 DEF DaemonRead
    <3>3. QED
      BY <1>2, <2>a, <3>2 DEF PassesInv, MainHolds, DaemonRead
  <2>4. LoopInv'
    BY <1>2 DEF TypeOK, RingType, LoopInv, DaemonRead
  <2>5. NoDaemonLeft'
    BY <1>2 DEF TypeOK, RingType, LoopInv, NoDaemonLeft, DaemonRead
  <2>6. QED
    BY <2>1, <2>2, <2>3, <2>4, <2>5 DEF Inv
<1>3. CASE DaemonWrite(k)
  <2>1. TypeOK'
    <3>1. FlagType'
      BY <1>3 DEF TypeOK, FlagType, DaemonWrite
    <3>2. RingType'
      BY <1>3, SMTT(20) DEF TypeOK, RingType, MainPCs, LoopInv, DaemonWrite
    <3>3. QED
      BY <3>1, <3>2 DEF TypeOK
  <2>2. OneToken'
    BY <1>3 DEF TypeOK, RingType, OneToken, MainHolds, Holds, LoopInv, DaemonWrite
  <2>3. PassesInv'
    BY <1>3 DEF TypeOK, RingType, OneToken, PassesInv, MainHolds, Holds, LoopInv, DaemonWrite
  <2>4. LoopInv'
    BY <1>3 DEF TypeOK, RingType, LoopInv, DaemonWrite
  <2>5. NoDaemonLeft'
    BY <1>3 DEF TypeOK, RingType, LoopInv, NoDaemonLeft, DaemonWrite
  <2>6. QED
    BY <2>1, <2>2, <2>3, <2>4, <2>5 DEF Inv
<1>4. CASE DaemonEnds(k)
  <2>1. TypeOK'
    <3>1. FlagType'
      BY <1>4 DEF TypeOK, FlagType, DaemonEnds, ExitDaemon, Ended
    <3>2. RingType'
      BY <1>4 DEF TypeOK, RingType, MainPCs, LoopInv, DaemonEnds, ExitDaemon, Ended
    <3>3. QED
      BY <3>1, <3>2 DEF TypeOK
  <2>2. OneToken'
    BY <1>4 DEF TypeOK, RingType, OneToken, MainHolds, Holds, LoopInv, DaemonEnds,
       ExitDaemon, Ended
  <2>3. PassesInv'
    BY <1>4 DEF TypeOK, RingType, OneToken, PassesInv, MainHolds, Holds, LoopInv, DaemonEnds,
       ExitDaemon, Ended
  <2>4. LoopInv'
    BY <1>4 DEF TypeOK, RingType, LoopInv, DaemonEnds, ExitDaemon, Ended
  <2>5. NoDaemonLeft'
    BY <1>4 DEF TypeOK, RingType, LoopInv, NoDaemonLeft, DaemonEnds, ExitDaemon, Ended
  <2>6. QED
    BY <2>1, <2>2, <2>3, <2>4, <2>5 DEF Inv
<1>5. CASE DaemonCrash(k)
  <2>1. TypeOK'
    <3>1. FlagType'
      BY <1>5 DEF TypeOK, FlagType, DaemonCrash, ExitDaemon, Ended, Live
    <3>2. RingType'
      BY <1>5 DEF TypeOK, RingType, MainPCs, LoopInv, DaemonCrash, ExitDaemon, Ended, Live
    <3>3. QED
      BY <3>1, <3>2 DEF TypeOK
  <2>2. OneToken'
    BY <1>5 DEF TypeOK, RingType, OneToken, MainHolds, Holds, LoopInv, DaemonCrash,
       ExitDaemon, Ended,
       Live
  <2>3. PassesInv'
    BY <1>5 DEF TypeOK, RingType, OneToken, PassesInv, MainHolds, Holds, LoopInv, DaemonCrash,
       ExitDaemon, Ended, Live
  <2>4. LoopInv'
    BY <1>5 DEF TypeOK, RingType, LoopInv, DaemonCrash, ExitDaemon, Ended, Live
  <2>5. NoDaemonLeft'
    BY <1>5 DEF TypeOK, RingType, LoopInv, NoDaemonLeft, DaemonCrash, ExitDaemon, Ended, Live
  <2>6. QED
    BY <2>1, <2>2, <2>3, <2>4, <2>5 DEF Inv
<1>6. QED
  BY <1>1, <1>2, <1>3, <1>4, <1>5 DEF DaemonStep

\* Inv is an invariant of lat_ctx and of lat_ctx_qnx.
THEOREM Invariance == Spec => []Inv
<1>1. Inv /\ [Next]_vars => Inv'
  <2> SUFFICES ASSUME Inv, [Next]_vars PROVE Inv'
    OBVIOUS
  <2>1. CASE MainStep \/ Sigchld \/ MainKilled
    BY <2>1, MainPreserves
  <2>2. ASSUME NEW k \in Daemons, DaemonStep(k) \/ DaemonCrash(k) PROVE Inv'
    BY <2>2, DaemonPreserves
  <2>3. CASE UNCHANGED vars
    BY <2>3 DEF vars, Inv, TypeOK, FlagType, RingType, OneToken,
       PassesInv, MainHolds, Holds, LoopInv, NoDaemonLeft
  <2>4. QED
    BY <2>1, <2>2, <2>3 DEF Next
<1>2. QED
  BY InitInv, <1>1, PTL DEF Spec

\* Types, and the loops over pids[] (lat_ctx.c 258, 337) stay inside the array.
THEOREM TypeCorrect == Spec => []TypeOK
<1>1. Inv => TypeOK
  BY DEF Inv
<1>2. QED
  BY <1>1, Invariance, PTL

\* The ring never carries two tokens, whoever dies.
THEOREM SingleToken == Spec => []OneToken
<1>1. Inv => OneToken
  BY DEF Inv
<1>2. QED
  BY <1>1, Invariance, PTL

\* A round that was counted has switched to every daemon exactly once, so that
\* dividing by procs (lat_ctx.c 141) is right.
THEOREM AllSwitched == Spec => []EveryoneSwitched
<1>1. Inv => EveryoneSwitched
  BY DEF Inv, PassesInv, MainHolds, EveryoneSwitched
<1>2. QED
  BY <1>1, Invariance, PTL

\* cleanup() (lat_ctx.c 247) returns only when every daemon was waited for.
THEOREM CleanupComplete == Spec => []NoDaemonLeft
<1>1. Inv => NoDaemonLeft
  BY DEF Inv
<1>2. QED
  BY <1>1, Invariance, PTL
=============================================================================
