---------------------------- MODULE NetworkProofs -----------------------------
(***************************************************************************)
(* The safety of the programs that talk to one another, for any size.      *)
(* First the ping-pong benchmarks, for any number of exchanges, any set of *)
(* programs and any failures; then the behaviours of MCNetwork, where one  *)
(* of the programs runs beside the idle variables of the others: the       *)
(* datagrams, whose invariant is here, the ring and the servers, from the  *)
(* lemmas of MsgRingProofs and ServersProofs.                              *)
(***************************************************************************)
EXTENDS MCNetwork, TLAPS

\* A step of main preserves the invariant.
LEMMA MainInv == Inv /\ (MainStep) => Inv'
<1> SUFFICES ASSUME Inv, MainStep PROVE Inv'
  OBVIOUS
<1> USE TurnAssumption DEF vars, chanVars, harnessVars, Stream, MainHas, Fresh
<1>1. CASE Resources
  <2>1. (PlaceType /\ CountType)'
    BY <1>1 DEF Inv, TypeOK, PlaceType, CountType, MainPCs, PartnerPCs, Balance, Shape,
                NoPartner, Resources
  <2>2. FlagType'
    BY <1>1 DEF Inv, TypeOK, FlagType, Resources
  <2>3. Balance'
    BY <1>1 DEF Inv, TypeOK, PlaceType, CountType, Balance, Shape, NoPartner, Resources
  <2>4. Shape'
    BY <1>1 DEF Inv, TypeOK, PlaceType, ProgramNames, Shape, Resources
  <2>5. NoPartner'
    BY <1>1 DEF Inv, TypeOK, PlaceType, CountType, FlagType, Balance, Shape, NoPartner,
                Resources
  <2>6. Handlers'
    BY <1>1 DEF Inv, TypeOK, PlaceType, CountType, Shape, NoPartner, Handlers, Resources
  <2>7. QED
    BY <2>1, <2>2, <2>3, <2>4, <2>5, <2>6 DEF Inv, TypeOK
<1>2. CASE ResourcesFail
  <2>1. (PlaceType /\ CountType)'
    BY <1>2 DEF Inv, TypeOK, PlaceType, CountType, MainPCs, PartnerPCs, Balance, Shape,
                NoPartner, ResourcesFail, Die, Without
  <2>2. FlagType'
    BY <1>2 DEF Inv, TypeOK, FlagType, ResourcesFail, Die, Without
  <2>3. Balance'
    BY <1>2 DEF Inv, TypeOK, PlaceType, CountType, Balance, Shape, NoPartner, ResourcesFail,
                Die, Without
  <2>4. Shape'
    BY <1>2 DEF Inv, TypeOK, PlaceType, ProgramNames, Shape, ResourcesFail, Die, Without
  <2>5. NoPartner'
    BY <1>2 DEF Inv, TypeOK, PlaceType, CountType, FlagType, Balance, Shape, NoPartner,
                ResourcesFail, Die, Without
  <2>6. Handlers'
    BY <1>2 DEF Inv, TypeOK, PlaceType, CountType, Shape, NoPartner, Handlers,
                ResourcesFail, Die, Without
  <2>7. QED
    BY <2>1, <2>2, <2>3, <2>4, <2>5, <2>6 DEF Inv, TypeOK
<1>3. CASE Fork
  <2>1. (PlaceType /\ CountType)'
    BY <1>3 DEF Inv, TypeOK, PlaceType, CountType, MainPCs, PartnerPCs, Balance, Shape,
                NoPartner, Fork
  <2>2. FlagType'
    BY <1>3 DEF Inv, TypeOK, FlagType, Fork
  <2>3. Balance'
    BY <1>3 DEF Inv, TypeOK, PlaceType, CountType, Balance, Shape, NoPartner, Fork
  <2>4. Shape'
    BY <1>3 DEF Inv, TypeOK, PlaceType, ProgramNames, Shape, Fork
  <2>5. NoPartner'
    BY <1>3 DEF Inv, TypeOK, PlaceType, CountType, FlagType, Balance, Shape, NoPartner, Fork
  <2>6. Handlers'
    BY <1>3 DEF Inv, TypeOK, PlaceType, CountType, Shape, NoPartner, Handlers, Fork
  <2>7. QED
    BY <2>1, <2>2, <2>3, <2>4, <2>5, <2>6 DEF Inv, TypeOK
<1>4. CASE ForkFails
  <2>1. (PlaceType /\ CountType)'
    BY <1>4 DEF Inv, TypeOK, PlaceType, CountType, MainPCs, PartnerPCs, Balance, Shape,
                NoPartner, ForkFails, Die, Without
  <2>2. FlagType'
    BY <1>4 DEF Inv, TypeOK, FlagType, ForkFails, Die, Without
  <2>3. Balance'
    BY <1>4 DEF Inv, TypeOK, PlaceType, CountType, Balance, Shape, NoPartner, ForkFails,
                Die, Without
  <2>4. Shape'
    BY <1>4 DEF Inv, TypeOK, PlaceType, ProgramNames, Shape, ForkFails, Die, Without
  <2>5. NoPartner'
    BY <1>4 DEF Inv, TypeOK, PlaceType, CountType, FlagType, Balance, Shape, NoPartner,
                ForkFails, Die, Without
  <2>6. Handlers'
    BY <1>4 DEF Inv, TypeOK, PlaceType, CountType, Shape, NoPartner, Handlers, ForkFails,
                Die, Without
  <2>7. QED
    BY <2>1, <2>2, <2>3, <2>4, <2>5, <2>6 DEF Inv, TypeOK
<1>5. CASE StartBatch
  <2>1. (PlaceType /\ CountType)'
    BY <1>5 DEF Inv, TypeOK, PlaceType, CountType, MainPCs, PartnerPCs, Balance, Shape,
                NoPartner, ProgramNames, StartBatch, Armed, NextPhases
  <2>2. FlagType'
    BY <1>5 DEF Inv, TypeOK, FlagType, StartBatch, Armed, NextPhases
  <2>3. Balance'
    BY <1>5 DEF Inv, TypeOK, PlaceType, CountType, Balance, Shape, NoPartner, ProgramNames,
                StartBatch, Armed, NextPhases
  <2>4. Shape'
    BY <1>5 DEF Inv, TypeOK, PlaceType, ProgramNames, Shape, StartBatch, Armed, NextPhases
  <2>5. NoPartner'
    BY <1>5 DEF Inv, TypeOK, PlaceType, CountType, FlagType, Balance, Shape, NoPartner,
                ProgramNames, StartBatch, Armed, NextPhases
  <2>6. Handlers'
    BY <1>5 DEF Inv, TypeOK, PlaceType, CountType, Shape, NoPartner, Handlers,
                ProgramNames, StartBatch, Armed, NextPhases
  <2>7. QED
    BY <2>1, <2>2, <2>3, <2>4, <2>5, <2>6 DEF Inv, TypeOK
<1>6. CASE CallCleanup
  <2>1. (PlaceType /\ CountType)'
    BY <1>6 DEF Inv, TypeOK, PlaceType, CountType, MainPCs, PartnerPCs, Balance, Shape,
                NoPartner, CallCleanup, Without
  <2>2. FlagType'
    BY <1>6 DEF Inv, TypeOK, FlagType, CallCleanup, Without
  <2>3. Balance'
    BY <1>6 DEF Inv, TypeOK, PlaceType, CountType, Balance, Shape, NoPartner, CallCleanup, Without
  <2>4. Shape'
    BY <1>6 DEF Inv, TypeOK, PlaceType, ProgramNames, Shape, CallCleanup, Without
  <2>5. NoPartner'
    BY <1>6 DEF Inv, TypeOK, PlaceType, CountType, FlagType, Balance, Shape, NoPartner,
                CallCleanup, Without
  <2>6. Handlers'
    BY <1>6 DEF Inv, TypeOK, PlaceType, CountType, Shape, NoPartner, Handlers, CallCleanup,
                Without
  <2>7. QED
    BY <2>1, <2>2, <2>3, <2>4, <2>5, <2>6 DEF Inv, TypeOK
<1>7. CASE MainCallFails
  <2>1. (PlaceType /\ CountType)'
    BY <1>7 DEF Inv, TypeOK, PlaceType, CountType, MainPCs, PartnerPCs, Balance, Shape,
                NoPartner, MainCallFails, Die, Without, PartnerHungUp, Alive
  <2>2. FlagType'
    BY <1>7 DEF Inv, TypeOK, FlagType, MainCallFails, Die, Without, PartnerHungUp, Alive
  <2>3. Balance'
    BY <1>7 DEF Inv, TypeOK, PlaceType, CountType, Balance, Shape, NoPartner, MainCallFails,
                Die, Without, PartnerHungUp, Alive
  <2>4. Shape'
    BY <1>7 DEF Inv, TypeOK, PlaceType, ProgramNames, Shape, MainCallFails, Die, Without,
                PartnerHungUp, Alive
  <2>5. NoPartner'
    BY <1>7 DEF Inv, TypeOK, PlaceType, CountType, FlagType, Balance, Shape, NoPartner,
                MainCallFails, Die, Without, PartnerHungUp, Alive
  <2>6. Handlers'
    BY <1>7 DEF Inv, TypeOK, PlaceType, CountType, Shape, NoPartner, Handlers,
                MainCallFails, Die, Without, PartnerHungUp, Alive
  <2>7. QED
    BY <2>1, <2>2, <2>3, <2>4, <2>5, <2>6 DEF Inv, TypeOK
<1>8. CASE MainWrite
  <2>1. (PlaceType /\ CountType)'
    BY <1>8 DEF Inv, TypeOK, PlaceType, CountType, MainPCs, PartnerPCs, Balance, Shape,
                NoPartner, MainWrite, PartnerHungUp
  <2>2. FlagType'
    BY <1>8 DEF Inv, TypeOK, FlagType, MainWrite, PartnerHungUp
  <2>3. Balance'
    BY <1>8 DEF Inv, TypeOK, PlaceType, CountType, Balance, Shape, NoPartner, MainWrite,
                PartnerHungUp
  <2>4. Shape'
    BY <1>8 DEF Inv, TypeOK, PlaceType, ProgramNames, Shape, MainWrite, PartnerHungUp
  <2>5. NoPartner'
    BY <1>8 DEF Inv, TypeOK, PlaceType, CountType, FlagType, Balance, Shape, NoPartner,
                MainWrite, PartnerHungUp
  <2>6. Handlers'
    BY <1>8 DEF Inv, TypeOK, PlaceType, CountType, Shape, NoPartner, Handlers, MainWrite,
                PartnerHungUp
  <2>7. QED
    BY <2>1, <2>2, <2>3, <2>4, <2>5, <2>6 DEF Inv, TypeOK
<1>9. CASE MainRead
  <2>1. (PlaceType /\ CountType)'
    BY <1>9 DEF Inv, TypeOK, PlaceType, CountType, MainPCs, PartnerPCs, Balance, Shape,
                NoPartner, MainRead, Completed
  <2>2. FlagType'
    BY <1>9 DEF Inv, TypeOK, FlagType, MainRead, Completed
  <2>3. Balance'
    BY <1>9 DEF Inv, TypeOK, PlaceType, CountType, Balance, Shape, NoPartner, MainRead, Completed
  <2>4. Shape'
    BY <1>9 DEF Inv, TypeOK, PlaceType, ProgramNames, Shape, MainRead, Completed
  <2>5. NoPartner'
    BY <1>9 DEF Inv, TypeOK, PlaceType, CountType, FlagType, Balance, Shape, NoPartner,
                MainRead, Completed
  <2>6. Handlers'
    BY <1>9 DEF Inv, TypeOK, PlaceType, CountType, Shape, NoPartner, Handlers, MainRead,
                Completed
  <2>7. QED
    BY <2>1, <2>2, <2>3, <2>4, <2>5, <2>6 DEF Inv, TypeOK
<1>10. CASE MainSemop
  <2>1. (PlaceType /\ CountType)'
    BY <1>10 DEF Inv, TypeOK, PlaceType, CountType, MainPCs, PartnerPCs, Balance, Shape,
                 NoPartner, MainSemop, Completed
  <2>2. FlagType'
    BY <1>10 DEF Inv, TypeOK, FlagType, MainSemop, Completed
  <2>3. Balance'
    BY <1>10 DEF Inv, TypeOK, PlaceType, CountType, Balance, Shape, NoPartner, MainSemop, Completed
  <2>4. Shape'
    BY <1>10 DEF Inv, TypeOK, PlaceType, ProgramNames, Shape, MainSemop, Completed
  <2>5. NoPartner'
    BY <1>10 DEF Inv, TypeOK, PlaceType, CountType, FlagType, Balance, Shape, NoPartner,
                 MainSemop, Completed
  <2>6. Handlers'
    BY <1>10 DEF Inv, TypeOK, PlaceType, CountType, Shape, NoPartner, Handlers, MainSemop,
                 Completed
  <2>7. QED
    BY <2>1, <2>2, <2>3, <2>4, <2>5, <2>6 DEF Inv, TypeOK
<1>11. CASE ProcA
  <2>1. (PlaceType /\ CountType)'
    BY <1>11 DEF Inv, TypeOK, PlaceType, CountType, MainPCs, PartnerPCs, Balance, Shape,
                 NoPartner, ProcA, Completed, Waiton, Release
  <2>2. FlagType'
    BY <1>11 DEF Inv, TypeOK, FlagType, ProcA, Completed, Waiton, Release
  <2>3. Balance'
    BY <1>11 DEF Inv, TypeOK, PlaceType, CountType, Balance, Shape, NoPartner, ProcA,
                 Completed, Waiton, Release
  <2>4. Shape'
    BY <1>11 DEF Inv, TypeOK, PlaceType, ProgramNames, Shape, ProcA, Completed, Waiton, Release
  <2>5. NoPartner'
    BY <1>11 DEF Inv, TypeOK, PlaceType, CountType, FlagType, Balance, Shape, NoPartner,
                 ProcA, Completed, Waiton, Release
  <2>6. Handlers'
    BY <1>11 DEF Inv, TypeOK, PlaceType, CountType, Shape, NoPartner, Handlers, ProcA,
                 Completed, Waiton, Release
  <2>7. QED
    BY <2>1, <2>2, <2>3, <2>4, <2>5, <2>6 DEF Inv, TypeOK
<1>12. CASE Kill
  <2>1. (PlaceType /\ CountType)'
    BY <1>12 DEF Inv, TypeOK, PlaceType, CountType, MainPCs, PartnerPCs, Balance, Shape,
                 NoPartner, Kill, HasPid, Fatal, Alive, ExitPartner, Without, Ended
  <2>2. FlagType'
    BY <1>12 DEF Inv, TypeOK, FlagType, Kill, HasPid, Fatal, Alive, ExitPartner, Without, Ended
  <2>3. Balance'
    BY <1>12 DEF Inv, TypeOK, PlaceType, CountType, Balance, Shape, NoPartner, Kill, HasPid,
                 Fatal, Alive, ExitPartner, Without, Ended
  <2>4. Shape'
    BY <1>12 DEF Inv, TypeOK, PlaceType, ProgramNames, Shape, Kill, HasPid, Fatal, Alive,
                 ExitPartner, Without, Ended
  <2>5. NoPartner'
    BY <1>12 DEF Inv, TypeOK, PlaceType, CountType, FlagType, Balance, Shape, NoPartner,
                 Kill, HasPid, Fatal, Alive, ExitPartner, Without, Ended
  <2>6. Handlers'
    BY <1>12 DEF Inv, TypeOK, PlaceType, CountType, Shape, NoPartner, Handlers, Kill,
                 HasPid, Fatal, Alive, ExitPartner, Without, Ended
  <2>7. QED
    BY <2>1, <2>2, <2>3, <2>4, <2>5, <2>6 DEF Inv, TypeOK
<1>13. CASE Wait
  <2>1. (PlaceType /\ CountType)'
    BY <1>13 DEF Inv, TypeOK, PlaceType, CountType, MainPCs, PartnerPCs, Balance, Shape,
                 NoPartner, Wait
  <2>2. FlagType'
    BY <1>13 DEF Inv, TypeOK, FlagType, Wait
  <2>3. Balance'
    BY <1>13 DEF Inv, TypeOK, PlaceType, CountType, Balance, Shape, NoPartner, Wait
  <2>4. Shape'
    BY <1>13 DEF Inv, TypeOK, PlaceType, ProgramNames, Shape, Wait
  <2>5. NoPartner'
    BY <1>13 DEF Inv, TypeOK, PlaceType, CountType, FlagType, Balance, Shape, NoPartner,
                 Wait
  <2>6. Handlers'
    BY <1>13 DEF Inv, TypeOK, PlaceType, CountType, Shape, NoPartner, Handlers, Wait
  <2>7. QED
    BY <2>1, <2>2, <2>3, <2>4, <2>5, <2>6 DEF Inv, TypeOK
<1>14. CASE HandleFlag
  <2>1. (PlaceType /\ CountType)'
    BY <1>14 DEF Inv, TypeOK, PlaceType, CountType, MainPCs, PartnerPCs, Balance, Shape,
                NoPartner, HandleFlag, Handler, SeesPid, Die, Without
  <2>2. FlagType'
    BY <1>14 DEF Inv, TypeOK, FlagType, HandleFlag, Handler, SeesPid, Die, Without
  <2>3. Balance'
    BY <1>14 DEF Inv, TypeOK, PlaceType, CountType, Balance, Shape, NoPartner, HandleFlag, Handler, SeesPid, Die, Without
  <2>4. Shape'
    BY <1>14 DEF Inv, TypeOK, PlaceType, ProgramNames, Shape, HandleFlag, Handler, SeesPid, Die, Without
  <2>5. NoPartner'
    BY <1>14 DEF Inv, TypeOK, PlaceType, CountType, FlagType, Balance, Shape, NoPartner,
                HandleFlag, Handler, SeesPid, Die, Without
  <2>6. Handlers'
    BY <1>14 DEF Inv, TypeOK, PlaceType, CountType, Shape, NoPartner, Handlers, HandleFlag,
                 Handler, SeesPid, Die, Without
  <2>7. QED
    BY <2>1, <2>2, <2>3, <2>4, <2>5, <2>6 DEF Inv, TypeOK
<1>15. QED
  BY <1>1, <1>2, <1>3, <1>4, <1>5, <1>6, <1>7, <1>8, <1>9, <1>10, <1>11, <1>12, <1>13,
     <1>14 DEF MainStep

\* A step of the partner preserves the invariant.
LEMMA PartnerInv == Inv /\ (PartnerStep) => Inv'
<1> SUFFICES ASSUME Inv, PartnerStep PROVE Inv'
  OBVIOUS
<1> USE TurnAssumption DEF vars, chanVars, harnessVars, Stream, MainHas, Fresh
<1>1. CASE PartnerStart
  <2>1. (PlaceType /\ CountType)'
    BY <1>1 DEF Inv, TypeOK, PlaceType, CountType, MainPCs, PartnerPCs, Balance, Shape,
                NoPartner, ProgramNames, PartnerStart
  <2>2. FlagType'
    BY <1>1 DEF Inv, TypeOK, FlagType, PartnerStart
  <2>3. Balance'
    BY <1>1 DEF Inv, TypeOK, PlaceType, CountType, Balance, Shape, NoPartner, ProgramNames,
                PartnerStart
  <2>4. Shape'
    BY <1>1 DEF Inv, TypeOK, PlaceType, ProgramNames, Shape, PartnerStart
  <2>5. NoPartner'
    BY <1>1 DEF Inv, TypeOK, PlaceType, CountType, FlagType, Balance, Shape, NoPartner,
                ProgramNames, PartnerStart
  <2>6. Handlers'
    BY <1>1 DEF Inv, TypeOK, PlaceType, CountType, Shape, NoPartner, Handlers, PartnerStart
  <2>7. QED
    BY <2>1, <2>2, <2>3, <2>4, <2>5, <2>6 DEF Inv, TypeOK
<1>2. CASE PartnerRead
  <2>1. (PlaceType /\ CountType)'
    BY <1>2 DEF Inv, TypeOK, PlaceType, CountType, MainPCs, PartnerPCs, Balance, Shape,
                NoPartner, PartnerRead
  <2>2. FlagType'
    BY <1>2 DEF Inv, TypeOK, FlagType, PartnerRead
  <2>3. Balance'
    BY <1>2 DEF Inv, TypeOK, PlaceType, CountType, Balance, Shape, NoPartner, PartnerRead
  <2>4. Shape'
    BY <1>2 DEF Inv, TypeOK, PlaceType, ProgramNames, Shape, PartnerRead
  <2>5. NoPartner'
    BY <1>2 DEF Inv, TypeOK, PlaceType, CountType, FlagType, Balance, Shape, NoPartner,
                PartnerRead
  <2>6. Handlers'
    BY <1>2 DEF Inv, TypeOK, PlaceType, CountType, Shape, NoPartner, Handlers, PartnerRead
  <2>7. QED
    BY <2>1, <2>2, <2>3, <2>4, <2>5, <2>6 DEF Inv, TypeOK
<1>3. CASE PartnerWrite
  <2>1. (PlaceType /\ CountType)'
    BY <1>3 DEF Inv, TypeOK, PlaceType, CountType, MainPCs, PartnerPCs, Balance, Shape,
                NoPartner, PartnerWrite, MainHungUp
  <2>2. FlagType'
    BY <1>3 DEF Inv, TypeOK, FlagType, PartnerWrite, MainHungUp
  <2>3. Balance'
    BY <1>3 DEF Inv, TypeOK, PlaceType, CountType, Balance, Shape, NoPartner, PartnerWrite,
                MainHungUp
  <2>4. Shape'
    BY <1>3 DEF Inv, TypeOK, PlaceType, ProgramNames, Shape, PartnerWrite, MainHungUp
  <2>5. NoPartner'
    BY <1>3 DEF Inv, TypeOK, PlaceType, CountType, FlagType, Balance, Shape, NoPartner,
                PartnerWrite, MainHungUp
  <2>6. Handlers'
    BY <1>3 DEF Inv, TypeOK, PlaceType, CountType, Shape, NoPartner, Handlers, PartnerWrite,
                MainHungUp
  <2>7. QED
    BY <2>1, <2>2, <2>3, <2>4, <2>5, <2>6 DEF Inv, TypeOK
<1>4. CASE PartnerPost
  <2>1. (PlaceType /\ CountType)'
    BY <1>4 DEF Inv, TypeOK, PlaceType, CountType, MainPCs, PartnerPCs, Balance, Shape,
                NoPartner, PartnerPost
  <2>2. FlagType'
    BY <1>4 DEF Inv, TypeOK, FlagType, PartnerPost
  <2>3. Balance'
    BY <1>4 DEF Inv, TypeOK, PlaceType, CountType, Balance, Shape, NoPartner, PartnerPost
  <2>4. Shape'
    BY <1>4 DEF Inv, TypeOK, PlaceType, ProgramNames, Shape, PartnerPost
  <2>5. NoPartner'
    BY <1>4 DEF Inv, TypeOK, PlaceType, CountType, FlagType, Balance, Shape, NoPartner,
                PartnerPost
  <2>6. Handlers'
    BY <1>4 DEF Inv, TypeOK, PlaceType, CountType, Shape, NoPartner, Handlers, PartnerPost
  <2>7. QED
    BY <2>1, <2>2, <2>3, <2>4, <2>5, <2>6 DEF Inv, TypeOK
<1>5. CASE PartnerSemop
  <2>1. (PlaceType /\ CountType)'
    BY <1>5 DEF Inv, TypeOK, PlaceType, CountType, MainPCs, PartnerPCs, Balance, Shape,
                NoPartner, PartnerSemop
  <2>2. FlagType'
    BY <1>5 DEF Inv, TypeOK, FlagType, PartnerSemop
  <2>3. Balance'
    BY <1>5 DEF Inv, TypeOK, PlaceType, CountType, Balance, Shape, NoPartner, PartnerSemop
  <2>4. Shape'
    BY <1>5 DEF Inv, TypeOK, PlaceType, ProgramNames, Shape, PartnerSemop
  <2>5. NoPartner'
    BY <1>5 DEF Inv, TypeOK, PlaceType, CountType, FlagType, Balance, Shape, NoPartner,
                PartnerSemop
  <2>6. Handlers'
    BY <1>5 DEF Inv, TypeOK, PlaceType, CountType, Shape, NoPartner, Handlers, PartnerSemop
  <2>7. QED
    BY <2>1, <2>2, <2>3, <2>4, <2>5, <2>6 DEF Inv, TypeOK
<1>6. CASE ProcB
  <2>1. (PlaceType /\ CountType)'
    BY <1>6 DEF Inv, TypeOK, PlaceType, CountType, MainPCs, PartnerPCs, Balance, Shape,
                NoPartner, ProcB, Waiton, Release
  <2>2. FlagType'
    BY <1>6 DEF Inv, TypeOK, FlagType, ProcB, Waiton, Release
  <2>3. Balance'
    BY <1>6 DEF Inv, TypeOK, PlaceType, CountType, Balance, Shape, NoPartner, ProcB, Waiton, Release
  <2>4. Shape'
    BY <1>6 DEF Inv, TypeOK, PlaceType, ProgramNames, Shape, ProcB, Waiton, Release
  <2>5. NoPartner'
    BY <1>6 DEF Inv, TypeOK, PlaceType, CountType, FlagType, Balance, Shape, NoPartner,
                ProcB, Waiton, Release
  <2>6. Handlers'
    BY <1>6 DEF Inv, TypeOK, PlaceType, CountType, Shape, NoPartner, Handlers, ProcB,
                Waiton, Release
  <2>7. QED
    BY <2>1, <2>2, <2>3, <2>4, <2>5, <2>6 DEF Inv, TypeOK
<1>7. CASE PartnerEnds
  <2>1. (PlaceType /\ CountType)'
    BY <1>7 DEF Inv, TypeOK, PlaceType, CountType, MainPCs, PartnerPCs, Balance, Shape,
                NoPartner, PartnerEnds, ExitPartner, Without, MainHungUp, Ended
  <2>2. FlagType'
    BY <1>7 DEF Inv, TypeOK, FlagType, PartnerEnds, ExitPartner, Without, MainHungUp, Ended
  <2>3. Balance'
    BY <1>7 DEF Inv, TypeOK, PlaceType, CountType, Balance, Shape, NoPartner, PartnerEnds,
                ExitPartner, Without, MainHungUp, Ended
  <2>4. Shape'
    BY <1>7 DEF Inv, TypeOK, PlaceType, ProgramNames, Shape, PartnerEnds, ExitPartner,
                Without, MainHungUp, Ended
  <2>5. NoPartner'
    BY <1>7 DEF Inv, TypeOK, PlaceType, CountType, FlagType, Balance, Shape, NoPartner,
                PartnerEnds, ExitPartner, Without, MainHungUp, Ended
  <2>6. Handlers'
    BY <1>7 DEF Inv, TypeOK, PlaceType, CountType, Shape, NoPartner, Handlers, PartnerEnds,
                ExitPartner, Without, MainHungUp, Ended
  <2>7. QED
    BY <2>1, <2>2, <2>3, <2>4, <2>5, <2>6 DEF Inv, TypeOK
<1>8. QED
  BY <1>1, <1>2, <1>3, <1>4, <1>5, <1>6, <1>7 DEF PartnerStep

\* So do the meeting of the two in open(), crashes and signals.
LEMMA OtherInv ==
  ASSUME Inv, OpenFifos \/ PartnerCrash \/ Sigchld \/ Sigterm \/ Alarm
              \/ MainKilled \/ ParentDies
  PROVE  Inv'
<1> USE TurnAssumption DEF vars, chanVars, harnessVars, Stream, MainHas, Fresh
<1>1. CASE OpenFifos
  <2>1. (PlaceType /\ CountType)'
    BY <1>1 DEF Inv, TypeOK, PlaceType, CountType, MainPCs, PartnerPCs, Balance, Shape,
                NoPartner, OpenFifos
  <2>2. FlagType'
    BY <1>1 DEF Inv, TypeOK, FlagType, OpenFifos
  <2>3. Balance'
    BY <1>1 DEF Inv, TypeOK, PlaceType, CountType, Balance, Shape, NoPartner, OpenFifos
  <2>4. Shape'
    BY <1>1 DEF Inv, TypeOK, PlaceType, ProgramNames, Shape, OpenFifos
  <2>5. NoPartner'
    BY <1>1 DEF Inv, TypeOK, PlaceType, CountType, FlagType, Balance, Shape, NoPartner,
                OpenFifos
  <2>6. Handlers'
    BY <1>1 DEF Inv, TypeOK, PlaceType, CountType, Shape, NoPartner, Handlers, OpenFifos
  <2>7. QED
    BY <2>1, <2>2, <2>3, <2>4, <2>5, <2>6 DEF Inv, TypeOK
<1>2. CASE PartnerCrash
  <2>1. (PlaceType /\ CountType)'
    BY <1>2 DEF Inv, TypeOK, PlaceType, CountType, MainPCs, PartnerPCs, Balance, Shape,
                NoPartner, PartnerCrash, ExitPartner, Without, Alive, Ended
  <2>2. FlagType'
    BY <1>2 DEF Inv, TypeOK, FlagType, PartnerCrash, ExitPartner, Without, Alive, Ended
  <2>3. Balance'
    BY <1>2 DEF Inv, TypeOK, PlaceType, CountType, Balance, Shape, NoPartner, PartnerCrash,
                ExitPartner, Without, Alive, Ended
  <2>4. Shape'
    BY <1>2 DEF Inv, TypeOK, PlaceType, ProgramNames, Shape, PartnerCrash, ExitPartner,
                Without, Alive, Ended
  <2>5. NoPartner'
    BY <1>2 DEF Inv, TypeOK, PlaceType, CountType, FlagType, Balance, Shape, NoPartner,
                PartnerCrash, ExitPartner, Without, Alive, Ended
  <2>6. Handlers'
    BY <1>2 DEF Inv, TypeOK, PlaceType, CountType, Shape, NoPartner, Handlers, PartnerCrash,
                ExitPartner, Without, Alive, Ended
  <2>7. QED
    BY <2>1, <2>2, <2>3, <2>4, <2>5, <2>6 DEF Inv, TypeOK
<1>3. CASE Sigchld
  <2>1. (PlaceType /\ CountType)'
    BY <1>3 DEF Inv, TypeOK, PlaceType, CountType, MainPCs, PartnerPCs, Balance, Shape,
                NoPartner, Sigchld, Handler, SeesPid, Die, Without
  <2>2. FlagType'
    BY <1>3 DEF Inv, TypeOK, FlagType, Sigchld, Handler, SeesPid, Die, Without
  <2>3. Balance'
    BY <1>3 DEF Inv, TypeOK, PlaceType, CountType, Balance, Shape, NoPartner, Sigchld, Handler, SeesPid, Die, Without
  <2>4. Shape'
    BY <1>3 DEF Inv, TypeOK, PlaceType, ProgramNames, Shape, Sigchld, Handler, SeesPid, Die, Without
  <2>5. NoPartner'
    BY <1>3 DEF Inv, TypeOK, PlaceType, CountType, FlagType, Balance, Shape, NoPartner,
                Sigchld, Handler, SeesPid, Die, Without
  <2>6. Handlers'
    BY <1>3 DEF Inv, TypeOK, PlaceType, CountType, Shape, NoPartner, Handlers, Sigchld,
                Handler, SeesPid, Die, Without
  <2>7. QED
    BY <2>1, <2>2, <2>3, <2>4, <2>5, <2>6 DEF Inv, TypeOK
<1>4. CASE Alarm
  <2>1. (PlaceType /\ CountType)'
    BY <1>4 DEF Inv, TypeOK, PlaceType, CountType, MainPCs, PartnerPCs, Balance, Shape,
                NoPartner, Alarm, Handler, SeesPid, Die, Without
  <2>2. FlagType'
    BY <1>4 DEF Inv, TypeOK, FlagType, Alarm, Handler, SeesPid, Die, Without
  <2>3. Balance'
    BY <1>4 DEF Inv, TypeOK, PlaceType, CountType, Balance, Shape, NoPartner, Alarm, Handler, SeesPid, Die, Without
  <2>4. Shape'
    BY <1>4 DEF Inv, TypeOK, PlaceType, ProgramNames, Shape, Alarm, Handler, SeesPid, Die, Without
  <2>5. NoPartner'
    BY <1>4 DEF Inv, TypeOK, PlaceType, CountType, FlagType, Balance, Shape, NoPartner,
                Alarm, Handler, SeesPid, Die, Without
  <2>6. Handlers'
    BY <1>4 DEF Inv, TypeOK, PlaceType, CountType, Shape, NoPartner, Handlers, Alarm,
                Handler, SeesPid, Die, Without
  <2>7. QED
    BY <2>1, <2>2, <2>3, <2>4, <2>5, <2>6 DEF Inv, TypeOK
<1>5. CASE MainKilled
  <2>1. (PlaceType /\ CountType)'
    BY <1>5 DEF Inv, TypeOK, PlaceType, CountType, MainPCs, PartnerPCs, Balance, Shape,
                NoPartner, MainKilled, Die, Without, Ended
  <2>2. FlagType'
    BY <1>5 DEF Inv, TypeOK, FlagType, MainKilled, Die, Without, Ended
  <2>3. Balance'
    BY <1>5 DEF Inv, TypeOK, PlaceType, CountType, Balance, Shape, NoPartner, MainKilled,
                Die, Without, Ended
  <2>4. Shape'
    BY <1>5 DEF Inv, TypeOK, PlaceType, ProgramNames, Shape, MainKilled, Die, Without, Ended
  <2>5. NoPartner'
    BY <1>5 DEF Inv, TypeOK, PlaceType, CountType, FlagType, Balance, Shape, NoPartner,
                MainKilled, Die, Without, Ended
  <2>6. Handlers'
    BY <1>5 DEF Inv, TypeOK, PlaceType, CountType, Shape, NoPartner, Handlers, MainKilled,
                Die, Without, Ended
  <2>7. QED
    BY <2>1, <2>2, <2>3, <2>4, <2>5, <2>6 DEF Inv, TypeOK
<1>6. CASE ParentDies
  <2>1. (PlaceType /\ CountType)'
    BY <1>6 DEF Inv, TypeOK, PlaceType, CountType, MainPCs, PartnerPCs, Balance, Shape,
                NoPartner, ParentDies
  <2>2. FlagType'
    BY <1>6 DEF Inv, TypeOK, FlagType, ParentDies
  <2>3. Balance'
    BY <1>6 DEF Inv, TypeOK, PlaceType, CountType, Balance, Shape, NoPartner, ParentDies
  <2>4. Shape'
    BY <1>6 DEF Inv, TypeOK, PlaceType, ProgramNames, Shape, ParentDies
  <2>5. NoPartner'
    BY <1>6 DEF Inv, TypeOK, PlaceType, CountType, FlagType, Balance, Shape, NoPartner,
                ParentDies
  <2>6. Handlers'
    BY <1>6 DEF Inv, TypeOK, PlaceType, CountType, Shape, NoPartner, Handlers, ParentDies
  <2>7. QED
    BY <2>1, <2>2, <2>3, <2>4, <2>5, <2>6 DEF Inv, TypeOK
<1>7. CASE Sigterm
  <2>1. (PlaceType /\ CountType)'
    BY <1>7 DEF Inv, TypeOK, PlaceType, CountType, MainPCs, PartnerPCs, Balance, Shape,
                NoPartner, Sigterm, InInitialize, Handler, SeesPid, Die, Without
  <2>2. FlagType'
    BY <1>7 DEF Inv, TypeOK, FlagType, Sigterm, InInitialize, Handler, SeesPid, Die, Without
  <2>3. Balance'
    BY <1>7 DEF Inv, TypeOK, PlaceType, CountType, Balance, Shape, NoPartner, Sigterm, InInitialize, Handler, SeesPid, Die, Without
  <2>4. Shape'
    BY <1>7 DEF Inv, TypeOK, PlaceType, ProgramNames, Shape, Sigterm, InInitialize, Handler, SeesPid, Die, Without
  <2>5. NoPartner'
    <3>1. CASE InInitialize
      BY <1>7, <3>1 DEF Inv, NoPartner, Sigterm, InInitialize
    <3>2. CASE ~InInitialize
      BY <1>7, <3>2 DEF Inv, TypeOK, PlaceType, NoPartner, Sigterm, InInitialize, Handler,
                        Die, Without
    <3>3. QED
      BY <3>1, <3>2
  <2>6. Handlers'
    <3>1. CASE InInitialize
      BY <1>7, <3>1 DEF Inv, Handlers, Sigterm, InInitialize
    <3>2. CASE ~InInitialize
      <4>1. Handler("sigterm") /\ mpc' # "interval"
        BY <1>7, <3>2 DEF Sigterm, Handler, Die
      <4>2. QED
        BY <4>1 DEF Inv, TypeOK, PlaceType, CountType, FlagType, Handlers, Handler, SeesPid
    <3>3. QED
      BY <3>1, <3>2
  <2>7. QED
    BY <2>1, <2>2, <2>3, <2>4, <2>5, <2>6 DEF Inv, TypeOK
<1>8. QED
  BY <1>1, <1>2, <1>3, <1>4, <1>5, <1>6, <1>7

\* The invariant holds in every state of every execution of the five programs.
THEOREM Invariance == Spec => []Inv
<1>1. Init => Inv
  <2>1. Init => PlaceType /\ CountType
    BY ProgramAssumption, TurnAssumption DEF Init, PlaceType, CountType, MainPCs, PartnerPCs
  <2>2. Init => FlagType
    BY DEF Init, FlagType
  <2>3. Init => Balance /\ Shape /\ NoPartner /\ Handlers
    BY DEF Init, Balance, Shape, NoPartner, Handlers, Stream, MainHas, Fresh
  <2>4. QED
    BY <2>1, <2>2, <2>3 DEF Inv, TypeOK
<1>2. Inv /\ [Next]_vars => Inv'
  <2> SUFFICES ASSUME Inv, [Next]_vars PROVE Inv'
    OBVIOUS
  <2>1. CASE Next
    BY <2>1, MainInv, PartnerInv, OtherInv DEF Next
  <2>2. CASE UNCHANGED vars
    BY <2>2 DEF vars, chanVars, harnessVars, Inv, TypeOK, PlaceType, CountType, FlagType,
                Balance, Shape, NoPartner, Handlers, Stream, MainHas, Fresh
  <2>3. QED
    BY <2>1, <2>2
<1>3. QED
  BY <1>1, <1>2, PTL DEF Spec

\* Types; no channel, and no semaphore, ever holds more than one unit.
THEOREM TypeCorrect == Spec => []TypeOK
<1>1. Inv => TypeOK
  BY DEF Inv
<1>2. QED
  BY <1>1, Invariance, PTL

\* Main and its partner complete their exchanges in turn (lat_pipe, lat_fifo, lat_unix,
\* lat_sem): what is printed as a latency is the time of two switches.
THEOREM Alternation == Spec => []TakeTurns
<1>1. Inv => TakeTurns
  BY DEF Inv, TypeOK, CountType, Balance, TakeTurns
<1>2. QED
  BY <1>1, Invariance, PTL

\* kill(-1, SIGKILL) is called only after a fork() that failed, by an orphan or without
\* a channel, and never by lat_fifo; what the handlers of the harness take for a pid is
\* 0 in lat_pipe and lat_sem until the measurement begins, and SIGCHLD is not caught later.
THEOREM OwnProcesses == Spec => []KillsOwnOnly
<1>1. Inv => KillsOwnOnly
  BY DEF Inv, NoPartner, Handlers, KillsOwnOnly
<1>2. QED
  BY <1>1, Invariance, PTL

-----------------------------------------------------------------------------
(* Udp, for any number of clients, requests and losses.  recv() compares   *)
(* no number, so the argument is about what can be on its way: a client    *)
(* has at most one datagram in the network, its request or the answer to   *)
(* it, and none while it does not wait.                                    *)
Concerns(d, c) == (d.to = Dgm!Server /\ d.from = c) \/ d.to = c

(* What the proofs of the steps need to know of the types.                 *)
DgmTypes ==
  /\ u_seq \in Int /\ u_n \in Int /\ u_n <= 0
  /\ u_cl \in [Senders -> {"new", "ready", "waiting", "failed", "done"}]
  /\ u_next \in [Senders -> Nat] /\ u_got \in [Senders -> Int]
  /\ u_server \in {"new", "up", "down"} /\ u_lost \in Nat

(* Every datagram is a request of a client, an answer to one, or a word to *)
(* stop; the numbers of requests and answers are those last sent.          *)
Wellformed(d) ==
  /\ d = Dgm!Datagram(d.to, d.from, d.n)
  /\ \/ d.to = Dgm!Server /\ d.from \in Senders /\ d.n = u_next[d.from] - 1 /\ d.n \in Nat
     \/ d.to \in Senders /\ d.from = Dgm!Server /\ d.n = u_next[d.to] - 1 /\ d.n \in Nat
     \/ d.to = Dgm!Server /\ d.from = Dgm!Stopper /\ d.n \in Int /\ d.n < 0

NetOK == \A d \in u_net : Wellformed(d)

(* At most one datagram of each client, and none while it does not wait.   *)
OneEach == \A c \in Senders : \A d, e \in u_net :
              Concerns(d, c) /\ Concerns(e, c) => d = e
Quiet == \A c \in Senders : \A d \in u_net :
              u_cl[c] \in {"new", "ready"} => ~Concerns(d, c)

(* A client that has not begun has sent nothing.                           *)
Unbegun == \A c \in Senders : u_cl[c] = "new" => u_next[c] = 0

Datagrams == DgmTypes /\ NetOK /\ OneEach /\ Quiet /\ Unbegun /\ Dgm!AnswerIsCurrent

LEMMA DatagramsBegin == Dgm!Init => Datagrams
  BY DEF Dgm!Init, Datagrams, DgmTypes, NetOK, OneEach, Quiet, Unbegun, Dgm!AnswerIsCurrent

LEMMA FollowIsSent == ASSUME NEW sent \in Int, u_seq \in Int PROVE Dgm!Follow(sent) = sent
  BY DEF Dgm!Follow

(* Sending: nothing of the client was on its way.                          *)
LEMMA DgmSendKeeps ==
  ASSUME Datagrams, NEW c \in Senders, Dgm!Send(c) PROVE Datagrams'
<1> USE UdpAssumption DEF Datagrams
<1> DEFINE r == Dgm!Datagram(Dgm!Server, c, u_next[c])
<1>1. DgmTypes'
  BY DEF Dgm!Send, DgmTypes
<1>2. /\ u_net' = u_net \cup {r} /\ r.to = Dgm!Server /\ r.from = c /\ r.n = u_next[c]
      /\ r = Dgm!Datagram(r.to, r.from, r.n)
  BY DEF Dgm!Send, Dgm!Datagram
<1>3. u_next' = [u_next EXCEPT ![c] = u_next[c] + 1] /\ u_cl' = [u_cl EXCEPT ![c] = "waiting"]
      /\ u_got' = u_got /\ u_cl[c] = "ready" /\ u_next[c] \in Nat
  BY DEF Dgm!Send, DgmTypes
<1>4. \A d \in u_net : ~Concerns(d, c)
  BY <1>3 DEF Quiet
<1>5. NetOK'
  <2> SUFFICES ASSUME NEW d \in u_net' PROVE Wellformed(d)'
    BY DEF NetOK
  <2>1. CASE d = r
    <3>1. u_next'[c] = u_next[c] + 1
      BY <1>3 DEF DgmTypes
    <3>2. d.n = u_next'[d.from] - 1 /\ d.n \in Nat
      BY <2>1, <1>2, <1>3, <3>1
    <3> QED BY <2>1, <1>2, <3>2 DEF Wellformed
  <2>2. CASE d \in u_net
    <3>1. Wellformed(d) /\ ~Concerns(d, c)
      BY <2>2, <1>4 DEF NetOK
    <3>2. \A x \in Senders : x # c => u_next'[x] = u_next[x]
      BY <1>3 DEF DgmTypes
    <3> QED BY <3>1, <3>2 DEF Wellformed, Concerns
  <2> QED BY <2>1, <2>2, <1>2
<1>6. OneEach'
  <2> SUFFICES ASSUME NEW b \in Senders, NEW d \in u_net', NEW e \in u_net',
                      Concerns(d, b), Concerns(e, b)
               PROVE  d = e
    BY DEF OneEach, Concerns
  <2>1. CASE b = c
    BY <2>1, <1>2, <1>4
  <2>2. CASE b # c
    <3>1. ~Concerns(r, b)
      BY <2>2, <1>2 DEF Concerns
    <3> QED BY <3>1, <1>2 DEF OneEach
  <2> QED BY <2>1, <2>2
<1>7. Quiet'
  <2> SUFFICES ASSUME NEW b \in Senders, NEW d \in u_net', u_cl'[b] \in {"new", "ready"}
               PROVE  ~Concerns(d, b)
    BY DEF Quiet, Concerns
  <2>1. b # c /\ u_cl[b] \in {"new", "ready"}
    BY <1>3 DEF DgmTypes
  <2>2. ~Concerns(r, b)
    BY <2>1, <1>2 DEF Concerns
  <2> QED BY <2>1, <2>2, <1>2 DEF Quiet
<1>8. Unbegun' /\ Dgm!AnswerIsCurrent'
  BY <1>3 DEF Unbegun, Dgm!AnswerIsCurrent, DgmTypes
<1> QED BY <1>1, <1>5, <1>6, <1>7, <1>8

(* Receiving: what is taken is the one datagram of the client.             *)
LEMMA DgmRecvKeeps ==
  ASSUME Datagrams, NEW c \in Senders, Dgm!Recv(c) PROVE Datagrams'
<1> USE UdpAssumption DEF Datagrams
<1>1. PICK d \in u_net : /\ d.to = c /\ u_net' = u_net \ {d}
                       /\ u_got' = [u_got EXCEPT ![c] = d.n]
  BY DEF Dgm!Recv
<1>2. u_cl' = [u_cl EXCEPT ![c] = "ready"] /\ UNCHANGED <<u_seq, u_next, u_n, u_server, u_lost>>
      /\ u_cl[c] = "waiting"
  BY DEF Dgm!Recv
<1>3. Concerns(d, c) /\ d.n = u_next[c] - 1 /\ d.n \in Nat
  BY <1>1 DEF NetOK, Wellformed, Concerns
<1>4. DgmTypes'
  BY <1>1, <1>2, <1>3 DEF DgmTypes
<1>5. NetOK' /\ OneEach'
  BY <1>1, <1>2 DEF NetOK, Wellformed, OneEach, Concerns
<1>6. \A e \in u_net' : ~Concerns(e, c)
  BY <1>1, <1>3 DEF OneEach
<1>7. Quiet'
  <2> SUFFICES ASSUME NEW b \in Senders, NEW e \in u_net', u_cl'[b] \in {"new", "ready"}
               PROVE  ~Concerns(e, b)
    BY DEF Quiet, Concerns
  <2>1. CASE b = c
    BY <2>1, <1>6
  <2>2. CASE b # c
    BY <2>2, <1>1, <1>2 DEF Quiet, DgmTypes
  <2> QED BY <2>1, <2>2
<1>8. Unbegun' /\ Dgm!AnswerIsCurrent'
  BY <1>1, <1>2, <1>3 DEF Unbegun, Dgm!AnswerIsCurrent, DgmTypes
<1> QED BY <1>4, <1>5, <1>7, <1>8

(* Serving: the answer takes the place of the request.                     *)
LEMMA DgmServeKeeps == ASSUME Datagrams, Dgm!Serve PROVE Datagrams'
<1> USE UdpAssumption DEF Datagrams
<1>1. PICK d \in u_net :
        /\ d.to = Dgm!Server
        /\ IF d.n < 0
           THEN u_net' = u_net \ {d} /\ u_seq' = u_seq /\ u_server' = "down"
           ELSE /\ u_seq' = Dgm!Follow(d.n) /\ u_server' = u_server
                /\ u_net' = (u_net \ {d}) \cup {Dgm!Datagram(d.from, Dgm!Server, Dgm!Follow(d.n))}
  BY DEF Dgm!Serve
<1>2. UNCHANGED <<u_cl, u_next, u_got, u_n, u_lost>>
  BY DEF Dgm!Serve
<1>3. Wellformed(d)
  BY DEF NetOK
<1>4. CASE d.n < 0
  <2>1. u_net' = u_net \ {d} /\ u_seq' = u_seq /\ u_server' = "down"
    BY <1>1, <1>4
  <2> QED BY <2>1, <1>2
          DEF DgmTypes, NetOK, Wellformed, OneEach, Quiet, Concerns, Unbegun, Dgm!AnswerIsCurrent
<1>5. CASE ~(d.n < 0)
  <2>1. d.from \in Senders /\ d.n = u_next[d.from] - 1 /\ d.n \in Nat
    BY <1>1, <1>3, <1>5 DEF Wellformed
  <2> DEFINE c == d.from
             a == Dgm!Datagram(c, Dgm!Server, d.n)
  <2>2. Dgm!Follow(d.n) = d.n
    BY <2>1, FollowIsSent DEF DgmTypes
  <2>3. u_net' = (u_net \ {d}) \cup {a} /\ u_seq' = d.n /\ u_server' = u_server
    BY <1>1, <1>5, <2>2
  <2>4. a.to = c /\ a.from = Dgm!Server /\ a.n = d.n /\ a = Dgm!Datagram(a.to, a.from, a.n)
    BY DEF Dgm!Datagram
  <2>5. Concerns(d, c)
    BY <1>1 DEF Concerns
  <2>6. \A b \in Senders : Concerns(a, b) <=> b = c
    BY <2>4, <2>1 DEF Concerns
  <2>7. DgmTypes'
    BY <1>2, <2>1, <2>3 DEF DgmTypes
  <2>8. NetOK'
    <3>1. Wellformed(a)'
      BY <2>1, <2>4, <1>2 DEF Wellformed
    <3>2. \A e \in u_net : Wellformed(e)'
      BY <1>2 DEF NetOK, Wellformed
    <3> QED BY <3>1, <3>2, <2>3 DEF NetOK
  <2>9. OneEach'
    <3> SUFFICES ASSUME NEW b \in Senders, NEW e \in u_net', NEW f \in u_net',
                        Concerns(e, b), Concerns(f, b)
                 PROVE  e = f
      BY DEF OneEach, Concerns
    <3>1. \A g \in u_net \ {d} : ~Concerns(g, c)
      BY <2>1, <2>5 DEF OneEach
    <3>2. CASE b = c
      BY <3>1, <3>2, <2>3
    <3>3. CASE b # c
      BY <3>3, <2>6, <2>3 DEF OneEach
    <3> QED BY <3>2, <3>3
  <2>10. Quiet'
    <3> SUFFICES ASSUME NEW b \in Senders, NEW e \in u_net', u_cl[b] \in {"new", "ready"}
                 PROVE  ~Concerns(e, b)
      BY <1>2 DEF Quiet, Concerns
    <3>1. b # c
      BY <2>5 DEF Quiet
    <3> QED BY <3>1, <2>6, <2>3 DEF Quiet
  <2>11. Unbegun' /\ Dgm!AnswerIsCurrent'
    BY <1>2 DEF Unbegun, Dgm!AnswerIsCurrent
  <2> QED BY <2>7, <2>8, <2>9, <2>10, <2>11
<1> QED BY <1>4, <1>5

(* The other steps take datagrams away, add words to stop, or end clients. *)
LEMMA DgmOthersKeep ==
  ASSUME Datagrams,
         \/ \E c \in Senders : Dgm!Start(c) \/ Dgm!Timeout(c) \/ Dgm!Finish(c)
         \/ Dgm!udp_server \/ Dgm!StopSend \/ Dgm!Lose
  PROVE  Datagrams'
<1> USE UdpAssumption DEF Datagrams
<1>1. CASE \E c \in Senders : Dgm!Start(c) \/ Dgm!Timeout(c) \/ Dgm!Finish(c)
  <2>1. PICK c \in Senders : Dgm!Start(c) \/ Dgm!Timeout(c) \/ Dgm!Finish(c)
    BY <1>1
  <2>2. UNCHANGED <<u_seq, u_next, u_got, u_net, u_n, u_server, u_lost>>
    BY <2>1 DEF Dgm!Start, Dgm!Timeout, Dgm!Finish
  <2>3. CASE Dgm!Start(c)
    <3>1. u_cl[c] = "new" /\ u_cl' \in {[u_cl EXCEPT ![c] = "ready"], [u_cl EXCEPT ![c] = "failed"]}
      BY <2>3 DEF Dgm!Start
    <3>2. u_next[c] = 0
      BY <3>1 DEF Unbegun
    <3> QED BY <3>1, <3>2, <2>2
            DEF DgmTypes, NetOK, Wellformed, OneEach, Quiet, Concerns, Unbegun, Dgm!AnswerIsCurrent
  <2>4. CASE Dgm!Timeout(c) \/ Dgm!Finish(c)
    <3>1. u_cl' \in {[u_cl EXCEPT ![c] = "failed"], [u_cl EXCEPT ![c] = "done"]}
      BY <2>4 DEF Dgm!Timeout, Dgm!Finish
    <3> QED BY <3>1, <2>2
            DEF DgmTypes, NetOK, Wellformed, OneEach, Quiet, Concerns, Unbegun, Dgm!AnswerIsCurrent
  <2> QED BY <2>1, <2>3, <2>4
<1>2. CASE Dgm!udp_server
  BY <1>2 DEF Dgm!udp_server, DgmTypes, NetOK, Wellformed, OneEach, Quiet, Concerns, Unbegun,
              Dgm!AnswerIsCurrent
<1>3. CASE Dgm!StopSend
  <2>0. PICK word : word = Dgm!Datagram(Dgm!Server, Dgm!Stopper, u_n - 1)
    OBVIOUS
  <2>1. /\ u_net' = u_net \cup {word} /\ u_n' = u_n - 1
        /\ UNCHANGED <<u_seq, u_cl, u_next, u_got, u_server, u_lost>>
    BY <2>0, <1>3 DEF Dgm!StopSend
  <2>2. /\ word.to = Dgm!Server /\ word.from = Dgm!Stopper /\ word.n = u_n - 1
        /\ word = Dgm!Datagram(word.to, word.from, word.n)
    BY <2>0 DEF Dgm!Datagram
  <2>3. \A c \in Senders : ~Concerns(word, c)
    BY <2>2 DEF Concerns
  <2>4. DgmTypes'
    BY <2>1 DEF DgmTypes
  <2>5. NetOK'
    <3>1. Wellformed(word)'
      BY <2>2 DEF Wellformed, DgmTypes
    <3>2. \A e \in u_net : Wellformed(e)'
      BY <2>1 DEF NetOK, Wellformed
    <3> QED BY <3>1, <3>2, <2>1 DEF NetOK
  <2>6. OneEach' /\ Quiet'
    BY <2>1, <2>3 DEF OneEach, Quiet, Concerns
  <2>7. Unbegun' /\ Dgm!AnswerIsCurrent'
    BY <2>1 DEF Unbegun, Dgm!AnswerIsCurrent
  <2> QED BY <2>4, <2>5, <2>6, <2>7
<1>4. CASE Dgm!Lose
  BY <1>4 DEF Dgm!Lose, DgmTypes, NetOK, Wellformed, OneEach, Quiet, Concerns, Unbegun,
              Dgm!AnswerIsCurrent
<1> QED BY <1>1, <1>2, <1>3, <1>4

LEMMA DatagramsKeep == ASSUME Datagrams, [Dgm!Next]_(Dgm!vars) PROVE Datagrams'
<1>1. CASE Dgm!Next
  <2>1. CASE \E c \in Senders : Dgm!Send(c)
    BY <2>1, DgmSendKeeps
  <2>2. CASE \E c \in Senders : Dgm!Recv(c)
    BY <2>2, DgmRecvKeeps
  <2>3. CASE Dgm!Serve
    BY <2>3, DgmServeKeeps
  <2>4. CASE \/ \E c \in Senders : Dgm!Start(c) \/ Dgm!Timeout(c) \/ Dgm!Finish(c)
             \/ Dgm!udp_server \/ Dgm!StopSend \/ Dgm!Lose
    BY <2>4, DgmOthersKeep
  <2> QED BY <1>1, <2>1, <2>2, <2>3, <2>4 DEF Dgm!Next, Dgm!ClientStep
<1>2. CASE UNCHANGED Dgm!vars
  BY <1>2 DEF Dgm!vars, Datagrams, DgmTypes, NetOK, Wellformed, OneEach, Quiet, Concerns, Unbegun,
              Dgm!AnswerIsCurrent
<1> QED BY <1>1, <1>2

LEMMA DatagramsImply == ASSUME Datagrams PROVE Dgm!TypeOK /\ Dgm!AnswerIsCurrent
  BY DEF Datagrams, DgmTypes, NetOK, Wellformed, Dgm!TypeOK

-----------------------------------------------------------------------------
(* A step of the network is a step of the program it is about, and leaves  *)
(* every other program as it is.                                           *)
LEMMA NetworkStep ==
  ASSUME [NetworkNext]_NetworkVars
  PROVE  /\ which' = which
         /\ [Next]_vars
         /\ which = "Ring" => [Ring!Next]_(Ring!vars)
         /\ which = "Srv" => [Srv!Next]_(Srv!vars)
         /\ which = "Dgm" => [Dgm!Next]_(Dgm!vars)
<1>1. which' = which /\ [Next]_vars
  BY DEF NetworkNext, NetworkVars
<1>2. which = "Ring" => [Ring!Next]_(Ring!vars)
  BY DEF NetworkNext, NetworkVars, RingVars, Ring!vars, Ring!ringVars, Ring!fileVars
<1>3. which = "Srv" => [Srv!Next]_(Srv!vars)
  BY DEF NetworkNext, NetworkVars, SrvVars, Srv!vars, Srv!parent, Srv!signals, Srv!client,
         Srv!wires
<1>4. which = "Dgm" => [Dgm!Next]_(Dgm!vars)
  BY DEF NetworkNext, NetworkVars, DgmVars, Dgm!vars
<1> QED BY <1>1, <1>2, <1>3, <1>4

RingInv == which = "Ring" => Ring!IInv /\ Ring!Born /\ Ring!Bounded /\ Ring!Settled
SrvInv == which = "Srv" => Srv!IInv /\ Srv!SInv
DgmInv == which = "Dgm" => Datagrams

LEMMA NetworkKeeps ==
  ASSUME RingInv, SrvInv, DgmInv, [NetworkNext]_NetworkVars
  PROVE  RingInv' /\ SrvInv' /\ DgmInv'
<1>1. RingInv'
  <2> SUFFICES ASSUME which = "Ring"
               PROVE  (Ring!IInv /\ Ring!Born /\ Ring!Bounded /\ Ring!Settled)'
    BY NetworkStep DEF RingInv
  <2>1. /\ Ring!IInv /\ Ring!Born /\ Ring!Bounded /\ Ring!Settled
        /\ [Ring!Next]_(Ring!vars)
    BY NetworkStep DEF RingInv
  <2>2. Ring!IInv' /\ Ring!Born'
    BY <2>1, RingAssumption, Ring!NextKeeps
  <2>3. Ring!Bounded' /\ Ring!Settled'
    BY <2>1, RingAssumption, Ring!NextSettled
  <2> QED BY <2>2, <2>3
<1>2. SrvInv'
  <2> SUFFICES ASSUME which = "Srv" PROVE (Srv!IInv /\ Srv!SInv)'
    BY NetworkStep DEF SrvInv
  <2>1. Srv!IInv /\ Srv!SInv /\ [Srv!Next]_(Srv!vars)
    BY NetworkStep DEF SrvInv
  <2>2. Srv!IInv'
    BY <2>1, ServersAssumption, Srv!NextKeeps
  <2>3. Srv!SInv'
    BY <2>1, ServersAssumption, Srv!NextSettled
  <2> QED BY <2>2, <2>3
<1>3. DgmInv'
  <2> SUFFICES ASSUME which = "Dgm" PROVE Datagrams'
    BY NetworkStep DEF DgmInv
  <2>1. Datagrams /\ [Dgm!Next]_(Dgm!vars)
    BY NetworkStep DEF DgmInv
  <2> QED BY <2>1, DatagramsKeep
<1> QED BY <1>1, <1>2, <1>3

LEMMA NetworkBegins == NetworkInit => RingInv /\ SrvInv /\ DgmInv
<1> SUFFICES ASSUME NetworkInit PROVE RingInv /\ SrvInv /\ DgmInv
  OBVIOUS
<1>1. which = "Ring" => Ring!Init
  BY DEF NetworkInit
<1>2. which = "Srv" => Srv!Init
  BY DEF NetworkInit
<1>3. which = "Dgm" => Dgm!Init
  BY DEF NetworkInit
<1>4. RingInv
  BY <1>1, RingAssumption, Ring!InitIInv, Ring!InitBorn, Ring!InitSettled DEF RingInv
<1>5. SrvInv
  BY <1>2, ServersAssumption, Srv!InitIInv, Srv!InitSInv DEF SrvInv
<1>6. DgmInv
  BY <1>3, DatagramsBegin DEF DgmInv
<1> QED BY <1>4, <1>5, <1>6

(* What holds in every state of every one of these programs.               *)
THEOREM NetworkInvariance == NetworkSpec => [](RingInv /\ SrvInv /\ DgmInv)
<1>1. RingInv /\ SrvInv /\ DgmInv /\ [NetworkNext]_NetworkVars => RingInv' /\ SrvInv' /\ DgmInv'
  BY NetworkKeeps
<1> QED BY <1>1, NetworkBegins, PTL DEF NetworkSpec

(* msgring.c: whoever dies, however the ring is set up and torn down, there *)
(* is never a second message in it, and who has one queued waits.           *)
THEOREM RingHasOne == NetworkSpec => []SinglePotato
<1>1. RingInv => SinglePotato
  <2> SUFFICES ASSUME RingInv, which = "Ring"
               PROVE  Ring!TypeOK /\ Ring!OnePotato /\ Ring!SenderWaits
    BY DEF SinglePotato
  <2>1. Ring!OnePotato
    BY RingAssumption, Ring!Counted DEF RingInv
  <2> QED BY <2>1 DEF RingInv, Ring!Bounded, Ring!Settled
<1> QED BY <1>1, NetworkInvariance, PTL

(* msgring.c: the time printed is divided by the passes that took place.   *)
THEOREM RingPrints == NetworkSpec => []PassesAsPrinted
<1>1. RingInv => PassesAsPrinted
  BY RingAssumption, Ring!Printed DEF RingInv, PassesAsPrinted
<1> QED BY <1>1, NetworkInvariance, PTL

(* lib_timing.c: sigchld_wait_handler() never blocks a forking server.     *)
THEOREM ServersReap == NetworkSpec => []WaitNeverBlocks
<1>1. SrvInv => WaitNeverBlocks
  BY ServersAssumption, Srv!Counted DEF SrvInv, WaitNeverBlocks
<1> QED BY <1>1, NetworkInvariance, PTL

(* lat_tcp.c, bw_tcp.c, lat_connect.c, lat_select.c, lmhttp.c: no client   *)
(* ends a server by accident, but in the ways the code has for it.         *)
THEOREM ServersStop == NetworkSpec => []StopsOnlyWhenTold
<1>1. SrvInv => StopsOnlyWhenTold
  BY Srv!ToldMeansStops DEF SrvInv, Srv!SInv, StopsOnlyWhenTold
<1> QED BY <1>1, NetworkInvariance, PTL

(* lat_udp.c: what a client counts is the answer to its last request,      *)
(* whatever is lost, late or meant for others.                             *)
THEOREM DatagramsCurrent == NetworkSpec => []AnswerIsCurrent
<1>1. DgmInv => AnswerIsCurrent
  BY DatagramsImply DEF DgmInv, AnswerIsCurrent
<1> QED BY <1>1, NetworkInvariance, PTL

(* lat_udp.c: there are never two datagrams of one client on their way,    *)
(* though there is no acknowledgement but the answer.                      *)
THEOREM OneOnItsWay == NetworkSpec => [](which = "Dgm" => OneEach)
<1>1. DgmInv => (which = "Dgm" => OneEach)
  BY DEF DgmInv, Datagrams
<1> QED BY <1>1, NetworkInvariance, PTL
===============================================================================
