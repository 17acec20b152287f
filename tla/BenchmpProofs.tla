---------------------------- MODULE BenchmpProofs ----------------------------
(***************************************************************************)
(* The safety properties of Benchmp, proved for any number of children,    *)
(* repetitions, signals, crashes and failing calls.                        *)
(*                                                                         *)
(* The argument: Inv of module Benchmp is inductive.  Each of its parts is *)
(* shown to be preserved by the steps of the parent process and of its     *)
(* environment (...Parent) and by the steps of one child (...Child).       *)
(***************************************************************************)
EXTENDS Benchmp, FiniteSetTheorems, TLAPS

USE DEF parentVars, signalVars, chldVars, pipeVars, batchVars, killVars, cleanVars,
        faultVars, childVars

-----------------------------------------------------------------------------
(* The children of a round, and counting their messages.                   *)

\* pids[0..parallel-1] names each child of the present round exactly once.
LEMMA RoundFacts ==
    ASSUME TypeOK
    PROVE  /\ Parallel \in Nat \ {0}
           /\ Active \subseteq Kids /\ 1..N \subseteq Kids /\ Kids \ 1..N = {0}
           /\ \A k \in 0..(Parallel - 1) : Kid(k) \in Active
           /\ \A c \in Active : \E k \in 0..(Parallel - 1) : c = Kid(k)
           /\ \A k, l \in 0..(Parallel - 1) : Kid(k) = Kid(l) => k = l
<1>1. CASE round = "base"
  BY <1>1, NAssumption DEF Parallel, Kid, Active, Kids
<1>2. CASE round = "par"
  <2>1. \A c \in 1..N : c - 1 \in 0..(N - 1) /\ c = (c - 1) + 1
    BY NAssumption
  <2>2. QED
    BY <1>2, <2>1, NAssumption DEF Parallel, Kid, Active, Kids
<1>3. QED
  BY <1>1, <1>2 DEF TypeOK, ParentType

\* The round has `parallel' children.
LEMMA ActiveCount ==
    ASSUME TypeOK
    PROVE  IsFiniteSet(Active) /\ Cardinality(Active) = Parallel
<1>1. CASE round = "base"
  BY <1>1, FS_Singleton DEF Active, Parallel
<1>2. CASE round = "par"
  <2>1. IsFiniteSet(1..N) /\ Cardinality(1..N) = N
    BY FS_Interval, NAssumption, 1 \in Int, N \in Int
  <2>2. QED
    BY <1>2, <2>1 DEF Active, Parallel
<1>3. QED
  BY <1>1, <1>2 DEF TypeOK, ParentType

\* `parallel' different messages of one kind are one from every child: why the
\* parent may count anonymous bytes.
LEMMA AllAnswered ==
    ASSUME TypeOK, NEW kind, NEW S,
           \A m \in S : m \in Messages /\ m.kind = kind /\ m.from \in Active,
           Cardinality(S) = Parallel
    PROVE  S = {Msg(kind, c) : c \in Active}
<1> DEFINE T == {Msg(kind, c) : c \in Active}
           f == [c \in Active |-> Msg(kind, c)]
<1>1. \A c, d \in Active : Msg(kind, c) = Msg(kind, d) => c = d
  BY DEF Msg
<1>2. f \in Bijection(Active, T)
  BY <1>1 DEF Bijection, Injection, Surjection, IsInjective
<1>3. IsFiniteSet(T) /\ Cardinality(T) = Parallel
  BY <1>2, ActiveCount, FS_Bijection DEF ExistsBijection
<1>4. S \subseteq T
  BY DEF Messages, Msg
<1>5. S = T
  BY <1>3, <1>4, FS_Subset
<1>6. QED
  BY <1>5

-----------------------------------------------------------------------------
(* The initial state.                                                      *)

\* benchmp() is entered in a state that satisfies the invariant.
LEMMA InitInv == Init => Inv
<1> SUFFICES ASSUME Init PROVE Inv
  OBVIOUS
<1>1. ParentType
  <2>1. /\ round \in {"base", "par"} /\ pc \in ParentPCs /\ got \subseteq Messages
        /\ merged \subseteq Kids
    BY DEF Init, ParentPCs
  <2>2. i \in 0..Parallel
    BY NAssumption DEF Init, Parallel
  <2>3. termH \in {"default", "flag"} /\ savedTerm \in {"default", "flag"}
    BY FlagAssumption DEF Init
  <2>4. terms \in 0..MaxTerm /\ crashes \in 0..MaxCrash
    BY BoundAssumption DEF Init
  <2>5. QED
    BY <2>1, <2>2, <2>3, <2>4 DEF ParentType
<1>2. PipeType
  BY DEF Init, PipeType
<1>3. ChildType
  BY BoundAssumption DEF Init, ChildType, ChildPCs
<1>4. FlagType
  BY DEF Init, FlagType
<1>5. TypeOK
  BY <1>1, <1>2, <1>3, <1>4 DEF TypeOK
<1>6. \A c \in Kids : kpc[c] = "unborn" /\ st[c] = "warmup" /\ need[c] /\ reps[c] = 0 /\ kept[c] = 0
  BY DEF Init
<1>7. Active \subseteq Kids /\ 1..N \subseteq Kids
  BY <1>5, RoundFacts
<1>8. Census
  BY <1>6, <1>7 DEF Init, Census, Waited
<1>9. Progress
  BY <1>6, RAssumption DEF Progress
<1>10. Barriers /\ PhaseInv
  BY DEF Init, Barriers, PhaseInv
<1>11. TimedInv
  BY NAssumption DEF Init, TimedInv
<1>12. QED
  BY <1>5, <1>8, <1>9, <1>10, <1>11 DEF Inv

-----------------------------------------------------------------------------
(* Types.                                                                  *)

\* Every step of the parent keeps the variables in their types.
LEMMA TypeParent ==
    ASSUME Inv, ParentStep \/ Alarm \/ Sigterm \/ ParentKilled
    PROVE  TypeOK'
<1>a. TypeOK /\ Census
  BY DEF Inv
<1>b. Parallel \in Nat \ {0}
  BY <1>a, NAssumption DEF Parallel, TypeOK, ParentType
<1>c. round' = round => Parallel' = Parallel
  BY DEF Parallel
<1> USE <1>a, <1>b, <1>c, BoundAssumption
<1>1. CASE CreatePipes
  <2>1. ParentType' /\ PipeType' /\ ChildType'
    BY <1>1 DEF TypeOK, ParentType, ParentPCs, PipeType, ChildType, ChildPCs, Messages,
       Census, CreatePipes
  <2>2. FlagType'
    BY <1>1 DEF TypeOK, FlagType, CreatePipes
  <2>3. QED
    BY <2>1, <2>2 DEF TypeOK
<1>2. CASE PipesFail
  <2>1. ParentType' /\ PipeType' /\ ChildType'
    BY <1>2 DEF TypeOK, ParentType, ParentPCs, PipeType, ChildType, ChildPCs, Messages,
       Census, PipesFail, Return
  <2>2. FlagType'
    BY <1>2 DEF TypeOK, FlagType, PipesFail, Return
  <2>3. QED
    BY <2>1, <2>2 DEF TypeOK
<1>3. CASE AllocPids
  <2>1. ParentType' /\ PipeType' /\ ChildType'
    BY <1>3 DEF TypeOK, ParentType, ParentPCs, PipeType, ChildType, ChildPCs, Messages,
       Census, AllocPids, Return
  <2>2. FlagType'
    BY <1>3 DEF TypeOK, FlagType, AllocPids, Return
  <2>3. QED
    BY <2>1, <2>2 DEF TypeOK
<1>4. CASE ForkCheck
  <2>1. ParentType' /\ PipeType' /\ ChildType'
    BY <1>4 DEF TypeOK, ParentType, ParentPCs, PipeType, ChildType, ChildPCs, Messages,
       Census, ForkCheck
  <2>2. FlagType'
    BY <1>4 DEF TypeOK, FlagType, ForkCheck
  <2>3. QED
    BY <2>1, <2>2 DEF TypeOK
<1>5. CASE Fork
  <2>1. ParentType'
    BY <1>5 DEF TypeOK, ParentType, ParentPCs, Census, Fork
  <2>2. PipeType'
    BY <1>5 DEF TypeOK, PipeType, Fork
  <2>3. ChildType'
    BY <1>5 DEF TypeOK, ChildType, ChildPCs, Fork
  <2>4. FlagType'
    BY <1>5 DEF TypeOK, FlagType, Fork
  <2>5. QED
    BY <2>1, <2>2, <2>3, <2>4 DEF TypeOK
<1>6. CASE ForkFails
  <2>1. ParentType' /\ PipeType' /\ ChildType'
    BY <1>6 DEF TypeOK, ParentType, ParentPCs, PipeType, ChildType, ChildPCs, Messages,
       Census, ForkFails
  <2>2. FlagType'
    BY <1>6 DEF TypeOK, FlagType, ForkFails
  <2>3. QED
    BY <2>1, <2>2 DEF TypeOK
<1>7. CASE ErrKill
  <2>1. ParentType' /\ PipeType' /\ ChildType'
    BY <1>7 DEF TypeOK, ParentType, ParentPCs, PipeType, ChildType, ChildPCs, Messages,
       Census, ErrKill, Return, Kill, Alive
  <2>2. FlagType'
    BY <1>7 DEF TypeOK, FlagType, ErrKill, Return, Kill, Alive
  <2>3. QED
    BY <2>1, <2>2 DEF TypeOK
<1>8. CASE ErrWait
  <2>1. ParentType' /\ PipeType' /\ ChildType'
    BY <1>8 DEF TypeOK, ParentType, ParentPCs, PipeType, ChildType, ChildPCs, Messages,
       Census, ErrWait, Reap
  <2>2. FlagType'
    BY <1>8 DEF TypeOK, FlagType, ErrWait, Reap
  <2>3. QED
    BY <2>1, <2>2 DEF TypeOK
<1>9. CASE ParentEntry
  <2>1. ParentType' /\ PipeType' /\ ChildType'
    BY <1>9 DEF TypeOK, ParentType, ParentPCs, PipeType, ChildType, ChildPCs, Messages,
       Census, ParentEntry
  <2>2. FlagType'
    BY <1>9 DEF TypeOK, FlagType, ParentEntry
  <2>3. QED
    BY <2>1, <2>2 DEF TypeOK
<1>10. CASE CollectReady
  <2>1. got' \subseteq Messages /\ resp' \subseteq Messages
    BY <1>10 DEF TypeOK, ParentType, PipeType, CollectReady, Collect
  <2>2. i' \in 0..Parallel'
    BY <1>10 DEF TypeOK, ParentType, CollectReady, Collect
  <2>3. pc' \in ParentPCs
    BY <1>10 DEF TypeOK, ParentType, ParentPCs, CollectReady, Collect
  <2>4. merged' \subseteq Kids
    BY <1>10 DEF TypeOK, ParentType, PipeType, Messages, CollectReady, Collect
  <2>5. ParentType' /\ PipeType' /\ ChildType'
    BY <1>10, <2>1, <2>2, <2>3, <2>4 DEF TypeOK, ParentType, PipeType, ChildType,
       CollectReady, Collect
  <2>6. FlagType'
    BY <1>10 DEF TypeOK, FlagType, CollectReady, Collect
  <2>7. QED
    BY <2>5, <2>6 DEF TypeOK
<1>11. CASE WriteStart
  <2>1. ParentType' /\ PipeType' /\ ChildType'
    BY <1>11 DEF TypeOK, ParentType, ParentPCs, PipeType, ChildType, ChildPCs, Messages,
       Census, WriteStart, Die
  <2>2. FlagType'
    BY <1>11 DEF TypeOK, FlagType, WriteStart, Die
  <2>3. QED
    BY <2>1, <2>2 DEF TypeOK
<1>12. CASE CollectDone
  <2>1. got' \subseteq Messages /\ resp' \subseteq Messages
    BY <1>12 DEF TypeOK, ParentType, PipeType, CollectDone, Collect
  <2>2. i' \in 0..Parallel'
    BY <1>12 DEF TypeOK, ParentType, CollectDone, Collect
  <2>3. pc' \in ParentPCs
    BY <1>12 DEF TypeOK, ParentType, ParentPCs, CollectDone, Collect
  <2>4. merged' \subseteq Kids
    BY <1>12 DEF TypeOK, ParentType, PipeType, Messages, CollectDone, Collect
  <2>5. ParentType' /\ PipeType' /\ ChildType'
    BY <1>12, <2>1, <2>2, <2>3, <2>4 DEF TypeOK, ParentType, PipeType, ChildType, CollectDone,
       Collect
  <2>6. FlagType'
    BY <1>12 DEF TypeOK, FlagType, CollectDone, Collect
  <2>7. QED
    BY <2>5, <2>6 DEF TypeOK
<1>13. CASE WriteResultSignal
  <2>1. ParentType' /\ PipeType' /\ ChildType'
    BY <1>13 DEF TypeOK, ParentType, ParentPCs, PipeType, ChildType, ChildPCs, Messages,
       Census, WriteResultSignal, Die
  <2>2. FlagType'
    BY <1>13 DEF TypeOK, FlagType, WriteResultSignal, Die
  <2>3. QED
    BY <2>1, <2>2 DEF TypeOK
<1>14. CASE ReadResults
  <2>1. got' \subseteq Messages /\ resp' \subseteq Messages
    BY <1>14 DEF TypeOK, ParentType, PipeType, ReadResults, Merged
  <2>2. i' \in 0..Parallel'
    BY <1>14 DEF TypeOK, ParentType, ReadResults, Merged
  <2>3. pc' \in ParentPCs
    BY <1>14 DEF TypeOK, ParentType, ParentPCs, ReadResults, Merged
  <2>4. merged' \subseteq Kids
    BY <1>14 DEF TypeOK, ParentType, PipeType, Messages, ReadResults, Merged
  <2>5. ParentType' /\ PipeType' /\ ChildType'
    BY <1>14, <2>1, <2>2, <2>3, <2>4 DEF TypeOK, ParentType, PipeType, ChildType, ReadResults, Merged
  <2>6. FlagType'
    BY <1>14 DEF TypeOK, FlagType, ReadResults, Merged
  <2>7. QED
    BY <2>5, <2>6 DEF TypeOK
<1>15. CASE WriteExit
  <2>1. ParentType'
    BY <1>15 DEF TypeOK, ParentType, ParentPCs, Census, WriteExit, Die
  <2>2. PipeType'
    BY <1>15 DEF TypeOK, PipeType, WriteExit, Die
  <2>3. ChildType'
    BY <1>15 DEF TypeOK, ChildType, ChildPCs, WriteExit, Die
  <2>4. FlagType'
    BY <1>15 DEF TypeOK, FlagType, WriteExit, Die, Measured
  <2>5. QED
    BY <2>1, <2>2, <2>3, <2>4 DEF TypeOK
<1>16. CASE ParentErrKill
  <2>1. ParentType' /\ PipeType' /\ ChildType'
    BY <1>16 DEF TypeOK, ParentType, ParentPCs, PipeType, ChildType, ChildPCs, Messages,
       Census, ParentErrKill, Kill, Alive
  <2>2. FlagType'
    BY <1>16 DEF TypeOK, FlagType, ParentErrKill, Kill, Alive
  <2>3. QED
    BY <2>1, <2>2 DEF TypeOK
<1>17. CASE ParentErrWait
  <2>1. ParentType'
    BY <1>17 DEF TypeOK, ParentType, ParentPCs, Census, ParentErrWait, Reap
  <2>2. PipeType'
    BY <1>17 DEF TypeOK, PipeType, ParentErrWait, Reap
  <2>3. ChildType'
    BY <1>17 DEF TypeOK, ChildType, ChildPCs, ParentErrWait, Reap
  <2>4. FlagType'
    BY <1>17 DEF TypeOK, FlagType, ParentErrWait, Reap
  <2>5. QED
    BY <2>1, <2>2, <2>3, <2>4 DEF TypeOK
<1>18. CASE WaitChild
  <2>1. ParentType' /\ PipeType' /\ ChildType'
    BY <1>18 DEF TypeOK, ParentType, ParentPCs, PipeType, ChildType, ChildPCs, Messages,
       Census, WaitChild, Reap, Return
  <2>2. FlagType'
    BY <1>18 DEF TypeOK, FlagType, WaitChild, Reap, Return
  <2>3. QED
    BY <2>1, <2>2 DEF TypeOK
<1>19. CASE BaseDone
  <2>1. i' \in 0..Parallel'
    BY <1>19, NAssumption DEF TypeOK, ParentType, Parallel, BaseDone
  <2>2. ParentType' /\ PipeType' /\ ChildType'
    BY <1>19, <2>1 DEF TypeOK, ParentType, ParentPCs, PipeType, ChildType, BaseDone
  <2>3. FlagType'
    BY <1>19 DEF TypeOK, FlagType, BaseDone
  <2>4. QED
    BY <2>2, <2>3 DEF TypeOK
<1>20. CASE Alarm
  <2>1. ParentType' /\ PipeType' /\ ChildType'
    BY <1>20 DEF TypeOK, ParentType, ParentPCs, PipeType, ChildType, ChildPCs, Messages,
       Census, Alarm, Kill, Alive
  <2>2. FlagType'
    BY <1>20 DEF TypeOK, FlagType, Alarm, Kill, Alive
  <2>3. QED
    BY <2>1, <2>2 DEF TypeOK
<1>21. CASE Sigterm
  <2>1. ParentType' /\ PipeType' /\ ChildType'
    BY <1>21 DEF TypeOK, ParentType, ParentPCs, PipeType, ChildType, ChildPCs, Messages,
       Census, Sigterm, Die
  <2>2. FlagType'
    BY <1>21 DEF TypeOK, FlagType, Sigterm, Die
  <2>3. QED
    BY <2>1, <2>2 DEF TypeOK
<1>22. CASE ParentKilled
  <2>1. ParentType' /\ PipeType' /\ ChildType'
    BY <1>22 DEF TypeOK, ParentType, ParentPCs, PipeType, ChildType, ChildPCs, Messages,
       Census, ParentKilled, Die
  <2>2. FlagType'
    BY <1>22 DEF TypeOK, FlagType, ParentKilled, Die
  <2>3. QED
    BY <2>1, <2>2 DEF TypeOK
<1>23. QED
  BY <1>1, <1>2, <1>3, <1>4, <1>5, <1>6, <1>7, <1>8, <1>9, <1>10, <1>11, <1>12, <1>13, <1>14,
     <1>15, <1>16, <1>17, <1>18, <1>19, <1>20, <1>21, <1>22 DEF ParentStep

\* Every step of a child keeps the variables in their types.
LEMMA TypeChild ==
    ASSUME Inv, NEW c \in Kids, ChildStep(c) \/ HandleTerm(c) \/ Crash(c)
    PROVE  TypeOK'
<1>a. TypeOK /\ Census
  BY DEF Inv
<1>b. round' = round => Parallel' = Parallel
  BY DEF Parallel
<1> USE <1>a, <1>b, BoundAssumption
<1>1. CASE ChildSetup(c)
  <2>1. ParentType' /\ PipeType' /\ ChildType'
    BY <1>1 DEF TypeOK, ParentType, PipeType, ChildType, ChildPCs, Messages, Msg, Kids,
       ChildSetup, Goto
  <2>2. FlagType'
    BY <1>1 DEF TypeOK, FlagType, ChildSetup, Goto
  <2>3. QED
    BY <2>1, <2>2 DEF TypeOK
<1>2. CASE ChildMallocFails(c)
  <2>1. ParentType' /\ PipeType' /\ ChildType'
    BY <1>2 DEF TypeOK, ParentType, PipeType, ChildType, ChildPCs, Messages, Msg, Kids,
       ChildMallocFails, ExitFrom
  <2>2. FlagType'
    BY <1>2 DEF TypeOK, FlagType, ChildMallocFails, ExitFrom
  <2>3. QED
    BY <2>1, <2>2 DEF TypeOK
<1>3. CASE ChildInstall(c)
  <2>1. ParentType' /\ PipeType' /\ ChildType'
    BY <1>3 DEF TypeOK, ParentType, PipeType, ChildType, ChildPCs, Messages, Msg, Kids,
       ChildInstall, Goto
  <2>2. FlagType'
    BY <1>3 DEF TypeOK, FlagType, ChildInstall, Goto
  <2>3. QED
    BY <2>1, <2>2 DEF TypeOK
<1>4. CASE ChildCheck(c)
  <2>1. ParentType' /\ PipeType'
    BY <1>4 DEF TypeOK, ParentType, PipeType, Messages, Msg, ChildCheck, ChildSigterm,
       ExitFrom, Goto
  <2>2. ChildType'
    BY <1>4 DEF TypeOK, ChildType, ChildPCs, ChildCheck, ChildSigterm, ExitFrom, Goto
  <2>3. FlagType'
    BY <1>4 DEF TypeOK, FlagType, ChildCheck, ChildSigterm, ExitFrom, Goto
  <2>4. QED
    BY <2>1, <2>2, <2>3 DEF TypeOK
<1>5. CASE Run(c)
  <2>1. ParentType' /\ PipeType' /\ ChildType'
    BY <1>5 DEF TypeOK, ParentType, PipeType, ChildType, ChildPCs, Messages, Msg, Kids, Run,
       Goto
  <2>2. FlagType'
    BY <1>5 DEF TypeOK, FlagType, Run, Goto
  <2>3. QED
    BY <2>1, <2>2 DEF TypeOK
<1>6. CASE OrphanExit(c)
  <2>1. ParentType' /\ PipeType'
    BY <1>6 DEF TypeOK, ParentType, PipeType, Messages, Msg, OrphanExit, GivesUp, Orphan,
       ExitFrom
  <2>2. ChildType'
    BY <1>6 DEF TypeOK, ChildType, ChildPCs, OrphanExit, GivesUp, Orphan, ExitFrom
  <2>3. FlagType'
    BY <1>6 DEF TypeOK, FlagType, OrphanExit, GivesUp, Orphan, ExitFrom
  <2>4. QED
    BY <2>1, <2>2, <2>3 DEF TypeOK
<1>7. CASE PollStart(c)
  <2>1. ParentType' /\ PipeType' /\ ChildType'
    <3>1. ParentType'
      BY <1>7 DEF TypeOK, ParentType, Kids, PollStart, InInterval, Readable, Hup, Goto, Respond, ExitFrom
    <3>2. PipeType'
      BY <1>7 DEF TypeOK, PipeType, Messages, Msg, Kids, PollStart, InInterval, Readable, Hup, Goto, Respond, ExitFrom
    <3>3. ChildType'
      BY <1>7 DEF TypeOK, ChildType, ChildPCs, Kids, PollStart, InInterval, Readable, Hup, Goto, Respond, ExitFrom
    <3>4. QED
      BY <3>1, <3>2, <3>3
  <2>2. FlagType'
    BY <1>7 DEF TypeOK, FlagType, PollStart, InInterval, Readable, Hup, Goto, Respond, ExitFrom
  <2>3. QED
    BY <2>1, <2>2 DEF TypeOK
<1>8. CASE ReadStart(c)
  <2>1. ParentType' /\ PipeType'
    BY <1>8 DEF TypeOK, ParentType, PipeType, Messages, Msg, ReadStart, Readable, Hup, Drop,
       Respond, ExitFrom, Goto
  <2>2. ChildType'
    BY <1>8 DEF TypeOK, ChildType, ChildPCs, ReadStart, Readable, Hup, Drop, Respond,
       ExitFrom, Goto
  <2>3. FlagType'
    BY <1>8 DEF TypeOK, FlagType, ReadStart, Readable, Hup, Drop, Respond, ExitFrom, Goto
  <2>4. QED
    BY <2>1, <2>2, <2>3 DEF TypeOK
<1>9. CASE Accept(c)
  <2>1. ParentType' /\ PipeType'
    BY <1>9 DEF TypeOK, ParentType, PipeType, Messages, Msg, Accept, InInterval, LastInterval,
       Stop, Respond, Goto, ExitFrom, Hup
  <2>2. ChildType'
    BY <1>9 DEF TypeOK, ChildType, ChildPCs, Accept, InInterval, LastInterval, Stop, Respond,
       Goto, ExitFrom, Hup
  <2>3. FlagType'
    BY <1>9 DEF TypeOK, FlagType, Accept, InInterval, LastInterval, Stop, Respond, Goto,
       ExitFrom, Hup
  <2>4. QED
    BY <2>1, <2>2, <2>3 DEF TypeOK
<1>10. CASE Reject(c)
  <2>1. ParentType' /\ PipeType'
    BY <1>10 DEF TypeOK, ParentType, PipeType, Messages, Msg, Reject, InInterval, Stop,
       Respond, Goto, ExitFrom, Hup
  <2>2. ChildType'
    BY <1>10 DEF TypeOK, ChildType, ChildPCs, Reject, InInterval, Stop, Respond, Goto,
       ExitFrom, Hup
  <2>3. FlagType'
    BY <1>10 DEF TypeOK, FlagType, Reject, InInterval, Stop, Respond, Goto, ExitFrom, Hup
  <2>4. QED
    BY <2>1, <2>2, <2>3 DEF TypeOK
<1>11. CASE PollResult(c)
  <2>1. ParentType' /\ PipeType' /\ ChildType'
    BY <1>11 DEF TypeOK, ParentType, PipeType, ChildType, ChildPCs, Messages, Msg, Kids,
       PollResult, InInterval, Goto, Readable, Hup
  <2>2. FlagType'
    BY <1>11 DEF TypeOK, FlagType, PollResult, InInterval, Goto, Readable, Hup
  <2>3. QED
    BY <2>1, <2>2 DEF TypeOK
<1>12. CASE ReadResult(c)
  <2>1. ParentType' /\ PipeType' /\ ChildType'
    <3>1. ParentType'
      BY <1>12 DEF TypeOK, ParentType, Kids, ReadResult, Readable, Hup, Drop, Respond, ExitFrom
    <3>2. PipeType'
      BY <1>12 DEF TypeOK, PipeType, Messages, Msg, Kids, ReadResult, Readable, Hup, Drop, Respond, ExitFrom
    <3>3. ChildType'
      BY <1>12 DEF TypeOK, ChildType, ChildPCs, Kids, ReadResult, Readable, Hup, Drop, Respond, ExitFrom
    <3>4. QED
      BY <3>1, <3>2, <3>3
  <2>2. FlagType'
    BY <1>12 DEF TypeOK, FlagType, ReadResult, Readable, Hup, Drop, Respond, ExitFrom
  <2>3. QED
    BY <2>1, <2>2 DEF TypeOK
<1>13. CASE ChildCleanup(c)
  <2>1. ParentType' /\ PipeType' /\ ChildType'
    BY <1>13 DEF TypeOK, ParentType, PipeType, ChildType, ChildPCs, Messages, Msg, Kids,
       ChildCleanup, Goto
  <2>2. FlagType'
    BY <1>13 DEF TypeOK, FlagType, ChildCleanup, Goto
  <2>3. QED
    BY <2>1, <2>2 DEF TypeOK
<1>14. CASE ReadExit(c)
  <2>1. ParentType' /\ PipeType'
    BY <1>14 DEF TypeOK, ParentType, PipeType, Messages, Msg, ReadExit, Readable, Hup, Drop,
       ExitFrom
  <2>2. ChildType'
    BY <1>14 DEF TypeOK, ChildType, ChildPCs, ReadExit, Readable, Hup, Drop, ExitFrom
  <2>3. FlagType'
    BY <1>14 DEF TypeOK, FlagType, ReadExit, Readable, Hup, Drop, ExitFrom
  <2>4. QED
    BY <2>1, <2>2, <2>3 DEF TypeOK
<1>15. CASE HandleTerm(c)
  <2>1. ParentType' /\ PipeType'
    BY <1>15 DEF TypeOK, ParentType, PipeType, Messages, Msg, HandleTerm, Alive, ChildSigterm,
       ExitFrom
  <2>2. ChildType'
    BY <1>15 DEF TypeOK, ChildType, ChildPCs, HandleTerm, Alive, ChildSigterm, ExitFrom
  <2>3. FlagType'
    BY <1>15 DEF TypeOK, FlagType, HandleTerm, Alive, ChildSigterm, ExitFrom
  <2>4. QED
    BY <2>1, <2>2, <2>3 DEF TypeOK
<1>16. CASE Crash(c)
  <2>1. ParentType' /\ PipeType' /\ ChildType'
    <3>1. ParentType'
      BY <1>16 DEF TypeOK, ParentType, Kids, Crash, ExitFrom
    <3>2. PipeType'
      BY <1>16 DEF TypeOK, PipeType, Messages, Msg, Kids, Crash, ExitFrom
    <3>3. ChildType'
      BY <1>16 DEF TypeOK, ChildType, ChildPCs, Kids, Crash, ExitFrom
    <3>4. QED
      BY <3>1, <3>2, <3>3
  <2>2. FlagType'
    BY <1>16 DEF TypeOK, FlagType, Crash, ExitFrom
  <2>3. QED
    BY <2>1, <2>2 DEF TypeOK
<1>17. QED
  BY <1>1, <1>2, <1>3, <1>4, <1>5, <1>6, <1>7, <1>8, <1>9, <1>10, <1>11, <1>12, <1>13, <1>14,
     <1>15, <1>16 DEF ChildStep

-----------------------------------------------------------------------------
(* Who exists: Census.                                                     *)

\* What a parent's step may do to its children: fork() and waitpid(), no more.
LEMMA ParentMove ==
    ASSUME Inv, ParentStep \/ Alarm \/ Sigterm \/ ParentKilled
    PROVE  /\ UNCHANGED batchVars
           /\ \A c \in Kids : \/ kpc'[c] = kpc[c]
                              \/ pc = "fork" /\ kpc[c] = "unborn" /\ kpc'[c] = "setup"
                              \/ kpc[c] = "zombie" /\ kpc'[c] = "reaped"
<1>a. TypeOK /\ Census
  BY DEF Inv
<1>b. Parallel \in Nat \ {0}
  BY <1>a, RoundFacts
<1>f. pc = "fork" => kpc[Kid(i)] = "unborn"
  BY <1>a, <1>b DEF Census, TypeOK, ParentType
<1>1. CASE CreatePipes
  BY <1>1, <1>a DEF TypeOK, ChildType, CreatePipes
<1>2. CASE PipesFail
  BY <1>2, <1>a DEF TypeOK, ChildType, PipesFail, Return
<1>3. CASE AllocPids
  BY <1>3, <1>a DEF TypeOK, ChildType, AllocPids, Return
<1>4. CASE ForkCheck
  BY <1>4, <1>a DEF TypeOK, ChildType, ForkCheck
<1>5. CASE Fork
  BY <1>5, <1>a, <1>f DEF TypeOK, ChildType, Fork
<1>6. CASE ForkFails
  BY <1>6, <1>a DEF TypeOK, ChildType, ForkFails
<1>7. CASE ErrKill
  BY <1>7, <1>a DEF TypeOK, ChildType, ErrKill, Return, Kill, Alive
<1>8. CASE ErrWait
  BY <1>8, <1>a DEF TypeOK, ChildType, ErrWait, Reap
<1>9. CASE ParentEntry
  BY <1>9, <1>a DEF TypeOK, ChildType, ParentEntry
<1>10. CASE CollectReady
  BY <1>10, <1>a DEF TypeOK, ChildType, CollectReady, Collect
<1>11. CASE WriteStart
  BY <1>11, <1>a DEF TypeOK, ChildType, WriteStart, Die
<1>12. CASE CollectDone
  BY <1>12, <1>a DEF TypeOK, ChildType, CollectDone, Collect
<1>13. CASE WriteResultSignal
  BY <1>13, <1>a DEF TypeOK, ChildType, WriteResultSignal, Die
<1>14. CASE ReadResults
  BY <1>14, <1>a DEF TypeOK, ChildType, ReadResults, Merged
<1>15. CASE WriteExit
  BY <1>15, <1>a DEF TypeOK, ChildType, WriteExit, Die
<1>16. CASE ParentErrKill
  BY <1>16, <1>a DEF TypeOK, ChildType, ParentErrKill, Kill, Alive
<1>17. CASE ParentErrWait
  BY <1>17, <1>a DEF TypeOK, ChildType, ParentErrWait, Reap
<1>18. CASE WaitChild
  BY <1>18, <1>a DEF TypeOK, ChildType, WaitChild, Reap, Return
<1>19. CASE BaseDone
  BY <1>19, <1>a DEF TypeOK, ChildType, BaseDone
<1>20. CASE Alarm
  BY <1>20, <1>a DEF TypeOK, ChildType, Alarm, Kill, Alive
<1>21. CASE Sigterm
  BY <1>21, <1>a DEF TypeOK, ChildType, Sigterm, Die
<1>22. CASE ParentKilled
  BY <1>22, <1>a DEF TypeOK, ChildType, ParentKilled, Die
<1>23. QED
  BY <1>1, <1>2, <1>3, <1>4, <1>5, <1>6, <1>7, <1>8, <1>9, <1>10, <1>11, <1>12, <1>13, <1>14,
     <1>15, <1>16, <1>17, <1>18, <1>19, <1>20, <1>21, <1>22 DEF ParentStep

\* What a child's step may do: move that child, alive, without forking or
\* reaping anybody; a child that has stopped measuring never starts again.
LEMMA ChildMove ==
    ASSUME Inv, NEW c \in Kids, ChildStep(c) \/ HandleTerm(c) \/ Crash(c)
    PROVE  /\ Alive(c) /\ UNCHANGED <<parentVars, open>>
           /\ \E x \in ChildPCs \ {"unborn", "reaped"} : kpc' = [kpc EXCEPT ![c] = x]
           /\ \A d \in Kids : st[d] = "cooldown" => st'[d] = "cooldown"
<1>a. TypeOK /\ Progress
  BY DEF Inv
<1>1. CASE ChildSetup(c)
  BY <1>a, <1>1 DEF TypeOK, ChildType, ChildPCs, Progress, Alive, ChildSetup, Goto
<1>2. CASE ChildMallocFails(c)
  BY <1>a, <1>2 DEF TypeOK, ChildType, ChildPCs, Progress, Alive, ChildMallocFails, ExitFrom
<1>3. CASE ChildInstall(c)
  BY <1>a, <1>3 DEF TypeOK, ChildType, ChildPCs, Progress, Alive, ChildInstall, Goto
<1>4. CASE ChildCheck(c)
  BY <1>a, <1>4 DEF TypeOK, ChildType, ChildPCs, Progress, Alive, ChildCheck, ChildSigterm,
     ExitFrom, Goto
<1>5. CASE Run(c)
  BY <1>a, <1>5 DEF TypeOK, ChildType, ChildPCs, Progress, Alive, Run, Goto
<1>6. CASE OrphanExit(c)
  BY <1>a, <1>6 DEF TypeOK, ChildType, ChildPCs, Progress, Alive, OrphanExit, GivesUp, Orphan,
     ExitFrom
<1>7. CASE PollStart(c)
  BY <1>a, <1>7 DEF TypeOK, ChildType, ChildPCs, Progress, Alive, PollStart, InInterval,
     Readable, Hup, Goto, Respond, ExitFrom
<1>8. CASE ReadStart(c)
  BY <1>a, <1>8 DEF TypeOK, ChildType, ChildPCs, Progress, Alive, ReadStart, Readable, Hup,
     Drop, Respond, ExitFrom, Goto
<1>9. CASE Accept(c)
  BY <1>a, <1>9 DEF TypeOK, ChildType, ChildPCs, Progress, Alive, Accept, InInterval,
     LastInterval, Stop, Respond, Goto, ExitFrom, Hup
<1>10. CASE Reject(c)
  BY <1>a, <1>10 DEF TypeOK, ChildType, ChildPCs, Progress, Alive, Reject, InInterval, Stop,
     Respond, Goto, ExitFrom, Hup
<1>11. CASE PollResult(c)
  BY <1>a, <1>11 DEF TypeOK, ChildType, ChildPCs, Progress, Alive, PollResult, InInterval,
     Goto, Readable, Hup
<1>12. CASE ReadResult(c)
  BY <1>a, <1>12 DEF TypeOK, ChildType, ChildPCs, Progress, Alive, ReadResult, Readable, Hup,
     Drop, Respond, ExitFrom
<1>13. CASE ChildCleanup(c)
  BY <1>a, <1>13 DEF TypeOK, ChildType, ChildPCs, Progress, Alive, ChildCleanup, Goto
<1>14. CASE ReadExit(c)
  BY <1>a, <1>14 DEF TypeOK, ChildType, ChildPCs, Progress, Alive, ReadExit, Readable, Hup,
     Drop, ExitFrom
<1>15. CASE HandleTerm(c)
  BY <1>a, <1>15 DEF TypeOK, ChildType, ChildPCs, Progress, Alive, HandleTerm, ChildSigterm,
     ExitFrom
<1>16. CASE Crash(c)
  BY <1>a, <1>16 DEF TypeOK, ChildType, ChildPCs, Progress, Alive, Crash, ExitFrom
<1>17. QED
  BY <1>1, <1>2, <1>3, <1>4, <1>5, <1>6, <1>7, <1>8, <1>9, <1>10, <1>11, <1>12, <1>13, <1>14,
     <1>15, <1>16 DEF ChildStep

\* The loops over pids[] fork, kill and wait for each child once.
LEMMA CensusParent ==
    ASSUME Inv, ParentStep \/ Alarm \/ Sigterm \/ ParentKilled
    PROVE  Census'
<1>a. TypeOK /\ Census /\ TimedInv
  BY DEF Inv
<1>p. /\ Parallel \in Nat \ {0}
      /\ Active \subseteq Kids /\ 1..N \subseteq Kids /\ Kids \ 1..N = {0}
      /\ \A k \in 0..(Parallel - 1) : Kid(k) \in Active
      /\ \A c \in Active : \E k \in 0..(Parallel - 1) : c = Kid(k)
      /\ \A k, l \in 0..(Parallel - 1) : Kid(k) = Kid(l) => k = l
  BY <1>a, RoundFacts
<1>s. round' = round => Parallel' = Parallel /\ Active' = Active /\ \A k : Kid(k)' = Kid(k)
  BY DEF Parallel, Active, Kid
<1> USE <1>a, <1>p, <1>s
<1>1. CASE CreatePipes
    BY <1>1 DEF TypeOK, ParentType, ChildType, Census, Waited, CreatePipes
<1>2. CASE PipesFail
    BY <1>2 DEF TypeOK, ParentType, ChildType, Census, Waited, PipesFail, Return
<1>3. CASE AllocPids
    BY <1>3 DEF TypeOK, ParentType, ChildType, Census, Waited, AllocPids, Return
<1>4. CASE ForkCheck
    BY <1>4 DEF TypeOK, ParentType, ChildType, Census, Waited, ForkCheck
<1>5. CASE Fork
  <2>1. /\ UNCHANGED round /\ pc' = "forkCheck" /\ i' = i + 1 /\ i \in 0..(Parallel - 1)
        /\ \A c \in Kids : kpc'[c] = IF c = Kid(i) THEN "setup" ELSE kpc[c]
    BY <1>5 DEF TypeOK, ParentType, ChildType, Census, Fork
  <2>2. \A c \in Kids \ Active : Waited(c)'
    BY <2>1 DEF Census, Waited
  <2>3. \A k \in 0..(Parallel - 1) : k >= i + 1 => kpc'[Kid(k)] = "unborn"
    <3> TAKE k \in 0..(Parallel - 1)
    <3> HAVE k >= i + 1
    <3>1. kpc[Kid(k)] = "unborn"
      BY <1>5, <2>1 DEF Census, Fork
    <3>2. Kid(k) # Kid(i) /\ Kid(k) \in Kids
      BY <2>1
    <3>3. QED
      BY <2>1, <3>1, <3>2
  <2>4. round = "base" => \A c \in 1..N : kpc'[c] = "unborn"
    BY <2>1 DEF Census, Kid
  <2>5. QED
    BY <2>1, <2>2, <2>3, <2>4 DEF Census
<1>6. CASE ForkFails
    BY <1>6 DEF TypeOK, ParentType, ChildType, Census, Waited, ForkFails
<1>7. CASE ErrKill
    BY <1>7 DEF TypeOK, ParentType, ChildType, Census, Waited, ErrKill, Return, Kill, Alive
<1>8. CASE ErrWait
    BY <1>8 DEF TypeOK, ParentType, ChildType, Census, Waited, ErrWait, Reap
<1>9. CASE ParentEntry
    BY <1>9 DEF TypeOK, ParentType, ChildType, Census, Waited, ParentEntry
<1>10. CASE CollectReady
  <2>1. /\ UNCHANGED <<round, kpc>> /\ (pc' = "pErr" => i' = 0)
        /\ pc' \in {"pErr", "ready", "start", "done", "report", "results", "exit"}
    BY <1>10 DEF CollectReady, Collect
  <2>2. QED
    BY <2>1 DEF Census, Waited
<1>11. CASE WriteStart
    BY <1>11 DEF TypeOK, ParentType, ChildType, Census, Waited, WriteStart, Die
<1>12. CASE CollectDone
  <2>1. /\ UNCHANGED <<round, kpc>> /\ (pc' = "pErr" => i' = 0)
        /\ pc' \in {"pErr", "ready", "start", "done", "report", "results", "exit"}
    BY <1>12 DEF CollectDone, Collect
  <2>2. QED
    BY <2>1 DEF Census, Waited
<1>13. CASE WriteResultSignal
    BY <1>13 DEF TypeOK, ParentType, ChildType, Census, Waited, WriteResultSignal, Die
<1>14. CASE ReadResults
  <2>1. /\ UNCHANGED <<round, kpc>> /\ (pc' = "pErr" => i' = 0)
        /\ pc' \in {"pErr", "ready", "start", "done", "report", "results", "exit"}
    BY <1>14 DEF ReadResults, Merged
  <2>2. QED
    BY <2>1 DEF Census, Waited
<1>15. CASE WriteExit
    BY <1>15 DEF TypeOK, ParentType, ChildType, Census, Waited, WriteExit, Die
<1>16. CASE ParentErrKill
    BY <1>16 DEF TypeOK, ParentType, ChildType, Census, Waited, ParentErrKill, Kill, Alive
<1>17. CASE ParentErrWait
    BY <1>17 DEF TypeOK, ParentType, ChildType, Census, Waited, ParentErrWait, Reap
<1>18. CASE WaitChild
  <2>1. CASE i > 0
    <3>1. /\ UNCHANGED round /\ pc' = "wait" /\ i' = i - 1 /\ i - 1 \in 0..(Parallel - 1)
          /\ \A c \in Kids : kpc'[c] = IF c = Kid(i - 1) THEN "reaped" ELSE kpc[c]
      BY <1>18, <2>1 DEF TypeOK, ParentType, ChildType, WaitChild, Reap, Return
    <3>2. kpc[Kid(i - 1)] \in {"zombie", "reaped"}
      BY <1>18, <2>1 DEF WaitChild, Reap, Return
    <3>3. QED
      BY <1>18, <3>1, <3>2 DEF Census, Waited, WaitChild, TypeOK, ParentType
  <2>2. CASE ~(i > 0)
    <3>1. /\ UNCHANGED <<round, kpc, i>> /\ i = 0 /\ pc' \in {"baseDone", "returned"} /\ pc = "wait"
          /\ (pc' = "baseDone" => round = "base")
      BY <1>18, <2>2 DEF WaitChild, Reap, Return, TypeOK, ParentType
    <3>2. \A c \in Kids : Waited(c)
      BY <3>1 DEF Census
    <3>3. QED
      BY <3>1, <3>2 DEF Census, Waited
  <2>3. QED
    BY <2>1, <2>2
<1>19. CASE BaseDone
  <2>1. CASE timed
    <3>1. round' = "par" /\ pc' = "pipes" /\ UNCHANGED kpc
      BY <1>19, <2>1 DEF BaseDone
    <3>2. \A c \in 1..N : kpc[c] = "unborn"
      BY <1>19 DEF BaseDone, Census
    <3>3. Waited(0)
      BY <1>19 DEF BaseDone, Census
    <3>4. Active' = 1..N
      BY <3>1 DEF Active
    <3>5. QED
      BY <3>1, <3>2, <3>3, <3>4 DEF Census, Waited
  <2>2. CASE ~timed
    BY <1>19, <2>2 DEF Census, BaseDone, Waited
  <2>3. QED
    BY <2>1, <2>2
<1>20. CASE Alarm
    BY <1>20 DEF TypeOK, ParentType, ChildType, Census, Waited, Alarm, Kill, Alive
<1>21. CASE Sigterm
    BY <1>21 DEF TypeOK, ParentType, ChildType, Census, Waited, Sigterm, Die
<1>22. CASE ParentKilled
    BY <1>22 DEF TypeOK, ParentType, ChildType, Census, Waited, ParentKilled, Die
<1>23. QED
  BY <1>1, <1>2, <1>3, <1>4, <1>5, <1>6, <1>7, <1>8, <1>9, <1>10, <1>11, <1>12, <1>13, <1>14,
     <1>15, <1>16, <1>17, <1>18, <1>19, <1>20, <1>21, <1>22 DEF ParentStep

\* A child that was waited for stays so.
LEMMA CensusChild ==
    ASSUME Inv, NEW c \in Kids, ChildStep(c) \/ HandleTerm(c) \/ Crash(c)
    PROVE  Census'
<1>1. TypeOK /\ Census
  BY DEF Inv
<1>2. PICK x \in ChildPCs \ {"unborn", "reaped"} : kpc' = [kpc EXCEPT ![c] = x]
  BY ChildMove
<1>3. Alive(c) /\ UNCHANGED <<round, pc, i>>
  BY ChildMove DEF parentVars
<1>4. \A d \in Kids : /\ Waited(d) => Waited(d)'
                      /\ kpc[d] = "unborn" => kpc'[d] = "unborn"
  BY <1>1, <1>2, <1>3 DEF TypeOK, ChildType, Waited, Alive
<1>5. /\ \A k \in 0..(Parallel - 1) : Kid(k) \in Kids
      /\ Active \subseteq Kids /\ 1..N \subseteq Kids
      /\ Active' = Active /\ Parallel' = Parallel /\ \A k : Kid(k)' = Kid(k)
  BY <1>1, <1>3, NAssumption DEF TypeOK, ParentType, Parallel, Kid, Active, Kids
<1>6. ~Waited(c)
  BY <1>3 DEF Alive, Waited
<1>7. QED
  BY <1>1, <1>3, <1>4, <1>5 DEF Census

-----------------------------------------------------------------------------
(* What a child has done: Progress.                                        *)

\* The parent never touches a child's counters.
LEMMA ProgressParent ==
    ASSUME Inv, ParentStep \/ Alarm \/ Sigterm \/ ParentKilled
    PROVE  Progress'
<1>1. Progress
  BY DEF Inv
<1>2. QED
  BY <1>1, ParentMove DEF Progress

\* A child counts its own intervals, and stops when it has done its repetitions.
LEMMA ProgressChild ==
    ASSUME Inv, NEW c \in Kids, ChildStep(c) \/ HandleTerm(c) \/ Crash(c)
    PROVE  Progress'
<1>a. TypeOK /\ Progress
  BY DEF Inv
<1>b. Parallel = 1 => N = 1 \/ round = "base"
  BY DEF Parallel
<1>d. round = "base" /\ Alive(c) => c = 0
  BY NAssumption DEF Inv, Census, Alive, Kids
<1> USE <1>a, RAssumption
<1>1. CASE ChildSetup(c)
  BY <1>1 DEF TypeOK, ChildType, FlagType, Progress, ChildSetup, Goto
<1>2. CASE ChildMallocFails(c)
  BY <1>2 DEF TypeOK, ChildType, FlagType, Progress, ChildMallocFails, ExitFrom
<1>3. CASE ChildInstall(c)
  BY <1>3 DEF TypeOK, ChildType, FlagType, Progress, ChildInstall, Goto
<1>4. CASE ChildCheck(c)
  BY <1>4 DEF TypeOK, ChildType, FlagType, Progress, ChildCheck, ChildSigterm, ExitFrom, Goto
<1>5. CASE Run(c)
  BY <1>5 DEF TypeOK, ChildType, FlagType, Progress, Run, Goto
<1>6. CASE OrphanExit(c)
  BY <1>6 DEF TypeOK, ChildType, FlagType, Progress, OrphanExit, GivesUp, Orphan, ExitFrom
<1>7. CASE PollStart(c)
  BY <1>7 DEF TypeOK, ChildType, FlagType, Progress, PollStart, InInterval, Readable, Hup,
     Goto, Respond, ExitFrom
<1>8. CASE ReadStart(c)
  BY <1>8 DEF TypeOK, ChildType, FlagType, Progress, ReadStart, Readable, Hup, Drop, Respond,
     ExitFrom, Goto
<1>9. CASE Accept(c)
  <2>1. /\ reps'[c] = reps[c] + 1 /\ kept'[c] \in {kept[c], kept[c] + 1}
        /\ st[c] = "timing" /\ kpc'[c] \notin {"unborn", "readStart"}
        /\ st'[c] = IF reps[c] + 1 >= R THEN "cooldown" ELSE "timing"
    BY <1>9 DEF TypeOK, ChildType, Accept, InInterval, LastInterval, Stop, Respond, Goto,
       ExitFrom, Hup
  <2>2. /\ UNCHANGED need
        /\ \A d \in Kids \ {c} : /\ reps'[d] = reps[d] /\ kept'[d] = kept[d]
                                /\ st'[d] = st[d] /\ kpc'[d] = kpc[d]
    BY <1>9 DEF TypeOK, ChildType, Accept, InInterval, LastInterval, Stop, Respond, Goto,
       ExitFrom, Hup
  <2>3. \A d \in Kids : reps[d] \in Nat /\ kept[d] \in Nat
    BY DEF TypeOK, ChildType
  <2>4. QED
    BY <2>1, <2>2, <2>3 DEF Progress
<1>10. CASE Reject(c)
  <2>1. N = 1 \/ c = 0
    BY <1>10, <1>b, <1>d DEF Alive, Reject, InInterval, Stop, Respond, Goto, ExitFrom, Hup
  <2>2. QED
    BY <1>10, <2>1 DEF TypeOK, ChildType, FlagType, Progress, Reject, InInterval, Stop,
       Respond, Goto, ExitFrom, Hup
<1>11. CASE PollResult(c)
  BY <1>11 DEF TypeOK, ChildType, FlagType, Progress, PollResult, InInterval, Goto, Readable,
     Hup
<1>12. CASE ReadResult(c)
  BY <1>12 DEF TypeOK, ChildType, FlagType, Progress, ReadResult, Readable, Hup, Drop,
     Respond, ExitFrom
<1>13. CASE ChildCleanup(c)
  BY <1>13 DEF TypeOK, ChildType, FlagType, Progress, ChildCleanup, Goto
<1>14. CASE ReadExit(c)
  BY <1>14 DEF TypeOK, ChildType, FlagType, Progress, ReadExit, Readable, Hup, Drop, ExitFrom
<1>15. CASE HandleTerm(c)
  BY <1>15 DEF TypeOK, ChildType, FlagType, Progress, HandleTerm, Alive, ChildSigterm, ExitFrom
<1>16. CASE Crash(c)
  BY <1>16 DEF TypeOK, ChildType, FlagType, Progress, Crash, ExitFrom
<1>17. QED
  BY <1>1, <1>2, <1>3, <1>4, <1>5, <1>6, <1>7, <1>8, <1>9, <1>10, <1>11, <1>12, <1>13, <1>14,
     <1>15, <1>16 DEF ChildStep

-----------------------------------------------------------------------------
(* The two barriers.                                                       *)

\* The parent opens a barrier only in the phase that allows it.
LEMMA BarriersParent ==
    ASSUME Inv, ParentStep \/ Alarm \/ Sigterm \/ ParentKilled
    PROVE  Barriers'
<1>a. TypeOK /\ Census /\ Progress /\ Barriers /\ PhaseInv /\ TimedInv
  BY DEF Inv
<1>p. /\ Active \subseteq Kids /\ Parallel \in Nat \ {0}
      /\ \A k \in 0..(Parallel - 1) : Kid(k) \in Active
  BY <1>a, RoundFacts
<1>s. round' = round => Parallel' = Parallel /\ Active' = Active
  BY DEF Parallel, Active
<1> USE <1>a, <1>p, <1>s
<1>1. CASE CreatePipes
  BY <1>1 DEF TypeOK, PipeType, ChildType, Barriers, TimedInv, Census, Progress, Reporting,
     CreatePipes
<1>2. CASE PipesFail
  BY <1>2 DEF TypeOK, PipeType, ChildType, Barriers, Reporting, PipesFail, Return
<1>3. CASE AllocPids
  BY <1>3 DEF TypeOK, PipeType, ChildType, Barriers, Reporting, AllocPids, Return
<1>4. CASE ForkCheck
  BY <1>4 DEF TypeOK, PipeType, ChildType, Barriers, Reporting, ForkCheck
<1>5. CASE Fork
  BY <1>5 DEF TypeOK, PipeType, ChildType, Barriers, Reporting, Fork
<1>6. CASE ForkFails
  BY <1>6 DEF TypeOK, PipeType, ChildType, Barriers, Reporting, ForkFails
<1>7. CASE ErrKill
  BY <1>7 DEF TypeOK, PipeType, ChildType, Barriers, Reporting, ErrKill, Return, Kill, Alive
<1>8. CASE ErrWait
  BY <1>8 DEF TypeOK, PipeType, ChildType, Barriers, Reporting, ErrWait, Reap
<1>9. CASE ParentEntry
  BY <1>9 DEF TypeOK, PipeType, ChildType, Barriers, Reporting, ParentEntry
<1>10. CASE CollectReady
  BY <1>10 DEF TypeOK, PipeType, ChildType, Barriers, Reporting, CollectReady, Collect
<1>11. CASE WriteStart
  BY <1>11 DEF TypeOK, PipeType, ChildType, Barriers, PhaseInv, Reporting, WriteStart, Die
<1>12. CASE CollectDone
  BY <1>12 DEF TypeOK, PipeType, ChildType, Barriers, Reporting, CollectDone, Collect
<1>13. CASE WriteResultSignal
  BY <1>13 DEF TypeOK, PipeType, ChildType, Barriers, PhaseInv, Reporting, WriteResultSignal,
     Die
<1>14. CASE ReadResults
  BY <1>14 DEF TypeOK, PipeType, ChildType, Barriers, Reporting, ReadResults, Merged
<1>15. CASE WriteExit
  BY <1>15 DEF TypeOK, PipeType, ChildType, Barriers, Reporting, WriteExit, Die
<1>16. CASE ParentErrKill
  BY <1>16 DEF TypeOK, PipeType, ChildType, Barriers, Reporting, ParentErrKill, Kill, Alive
<1>17. CASE ParentErrWait
  BY <1>17 DEF TypeOK, PipeType, ChildType, Barriers, Reporting, ParentErrWait, Reap
<1>18. CASE WaitChild
  BY <1>18 DEF TypeOK, PipeType, ChildType, Barriers, Reporting, WaitChild, Reap, Return
<1>19. CASE BaseDone
  BY <1>19 DEF TypeOK, PipeType, ChildType, Barriers, TimedInv, Reporting, BaseDone
<1>20. CASE Alarm
  BY <1>20 DEF TypeOK, PipeType, ChildType, Barriers, Reporting, Alarm, Kill, Alive
<1>21. CASE Sigterm
  BY <1>21 DEF TypeOK, PipeType, ChildType, Barriers, Reporting, Sigterm, Die
<1>22. CASE ParentKilled
  BY <1>22 DEF TypeOK, PipeType, ChildType, Barriers, Reporting, ParentKilled, Die
<1>23. QED
  BY <1>1, <1>2, <1>3, <1>4, <1>5, <1>6, <1>7, <1>8, <1>9, <1>10, <1>11, <1>12, <1>13, <1>14,
     <1>15, <1>16, <1>17, <1>18, <1>19, <1>20, <1>21, <1>22 DEF ParentStep

\* A child passes a barrier only when it is open, and never closes it behind it.
LEMMA BarriersChild ==
    ASSUME Inv, NEW c \in Kids, ChildStep(c) \/ HandleTerm(c) \/ Crash(c)
    PROVE  Barriers'
<1>a. TypeOK /\ Progress /\ Barriers
  BY DEF Inv
<1>q. Active \subseteq Kids /\ Parallel \in Nat \ {0}
  BY <1>a, RoundFacts
<1>1. CASE ChildSetup(c)
  BY <1>1, <1>a, <1>q DEF TypeOK, PipeType, ChildType, FlagType, Barriers, Active, Reporting,
     ChildSetup, Goto
<1>2. CASE ChildMallocFails(c)
  BY <1>2, <1>a, <1>q DEF TypeOK, PipeType, ChildType, FlagType, Barriers, Active, Reporting,
     ChildMallocFails, ExitFrom
<1>3. CASE ChildInstall(c)
  BY <1>3, <1>a, <1>q DEF TypeOK, PipeType, ChildType, FlagType, Barriers, Active, Reporting,
     ChildInstall, Goto
<1>4. CASE ChildCheck(c)
  BY <1>4, <1>a, <1>q DEF TypeOK, PipeType, ChildType, FlagType, Barriers, Active, Reporting,
     ChildCheck, ChildSigterm, ExitFrom, Goto
<1>5. CASE Run(c)
  BY <1>5, <1>a, <1>q DEF TypeOK, PipeType, ChildType, FlagType, Barriers, Active, Reporting,
     Run, Goto
<1>6. CASE OrphanExit(c)
  BY <1>6, <1>a, <1>q DEF TypeOK, PipeType, ChildType, FlagType, Barriers, Active, Reporting,
     OrphanExit, GivesUp, Orphan, ExitFrom
<1>7. CASE PollStart(c)
  <2>1. UNCHANGED <<round, open, startB, resultB, st>>
    BY <1>7, <1>a DEF TypeOK, ChildType, FlagType, PollStart, InInterval, Readable, Hup, Goto,
       Respond, ExitFrom
  <2>2. \A d \in Kids : ~need[d] => ~need'[d]
    BY <1>7, <1>a DEF TypeOK, ChildType, FlagType, PollStart, InInterval, Readable, Hup, Goto,
       Respond, ExitFrom
  <2>3. \A d \in Kids : kpc'[d] = kpc[d] \/ kpc'[d] \in {"run", "zombie"}
                         \/ (kpc'[d] = "readStart" /\ (startB > 0 \/ ~open))
    BY <1>7, <1>a DEF TypeOK, ChildType, FlagType, PollStart, InInterval, Readable, Hup, Goto,
       Respond, ExitFrom
  <2>4. QED
    BY <1>a, <1>q, <2>1, <2>2, <2>3 DEF Barriers, Active, Reporting
<1>8. CASE ReadStart(c)
  BY <1>8, <1>a, <1>q DEF TypeOK, PipeType, ChildType, FlagType, Progress, Barriers, Active,
     Reporting, ReadStart, Readable, Hup, Drop, Respond, ExitFrom, Goto
<1>9. CASE Accept(c)
  BY <1>9, <1>a, <1>q DEF TypeOK, PipeType, ChildType, FlagType, Barriers, Active, Reporting,
     Accept, InInterval, LastInterval, Stop, Respond, Goto, ExitFrom, Hup
<1>10. CASE Reject(c)
  <2>1. UNCHANGED <<round, open, startB, resultB, need>> /\ st[c] = "timing"
    BY <1>10, <1>a DEF TypeOK, ChildType, FlagType, Reject, InInterval, Stop, Respond, Goto,
       ExitFrom, Hup
  <2>2. \A d \in Kids : /\ kpc'[d] = kpc[d] \/ kpc'[d] \in {"run", "zombie"}
                        /\ st'[d] = st[d] \/ (d = c /\ st'[d] = "cooldown")
    BY <1>10, <1>a DEF TypeOK, ChildType, FlagType, Reject, InInterval, Stop, Respond, Goto,
       ExitFrom, Hup
  <2>3. QED
    BY <1>a, <1>q, <2>1, <2>2 DEF Barriers, Active, Reporting
<1>11. CASE PollResult(c)
  BY <1>11, <1>a, <1>q DEF TypeOK, PipeType, ChildType, FlagType, Barriers, Active, Reporting,
     PollResult, InInterval, Goto, Readable, Hup
<1>12. CASE ReadResult(c)
  BY <1>12, <1>a, <1>q DEF TypeOK, PipeType, ChildType, FlagType, Barriers, Active, Reporting,
     ReadResult, Readable, Hup, Drop, Respond, ExitFrom
<1>13. CASE ChildCleanup(c)
  BY <1>13, <1>a, <1>q DEF TypeOK, PipeType, ChildType, FlagType, Barriers, Active, Reporting,
     ChildCleanup, Goto
<1>14. CASE ReadExit(c)
  BY <1>14, <1>a, <1>q DEF TypeOK, PipeType, ChildType, FlagType, Barriers, Active, Reporting,
     ReadExit, Readable, Hup, Drop, ExitFrom
<1>15. CASE HandleTerm(c)
  BY <1>15, <1>a, <1>q DEF TypeOK, PipeType, ChildType, FlagType, Barriers, Active, Reporting,
     HandleTerm, Alive, ChildSigterm, ExitFrom
<1>16. CASE Crash(c)
  BY <1>16, <1>a, <1>q DEF TypeOK, PipeType, ChildType, FlagType, Barriers, Active, Reporting,
     Crash, ExitFrom
<1>17. QED
  BY <1>1, <1>2, <1>3, <1>4, <1>5, <1>6, <1>7, <1>8, <1>9, <1>10, <1>11, <1>12, <1>13, <1>14,
     <1>15, <1>16 DEF ChildStep

-----------------------------------------------------------------------------
(* The parent's phases and the messages on their way.                      *)

\* The parent moves to its next phase when it has heard from every child.
LEMMA PhaseParent ==
    ASSUME Inv, ParentStep \/ Alarm \/ Sigterm \/ ParentKilled
    PROVE  PhaseInv'
<1>a. TypeOK /\ PhaseInv
  BY DEF Inv
<1>p. Active \subseteq Kids
  BY <1>a, RoundFacts
<1>s. round' = round => Active' = Active
  BY DEF Active
<1>t. Census /\ Progress /\ TimedInv
  BY DEF Inv
<1> USE <1>a, <1>p, <1>s
<1>1. CASE CreatePipes
  BY <1>1, <1>t DEF TypeOK, PipeType, ChildType, Census, Progress, PhaseInv, Awaiting,
     Evidence, CreatePipes
<1>2. CASE PipesFail
  BY <1>2 DEF TypeOK, PipeType, ChildType, PhaseInv, Awaiting, Evidence, PipesFail, Return
<1>3. CASE AllocPids
  BY <1>3 DEF TypeOK, PipeType, ChildType, PhaseInv, Awaiting, Evidence, AllocPids, Return
<1>4. CASE ForkCheck
  BY <1>4 DEF TypeOK, PipeType, ChildType, PhaseInv, Awaiting, Evidence, ForkCheck
<1>5. CASE Fork
  BY <1>5 DEF TypeOK, PipeType, ChildType, PhaseInv, Awaiting, Evidence, Fork
<1>6. CASE ForkFails
  BY <1>6 DEF TypeOK, PipeType, ChildType, PhaseInv, Awaiting, Evidence, ForkFails
<1>7. CASE ErrKill
  BY <1>7 DEF TypeOK, PipeType, ChildType, PhaseInv, Awaiting, Evidence, ErrKill, Return,
     Kill, Alive
<1>8. CASE ErrWait
  BY <1>8 DEF TypeOK, PipeType, ChildType, PhaseInv, Awaiting, Evidence, ErrWait, Reap
<1>9. CASE ParentEntry
  BY <1>9 DEF TypeOK, PipeType, ChildType, PhaseInv, Awaiting, Evidence, ParentEntry
<1>10. CASE CollectReady
  <2>1. pc = "ready" /\ UNCHANGED <<round, merged, open, startB, resultB, kpc, need, st>>
    BY <1>10 DEF CollectReady, Collect
  <2>2. open /\ got \cap resp = {} /\ Awaiting("ready")
    BY <2>1 DEF PhaseInv
  <2>3. CASE Interrupted
    BY <1>10, <2>1, <2>2, <2>3 DEF CollectReady, Collect, PhaseInv, Evidence
  <2>4. CASE ~Interrupted
    <3>1. PICK m \in resp :
             /\ resp' = resp \ {m}
             /\ IF AllIn(got \cup {m})
                THEN pc' = "start" /\ got' = {}
                ELSE got' = got \cup {m} /\ UNCHANGED pc
      BY <1>10, <2>4 DEF CollectReady, Collect
    <3>2. \A x \in got \cup resp : x \in Messages /\ x.kind = "ready" /\ x.from \in Active
                                   /\ ~need[x.from]
      BY <2>2 DEF Awaiting, Evidence, TypeOK, ParentType, PipeType
    <3>3. CASE AllIn(got \cup {m})
      <4>1. got \cup {m} = {Msg("ready", c) : c \in Active}
        BY <3>2, <3>3, AllAnswered DEF AllIn
      <4>2. \A x \in resp : x = Msg("ready", x.from)
        BY <3>2 DEF Messages, Msg
      <4>3. resp' = {}
        BY <2>2, <3>1, <3>2, <4>1, <4>2
      <4>4. \A c \in Active : ~need[c]
        <5>1. \A c \in Active : Msg("ready", c) \in got \cup {m} /\ Msg("ready", c).from = c
          BY <4>1 DEF Msg
        <5>2. QED
          BY <3>1, <3>2, <5>1
      <4>5. QED
        BY <2>1, <2>2, <3>1, <3>3, <4>3, <4>4 DEF PhaseInv, Awaiting
    <3>4. CASE ~AllIn(got \cup {m})
      BY <2>1, <2>2, <3>1, <3>2, <3>4 DEF PhaseInv, Awaiting, Evidence
    <3>5. QED
      BY <3>3, <3>4
  <2>5. QED
    BY <2>3, <2>4
<1>11. CASE WriteStart
  BY <1>11 DEF TypeOK, PipeType, ChildType, PhaseInv, Awaiting, Evidence, WriteStart, Die
<1>12. CASE CollectDone
  <2>1. pc = "done" /\ UNCHANGED <<round, merged, open, startB, resultB, kpc, need, st>>
    BY <1>12 DEF CollectDone, Collect
  <2>2. open /\ got \cap resp = {} /\ Awaiting("done")
    BY <2>1 DEF PhaseInv
  <2>3. CASE Interrupted
    BY <1>12, <2>1, <2>2, <2>3 DEF CollectDone, Collect, PhaseInv, Evidence
  <2>4. CASE ~Interrupted
    <3>1. PICK m \in resp :
             /\ resp' = resp \ {m}
             /\ IF AllIn(got \cup {m})
                THEN pc' = "report" /\ got' = {}
                ELSE got' = got \cup {m} /\ UNCHANGED pc
      BY <1>12, <2>4 DEF CollectDone, Collect
    <3>2. \A x \in got \cup resp : x \in Messages /\ x.kind = "done" /\ x.from \in Active
                                   /\ st[x.from] = "cooldown"
      BY <2>2 DEF Awaiting, Evidence, TypeOK, ParentType, PipeType
    <3>3. CASE AllIn(got \cup {m})
      <4>1. got \cup {m} = {Msg("done", c) : c \in Active}
        BY <3>2, <3>3, AllAnswered DEF AllIn
      <4>2. \A x \in resp : x = Msg("done", x.from)
        BY <3>2 DEF Messages, Msg
      <4>3. resp' = {}
        BY <2>2, <3>1, <3>2, <4>1, <4>2
      <4>4. \A c \in Active : st[c] = "cooldown"
        <5>1. \A c \in Active : Msg("done", c) \in got \cup {m} /\ Msg("done", c).from = c
          BY <4>1 DEF Msg
        <5>2. QED
          BY <3>1, <3>2, <5>1
      <4>5. QED
        BY <2>1, <2>2, <3>1, <3>3, <4>3, <4>4 DEF PhaseInv, Awaiting
    <3>4. CASE ~AllIn(got \cup {m})
      BY <2>1, <2>2, <3>1, <3>2, <3>4 DEF PhaseInv, Awaiting, Evidence
    <3>5. QED
      BY <3>3, <3>4
  <2>5. QED
    BY <2>3, <2>4
<1>13. CASE WriteResultSignal
  <2>1. pc = "report" /\ UNCHANGED <<round, got, merged, resp, startB, kpc, need, st>>
    BY <1>13 DEF WriteResultSignal
  <2>2. CASE NoReaders
    BY <1>13, <2>1, <2>2 DEF WriteResultSignal, Die, PhaseInv
  <2>3. CASE ~NoReaders
    <3>1. pc' = "results" /\ resultB' = 1 /\ UNCHANGED open /\ resp = {} /\ open
      BY <1>13, <2>1, <2>3 DEF WriteResultSignal, PhaseInv
    <3>2. Awaiting("results")' /\ (merged = {m.from : m \in got})'
      BY <2>1, <3>1 DEF PhaseInv, Awaiting, Evidence
    <3>3. QED
      BY <2>1, <3>1, <3>2 DEF PhaseInv
  <2>4. QED
    BY <2>2, <2>3
<1>14. CASE ReadResults
  <2>1. pc = "results" /\ UNCHANGED <<round, open, startB, resultB, kpc, need, st>>
    BY <1>14 DEF ReadResults, Merged
  <2>2. /\ open /\ got \cap resp = {} /\ Awaiting("results") /\ merged = {m.from : m \in got}
        /\ \A m1, m2 \in resp : m1 = m2
        /\ resultB = 0 \/ resp = {}
    BY <2>1 DEF PhaseInv
  <2>3. CASE Interrupted
    BY <1>14, <2>1, <2>2, <2>3 DEF ReadResults, Merged, PhaseInv, Evidence
  <2>4. CASE ~Interrupted
    <3>1. PICK m \in resp :
             /\ resp' = resp \ {m}
             /\ merged' = merged \cup {m.from}
             /\ got' = got \cup {m}
             /\ pc' = IF AllIn(got \cup {m}) THEN "exit" ELSE "report"
      BY <1>14, <2>4 DEF ReadResults, Merged
    <3>2. \A x \in got \cup resp : x \in Messages /\ x.kind = "results" /\ x.from \in Active
                                   /\ Evidence(x)
      BY <2>2 DEF Awaiting, Evidence, TypeOK, ParentType, PipeType
    <3>3. resp' = {} /\ resultB' = 0 /\ merged' = {x.from : x \in got'}
      BY <2>1, <2>2, <3>1
    <3>4. pc' = "exit" => merged' = Active
      <4>1. SUFFICES ASSUME pc' = "exit" PROVE merged' = Active
        OBVIOUS
      <4>2. Cardinality(got \cup {m}) = Parallel
        BY <3>1, <4>1 DEF AllIn
      <4>3. got \cup {m} = {Msg("results", c) : c \in Active}
        BY <3>2, <4>2, AllAnswered
      <4>4. \A c \in Active : Msg("results", c).from = c
        BY DEF Msg
      <4>5. QED
        BY <3>1, <3>3, <4>3, <4>4
    <3>5. Awaiting("results")'
      BY <2>1, <3>1, <3>2, <3>3 DEF Awaiting, Evidence
    <3>6. QED
      BY <2>1, <2>2, <3>1, <3>3, <3>4, <3>5 DEF PhaseInv
  <2>5. QED
    BY <2>3, <2>4
<1>15. CASE WriteExit
  BY <1>15 DEF TypeOK, PipeType, ChildType, PhaseInv, Awaiting, Evidence, WriteExit, Die
<1>16. CASE ParentErrKill
  BY <1>16 DEF TypeOK, PipeType, ChildType, PhaseInv, Awaiting, Evidence, ParentErrKill, Kill,
     Alive
<1>17. CASE ParentErrWait
  BY <1>17 DEF TypeOK, PipeType, ChildType, PhaseInv, Awaiting, Evidence, ParentErrWait, Reap
<1>18. CASE WaitChild
  BY <1>18 DEF TypeOK, PipeType, ChildType, PhaseInv, Awaiting, Evidence, WaitChild, Reap,
     Return
<1>19. CASE BaseDone
  BY <1>19, <1>t DEF TypeOK, PipeType, ChildType, TimedInv, PhaseInv, Awaiting, Evidence,
     BaseDone
<1>20. CASE Alarm
  BY <1>20 DEF TypeOK, PipeType, ChildType, PhaseInv, Awaiting, Evidence, Alarm, Kill, Alive
<1>21. CASE Sigterm
  BY <1>21 DEF TypeOK, PipeType, ChildType, PhaseInv, Awaiting, Evidence, Sigterm, Die
<1>22. CASE ParentKilled
  BY <1>22 DEF TypeOK, PipeType, ChildType, PhaseInv, Awaiting, Evidence, ParentKilled, Die
<1>23. QED
  BY <1>1, <1>2, <1>3, <1>4, <1>5, <1>6, <1>7, <1>8, <1>9, <1>10, <1>11, <1>12, <1>13, <1>14,
     <1>15, <1>16, <1>17, <1>18, <1>19, <1>20, <1>21, <1>22 DEF ParentStep

\* A child sends each message once, in the phase in which it is awaited.
LEMMA PhaseChild ==
    ASSUME Inv, NEW c \in Kids, ChildStep(c) \/ HandleTerm(c) \/ Crash(c)
    PROVE  PhaseInv'
<1>a. TypeOK /\ Progress /\ PhaseInv
  BY DEF Inv
<1>p. Active \subseteq Kids /\ (Alive(c) => c \in Active)
  BY <1>a, RoundFacts DEF Inv, Census, Waited, Alive
<1>s. round' = round => Active' = Active
  BY DEF Active
<1> USE <1>a, <1>p, <1>s
<1>1. CASE ChildSetup(c)
  BY <1>1 DEF TypeOK, PipeType, ChildType, FlagType, PhaseInv, Awaiting, Evidence, Msg, Alive,
     ChildSetup, Goto
<1>2. CASE ChildMallocFails(c)
  BY <1>2 DEF TypeOK, PipeType, ChildType, FlagType, PhaseInv, Awaiting, Evidence, Msg, Alive,
     ChildMallocFails, ExitFrom
<1>3. CASE ChildInstall(c)
  BY <1>3 DEF TypeOK, PipeType, ChildType, FlagType, PhaseInv, Awaiting, Evidence, Msg, Alive,
     ChildInstall, Goto
<1>4. CASE ChildCheck(c)
  BY <1>4 DEF TypeOK, PipeType, ChildType, FlagType, PhaseInv, Awaiting, Evidence, Msg, Alive,
     ChildCheck, ChildSigterm, ExitFrom, Goto
<1>5. CASE Run(c)
  BY <1>5 DEF TypeOK, PipeType, ChildType, FlagType, PhaseInv, Awaiting, Evidence, Msg, Alive,
     Run, Goto
<1>6. CASE OrphanExit(c)
  BY <1>6 DEF TypeOK, PipeType, ChildType, FlagType, PhaseInv, Awaiting, Evidence, Msg, Alive,
     OrphanExit, GivesUp, Orphan, ExitFrom
<1>7. CASE PollStart(c)
  BY <1>7 DEF TypeOK, PipeType, ChildType, FlagType, PhaseInv, Awaiting, Evidence, Msg, Alive,
     PollStart, InInterval, Readable, Hup, Goto, Respond, ExitFrom
<1>8. CASE ReadStart(c)
  BY <1>8 DEF TypeOK, PipeType, ChildType, FlagType, Progress, PhaseInv, Awaiting, Evidence,
     Msg, Alive, ReadStart, Readable, Hup, Drop, Respond, ExitFrom, Goto
<1>9. CASE Accept(c)
  BY <1>9 DEF TypeOK, PipeType, ChildType, FlagType, PhaseInv, Awaiting, Evidence, Msg, Alive,
     Accept, InInterval, LastInterval, Stop, Respond, Goto, ExitFrom, Hup
<1>10. CASE Reject(c)
  BY <1>10 DEF TypeOK, PipeType, ChildType, FlagType, PhaseInv, Awaiting, Evidence, Msg,
     Alive, Reject, InInterval, Stop, Respond, Goto, ExitFrom, Hup
<1>11. CASE PollResult(c)
  BY <1>11 DEF TypeOK, PipeType, ChildType, FlagType, PhaseInv, Awaiting, Evidence, Msg,
     Alive, PollResult, InInterval, Goto, Readable, Hup
<1>12. CASE ReadResult(c)
  BY <1>12 DEF TypeOK, PipeType, ChildType, FlagType, PhaseInv, Awaiting, Evidence, Msg,
     Alive, ReadResult, Readable, Hup, Drop, Respond, ExitFrom
<1>13. CASE ChildCleanup(c)
  BY <1>13 DEF TypeOK, PipeType, ChildType, FlagType, PhaseInv, Awaiting, Evidence, Msg,
     Alive, ChildCleanup, Goto
<1>14. CASE ReadExit(c)
  BY <1>14 DEF TypeOK, PipeType, ChildType, FlagType, PhaseInv, Awaiting, Evidence, Msg,
     Alive, ReadExit, Readable, Hup, Drop, ExitFrom
<1>15. CASE HandleTerm(c)
  BY <1>15 DEF TypeOK, PipeType, ChildType, FlagType, PhaseInv, Awaiting, Evidence, Msg,
     Alive, HandleTerm, ChildSigterm, ExitFrom
<1>16. CASE Crash(c)
  BY <1>16 DEF TypeOK, PipeType, ChildType, FlagType, PhaseInv, Awaiting, Evidence, Msg,
     Alive, Crash, ExitFrom
<1>17. QED
  BY <1>1, <1>2, <1>3, <1>4, <1>5, <1>6, <1>7, <1>8, <1>9, <1>10, <1>11, <1>12, <1>13, <1>14,
     <1>15, <1>16 DEF ChildStep

-----------------------------------------------------------------------------
(* The result: TimedInv.                                                   *)

\* A time is set once all results are merged, and cleared before the next round.
LEMMA TimedParent ==
    ASSUME Inv, ParentStep \/ Alarm \/ Sigterm \/ ParentKilled
    PROVE  TimedInv'
<1>a. TypeOK /\ Census /\ PhaseInv /\ TimedInv
  BY DEF Inv
<1>s. round' = round => Parallel' = Parallel /\ Active' = Active
  BY DEF Parallel, Active
<1> USE <1>a, <1>s, NAssumption
<1>1. CASE CreatePipes
  BY <1>1 DEF TimedInv, CreatePipes
<1>2. CASE PipesFail
  BY <1>2 DEF TimedInv, Census, PipesFail, Return
<1>3. CASE AllocPids
  BY <1>3 DEF TimedInv, AllocPids, Return
<1>4. CASE ForkCheck
  BY <1>4 DEF TimedInv, ForkCheck
<1>5. CASE Fork
  BY <1>5 DEF TimedInv, Fork
<1>6. CASE ForkFails
  BY <1>6 DEF TimedInv, ForkFails
<1>7. CASE ErrKill
  BY <1>7 DEF TimedInv, ErrKill, Return, Kill, Alive
<1>8. CASE ErrWait
  BY <1>8 DEF TimedInv, ErrWait, Reap
<1>9. CASE ParentEntry
  BY <1>9 DEF TimedInv, ParentEntry
<1>10. CASE CollectReady
  BY <1>10 DEF TimedInv, CollectReady, Collect
<1>11. CASE WriteStart
  BY <1>11 DEF TimedInv, WriteStart, Die
<1>12. CASE CollectDone
  BY <1>12 DEF TimedInv, CollectDone, Collect
<1>13. CASE WriteResultSignal
  BY <1>13 DEF TimedInv, WriteResultSignal, Die
<1>14. CASE ReadResults
  BY <1>14 DEF TimedInv, ReadResults, Merged
<1>15. CASE WriteExit
  BY <1>15 DEF TimedInv, PhaseInv, WriteExit, Die
<1>16. CASE ParentErrKill
  BY <1>16 DEF TimedInv, ParentErrKill, Kill, Alive
<1>17. CASE ParentErrWait
  BY <1>17 DEF TimedInv, ParentErrWait, Reap
<1>18. CASE WaitChild
  BY <1>18 DEF TimedInv, Census, WaitChild, Reap, Return
<1>19. CASE BaseDone
  BY <1>19 DEF TimedInv, Census, BaseDone
<1>20. CASE Alarm
  BY <1>20 DEF TimedInv, Alarm, Kill, Alive
<1>21. CASE Sigterm
  BY <1>21 DEF TimedInv, Sigterm, Die
<1>22. CASE ParentKilled
  BY <1>22 DEF TimedInv, ParentKilled, Die
<1>23. QED
  BY <1>1, <1>2, <1>3, <1>4, <1>5, <1>6, <1>7, <1>8, <1>9, <1>10, <1>11, <1>12, <1>13, <1>14,
     <1>15, <1>16, <1>17, <1>18, <1>19, <1>20, <1>21, <1>22 DEF ParentStep

\* Nothing a child does changes what the parent has read.
LEMMA TimedChild ==
    ASSUME Inv, NEW c \in Kids, ChildStep(c) \/ HandleTerm(c) \/ Crash(c)
    PROVE  TimedInv'
<1>1. TypeOK /\ TimedInv
  BY DEF Inv
<1>2. UNCHANGED <<round, pc, merged, timed, open>> /\ Active' = Active
  BY ChildMove DEF Active
<1>3. Active \subseteq Kids /\ \A d \in Kids : st[d] = "cooldown" => st'[d] = "cooldown"
  BY <1>1, RoundFacts, ChildMove
<1>4. QED
  BY <1>1, <1>2, <1>3 DEF TimedInv

-----------------------------------------------------------------------------
(* The theorems.                                                           *)

\* Every step of the harness, failures included, preserves the invariant.
LEMMA InvStep == Inv /\ [Next]_vars => Inv'
<1> SUFFICES ASSUME Inv, [Next]_vars PROVE Inv'
  OBVIOUS
<1>1. CASE ParentStep \/ Alarm \/ Sigterm \/ ParentKilled
  BY <1>1, TypeParent, CensusParent, ProgressParent, BarriersParent, PhaseParent, TimedParent
     DEF Inv
<1>2. ASSUME NEW c \in Kids, ChildStep(c) \/ HandleTerm(c) \/ Crash(c) PROVE Inv'
  BY <1>2, TypeChild, CensusChild, ProgressChild, BarriersChild, PhaseChild, TimedChild
     DEF Inv
<1>3. CASE UNCHANGED vars
  <2>1. TypeOK'
    BY <1>3 DEF Inv, vars, TypeOK, ParentType, Parallel, PipeType, ChildType, FlagType
  <2>2. Census' /\ Progress'
    BY <1>3 DEF Inv, vars, Census, Progress, Waited, Parallel, Kid, Active
  <2>3. Barriers' /\ PhaseInv' /\ TimedInv'
    BY <1>3 DEF Inv, vars, Barriers, PhaseInv, TimedInv, Active, Reporting, Awaiting, Evidence
  <2>4. QED
    BY <2>1, <2>2, <2>3 DEF Inv
<1>4. QED
  BY <1>1, <1>2, <1>3 DEF Next, Environment, Finished

\* The invariant of module Benchmp holds in every reachable state.
THEOREM Invariance == Spec => []Inv
<1>1. Init => Inv
  BY InitInv
<1>2. Inv /\ [Next]_vars => Inv'
  BY InvStep
<1>3. QED
  BY <1>1, <1>2, PTL DEF Spec

\* The parent's loops over pids[] stay within 0..parallel, and every variable in its type.
THEOREM TypeCorrect == Spec => []TypeOK
<1>1. Inv => TypeOK
  BY DEF Inv
<1>2. QED
  BY <1>1, Invariance, PTL

\* No child measures before every child of its round has sent `ready', and none
\* while another reports: the timing intervals see the whole load.
THEOREM FullLoad == Spec => []MeasuredUnderLoad
<1>1. Inv => MeasuredUnderLoad
  <2>1. SUFFICES ASSUME Inv, open, NEW c \in Active, Measuring(c), NEW d \in Active
                 PROVE  ~need[d] /\ ~Reporting(d) /\ kpc[d] # "unborn"
    BY DEF MeasuredUnderLoad
  <2>2. Active \subseteq Kids
    BY <2>1, RoundFacts DEF Inv
  <2>3. ~need[d]
    BY <2>1 DEF Inv, Barriers, Measuring
  <2>4. ~Reporting(d)
    BY <2>1 DEF Inv, Barriers, Measuring
  <2>5. QED
    BY <2>1, <2>2, <2>3, <2>4 DEF Inv, Progress
<1>2. QED
  BY <1>1, Invariance, PTL

\* A child that reports does so after the last child stopped measuring: the
\* blocking read() of result_signal (lib_timing.c 746-751) costs nobody load.
THEOREM StoppedBeforeReport == Spec => []ReportAfterAllStopped
<1>1. Inv => ReportAfterAllStopped
  BY DEF Inv, Barriers, ReportAfterAllStopped
<1>2. QED
  BY <1>1, Invariance, PTL

\* The bytes the parent counts are the ones it awaits.
THEOREM BytesAwaited == Spec => []BytesMeanWhatIsAwaited
<1>1. Inv => BytesMeanWhatIsAwaited
  <2> SUFFICES ASSUME Inv PROVE BytesMeanWhatIsAwaited
    OBVIOUS
  <2>1. TypeOK /\ PhaseInv
    BY DEF Inv
  <2>2. pc = "ready" => \A m \in got \cup resp : m.kind = "ready"
    BY <2>1 DEF PhaseInv, Awaiting
  <2>3. pc = "done" => \A m \in got \cup resp : m.kind = "done"
    BY <2>1 DEF PhaseInv, Awaiting
  <2>4. ASSUME pc = "results"
        PROVE  /\ \A m \in got \cup resp : m.kind = "results"
               /\ Cardinality(resp) <= 1
               /\ \A m \in resp : m.from \notin merged
    <3>1. \A m \in got \cup resp : m.kind = "results" /\ m \in Messages
      BY <2>1, <2>4 DEF PhaseInv, Awaiting, TypeOK, ParentType, PipeType
    <3>2. Cardinality(resp) <= 1
      <4>1. resp = {} \/ \E m : resp = {m}
        BY <2>1, <2>4 DEF PhaseInv
      <4>2. CASE resp = {}
        BY <4>2, FS_EmptySet
      <4>3. CASE \E m : resp = {m}
        <5>1. PICK m : resp = {m}
          BY <4>3
        <5>2. Cardinality({m}) = 1
          BY FS_Singleton
        <5>3. QED
          BY <5>1, <5>2
      <4>4. QED
        BY <4>1, <4>2, <4>3
    <3>3. \A m \in resp : m.from \notin merged
      <4>1. SUFFICES ASSUME NEW m \in resp, NEW g \in got, g.from = m.from PROVE FALSE
        BY <2>1, <2>4 DEF PhaseInv
      <4>2. g = m
        BY <3>1, <4>1 DEF Messages
      <4>3. QED
        BY <2>1, <2>4, <4>1, <4>2 DEF PhaseInv
    <3>4. QED
      BY <3>1, <3>2, <3>3
  <2>5. QED
    BY <2>2, <2>3, <2>4 DEF BytesMeanWhatIsAwaited
<1>2. QED
  BY <1>1, Invariance, PTL

\* benchmp() returns a time only for the round it was asked for, made of the
\* results of every one of its children.
THEOREM Complete == Spec => []CompleteOrNothing
<1>1. Inv => CompleteOrNothing
  <2>1. SUFFICES ASSUME Inv, pc = "returned", timed
                 PROVE  /\ round = "par" /\ merged = Active
                        /\ N > 1 => \A c \in Active : reps[c] = R
    BY DEF CompleteOrNothing
  <2>2. round = "par" /\ merged = Active /\ \A c \in Active : st[c] = "cooldown"
    BY <2>1 DEF Inv, TimedInv, TypeOK, ParentType
  <2>3. \A c \in Active : c \in Kids /\ c # 0
    BY <2>2, NAssumption DEF Active, Kids
  <2>4. QED
    BY <2>1, <2>2, <2>3 DEF Inv, Progress
<1>2. QED
  BY <1>1, Invariance, PTL

\* A child's result array never receives more values than it has room for.
THEOREM Capacity == Spec => []WithinCapacity
<1>1. Inv => WithinCapacity
  BY DEF Inv, Progress, WithinCapacity
<1>2. QED
  BY <1>1, Invariance, PTL

\* Every child has been waited for when benchmp() returns, on every path.
THEOREM AllWaitedFor == Spec => []NoChildLeft
<1>1. Inv => NoChildLeft
  BY DEF Inv, Census, Waited, NoChildLeft
<1>2. QED
  BY <1>1, Invariance, PTL

-----------------------------------------------------------------------------
(* Cleanup: what a child has released, by where it is.                     *)

\* Before the call in `cleanup' a child has released nothing, behind it exactly
\* once if there is something to release; benchmp_child_sigterm() ends the child.
Released ==
    \A c \in Kids :
        /\ released[c] \in {0, 1} /\ misfired[c] \in {0, 1}
        /\ ~Gone(c) => misfired[c] = 0
        /\ ~Gone(c) /\ kpc[c] # "waitExit" => released[c] = 0
        /\ kpc[c] = "waitExit" => released[c] = IF HasCleanup THEN 1 ELSE 0

\* The parent calls no cleanup: cleanup_exit waits, error_exit kills and waits.
LEMMA ReleasedParent ==
    ASSUME Inv, Released, ParentStep \/ Alarm \/ Sigterm \/ ParentKilled
    PROVE  Released'
<1>1. UNCHANGED cleanVars
  BY DEF ParentStep, CreatePipes, PipesFail, AllocPids, ForkCheck, Fork, ForkFails, ErrKill,
     ErrWait, ParentEntry, CollectReady, Collect, WriteStart, CollectDone, WriteResultSignal,
     ReadResults, WriteExit, ParentErrKill, ParentErrWait, WaitChild, BaseDone, Alarm,
     Sigterm, ParentKilled
<1>2. \A c \in Kids : \/ kpc'[c] = kpc[c]
                      \/ kpc[c] = "unborn" /\ kpc'[c] = "setup"
                      \/ kpc[c] = "zombie" /\ kpc'[c] = "reaped"
  BY ParentMove
<1>3. QED
  BY <1>1, <1>2 DEF Released, Gone

\* A child calls cleanup with its cookie once, or gives up and is gone; whatever
\* call follows from its SIGTERM handler is its last.
LEMMA ReleasedChild ==
    ASSUME Inv, Released, NEW c \in Kids, ChildStep(c) \/ HandleTerm(c) \/ Crash(c)
    PROVE  Released'
<1>a. kpc \in [Kids -> ChildPCs] /\ released \in [Kids -> Nat] /\ misfired \in [Kids -> Nat]
  BY DEF Inv, TypeOK, ChildType
<1>b. Alive(c) /\ ~Gone(c) /\ misfired[c] = 0
  BY ChildMove DEF Alive, Gone, Released
<1>c. kpc[c] # "waitExit" => released[c] = 0
  BY <1>b DEF Released
<1>d. PICK x \in ChildPCs : kpc' = [kpc EXCEPT ![c] = x]
  BY ChildMove
<1>1. CASE UNCHANGED cleanVars /\ kpc[c] # "waitExit" /\ kpc'[c] # "waitExit"
  BY <1>1, <1>a, <1>b, <1>c, <1>d DEF Released, Gone
<1>2. CASE ChildCheck(c)
  BY <1>2, <1>a, <1>b, <1>c DEF Released, Gone, ChildCheck, ChildSigterm, ExitFrom, Goto
<1>3. CASE OrphanExit(c)
  BY <1>3, <1>a, <1>b, <1>c DEF Released, Gone, OrphanExit, ExitFrom
<1>4. CASE ChildCleanup(c)
  BY <1>4, <1>a, <1>b, <1>c DEF Released, Gone, ChildCleanup, Goto
<1>5. CASE ReadExit(c)
  BY <1>5, <1>a, <1>b DEF Released, Gone, ReadExit, ExitFrom
<1>6. CASE HandleTerm(c)
  BY <1>6, <1>a, <1>b DEF Released, Gone, Alive, HandleTerm, ChildSigterm, ExitFrom
<1>7. CASE ChildSetup(c) \/ ChildMallocFails(c) \/ ChildInstall(c) \/ Run(c) \/ Crash(c)
  BY <1>7, <1>1, <1>a DEF ChildSetup, ChildMallocFails, ChildInstall, Run, Crash, Goto, ExitFrom
<1>8. CASE PollStart(c) \/ ReadStart(c)
  BY <1>8, <1>1, <1>a DEF PollStart, ReadStart, InInterval, Respond, Goto, ExitFrom
<1>9. CASE Accept(c) \/ Reject(c)
  BY <1>9, <1>1, <1>a DEF Accept, Reject, InInterval, Stop, Respond, Goto, ExitFrom
<1>10. CASE PollResult(c) \/ ReadResult(c)
  BY <1>10, <1>1, <1>a DEF PollResult, ReadResult, InInterval, Respond, Goto, ExitFrom
<1>11. QED
  BY <1>2, <1>3, <1>4, <1>5, <1>6, <1>7, <1>8, <1>9, <1>10 DEF ChildStep

\* A child that reported has released its resources, and none releases them
\* twice, whatever signals and crashes come between.
THEOREM CleanedUpOnce == Spec => []ReleasedOnce
<1>1. Init => Released
  BY DEF Init, Released, Gone
<1>2. Inv /\ Released /\ [Next]_vars => Released'
  <2> SUFFICES ASSUME Inv, Released, [Next]_vars PROVE Released'
    OBVIOUS
  <2>1. CASE ParentStep \/ Alarm \/ Sigterm \/ ParentKilled
    BY <2>1, ReleasedParent
  <2>2. ASSUME NEW c \in Kids, ChildStep(c) \/ HandleTerm(c) \/ Crash(c) PROVE Released'
    BY <2>2, ReleasedChild
  <2>3. CASE UNCHANGED vars
    BY <2>3 DEF Released, Gone, vars
  <2>4. QED
    BY <2>1, <2>2, <2>3 DEF Next, Environment, Finished
<1>3. Released => ReleasedOnce
  BY DEF Released, ReleasedOnce
<1>4. QED
  BY <1>1, <1>2, <1>3, Invariance, PTL DEF Spec

-----------------------------------------------------------------------------
(* Refinement: benchmp() implements LoadBarrier.                           *)

\* No phase is entered by a step of the parent, and a parent that has hung up
\* never takes the line again.
LEMMA ParentMaps ==
    ASSUME Inv, ParentStep \/ Alarm \/ Sigterm \/ ParentKilled
    PROVE  /\ \A c \in 1..N : PhaseOf(c)' = PhaseOf(c)
           /\ HungUp => HungUp'
<1>a. TypeOK /\ Census /\ TimedInv
  BY DEF Inv
<1>b. \A c \in 1..N : PhaseOf(c)' = PhaseOf(c)
  BY <1>a, RoundFacts, ParentMove DEF PhaseOf, Gone, Reporting
<1>c. HungUp => HungUp'
  <2>1. CASE CreatePipes
    BY <1>a, <2>1 DEF HungUp, TimedInv, CreatePipes
  <2>2. CASE PipesFail
    BY <1>a, <2>2 DEF HungUp, PipesFail, Return
  <2>3. CASE AllocPids
    BY <1>a, <2>3 DEF HungUp, AllocPids, Return
  <2>4. CASE ForkCheck
    BY <1>a, <2>4 DEF HungUp, ForkCheck
  <2>5. CASE Fork
    BY <1>a, <2>5 DEF HungUp, Fork
  <2>6. CASE ForkFails
    BY <1>a, <2>6 DEF HungUp, ForkFails
  <2>7. CASE ErrKill
    BY <1>a, <2>7 DEF HungUp, ErrKill, Return, Kill, Alive
  <2>8. CASE ErrWait
    BY <1>a, <2>8 DEF HungUp, ErrWait, Reap
  <2>9. CASE ParentEntry
    BY <1>a, <2>9 DEF HungUp, ParentEntry
  <2>10. CASE CollectReady
    BY <1>a, <2>10 DEF HungUp, CollectReady, Collect
  <2>11. CASE WriteStart
    BY <1>a, <2>11 DEF HungUp, WriteStart, Die
  <2>12. CASE CollectDone
    BY <1>a, <2>12 DEF HungUp, CollectDone, Collect
  <2>13. CASE WriteResultSignal
    BY <1>a, <2>13 DEF HungUp, WriteResultSignal, Die
  <2>14. CASE ReadResults
    BY <1>a, <2>14 DEF HungUp, ReadResults, Merged
  <2>15. CASE WriteExit
    BY <1>a, <2>15 DEF HungUp, WriteExit, Die
  <2>16. CASE ParentErrKill
    BY <1>a, <2>16 DEF HungUp, ParentErrKill, Kill, Alive
  <2>17. CASE ParentErrWait
    BY <1>a, <2>17 DEF HungUp, ParentErrWait, Reap
  <2>18. CASE WaitChild
    BY <1>a, <2>18 DEF HungUp, WaitChild, Reap, Return
  <2>19. CASE BaseDone
    BY <1>a, <2>19 DEF HungUp, Census, BaseDone
  <2>20. CASE Alarm
    BY <1>a, <2>20 DEF HungUp, Alarm, Kill, Alive
  <2>21. CASE Sigterm
    BY <1>a, <2>21 DEF HungUp, Sigterm, Die
  <2>22. CASE ParentKilled
    BY <1>a, <2>22 DEF HungUp, ParentKilled, Die
  <2>23. QED
    BY <2>1, <2>2, <2>3, <2>4, <2>5, <2>6, <2>7, <2>8, <2>9, <2>10, <2>11, <2>12, <2>13,
       <2>14, <2>15, <2>16, <2>17, <2>18, <2>19, <2>20, <2>21, <2>22 DEF ParentStep
<1>d. QED
  BY <1>b, <1>c

\* What a step does to the phase of the child that takes it, and what lets it.
ChildPhaseMove(c) ==
    \/ PhaseOf(c)' = PhaseOf(c)
    \/ PhaseOf(c)' = "dead"
    \/ PhaseOf(c) = "off" /\ PhaseOf(c)' = "loaded"
    \/ PhaseOf(c) = "loaded" /\ PhaseOf(c)' = "measuring" /\ kpc[c] = "readStart"
    \/ PhaseOf(c) = "measuring" /\ PhaseOf(c)' = "stopped"
    \/ PhaseOf(c) = "stopped" /\ PhaseOf(c)' = "reporting" /\ (resultB > 0 \/ ~open)

\* A child's step moves its own phase, by one, and nobody else's.
LEMMA ChildMaps ==
    ASSUME Inv, NEW c \in Kids, ChildStep(c) \/ HandleTerm(c) \/ Crash(c)
    PROVE  /\ ChildPhaseMove(c)
           /\ \A d \in 1..N : d # c => PhaseOf(d)' = PhaseOf(d)
           /\ HungUp' = HungUp
<1>a. TypeOK /\ Progress /\ Barriers
  BY DEF Inv
<1>b. Active \subseteq Kids /\ 1..N \subseteq Kids /\ (Alive(c) => c \in Active)
  BY <1>a, RoundFacts DEF Inv, Census, Waited, Alive
<1>c. HungUp' = HungUp
  BY ChildMove DEF HungUp
<1>1. CASE ChildSetup(c)
  <2>1. ChildPhaseMove(c)
    BY <1>a, <1>b, <1>1 DEF TypeOK, ChildType, FlagType, Progress, ChildPhaseMove, PhaseOf,
       Gone, Reporting, ChildSetup, Goto
  <2>2. \A d \in 1..N : d # c => PhaseOf(d)' = PhaseOf(d)
    BY <1>a, <1>b, <1>1 DEF TypeOK, ChildType, FlagType, PhaseOf, Gone, Reporting, ChildSetup,
       Goto
  <2>3. QED
    BY <1>c, <2>1, <2>2
<1>2. CASE ChildMallocFails(c)
  <2>1. ChildPhaseMove(c)
    BY <1>a, <1>b, <1>2 DEF TypeOK, ChildType, FlagType, Progress, ChildPhaseMove, PhaseOf,
       Gone, Reporting, ChildMallocFails, ExitFrom
  <2>2. \A d \in 1..N : d # c => PhaseOf(d)' = PhaseOf(d)
    BY <1>a, <1>b, <1>2 DEF TypeOK, ChildType, FlagType, PhaseOf, Gone, Reporting,
       ChildMallocFails, ExitFrom
  <2>3. QED
    BY <1>c, <2>1, <2>2
<1>3. CASE ChildInstall(c)
  <2>1. ChildPhaseMove(c)
    BY <1>a, <1>b, <1>3 DEF TypeOK, ChildType, FlagType, Progress, ChildPhaseMove, PhaseOf,
       Gone, Reporting, ChildInstall, Goto
  <2>2. \A d \in 1..N : d # c => PhaseOf(d)' = PhaseOf(d)
    BY <1>a, <1>b, <1>3 DEF TypeOK, ChildType, FlagType, PhaseOf, Gone, Reporting,
       ChildInstall, Goto
  <2>3. QED
    BY <1>c, <2>1, <2>2
<1>4. CASE ChildCheck(c)
  <2>1. ChildPhaseMove(c)
    BY <1>a, <1>b, <1>4 DEF TypeOK, ChildType, FlagType, Progress, ChildPhaseMove, PhaseOf,
       Gone, Reporting, ChildCheck, ChildSigterm, ExitFrom, Goto
  <2>2. \A d \in 1..N : d # c => PhaseOf(d)' = PhaseOf(d)
    BY <1>a, <1>b, <1>4 DEF TypeOK, ChildType, FlagType, PhaseOf, Gone, Reporting, ChildCheck,
       ChildSigterm, ExitFrom, Goto
  <2>3. QED
    BY <1>c, <2>1, <2>2
<1>5. CASE Run(c)
  <2>1. ChildPhaseMove(c)
    BY <1>a, <1>b, <1>5 DEF TypeOK, ChildType, FlagType, Progress, ChildPhaseMove, PhaseOf,
       Gone, Reporting, Run, Goto
  <2>2. \A d \in 1..N : d # c => PhaseOf(d)' = PhaseOf(d)
    BY <1>a, <1>b, <1>5 DEF TypeOK, ChildType, FlagType, PhaseOf, Gone, Reporting, Run, Goto
  <2>3. QED
    BY <1>c, <2>1, <2>2
<1>6. CASE OrphanExit(c)
  <2>1. ChildPhaseMove(c)
    BY <1>a, <1>b, <1>6 DEF TypeOK, ChildType, FlagType, Progress, ChildPhaseMove, PhaseOf,
       Gone, Reporting, OrphanExit, GivesUp, Orphan, ExitFrom
  <2>2. \A d \in 1..N : d # c => PhaseOf(d)' = PhaseOf(d)
    BY <1>a, <1>b, <1>6 DEF TypeOK, ChildType, FlagType, PhaseOf, Gone, Reporting, OrphanExit,
       GivesUp, Orphan, ExitFrom
  <2>3. QED
    BY <1>c, <2>1, <2>2
<1>7. CASE PollStart(c)
  <2>1. ChildPhaseMove(c)
    BY <1>a, <1>b, <1>7 DEF TypeOK, ChildType, FlagType, Progress, ChildPhaseMove, PhaseOf,
       Gone, Reporting, PollStart, InInterval, Readable, Hup, Goto, Respond, ExitFrom
  <2>2. \A d \in 1..N : d # c => PhaseOf(d)' = PhaseOf(d)
    BY <1>a, <1>b, <1>7 DEF TypeOK, ChildType, FlagType, PhaseOf, Gone, Reporting, PollStart,
       InInterval, Readable, Hup, Goto, Respond, ExitFrom
  <2>3. QED
    BY <1>c, <2>1, <2>2
<1>8. CASE ReadStart(c)
  <2>1. ChildPhaseMove(c)
    BY <1>a, <1>b, <1>8 DEF TypeOK, ChildType, FlagType, Progress, ChildPhaseMove, PhaseOf,
       Gone, Reporting, Barriers, Alive, ReadStart, Readable, Hup, Drop, Respond, ExitFrom, Goto
  <2>2. \A d \in 1..N : d # c => PhaseOf(d)' = PhaseOf(d)
    BY <1>a, <1>b, <1>8 DEF TypeOK, ChildType, FlagType, PhaseOf, Gone, Reporting, ReadStart,
       Readable, Hup, Drop, Respond, ExitFrom, Goto
  <2>3. QED
    BY <1>c, <2>1, <2>2
<1>9. CASE Accept(c)
  <2>1. ChildPhaseMove(c)
    BY <1>a, <1>b, <1>9 DEF TypeOK, ChildType, FlagType, Progress, ChildPhaseMove, PhaseOf,
       Gone, Reporting, Accept, InInterval, LastInterval, Stop, Respond, Goto, ExitFrom, Hup
  <2>2. \A d \in 1..N : d # c => PhaseOf(d)' = PhaseOf(d)
    BY <1>a, <1>b, <1>9 DEF TypeOK, ChildType, FlagType, PhaseOf, Gone, Reporting, Accept,
       InInterval, LastInterval, Stop, Respond, Goto, ExitFrom, Hup
  <2>3. QED
    BY <1>c, <2>1, <2>2
<1>10. CASE Reject(c)
  <2>1. ChildPhaseMove(c)
    BY <1>a, <1>b, <1>10 DEF TypeOK, ChildType, FlagType, Progress, ChildPhaseMove, PhaseOf,
       Gone, Reporting, Reject, InInterval, Stop, Respond, Goto, ExitFrom, Hup
  <2>2. \A d \in 1..N : d # c => PhaseOf(d)' = PhaseOf(d)
    BY <1>a, <1>b, <1>10 DEF TypeOK, ChildType, FlagType, PhaseOf, Gone, Reporting, Reject,
       InInterval, Stop, Respond, Goto, ExitFrom, Hup
  <2>3. QED
    BY <1>c, <2>1, <2>2
<1>11. CASE PollResult(c)
  <2>1. ChildPhaseMove(c)
    BY <1>a, <1>b, <1>11 DEF TypeOK, ChildType, FlagType, Progress, ChildPhaseMove, PhaseOf,
       Gone, Reporting, PollResult, InInterval, Goto, Readable, Hup
  <2>2. \A d \in 1..N : d # c => PhaseOf(d)' = PhaseOf(d)
    BY <1>a, <1>b, <1>11 DEF TypeOK, ChildType, FlagType, PhaseOf, Gone, Reporting,
       PollResult, InInterval, Goto, Readable, Hup
  <2>3. QED
    BY <1>c, <2>1, <2>2
<1>12. CASE ReadResult(c)
  <2>1. ChildPhaseMove(c)
    BY <1>a, <1>b, <1>12 DEF TypeOK, ChildType, FlagType, Progress, ChildPhaseMove, PhaseOf,
       Gone, Reporting, ReadResult, Readable, Hup, Drop, Respond, ExitFrom
  <2>2. \A d \in 1..N : d # c => PhaseOf(d)' = PhaseOf(d)
    BY <1>a, <1>b, <1>12 DEF TypeOK, ChildType, FlagType, PhaseOf, Gone, Reporting,
       ReadResult, Readable, Hup, Drop, Respond, ExitFrom
  <2>3. QED
    BY <1>c, <2>1, <2>2
<1>13. CASE ChildCleanup(c)
  <2>1. ChildPhaseMove(c)
    BY <1>a, <1>b, <1>13 DEF TypeOK, ChildType, FlagType, Progress, ChildPhaseMove, PhaseOf,
       Gone, Reporting, ChildCleanup, Goto
  <2>2. \A d \in 1..N : d # c => PhaseOf(d)' = PhaseOf(d)
    BY <1>a, <1>b, <1>13 DEF TypeOK, ChildType, FlagType, PhaseOf, Gone, Reporting,
       ChildCleanup, Goto
  <2>3. QED
    BY <1>c, <2>1, <2>2
<1>14. CASE ReadExit(c)
  <2>1. ChildPhaseMove(c)
    BY <1>a, <1>b, <1>14 DEF TypeOK, ChildType, FlagType, Progress, ChildPhaseMove, PhaseOf,
       Gone, Reporting, ReadExit, Readable, Hup, Drop, ExitFrom
  <2>2. \A d \in 1..N : d # c => PhaseOf(d)' = PhaseOf(d)
    BY <1>a, <1>b, <1>14 DEF TypeOK, ChildType, FlagType, PhaseOf, Gone, Reporting, ReadExit,
       Readable, Hup, Drop, ExitFrom
  <2>3. QED
    BY <1>c, <2>1, <2>2
<1>15. CASE HandleTerm(c)
  <2>1. ChildPhaseMove(c)
    BY <1>a, <1>b, <1>15 DEF TypeOK, ChildType, FlagType, Progress, ChildPhaseMove, PhaseOf,
       Gone, Reporting, HandleTerm, Alive, ChildSigterm, ExitFrom
  <2>2. \A d \in 1..N : d # c => PhaseOf(d)' = PhaseOf(d)
    BY <1>a, <1>b, <1>15 DEF TypeOK, ChildType, FlagType, PhaseOf, Gone, Reporting,
       HandleTerm, Alive, ChildSigterm, ExitFrom
  <2>3. QED
    BY <1>c, <2>1, <2>2
<1>16. CASE Crash(c)
  <2>1. ChildPhaseMove(c)
    BY <1>a, <1>b, <1>16 DEF TypeOK, ChildType, FlagType, Progress, ChildPhaseMove, PhaseOf,
       Gone, Reporting, Crash, ExitFrom
  <2>2. \A d \in 1..N : d # c => PhaseOf(d)' = PhaseOf(d)
    BY <1>a, <1>b, <1>16 DEF TypeOK, ChildType, FlagType, PhaseOf, Gone, Reporting, Crash,
       ExitFrom
  <2>3. QED
    BY <1>c, <2>1, <2>2
<1>17. QED
  BY <1>1, <1>2, <1>3, <1>4, <1>5, <1>6, <1>7, <1>8, <1>9, <1>10, <1>11, <1>12, <1>13, <1>14,
     <1>15, <1>16 DEF ChildStep

\* benchmp() is entered with no child loaded and the line up.
LEMMA InitMaps == Init => Barrier!BInit
<1> SUFFICES ASSUME Init PROVE Barrier!BInit
  OBVIOUS
<1>1. \A c \in 1..N : c \in Kids
  BY NAssumption DEF Kids
<1>2. \A c \in 1..N : PhaseOf(c) = "off"
  BY <1>1 DEF Init, PhaseOf, Gone, Reporting
<1>3. ~HungUp
  BY DEF Init, HungUp
<1>4. QED
  BY <1>2, <1>3 DEF Barrier!BInit

\* While the line is up, the bytes that let a child of the main round measure or
\* report prove that all its siblings are loaded, or have stopped.
LEMMA BarrierGuards ==
    ASSUME Inv, NEW c \in 1..N, ~HungUp
    PROVE  /\ kpc[c] = "readStart" => \A v \in 1..N : PhaseOf(v) # "off"
           /\ PhaseOf(c) = "stopped" /\ (resultB > 0 \/ ~open) =>
                 \A v \in 1..N : PhaseOf(v) \in {"stopped", "reporting", "dead"}
<1>a. TypeOK /\ Census /\ Progress /\ Barriers
  BY DEF Inv
<1>b. c \in Kids /\ 1..N \subseteq Kids /\ c # 0
  BY <1>a, RoundFacts
<1>1. ASSUME kpc[c] # "unborn", ~Gone(c)
      PROVE  round = "par" /\ open /\ Active = 1..N
  <2>1. ~Waited(c)
    BY <1>1 DEF Waited, Gone
  <2>2. c \in Active
    BY <1>a, <1>b, <2>1 DEF Census
  <2>3. round = "par" /\ Active = 1..N
    BY <1>a, <1>b, <2>2 DEF Active, TypeOK, ParentType
  <2>4. pc # "pipes"
    BY <1>a, <1>1, <2>2 DEF Census
  <2>5. QED
    BY <2>3, <2>4 DEF HungUp
<1>2. ASSUME kpc[c] = "readStart" PROVE \A v \in 1..N : PhaseOf(v) # "off"
  <2>1. open /\ Active = 1..N
    BY <1>1, <1>2 DEF Gone
  <2>2. \A v \in 1..N : ~need[v]
    BY <1>a, <1>2, <2>1 DEF Barriers
  <2>3. QED
    BY <2>2 DEF PhaseOf
<1>3. ASSUME PhaseOf(c) = "stopped", resultB > 0 \/ ~open
      PROVE  \A v \in 1..N : PhaseOf(v) \in {"stopped", "reporting", "dead"}
  <2>1. ~Gone(c) /\ st[c] = "cooldown"
    BY <1>3 DEF PhaseOf
  <2>2. kpc[c] # "unborn"
    BY <1>a, <1>b, <2>1 DEF Progress
  <2>3. open /\ Active = 1..N
    BY <1>1, <2>1, <2>2
  <2>4. \A v \in 1..N : st[v] = "cooldown"
    BY <1>a, <1>3, <2>3 DEF Barriers
  <2>5. QED
    BY <2>4 DEF PhaseOf
<1>4. QED
  BY <1>2, <1>3

\* Every step of the harness is a step of LoadBarrier, or leaves it alone.
LEMMA StepMaps ==
    ASSUME Inv, [Next]_vars
    PROVE  [Barrier!BNext]_(Barrier!bvars)
<1> DEFINE ph == [c \in 1..N |-> PhaseOf(c)]
<1>a. TypeOK
  BY DEF Inv
<1>1. CASE ParentStep \/ Alarm \/ Sigterm \/ ParentKilled
  <2>1. ph' = ph /\ (HungUp => HungUp')
    BY <1>1, ParentMaps
  <2>2. CASE HungUp' = HungUp
    BY <2>1, <2>2 DEF Barrier!bvars
  <2>3. CASE HungUp' # HungUp
    <3>1. (~HungUp)' = FALSE
      BY <2>1, <2>3 DEF HungUp
    <3>2. Barrier!HangUp
      BY <2>1, <3>1 DEF Barrier!HangUp
    <3>3. QED
      BY <3>2 DEF Barrier!BNext
  <2>4. QED
    BY <2>2, <2>3
<1>2. ASSUME NEW c \in Kids, ChildStep(c) \/ HandleTerm(c) \/ Crash(c)
      PROVE  [Barrier!BNext]_(Barrier!bvars)
  <2>1. /\ ChildPhaseMove(c)
        /\ \A d \in 1..N : d # c => PhaseOf(d)' = PhaseOf(d)
        /\ (~HungUp)' = (~HungUp)
    BY <1>2, ChildMaps
  <2>2. CASE c \notin 1..N \/ PhaseOf(c)' = PhaseOf(c)
    <3>1. ph' = ph
      BY <2>1, <2>2
    <3>2. QED
      BY <2>1, <3>1 DEF Barrier!bvars
  <2>3. CASE c \in 1..N /\ PhaseOf(c)' # PhaseOf(c)
    <3>1. ph' = [ph EXCEPT ![c] = PhaseOf(c)'] /\ ph[c] = PhaseOf(c)
      BY <2>1, <2>3
    <3>2. ~HungUp => /\ kpc[c] = "readStart" => \A v \in 1..N : ph[v] # "off"
                     /\ PhaseOf(c) = "stopped" /\ (resultB > 0 \/ ~open) =>
                           \A v \in 1..N : ph[v] \in {"stopped", "reporting", "dead"}
      BY <2>3, BarrierGuards
    <3>3. CASE PhaseOf(c)' = "dead"
      <4>1. Barrier!Perish(c)
        BY <2>1, <3>1, <3>3 DEF Barrier!Perish
      <4>2. QED
        BY <2>3, <4>1 DEF Barrier!BNext
    <3>4. CASE PhaseOf(c) = "off" /\ PhaseOf(c)' = "loaded"
      <4>1. Barrier!Load(c)
        BY <2>1, <3>1, <3>4 DEF Barrier!Load, Barrier!Move
      <4>2. QED
        BY <2>3, <4>1 DEF Barrier!BNext
    <3>5. CASE PhaseOf(c) = "loaded" /\ PhaseOf(c)' = "measuring" /\ kpc[c] = "readStart"
      <4>1. Barrier!Measure(c)
        BY <2>1, <3>1, <3>2, <3>5 DEF Barrier!Measure, Barrier!Move
      <4>2. QED
        BY <2>3, <4>1 DEF Barrier!BNext
    <3>6. CASE PhaseOf(c) = "measuring" /\ PhaseOf(c)' = "stopped"
      <4>1. Barrier!Finish(c)
        BY <2>1, <3>1, <3>6 DEF Barrier!Finish, Barrier!Move
      <4>2. QED
        BY <2>3, <4>1 DEF Barrier!BNext
    <3>7. CASE PhaseOf(c) = "stopped" /\ PhaseOf(c)' = "reporting" /\ (resultB > 0 \/ ~open)
      <4>1. Barrier!Report(c)
        BY <2>1, <3>1, <3>2, <3>7 DEF Barrier!Report, Barrier!Move
      <4>2. QED
        BY <2>3, <4>1 DEF Barrier!BNext
    <3>8. QED
      BY <2>1, <2>3, <3>3, <3>4, <3>5, <3>6, <3>7 DEF ChildPhaseMove
  <2>4. QED
    BY <2>2, <2>3
<1>3. CASE UNCHANGED vars
  <2>1. (\A c \in 1..N : PhaseOf(c)' = PhaseOf(c)) /\ (~HungUp)' = (~HungUp)
    BY <1>3 DEF vars, PhaseOf, Gone, Reporting, HungUp
  <2>2. QED
    BY <2>1 DEF Barrier!bvars
<1>4. QED
  BY <1>1, <1>2, <1>3 DEF Next, Environment, Finished

\* The detailed harness, with its pipes, signals, crashes and failing calls,
\* implements the two barriers of LoadBarrier (lib_timing.c 152-770).
THEOREM Refinement == Spec => ImplementsBarrier
<1>1. Inv /\ [Next]_vars => [Barrier!BNext]_(Barrier!bvars)
  BY StepMaps
<1>2. QED
  BY InitMaps, Invariance, <1>1, PTL DEF Spec, ImplementsBarrier, Barrier!BSpec
=============================================================================
