------------------------- MODULE ForkStress_proofs -------------------------
(***************************************************************************)
(* Type correctness of ForkStress, the soundness of its verdict and of its *)
(* statistics and what its exit status tells about the faults that have    *)
(* struck, for any number of forks and threads and any faults of the       *)
(* environment.                                                            *)
(***************************************************************************)
EXTENDS ForkStress, ReplKernel_proofs, FiniteSetTheorems, WellFoundedInduction

LEMMA ThreadsType == FaultThreads \subseteq Threads /\ MigrationThreads \subseteq Threads
  BY SizesAssumption DEF FaultThreads, MigrationThreads, Threads, NumThreads

\* The answers of the kernel have the right types.
LEMMA KernelAnswers ==
  ASSUME NEW m \in Mask
  PROVE  /\ \A a \in Enable(m) : a.ret \in {0, -1} /\ a.mask \in Mask
         /\ \A a \in Disable(m) : a.ret \in {0, -1} /\ a.mask \in Mask
         /\ \A a \in Get(m) : a.ret \in {0, 1, -1}
         /\ \A a \in Fork(m) : a.ret \in {1, -1} /\ a.parent \in Mask /\ a.child \in Mask
  BY DEF Enable, Disable, Get, Fork, Possible, Mask

-----------------------------------------------------------------------------
LEMMA TypeInit == Init => TypeOK
  BY SizesAssumption DEF Init, TypeOK, Mask

\* A step of the child c, or its end by a signal.
ChildStep(c) == Child(c) \/ ChildKilled(c)

LEMMA TypeNext == TypeOK /\ [Next]_vars => TypeOK'
  <1> SUFFICES ASSUME TypeOK, [Next]_vars PROVE TypeOK'
    OBVIOUS
  <1> USE SizesAssumption DEF TypeOK, forkVars, stats, endVars, threadVars, childVars
  <1>1. CASE CountNodes
    BY <1>1 DEF CountNodes
  <1>2. CASE EnableParent
    BY <1>2, KernelAnswers DEF EnableParent
  <1>3. CASE CheckEnabled
    BY <1>3 DEF CheckEnabled
  <1>4. CASE StartThread
    BY <1>4 DEF StartThread
  <1>5. CASE ThreadsStarted \/ ForksDone \/ ThreadsJoined
    BY <1>5 DEF ThreadsStarted, ForksDone, ThreadsJoined, EndLoop
  <1>6. CASE ForkFails
    BY <1>6 DEF ForkFails
  <1>7. CASE ForkChild
    BY <1>7, KernelAnswers DEF ForkChild
  <1>8. CASE VerifyParent
    <2>1. keepRunning' \in BOOLEAN
      BY <1>8, Zenon DEF VerifyParent
    <2>2. /\ pc' \in {"disable", "fork"} /\ i' \in Nat
          /\ UNCHANGED <<forkVars, stats, endVars, threadVars, childVars, parentMask>>
      BY <1>8 DEF VerifyParent
    <2> QED
      BY <2>1, <2>2
  <1>9. CASE DisableParent
    BY <1>9, KernelAnswers DEF DisableParent
  <1>10. CASE CheckDisabled
    BY <1>10 DEF CheckDisabled
  <1>11. CASE StopThreads
    <2>1. keepRunning' \in BOOLEAN
      BY <1>11, Zenon DEF StopThreads
    <2>2. /\ pc' = "join" /\ i' = 0
          /\ UNCHANGED <<forkVars, stats, endVars, threadVars, childVars, parentMask>>
      BY <1>11 DEF StopThreads
    <2> QED
      BY <2>1, <2>2
  <1>12. CASE JoinThread
    BY <1>12 DEF JoinThread
  <1>13. CASE ReapChild
    BY <1>13 DEF ReapChild
  <1>14. CASE ReportResults
    BY <1>14 DEF ReportResults
  <1>15. ASSUME NEW t \in FaultThreads, FaultThread(t) PROVE TypeOK'
    BY <1>15, ThreadsType
    DEF FaultThread, FaultPin, FaultIteration, FaultCheck, FaultEnd, GoOnOrFail, threadFrame
  <1>16. ASSUME NEW t \in MigrationThreads, MigrationThread(t) PROVE TypeOK'
    BY <1>16, ThreadsType
    DEF MigrationThread, MigrationPin, MigrationVerify, MigrationEnd, GoOnOrFail, threadFrame
  <1>17. ASSUME NEW c \in Forks, ChildStep(c) PROVE TypeOK'
    BY <1>17, KernelAnswers
    DEF ChildStep, ChildKilled, Child, ChildInitial,
      ChildEnable, ChildCheck, ChildDisable, GoOnOrExit, childFrame
  <1>18. CASE UNCHANGED vars
    BY <1>18 DEF vars
  <1> QED
    BY <1>1, <1>2, <1>3, <1>4, <1>5, <1>6, <1>7, <1>8, <1>9, <1>10, <1>11, <1>13,
       <1>14, <1>15, <1>16, <1>17, <1>18, <1>12 DEF Next, Main, ChildStep, Done

\* Every variable keeps its type.
THEOREM TypeCorrect == Spec => []TypeOK
  BY TypeInit, TypeNext, PTL DEF Spec

-----------------------------------------------------------------------------
LEMMA InvInit == Init => IInv
  BY TypeInit, SizesAssumption
  DEF Init, IInv, TypeOK, ForkLoop, FailuresCounted, Joined, Reaped, VerdictSound,
      NoOrphan, Forks, Exited, Unstarted

\* What a step of the thread t may do to tpc and threadFailures.
ThreadFrame(t) ==
  /\ \A u \in Threads \ {t} : tpc'[u] = tpc[u]
  /\ threadFailures' >= threadFailures
  /\ tpc'[t] = "failed" => threadFailures' > 0

LEMMA FaultThreadMoves ==
  ASSUME TypeOK, NEW t \in FaultThreads, FaultThread(t)
  PROVE  ~Exited /\ ~Ended(t) /\ tpc[t] # "absent" /\ ThreadFrame(t) /\ UNCHANGED threadFrame
  <1> USE ThreadsType DEF TypeOK, ThreadFrame, GoOnOrFail, threadFrame, At, stats,
        threadVars, Ended
  <1>1. CASE FaultPin(t)
    BY <1>1 DEF FaultPin
  <1>2. CASE FaultIteration(t)
    BY <1>2 DEF FaultIteration
  <1>3. CASE FaultCheck(t)
    BY <1>3 DEF FaultCheck
  <1>4. CASE FaultEnd(t)
    BY <1>4 DEF FaultEnd
  <1> QED
    BY <1>1, <1>2, <1>3, <1>4 DEF FaultThread

LEMMA MigrationThreadMoves ==
  ASSUME TypeOK, NEW t \in MigrationThreads, MigrationThread(t)
  PROVE  ~Exited /\ ~Ended(t) /\ tpc[t] # "absent" /\ ThreadFrame(t) /\ UNCHANGED threadFrame
  <1> USE ThreadsType DEF TypeOK, ThreadFrame, GoOnOrFail, threadFrame, At, stats,
        threadVars, Ended
  <1>1. CASE MigrationPin(t)
    BY <1>1 DEF MigrationPin
  <1>2. CASE MigrationVerify(t)
    BY <1>2 DEF MigrationVerify
  <1>3. CASE MigrationEnd(t)
    BY <1>3 DEF MigrationEnd
  <1> QED
    BY <1>1, <1>2, <1>3 DEF MigrationThread

\* What a step of the child c may do to cpc.
ChildFrame(c) ==
  /\ cpc[c] \notin {"unborn", "exit0", "exit1", "killed"} /\ cpc'[c] # "unborn"
  /\ \A d \in Forks \ {c} : cpc'[d] = cpc[d]

LEMMA ChildMoves ==
  ASSUME TypeOK, NEW c \in Forks, ChildStep(c)
  PROVE  ChildFrame(c) /\ UNCHANGED childFrame
  BY DEF TypeOK, ChildStep, ChildKilled, Child, ChildInitial,
    ChildEnable, ChildCheck, ChildDisable, GoOnOrExit,
    ChildFrame, ChildEnded

LEMMA ThreadStep ==
  ASSUME IInv, TypeOK', NEW t \in Threads, ~Exited, ~Ended(t), ThreadFrame(t),
         tpc[t] # "absent", UNCHANGED threadFrame
  PROVE  IInv'
  <1> USE DEF IInv, TypeOK, forkVars, childVars, endVars, threadFrame, Exited, ThreadFrame
  <1>1. ForkLoop' /\ Reaped'
    BY DEF ForkLoop, Reaped, ChildEnded
  <1>2. FailuresCounted'
    BY DEF FailuresCounted
  <1>3. Joined'
    BY DEF Joined, Ended
  <1>4. VerdictSound' /\ NoOrphan'
    BY DEF VerdictSound, NoOrphan
  <1>5. Unstarted'
    BY DEF Unstarted
  <1> QED
    BY <1>1, <1>2, <1>3, <1>4, <1>5

\* A step of main before its first fork.
LEMMA EarlyStep ==
  ASSUME IInv, TypeOK', Unstarted', pc \in {"nodes", "enable", "checkEnabled", "start"},
         pc' \in {"enable", "checkEnabled", "start", "exit1"},
         UNCHANGED <<forkVars, stats, childVars>>,
         \A t \in Threads : tpc'[t] = "failed" => tpc[t] = "failed"
  PROVE  IInv'
  <1> USE DEF IInv, TypeOK, forkVars, childVars, stats
  <1>1. ForkLoop' /\ FailuresCounted' /\ Joined' /\ Reaped' /\ VerdictSound'
    BY DEF ForkLoop, FailuresCounted, Joined, Reaped, VerdictSound
  <1>2. \A c \in Forks : childPids[c] = "garbage"
    BY DEF ForkLoop, Forks
  <1>3. NoOrphan'
    BY <1>2 DEF ForkLoop, NoOrphan
  <1> QED
    BY <1>1, <1>3

LEMMA InvNext == IInv /\ [Next]_vars => IInv'
  <1> SUFFICES ASSUME IInv, [Next]_vars PROVE IInv'
    OBVIOUS
  <1>0. TypeOK /\ TypeOK'
    BY TypeNext DEF IInv
  <1> USE <1>0, SizesAssumption
      DEF TypeOK, IInv, Unstarted, ForkLoop, FailuresCounted, Joined, Reaped, VerdictSound,
          NoOrphan, forkVars, stats, endVars, threadVars, childVars, Ended, ChildEnded, Exited
  <1>1. CASE CountNodes \/ EnableParent \/ CheckEnabled
    <2>1. /\ pc \in {"nodes", "enable", "checkEnabled"}
          /\ pc' \in {"enable", "checkEnabled", "start", "exit1"}
          /\ UNCHANGED <<i, forkVars, stats, threadVars, childVars>>
      BY <1>1 DEF CountNodes, EnableParent, CheckEnabled
    <2>2. Unstarted'
      BY <2>1
    <2> QED
      BY <2>1, <2>2, EarlyStep
  <1>2. CASE StartThread
    <2>1. /\ pc = "start" /\ pc' \in {"start", "exit1"}
          /\ UNCHANGED <<forkVars, stats, childVars>>
          /\ \A t \in Threads : tpc'[t] = "failed" => tpc[t] = "failed"
      BY <1>2 DEF StartThread
    <2>2. Unstarted'
      BY <1>2 DEF StartThread
    <2> QED
      BY <2>1, <2>2, EarlyStep
  <1>3. CASE ThreadsStarted
    BY <1>3 DEF ThreadsStarted, EndLoop
  <1>4. CASE ForkFails
    BY <1>4 DEF ForkFails, Forks
  <1>5. CASE ForkChild
    <2>1. /\ pc = "fork" /\ i \in Forks
          /\ (pc' = "verify" /\ i' = i) \/ (pc' = "fork" /\ i' = i + 1)
          /\ successfulForks' = successfulForks + 1 /\ failedForks' = failedForks
          /\ childPids' = [childPids EXCEPT ![i] = "child"]
          /\ cpc' = [cpc EXCEPT ![i] = "initial"]
          /\ UNCHANGED <<stats, endVars, threadVars>>
      BY <1>5 DEF ForkChild
    <2>2. \A c \in Forks :
            /\ childPids'[c] = "garbage" <=> c >= successfulForks' + failedForks'
            /\ childPids'[c] = "child" <=> cpc'[c] # "unborn"
      BY <2>1 DEF Forks
    <2>3. /\ pc' = "fork" => i' = successfulForks' + failedForks'
          /\ pc' = "verify" => i' \in Forks /\ i' + 1 = successfulForks' + failedForks'
          /\ pc' \in {"fork", "verify"}
      <3>1. i = successfulForks + failedForks /\ i \in Nat
        BY <2>1
      <3>2. successfulForks \in Nat /\ failedForks \in Nat
        OBVIOUS
      <3> HIDE <1>0 DEF TypeOK, IInv, ForkLoop
      <3> QED
        BY <2>1, <3>1, <3>2
    <2>4. failedForks' = 0 => \A c \in Forks : childPids'[c] # "zero"
      BY <2>1
    <2>5. successfulForks' + failedForks' <= NUM_RAPID_FORKS
      BY <2>1 DEF Forks
    <2>6. ForkLoop'
      BY <2>2, <2>3, <2>4, <2>5
    <2> QED
      BY <2>1, <2>6
  <1>6. CASE VerifyParent
    BY <1>6 DEF VerifyParent, Forks
  <1>7. CASE ForksDone
    BY <1>7 DEF ForksDone, EndLoop
  <1>8. CASE DisableParent \/ CheckDisabled
    BY <1>8 DEF DisableParent, CheckDisabled
  <1>9. CASE StopThreads
    BY <1>9 DEF StopThreads, Threads
  <1>10. CASE JoinThread
    BY <1>10 DEF JoinThread, Threads
  <1>11. CASE ThreadsJoined
    BY <1>11 DEF ThreadsJoined, EndLoop, Threads, NumThreads, Forks
  <1>12. CASE ReapChild
    BY <1>12 DEF ReapChild, Forks
  <1>13. CASE ReportResults
    BY <1>13 DEF ReportResults, Forks, AllOk
  <1>14. ASSUME NEW t \in FaultThreads, FaultThread(t) PROVE IInv'
    BY <1>14, FaultThreadMoves, ThreadStep, ThreadsType
  <1>15. ASSUME NEW t \in MigrationThreads, MigrationThread(t) PROVE IInv'
    BY <1>15, MigrationThreadMoves, ThreadStep, ThreadsType
  <1>16. ASSUME NEW c \in Forks, ChildStep(c) PROVE IInv'
    <2>1. ChildFrame(c) /\ UNCHANGED childFrame
      BY <1>16, ChildMoves
    <2>2. UNCHANGED <<pc, i, forkVars, stats, endVars, threadVars>>
      BY <2>1 DEF childFrame
    <2>3. Unstarted' /\ ForkLoop' /\ FailuresCounted' /\ Joined'
      BY <2>1, <2>2 DEF ChildFrame
    <2>4. Reaped' /\ VerdictSound' /\ NoOrphan'
      BY <2>1, <2>2 DEF ChildFrame
    <2> QED
      BY <2>3, <2>4
  <1>17. CASE UNCHANGED vars
    BY <1>17 DEF vars
  <1> QED
    BY <1>1, <1>2, <1>3, <1>4, <1>5, <1>6, <1>7, <1>8, <1>9, <1>10, <1>11, <1>12,
       <1>13, <1>14, <1>15, <1>16, <1>17 DEF Next, Main, ChildStep, Done

\* What each loop of main has established holds at every moment.
THEOREM LoopsEstablish == Spec => []IInv
  BY InvInit, InvNext, PTL DEF Spec

\* Exit status 0 means that every fork, child and thread succeeded, and main
\* never leaves a running child behind.
THEOREM VerdictIsSound == Spec => [](VerdictSound /\ NoOrphan)
  <1>1. IInv => VerdictSound /\ NoOrphan
    BY DEF IInv
  <1> QED
    BY <1>1, InvInit, InvNext, PTL DEF Spec

\* What main prints and judges after the joins is final.
THEOREM StatsAreSettled == Spec => StatsSettled
  <1>1. IInv /\ [Next]_vars => [pc = "reap" => UNCHANGED stats]_vars
    <2> SUFFICES ASSUME IInv, Next, pc = "reap" PROVE UNCHANGED stats
      BY DEF vars
    <2>1. \A t \in Threads : Ended(t)
      BY DEF IInv, Joined
    <2>2. CASE Main
      BY <2>2 DEF Main, CountNodes, EnableParent, CheckEnabled, StartThread,
        ThreadsStarted, ForkFails, ForkChild, VerifyParent, ForksDone, DisableParent,
        CheckDisabled, StopThreads, JoinThread, ThreadsJoined, ReapChild,
        ReportResults, EndLoop
    <2>3. ASSUME NEW t \in FaultThreads, FaultThread(t) PROVE FALSE
      BY <2>1, <2>3, ThreadsType
      DEF Ended, FaultThread, FaultPin, FaultIteration, FaultCheck, FaultEnd, At
    <2>4. ASSUME NEW t \in MigrationThreads, MigrationThread(t) PROVE FALSE
      BY <2>1, <2>4, ThreadsType
      DEF Ended, MigrationThread, MigrationPin, MigrationVerify, MigrationEnd, At
    <2>5. ASSUME NEW c \in Forks, ChildStep(c) PROVE UNCHANGED stats
      BY <2>5 DEF ChildStep, ChildKilled, Child, ChildInitial,
        ChildEnable, ChildCheck, ChildDisable, childFrame
    <2>6. CASE Done
      BY <2>6 DEF Done, vars
    <2> QED
      BY <2>2, <2>3, <2>4, <2>5, <2>6 DEF Next, ChildStep
  <1> QED
    BY <1>1, InvInit, InvNext, PTL DEF Spec, StatsSettled

-----------------------------------------------------------------------------
\* A thread takes no failure back.
LEMMA FailedFrame ==
  ASSUME TypeOK, TypeOK', Failed, NEW t \in Threads, ThreadFrame(t), UNCHANGED threadFrame
  PROVE  Failed'
  <1>1. UNCHANGED <<pc, successfulForks, failedForks, childrenFailed, cpc>>
    BY DEF threadFrame, forkVars, endVars, childVars
  <1>2. threadFailures > 0 => threadFailures' > 0
    BY DEF ThreadFrame, TypeOK
  <1> QED
    BY <1>1, <1>2 DEF Failed

\* A failure is never taken back.
LEMMA FailedStays == IInv /\ [Next]_vars /\ Failed => Failed'
  <1> SUFFICES ASSUME IInv, [Next]_vars, Failed PROVE Failed'
    OBVIOUS
  <1>0. TypeOK /\ TypeOK'
    BY TypeNext DEF IInv
  <1> USE <1>0, SizesAssumption
      DEF TypeOK, Failed, forkVars, stats, endVars, threadVars, childVars
  <1>1. CASE CountNodes \/ EnableParent \/ CheckEnabled \/ StartThread \/ ThreadsStarted
    BY <1>1 DEF CountNodes, EnableParent, CheckEnabled, StartThread, ThreadsStarted, EndLoop
  <1>2. CASE ForkFails
    BY <1>2 DEF ForkFails
  <1>3. CASE ForkChild
    BY <1>3 DEF ForkChild, IInv, ForkLoop
  <1>4. CASE VerifyParent \/ ForksDone
    BY <1>4 DEF VerifyParent, ForksDone, EndLoop
  <1>5. CASE DisableParent \/ CheckDisabled \/ StopThreads \/ JoinThread \/ ThreadsJoined
    BY <1>5 DEF DisableParent, CheckDisabled, StopThreads, JoinThread, ThreadsJoined, EndLoop
  <1>6. CASE ReapChild
    BY <1>6 DEF ReapChild
  <1>7. CASE ReportResults
    BY <1>7 DEF ReportResults
  <1>8. ASSUME NEW t \in FaultThreads, FaultThread(t) PROVE Failed'
    BY <1>8, FaultThreadMoves, FailedFrame, ThreadsType
  <1>9. ASSUME NEW t \in MigrationThreads, MigrationThread(t) PROVE Failed'
    BY <1>9, MigrationThreadMoves, FailedFrame, ThreadsType
  <1>10. ASSUME NEW c \in Forks, ChildStep(c) PROVE Failed'
    BY <1>10, ChildMoves DEF ChildFrame, childFrame
  <1>11. CASE UNCHANGED vars
    BY <1>11 DEF vars
  <1> QED
    BY <1>1, <1>2, <1>3, <1>4, <1>5, <1>6, <1>8, <1>9, <1>10, <1>11, <1>7
      DEF Next, Main, ChildStep, Done

\* The verdict is given once, by main, and with every failure in it.
LEMMA VerdictGiven ==
  ASSUME IInv, [Next]_vars
  PROVE  \/ UNCHANGED ExitVerdict /\ (ExitVerdict = "pass" => UNCHANGED Failed)
         \/ ExitVerdict = "running" /\ ExitVerdict' = "fail" /\ Failed'
         \/ ExitVerdict = "running" /\ ExitVerdict' = "pass" /\ ~Failed /\ ~Failed'
  <1> USE SizesAssumption DEF ExitVerdict
  <1>0. TypeOK /\ TypeOK'
    BY TypeNext DEF IInv
  <1>1. pc' = pc \/ Main
    BY FaultThreadMoves, MigrationThreadMoves, ChildMoves, <1>0
    DEF Next, ChildStep, threadFrame, childFrame, Done, vars
  <1>2. CASE pc = "exit0"
    <2>1. ~Main
      BY <1>2 DEF Main, CountNodes, EnableParent, CheckEnabled, StartThread,
        ThreadsStarted, ForkFails, ForkChild, VerifyParent, ForksDone, DisableParent,
        CheckDisabled, StopThreads, JoinThread, ThreadsJoined, ReapChild,
        ReportResults, EndLoop
    <2>2. ASSUME NEW c \in Forks, ChildStep(c) PROVE FALSE
      BY <1>0, <1>2, <2>2, ChildMoves DEF IInv, VerdictSound, ChildFrame
    <2>3. UNCHANGED vars
      BY <1>0, <1>2, <2>1, <2>2, FaultThreadMoves, MigrationThreadMoves
      DEF Next, ChildStep, Done, Exited
    <2> QED
      BY <1>2, <2>3 DEF vars, Failed, forkVars, stats, endVars, childVars
  <1>3. CASE pc = "exit1"
    <2>1. ~Main
      BY <1>3 DEF Main, CountNodes, EnableParent, CheckEnabled, StartThread,
        ThreadsStarted, ForkFails, ForkChild, VerifyParent, ForksDone, DisableParent,
        CheckDisabled, StopThreads, JoinThread, ThreadsJoined, ReapChild,
        ReportResults, EndLoop
    <2> QED
      BY <1>1, <1>3, <2>1
  <1>4. CASE ~Exited /\ ~Exited'
    BY <1>4 DEF Exited
  <1>5. CASE ~Exited /\ Exited'
    <2>1. Main
      BY <1>1, <1>5 DEF Exited
    <2>2. ASSUME pc \in {"nodes", "enable", "checkEnabled", "start"},
                 pc' = "exit1", UNCHANGED forkVars
          PROVE  Failed'
      BY <1>0, <2>2 DEF Failed, IInv, ForkLoop, TypeOK, forkVars
    <2>3. CASE CountNodes \/ EnableParent \/ CheckEnabled \/ StartThread
      <3>1. /\ pc \in {"nodes", "enable", "checkEnabled", "start"}
            /\ pc' = "exit1" /\ UNCHANGED forkVars
        BY <1>5, <2>3 DEF CountNodes, EnableParent, CheckEnabled, StartThread, Exited
      <3> QED
        BY <2>2, <3>1
    <2>4. CASE ReportResults
      <3>1. /\ pc = "reap" /\ i = NUM_RAPID_FORKS
            /\ pc' = IF AllOk THEN "exit0" ELSE "exit1"
            /\ UNCHANGED <<successfulForks, failedForks, threadFailures, childrenFailed, cpc>>
        BY <2>4 DEF ReportResults, forkVars, stats, endVars, childVars
      <3>2. CASE AllOk
        <4>1. ~Failed'
          BY <1>0, InvNext, <3>1, <3>2
          DEF AllOk, Failed, IInv, VerdictSound, TypeOK
        <4> QED
          BY <3>1, <3>2, <4>1, FailedStays
      <3>3. CASE ~AllOk
        <4>1. Failed'
          BY <1>0, <3>1, <3>3 DEF AllOk, Failed, IInv, ForkLoop, TypeOK
        <4> QED
          BY <3>1, <3>3, <4>1
      <3> QED
        BY <3>2, <3>3
    <2> QED
      BY <1>5, <2>1, <2>3, <2>4
      DEF Main, ThreadsStarted, ForkFails, ForkChild, VerifyParent, ForksDone,
        DisableParent, CheckDisabled, StopThreads, JoinThread, ThreadsJoined, ReapChild,
        EndLoop, Exited
  <1> QED
    BY <1>2, <1>3, <1>4, <1>5 DEF Exited

\* ForkStress implements TestVerdict: main gives one verdict, at its exit, and
\* "pass" only if no check has failed in any thread or child, nor ever will.
THEOREM StressImplementsVerdict == Spec => ImplementsVerdict
  <1>1. Init => Verdict!Init
    BY SizesAssumption
    DEF Init, Verdict!Init, Failed, ExitVerdict
  <1>2. IInv /\ [Next]_vars => [Verdict!Next]_(Verdict!vars)
    <2> SUFFICES ASSUME IInv, [Next]_vars PROVE [Verdict!Next]_(Verdict!vars)
      OBVIOUS
    <2>1. Failed => Failed'
      BY FailedStays
    <2>2. Failed \in BOOLEAN /\ Failed' \in BOOLEAN
      BY DEF Failed
    <2> HIDE DEF Failed, ExitVerdict
    <2> QED
      BY <2>1, <2>2, VerdictGiven
      DEF Verdict!Next, Verdict!vars, Verdict!CheckFails, Verdict!Abort, Verdict!Report
  <1> QED
    BY <1>1, <1>2, InvInit, InvNext, PTL DEF Spec, ImplementsVerdict, Verdict!Spec

-----------------------------------------------------------------------------
(***************************************************************************)
(* The statistics.  The fold of Accounting is a sum; a sum is the number   *)
(* of units it adds up, which turns the induction over a set into the      *)
(* library's facts on cardinalities and one least counterexample.          *)
(***************************************************************************)

\* One unit for each of the g[x] counts of each x in S.
Units(g, S) == {u \in S \X Nat : u[2] < g[u[1]]}

Picked(s) == CHOOSE x \in s : TRUE

\* The equation of the fold's inner function.
IsSum(h, g, S) ==
  h = [s \in SUBSET S |-> IF s = {} THEN 0 ELSE g[Picked(s)] + h[s \ {Picked(s)}]]

Sum(g, S) == (CHOOSE h : IsSum(h, g, S))[S]

LEMMA CountOfPart ==
  ASSUME NEW x, NEW n \in Nat
  PROVE  IsFiniteSet({x} \X (0 .. n - 1)) /\ Cardinality({x} \X (0 .. n - 1)) = n
  <1> DEFINE f == [k \in 0 .. n - 1 |-> <<x, k>>]
  <1>1. IsFiniteSet(0 .. n - 1) /\ Cardinality(0 .. n - 1) = n
    BY FS_Interval
  <1>2. ExistsBijection(0 .. n - 1, {x} \X (0 .. n - 1))
    <2>1. f \in Bijection(0 .. n - 1, {x} \X (0 .. n - 1))
      BY DEF Bijection, Injection, Surjection, IsInjective
    <2> QED
      BY <2>1 DEF ExistsBijection
  <1> QED
    BY <1>1, <1>2, FS_Bijection

\* Taking x out of S takes its g[x] units away.
LEMMA UnitsStep ==
  ASSUME NEW S, NEW g, NEW x \in S, g[x] \in Nat, IsFiniteSet(Units(g, S \ {x}))
  PROVE  /\ IsFiniteSet(Units(g, S))
         /\ Cardinality(Units(g, S)) = g[x] + Cardinality(Units(g, S \ {x}))
  <1> DEFINE U == Units(g, S \ {x})
             P == {x} \X (0 .. g[x] - 1)
  <1>1. Units(g, S) = U \cup P /\ U \cap P = {}
    BY DEF Units
  <1>2. IsFiniteSet(P) /\ Cardinality(P) = g[x]
    BY CountOfPart
  <1>3. /\ IsFiniteSet(U \cup P)
        /\ Cardinality(U \cup P) =
             Cardinality(U) + Cardinality(P) - Cardinality(U \cap P)
    BY <1>2, FS_Union
  <1>4. Cardinality(U) \in Nat /\ Cardinality(U \cap P) = 0
    BY <1>1, FS_CardinalityType, FS_EmptySet
  <1> HIDE DEF U, P
  <1> QED
    BY <1>1, <1>2, <1>3, <1>4 DEF U

LEMMA UnitsOfNone == ASSUME NEW g PROVE Units(g, {}) = {}
  BY DEF Units

\* Every set of finite sets, one of which there is, has a least one.
LEMMA Smallest ==
  ASSUME NEW S, IsFiniteSet(S), NEW T, T \subseteq SUBSET S, T # {}
  PROVE  \E s \in T : \A x \in s : s \ {x} \notin T
  <1>1. IsWellFoundedOn(StrictSubsetOrdering(S), SUBSET S)
    BY FS_StrictSubsetOrderingWellFounded, FS_FiniteSubsetsOfFinite
  <1>2. PICK s \in T : \A r \in T : <<r, s>> \notin StrictSubsetOrdering(S)
    BY <1>1, WFMin
  <1>3. ASSUME NEW x \in s, s \ {x} \in T PROVE FALSE
    BY <1>2, <1>3 DEF StrictSubsetOrdering
  <1> QED
    BY <1>3

LEMMA UnitsFinite ==
  ASSUME NEW S, IsFiniteSet(S), NEW g, \A x \in S : g[x] \in Nat
  PROVE  IsFiniteSet(Units(g, S))
  <1> DEFINE T == {s \in SUBSET S : ~IsFiniteSet(Units(g, s))}
  <1>1. SUFFICES ASSUME T # {} PROVE FALSE
    OBVIOUS
  <1>2. PICK s \in T : \A x \in s : s \ {x} \notin T
    BY <1>1, Smallest
  <1>3. s # {}
    BY <1>2, UnitsOfNone, FS_EmptySet
  <1>4. PICK x \in s : TRUE
    BY <1>3
  <1>5. IsFiniteSet(Units(g, s \ {x}))
    BY <1>2, <1>4
  <1> QED
    BY <1>5, UnitsStep

LEMMA SumCounts ==
  ASSUME NEW S, IsFiniteSet(S), NEW g, \A x \in S : g[x] \in Nat
  PROVE  Sum(g, S) = Cardinality(Units(g, S))
  <1> DEFINE c == [s \in SUBSET S |-> Cardinality(Units(g, s))]
             h == CHOOSE d : IsSum(d, g, S)
  <1>1. ASSUME NEW s \in SUBSET S, s # {}
        PROVE  /\ Picked(s) \in s
               /\ c[s] = g[Picked(s)] + c[s \ {Picked(s)}]
    <2>1. Picked(s) \in s
      BY <1>1 DEF Picked
    <2>2. IsFiniteSet(Units(g, s \ {Picked(s)}))
      BY UnitsFinite, FS_Subset
    <2>3. Cardinality(Units(g, s)) = g[Picked(s)] + Cardinality(Units(g, s \ {Picked(s)}))
      BY <2>1, <2>2, UnitsStep
    <2> QED
      BY <2>1, <2>3
  <1>2. c[{}] = 0
    BY UnitsOfNone, FS_EmptySet
  <1>3. IsSum(c, g, S)
    BY <1>1, <1>2 DEF IsSum
  <1>4. IsSum(h, g, S)
    BY <1>3
  <1>5. ASSUME NEW s \in SUBSET S, s # {} PROVE h[s] = g[Picked(s)] + h[s \ {Picked(s)}]
    BY <1>4, <1>5 DEF IsSum
  <1>6. h[{}] = 0
    BY <1>4 DEF IsSum
  <1> DEFINE T == {s \in SUBSET S : h[s] # c[s]}
  <1> HIDE DEF h, c
  <1>7. T = {}
    <2>1. SUFFICES ASSUME T # {} PROVE FALSE
      OBVIOUS
    <2>2. PICK s \in T : \A x \in s : s \ {x} \notin T
      BY <2>1, Smallest
    <2>3. s # {}
      BY <1>2, <1>6
    <2> QED
      BY <1>1, <1>5, <2>2, <2>3
  <1>8. h[S] = c[S]
    BY <1>7
  <1> QED
    BY <1>8 DEF h, c, Sum

\* The sum reads g on S only; adding an element, a count.
LEMMA SumLocal ==
  ASSUME NEW S, IsFiniteSet(S), NEW g, NEW h, \A x \in S : g[x] \in Nat /\ h[x] = g[x]
  PROVE  Sum(h, S) = Sum(g, S)
  <1>1. Units(h, S) = Units(g, S)
    BY DEF Units
  <1> QED
    BY <1>1, SumCounts

LEMMA SumAdds ==
  ASSUME NEW S, IsFiniteSet(S), NEW g, \A x \in S : g[x] \in Nat, NEW x \in S
  PROVE  Sum(g, S) = g[x] + Sum(g, S \ {x}) /\ Sum(g, S \ {x}) \in Nat
  <1>1. IsFiniteSet(S \ {x}) /\ IsFiniteSet(Units(g, S \ {x}))
    BY FS_Subset, UnitsFinite
  <1>2. Sum(g, S) = Cardinality(Units(g, S))
    BY SumCounts
  <1>3. Sum(g, S \ {x}) = Cardinality(Units(g, S \ {x}))
    BY <1>1, SumCounts
  <1> QED
    BY <1>1, <1>2, <1>3, UnitsStep, FS_CardinalityType
  
LEMMA SumNone == ASSUME NEW g PROVE Sum(g, {}) = 0
  BY SumCounts, UnitsOfNone, FS_EmptySet

FailedThreads == {t \in Threads : tpc[t] = "failed"}
ReturnedThreads == {t \in FaultThreads : tpc[t] = "returned"}

\* Accounting without the child_pids[], which ForkLoop speaks of.
Counts ==
  /\ threadFailures = Cardinality(FailedThreads)
  /\ migrations = Sum(iter, MigrationThreads)
  /\ pageFaults = Sum(iter, ReturnedThreads)

LEMMA AccountingIs == IInv => (Accounting <=> Counts)
  BY DEF IInv, ForkLoop, Accounting, Counts, FailedThreads, ReturnedThreads, Sum, IsSum,
    Picked, FoldFunctionOnSet, MapThenFoldSet

LEMMA ThreadsFinite ==
  /\ IsFiniteSet(Threads) /\ IsFiniteSet(FailedThreads)
  /\ IsFiniteSet(MigrationThreads) /\ IsFiniteSet(ReturnedThreads)
  /\ FaultThreads \cap MigrationThreads = {}
  <1>1. IsFiniteSet(Threads)
    BY SizesAssumption, FS_Interval DEF Threads, NumThreads
  <1> QED
    BY <1>1, ThreadsType, FS_Subset
    DEF FailedThreads, ReturnedThreads, MigrationThreads

\* What a step of the thread t adds to the statistics: its failure, the cycle
\* it has completed, the faults of its loop when that has ended.
Adds(t) ==
  /\ ~Ended(t)
  /\ \A u \in Threads \ {t} : tpc'[u] = tpc[u] /\ iter'[u] = iter[u]
  /\ threadFailures' = IF tpc'[t] = "failed" THEN threadFailures + 1 ELSE threadFailures
  /\ migrations' = IF t \in MigrationThreads
                     THEN migrations + (iter'[t] - iter[t]) ELSE migrations
  /\ pageFaults' = IF t \in FaultThreads /\ tpc'[t] = "returned"
                     THEN pageFaults + iter'[t] ELSE pageFaults

LEMMA FaultThreadAdds ==
  ASSUME TypeOK, NEW t \in FaultThreads, FaultThread(t)
  PROVE  Adds(t)
  <1> USE ThreadsType DEF TypeOK, Adds, GoOnOrFail, At, stats, threadVars, Ended,
        MigrationThreads
  <1>1. CASE FaultPin(t)
    BY <1>1 DEF FaultPin
  <1>2. CASE FaultIteration(t)
    BY <1>2 DEF FaultIteration
  <1>3. CASE FaultCheck(t)
    BY <1>3 DEF FaultCheck
  <1>4. CASE FaultEnd(t)
    BY <1>4 DEF FaultEnd
  <1> QED
    BY <1>1, <1>2, <1>3, <1>4 DEF FaultThread

LEMMA MigrationThreadAdds ==
  ASSUME TypeOK, NEW t \in MigrationThreads, MigrationThread(t)
  PROVE  Adds(t)
  <1> USE ThreadsType DEF TypeOK, Adds, GoOnOrFail, At, stats, threadVars, Ended,
        MigrationThreads
  <1>1. CASE MigrationPin(t)
    BY <1>1 DEF MigrationPin
  <1>2. CASE MigrationVerify(t)
    BY <1>2 DEF MigrationVerify
  <1>3. CASE MigrationEnd(t)
    BY <1>3 DEF MigrationEnd
  <1> QED
    BY <1>1, <1>2, <1>3 DEF MigrationThread

LEMMA AddsKeepsCounts ==
  ASSUME TypeOK, TypeOK', Counts, NEW t \in Threads, Adds(t)
  PROVE  Counts'
  <1> USE ThreadsType, ThreadsFinite DEF TypeOK
  <1>1. threadFailures' = Cardinality(FailedThreads')
    <2>1. t \notin FailedThreads
      BY DEF Adds, Ended, FailedThreads
    <2>2. FailedThreads' = IF tpc'[t] = "failed" THEN FailedThreads \cup {t} ELSE FailedThreads
      BY <2>1 DEF Adds, FailedThreads
    <2>3. Cardinality(FailedThreads \cup {t}) = Cardinality(FailedThreads) + 1
      BY <2>1, FS_AddElement
    <2> QED
      BY <2>2, <2>3 DEF Adds, Counts
  <1>2. migrations' = Sum(iter', MigrationThreads)
    <2>1. CASE t \in MigrationThreads
      <3>1. Sum(iter', MigrationThreads) = iter'[t] + Sum(iter', MigrationThreads \ {t})
        BY <2>1, SumAdds
      <3>2. /\ Sum(iter, MigrationThreads) = iter[t] + Sum(iter, MigrationThreads \ {t})
            /\ Sum(iter, MigrationThreads \ {t}) \in Nat
        BY <2>1, SumAdds
      <3>3. IsFiniteSet(MigrationThreads \ {t})
        BY FS_Subset
      <3>4. Sum(iter', MigrationThreads \ {t}) = Sum(iter, MigrationThreads \ {t})
        BY <3>3, SumLocal DEF Adds
      <3>5. iter[t] \in Nat /\ iter'[t] \in Nat
        OBVIOUS
      <3>6. migrations' = Sum(iter, MigrationThreads) + (iter'[t] - iter[t])
        BY <2>1 DEF Adds, Counts
      <3> QED
        BY <3>1, <3>2, <3>4, <3>5, <3>6
    <2>2. CASE t \notin MigrationThreads
      <3>1. Sum(iter', MigrationThreads) = Sum(iter, MigrationThreads)
        BY <2>2, SumLocal DEF Adds
      <3> QED
        BY <2>2, <3>1 DEF Adds, Counts
    <2> QED
      BY <2>1, <2>2
  <1>3. pageFaults' = Sum(iter', ReturnedThreads')
    <2> DEFINE R == ReturnedThreads
    <2>1. t \notin R /\ R \subseteq Threads /\ IsFiniteSet(R)
      BY DEF Adds, Ended, ReturnedThreads
    <2>2. Sum(iter', R) = Sum(iter, R)
      BY <2>1, SumLocal DEF Adds
    <2>3. CASE t \in FaultThreads /\ tpc'[t] = "returned"
      <3>1. ReturnedThreads' = R \cup {t} /\ (R \cup {t}) \ {t} = R
        BY <2>1, <2>3 DEF Adds, ReturnedThreads
      <3>2. IsFiniteSet(R \cup {t})
        BY <2>1, FS_AddElement
      <3>3. Sum(iter', R \cup {t}) = iter'[t] + Sum(iter', R) /\ Sum(iter', R) \in Nat
        BY <2>1, <3>1, <3>2, SumAdds
      <3>4. pageFaults' = Sum(iter, R) + iter'[t]
        BY <2>3 DEF Adds, Counts
      <3> QED
        BY <2>2, <3>1, <3>3, <3>4
    <2>4. CASE ~(t \in FaultThreads /\ tpc'[t] = "returned")
      <3>1. ReturnedThreads' = R
        BY <2>1, <2>4 DEF Adds, ReturnedThreads
      <3> QED
        BY <2>2, <2>4, <3>1 DEF Adds, Counts
    <2> QED
      BY <2>3, <2>4
  <1> QED
    BY <1>1, <1>2, <1>3 DEF Counts

LEMMA CountsInit == Init => Counts
  <1> SUFFICES ASSUME Init PROVE Counts
    OBVIOUS
  <1>1. FailedThreads = {} /\ ReturnedThreads = {}
    BY ThreadsType DEF Init, FailedThreads, ReturnedThreads
  <1>2. Sum(iter, MigrationThreads) = 0
    <2>1. \A t \in MigrationThreads : iter[t] = 0
      BY ThreadsType DEF Init
    <2>2. Units(iter, MigrationThreads) = {}
      BY <2>1 DEF Units
    <2> QED
      BY <2>1, <2>2, ThreadsFinite, SumCounts, FS_EmptySet
  <1>3. Sum(iter, {}) = 0
    BY SumNone
  <1> QED
    BY <1>1, <1>2, <1>3, FS_EmptySet DEF Counts, Init

LEMMA CountsNext == IInv /\ Counts /\ [Next]_vars => Counts'
  <1> SUFFICES ASSUME IInv, Counts, [Next]_vars PROVE Counts'
    OBVIOUS
  <1>0. TypeOK /\ TypeOK'
    BY TypeNext DEF IInv
  <1>1. ASSUME NEW t \in FaultThreads, FaultThread(t) PROVE Counts'
    BY <1>0, <1>1, FaultThreadAdds, AddsKeepsCounts, ThreadsType
  <1>2. ASSUME NEW t \in MigrationThreads, MigrationThread(t) PROVE Counts'
    BY <1>0, <1>2, MigrationThreadAdds, AddsKeepsCounts, ThreadsType
  <1>3. ASSUME UNCHANGED <<stats, tpc, iter>> PROVE Counts'
    BY <1>3 DEF Counts, FailedThreads, ReturnedThreads, stats
  <1>4. CASE StartThread
    <2>1. i \in Threads /\ tpc[i] = "absent" /\ UNCHANGED <<stats, iter>>
      BY <1>4, SizesAssumption DEF StartThread, IInv, Unstarted, TypeOK, Threads
    <2>2. \/ UNCHANGED tpc
          \/ tpc' = [tpc EXCEPT ![i] = IF i \in FaultThreads THEN "pin" ELSE "cycle"]
      BY <1>4 DEF StartThread
    <2>3. CASE UNCHANGED tpc
      BY <1>3, <2>1, <2>3
    <2>4. CASE tpc' = [tpc EXCEPT ![i] = IF i \in FaultThreads THEN "pin" ELSE "cycle"]
      <3>1. Adds(i)
        BY <1>0, <2>1, <2>4 DEF Adds, Ended, TypeOK, stats
      <3> QED
        BY <1>0, <2>1, <3>1, AddsKeepsCounts
    <2> QED
      BY <2>2, <2>3, <2>4
  <1>5. CASE Main /\ ~StartThread
    <2>1. UNCHANGED <<stats, tpc, iter>>
      BY <1>5 DEF Main, CountNodes, EnableParent, CheckEnabled, ThreadsStarted, EndLoop,
        ForkFails, ForkChild, VerifyParent, ForksDone, DisableParent, CheckDisabled,
        StopThreads, JoinThread, ThreadsJoined, ReapChild, ReportResults, threadVars
    <2> QED
      BY <1>3, <2>1
  <1>6. ASSUME NEW c \in Forks, ChildStep(c) PROVE Counts'
    BY <1>0, <1>3, <1>6, ChildMoves DEF childFrame, threadVars
  <1>7. CASE UNCHANGED vars
    BY <1>3, <1>7 DEF vars, threadVars
  <1> QED
    BY <1>1, <1>2, <1>4, <1>5, <1>6, <1>7 DEF Next, ChildStep, Done

\* The statistics are the sums over what the threads and the forks have done,
\* at every moment and in every interleaving.
THEOREM StatisticsAddUp == Spec => []Accounting
  <1>1. Init => IInv /\ Counts
    BY InvInit, CountsInit
  <1>2. IInv /\ Counts /\ [Next]_vars => IInv' /\ Counts'
    BY InvNext, CountsNext
  <1>3. IInv /\ Counts => Accounting
    BY AccountingIs
  <1> QED
    BY <1>1, <1>2, <1>3, PTL DEF Spec

-----------------------------------------------------------------------------
(***************************************************************************)
(* What exit status 0 and 1 tell about the faults that have struck.        *)
(***************************************************************************)

\* What may go wrong without a failure of the test.
Harmless == {"malloc", "stuck", "keep"}

LEMMA HarmlessNoted ==
  \A S, a : Note(S, a) \subseteq Harmless => a.fault \in {"none", "malloc", "stuck", "keep"}
  <1> SUFFICES ASSUME NEW S, NEW a, Note(S, a) \subseteq Harmless, a.fault # "none"
               PROVE  a.fault \in Harmless
    BY DEF Harmless
  <1> QED
    BY Noted

Ending == {"disable", "checkDisabled", "stop", "join", "reap"}

\* A child whose calls keep their promises.
GoodChild(c) ==
  /\ cpc[c] \notin {"exit1", "killed"}
  /\ cpc[c] \in {"initial", "enable"} => childMask[c] = 0
  /\ cpc[c] = "check" => childMask[c] = 1

GoodMain ==
  /\ failedForks = 0 /\ childrenFailed = 0 /\ pc # "exit1"
  /\ pc \in {"checkEnabled", "start", "fork", "verify"} => parentMask = 1
  /\ pc \in Ending => successfulForks = NUM_RAPID_FORKS

Quiet ==
  struck \subseteq Harmless =>
    threadFailures = 0 /\ GoodMain /\ \A c \in Forks : GoodChild(c)

LEMMA QuietInit == Init => Quiet
  BY DEF Init, Quiet, GoodMain, GoodChild, Ending

\* Faults are never forgotten.
LEMMA StruckGrows == [Next]_vars => struck \subseteq struck'
  <1> SUFFICES ASSUME [Next]_vars PROVE struck \subseteq struck'
    OBVIOUS
  <1>1. CASE Main
    BY <1>1, Noted DEF Main, CountNodes, EnableParent, CheckEnabled, StartThread,
      ThreadsStarted, ForkFails, ForkChild, VerifyParent, ForksDone, DisableParent,
      CheckDisabled, StopThreads, JoinThread, ThreadsJoined, ReapChild, ReportResults, EndLoop
  <1>2. ASSUME NEW t \in FaultThreads, FaultThread(t) PROVE struck \subseteq struck'
    BY <1>2, Noted DEF FaultThread, FaultPin, FaultIteration, FaultCheck, FaultEnd
  <1>3. ASSUME NEW t \in MigrationThreads, MigrationThread(t) PROVE struck \subseteq struck'
    BY <1>3, Noted DEF MigrationThread, MigrationPin, MigrationVerify, MigrationEnd
  <1>4. ASSUME NEW c \in Forks, ChildStep(c) PROVE struck \subseteq struck'
    BY <1>4, Noted DEF ChildStep, ChildKilled, Child, ChildInitial,
      ChildEnable, ChildCheck, ChildDisable
  <1>5. CASE UNCHANGED vars
    BY <1>5 DEF vars
  <1> QED
    BY <1>1, <1>2, <1>3, <1>4, <1>5 DEF Next, ChildStep, Done

LEMMA QuietMain ==
  ASSUME IInv, Quiet, Main, struck' \subseteq Harmless
  PROVE  threadFailures' = 0 /\ GoodMain' /\ \A c \in Forks : GoodChild(c)'
  <1>0. /\ TypeOK /\ ForkLoop /\ parentMask \in Mask /\ struck \subseteq Harmless
        /\ threadFailures = 0 /\ GoodMain /\ \A c \in Forks : GoodChild(c)
    BY StruckGrows DEF Next, Quiet, IInv, TypeOK
  <1> USE <1>0, SizesAssumption DEF forkVars, stats, endVars, threadVars, childVars, Ending
  <1>1. CASE CountNodes
    <2>1. pc' = "enable"
      BY <1>1, CallAnswers, HarmlessNoted DEF CountNodes
    <2> QED
      BY <1>1, <2>1 DEF CountNodes, GoodMain, GoodChild
  <1>2. CASE EnableParent
    <2>1. pc' = "checkEnabled" /\ parentMask' = 1
      BY <1>2, EnableAnswers, HarmlessNoted DEF EnableParent
    <2> QED
      BY <1>2, <2>1 DEF EnableParent, GoodMain, GoodChild
  <1>3. CASE CheckEnabled
    <2>1. pc' = "start"
      BY <1>3, GetAnswers, HarmlessNoted DEF CheckEnabled, GoodMain
    <2> QED
      BY <1>3, <2>1 DEF CheckEnabled, GoodMain, GoodChild
  <1>4. CASE StartThread
    <2>1. pc' = pc
      BY <1>4, CallAnswers, HarmlessNoted DEF StartThread
    <2> QED
      BY <1>4, <2>1 DEF StartThread, GoodMain, GoodChild
  <1>5. CASE ForkFails
    BY <1>5, ForkAnswers, HarmlessNoted DEF ForkFails
  <1>6. CASE ForkChild
    <2>1. parentMask' = parentMask /\ childMask' = [childMask EXCEPT ![i] = 0]
      BY <1>6, ForkAnswers, HarmlessNoted DEF ForkChild
    <2>2. /\ pc = "fork" /\ pc' \in {"fork", "verify"} /\ i \in Forks
          /\ cpc' = [cpc EXCEPT ![i] = "initial"]
          /\ UNCHANGED <<failedForks, threadFailures, childrenFailed>>
      BY <1>6 DEF ForkChild
    <2>3. GoodMain'
      BY <2>1, <2>2 DEF GoodMain
    <2>4. \A c \in Forks : GoodChild(c)'
      BY <2>1, <2>2 DEF GoodChild, TypeOK
    <2> QED
      BY <2>2, <2>3, <2>4
  <1>7. CASE VerifyParent
    <2>1. pc' = "fork"
      BY <1>7, GetAnswers, HarmlessNoted DEF VerifyParent, GoodMain
    <2> QED
      BY <1>7, <2>1 DEF VerifyParent, GoodMain, GoodChild
  <1>8. CASE ThreadsStarted \/ ForksDone \/ ThreadsJoined
    BY <1>8 DEF ThreadsStarted, ForksDone, ThreadsJoined, EndLoop, GoodMain, GoodChild,
      ForkLoop, TypeOK
  <1>9. CASE DisableParent \/ CheckDisabled \/ StopThreads \/ JoinThread
    BY <1>9 DEF DisableParent, CheckDisabled, StopThreads, JoinThread, GoodMain, GoodChild
  <1>10. CASE ReapChild
    <2>1. childrenFailed' = childrenFailed
      <3>1. childPids[i] # "garbage" /\ cpc[i] \notin {"exit1", "killed"}
        BY <1>10 DEF ReapChild, ForkLoop, GoodMain, GoodChild, TypeOK, Forks
      <3> QED
        BY <1>10, <3>1 DEF ReapChild
    <2> QED
      BY <1>10, <2>1 DEF ReapChild, GoodMain, GoodChild
  <1>11. CASE ReportResults
    BY <1>11 DEF ReportResults, AllOk, GoodMain, GoodChild
  <1> QED
    BY <1>1, <1>2, <1>3, <1>4, <1>5, <1>6, <1>7, <1>8, <1>9, <1>10, <1>11 DEF Main

LEMMA QuietThread ==
  ASSUME IInv, Quiet, struck' \subseteq Harmless,
         \/ \E t \in FaultThreads : FaultThread(t)
         \/ \E t \in MigrationThreads : MigrationThread(t)
  PROVE  threadFailures' = threadFailures
  <1>0. TypeOK /\ parentMask \in Mask
    BY DEF IInv, TypeOK
  <1> USE <1>0 DEF GoOnOrFail
  <1>1. ASSUME NEW t \in FaultThreads, FaultThread(t) PROVE threadFailures' = threadFailures
    <2>1. CASE FaultPin(t)
      BY <2>1, CallAnswers, HarmlessNoted DEF FaultPin
    <2>2. CASE FaultCheck(t)
      BY <2>2, GetAnswers, HarmlessNoted DEF FaultCheck, Mask
    <2>3. CASE FaultIteration(t) \/ FaultEnd(t)
      BY <2>3 DEF FaultIteration, FaultEnd, stats
    <2> QED
      BY <1>1, <2>1, <2>2, <2>3 DEF FaultThread
  <1>2. ASSUME NEW t \in MigrationThreads, MigrationThread(t)
        PROVE  threadFailures' = threadFailures
    <2>1. CASE MigrationPin(t)
      BY <2>1, CallAnswers, HarmlessNoted DEF MigrationPin
    <2>2. CASE MigrationVerify(t)
      BY <2>2, CallAnswers, HarmlessNoted DEF MigrationVerify
    <2>3. CASE MigrationEnd(t)
      BY <2>3 DEF MigrationEnd, stats
    <2> QED
      BY <1>2, <2>1, <2>2, <2>3 DEF MigrationThread
  <1> QED
    BY <1>1, <1>2

LEMMA QuietChild ==
  ASSUME TypeOK, NEW c \in Forks, ChildStep(c), GoodChild(c), struck' \subseteq Harmless
  PROVE  GoodChild(c)' /\ \A d \in Forks \ {c} : GoodChild(d) => GoodChild(d)'
  <1>0. childMask[c] \in Mask
    BY DEF TypeOK
  <1> USE <1>0 DEF GoodChild, GoOnOrExit, TypeOK, childFrame
  <1>1. CASE ChildInitial(c)
    <2>1. PICK a \in Get(childMask[c]) :
            cpc' = [cpc EXCEPT ![c] = IF a.ret = 0 THEN "enable" ELSE "exit1"]
            /\ struck' = Note(struck, a)
      BY <1>1 DEF ChildInitial
    <2>2. a.ret = 0
      BY <1>1, <2>1, GetAnswers, HarmlessNoted DEF ChildInitial
    <2> QED
      BY <1>1, <2>1, <2>2 DEF ChildInitial
  <1>2. CASE ChildEnable(c)
    <2>1. PICK a \in Enable(childMask[c]) :
            /\ cpc' = [cpc EXCEPT ![c] = IF a.ret >= 0 THEN "check" ELSE "exit1"]
            /\ childMask' = [childMask EXCEPT ![c] = a.mask]
            /\ struck' = Note(struck, a)
      BY <1>2 DEF ChildEnable
    <2>2. a.ret = 0 /\ a.mask = 1
      BY <2>1, EnableAnswers, HarmlessNoted
    <2> QED
      BY <2>1, <2>2
  <1>3. CASE ChildCheck(c)
    <2>1. PICK a \in Get(childMask[c]) :
            /\ cpc' = [cpc EXCEPT ![c] = IF a.ret > 0 THEN "disable" ELSE "exit1"]
            /\ struck' = Note(struck, a)
      BY <1>3 DEF ChildCheck
    <2>2. a.ret = 1
      BY <1>3, <2>1, GetAnswers, HarmlessNoted DEF ChildCheck
    <2> QED
      BY <1>3, <2>1, <2>2 DEF ChildCheck
  <1>4. CASE ChildDisable(c)
    BY <1>4 DEF ChildDisable
  <1>5. CASE ChildKilled(c)
    BY <1>5, CallAnswers, HarmlessNoted DEF ChildKilled
  <1> QED
    BY <1>1, <1>2, <1>3, <1>4, <1>5 DEF Child, ChildStep

LEMMA QuietNext == IInv /\ Quiet /\ [Next]_vars => Quiet'
  <1> SUFFICES ASSUME IInv, Quiet, [Next]_vars, struck' \subseteq Harmless
               PROVE  threadFailures' = 0 /\ GoodMain' /\ \A c \in Forks : GoodChild(c)'
    BY DEF Quiet
  <1>0. /\ TypeOK /\ threadFailures = 0 /\ GoodMain /\ \A c \in Forks : GoodChild(c)
    BY StruckGrows DEF Quiet, IInv
  <1>1. CASE \/ \E t \in FaultThreads : FaultThread(t)
             \/ \E t \in MigrationThreads : MigrationThread(t)
    <2>1. UNCHANGED threadFrame
      BY <1>0, <1>1, FaultThreadMoves, MigrationThreadMoves
    <2>2. threadFailures' = 0
      BY <1>0, <1>1, QuietThread
    <2> QED
      BY <1>0, <2>1, <2>2
      DEF threadFrame, forkVars, endVars, childVars, GoodMain, GoodChild
  <1>2. ASSUME NEW c \in Forks, ChildStep(c)
        PROVE  threadFailures' = 0 /\ GoodMain' /\ \A d \in Forks : GoodChild(d)'
    <2>1. UNCHANGED childFrame
      BY <1>0, <1>2, ChildMoves
    <2>2. \A d \in Forks : GoodChild(d)'
      BY <1>0, <1>2, QuietChild
    <2> QED
      BY <1>0, <2>1, <2>2 DEF childFrame, forkVars, stats, endVars, GoodMain
  <1>3. CASE UNCHANGED vars
    BY <1>0, <1>3 DEF vars, forkVars, stats, endVars, childVars, GoodMain, GoodChild
  <1> QED
    BY <1>1, <1>2, <1>3, QuietMain DEF Next, ChildStep, Done

\* test35 fails only if something it is to notice has gone wrong.
THEOREM NoAlarmIsFalse == Spec => []NoFalseAlarm
  <1>1. Quiet => NoFalseAlarm
    BY DEF Quiet, GoodMain, NoFalseAlarm, Harmless
  <1> QED
    BY <1>1, InvInit, InvNext, QuietInit, QuietNext, PTL DEF Spec

-----------------------------------------------------------------------------
(* Every fault that test35 can see leaves a trace until the verdict.       *)

ChildFailed == \E c \in Forks : cpc[c] \in {"exit1", "killed"}
MainIgnored == pc = "checkEnabled" /\ parentMask = 0
ChildIgnored == \E c \in Forks : cpc[c] = "check" /\ childMask[c] = 0
ChildInherited == \E c \in Forks : cpc[c] = "initial" /\ childMask[c] = 1

\* The trace that each fault leaves.
Trace(f) ==
  CASE f \in {"nodes", "create"} -> pc = "exit1"
    [] f = "refuse"              -> pc = "exit1" \/ ChildFailed
    [] f = "ignore"              -> pc = "exit1" \/ MainIgnored \/ ChildFailed \/ ChildIgnored
    [] f \in {"pin", "stray"}    -> threadFailures > 0
    [] f = "fork"                -> failedForks > 0
    [] f = "inherit"             -> ChildFailed \/ ChildInherited
    [] f = "killed"              -> ChildFailed
    [] OTHER                     -> TRUE

Traced == \A f \in struck : Trace(f)

\* Exit status 0 is given to clean counters only.
CleanPass == pc = "exit0" => threadFailures = 0 /\ failedForks = 0

LEMMA TracedInit == Init => Traced /\ CleanPass
  BY DEF Init, Traced, CleanPass

\* A fault of a call of main.
LEMMA MainStrikes ==
  ASSUME TypeOK, Main, NEW f \in struck', f \notin struck PROVE Trace(f)'
  <1> USE DEF Trace, TypeOK
  <1>1. CASE CountNodes \/ StartThread
    BY <1>1, CallAnswers, Noted DEF CountNodes, StartThread
  <1>2. CASE EnableParent
    BY <1>2, EnableAnswers, Noted DEF EnableParent, MainIgnored
  <1>3. CASE CheckEnabled \/ VerifyParent \/ CheckDisabled
    BY <1>3, GetAnswers, Noted DEF CheckEnabled, VerifyParent, CheckDisabled
  <1>4. CASE ForkFails
    BY <1>4, ForkAnswers, Noted DEF ForkFails
  <1>5. CASE ForkChild
    <2>1. PICK a \in Fork(parentMask) :
            /\ a.ret > 0 /\ struck' = Note(struck, a)
            /\ childMask' = [childMask EXCEPT ![i] = a.child]
      BY <1>5 DEF ForkChild
    <2>2. f = a.fault /\ f # "none"
      BY <2>1, Noted
    <2>3. f = "lose" \/ (f = "inherit" /\ a.child = 1)
      BY <2>1, <2>2, ForkAnswers
    <2>4. i \in Forks /\ cpc' = [cpc EXCEPT ![i] = "initial"]
      BY <1>5 DEF ForkChild
    <2> QED
      BY <2>1, <2>3, <2>4 DEF ChildInherited
  <1>6. CASE DisableParent
    BY <1>6, DisableAnswers, Noted DEF DisableParent
  <1> QED
    BY <1>1, <1>2, <1>3, <1>4, <1>5, <1>6
    DEF Main, ThreadsStarted, ForksDone, ThreadsJoined, EndLoop, StopThreads, JoinThread,
        ReapChild, ReportResults

\* A fault of a call of a thread.
LEMMA ThreadStrikes ==
  ASSUME TypeOK, NEW f \in struck', f \notin struck,
         \/ \E t \in FaultThreads : FaultThread(t)
         \/ \E t \in MigrationThreads : MigrationThread(t)
  PROVE  Trace(f)'
  <1> USE DEF Trace, TypeOK, GoOnOrFail
  <1>1. ASSUME NEW t \in FaultThreads, FaultThread(t) PROVE Trace(f)'
    <2>1. CASE FaultPin(t)
      BY <2>1, CallAnswers, Noted DEF FaultPin
    <2>2. CASE FaultIteration(t)
      BY <2>2, CallAnswers, Noted DEF FaultIteration
    <2>3. CASE FaultCheck(t)
      BY <2>3, GetAnswers, Noted DEF FaultCheck
    <2>4. CASE FaultEnd(t)
      BY <2>4 DEF FaultEnd
    <2> QED
      BY <1>1, <2>1, <2>2, <2>3, <2>4 DEF FaultThread
  <1>2. ASSUME NEW t \in MigrationThreads, MigrationThread(t) PROVE Trace(f)'
    <2>1. CASE MigrationPin(t)
      BY <2>1, CallAnswers, Noted DEF MigrationPin
    <2>2. CASE MigrationVerify(t)
      BY <2>2, CallAnswers, Noted DEF MigrationVerify
    <2>3. CASE MigrationEnd(t)
      BY <2>3 DEF MigrationEnd
    <2> QED
      BY <1>2, <2>1, <2>2, <2>3 DEF MigrationThread
  <1> QED
    BY <1>1, <1>2

\* A fault of a call of a child.
LEMMA ChildStrikes ==
  ASSUME TypeOK, NEW c \in Forks, ChildStep(c), NEW f \in struck', f \notin struck
  PROVE  Trace(f)'
  <1>0. childMask[c] \in Mask
    BY DEF TypeOK
  <1> USE <1>0 DEF Trace, TypeOK, GoOnOrExit
  <1>1. CASE ChildInitial(c) \/ ChildCheck(c)
    BY <1>1, GetAnswers, Noted DEF ChildInitial, ChildCheck
  <1>2. CASE ChildEnable(c)
    <2>1. PICK a \in Enable(childMask[c]) :
            /\ cpc' = [cpc EXCEPT ![c] = IF a.ret >= 0 THEN "check" ELSE "exit1"]
            /\ childMask' = [childMask EXCEPT ![c] = a.mask]
            /\ struck' = Note(struck, a)
      BY <1>2 DEF ChildEnable
    <2>2. f = a.fault /\ f # "none"
      BY <2>1, Noted
    <2>3. CASE f = "refuse"
      <3>1. a.ret = -1
        BY <2>2, <2>3, EnableAnswers
      <3>2. cpc'[c] = "exit1"
        BY <2>1, <3>1
      <3> QED
        BY <2>3, <3>2 DEF ChildFailed
    <2>4. CASE f = "ignore"
      <3>1. a.ret = 0 /\ a.mask = 0
        BY <2>2, <2>4, EnableAnswers
      <3>2. cpc'[c] = "check" /\ childMask'[c] = 0
        BY <2>1, <3>1
      <3> QED
        BY <2>4, <3>2 DEF ChildIgnored
    <2> QED
      BY <2>1, <2>2, <2>3, <2>4, EnableAnswers
  <1>3. CASE ChildDisable(c)
    BY <1>3, DisableAnswers, Noted DEF ChildDisable
  <1>4. CASE ChildKilled(c)
    BY <1>4, CallAnswers, Noted DEF ChildKilled, ChildFailed
  <1> QED
    BY <1>1, <1>2, <1>3, <1>4 DEF Child, ChildStep

\* Main leaves the children alone that it has made.
LEMMA MainTrace ==
  ASSUME IInv, Main, NEW f, Trace(f) PROVE Trace(f)'
  <1>0. TypeOK /\ ForkLoop /\ parentMask \in Mask
    BY DEF IInv, TypeOK
  <1> USE <1>0 DEF forkVars, stats, endVars, threadVars, childVars
  <1>1. \A c \in Forks : cpc[c] # "unborn" =>
          cpc'[c] = cpc[c] /\ childMask'[c] = childMask[c]
    <2>1. CASE ForkChild
      <3>1. i \in Forks /\ cpc[i] = "unborn"
        BY <2>1, SizesAssumption DEF ForkChild, ForkLoop, Forks
      <3> QED
        BY <2>1, <3>1 DEF ForkChild, TypeOK
    <2>2. CASE ~ForkChild
      BY <2>2 DEF Main, CountNodes, EnableParent, CheckEnabled, StartThread,
        ThreadsStarted, ForkFails, VerifyParent, ForksDone, DisableParent,
        CheckDisabled, StopThreads, JoinThread, ThreadsJoined, ReapChild, ReportResults, EndLoop
    <2> QED
      BY <2>1, <2>2
  <1>2. /\ ChildFailed => ChildFailed'
        /\ ChildIgnored => ChildIgnored'
        /\ ChildInherited => ChildInherited'
    BY <1>1 DEF ChildFailed, ChildIgnored, ChildInherited
  <1>3. pc # "exit1"
    BY DEF Main, CountNodes, EnableParent, CheckEnabled, StartThread,
      ThreadsStarted, ForkFails, ForkChild, VerifyParent, ForksDone, DisableParent,
      CheckDisabled, StopThreads, JoinThread, ThreadsJoined, ReapChild, ReportResults, EndLoop
  <1>4. MainIgnored => pc' = "exit1"
    <2> SUFFICES ASSUME MainIgnored PROVE pc' = "exit1"
      OBVIOUS
    <2>1. CheckEnabled
      BY DEF MainIgnored, Main, CountNodes, EnableParent, CheckEnabled, StartThread,
        ThreadsStarted, ForkFails, ForkChild, VerifyParent, ForksDone, DisableParent,
        CheckDisabled, StopThreads, JoinThread, ThreadsJoined, ReapChild, ReportResults, EndLoop
    <2> QED
      BY <2>1, GetAnswers DEF MainIgnored, CheckEnabled
  <1>5. threadFailures' = threadFailures /\ failedForks' >= failedForks
    BY DEF TypeOK, Main, CountNodes, EnableParent, CheckEnabled, StartThread,
      ThreadsStarted, ForkFails, ForkChild, VerifyParent, ForksDone, DisableParent,
      CheckDisabled, StopThreads, JoinThread, ThreadsJoined, ReapChild, ReportResults, EndLoop
  <1>6. failedForks > 0 => failedForks' > 0
    <2>1. failedForks' \in Int
      BY InvNext DEF Next, IInv, TypeOK
    <2> QED
      BY <1>5, <2>1 DEF TypeOK
  <1> QED
    BY <1>2, <1>3, <1>4, <1>5, <1>6 DEF Trace

LEMMA ThreadTrace ==
  ASSUME TypeOK, TypeOK', NEW f, Trace(f), NEW t \in Threads, ThreadFrame(t),
         UNCHANGED threadFrame
  PROVE  Trace(f)'
  <1>1. UNCHANGED <<pc, failedForks, cpc, childMask, parentMask>>
    BY DEF threadFrame, forkVars, childVars
  <1>2. threadFailures > 0 => threadFailures' > 0
    BY DEF ThreadFrame, TypeOK
  <1> QED
    BY <1>1, <1>2
    DEF Trace, ChildFailed, MainIgnored, ChildIgnored, ChildInherited

\* A child that is not as its calls say finds out at its next query.
LEMMA ChildTrace ==
  ASSUME TypeOK, NEW c \in Forks, ChildStep(c), NEW f, Trace(f) PROVE Trace(f)'
  <1>0. childMask[c] \in Mask
    BY DEF TypeOK
  <1>1. ChildFrame(c) /\ UNCHANGED <<pc, failedForks, threadFailures, parentMask>>
    BY ChildMoves DEF childFrame, forkVars, stats
  <1>2. \A d \in Forks \ {c} : childMask'[d] = childMask[d] /\ cpc'[d] = cpc[d]
    BY DEF TypeOK, ChildStep, ChildKilled, Child, ChildInitial,
      ChildEnable, ChildCheck, ChildDisable, GoOnOrExit
  <1>3. cpc[c] = "check" /\ childMask[c] = 0 => cpc'[c] \in {"exit1", "killed"}
    BY <1>0, GetAnswers
    DEF TypeOK, ChildStep, ChildKilled, Child, ChildInitial,
      ChildEnable, ChildCheck, ChildDisable, GoOnOrExit
  <1>4. cpc[c] = "initial" /\ childMask[c] = 1 => cpc'[c] \in {"exit1", "killed"}
    BY <1>0, GetAnswers
    DEF TypeOK, ChildStep, ChildKilled, Child, ChildInitial,
      ChildEnable, ChildCheck, ChildDisable, GoOnOrExit
  <1>5. ChildFailed => ChildFailed'
    BY <1>1, <1>2 DEF ChildFailed, ChildFrame
  <1>6. ChildIgnored => ChildIgnored' \/ ChildFailed'
    BY <1>2, <1>3 DEF ChildIgnored, ChildFailed
  <1>7. ChildInherited => ChildInherited' \/ ChildFailed'
    BY <1>2, <1>4 DEF ChildInherited, ChildFailed
  <1> QED
    BY <1>1, <1>5, <1>6, <1>7 DEF Trace, MainIgnored

LEMMA TracedNext == IInv /\ Traced /\ [Next]_vars => Traced'
  <1> SUFFICES ASSUME IInv, Traced, [Next]_vars, NEW f \in struck' PROVE Trace(f)'
    BY DEF Traced
  <1>0. TypeOK /\ TypeOK' /\ (f \in struck => Trace(f))
    BY TypeNext DEF IInv, Traced
  <1>1. CASE Main
    BY <1>0, <1>1, MainStrikes, MainTrace
  <1>2. CASE \/ \E t \in FaultThreads : FaultThread(t)
             \/ \E t \in MigrationThreads : MigrationThread(t)
    <2>1. PICK t \in Threads : ThreadFrame(t) /\ UNCHANGED threadFrame
      BY <1>0, <1>2, FaultThreadMoves, MigrationThreadMoves, ThreadsType
    <2> QED
      BY <1>0, <1>2, <2>1, ThreadStrikes, ThreadTrace
  <1>3. ASSUME NEW c \in Forks, ChildStep(c) PROVE Trace(f)'
    BY <1>0, <1>3, ChildStrikes, ChildTrace
  <1>4. CASE UNCHANGED vars
    BY <1>0, <1>4
    DEF vars, forkVars, stats, childVars, Trace, ChildFailed, MainIgnored, ChildIgnored,
        ChildInherited
  <1> QED
    BY <1>1, <1>2, <1>3, <1>4 DEF Next, ChildStep, Done

LEMMA CleanNext == IInv /\ CleanPass /\ [Next]_vars => CleanPass'
  <1> SUFFICES ASSUME IInv, CleanPass, [Next]_vars, pc' = "exit0"
               PROVE  threadFailures' = 0 /\ failedForks' = 0
    BY DEF CleanPass
  <1>1. CASE Main
    <2>1. ReportResults
      BY <1>1 DEF Main, CountNodes, EnableParent, CheckEnabled, StartThread,
        ThreadsStarted, ForkFails, ForkChild, VerifyParent, ForksDone, DisableParent,
        CheckDisabled, StopThreads, JoinThread, ThreadsJoined, ReapChild, EndLoop
    <2> QED
      BY <2>1 DEF ReportResults, AllOk, stats, forkVars
  <1>2. CASE \/ \E t \in FaultThreads : FaultThread(t)
             \/ \E t \in MigrationThreads : MigrationThread(t)
    BY <1>2, FaultThreadMoves, MigrationThreadMoves
    DEF IInv, threadFrame, Exited
  <1>3. ASSUME NEW c \in Forks, ChildStep(c) PROVE threadFailures' = 0 /\ failedForks' = 0
    BY <1>3, ChildMoves DEF IInv, childFrame, stats, forkVars, CleanPass
  <1>4. CASE UNCHANGED vars
    BY <1>4 DEF vars, stats, forkVars, CleanPass
  <1> QED
    BY <1>1, <1>2, <1>3, <1>4 DEF Next, ChildStep, Done

\* Exit status 0 of test35: none of the faults it can see has struck, in main,
\* a thread or a child.
THEOREM NoFaultIsMissed == Spec => []FaultsCaught
  <1>1. IInv /\ Traced /\ CleanPass => FaultsCaught
    <2> SUFFICES ASSUME IInv, Traced, CleanPass, pc = "exit0",
                        NEW f \in {"nodes", "refuse", "ignore", "create", "pin",
                                   "stray", "fork", "inherit", "killed"},
                        f \in struck
                 PROVE  FALSE
      BY DEF FaultsCaught
    <2>1. ~ChildFailed /\ ~ChildIgnored /\ ~ChildInherited /\ ~MainIgnored
      BY DEF IInv, VerdictSound, ChildFailed, ChildIgnored, ChildInherited, MainIgnored
    <2>2. threadFailures = 0 /\ failedForks = 0 /\ Trace(f)
      BY DEF CleanPass, Traced
    <2> QED
      BY <2>1, <2>2 DEF Trace
  <1> QED
    BY <1>1, InvInit, InvNext, TracedInit, TracedNext, CleanNext, PTL DEF Spec

=============================================================================
