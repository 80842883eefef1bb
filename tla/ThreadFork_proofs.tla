------------------------- MODULE ThreadFork_proofs -------------------------
(***************************************************************************)
(* ThreadFork for any number of workers: the slots of thread_data[] are    *)
(* stable under their workers, the process forks alone, the counts are     *)
(* right, and the verdict is sound.                                        *)
(***************************************************************************)
EXTENDS ThreadFork, ReplKernel_proofs, FiniteSetTheorems

\* Where main is tells how far the workers of its two rounds are.
FirstRoundOf(t) ==
  /\ pc \in {"nodes", "enable", "checkEnabled"} => wpc[<<0, t>>] = "absent"
  /\ pc = "create" /\ t >= i => wpc[<<0, t>>] = "absent"
  /\ pc = "join" /\ t < i => WorkerEnded(<<0, t>>)
  /\ pc \in {"judge", "fork", "afterFork", "recreate", "rejoin", "reap", "exit0"} =>
       WorkerEnded(<<0, t>>)

BeforeFork == {"nodes", "enable", "checkEnabled", "create", "join", "judge", "fork"}

SecondRoundOf(t) ==
  /\ pc \in BeforeFork \cup {"afterFork"} => wpc[<<1, t>>] = "absent"
  /\ pc = "recreate" /\ t >= i => wpc[<<1, t>>] = "absent"
  /\ pc = "rejoin" /\ t < i => WorkerEnded(<<1, t>>)
  /\ pc \in {"reap", "exit0"} => WorkerEnded(<<1, t>>)

FirstRound == \A t \in Threads : FirstRoundOf(t)
SecondRound == \A t \in Threads : SecondRoundOf(t)

\* The loops start at 0.
Counter ==
  pc \in {"nodes", "enable", "checkEnabled", "judge", "fork", "afterFork", "reap"} => i = 0

\* The child, and its worker, are there after the fork only; and main passes
\* only after a child that has passed.
ChildRound ==
  /\ pc \in BeforeFork => cpc = "unborn"
  /\ cpc \in {"unborn", "initial", "enable", "check", "create"} => wpc[ChildThread] = "absent"
  /\ pc = "exit0" => cpc = "exit0"

Rounds == FirstRound /\ SecondRound /\ Counter /\ ChildRound

IInv == TypeOK /\ Rounds /\ PhaseStable

-----------------------------------------------------------------------------
LEMMA WorkersAre ==
  /\ \A r \in {0, 1}, t \in Threads :
       <<r, t>> \in Workers /\ <<r, t>> # ChildThread /\ ProcOf(<<r, t>>) = "parent"
  /\ ChildThread \in Workers /\ ProcOf(ChildThread) = "child"
  /\ \A w \in Workers : w # ChildThread => \E r \in {0, 1}, t \in Threads : w = <<r, t>>
  /\ \A w \in Workers : w[1] \in 0 .. 2 /\ w[2] \in Slots /\ ProcOf(w) \in {"parent", "child"}
  BY NumThreadsAssumption DEF Workers, ChildThread, Threads, Slots, ProcOf

LEMMA TypeInit == Init => TypeOK
  BY NumThreadsAssumption DEF Init, TypeOK, Mask, Slots, Workers

LEMMA TypeNext == TypeOK /\ [Next]_vars => TypeOK'
  <1> SUFFICES ASSUME TypeOK, [Next]_vars PROVE TypeOK'
    OBVIOUS
  <1> USE NumThreadsAssumption DEF TypeOK, workerVars, results
  <1>1. CASE CountNodes \/ CheckEnabled \/ JudgePreFork \/ ReapAndReport \/ ForkFails
    BY <1>1 DEF CountNodes, CheckEnabled, JudgePreFork, ReapAndReport, ForkFails
  <1>2. CASE EnableParent
    BY <1>2, EnableAnswers DEF EnableParent, Mask
  <1>3. CASE CreateThread
    <2>1. i \in Threads /\ RoundAt(pc) \in {0, 1} /\ <<RoundAt(pc), i>> \in Workers
      BY <1>3, WorkersAre DEF CreateThread, RoundAt
    <2> DEFINE w == <<RoundAt(pc), i>>
    <2>2. w \in Workers /\ w[1] \in 0 .. 2 /\ w[2] \in Slots
      BY <2>1, WorkersAre
    <2>3. \/ Create(w) /\ i' = i + 1 /\ UNCHANGED pc
          \/ pc' = "exit1" /\ UNCHANGED <<i, workerVars>>
      BY <1>3 DEF CreateThread
    <2>4. UNCHANGED <<results, cpc, mask>>
      BY <1>3 DEF CreateThread
    <2> HIDE DEF w
    <2> QED
      BY <2>1, <2>2, <2>3, <2>4 DEF Create, Threads
  <1>4. CASE ThreadsCreated \/ ThreadsJoined \/ JoinThread
    BY <1>4 DEF ThreadsCreated, ThreadsJoined, EndLoop, JoinThread, Threads
  <1>5. CASE ForkChild
    BY <1>5, ForkAnswers DEF ForkChild, Mask
  <1>6. CASE CheckAfterFork
    BY <1>6 DEF CheckAfterFork
  <1>7. ASSUME NEW w \in Workers, Worker(w) PROVE TypeOK'
    BY <1>7, WorkersAre DEF Worker, WorkerPlace, WorkerCheck, WorkerCount, GoOn, Fail
  <1>8. CASE ChildInitial \/ ChildCheck \/ ChildJoin
    BY <1>8 DEF ChildInitial, ChildCheck, ChildJoin
  <1>9. CASE ChildEnable
    BY <1>9, EnableAnswers DEF ChildEnable, Mask
  <1>10. CASE ChildCreate
    BY <1>10, WorkersAre DEF ChildCreate, Create, ChildThread, Slots
  <1>11. CASE UNCHANGED vars
    BY <1>11 DEF vars
  <1>12. CASE ChildKilled
    BY <1>12 DEF ChildKilled
  <1> QED
    BY <1>1, <1>2, <1>3, <1>4, <1>5, <1>6, <1>7, <1>8, <1>9, <1>10, <1>11, <1>12
    DEF Next, Main, Child, Done

\* Every variable keeps its type.
THEOREM TypeCorrect == Spec => []TypeOK
  BY TypeInit, TypeNext, PTL DEF Spec

-----------------------------------------------------------------------------
LEMMA InvInit == Init => IInv
  BY TypeInit, WorkersAre
  DEF Init, IInv, Rounds, FirstRound, FirstRoundOf, SecondRound, SecondRoundOf,
      Counter, ChildRound, BeforeFork, PhaseStable

\* A step that leaves the workers and the child alone.
LEMMA QuietSteps ==
  ASSUME IInv,
         \/ CountNodes \/ EnableParent \/ CheckEnabled \/ ThreadsCreated \/ JoinThread
         \/ ThreadsJoined \/ JudgePreFork \/ ForkFails \/ ReapAndReport
  PROVE  Rounds' /\ PhaseStable'
  <1> USE NumThreadsAssumption
      DEF CountNodes, EnableParent, CheckEnabled, ThreadsCreated, JoinThread,
          ThreadsJoined, JudgePreFork, ForkFails, ReapAndReport, EndLoop, workerVars,
          results
  <1>1. UNCHANGED <<workerVars, cpc>>
    OBVIOUS
  <1>2. PhaseStable'
    BY <1>1 DEF IInv, PhaseStable
  <1>3. FirstRound' /\ SecondRound'
    <2> SUFFICES ASSUME NEW t \in Threads
                 PROVE  FirstRoundOf(t)' /\ SecondRoundOf(t)'
      BY DEF FirstRound, SecondRound
    <2>1. /\ FirstRoundOf(t) /\ SecondRoundOf(t) /\ Counter
          /\ t \in Int /\ 0 <= t /\ t < NUM_THREADS /\ i \in Int
      BY DEF IInv, Rounds, FirstRound, SecondRound, Threads, TypeOK
    <2>2. \A r \in {0, 1} : wpc'[<<r, t>>] = wpc[<<r, t>>]
      BY <1>1
    <2>3. CASE JoinThread
      BY <2>1, <2>2, <2>3
      DEF FirstRoundOf, SecondRoundOf, RoundAt, WorkerEnded, BeforeFork
    <2>4. CASE ThreadsCreated \/ ThreadsJoined
      BY <2>1, <2>2, <2>4 DEF FirstRoundOf, SecondRoundOf, WorkerEnded, BeforeFork
    <2>5. CASE ~JoinThread /\ ~ThreadsCreated /\ ~ThreadsJoined
      BY <2>1, <2>2, <2>5
      DEF FirstRoundOf, SecondRoundOf, WorkerEnded, BeforeFork, Counter
    <2> QED
      BY <2>3, <2>4, <2>5
  <1>4. Counter'
    BY <1>1 DEF IInv, Rounds, Counter, TypeOK, Threads
  <1>5. ChildRound'
    BY <1>1 DEF IInv, Rounds, ChildRound, BeforeFork, TotalOk
  <1> QED
    BY <1>2, <1>3, <1>4, <1>5 DEF Rounds

\* A new worker has a slot that no other worker uses any more.
LEMMA CreateStep ==
  ASSUME IInv, CreateThread PROVE Rounds' /\ PhaseStable'
  <1> DEFINE r == RoundAt(pc)
  <1>1. /\ i \in Threads /\ r \in {0, 1} /\ <<r, i>> \in Workers
        /\ (pc = "create" /\ r = 0) \/ (pc = "recreate" /\ r = 1)
        /\ UNCHANGED <<results, cpc, mask>>
    BY WorkersAre DEF CreateThread, RoundAt
  <1>2. CASE Create(<<r, i>>) /\ i' = i + 1 /\ UNCHANGED pc
    <2>1. \A w \in Workers \ {<<r, i>>} : wpc'[w] = wpc[w]
      BY <1>2, WorkersAre DEF Create, IInv, TypeOK
    <2>2. /\ wpc'[<<r, i>>] = "place" /\ phase'[i] = r
          /\ \A t \in Slots \ {i} : phase'[t] = phase[t]
      BY <1>1, <1>2, WorkersAre DEF Create, IInv, TypeOK, Slots, Threads
    <2>3. \A w \in Workers \ {<<r, i>>} :
            w[2] = i => wpc[w] \notin {"place", "check", "count"}
      <3> SUFFICES ASSUME NEW w \in Workers, w # <<r, i>>, w[2] = i
                   PROVE  wpc[w] \notin {"place", "check", "count"}
        OBVIOUS
      <3>1. w = <<1 - r, i>>
        BY <1>1, WorkersAre, NumThreadsAssumption DEF ChildThread, Threads
      <3> QED
        BY <1>1, <3>1
        DEF IInv, Rounds, FirstRound, FirstRoundOf, SecondRound, SecondRoundOf,
            BeforeFork, WorkerEnded
    <2>4. PhaseStable'
      <3> SUFFICES ASSUME NEW w \in Workers, wpc'[w] \in {"place", "check", "count"}
                   PROVE  phase'[w[2]] = w[1]
        BY DEF PhaseStable
      <3> QED
        BY <1>1, <2>1, <2>2, <2>3, WorkersAre DEF IInv, PhaseStable
    <2>5. FirstRound' /\ SecondRound'
      <3> SUFFICES ASSUME NEW t \in Threads
                   PROVE  FirstRoundOf(t)' /\ SecondRoundOf(t)'
        BY DEF FirstRound, SecondRound
      <3>1. FirstRoundOf(t) /\ SecondRoundOf(t) /\ t \in Int /\ i \in Int
        BY DEF IInv, Rounds, FirstRound, SecondRound, Threads, TypeOK
      <3>2. /\ wpc'[<<1 - r, t>>] = wpc[<<1 - r, t>>]
            /\ t # i => wpc'[<<r, t>>] = wpc[<<r, t>>]
        BY <1>1, <2>1, WorkersAre
      <3>3. CASE pc = "create" /\ r = 0
        BY <1>2, <3>1, <3>2, <3>3 DEF FirstRoundOf, SecondRoundOf, BeforeFork
      <3>4. CASE pc = "recreate" /\ r = 1
        BY <1>2, <3>1, <3>2, <3>4
        DEF FirstRoundOf, SecondRoundOf, BeforeFork, WorkerEnded
      <3> QED
        BY <1>1, <3>3, <3>4
    <2>6. Counter' /\ ChildRound'
      BY <1>1, <1>2, <2>1, WorkersAre DEF IInv, Rounds, Counter, ChildRound, BeforeFork
    <2> QED
      BY <2>4, <2>5, <2>6 DEF Rounds
  <1>3. CASE pc' = "exit1" /\ UNCHANGED <<i, workerVars>>
    BY <1>1, <1>3
    DEF IInv, Rounds, FirstRound, FirstRoundOf, SecondRound, SecondRoundOf, Counter,
        ChildRound,
       BeforeFork, PhaseStable, workerVars
  <1> QED
    BY <1>2, <1>3 DEF CreateThread

LEMMA ForkSteps ==
  ASSUME IInv, ForkChild \/ CheckAfterFork PROVE Rounds' /\ PhaseStable'
  <1>1. CASE ForkChild
    BY <1>1
    DEF ForkChild, IInv, Rounds, FirstRound, FirstRoundOf, SecondRound,
        SecondRoundOf, Counter, ChildRound,
       BeforeFork, PhaseStable, WorkerEnded, workerVars
  <1>2. CASE CheckAfterFork
    <2>1. /\ pc = "afterFork" /\ UNCHANGED <<i, wpc, cpc>>
          /\ \/ pc' = "exit1" /\ UNCHANGED phase
             \/ /\ pc' = "recreate"
                /\ phase' = [t \in Slots |-> IF t \in Threads THEN 0 ELSE phase[t]]
      BY <1>2 DEF CheckAfterFork
    <2>2. Rounds'
      BY <2>1
      DEF IInv, Rounds, FirstRound, FirstRoundOf, SecondRound, SecondRoundOf,
          Counter, ChildRound,
         BeforeFork, WorkerEnded, Threads, TypeOK
    <2>3. \A w \in Workers : wpc[w] \in {"place", "check", "count"} => w = ChildThread
      BY <2>1, WorkersAre
      DEF IInv, Rounds, FirstRound, FirstRoundOf, SecondRound, SecondRoundOf,
          WorkerEnded, BeforeFork
    <2>4. PhaseStable'
      BY <2>1, <2>3, WorkersAre, NumThreadsAssumption
      DEF IInv, PhaseStable, ChildThread, Threads, Slots
    <2> QED
      BY <2>2, <2>4
  <1> QED
    BY <1>1, <1>2

\* A worker that still runs takes a step.
LEMMA WorkerSteps ==
  ASSUME IInv, NEW w \in Workers, Worker(w) PROVE Rounds' /\ PhaseStable'
  <1>1. /\ wpc[w] \in {"place", "check", "count"}
        /\ wpc' = [wpc EXCEPT ![w] = wpc'[w]]
        /\ wpc'[w] # "absent"
        /\ UNCHANGED <<pc, i, phase, cpc, mask>>
        /\ ~Exited \/ w = ChildThread
    BY DEF Worker, WorkerPlace, WorkerCheck, WorkerCount, GoOn, Fail, At, IInv, TypeOK
  <1>2. \A v \in Workers \ {w} : wpc'[v] = wpc[v]
    BY <1>1 DEF IInv, TypeOK
  <1>3. PhaseStable'
    BY <1>1, <1>2 DEF IInv, PhaseStable
  <1>4. FirstRound' /\ SecondRound'
    BY <1>1, <1>2, WorkersAre
    DEF IInv, Rounds, FirstRound, FirstRoundOf, SecondRound, SecondRoundOf, WorkerEnded
  <1>5. Counter' /\ ChildRound'
    BY <1>1, <1>2, WorkersAre DEF IInv, Rounds, Counter, ChildRound
  <1> QED
    BY <1>3, <1>4, <1>5 DEF Rounds

LEMMA ChildSteps ==
  ASSUME IInv, Child \/ ChildKilled PROVE Rounds' /\ PhaseStable'
  <1>1. /\ cpc \notin {"unborn", "exit0", "exit1", "killed"} /\ cpc' # "unborn"
        /\ UNCHANGED <<pc, i>>
    BY DEF Child, ChildKilled, ChildInitial, ChildEnable, ChildCheck, ChildCreate, ChildJoin,
       ChildEnded
  <1>2. CASE UNCHANGED workerVars /\ cpc' # "create"
    BY <1>1, <1>2
    DEF IInv, Rounds, FirstRound, FirstRoundOf, SecondRound, SecondRoundOf, Counter,
        ChildRound, PhaseStable,
        WorkerEnded, workerVars, Child, ChildKilled, ChildInitial, ChildEnable, ChildCheck,
        ChildCreate, ChildJoin
  <1>3. CASE UNCHANGED workerVars /\ cpc' = "create"
    BY <1>1, <1>3
    DEF IInv, Rounds, FirstRound, FirstRoundOf, SecondRound, SecondRoundOf, Counter,
        ChildRound, PhaseStable,
        WorkerEnded, workerVars, Child, ChildKilled, ChildInitial, ChildEnable, ChildCheck,
        ChildCreate, ChildJoin
  <1>4. CASE Create(ChildThread) /\ cpc' = "join"
    <2>1. \A v \in Workers \ {ChildThread} : wpc'[v] = wpc[v]
      BY <1>4 DEF Create, IInv, TypeOK
    <2>2. /\ phase'[NUM_THREADS] = 2
          /\ \A t \in Threads : phase'[t] = phase[t]
      BY <1>4, NumThreadsAssumption
      DEF Create, ChildThread, IInv, TypeOK, Slots, Threads
    <2>3. PhaseStable'
      <3> SUFFICES ASSUME NEW w \in Workers, wpc'[w] \in {"place", "check", "count"}
                   PROVE  phase'[w[2]] = w[1]
        BY DEF PhaseStable
      <3>1. CASE w = ChildThread
        BY <2>2, <3>1 DEF ChildThread
      <3>2. CASE w # ChildThread
        BY <2>1, <2>2, <3>2, WorkersAre DEF IInv, PhaseStable
      <3> QED
        BY <3>1, <3>2
    <2>4. FirstRound' /\ SecondRound'
      BY <1>1, <2>1, WorkersAre
      DEF IInv, Rounds, FirstRound, FirstRoundOf, SecondRound, SecondRoundOf,
          WorkerEnded
    <2>5. Counter' /\ ChildRound'
      BY <1>1, <1>4 DEF IInv, Rounds, Counter, ChildRound
    <2> QED
      BY <2>3, <2>4, <2>5 DEF Rounds
  <1> QED
    BY <1>2, <1>3, <1>4
    DEF Child, ChildKilled, ChildInitial, ChildEnable, ChildCheck, ChildCreate, ChildJoin

LEMMA InvNext == IInv /\ [Next]_vars => IInv'
  <1> SUFFICES ASSUME IInv, [Next]_vars PROVE IInv'
    OBVIOUS
  <1>1. TypeOK'
    BY TypeNext DEF IInv
  <1>2. CASE UNCHANGED vars
    BY <1>2
    DEF vars, IInv, TypeOK, Rounds, FirstRound, FirstRoundOf, SecondRound,
        SecondRoundOf, Counter, ChildRound,
       PhaseStable, WorkerEnded
  <1> QED
    BY <1>1, <1>2, QuietSteps, CreateStep, ForkSteps, WorkerSteps, ChildSteps
    DEF Next, Main, Done, IInv

\* The slot of a worker is neither zeroed nor reused while it runs.
THEOREM PhasesAreStable == Spec => []PhaseStable
  <1>1. IInv => PhaseStable
    BY DEF IInv
  <1> QED
    BY <1>1, InvInit, InvNext, PTL DEF Spec

\* The process forks when none of its workers runs any more.
THEOREM ForksSingleThreaded == Spec => []ForksAlone
  <1>1. IInv => ForksAlone
    BY DEF IInv, Rounds, FirstRound, FirstRoundOf, ForksAlone
  <1> QED
    BY <1>1, InvInit, InvNext, PTL DEF Spec

-----------------------------------------------------------------------------
(* The workers of the second round that passed are counted.                *)

SecondOk == {t \in Threads : wpc[<<1, t>>] = "returned"}

\* A worker that has failed is in the failures of its process.
FailuresCounted ==
  \A r \in {0, 1}, t \in Threads : wpc[<<r, t>>] = "failed" => failures["parent"] > 0

LEMMA ThreadsFinite == IsFiniteSet(Threads) /\ Cardinality(Threads) = NUM_THREADS
  <1>1. 0 \in Int /\ NUM_THREADS - 1 \in Int
    BY NumThreadsAssumption
  <1>2. /\ IsFiniteSet(0 .. NUM_THREADS - 1)
        /\ Cardinality(0 .. NUM_THREADS - 1) =
             IF 0 > NUM_THREADS - 1 THEN 0 ELSE NUM_THREADS - 1 - 0 + 1
    BY <1>1, FS_Interval
  <1> QED
    BY <1>2, NumThreadsAssumption DEF Threads

LEMMA SecondOkFinite == IsFiniteSet(SecondOk)
  BY ThreadsFinite, FS_Subset DEF SecondOk

LEMMA CountInit == Init => OkCount /\ FailuresCounted
  <1> SUFFICES ASSUME Init PROVE OkCount /\ FailuresCounted
    OBVIOUS
  <1>1. \A r \in {0, 1}, t \in Threads : wpc[<<r, t>>] = "absent"
    BY WorkersAre DEF Init
  <1>2. SecondOk = {}
    BY <1>1 DEF SecondOk
  <1> QED
    BY <1>1, <1>2, FS_EmptySet DEF Init, OkCount, FailuresCounted, SecondOk

\* The workers that have returned stay so, and only WorkerCount adds one.
LEMMA OkFrame ==
  ASSUME IInv, [Next]_vars, \A w \in Workers : ~WorkerCount(w)
  PROVE  SecondOk' = SecondOk
  <1> SUFFICES ASSUME NEW t \in Threads
               PROVE  wpc'[<<1, t>>] = "returned" <=> wpc[<<1, t>>] = "returned"
    BY DEF SecondOk
  <1> USE WorkersAre DEF IInv, TypeOK
  <1>1. CASE UNCHANGED wpc
    BY <1>1
  <1>2. ASSUME NEW w \in Workers, WorkerPlace(w) \/ WorkerCheck(w)
        PROVE  wpc'[<<1, t>>] = "returned" <=> wpc[<<1, t>>] = "returned"
    BY <1>2 DEF WorkerPlace, WorkerCheck, GoOn, Fail, At
  <1>3. CASE CreateThread
    <2>1. /\ i \in Threads /\ <<RoundAt(pc), i>> \in Workers
          /\ \/ pc = "create" /\ RoundAt(pc) = 0
             \/ pc = "recreate" /\ RoundAt(pc) = 1
      BY <1>3 DEF CreateThread, RoundAt
    <2>2. wpc[<<RoundAt(pc), i>>] = "absent"
      <3>1. FirstRoundOf(i) /\ SecondRoundOf(i) /\ i \in Int
        BY <2>1 DEF Rounds, FirstRound, SecondRound, Threads
      <3>2. CASE pc = "create" /\ RoundAt(pc) = 0
        BY <3>1, <3>2 DEF FirstRoundOf
      <3>3. CASE pc = "recreate" /\ RoundAt(pc) = 1
        BY <3>1, <3>3 DEF SecondRoundOf
      <3> QED
        BY <2>1, <3>2, <3>3
    <2>3. Create(<<RoundAt(pc), i>>) \/ UNCHANGED workerVars
      BY <1>3 DEF CreateThread
    <2> QED
      BY <2>1, <2>2, <2>3 DEF Create, workerVars
  <1>4. CASE ChildCreate
    BY <1>4 DEF ChildCreate, Create, workerVars
  <1> QED
    BY <1>1, <1>2, <1>3, <1>4
    DEF Next, Main, CountNodes, EnableParent, CheckEnabled, ThreadsCreated, JoinThread,
        ThreadsJoined, JudgePreFork, ForkFails, ForkChild, CheckAfterFork,
        ReapAndReport, EndLoop, Child, ChildKilled, ChildInitial, ChildEnable, ChildCheck, ChildJoin,
        Worker, Done, vars, workerVars

LEMMA OkNext == IInv /\ OkCount /\ [Next]_vars => OkCount'
  <1> SUFFICES ASSUME IInv, OkCount, [Next]_vars PROVE OkCount'
    OBVIOUS
  <1>0. parentThreadsOk["parent"] = Cardinality(SecondOk) /\ parentThreadsOk["child"] = 0
    BY DEF OkCount, SecondOk
  <1> SUFFICES /\ parentThreadsOk'["parent"] = Cardinality(SecondOk')
               /\ parentThreadsOk'["child"] = 0
    BY DEF OkCount, SecondOk
  <1>1. ASSUME NEW w \in Workers, WorkerCount(w)
        PROVE  /\ parentThreadsOk'["parent"] = Cardinality(SecondOk')
               /\ parentThreadsOk'["child"] = 0
    <2>1. /\ wpc[w] = "count" /\ phase[w[2]] = w[1]
          /\ wpc' = [wpc EXCEPT ![w] = "returned"]
          /\ parentThreadsOk' =
               [parentThreadsOk EXCEPT ![ProcOf(w)] = @ + IF w[1] = 1 THEN 1 ELSE 0]
      BY <1>1 DEF WorkerCount, GoOn, At, IInv, PhaseStable
    <2>2. CASE w[1] = 1
      <3>1. w # ChildThread
        BY <2>2 DEF ChildThread
      <3>2. PICK t \in Threads : w = <<1, t>>
        BY <2>2, <3>1, WorkersAre
      <3>3. SecondOk' = SecondOk \cup {t} /\ t \notin SecondOk
        BY <2>1, <3>2, WorkersAre DEF SecondOk, IInv, TypeOK
      <3>4. Cardinality(SecondOk') = Cardinality(SecondOk) + 1
        BY <3>3, SecondOkFinite, FS_AddElement
      <3>5. parentThreadsOk'["parent"] = parentThreadsOk["parent"] + 1
            /\ parentThreadsOk'["child"] = parentThreadsOk["child"]
        BY <2>1, <2>2, <3>2, WorkersAre DEF IInv, TypeOK
      <3> QED
        BY <1>0, <3>4, <3>5
    <2>3. CASE w[1] # 1
      <3>1. SecondOk' = SecondOk
        BY <2>1, <2>3, WorkersAre DEF SecondOk, IInv, TypeOK
      <3>2. parentThreadsOk' = parentThreadsOk
        BY <2>1, <2>3, WorkersAre DEF IInv, TypeOK
      <3> QED
        BY <1>0, <3>1, <3>2
    <2> QED
      BY <2>2, <2>3
  <1>2. CASE ForkChild
    <2>1. SecondOk = {}
      BY <1>2
      DEF ForkChild, SecondOk, IInv, Rounds, SecondRound, SecondRoundOf, BeforeFork
    <2>2. parentThreadsOk["parent"] = 0
      BY <1>0, <2>1, FS_EmptySet
    <2>3. SecondOk' = SecondOk
      BY <1>2 DEF ForkChild, workerVars, SecondOk
    <2>4. parentThreadsOk'["parent"] = 0 /\ parentThreadsOk'["child"] = 0
      BY <1>2, <2>2 DEF ForkChild, IInv, TypeOK
    <2> QED
      BY <1>0, <2>2, <2>3, <2>4
  <1>3. CASE ~ForkChild /\ \A w \in Workers : ~WorkerCount(w)
    <2>1. SecondOk' = SecondOk
      BY <1>3, OkFrame
    <2>2. parentThreadsOk' = parentThreadsOk
      BY <1>3
      DEF Next, Main, CountNodes, EnableParent, CheckEnabled, CreateThread,
          ThreadsCreated,
          JoinThread, ThreadsJoined, JudgePreFork, ForkFails, CheckAfterFork,
          ReapAndReport, EndLoop, Child, ChildKilled, ChildInitial, ChildEnable, ChildCheck,
          ChildCreate, ChildJoin, Worker, WorkerPlace, WorkerCheck, Done, vars, results
    <2> QED
      BY <1>0, <2>1, <2>2
  <1> QED
    BY <1>1, <1>2, <1>3

\* parent_threads_ok is right at every moment, for any number of workers.
THEOREM CountIsRight == Spec => []OkCount
  BY InvInit, InvNext, CountInit, OkNext, PTL DEF Spec

LEMMA FailuresNext == IInv /\ FailuresCounted /\ [Next]_vars => FailuresCounted'
  <1> SUFFICES ASSUME IInv, FailuresCounted, [Next]_vars PROVE FailuresCounted'
    OBVIOUS
  <1> SUFFICES ASSUME NEW r \in {0, 1}, NEW t \in Threads, wpc'[<<r, t>>] = "failed"
               PROVE  failures'["parent"] > 0
    BY DEF FailuresCounted
  <1>0. wpc[<<r, t>>] = "failed" => failures["parent"] > 0
    BY DEF FailuresCounted
  <1> USE WorkersAre DEF IInv, TypeOK
  <1>1. CASE UNCHANGED <<wpc, failures>>
    BY <1>0, <1>1
  <1>2. ASSUME NEW w \in Workers, Worker(w) PROVE failures'["parent"] > 0
    BY <1>0, <1>2 DEF Worker, WorkerPlace, WorkerCheck, WorkerCount, GoOn, Fail
  <1>3. CASE CreateThread
    <2>1. <<RoundAt(pc), i>> \in Workers
      BY <1>3 DEF CreateThread, RoundAt
    <2> QED
      BY <1>0, <1>3, <2>1 DEF CreateThread, Create, workerVars, results
  <1>4. CASE ChildCreate
    BY <1>0, <1>4 DEF ChildCreate, Create, workerVars, results
  <1>5. CASE ForkChild
    BY <1>0, <1>5 DEF ForkChild, workerVars
  <1> QED
    BY <1>1, <1>2, <1>3, <1>4, <1>5
    DEF Next, Main, CountNodes, EnableParent, CheckEnabled, ThreadsCreated, JoinThread,
        ThreadsJoined, JudgePreFork, ForkFails, CheckAfterFork, ReapAndReport, EndLoop,
        Child, ChildKilled, ChildInitial, ChildEnable, ChildCheck, ChildJoin, Done, vars, workerVars,
        results

-----------------------------------------------------------------------------
(* The verdict.  A failure once noticed stays noticed; main exits with 0   *)
(* only after the joins and the reaping, when the count tells that every   *)
(* worker of the second round has passed.                                  *)

ExitVerdict == CASE pc = "exit0" -> "pass" [] pc = "exit1" -> "fail" [] OTHER -> "running"

VInv == IInv /\ OkCount /\ FailuresCounted

LEMMA ExitIsFinal == ASSUME Exited PROVE ~Main
  BY DEF Exited, Main, CountNodes, EnableParent, CheckEnabled, CreateThread, ThreadsCreated,
     JoinThread, ThreadsJoined, JudgePreFork, ForkFails, ForkChild, CheckAfterFork,
     ReapAndReport, EndLoop

LEMMA FailedStays == IInv /\ Failed /\ [Next]_vars => Failed'
  <1> SUFFICES ASSUME IInv, Failed, [Next]_vars PROVE Failed'
    OBVIOUS
  <1> USE DEF IInv, TypeOK
  <1>1. CASE failures["parent"] > 0
    <2>1. failures' = failures \/ ForkChild \/ \E w \in Workers : Worker(w)
      BY DEF Next, Main, CountNodes, EnableParent, CheckEnabled, CreateThread,
         ThreadsCreated, JoinThread, ThreadsJoined, JudgePreFork, ForkFails,
         CheckAfterFork, ReapAndReport, EndLoop, Child, ChildKilled, ChildInitial, ChildEnable,
         ChildCheck, ChildCreate, ChildJoin, Done, vars, results
    <2>2. failures'["parent"] > 0
      BY <1>1, <2>1, WorkersAre
      DEF ForkChild, Worker, WorkerPlace, WorkerCheck, WorkerCount, GoOn, Fail
    <2> QED
      BY <2>2 DEF Failed
  <1>2. CASE cpc \in {"exit1", "killed"}
    <2>1. ~ForkChild
      BY <1>2 DEF ForkChild, Rounds, ChildRound, BeforeFork
    <2>2. cpc' = cpc
      BY <1>2, <2>1
      DEF Next, Main, CountNodes, EnableParent, CheckEnabled, CreateThread,
         ThreadsCreated, JoinThread, ThreadsJoined, JudgePreFork, ForkFails,
         CheckAfterFork, ReapAndReport, EndLoop, Child, ChildKilled, ChildInitial, ChildEnable,
         ChildCheck, ChildCreate, ChildJoin, Done, vars, Worker, WorkerPlace,
         WorkerCheck, WorkerCount, ChildEnded
    <2> QED
      BY <1>2, <2>2 DEF Failed
  <1>3. ASSUME pc = "exit1", NEW t \in Threads, wpc[<<1, t>>] = "absent"
        PROVE  Failed'
    <2>1. ~Main
      BY <1>3, ExitIsFinal DEF Exited
    <2>2. pc' = "exit1"
      BY <1>3, <2>1
      DEF Next, Child, ChildKilled, ChildInitial, ChildEnable, ChildCheck, ChildCreate, ChildJoin,
          Done, vars, Worker, WorkerPlace, WorkerCheck, WorkerCount
    <2>3. wpc'[<<1, t>>] = "absent"
      BY <1>3, <2>1, WorkersAre
      DEF Next, Child, ChildKilled, ChildInitial, ChildEnable, ChildCheck, ChildCreate, Create,
          ChildJoin, Done, vars, workerVars, Worker, WorkerPlace, WorkerCheck,
          WorkerCount, GoOn, Fail, At
    <2> QED
      BY <2>2, <2>3 DEF Failed
  <1> QED
    BY <1>1, <1>2, <1>3 DEF Failed

\* main returns early only before its second round is complete.
LEMMA EarlyExit ==
  ASSUME VInv, pc' = "exit1",
         \/ CountNodes \/ EnableParent \/ CheckEnabled \/ CreateThread
         \/ JudgePreFork \/ ForkFails \/ CheckAfterFork
  PROVE  Failed'
  <1>1. PICK t \in Threads : wpc[<<1, t>>] = "absent"
    <2>1. CASE pc = "recreate" /\ i \in Threads
      <3>1. SecondRoundOf(i) /\ i \in Int
        BY <2>1 DEF VInv, IInv, Rounds, SecondRound, Threads
      <3> QED
        BY <2>1, <3>1 DEF SecondRoundOf
    <2>2. CASE pc \in BeforeFork \cup {"afterFork"}
      <3>1. 0 \in Threads
        BY NumThreadsAssumption DEF Threads
      <3> QED
        BY <2>2, <3>1 DEF VInv, IInv, Rounds, SecondRound, SecondRoundOf
    <2> QED
      BY <2>1, <2>2
      DEF CountNodes, EnableParent, CheckEnabled, CreateThread, JudgePreFork, ForkFails,
          CheckAfterFork, BeforeFork
  <1>2. wpc' = wpc
    BY DEF CountNodes, EnableParent, CheckEnabled, CreateThread, JudgePreFork, ForkFails,
       CheckAfterFork, Create, workerVars, VInv, IInv, TypeOK
  <1> QED
    BY <1>1, <1>2 DEF Failed

\* What main finds once it has joined its workers and reaped its child.
LEMMA ReportIsRight ==
  ASSUME VInv, ReapAndReport
  PROVE  \/ pc' = "exit1" /\ Failed'
         \/ pc' = "exit0" /\ ~Failed /\ ~Failed'
  <1>1. /\ pc = "reap" /\ ChildEnded
        /\ pc' = IF TotalOk THEN "exit0" ELSE "exit1"
        /\ UNCHANGED <<wpc, failures, cpc>>
    BY DEF ReapAndReport, workerVars, results
  <1>2. CASE TotalOk
    BY <1>1, <1>2 DEF TotalOk, Failed
  <1>3. CASE ~TotalOk
    <2>1. SUFFICES ASSUME failures["parent"] = 0, cpc = "exit0" PROVE FALSE
      BY <1>1, <1>3 DEF Failed, ChildEnded, VInv, IInv, TypeOK
    <2>2. ASSUME NEW t \in Threads PROVE wpc[<<1, t>>] = "returned"
      <3>1. WorkerEnded(<<1, t>>)
        BY <1>1 DEF VInv, IInv, Rounds, SecondRound, SecondRoundOf
      <3>2. 1 \in {0, 1} /\ ~(failures["parent"] > 0)
        BY <2>1
      <3>3. wpc[<<1, t>>] # "failed"
        BY <3>2 DEF VInv, FailuresCounted
      <3> QED
        BY <3>1, <3>3 DEF WorkerEnded
    <2>3. SecondOk = Threads
      BY <2>2 DEF SecondOk
    <2>4. parentThreadsOk["parent"] = NUM_THREADS
      BY <2>3, ThreadsFinite DEF VInv, OkCount, SecondOk
    <2> QED
      BY <1>3, <2>1, <2>4 DEF TotalOk
  <1> QED
    BY <1>2, <1>3

LEMMA VerdictGiven ==
  ASSUME VInv, [Next]_vars
  PROVE  \/ UNCHANGED ExitVerdict /\ (ExitVerdict = "pass" => UNCHANGED Failed)
         \/ ExitVerdict = "running" /\ ExitVerdict' = "fail" /\ Failed'
         \/ ExitVerdict = "running" /\ ExitVerdict' = "pass" /\ ~Failed /\ ~Failed'
  <1> USE DEF ExitVerdict
  <1>1. pc' = pc \/ Main
    BY DEF Next, Child, ChildKilled, ChildInitial, ChildEnable, ChildCheck, ChildCreate, ChildJoin,
       Done, vars, Worker, WorkerPlace, WorkerCheck, WorkerCount
  <1>2. CASE pc = "exit0"
    <2>1. ~Main /\ Exited /\ cpc = "exit0" /\ ChildEnded
      BY <1>2, ExitIsFinal DEF Exited, ChildEnded, VInv, IInv, Rounds, ChildRound
    <2>2. UNCHANGED vars
      BY <2>1
      DEF Next, Child, ChildKilled, ChildInitial, ChildEnable, ChildCheck, ChildCreate, ChildJoin,
          Done, Worker, WorkerPlace, WorkerCheck, WorkerCount, At
    <2> QED
      BY <1>2, <2>2 DEF vars, Failed
  <1>3. CASE pc = "exit1"
    BY <1>1, <1>3, ExitIsFinal DEF Exited
  <1>4. CASE ~Exited /\ ~Exited'
    BY <1>4 DEF Exited
  <1>5. CASE ~Exited /\ Exited'
    <2>1. Main
      BY <1>1, <1>5 DEF Exited
    <2>2. CASE ReapAndReport
      BY <1>5, <2>2, ReportIsRight DEF Exited
    <2>3. CASE ~ReapAndReport
      <3>1. /\ pc' = "exit1"
            /\ \/ CountNodes \/ EnableParent \/ CheckEnabled \/ CreateThread
               \/ JudgePreFork \/ ForkFails \/ CheckAfterFork
        BY <1>5, <2>1, <2>3
        DEF Main, CountNodes, EnableParent, CheckEnabled, CreateThread, ThreadsCreated,
            JoinThread, ThreadsJoined, JudgePreFork, ForkFails, ForkChild,
            CheckAfterFork, EndLoop, Exited
      <3> QED
        BY <1>5, <3>1, EarlyExit DEF Exited
    <2> QED
      BY <2>2, <2>3
  <1> QED
    BY <1>2, <1>3, <1>4, <1>5 DEF Exited

\* test34 keeps the promise of TestVerdict, for any number of workers.
THEOREM ForkImplementsVerdict == Spec => ImplementsVerdict
  <1>1. Init => Verdict!Init
    BY DEF Init, Verdict!Init, Failed
  <1>2. VInv /\ [Next]_vars => [Verdict!Next]_(Verdict!vars)
    <2> SUFFICES ASSUME VInv, [Next]_vars PROVE [Verdict!Next]_(Verdict!vars)
      OBVIOUS
    <2>1. Failed => Failed'
      BY FailedStays DEF VInv
    <2>2. Failed \in BOOLEAN /\ Failed' \in BOOLEAN
      BY DEF Failed
    <2>3. \/ UNCHANGED ExitVerdict /\ (ExitVerdict = "pass" => UNCHANGED Failed)
          \/ ExitVerdict = "running" /\ ExitVerdict' = "fail" /\ Failed'
          \/ ExitVerdict = "running" /\ ExitVerdict' = "pass" /\ ~Failed /\ ~Failed'
      BY VerdictGiven
    <2> HIDE DEF Failed
    <2> QED
      BY <2>1, <2>2, <2>3
      DEF Verdict!Next, Verdict!vars, Verdict!CheckFails, Verdict!Abort, Verdict!Report,
          ExitVerdict
  <1>3. Init => VInv
    BY InvInit, CountInit DEF VInv
  <1>4. VInv /\ [Next]_vars => VInv'
    BY InvNext, OkNext, FailuresNext DEF VInv
  <1> QED
    BY <1>1, <1>2, <1>3, <1>4, PTL DEF Spec, ImplementsVerdict, Verdict!Spec

-----------------------------------------------------------------------------
(* What the faults of the environment lead to.                             *)

LEMMA StruckGrows == ASSUME [Next]_vars PROVE struck \subseteq struck'
  BY Noted
  DEF Next, Main, CountNodes, EnableParent, CheckEnabled, CreateThread, ThreadsCreated,
      JoinThread, ThreadsJoined, JudgePreFork, ForkFails, ForkChild, CheckAfterFork,
      ReapAndReport, EndLoop, Child, ChildKilled, ChildInitial, ChildEnable, ChildCheck, ChildCreate,
      ChildJoin, Done, vars, Worker, WorkerPlace, WorkerCheck, WorkerCount

\* How a child ends that has failed.
Bad == {"exit1", "killed"}

\* A correct environment: nothing is reported and both masks are as set.
Quiet ==
  struck = {} =>
    /\ failures["parent"] = 0 /\ pc # "exit1" /\ cpc \notin Bad
    /\ pc \notin {"nodes", "enable"} => mask["parent"] = 1
    /\ cpc = "initial" => mask["child"] = 0
    /\ cpc \in {"check", "create", "join"} => mask["child"] = 1

LEMMA QuietNext == VInv /\ Quiet /\ [Next]_vars => Quiet'
  <1> SUFFICES ASSUME VInv, Quiet, [Next]_vars, struck' = {} PROVE Quiet'
    BY DEF Quiet
  <1>0. /\ struck = {} /\ failures["parent"] = 0 /\ pc # "exit1" /\ cpc \notin Bad
        /\ pc \notin {"nodes", "enable"} => mask["parent"] = 1
        /\ cpc = "initial" => mask["child"] = 0
        /\ cpc \in {"check", "create", "join"} => mask["child"] = 1
        /\ mask["parent"] \in Mask /\ mask["child"] \in Mask /\ TypeOK
    BY StruckGrows DEF Quiet, VInv, IInv, TypeOK
  <1>f. \A a : Note(struck, a) = {} => a.fault = "none"
    BY Noted
  <1> USE <1>0 DEF Quiet, Bad, workerVars, results
  <1>1. CASE UNCHANGED vars
    BY <1>1 DEF vars
  <1>2. CASE CountNodes \/ CreateThread \/ ChildCreate
    BY <1>2, <1>f, CallAnswers DEF CountNodes, CreateThread, ChildCreate
  <1>3. CASE EnableParent
    BY <1>3, <1>f, EnableAnswers DEF EnableParent, TypeOK
  <1>4. CASE CheckEnabled \/ CheckAfterFork
    BY <1>4, <1>f, GetAnswers DEF CheckEnabled, CheckAfterFork
  <1>5. CASE ThreadsCreated \/ ThreadsJoined \/ JoinThread \/ JudgePreFork
    BY <1>5 DEF ThreadsCreated, ThreadsJoined, JoinThread, JudgePreFork, EndLoop
  <1>6. CASE ForkFails \/ ForkChild
    BY <1>6, <1>f, ForkAnswers DEF ForkFails, ForkChild, TypeOK
  <1>7. CASE ReapAndReport
    <2>1. \A t \in Threads : wpc'[<<1, t>>] # "absent"
      BY <1>7
      DEF ReapAndReport, VInv, IInv, Rounds, SecondRound, SecondRoundOf, WorkerEnded
    <2>2. UNCHANGED <<failures, cpc, mask>>
      BY <1>7 DEF ReapAndReport
    <2>3. ~(failures'["parent"] > 0) /\ cpc' \notin Bad
      BY <2>2
    <2>4. ~Failed'
      BY <2>1, <2>3 DEF Failed
    <2> QED
      BY <1>7, <2>2, <2>4, ReportIsRight DEF ReapAndReport
  <1>8. ASSUME NEW w \in Workers, Worker(w) PROVE Quiet'
    <2>1. UNCHANGED <<pc, cpc, mask>>
      BY <1>8 DEF Worker, WorkerPlace, WorkerCheck, WorkerCount
    <2>2. failures'["parent"] = 0
      <3>1. CASE WorkerPlace(w)
        BY <1>f, <3>1, CallAnswers DEF WorkerPlace, GoOn
      <3>2. CASE WorkerCount(w)
        BY <3>2 DEF WorkerCount, GoOn
      <3>3. CASE WorkerCheck(w) /\ w = ChildThread
        BY <3>3, WorkersAre DEF WorkerCheck, GoOn, Fail, TypeOK
      <3>4. CASE WorkerCheck(w) /\ w # ChildThread
        <4>1. PICK r \in {0, 1}, t \in Threads : w = <<r, t>>
          BY <3>4, WorkersAre
        <4>2. pc \notin {"nodes", "enable"} /\ ProcOf(w) = "parent"
          BY <3>4, <4>1, WorkersAre
          DEF WorkerCheck, At, VInv, IInv, Rounds, FirstRound, FirstRoundOf, SecondRound,
              SecondRoundOf, BeforeFork
        <4> QED
          BY <1>f, <3>4, <4>2, GetAnswers DEF WorkerCheck, GoOn
      <3> QED
        BY <1>8, <3>1, <3>2, <3>3, <3>4 DEF Worker
    <2> QED
      BY <2>1, <2>2
  <1>9. CASE ChildInitial \/ ChildCheck \/ ChildJoin
    BY <1>9, <1>f, GetAnswers DEF ChildInitial, ChildCheck, ChildJoin
  <1>10. CASE ChildEnable
    BY <1>10, <1>f, EnableAnswers DEF ChildEnable, TypeOK
  <1>11. CASE ChildKilled
    BY <1>11, <1>f, CallAnswers DEF ChildKilled
  <1> QED
    BY <1>1, <1>2, <1>3, <1>4, <1>5, <1>6, <1>7, <1>8, <1>9, <1>10, <1>11
    DEF Next, Main, Child, Done

\* Where no fault strikes the program passes, for any number of workers.
THEOREM NoAlarmIsFalse == Spec => []NoFalseAlarm
  <1>1. Init => VInv /\ Quiet
    BY InvInit, CountInit DEF VInv, Init, Quiet, Bad
  <1>2. VInv /\ Quiet /\ [Next]_vars => (VInv /\ Quiet)'
    BY InvNext, OkNext, FailuresNext, QuietNext DEF VInv
  <1>3. Quiet => NoFalseAlarm
    BY DEF Quiet, NoFalseAlarm
  <1> QED
    BY <1>1, <1>2, <1>3, PTL DEF Spec

\* Each of these faults has been noticed, or waits at a check that notices it.
Traced ==
  /\ pc \in {"nodes", "enable"} => mask["parent"] = 0
  /\ pc \in {"create", "join", "judge", "fork"} => mask["parent"] = 1
  /\ cpc = "enable" => mask["child"] = 0
  /\ struck \cap {"nodes", "fork"} # {} => pc = "exit1"
  /\ struck \cap {"refuse", "create"} # {} => pc = "exit1" \/ cpc \in Bad
  /\ "ignore" \in struck =>
       \/ pc = "exit1" \/ cpc \in Bad
       \/ pc = "checkEnabled" /\ mask["parent"] = 0
       \/ cpc = "check" /\ mask["child"] = 0
  /\ "inherit" \in struck => cpc \in Bad \/ (cpc = "initial" /\ mask["child"] = 1)
  /\ "lose" \in struck => pc = "exit1" \/ (pc = "afterFork" /\ mask["parent"] = 0)
  /\ "killed" \in struck => cpc \in Bad

LEMMA TracedNext == IInv /\ Traced /\ [Next]_vars => Traced'
  <1> SUFFICES ASSUME IInv, Traced, [Next]_vars PROVE Traced'
    OBVIOUS
  <1>0. /\ TypeOK /\ mask["parent"] \in Mask /\ mask["child"] \in Mask
        /\ pc \in BeforeFork => cpc = "unborn"
    BY DEF IInv, TypeOK, Rounds, ChildRound
  <1> USE <1>0 DEF Traced, Bad, workerVars, results
  <1>1. CASE UNCHANGED vars
    BY <1>1 DEF vars
  <1>2. CASE CountNodes \/ CreateThread \/ ChildCreate
    BY <1>2, Noted, CallAnswers DEF CountNodes, CreateThread, ChildCreate
  <1>3. CASE EnableParent
    BY <1>3, Noted, EnableAnswers DEF EnableParent, TypeOK
  <1>4. CASE CheckEnabled \/ CheckAfterFork
    BY <1>4, Noted, GetAnswers DEF CheckEnabled, CheckAfterFork, Mask
  <1>5. CASE ThreadsCreated \/ ThreadsJoined \/ JoinThread \/ JudgePreFork
    BY <1>5 DEF ThreadsCreated, ThreadsJoined, JoinThread, JudgePreFork, EndLoop
  <1>6. CASE ForkFails \/ ForkChild
    BY <1>6, Noted, ForkAnswers DEF ForkFails, ForkChild, TypeOK, BeforeFork
  <1>7. CASE ReapAndReport
    BY <1>7 DEF ReapAndReport, TotalOk
  <1>8. ASSUME NEW w \in Workers, Worker(w) PROVE Traced'
    <2>1. UNCHANGED <<pc, cpc, mask>>
      BY <1>8 DEF Worker, WorkerPlace, WorkerCheck, WorkerCount
    <2>2. ASSUME NEW f \in struck' \ struck PROVE f \in {"pin", "stray", "get"}
      <3>1. CASE WorkerPlace(w)
        BY <2>2, <3>1, Noted, CallAnswers DEF WorkerPlace
      <3>2. CASE WorkerCheck(w)
        BY <2>2, <3>2, Noted, GetAnswers, WorkersAre DEF WorkerCheck, TypeOK
      <3>3. CASE WorkerCount(w)
        BY <2>2, <3>3 DEF WorkerCount
      <3> QED
        BY <1>8, <3>1, <3>2, <3>3 DEF Worker
    <2> QED
      BY <2>1, <2>2
  <1>9. CASE ChildInitial \/ ChildCheck \/ ChildJoin
    BY <1>9, Noted, GetAnswers DEF ChildInitial, ChildCheck, ChildJoin, Mask
  <1>10. CASE ChildEnable
    BY <1>10, Noted, EnableAnswers DEF ChildEnable, TypeOK
  <1>11. CASE ChildKilled
    BY <1>11, Noted, CallAnswers DEF ChildKilled
  <1> QED
    BY <1>1, <1>2, <1>3, <1>4, <1>5, <1>6, <1>7, <1>8, <1>9, <1>10, <1>11
    DEF Next, Main, Child, Done

\* Where the faults show that may strike a worker: it is counted, the process
\* has given up, or the worker was the child's.
WorkerFaults == {"get", "pin", "stray"}

Noticed ==
  \/ failures["parent"] > 0 \/ pc = "exit1" \/ cpc \in Bad
  \/ wpc[ChildThread] = "failed"

Met ==
  /\ struck \subseteq WorkerFaults \cup
       {"nodes", "refuse", "ignore", "create", "fork", "inherit", "lose", "killed"}
  /\ struck \cap WorkerFaults # {} => Noticed
  /\ pc = "exit0" => failures["parent"] = 0

LEMMA NoticedStays == IInv /\ Noticed /\ [Next]_vars => Noticed'
  <1> SUFFICES ASSUME IInv, Noticed, [Next]_vars PROVE Noticed'
    OBVIOUS
  <1>1. CASE failures["parent"] > 0 \/ cpc \in Bad
    <2>1. Failed /\ Failed'
      BY <1>1, FailedStays DEF Failed, Bad
    <2> QED
      BY <2>1 DEF Failed, Noticed, Bad
  <1>2. CASE pc = "exit1"
    BY <1>2, ExitIsFinal
    DEF Exited, Noticed, Next, Child, ChildKilled, ChildInitial, ChildEnable, ChildCheck,
        ChildCreate, ChildJoin, Done, vars, Worker, WorkerPlace, WorkerCheck, WorkerCount
  <1>3. CASE wpc[ChildThread] = "failed"
    <2>1. ~ChildCreate
      BY <1>3 DEF ChildCreate, IInv, Rounds, ChildRound
    <2>2. CASE CreateThread
      <3>1. <<RoundAt(pc), i>> # ChildThread
        BY <2>2, WorkersAre DEF CreateThread, RoundAt
      <3>2. wpc'[ChildThread] = wpc[ChildThread]
        BY <2>2, <3>1, WorkersAre DEF CreateThread, Create, workerVars, IInv, TypeOK
      <3> QED
        BY <1>3, <3>2 DEF Noticed
    <2>3. CASE \E w \in Workers : Worker(w)
      BY <1>3, <2>3, WorkersAre
      DEF Worker, WorkerPlace, WorkerCheck, WorkerCount, GoOn, Fail, At, Noticed, IInv,
          TypeOK
    <2>4. CASE wpc' = wpc
      BY <1>3, <2>4 DEF Noticed
    <2> QED
      BY <2>1, <2>2, <2>3, <2>4
      DEF Next, Main, CountNodes, EnableParent, CheckEnabled, ThreadsCreated, JoinThread,
          ThreadsJoined, JudgePreFork, ForkFails, ForkChild, CheckAfterFork,
          ReapAndReport, EndLoop, Child, ChildKilled, ChildInitial, ChildEnable,
          ChildCheck, ChildJoin, Done, vars, workerVars
  <1> QED
    BY <1>1, <1>2, <1>3 DEF Noticed

\* A fault that strikes is one of these, and a worker it strikes counts it.
LEMMA Strikes ==
  ASSUME IInv, [Next]_vars, NEW f \in struck', f \notin struck
  PROVE  \/ f \in {"nodes", "refuse", "ignore", "create", "fork", "inherit", "lose",
                   "killed"}
         \/ f \in WorkerFaults /\ Noticed'
  <1>0. TypeOK /\ mask["parent"] \in Mask /\ mask["child"] \in Mask
    BY DEF IInv, TypeOK
  <1> USE <1>0 DEF WorkerFaults
  <1>1. CASE CountNodes \/ CreateThread \/ ChildCreate \/ ChildKilled
    BY <1>1, Noted, CallAnswers DEF CountNodes, CreateThread, ChildCreate, ChildKilled
  <1>2. CASE EnableParent \/ ChildEnable
    BY <1>2, Noted, EnableAnswers DEF EnableParent, ChildEnable
  <1>3. CASE CheckEnabled \/ CheckAfterFork
    BY <1>3, Noted, GetAnswers DEF CheckEnabled, CheckAfterFork, Noticed
  <1>4. CASE ForkFails \/ ForkChild
    BY <1>4, Noted, ForkAnswers DEF ForkFails, ForkChild
  <1>5. CASE ChildInitial \/ ChildCheck
    BY <1>5, Noted, GetAnswers DEF ChildInitial, ChildCheck, Noticed, Bad
  <1>6. ASSUME NEW w \in Workers, WorkerPlace(w) \/ WorkerCheck(w)
        PROVE  f \in WorkerFaults /\ Noticed'
    <2>1. f \in WorkerFaults /\ Fail(w)
      <3>1. CASE WorkerPlace(w)
        BY <3>1, Noted, CallAnswers DEF WorkerPlace
      <3>2. CASE WorkerCheck(w)
        <4>1. mask[ProcOf(w)] \in Mask
          BY WorkersAre
        <4> QED
          BY <3>2, <4>1, Noted, GetAnswers DEF WorkerCheck
      <3> QED
        BY <1>6, <3>1, <3>2
    <2>2. CASE w = ChildThread
      BY <2>1, <2>2, WorkersAre DEF Fail, TypeOK, Noticed
    <2>3. CASE w # ChildThread
      <3>1. ProcOf(w) = "parent" /\ failures["parent"] \in Nat
        BY <2>3 DEF ProcOf, TypeOK
      <3>2. failures'["parent"] = failures["parent"] + 1
        BY <2>1, <3>1 DEF Fail, TypeOK
      <3> QED
        BY <2>1, <3>1, <3>2 DEF Noticed
    <2> QED
      BY <2>1, <2>2, <2>3
  <1> QED
    BY <1>1, <1>2, <1>3, <1>4, <1>5, <1>6
    DEF Next, Main, ThreadsCreated, JoinThread, ThreadsJoined, JudgePreFork,
        ReapAndReport, EndLoop, Child, ChildJoin, Done, vars, Worker, WorkerCount

LEMMA MetNext == IInv /\ Met /\ [Next]_vars => Met'
  <1> SUFFICES ASSUME IInv, Met, [Next]_vars PROVE Met'
    OBVIOUS
  <1>1. struck' \subseteq WorkerFaults \cup
          {"nodes", "refuse", "ignore", "create", "fork", "inherit", "lose", "killed"}
    BY Strikes DEF Met
  <1>2. struck' \cap WorkerFaults # {} => Noticed'
    <2> SUFFICES ASSUME NEW f \in struck', f \in WorkerFaults PROVE Noticed'
      OBVIOUS
    <2>1. CASE f \in struck
      BY <2>1, NoticedStays DEF Met
    <2>2. CASE f \notin struck
      BY <2>2, Strikes DEF WorkerFaults
    <2> QED
      BY <2>1, <2>2
  <1>3. pc' = "exit0" => failures'["parent"] = 0
    <2> SUFFICES ASSUME pc' = "exit0" PROVE failures'["parent"] = 0
      OBVIOUS
    <2>1. CASE pc = "exit0"
      <3>1. ~Main /\ failures["parent"] = 0
        BY <2>1, ExitIsFinal DEF Exited, Met
      <3>2. CASE \E w \in Workers : Worker(w)
        BY <2>1, <3>1, <3>2, WorkersAre
        DEF Worker, WorkerPlace, WorkerCheck, WorkerCount, GoOn, Fail, At, Exited,
            ProcOf, IInv, TypeOK
      <3> QED
        BY <3>1, <3>2
        DEF Next, Child, ChildKilled, ChildInitial, ChildEnable, ChildCheck, ChildCreate,
            ChildJoin, Done, vars, results
    <2>2. CASE pc # "exit0"
      BY <2>2
      DEF Next, Main, CountNodes, EnableParent, CheckEnabled, CreateThread,
          ThreadsCreated, JoinThread, ThreadsJoined, JudgePreFork, ForkFails, ForkChild,
          CheckAfterFork, ReapAndReport, TotalOk, EndLoop, Child, ChildKilled,
          ChildInitial, ChildEnable, ChildCheck, ChildCreate, ChildJoin, Done, vars,
          results, Worker, WorkerPlace, WorkerCheck, WorkerCount
    <2> QED
      BY <2>1, <2>2
  <1> QED
    BY <1>1, <1>2, <1>3 DEF Met

\* No pass with any fault but one that only the worker of the child has seen, for
\* any number of workers.
THEOREM NoFaultIsMissed == Spec => []FaultsCaught
  <1>1. Init => Traced /\ Met
    BY DEF Init, Traced, Met, WorkerFaults
  <1>2. IInv /\ Traced /\ Met => FaultsCaught
    <2> SUFFICES ASSUME IInv, Traced, Met, pc = "exit0"
                 PROVE  /\ struck \subseteq {"get", "pin", "stray"}
                        /\ struck # {} => wpc[ChildThread] = "failed"
      BY DEF FaultsCaught
    <2>1. cpc = "exit0" /\ failures["parent"] = 0
      BY DEF IInv, Rounds, ChildRound, Met
    <2>2. struck \subseteq WorkerFaults
      BY <2>1 DEF Traced, Met, Bad
    <2>3. struck # {} => wpc[ChildThread] = "failed"
      BY <2>1, <2>2 DEF Met, Noticed, Bad
    <2> QED
      BY <2>2, <2>3 DEF WorkerFaults
  <1> QED
    BY <1>1, <1>2, InvInit, InvNext, TracedNext, MetNext, PTL DEF Spec

=============================================================================
