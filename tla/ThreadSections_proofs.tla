----------------------- MODULE ThreadSections_proofs -----------------------
(***************************************************************************)
(* ThreadSections for any number of threads: no increment of threads_ready *)
(* is lost, and the threads are let go only when all have done their work. *)
(***************************************************************************)
EXTENDS ThreadSections, ReplKernel_proofs, FiniteSetTheorems

Ready == {t \in Threads : tpc[t] \in {"spin", "returned"}}

\* The threads main has not created yet have not run.
Fresh ==
  pc \in {"mmap", "enable", "checkEnabled", "create"} =>
    \A t \in Threads : t >= i => tpc[t] = "absent"

\* Who is between lock and unlock holds the mutex, and nobody else does.
Mutual == \A t \in Threads : tpc[t] \in {"read", "store"} <=> mutex = t

\* What a thread has read of the counter is still true when it stores.
SeenCurrent == \A t \in Threads : tpc[t] = "store" => seen[t] = threadsReady

\* A thread that has come to the mutex has written its section.
Written ==
  \A t \in Threads : tpc[t] \notin {"absent", "write", "verify"} => section[t] # "initial"

VerifyWritten == \A t \in Threads : tpc[t] = "verify" => section[t] # "initial"

Counting == Mutual /\ SeenCurrent /\ ReadyCounted /\ Written /\ VerifyWritten

IInv == TypeOK /\ Fresh /\ Counting /\ WorkDoneFirst

-----------------------------------------------------------------------------
(* The set of the threads that are ready.                                  *)

LEMMA ThreadsFinite == IsFiniteSet(Threads) /\ Cardinality(Threads) = NUM_THREADS
  <1>1. 0 \in Int /\ NUM_THREADS - 1 \in Int
    BY NumThreadsAssumption
  <1>2. /\ IsFiniteSet(0 .. NUM_THREADS - 1)
        /\ Cardinality(0 .. NUM_THREADS - 1) =
             IF 0 > NUM_THREADS - 1 THEN 0 ELSE NUM_THREADS - 1 - 0 + 1
    BY <1>1, FS_Interval
  <1> QED
    BY <1>2, NumThreadsAssumption DEF Threads

LEMMA ReadyBound ==
  /\ IsFiniteSet(Ready)
  /\ Cardinality(Ready) \in Nat
  /\ Cardinality(Ready) <= NUM_THREADS
  /\ Cardinality(Ready) = NUM_THREADS => Ready = Threads
  <1>1. Ready \in SUBSET Threads
    BY DEF Ready
  <1>2. /\ IsFiniteSet(Ready)
        /\ Cardinality(Ready) <= Cardinality(Threads)
        /\ Cardinality(Threads) = Cardinality(Ready) => Threads = Ready
    BY <1>1, ThreadsFinite, FS_Subset
  <1>3. Cardinality(Ready) \in Nat
    BY <1>2, FS_CardinalityType
  <1> QED
    BY <1>2, <1>3, ThreadsFinite

LEMMA KernelAnswers ==
  ASSUME NEW m \in Mask
  PROVE  /\ \A a \in Enable(m) : a.ret \in {0, -1} /\ a.mask \in Mask
         /\ \A a \in Disable(m) : a.mask \in Mask
  BY DEF Enable, Disable, Possible, Mask

-----------------------------------------------------------------------------
LEMMA Initially == Init => IInv
  <1> SUFFICES ASSUME Init PROVE IInv
    OBVIOUS
  <1>1. TypeOK
    <2>1. testPassed \in BOOLEAN /\ threadsCanExit \in BOOLEAN /\ mapped \in BOOLEAN
      BY Zenon DEF Init
    <2>2. errors \in [Threads -> BOOLEAN]
      BY DEF Init
    <2>3. /\ pc = "mmap" /\ i \in 0 .. NUM_THREADS /\ threadsReady \in 0 .. NUM_THREADS
          /\ mutex = Nobody /\ mask \in Mask
          /\ tpc \in [Threads -> {"absent"}] /\ seen \in [Threads -> 0 .. NUM_THREADS]
          /\ section \in [Threads -> {"initial"}]
      BY NumThreadsAssumption DEF Init, Mask
    <2> QED
      BY <2>1, <2>2, <2>3 DEF TypeOK
  <1>2. Ready = {}
    BY DEF Init, Ready
  <1>3. ReadyCounted
    BY <1>2, FS_EmptySet DEF Init, ReadyCounted, Ready
  <1>4. Mutual
    BY DEF Init, Mutual, Nobody, Threads
  <1> QED
    BY <1>1, <1>3, <1>4
    DEF Init, IInv, Fresh, Counting, SeenCurrent, Written, VerifyWritten, WorkDoneFirst

(* A step that leaves the variables of the threads alone keeps the count.  *)
LEMMA CountingQuiet == Counting /\ UNCHANGED threadVars => Counting'
  BY DEF Counting, Mutual, SeenCurrent, ReadyCounted, Written, VerifyWritten, threadVars

-----------------------------------------------------------------------------
(* main                                                                    *)

LEMMA MainQuiet ==
  ASSUME IInv, Main, ~CreateThread, ~WaitReady PROVE IInv'
  <1> USE NumThreadsAssumption
  <1>1. UNCHANGED <<threadVars, threadsCanExit>>
    BY Zenon DEF Main, MapMemory, EnableReplication, CheckEnabled, ThreadsCreated,
       CheckRunning, JoinThread, ThreadsJoined, CheckAfter, VerifySection,
       SectionsVerified, DisableReplication, Unmap, Report, EndLoop, mainVars
  <1>2. Counting'
    BY <1>1, CountingQuiet DEF IInv
  <1>3. WorkDoneFirst'
    BY <1>1 DEF IInv, WorkDoneFirst, threadVars
  <1>4. Fresh'
    BY <1>1 DEF IInv, Fresh, TypeOK, threadVars, Cleanup, Main, MapMemory,
       EnableReplication, CheckEnabled, ThreadsCreated, CheckRunning, JoinThread,
       ThreadsJoined, CheckAfter, VerifySection, SectionsVerified,
       DisableReplication, Unmap, Report, EndLoop, mainVars
  <1>5. pc' \in {"mmap", "enable", "checkEnabled", "create", "checkRunning", "wait",
                 "join", "checkAfter", "verify", "disable", "munmap", "exit0", "exit1"}
    BY DEF IInv, TypeOK, Cleanup, Main, MapMemory, EnableReplication, CheckEnabled,
       ThreadsCreated, CheckRunning, JoinThread, ThreadsJoined, CheckAfter,
       VerifySection, SectionsVerified, DisableReplication, Unmap, Report, EndLoop,
       mainVars
  <1>6. i' \in 0 .. NUM_THREADS
    BY DEF IInv, TypeOK, Threads, Main, MapMemory, EnableReplication, CheckEnabled,
       ThreadsCreated, CheckRunning, JoinThread, ThreadsJoined, CheckAfter,
       VerifySection, SectionsVerified, DisableReplication, Unmap, Report, EndLoop,
       mainVars
  <1>7. testPassed' \in BOOLEAN
    BY Zenon DEF IInv, TypeOK, Cleanup, Main, MapMemory, EnableReplication,
       CheckEnabled, ThreadsCreated, CheckRunning, JoinThread, ThreadsJoined,
       CheckAfter, VerifySection, SectionsVerified, DisableReplication, Unmap, Report,
       EndLoop, mainVars
  <1>8. mapped' \in BOOLEAN
    BY Zenon DEF IInv, TypeOK, Main, MapMemory, EnableReplication,
       CheckEnabled, ThreadsCreated, CheckRunning, JoinThread, ThreadsJoined,
       CheckAfter, VerifySection, SectionsVerified, DisableReplication, Unmap, Report,
       EndLoop
  <1>9. mask' \in Mask
    BY KernelAnswers DEF IInv, TypeOK, Main, MapMemory, EnableReplication,
       CheckEnabled, ThreadsCreated, CheckRunning, JoinThread, ThreadsJoined,
       CheckAfter, VerifySection, SectionsVerified, DisableReplication, Unmap, Report,
       EndLoop
  <1>10. TypeOK'
    BY <1>1, <1>5, <1>6, <1>7, <1>8, <1>9 DEF IInv, TypeOK, threadVars
  <1> QED
    BY <1>2, <1>3, <1>4, <1>10 DEF IInv

LEMMA CreateKeeps ==
  ASSUME IInv, CreateThread PROVE IInv'
  <1> USE NumThreadsAssumption
  <1>1. PICK a \in Call("create") :
          IF a.ok THEN /\ tpc' = [tpc EXCEPT ![i] = "write"] /\ i' = i + 1
                       /\ UNCHANGED <<pc, testPassed>>
                  ELSE Cleanup /\ UNCHANGED <<tpc, i>>
    BY Zenon DEF CreateThread
  <1>2. /\ pc = "create" /\ i \in Threads
        /\ UNCHANGED <<threadsCanExit, threadsReady, mutex, seen, errors, section,
                       mapped, mask>>
    BY Zenon DEF CreateThread
  <1>3. CASE ~a.ok
    <2>1. /\ pc' = "disable" /\ UNCHANGED <<tpc, i>>
      BY <1>1, <1>3 DEF Cleanup
    <2>2. testPassed' \in BOOLEAN
      BY <1>1, <1>3, Zenon DEF Cleanup
    <2>3. Counting'
      BY <2>1, <1>2, CountingQuiet DEF IInv, threadVars
    <2>4. TypeOK'
      BY <2>1, <2>2, <1>2 DEF IInv, TypeOK
    <2> QED
      BY <2>1, <2>3, <2>4, <1>2 DEF IInv, Fresh, WorkDoneFirst
  <1>4. CASE a.ok
    <2>1. /\ tpc' = [tpc EXCEPT ![i] = "write"] /\ i' = i + 1
          /\ UNCHANGED <<pc, testPassed>>
      BY <1>1, <1>4
    <2>2. tpc[i] = "absent"
      BY <1>2 DEF IInv, Fresh, TypeOK, Threads
    <2>3. TypeOK'
      BY <1>2, <2>1 DEF IInv, TypeOK, Threads
    <2>4. Fresh'
      BY <1>2, <2>1 DEF IInv, TypeOK, Fresh, Threads
    <2>5. Ready' = Ready
      BY <1>2, <2>1, <2>2 DEF IInv, TypeOK, Ready
    <2>6. ReadyCounted'
      BY <1>2, <2>5 DEF IInv, Counting, ReadyCounted, Ready
    <2>7. Mutual'
      BY <1>2, <2>1, <2>2 DEF IInv, TypeOK, Counting, Mutual
    <2>8. SeenCurrent' /\ Written' /\ VerifyWritten'
      BY <1>2, <2>1 DEF IInv, TypeOK, Counting, SeenCurrent, Written, VerifyWritten
    <2>9. WorkDoneFirst'
      BY <1>2, <2>1, <2>2 DEF IInv, TypeOK, WorkDoneFirst
    <2> QED
      BY <2>3, <2>4, <2>6, <2>7, <2>8, <2>9 DEF IInv, Counting
  <1> QED
    BY <1>3, <1>4

\* When the counter has reached NUM_THREADS, every thread is ready.
LEMMA WaitKeeps ==
  ASSUME IInv, WaitReady PROVE IInv'
  <1> USE NumThreadsAssumption
  <1>1. /\ threadsReady >= NUM_THREADS /\ pc' = "join"
        /\ UNCHANGED <<i, testPassed, threadVars, mapped, mask>>
    BY Zenon DEF WaitReady
  <1>2. threadsCanExit' \in BOOLEAN
    BY Zenon DEF WaitReady
  <1>3. threadsReady = Cardinality(Ready)
    BY DEF IInv, Counting, ReadyCounted, Ready
  <1>4. Ready = Threads
    BY <1>1, <1>3, ReadyBound
  <1>5. WorkDoneFirst'
    BY <1>1, <1>4 DEF IInv, Counting, Written, WorkDoneFirst, Ready, threadVars
  <1>6. Counting'
    BY <1>1, CountingQuiet DEF IInv
  <1>7. TypeOK' /\ Fresh'
    BY <1>1, <1>2 DEF IInv, TypeOK, Fresh, threadVars
  <1> QED
    BY <1>5, <1>6, <1>7 DEF IInv

-----------------------------------------------------------------------------
(* The threads                                                             *)

LEMMA WriteKeeps ==
  ASSUME IInv, NEW t \in Threads, WriteSection(t) PROVE IInv'
  <1>1. PICK shown \in {"pattern", "badFirst", "badLater"} :
          section' = [section EXCEPT ![t] = shown]
    BY Zenon DEF WriteSection
  <1>2. /\ tpc[t] = "write" /\ tpc' = [tpc EXCEPT ![t] = "verify"]
        /\ UNCHANGED <<mainVars, threadsReady, mutex, seen, errors, mapped, mask>>
    BY Zenon DEF WriteSection, At, Goto
  <1>3. TypeOK'
    BY <1>1, <1>2 DEF IInv, TypeOK, mainVars
  <1>4. Fresh' /\ Mutual' /\ SeenCurrent' /\ WorkDoneFirst'
    BY <1>1, <1>2 DEF IInv, TypeOK, Counting, Fresh, Mutual, SeenCurrent, WorkDoneFirst,
       mainVars
  <1>5. Written' /\ VerifyWritten'
    BY <1>1, <1>2 DEF IInv, TypeOK, Counting, Written, VerifyWritten
  <1>6. Ready' = Ready
    BY <1>2 DEF IInv, TypeOK, Ready
  <1>7. ReadyCounted'
    BY <1>2, <1>6 DEF IInv, Counting, ReadyCounted, Ready
  <1> QED
    BY <1>3, <1>4, <1>5, <1>7 DEF IInv, Counting

LEMMA CheckKeeps ==
  ASSUME IInv, NEW t \in Threads, CheckSection(t) PROVE IInv'
  <1>1. errors' \in [Threads -> BOOLEAN]
    BY DEF CheckSection, IInv, TypeOK
  <1>2. /\ tpc[t] = "verify" /\ tpc' = [tpc EXCEPT ![t] = "lock"]
        /\ UNCHANGED <<mainVars, threadsReady, mutex, seen, section, mapped, mask>>
    BY Zenon DEF CheckSection, At, Goto
  <1>3. TypeOK'
    BY <1>1, <1>2 DEF IInv, TypeOK, mainVars
  <1>4. /\ Fresh' /\ Mutual' /\ SeenCurrent' /\ WorkDoneFirst'
        /\ Written' /\ VerifyWritten'
    BY <1>2 DEF IInv, TypeOK, Counting, Fresh, Mutual, SeenCurrent, WorkDoneFirst,
       Written, VerifyWritten, mainVars
  <1>5. Ready' = Ready
    BY <1>2 DEF IInv, TypeOK, Ready
  <1>6. ReadyCounted'
    BY <1>2, <1>5 DEF IInv, Counting, ReadyCounted, Ready
  <1> QED
    BY <1>3, <1>4, <1>6 DEF IInv, Counting

LEMMA LockKeeps ==
  ASSUME IInv, NEW t \in Threads, Lock(t) PROVE IInv'
  <1>1. /\ tpc[t] = "lock" /\ tpc' = [tpc EXCEPT ![t] = "read"]
        /\ mutex = Nobody /\ mutex' = t
        /\ UNCHANGED <<mainVars, threadsReady, seen, errors, section, mapped, mask>>
    BY Zenon DEF Lock, At, Goto
  <1>2. TypeOK'
    BY <1>1 DEF IInv, TypeOK, mainVars
  <1>3. Mutual'
    BY <1>1 DEF IInv, TypeOK, Counting, Mutual, Nobody, Threads
  <1>4. Fresh' /\ SeenCurrent' /\ WorkDoneFirst' /\ Written' /\ VerifyWritten'
    BY <1>1 DEF IInv, TypeOK, Counting, Fresh, SeenCurrent, WorkDoneFirst, Written,
       VerifyWritten, mainVars
  <1>5. Ready' = Ready
    BY <1>1 DEF IInv, TypeOK, Ready
  <1>6. ReadyCounted'
    BY <1>1, <1>5 DEF IInv, Counting, ReadyCounted, Ready
  <1> QED
    BY <1>2, <1>3, <1>4, <1>6 DEF IInv, Counting

LEMMA ReadKeeps ==
  ASSUME IInv, NEW t \in Threads, ReadReady(t) PROVE IInv'
  <1>1. /\ tpc[t] = "read" /\ tpc' = [tpc EXCEPT ![t] = "store"]
        /\ seen' = [seen EXCEPT ![t] = threadsReady]
        /\ UNCHANGED <<mainVars, threadsReady, mutex, errors, section, mapped, mask>>
    BY Zenon DEF ReadReady, At, Goto
  <1>2. TypeOK'
    BY <1>1 DEF IInv, TypeOK, mainVars
  <1>3. /\ Mutual' /\ SeenCurrent' /\ Fresh' /\ WorkDoneFirst'
        /\ Written' /\ VerifyWritten'
    BY <1>1 DEF IInv, TypeOK, Counting, Mutual, SeenCurrent, Fresh, WorkDoneFirst,
       Written, VerifyWritten, mainVars
  <1>4. Ready' = Ready
    BY <1>1 DEF IInv, TypeOK, Ready
  <1>5. ReadyCounted'
    BY <1>1, <1>4 DEF IInv, Counting, ReadyCounted, Ready
  <1> QED
    BY <1>2, <1>3, <1>5 DEF IInv, Counting

\* The heart of the proof: the thread stores the successor of the present count.
LEMMA StoreKeeps ==
  ASSUME IInv, NEW t \in Threads, StoreAndUnlock(t) PROVE IInv'
  <1> USE NumThreadsAssumption
  <1>1. /\ tpc[t] = "store" /\ tpc' = [tpc EXCEPT ![t] = "spin"]
        /\ threadsReady' = seen[t] + 1 /\ mutex' = Nobody
        /\ UNCHANGED <<mainVars, seen, errors, section, mapped, mask>>
    BY Zenon DEF StoreAndUnlock, At, Goto
  <1>2. Ready' = Ready \cup {t} /\ t \notin Ready
    BY <1>1 DEF IInv, TypeOK, Ready
  <1>3. Cardinality(Ready') = Cardinality(Ready) + 1
    BY <1>2, ReadyBound, FS_AddElement
  <1>4. threadsReady = Cardinality(Ready) /\ seen[t] = threadsReady
    BY <1>1 DEF IInv, Counting, ReadyCounted, Ready, SeenCurrent
  <1>5. threadsReady' = Cardinality(Ready')
    BY <1>1, <1>3, <1>4
  <1>6. ReadyCounted'
    BY <1>5 DEF ReadyCounted, Ready
  <1>7. Cardinality(Ready') \in Nat /\ Cardinality(Ready') <= NUM_THREADS
    <2>1. Ready' \in SUBSET Threads
      BY <1>2 DEF Ready
    <2>2. IsFiniteSet(Ready') /\ Cardinality(Ready') <= Cardinality(Threads)
      BY <2>1, ThreadsFinite, FS_Subset
    <2>3. Cardinality(Ready') \in Nat
      BY <2>2, FS_CardinalityType
    <2> QED
      BY <2>2, <2>3, ThreadsFinite
  <1>8. TypeOK'
    BY <1>1, <1>5, <1>7 DEF IInv, TypeOK, mainVars
  <1>9. Mutual'
    BY <1>1 DEF IInv, TypeOK, Counting, Mutual, Nobody, Threads
  <1>10. SeenCurrent'
    BY <1>1 DEF IInv, TypeOK, Counting, Mutual, SeenCurrent
  <1>11. Fresh' /\ WorkDoneFirst' /\ Written' /\ VerifyWritten'
    BY <1>1 DEF IInv, TypeOK, Counting, Fresh, WorkDoneFirst, Written, VerifyWritten,
       mainVars
  <1> QED
    BY <1>6, <1>8, <1>9, <1>10, <1>11 DEF IInv, Counting

LEMMA ExitKeeps ==
  ASSUME IInv, NEW t \in Threads, ThreadExits(t) PROVE IInv'
  <1>1. /\ tpc[t] = "spin" /\ tpc' = [tpc EXCEPT ![t] = "returned"]
        /\ UNCHANGED <<mainVars, threadsReady, mutex, seen, errors, section, mapped>>
    BY Zenon DEF ThreadExits, At, Goto
  <1>2. mask' \in Mask
    BY DEF ThreadExits, IInv, TypeOK, Mask
  <1>3. TypeOK'
    BY <1>1, <1>2 DEF IInv, TypeOK, mainVars
  <1>4. /\ Mutual' /\ SeenCurrent' /\ Fresh' /\ WorkDoneFirst'
        /\ Written' /\ VerifyWritten'
    BY <1>1 DEF IInv, TypeOK, Counting, Mutual, SeenCurrent, Fresh, WorkDoneFirst,
       Written, VerifyWritten, mainVars
  <1>5. Ready' = Ready
    BY <1>1 DEF IInv, TypeOK, Ready
  <1>6. ReadyCounted'
    BY <1>1, <1>5 DEF IInv, Counting, ReadyCounted, Ready
  <1> QED
    BY <1>3, <1>4, <1>6 DEF IInv, Counting

LEMMA CrashKeeps ==
  ASSUME IInv, NEW t \in Threads, Crash(t) PROVE IInv'
  <1>1. /\ pc' = "exit1"
        /\ UNCHANGED <<i, testPassed, threadsCanExit, threadVars, mapped, mask>>
    BY Zenon DEF Crash
  <1>2. Counting'
    BY <1>1, CountingQuiet DEF IInv
  <1> QED
    BY <1>1, <1>2 DEF IInv, TypeOK, Fresh, WorkDoneFirst, threadVars

-----------------------------------------------------------------------------
LEMMA Inductive == IInv /\ [Next]_vars => IInv'
  <1> SUFFICES ASSUME IInv, [Next]_vars PROVE IInv'
    OBVIOUS
  <1>1. CASE Main
    BY <1>1, MainQuiet, CreateKeeps, WaitKeeps
  <1>2. CASE \E t \in Threads : Thread(t)
    BY <1>2, WriteKeeps, CheckKeeps, LockKeeps, ReadKeeps, StoreKeeps, ExitKeeps
    DEF Thread
  <1>3. CASE \E t \in Threads : Crash(t)
    BY <1>3, CrashKeeps
  <1>4. CASE UNCHANGED vars
    <2>1. Counting'
      BY <1>4, CountingQuiet DEF IInv, vars
    <2> QED
      BY <1>4, <2>1 DEF IInv, TypeOK, Fresh, WorkDoneFirst, vars, mainVars, threadVars
  <1> QED
    BY <1>1, <1>2, <1>3, <1>4 DEF Next, Done

LEMMA Always == Spec => []IInv
  BY Initially, Inductive, PTL DEF Spec

\* Every variable keeps its type (test18.c:20-28, 76-82).
THEOREM TypeCorrect == Spec => []TypeOK
  BY Always, PTL DEF IInv

\* No increment of threads_ready is lost (test18.c:63-65), for any number of
\* threads.
THEOREM NoIncrementLost == Spec => []ReadyCounted
  BY Always, PTL DEF IInv, Counting

\* main lets the threads go only when every section is written and verified
\* (test18.c:142-148).
THEOREM WorkIsDoneFirst == Spec => []WorkDoneFirst
  BY Always, PTL DEF IInv

-----------------------------------------------------------------------------
(* Every fault that test18 can see leaves a trace until the verdict.       *)

Early == {"mmap", "enable", "checkEnabled", "create", "checkRunning", "wait"}

\* How far main is: past the wait it has let the threads go, or has given up.
Stages ==
  /\ pc \in Early \ {"create"} => i = 0
  /\ pc \notin Early \cup {"exit0", "exit1"} => threadsCanExit \/ ~testPassed
  /\ pc = "exit0" => testPassed

\* The section of t has come out wrong, and main will hear of it from t.
BadPending(t) ==
  /\ section[t] \in {"badFirst", "badLater"}
  /\ pc \in {"create", "checkRunning", "wait"} \/ (pc = "join" /\ t >= i)
  /\ tpc[t] = "verify" \/ (tpc[t] \notin {"absent", "write"} /\ errors[t])

\* The trace that each fault leaves.
Trace(f) ==
  CASE f \in {"mmap", "refuse"}      -> pc = "exit1"
    [] f = "ignore"                  -> ~testPassed \/ (pc = "checkEnabled" /\ mask = 0)
    [] f \in {"create", "staleView"} -> ~testPassed
    [] f = "badPage"                 -> ~testPassed \/ \E t \in Threads : BadPending(t)
    [] OTHER                         -> TRUE

Traced == \A f \in struck : Trace(f)

FInv == IInv /\ Stages /\ Traced

LEMMA FInvInit == Init => FInv
  BY Initially DEF Init, FInv, Stages, Traced, Early

\* testPassed is never set again.
LEMMA FailureStays ==
  ASSUME IInv, ~testPassed, [Next]_vars PROVE ~testPassed'
  BY DEF IInv, TypeOK, Next, Main, MapMemory, EnableReplication, CheckEnabled, CreateThread,
    ThreadsCreated, EndLoop, CheckRunning, WaitReady, JoinThread, ThreadsJoined, CheckAfter,
    VerifySection, SectionsVerified, DisableReplication, Unmap, Report, Cleanup, Thread,
    WriteSection, CheckSection, Lock, ReadReady, StoreAndUnlock, ThreadExits, Crash, Done,
    vars, mainVars

LEMMA StagesNext == FInv /\ [Next]_vars => Stages'
  <1> SUFFICES ASSUME FInv, [Next]_vars PROVE Stages'
    OBVIOUS
  <1>0. IInv /\ Stages /\ TypeOK
    BY DEF FInv, IInv
  <1> USE <1>0 DEF Stages, Early, mainVars
  <1>1. CASE MapMemory \/ EnableReplication \/ CheckEnabled
    BY <1>1 DEF MapMemory, EnableReplication, CheckEnabled, Cleanup
  <1>2. CASE CreateThread \/ ThreadsCreated
    BY <1>2 DEF CreateThread, ThreadsCreated, EndLoop, Cleanup
  <1>3. CASE CheckRunning \/ WaitReady
    BY <1>3 DEF CheckRunning, WaitReady
  <1>4. CASE JoinThread \/ VerifySection
    BY <1>4, FailureStays DEF JoinThread, VerifySection, TypeOK
  <1>5. CASE ThreadsJoined \/ CheckAfter \/ SectionsVerified
    BY <1>5 DEF ThreadsJoined, CheckAfter, SectionsVerified, EndLoop
  <1>6. CASE DisableReplication \/ Unmap \/ Report
    BY <1>6 DEF DisableReplication, Unmap, Report
  <1>7. ASSUME NEW t \in Threads, Thread(t) PROVE Stages'
    <2>1. UNCHANGED mainVars
      BY <1>7 DEF Thread, WriteSection, CheckSection, Lock, ReadReady, StoreAndUnlock,
        ThreadExits
    <2> QED
      BY <2>1
  <1>8. ASSUME NEW t \in Threads, Crash(t) PROVE Stages'
    BY <1>8 DEF Crash
  <1>9. CASE UNCHANGED vars
    BY <1>9 DEF vars
  <1> QED
    BY <1>1, <1>2, <1>3, <1>4, <1>5, <1>6, <1>7, <1>8, <1>9 DEF Next, Main, Done

\* A fault of a call of main.
LEMMA MainStrikes ==
  ASSUME TypeOK, Main, NEW f \in struck', f \notin struck PROVE Trace(f)'
  <1> USE DEF Trace, TypeOK
  <1>1. CASE MapMemory
    BY <1>1, CallAnswers, Noted DEF MapMemory
  <1>2. CASE EnableReplication
    BY <1>2, EnableAnswers, Noted DEF EnableReplication
  <1>3. CASE CheckEnabled \/ CheckRunning \/ CheckAfter
    BY <1>3, GetAnswers, Noted DEF CheckEnabled, CheckRunning, CheckAfter
  <1>4. CASE CreateThread
    BY <1>4, CallAnswers, Noted DEF CreateThread, Cleanup
  <1>5. CASE VerifySection
    <2>1. PICK a \in Call("staleView") :
            /\ testPassed' = (testPassed /\ a.ok /\ section[i] \in {"pattern", "badLater"})
            /\ struck' = Note(struck, a)
      BY <1>5 DEF VerifySection
    <2>2. f = "staleView" /\ ~a.ok
      BY <2>1, CallAnswers, Noted
    <2> QED
      BY <2>1, <2>2
  <1>6. CASE DisableReplication
    BY <1>6, DisableAnswers, Noted DEF DisableReplication
  <1> QED
    BY <1>1, <1>2, <1>3, <1>4, <1>5, <1>6
    DEF Main, ThreadsCreated, EndLoop, WaitReady, JoinThread, ThreadsJoined,
        SectionsVerified, Unmap, Report

\* A page of the section that a thread writes comes out wrong.
LEMMA ThreadStrikes ==
  ASSUME FInv, NEW t \in Threads, Thread(t), NEW f \in struck', f \notin struck
  PROVE  Trace(f)'
  <1>0. TypeOK
    BY DEF FInv, IInv
  <1>1. CASE WriteSection(t)
    <2>1. PICK a \in Call("badPage") :
            /\ \E shown \in IF a.ok THEN {"pattern"} ELSE {"badFirst", "badLater"} :
                 section' = [section EXCEPT ![t] = shown]
            /\ struck' = Note(struck, a)
      BY <1>1 DEF WriteSection
    <2>2. f = "badPage" /\ ~a.ok
      BY <2>1, CallAnswers, Noted
    <2>3. section'[t] \in {"badFirst", "badLater"}
      BY <1>0, <2>1, <2>2 DEF TypeOK
    <2>4. ~Exited /\ tpc[t] = "write" /\ tpc'[t] = "verify" /\ UNCHANGED mainVars
      BY <1>0, <1>1 DEF WriteSection, At, Goto, TypeOK
    <2>5. pc \notin {"mmap", "enable", "checkEnabled"}
      BY <2>4, NumThreadsAssumption DEF FInv, IInv, Fresh, Stages, Early, Threads
    <2>6. ~threadsCanExit
      BY <2>4 DEF FInv, IInv, WorkDoneFirst
    <2>7. pc \in {"create", "checkRunning", "wait"} \/ ~testPassed
      BY <2>4, <2>5, <2>6 DEF FInv, Stages, Early, Exited
    <2> QED
      BY <2>2, <2>3, <2>4, <2>7 DEF Trace, BadPending, mainVars
  <1>2. CASE ThreadExits(t)
    <2>1. PICK a \in Call("exitLoses") : struck' = Note(struck, a)
      BY <1>2 DEF ThreadExits
    <2>2. f = "exitLoses"
      BY <2>1, CallAnswers, Noted
    <2> QED
      BY <2>2 DEF Trace
  <1> QED
    BY <1>1, <1>2 DEF Thread, CheckSection, Lock, ReadReady, StoreAndUnlock

\* What main does next to a section that has come out wrong.
LEMMA MainPending ==
  ASSUME FInv, Main, NEW t \in Threads, BadPending(t) PROVE ~testPassed' \/ BadPending(t)'
  <1>0. TypeOK /\ IInv /\ Stages
    BY DEF FInv, IInv
  <1> USE <1>0, NumThreadsAssumption DEF BadPending, threadVars, mainVars
  <1>1. CASE CreateThread
    <2>1. tpc[t] # "absent" /\ i \in Threads /\ tpc[i] = "absent"
      BY <1>1 DEF CreateThread, IInv, Fresh, Threads
    <2> QED
      BY <1>1, <2>1 DEF CreateThread, Cleanup, TypeOK
  <1>2. CASE ThreadsCreated \/ CheckRunning
    BY <1>2 DEF ThreadsCreated, EndLoop, CheckRunning
  <1>3. CASE WaitReady
    BY <1>3 DEF WaitReady, Stages, Early, Threads
  <1>4. CASE JoinThread
    <2>1. CASE i = t
      BY <1>4, <2>1 DEF JoinThread
    <2>2. CASE i # t
      BY <1>4, <2>2 DEF JoinThread, Threads
    <2> QED
      BY <2>1, <2>2
  <1>5. CASE ThreadsJoined
    BY <1>5 DEF ThreadsJoined, EndLoop, Threads
  <1> QED
    BY <1>1, <1>2, <1>3, <1>4, <1>5
    DEF Main, MapMemory, EnableReplication, CheckEnabled, CheckAfter, VerifySection,
        SectionsVerified, EndLoop, DisableReplication, Unmap, Report

\* A thread sees that its section is wrong.
LEMMA ThreadPending ==
  ASSUME TypeOK, NEW t \in Threads, NEW u \in Threads, Thread(u), BadPending(t)
  PROVE  BadPending(t)'
  <1> USE DEF BadPending, mainVars, TypeOK, At, Goto
  <1>1. CASE WriteSection(u)
    <2>1. u # t
      BY <1>1 DEF WriteSection
    <2> QED
      BY <1>1, <2>1 DEF WriteSection
  <1>2. CASE CheckSection(u)
    BY <1>2 DEF CheckSection
  <1>3. CASE Lock(u) \/ ReadReady(u) \/ StoreAndUnlock(u) \/ ThreadExits(u)
    BY <1>3 DEF Lock, ReadReady, StoreAndUnlock, ThreadExits
  <1> QED
    BY <1>1, <1>2, <1>3 DEF Thread

LEMMA TracedNext == FInv /\ [Next]_vars => Traced'
  <1> SUFFICES ASSUME FInv, [Next]_vars, NEW f \in struck' PROVE Trace(f)'
    BY DEF Traced
  <1>0. IInv /\ TypeOK /\ (f \in struck => Trace(f))
    BY DEF FInv, IInv, Traced
  <1>1. CASE UNCHANGED vars
    BY <1>0, <1>1
    DEF vars, mainVars, threadVars, Trace, BadPending
  <1>2. CASE f \in struck /\ ~testPassed
    <2>1. ~testPassed'
      BY <1>0, <1>2, FailureStays
    <2>2. pc = "exit1" => UNCHANGED vars
      BY DEF Next, Main, MapMemory, EnableReplication, CheckEnabled, CreateThread,
        ThreadsCreated, EndLoop, CheckRunning, WaitReady, JoinThread, ThreadsJoined,
        CheckAfter, VerifySection, SectionsVerified, DisableReplication, Unmap, Report, Thread,
        WriteSection, CheckSection, Lock, ReadReady, StoreAndUnlock, ThreadExits, Crash, At,
        Done, Exited
    <2> QED
      BY <1>0, <1>1, <1>2, <2>1, <2>2 DEF Trace
  <1>3. CASE f \in struck /\ testPassed /\ pc = "exit1"
    <2>1. UNCHANGED vars
      BY <1>3 DEF Next, Main, MapMemory, EnableReplication, CheckEnabled, CreateThread,
        ThreadsCreated, EndLoop, CheckRunning, WaitReady, JoinThread, ThreadsJoined,
        CheckAfter, VerifySection, SectionsVerified, DisableReplication, Unmap, Report, Thread,
        WriteSection, CheckSection, Lock, ReadReady, StoreAndUnlock, ThreadExits, Crash, At,
        Done, Exited
    <2> QED
      BY <1>1, <2>1
  <1>4. CASE f \in struck /\ testPassed /\ f = "ignore"
    <2>1. pc = "checkEnabled" /\ mask = 0
      BY <1>0, <1>4 DEF Trace
    <2>2. CASE Main
      <3>1. CheckEnabled
        BY <2>1, <2>2 DEF Main, MapMemory, EnableReplication, CreateThread, ThreadsCreated,
          EndLoop, CheckRunning, WaitReady, JoinThread, ThreadsJoined, CheckAfter,
          VerifySection, SectionsVerified, DisableReplication, Unmap, Report
      <3>2. ~testPassed'
        BY <2>1, <3>1, GetAnswers DEF CheckEnabled, Cleanup, Mask
      <3> QED
        BY <1>4, <3>2 DEF Trace
    <2>3. ASSUME NEW u \in Threads, Thread(u) PROVE Trace(f)'
      <3>1. tpc[u] = "absent"
        BY <1>0, <2>1, NumThreadsAssumption DEF FInv, IInv, Fresh, Stages, Early, Threads
      <3> QED
        BY <2>3, <3>1 DEF Thread, WriteSection, CheckSection, Lock, ReadReady,
          StoreAndUnlock, ThreadExits, At
    <2>4. ASSUME NEW u \in Threads, Crash(u) PROVE FALSE
      BY <2>1, <2>4 DEF Crash
    <2> QED
      BY <1>1, <2>2, <2>3, <2>4 DEF Next, Done
  <1>5. CASE f \in struck /\ testPassed /\ f = "badPage"
    <2>1. PICK t \in Threads : BadPending(t)
      BY <1>0, <1>5 DEF Trace
    <2>2. CASE Main
      BY <1>5, <2>1, <2>2, MainPending DEF Trace
    <2>3. ASSUME NEW u \in Threads, Thread(u) PROVE Trace(f)'
      BY <1>0, <1>5, <2>1, <2>3, ThreadPending DEF Trace
    <2>4. ASSUME NEW u \in Threads, Crash(u) PROVE FALSE
      BY <2>1, <2>4 DEF Crash, BadPending
    <2> QED
      BY <1>1, <2>2, <2>3, <2>4 DEF Next, Done
  <1>6. CASE f \in struck /\ testPassed /\ pc # "exit1" /\ f \notin {"ignore", "badPage"}
    BY <1>0, <1>6 DEF Trace
  <1>7. CASE f \notin struck
    <2>1. ASSUME NEW u \in Threads, Crash(u) PROVE FALSE
      BY <1>7, <2>1 DEF Crash
    <2> QED
      BY <1>0, <1>1, <1>7, <2>1, MainStrikes, ThreadStrikes DEF Next, Done
  <1> QED
    BY <1>2, <1>3, <1>4, <1>5, <1>6, <1>7

\* Status 0 of test18: none of the faults it can see has struck, in main or a
\* thread.
THEOREM NoFaultIsMissed == Spec => []FaultsCaught
  <1>1. FInv => FaultsCaught
    <2> SUFFICES ASSUME FInv, pc = "exit0",
                        NEW f \in {"mmap", "refuse", "ignore", "create", "badPage",
                                   "staleView"},
                        f \in struck
                 PROVE  FALSE
      BY DEF FaultsCaught
    <2>1. testPassed /\ Trace(f) /\ \A t \in Threads : ~BadPending(t)
      BY DEF FInv, Stages, Traced, BadPending
    <2> QED
      BY <2>1 DEF Trace
  <1>2. FInv /\ [Next]_vars => FInv'
    BY Inductive, StagesNext, TracedNext DEF FInv
  <1> QED
    BY <1>1, <1>2, FInvInit, PTL DEF Spec

=============================================================================
