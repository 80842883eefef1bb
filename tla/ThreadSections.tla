--------------------------- MODULE ThreadSections ---------------------------
(***************************************************************************)
(* src/test18.c: with replication on, NUM_THREADS threads write and verify *)
(* a section each of a shared mapping, count themselves ready under a      *)
(* mutex and wait for the leave to exit; main waits until all are ready,   *)
(* lets them go, joins them and verifies their sections itself.            *)
(***************************************************************************)
EXTENDS ReplKernel, FiniteSets

CONSTANT NUM_THREADS

ASSUME NumThreadsAssumption == NUM_THREADS \in Nat

Threads == 0 .. NUM_THREADS - 1
Nobody == -1

VARIABLES
  pc, i, testPassed,            \* main
  threadsReady, threadsCanExit,
  mutex,                        \* who holds the mutex
  tpc, seen,                    \* a thread, and the threads_ready it has read
  errors,                       \* what a thread returns: has it seen errors?
  section,                      \* what a section shows
  mapped,                       \* is shared_mem mapped?
  mask, struck

mainVars == <<pc, i, testPassed, threadsCanExit>>
threadVars == <<threadsReady, mutex, tpc, seen, errors, section>>
vars == <<mainVars, threadVars, mapped, mask, struck>>

Exited == pc \in {"exit0", "exit1"}

TypeOK ==
  /\ pc \in {"mmap", "enable", "checkEnabled", "create", "checkRunning", "wait", "join",
             "checkAfter", "verify", "disable", "munmap", "exit0", "exit1"}
  /\ i \in 0 .. NUM_THREADS /\ testPassed \in BOOLEAN
  /\ threadsReady \in 0 .. NUM_THREADS /\ threadsCanExit \in BOOLEAN
  /\ mutex \in Threads \cup {Nobody}
  /\ tpc \in [Threads -> {"absent", "write", "verify", "lock", "read", "store",
                          "spin", "returned"}]
  /\ seen \in [Threads -> 0 .. NUM_THREADS]
  /\ errors \in [Threads -> BOOLEAN]
  /\ section \in [Threads -> {"initial", "pattern", "badFirst", "badLater"}]
  /\ mapped \in BOOLEAN /\ mask \in Mask

Init ==
  /\ pc = "mmap" /\ i = 0 /\ testPassed = TRUE
  /\ threadsReady = 0 /\ threadsCanExit = FALSE
  /\ mutex = Nobody
  /\ tpc = [t \in Threads |-> "absent"] /\ seen = [t \in Threads |-> 0]
  /\ errors = [t \in Threads |-> FALSE]
  /\ section = [t \in Threads |-> "initial"]
  /\ mapped = FALSE /\ mask = 0 /\ struck = {}

(***************************************************************************)
(* main                                                                    *)
(***************************************************************************)

MapMemory ==
  /\ pc = "mmap"
  /\ \E a \in Call("mmap") :
       /\ IF a.ok THEN pc' = "enable" /\ mapped' = TRUE
                  ELSE pc' = "exit1" /\ mapped' = FALSE
       /\ struck' = Note(struck, a)
  /\ UNCHANGED <<i, testPassed, threadsCanExit, threadVars, mask>>

EnableReplication ==
  /\ pc = "enable"
  /\ \E a \in Enable(mask) :
       /\ IF a.ret < 0 THEN pc' = "exit1" /\ mapped' = FALSE
                       ELSE pc' = "checkEnabled" /\ UNCHANGED mapped
       /\ mask' = a.mask
       /\ struck' = Note(struck, a)
  /\ UNCHANGED <<i, testPassed, threadsCanExit, threadVars>>

\* goto cleanup.
Cleanup == pc' = "disable" /\ testPassed' = FALSE

CheckEnabled ==
  /\ pc = "checkEnabled"
  /\ \E a \in Get(mask) :
       /\ IF a.ret <= 0 THEN Cleanup ELSE pc' = "create" /\ UNCHANGED testPassed
       /\ struck' = Note(struck, a)
  /\ UNCHANGED <<i, threadsCanExit, threadVars, mapped, mask>>

\* When a thread cannot be created, main cleans up under those that were.
CreateThread ==
  /\ pc = "create" /\ i \in Threads
  /\ \E a \in Call("create") :
       /\ IF a.ok THEN /\ tpc' = [tpc EXCEPT ![i] = "write"] /\ i' = i + 1
                       /\ UNCHANGED <<pc, testPassed>>
                  ELSE Cleanup /\ UNCHANGED <<tpc, i>>
       /\ struck' = Note(struck, a)
  /\ UNCHANGED <<threadsCanExit, threadsReady, mutex, seen, errors, section, mapped, mask>>

\* The loop at l is over; main goes on at next.
EndLoop(l, next) ==
  /\ pc = l /\ i = NUM_THREADS
  /\ pc' = next /\ i' = 0
  /\ UNCHANGED <<testPassed, threadsCanExit, threadVars, mapped, mask, struck>>

ThreadsCreated == EndLoop("create", "checkRunning")

CheckRunning ==
  /\ pc = "checkRunning"
  /\ \E a \in Get(mask) :
       testPassed' = (testPassed /\ a.ret > 0) /\ struck' = Note(struck, a)
  /\ pc' = "wait"
  /\ UNCHANGED <<i, threadsCanExit, threadVars, mapped, mask>>

\* Mutant: main lets them go without waiting until all are ready.
WaitReady_DoesNotWait ==
  /\ pc = "wait"
  /\ threadsCanExit' = TRUE
  /\ pc' = "join"
  /\ UNCHANGED <<i, testPassed, threadVars, mapped, mask, struck>>

WaitReady ==
  /\ pc = "wait" /\ threadsReady >= NUM_THREADS
  /\ threadsCanExit' = TRUE
  /\ pc' = "join"
  /\ UNCHANGED <<i, testPassed, threadVars, mapped, mask, struck>>

\* Mutant: what the thread returns is not looked at.
JoinThread_IgnoresErrors ==
  /\ pc = "join" /\ i \in Threads /\ tpc[i] = "returned"
  /\ i' = i + 1
  /\ UNCHANGED <<pc, testPassed, threadsCanExit, threadVars, mapped, mask, struck>>

JoinThread ==
  /\ pc = "join" /\ i \in Threads /\ tpc[i] = "returned"
  /\ testPassed' = (testPassed /\ ~errors[i])
  /\ i' = i + 1
  /\ UNCHANGED <<pc, threadsCanExit, threadVars, mapped, mask, struck>>

ThreadsJoined == EndLoop("join", "checkAfter")

\* The status after the joins is only printed.
CheckAfter ==
  /\ pc = "checkAfter"
  /\ \E a \in Get(mask) : struck' = Note(struck, a)
  /\ pc' = "verify"
  /\ UNCHANGED <<i, testPassed, threadsCanExit, threadVars, mapped, mask>>

\* main reads the first page of a section, maybe through another replica.
VerifySection ==
  /\ pc = "verify" /\ i \in Threads
  /\ \E a \in Call("staleView") :
       /\ testPassed' = (testPassed /\ a.ok /\ section[i] \in {"pattern", "badLater"})
       /\ struck' = Note(struck, a)
  /\ i' = i + 1
  /\ UNCHANGED <<pc, threadsCanExit, threadVars, mapped, mask>>

SectionsVerified == EndLoop("verify", "disable")

DisableReplication ==
  /\ pc = "disable"
  /\ \E a \in Disable(mask) : mask' = a.mask /\ struck' = Note(struck, a)
  /\ pc' = "munmap"
  /\ UNCHANGED <<i, testPassed, threadsCanExit, threadVars, mapped>>

Unmap ==
  /\ pc = "munmap" /\ mapped
  /\ mapped' = FALSE
  /\ UNCHANGED <<mainVars, threadVars, mask, struck>>

Report ==
  /\ pc = "munmap" /\ ~mapped
  /\ pc' = IF testPassed THEN "exit0" ELSE "exit1"
  /\ UNCHANGED <<i, testPassed, threadsCanExit, threadVars, mapped, mask, struck>>

Main ==
  \/ MapMemory \/ EnableReplication \/ CheckEnabled \/ CreateThread \/ ThreadsCreated
  \/ CheckRunning \/ WaitReady \/ JoinThread \/ ThreadsJoined \/ CheckAfter
  \/ VerifySection \/ SectionsVerified \/ DisableReplication \/ Unmap \/ Report

(***************************************************************************)
(* Threads; they end with the process.                                     *)
(***************************************************************************)

At(t, l) == ~Exited /\ tpc[t] = l
Goto(t, l) == tpc' = [tpc EXCEPT ![t] = l]

\* Under replication a page may come out wrong, the first one or a later one.
WriteSection(t) ==
  /\ At(t, "write") /\ mapped
  /\ \E a \in Call("badPage") :
       /\ \E shown \in IF a.ok THEN {"pattern"} ELSE {"badFirst", "badLater"} :
            section' = [section EXCEPT ![t] = shown]
       /\ struck' = Note(struck, a)
  /\ Goto(t, "verify")
  /\ UNCHANGED <<mainVars, threadsReady, mutex, seen, errors, mapped, mask>>

CheckSection(t) ==
  /\ At(t, "verify") /\ mapped
  /\ errors' = [errors EXCEPT ![t] = section[t] # "pattern"]
  /\ Goto(t, "lock")
  /\ UNCHANGED <<mainVars, threadsReady, mutex, seen, section, mapped, mask, struck>>

\* Mutant: the mutex is not taken.
Lock_NoMutex(t) ==
  /\ At(t, "lock")
  /\ Goto(t, "read")
  /\ UNCHANGED <<mainVars, threadsReady, mutex, seen, errors, section, mapped, mask, struck>>

Lock(t) ==
  /\ At(t, "lock") /\ mutex = Nobody
  /\ mutex' = t
  /\ Goto(t, "read")
  /\ UNCHANGED <<mainVars, threadsReady, seen, errors, section, mapped, mask, struck>>

\* threads_ready++ is a read and a store.
ReadReady(t) ==
  /\ At(t, "read")
  /\ seen' = [seen EXCEPT ![t] = threadsReady]
  /\ Goto(t, "store")
  /\ UNCHANGED <<mainVars, threadsReady, mutex, errors, section, mapped, mask, struck>>

\* Mutant: the mutex is kept.
StoreAndUnlock_Keeps(t) ==
  /\ At(t, "store")
  /\ threadsReady' = seen[t] + 1
  /\ Goto(t, "spin")
  /\ UNCHANGED <<mainVars, mutex, seen, errors, section, mapped, mask, struck>>

StoreAndUnlock(t) ==
  /\ At(t, "store")
  /\ threadsReady' = seen[t] + 1
  /\ mutex' = Nobody
  /\ Goto(t, "spin")
  /\ UNCHANGED <<mainVars, seen, errors, section, mapped, mask, struck>>

\* The exit of a thread may disable replication for the process.
ThreadExits(t) ==
  /\ At(t, "spin") /\ threadsCanExit
  /\ \E a \in Call("exitLoses") :
       /\ mask' = IF a.ok THEN mask ELSE 0
       /\ struck' = Note(struck, a)
  /\ Goto(t, "returned")
  /\ UNCHANGED <<mainVars, threadsReady, mutex, seen, errors, section, mapped>>

Thread(t) ==
  \/ WriteSection(t) \/ CheckSection(t) \/ Lock(t) \/ ReadReady(t)
  \/ StoreAndUnlock(t) \/ ThreadExits(t)

\* A thread touches its section after main has unmapped it: the process dies.
Crash(t) ==
  /\ At(t, "write") \/ At(t, "verify")
  /\ pc = "munmap" /\ ~mapped
  /\ pc' = "exit1"
  /\ UNCHANGED <<i, testPassed, threadsCanExit, threadVars, mapped, mask, struck>>

Done == Exited /\ UNCHANGED vars

Next == Main \/ (\E t \in Threads : Thread(t) \/ Crash(t)) \/ Done

Spec == Init /\ [][Next]_vars

\* Every thread is scheduled, and the mutex is fair enough to starve nobody.
FairSpec ==
  /\ Spec /\ WF_vars(Main)
  /\ \A t \in Threads : WF_vars(Thread(t)) /\ SF_vars(Lock(t))

(***************************************************************************)
(* Properties                                                              *)
(***************************************************************************)

\* threads_ready (lines 63-65) counts the threads that have stored it: no
\* increment is lost, and no thread spins uncounted.
ReadyCounted ==
  threadsReady = Cardinality({t \in Threads : tpc[t] \in {"spin", "returned"}})

\* main lets the threads go (line 148), and joins and verifies, only when every
\* section is written and verified by its thread.
WorkDoneFirst ==
  threadsCanExit => \A t \in Threads :
    tpc[t] \in {"spin", "returned"} /\ section[t] # "initial"

\* Exit status 0 (line 192): none of these faults goes unnoticed.  What the
\* exit of a thread does to replication is not looked at.
FaultsCaught ==
  pc = "exit0" => struck \cap {"mmap", "refuse", "ignore", "create", "badPage",
                               "staleView"} = {}

\* main and every thread come to their end: nobody waits for a thread that
\* will not count itself, nor for a mutex that is not given back.
Termination == <>Exited

\* What "Each thread writes to its own section" (line 32) needs: the section.
SectionMapped == \A t \in Threads : At(t, "write") \/ At(t, "verify") => mapped

=============================================================================
