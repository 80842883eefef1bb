----------------------------- MODULE ThreadFork -----------------------------
(***************************************************************************)
(* src/test34.c: main runs NUM_THREADS workers, joins them, forks, runs as *)
(* many workers again in the same thread_data[] slots, and reaps the       *)
(* child, which has checked its own replication and run a worker of its    *)
(* own.  results is a global: the child counts in a copy of it.            *)
(***************************************************************************)
EXTENDS ReplKernel, FiniteSets

CONSTANT NUM_THREADS

ASSUME NumThreadsAssumption == NUM_THREADS \in Nat \ {0}

Threads == 0 .. NUM_THREADS - 1

\* A worker is the phase it is created with and its slot of thread_data[]; the
\* worker of the child has a slot of its own.
ChildThread == <<2, NUM_THREADS>>
Workers == ({0, 1} \X Threads) \cup {ChildThread}
Slots == 0 .. NUM_THREADS
ProcOf(w) == IF w = ChildThread THEN "child" ELSE "parent"

VARIABLES
  pc, i,             \* main, and the index of its current loop
  phase,             \* the field phase of each slot
  wpc,               \* where a worker is
  failures, parentThreadsOk,      \* results of the parent and of the child
  cpc,               \* the main thread of the child
  mask, struck

vars == <<pc, i, phase, wpc, failures, parentThreadsOk, cpc, mask, struck>>
workerVars == <<phase, wpc>>
results == <<failures, parentThreadsOk>>

Exited == pc \in {"exit0", "exit1"}
ChildEnded == cpc \in {"exit0", "exit1", "killed"}
WorkerEnded(w) == wpc[w] \in {"returned", "failed"}

TypeOK ==
  /\ pc \in {"nodes", "enable", "checkEnabled", "create", "join", "judge", "fork",
             "afterFork", "recreate", "rejoin", "reap", "exit0", "exit1"}
  /\ i \in 0 .. NUM_THREADS
  /\ phase \in [Slots -> 0 .. 2]
  /\ wpc \in [Workers -> {"absent", "place", "check", "count", "returned", "failed"}]
  /\ failures \in [{"parent", "child"} -> Nat]
  /\ parentThreadsOk \in [{"parent", "child"} -> Nat]
  /\ cpc \in {"unborn", "initial", "enable", "check", "create", "join", "exit0", "exit1",
              "killed"}
  /\ mask \in [{"parent", "child"} -> Mask]

Init ==
  /\ pc = "nodes" /\ i = 0
  /\ phase = [t \in Slots |-> 0]
  /\ wpc = [w \in Workers |-> "absent"]
  /\ failures = [p \in {"parent", "child"} |-> 0]
  /\ parentThreadsOk = [p \in {"parent", "child"} |-> 0]
  /\ cpc = "unborn"
  /\ mask = [p \in {"parent", "child"} |-> 0]
  /\ struck = {}

\* pthread_create of the worker w with its phase in its slot.
Create(w) ==
  /\ phase' = [phase EXCEPT ![w[2]] = w[1]]
  /\ wpc' = [wpc EXCEPT ![w] = "place"]

\* The phase of the workers that main creates or joins at l.
RoundAt(l) == IF l \in {"create", "join"} THEN 0 ELSE 1

(***************************************************************************)
(* main                                                                    *)
(***************************************************************************)

CountNodes ==
  /\ pc = "nodes"
  /\ \E a \in Call("nodes") :
       pc' = (IF a.ok THEN "enable" ELSE "exit1") /\ struck' = Note(struck, a)
  /\ UNCHANGED <<i, workerVars, results, cpc, mask>>

EnableParent ==
  /\ pc = "enable"
  /\ \E a \in Enable(mask["parent"]) :
       /\ pc' = IF a.ret < 0 THEN "exit1" ELSE "checkEnabled"
       /\ mask' = [mask EXCEPT !["parent"] = a.mask]
       /\ struck' = Note(struck, a)
  /\ UNCHANGED <<i, workerVars, results, cpc>>

CheckEnabled ==
  /\ pc = "checkEnabled"
  /\ \E a \in Get(mask["parent"]) :
       pc' = (IF a.ret <= 0 THEN "exit1" ELSE "create") /\ struck' = Note(struck, a)
  /\ UNCHANGED <<i, workerVars, results, cpc, mask>>

\* A turn of either creating loop: phase 0 before the fork, 1 after it.
CreateThread ==
  /\ pc \in {"create", "recreate"} /\ i \in Threads
  /\ \E a \in Call("create") :
       /\ \/ a.ok /\ Create(<<RoundAt(pc), i>>)
                  /\ i' = i + 1 /\ UNCHANGED pc
          \/ ~a.ok /\ pc' = "exit1" /\ UNCHANGED <<i, workerVars>>
       /\ struck' = Note(struck, a)
  /\ UNCHANGED <<results, cpc, mask>>

EndLoop(l, next) ==
  /\ pc = l /\ i = NUM_THREADS
  /\ pc' = next /\ i' = 0
  /\ UNCHANGED <<workerVars, results, cpc, mask, struck>>

ThreadsCreated == EndLoop("create", "join") \/ EndLoop("recreate", "rejoin")

\* Mutant: the first joins leave the last worker out.
ThreadsJoined_OneEarly ==
  \/ /\ pc = "join" /\ i \in {NUM_THREADS - 1, NUM_THREADS}
     /\ pc' = "judge" /\ i' = 0
     /\ UNCHANGED <<workerVars, results, cpc, mask, struck>>
  \/ EndLoop("rejoin", "reap")

\* Mutant: the joins are left out.
JoinThread_DoesNotWait ==
  /\ pc \in {"join", "rejoin"} /\ i \in Threads
  /\ i' = i + 1
  /\ UNCHANGED <<pc, workerVars, results, cpc, mask, struck>>

\* Mutant: main waits until the worker has counted itself.
JoinThread_WaitsForOk ==
  /\ pc \in {"join", "rejoin"} /\ i \in Threads /\ wpc[<<RoundAt(pc), i>>] = "returned"
  /\ i' = i + 1
  /\ UNCHANGED <<pc, workerVars, results, cpc, mask, struck>>

JoinThread ==
  /\ pc \in {"join", "rejoin"} /\ i \in Threads /\ WorkerEnded(<<RoundAt(pc), i>>)
  /\ i' = i + 1
  /\ UNCHANGED <<pc, workerVars, results, cpc, mask, struck>>

ThreadsJoined == EndLoop("join", "judge") \/ EndLoop("rejoin", "reap")

JudgePreFork ==
  /\ pc = "judge"
  /\ pc' = IF failures["parent"] > 0 THEN "exit1" ELSE "fork"
  /\ UNCHANGED <<i, workerVars, results, cpc, mask, struck>>

ForkFails ==
  /\ pc = "fork"
  /\ \E a \in Fork(mask["parent"]) : a.ret < 0 /\ struck' = Note(struck, a)
  /\ pc' = "exit1"
  /\ UNCHANGED <<i, workerVars, results, cpc, mask>>

\* The child starts with a copy of results.
ForkChild ==
  /\ pc = "fork"
  /\ \E a \in Fork(mask["parent"]) :
       /\ a.ret > 0
       /\ mask' = [parent |-> a.parent, child |-> a.child]
       /\ struck' = Note(struck, a)
  /\ failures' = [failures EXCEPT !["child"] = failures["parent"]]
  /\ parentThreadsOk' = [parentThreadsOk EXCEPT !["child"] = parentThreadsOk["parent"]]
  /\ cpc' = "initial"
  /\ pc' = "afterFork"
  /\ UNCHANGED <<i, workerVars>>

\* main has kept its replication; thread_data[] is zeroed for the new workers.
CheckAfterFork ==
  /\ pc = "afterFork"
  /\ \E a \in Get(mask["parent"]) :
       /\ IF a.ret <= 0
            THEN pc' = "exit1" /\ UNCHANGED phase
            ELSE /\ pc' = "recreate"
                 /\ phase' = [t \in Slots |-> IF t \in Threads THEN 0 ELSE phase[t]]
       /\ struck' = Note(struck, a)
  /\ UNCHANGED <<i, wpc, results, cpc, mask>>

\* Mutant: without WIFEXITED, the status of a killed child reads as 0.
TotalOk_ForgetsSignals ==
  /\ failures["parent"] = 0 /\ parentThreadsOk["parent"] = NUM_THREADS
  /\ cpc \in {"exit0", "killed"}

TotalOk ==
  /\ failures["parent"] = 0 /\ parentThreadsOk["parent"] = NUM_THREADS
  /\ cpc = "exit0"

\* Mutant: waitpid is left out.
ReapAndReport_DoesNotWait ==
  /\ pc = "reap"
  /\ pc' = IF TotalOk THEN "exit0" ELSE "exit1"
  /\ UNCHANGED <<i, workerVars, results, cpc, mask, struck>>

\* waitpid, and the verdict.
ReapAndReport ==
  /\ pc = "reap" /\ ChildEnded
  /\ pc' = IF TotalOk THEN "exit0" ELSE "exit1"
  /\ UNCHANGED <<i, workerVars, results, cpc, mask, struck>>

Main ==
  \/ CountNodes \/ EnableParent \/ CheckEnabled
  \/ CreateThread \/ ThreadsCreated \/ JoinThread \/ ThreadsJoined \/ JudgePreFork
  \/ ForkFails \/ ForkChild \/ CheckAfterFork \/ ReapAndReport

(***************************************************************************)
(* Workers; they end with their process.                                   *)
(***************************************************************************)

At(w, l) ==
  /\ wpc[w] = l
  /\ IF w = ChildThread THEN ~ChildEnded ELSE ~Exited

\* Mutant: the worker returns without counting its failure.
Fail_NotCounted(w) ==
  wpc' = [wpc EXCEPT ![w] = "failed"] /\ UNCHANGED failures

Fail(w) ==
  /\ wpc' = [wpc EXCEPT ![w] = "failed"]
  /\ failures' = [failures EXCEPT ![ProcOf(w)] = @ + 1]

GoOn(w, l) == wpc' = [wpc EXCEPT ![w] = l] /\ UNCHANGED failures

\* Pins itself to its node and looks where it runs.
WorkerPlace(w) ==
  /\ At(w, "place")
  /\ \E a \in Call("pin") \cup Call("stray") :
       (IF a.ok THEN GoOn(w, "check") ELSE Fail(w)) /\ struck' = Note(struck, a)
  /\ UNCHANGED <<pc, i, phase, parentThreadsOk, cpc, mask>>

\* Replication must be on, whichever process and phase it is.
WorkerCheck(w) ==
  /\ At(w, "check")
  /\ \E a \in Get(mask[ProcOf(w)]) :
       (IF a.ret > 0 THEN GoOn(w, "count") ELSE Fail(w)) /\ struck' = Note(struck, a)
  /\ UNCHANGED <<pc, i, phase, parentThreadsOk, cpc, mask>>

\* Mutant: every worker counts itself, whatever its phase.
WorkerCount_AnyPhase(w) ==
  /\ At(w, "count")
  /\ parentThreadsOk' = [parentThreadsOk EXCEPT ![ProcOf(w)] = @ + 1]
  /\ GoOn(w, "returned")
  /\ UNCHANGED <<pc, i, phase, cpc, mask, struck>>

\* data->phase is read again, at the end of the work.
WorkerCount(w) ==
  /\ At(w, "count")
  /\ parentThreadsOk' =
       [parentThreadsOk EXCEPT ![ProcOf(w)] = @ + IF phase[w[2]] = 1 THEN 1 ELSE 0]
  /\ GoOn(w, "returned")
  /\ UNCHANGED <<pc, i, phase, cpc, mask, struck>>

Worker(w) == WorkerPlace(w) \/ WorkerCheck(w) \/ WorkerCount(w)

(***************************************************************************)
(* The main thread of the child                                            *)
(***************************************************************************)

ChildInitial ==
  /\ cpc = "initial"
  /\ \E a \in Get(mask["child"]) :
       cpc' = (IF a.ret = 0 THEN "enable" ELSE "exit1") /\ struck' = Note(struck, a)
  /\ UNCHANGED <<pc, i, workerVars, results, mask>>

ChildEnable ==
  /\ cpc = "enable"
  /\ \E a \in Enable(mask["child"]) :
       /\ cpc' = IF a.ret < 0 THEN "exit1" ELSE "check"
       /\ mask' = [mask EXCEPT !["child"] = a.mask]
       /\ struck' = Note(struck, a)
  /\ UNCHANGED <<pc, i, workerVars, results>>

ChildCheck ==
  /\ cpc = "check"
  /\ \E a \in Get(mask["child"]) :
       cpc' = (IF a.ret <= 0 THEN "exit1" ELSE "create") /\ struck' = Note(struck, a)
  /\ UNCHANGED <<pc, i, workerVars, results, mask>>

ChildCreate ==
  /\ cpc = "create"
  /\ \E a \in Call("create") :
       /\ \/ a.ok /\ Create(ChildThread) /\ cpc' = "join"
          \/ ~a.ok /\ cpc' = "exit1" /\ UNCHANGED workerVars
       /\ struck' = Note(struck, a)
  /\ UNCHANGED <<pc, i, results, mask>>

\* The child returns 0 after the join, whatever its worker has found.
ChildJoin ==
  /\ cpc = "join" /\ WorkerEnded(ChildThread)
  /\ cpc' = "exit0"
  /\ UNCHANGED <<pc, i, workerVars, results, mask, struck>>

Child == ChildInitial \/ ChildEnable \/ ChildCheck \/ ChildCreate \/ ChildJoin

\* A signal ends the child, with its worker, wherever it is.
ChildKilled ==
  /\ cpc # "unborn" /\ ~ChildEnded
  /\ \E a \in Call("killed") : ~a.ok /\ struck' = Note(struck, a)
  /\ cpc' = "killed"
  /\ UNCHANGED <<pc, i, workerVars, results, mask>>

Done == Exited /\ (cpc = "unborn" \/ ChildEnded) /\ UNCHANGED vars

Next == Main \/ (\E w \in Workers : Worker(w)) \/ Child \/ ChildKilled \/ Done

Spec == Init /\ [][Next]_vars

\* Every thread and process is scheduled; no loop waits for anything else.
FairSpec ==
  /\ Spec
  /\ WF_vars(Main) /\ WF_vars(Child) /\ \A w \in Workers : WF_vars(Worker(w))

(***************************************************************************)
(* Properties                                                              *)
(***************************************************************************)

\* Exit status 1 is never a false alarm.
NoFalseAlarm == pc = "exit1" => struck # {}

\* No fault goes unnoticed, whichever process, round and worker it strikes in
\* and however much of the test is still to come (lines 254, 332-339); but for
\* what only the worker of the child has seen (see ChildThreadCounts).
FaultsCaught ==
  pc = "exit0" =>
    /\ struck \subseteq {"get", "pin", "stray"}
    /\ struck # {} => wpc[ChildThread] = "failed"

\* A worker that still runs reads the phase it was created with: its slot of
\* thread_data[] is zeroed and reused only after the joins (lines 249-252,
\* 292-299).
PhaseStable ==
  \A w \in Workers : wpc[w] \in {"place", "check", "count"} => phase[w[2]] = w[1]

\* The process forks with no other thread running (lines 249-264): the child
\* cannot inherit a lock that a worker of its parent held.
ForksAlone == pc = "fork" => \A t \in Threads : WorkerEnded(<<0, t>>)

\* parent_threads_ok (lines 130-136) counts the workers of the second round
\* that passed, at every moment, and in no process any other one.
OkCount ==
  /\ parentThreadsOk["parent"] =
       Cardinality({t \in Threads : wpc[<<1, t>>] = "returned"})
  /\ parentThreadsOk["child"] = 0

\* Under fair scheduling both processes come to their end.
Termination == <>(Exited /\ (cpc = "unborn" \/ ChildEnded))

\* A check of main, of a worker of main or of the child has failed; main
\* returns early only before its second round is complete.  The worker of the
\* child is left out: see ChildThreadCounts.
Failed ==
  \/ failures["parent"] > 0 \/ cpc \in {"exit1", "killed"}
  \/ pc = "exit1" /\ \E t \in Threads : wpc[<<1, t>>] = "absent"

Verdict == INSTANCE TestVerdict WITH
  failed <- Failed,
  verdict <- CASE pc = "exit0" -> "pass" [] pc = "exit1" -> "fail" [] OTHER -> "running"

\* The test keeps the promise of TestVerdict, but for the worker of the child.
ImplementsVerdict == Verdict!Spec

\* What "[Child] PASS: All child tests completed" (line 193) says.
ChildThreadCounts == cpc = "exit0" => wpc[ChildThread] = "returned"

=============================================================================
