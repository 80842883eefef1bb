----------------------------- MODULE ForkStress -----------------------------
(***************************************************************************)
(* src/test35.c: main forks NUM_RAPID_FORKS children while threads of its  *)
(* own fault pages and migrate between nodes, then disables replication,   *)
(* joins the threads, reaps the children and adds everything up into one   *)
(* exit status.                                                            *)
(*                                                                         *)
(* Threads are numbered as in thread_data[]: the fault threads first, then *)
(* the migration threads.  Sizes, nodes and memory contents are left out;  *)
(* that a call fails or finds the wrong node is an answer of ReplKernel.   *)
(***************************************************************************)
EXTENDS ReplKernel, FiniteSets, Functions

CONSTANTS
  NUM_RAPID_FORKS, NUM_FAULT_THREADS, NUM_MIGRATION_THREADS,
  FAULT_ITERATIONS, MIGRATION_CYCLES,
  CheckEvery,    \* a fault thread queries replication after so many faults
  VerifyEvery    \* main queries replication at every so-manieth fork

ASSUME SizesAssumption ==
  /\ NUM_RAPID_FORKS \in Nat \ {0} /\ NUM_FAULT_THREADS \in Nat
  /\ NUM_MIGRATION_THREADS \in Nat /\ FAULT_ITERATIONS \in Nat
  /\ MIGRATION_CYCLES \in Nat
  /\ CheckEvery \in Nat \ {0} /\ VerifyEvery \in Nat \ {0}

\* main verifies itself after this fork.
IsVerified(c) == c % VerifyEvery = 0

\* The last fork is not one of those after which main verifies itself, so
\* that a break always leaves a fork out (15 forks, every 5th verified).
ASSUME LastForkAssumption == ~IsVerified(NUM_RAPID_FORKS - 1)

Forks == 0 .. NUM_RAPID_FORKS - 1
NumThreads == NUM_FAULT_THREADS + NUM_MIGRATION_THREADS
Threads == 0 .. NumThreads - 1
FaultThreads == 0 .. NUM_FAULT_THREADS - 1
MigrationThreads == Threads \ FaultThreads

VARIABLES
  pc, i,             \* where main is, and the index of its current loop
  keepRunning,
  childPids,         \* what child_pids[] holds; it is not initialised
  successfulForks, failedForks,
  threadFailures, migrations, pageFaults,
  disabled,          \* the line printed for the disabling of replication
  childrenOk, childrenFailed,
  tpc, iter,         \* where a thread is, and its faults or its cycle
  cpc,               \* where a child is
  parentMask, childMask,
  struck             \* the faults of the environment that have struck

forkVars == <<childPids, successfulForks, failedForks>>
stats == <<threadFailures, migrations, pageFaults>>
endVars == <<disabled, childrenOk, childrenFailed>>
threadVars == <<tpc, iter>>
childVars == <<cpc, childMask>>
vars == <<pc, i, keepRunning, forkVars, stats, endVars, threadVars, childVars,
          parentMask, struck>>

Exited == pc \in {"exit0", "exit1"}
Ended(t) == tpc[t] \in {"returned", "failed"}
ChildEnded(c) == cpc[c] \in {"exit0", "exit1", "killed"}

TypeOK ==
  /\ pc \in {"nodes", "enable", "checkEnabled", "start", "fork", "verify",
             "disable", "checkDisabled", "stop", "join", "reap",
             "exit0", "exit1"}
  /\ i \in Nat
  /\ keepRunning \in BOOLEAN
  /\ childPids \in [Forks -> {"garbage", "zero", "child"}]
  /\ successfulForks \in Nat /\ failedForks \in Nat
  /\ threadFailures \in Nat /\ migrations \in Nat /\ pageFaults \in Nat
  /\ disabled \in {"none", "PASS", "FAIL"}
  /\ childrenOk \in Nat /\ childrenFailed \in Nat
  /\ tpc \in [Threads -> {"absent", "pin", "fault", "check", "cycle", "verify",
                          "returned", "failed"}]
  /\ iter \in [Threads -> Nat]
  /\ cpc \in [Forks -> {"unborn", "initial", "enable", "check", "disable",
                        "exit0", "exit1", "killed"}]
  /\ parentMask \in Mask
  /\ childMask \in [Forks -> Mask]

Init ==
  /\ pc = "nodes" /\ i = 0
  /\ keepRunning = TRUE
  /\ childPids = [c \in Forks |-> "garbage"]
  /\ successfulForks = 0 /\ failedForks = 0
  /\ threadFailures = 0 /\ migrations = 0 /\ pageFaults = 0
  /\ disabled = "none"
  /\ childrenOk = 0 /\ childrenFailed = 0
  /\ tpc = [t \in Threads |-> "absent"]
  /\ iter = [t \in Threads |-> 0]
  /\ cpc = [c \in Forks |-> "unborn"]
  /\ parentMask = 0
  /\ childMask = [c \in Forks |-> 0]
  /\ struck = {}

(***************************************************************************)
(* main                                                                    *)
(***************************************************************************)

CountNodes ==
  /\ pc = "nodes"
  /\ \E a \in Call("nodes") :
       /\ pc' = IF a.ok THEN "enable" ELSE "exit1"
       /\ struck' = Note(struck, a)
  /\ UNCHANGED <<i, keepRunning, forkVars, stats, endVars, threadVars,
                 childVars, parentMask>>

EnableParent ==
  /\ pc = "enable"
  /\ \E a \in Enable(parentMask) :
       /\ pc' = IF a.ret < 0 THEN "exit1" ELSE "checkEnabled"
       /\ parentMask' = a.mask
       /\ struck' = Note(struck, a)
  /\ UNCHANGED <<i, keepRunning, forkVars, stats, endVars, threadVars, childVars>>

CheckEnabled ==
  /\ pc = "checkEnabled"
  /\ \E a \in Get(parentMask) :
       /\ pc' = IF a.ret <= 0 THEN "exit1" ELSE "start"
       /\ struck' = Note(struck, a)
  /\ UNCHANGED <<i, keepRunning, forkVars, stats, endVars, threadVars,
                 childVars, parentMask>>

\* pthread_create for thread_data[i]; main returns when it fails, and the
\* threads created so far end with it.
StartThread ==
  /\ pc = "start" /\ i \in Threads
  /\ \E a \in Call("create") :
       /\ IF a.ok
            THEN /\ tpc' = [tpc EXCEPT ![i] =
                              IF i \in FaultThreads THEN "pin" ELSE "cycle"]
                 /\ i' = i + 1
                 /\ UNCHANGED pc
            ELSE /\ pc' = "exit1"
                 /\ UNCHANGED <<i, tpc>>
       /\ struck' = Note(struck, a)
  /\ UNCHANGED <<keepRunning, forkVars, stats, endVars, iter, childVars, parentMask>>

\* The end of the loop at l, which has n turns; main goes on at next.
EndLoop(l, n, next) ==
  /\ pc = l /\ i = n
  /\ pc' = next /\ i' = 0
  /\ UNCHANGED <<keepRunning, forkVars, stats, endVars, threadVars, childVars,
                 parentMask, struck>>

ThreadsStarted == EndLoop("start", NumThreads, "fork")

\* Mutant: child_pids[i] is left as it was.
ForkFails_WritesNothing ==
  /\ pc = "fork" /\ i \in Forks
  /\ \E a \in Fork(parentMask) : a.ret < 0 /\ struck' = Note(struck, a)
  /\ failedForks' = failedForks + 1
  /\ i' = i + 1
  /\ UNCHANGED <<pc, keepRunning, childPids, successfulForks, stats, endVars, threadVars,
                 childVars, parentMask>>

ForkFails ==
  /\ pc = "fork" /\ i \in Forks
  /\ \E a \in Fork(parentMask) : a.ret < 0 /\ struck' = Note(struck, a)
  /\ failedForks' = failedForks + 1
  /\ childPids' = [childPids EXCEPT ![i] = "zero"]
  /\ i' = i + 1
  /\ UNCHANGED <<pc, keepRunning, successfulForks, stats, endVars, threadVars,
                 childVars, parentMask>>

ForkChild ==
  /\ pc = "fork" /\ i \in Forks
  /\ \E a \in Fork(parentMask) :
       /\ a.ret > 0
       /\ parentMask' = a.parent
       /\ childMask' = [childMask EXCEPT ![i] = a.child]
       /\ struck' = Note(struck, a)
  /\ successfulForks' = successfulForks + 1
  /\ childPids' = [childPids EXCEPT ![i] = "child"]
  /\ cpc' = [cpc EXCEPT ![i] = "initial"]
  /\ IF IsVerified(i)
       THEN pc' = "verify" /\ UNCHANGED i
       ELSE i' = i + 1 /\ UNCHANGED pc
  /\ UNCHANGED <<keepRunning, failedForks, stats, endVars, threadVars>>

\* A parent that has lost replication stops forking, but still disables,
\* joins and reaps.
VerifyParent ==
  /\ pc = "verify"
  /\ \E a \in Get(parentMask) :
       /\ IF a.ret <= 0 THEN pc' = "disable" /\ i' = 0 /\ keepRunning' = FALSE
                        ELSE pc' = "fork" /\ i' = i + 1 /\ UNCHANGED keepRunning
       /\ struck' = Note(struck, a)
  /\ UNCHANGED <<forkVars, stats, endVars, threadVars, childVars, parentMask>>

ForksDone == EndLoop("fork", NUM_RAPID_FORKS, "disable")

DisableParent ==
  /\ pc = "disable"
  /\ \E a \in Disable(parentMask) :
       /\ IF a.ret < 0 THEN pc' = "stop" /\ disabled' = "FAIL"
                       ELSE pc' = "checkDisabled" /\ UNCHANGED disabled
       /\ parentMask' = a.mask
       /\ struck' = Note(struck, a)
  /\ UNCHANGED <<i, keepRunning, forkVars, stats, childrenOk, childrenFailed,
                 threadVars, childVars>>

CheckDisabled ==
  /\ pc = "checkDisabled"
  /\ \E a \in Get(parentMask) :
       /\ disabled' = IF a.ret = 0 THEN "PASS" ELSE "FAIL"
       /\ struck' = Note(struck, a)
  /\ pc' = "stop"
  /\ UNCHANGED <<i, keepRunning, forkVars, stats, childrenOk, childrenFailed,
                 threadVars, childVars, parentMask>>

\* Mutant: keep_running is not cleared.
StopThreads_Forgets ==
  /\ pc = "stop"
  /\ pc' = "join" /\ i' = 0
  /\ UNCHANGED <<keepRunning, forkVars, stats, endVars, threadVars, childVars,
                 parentMask, struck>>

StopThreads ==
  /\ pc = "stop"
  /\ keepRunning' = FALSE
  /\ pc' = "join" /\ i' = 0
  /\ UNCHANGED <<forkVars, stats, endVars, threadVars, childVars, parentMask, struck>>

\* Mutant: the join is left out.
JoinThread_DoesNotWait ==
  /\ pc = "join" /\ i \in Threads
  /\ i' = i + 1
  /\ UNCHANGED <<pc, keepRunning, forkVars, stats, endVars, threadVars,
                 childVars, parentMask, struck>>

JoinThread ==
  /\ pc = "join" /\ i \in Threads /\ Ended(i)
  /\ i' = i + 1
  /\ UNCHANGED <<pc, keepRunning, forkVars, stats, endVars, threadVars,
                 childVars, parentMask, struck>>

ThreadsJoined == EndLoop("join", NumThreads, "reap")

\* Mutant: WEXITSTATUS is not looked at.
ReapChild_IgnoresStatus ==
  /\ pc = "reap" /\ i \in Forks
  /\ \/ childPids[i] = "zero" /\ UNCHANGED <<childrenOk, childrenFailed>>
     \/ /\ childPids[i] = "child" /\ ChildEnded(i)
        /\ childrenOk' = childrenOk + 1 /\ UNCHANGED childrenFailed
     \/ /\ childPids[i] = "garbage"
        /\ childrenFailed' \in {childrenFailed, childrenFailed + 1}
        /\ UNCHANGED childrenOk
  /\ i' = i + 1
  /\ UNCHANGED <<pc, keepRunning, forkVars, stats, disabled, threadVars,
                 childVars, parentMask, struck>>

\* waitpid for child_pids[i]: a child that a signal has ended counts like one
\* that exits with 1.  An entry the fork loop never wrote may be positive, and
\* then waitpid knows no such child.
ReapChild ==
  /\ pc = "reap" /\ i \in Forks
  /\ \/ childPids[i] = "zero" /\ UNCHANGED <<childrenOk, childrenFailed>>
     \/ /\ childPids[i] = "child" /\ cpc[i] = "exit0"
        /\ childrenOk' = childrenOk + 1 /\ UNCHANGED childrenFailed
     \/ /\ childPids[i] = "child" /\ cpc[i] \in {"exit1", "killed"}
        /\ childrenFailed' = childrenFailed + 1 /\ UNCHANGED childrenOk
     \/ /\ childPids[i] = "garbage"
        /\ childrenFailed' \in {childrenFailed, childrenFailed + 1}
        /\ UNCHANGED childrenOk
  /\ i' = i + 1
  /\ UNCHANGED <<pc, keepRunning, forkVars, stats, disabled, threadVars,
                 childVars, parentMask, struck>>

\* Mutant: thread_failures is left out of all_ok.
AllOk_ForgetsThreads ==
  failedForks = 0 /\ childrenFailed = 0 /\ successfulForks = NUM_RAPID_FORKS

AllOk ==
  /\ failedForks = 0 /\ threadFailures = 0 /\ childrenFailed = 0
  /\ successfulForks = NUM_RAPID_FORKS

ReportResults ==
  /\ pc = "reap" /\ i = NUM_RAPID_FORKS
  /\ pc' = IF AllOk THEN "exit0" ELSE "exit1"
  /\ UNCHANGED <<i, keepRunning, forkVars, stats, endVars, threadVars,
                 childVars, parentMask, struck>>

Main ==
  \/ CountNodes \/ EnableParent \/ CheckEnabled
  \/ StartThread \/ ThreadsStarted
  \/ ForkFails \/ ForkChild \/ VerifyParent \/ ForksDone
  \/ DisableParent \/ CheckDisabled
  \/ StopThreads \/ JoinThread \/ ThreadsJoined
  \/ ReapChild \/ ReportResults

(***************************************************************************)
(* Threads; they end with the process.                                     *)
(***************************************************************************)

\* What a thread leaves alone.
threadFrame == <<pc, i, keepRunning, forkVars, endVars, childVars, parentMask>>

\* The thread t is at l and the process it belongs to has not exited.
At(t, l) == ~Exited /\ tpc[t] = l

\* The thread goes on at l, or prints FAIL and returns.
GoOnOrFail(t, ok, l) ==
  /\ tpc' = [tpc EXCEPT ![t] = IF ok THEN l ELSE "failed"]
  /\ threadFailures' = IF ok THEN threadFailures ELSE threadFailures + 1

FaultPin(t) ==
  /\ At(t, "pin")
  /\ \E a \in Call("pin") :
       GoOnOrFail(t, a.ok, "fault") /\ struck' = Note(struck, a)
  /\ UNCHANGED <<threadFrame, iter, migrations, pageFaults>>

MayFault(t) == keepRunning /\ iter[t] < FAULT_ITERATIONS

\* One turn of the loop; without memory the turn is repeated.
FaultIteration(t) ==
  /\ At(t, "fault") /\ MayFault(t)
  /\ \E a \in Call("malloc") :
       /\ IF a.ok
            THEN /\ iter' = [iter EXCEPT ![t] = @ + 1]
                 /\ tpc' = [tpc EXCEPT ![t] =
                      IF (iter[t] + 1) % CheckEvery = 0 THEN "check" ELSE "fault"]
            ELSE UNCHANGED threadVars
       /\ struck' = Note(struck, a)
  /\ UNCHANGED <<threadFrame, stats>>

\* Mutant: a disabled state counts as a failure, as it does in main.
FaultCheck_WantsReplication(t) ==
  /\ At(t, "check")
  /\ \E a \in Get(parentMask) :
       GoOnOrFail(t, a.ret > 0, "fault") /\ struck' = Note(struck, a)
  /\ UNCHANGED <<threadFrame, iter, migrations, pageFaults>>

\* Replication may be on or off by now; only an error is a failure.
FaultCheck(t) ==
  /\ At(t, "check")
  /\ \E a \in Get(parentMask) :
       GoOnOrFail(t, a.ret >= 0, "fault") /\ struck' = Note(struck, a)
  /\ UNCHANGED <<threadFrame, iter, migrations, pageFaults>>

\* Mutant: a store in the place of the atomic add.
FaultEnd_Overwrites(t) ==
  /\ At(t, "fault") /\ ~MayFault(t)
  /\ pageFaults' = iter[t]
  /\ tpc' = [tpc EXCEPT ![t] = "returned"]
  /\ UNCHANGED <<threadFrame, iter, threadFailures, migrations, struck>>

FaultEnd(t) ==
  /\ At(t, "fault") /\ ~MayFault(t)
  /\ pageFaults' = pageFaults + iter[t]
  /\ tpc' = [tpc EXCEPT ![t] = "returned"]
  /\ UNCHANGED <<threadFrame, iter, threadFailures, migrations, struck>>

MayMigrate(t) == iter[t] < MIGRATION_CYCLES /\ keepRunning

MigrationPin(t) ==
  /\ At(t, "cycle") /\ MayMigrate(t)
  /\ \E a \in Call("pin") :
       GoOnOrFail(t, a.ok, "verify") /\ struck' = Note(struck, a)
  /\ UNCHANGED <<threadFrame, iter, migrations, pageFaults>>

MigrationVerify(t) ==
  /\ At(t, "verify")
  /\ \E a \in Call("stray") :
       /\ GoOnOrFail(t, a.ok, "cycle")
       /\ IF a.ok THEN /\ migrations' = migrations + 1
                       /\ iter' = [iter EXCEPT ![t] = @ + 1]
                  ELSE UNCHANGED <<migrations, iter>>
       /\ struck' = Note(struck, a)
  /\ UNCHANGED <<threadFrame, pageFaults>>

MigrationEnd(t) ==
  /\ At(t, "cycle") /\ ~MayMigrate(t)
  /\ tpc' = [tpc EXCEPT ![t] = "returned"]
  /\ UNCHANGED <<threadFrame, iter, stats, struck>>

FaultThread(t) ==
  FaultPin(t) \/ FaultIteration(t) \/ FaultCheck(t) \/ FaultEnd(t)

MigrationThread(t) == MigrationPin(t) \/ MigrationVerify(t) \/ MigrationEnd(t)

(***************************************************************************)
(* Children; they live on when main exits.                                 *)
(***************************************************************************)

\* What a child leaves alone.
childFrame == <<pc, i, keepRunning, forkVars, stats, endVars, threadVars, parentMask>>

\* The child goes on at l, or prints FAIL and exits with 1.
GoOnOrExit(c, ok, l) == cpc' = [cpc EXCEPT ![c] = IF ok THEN l ELSE "exit1"]

\* Mutant: only an error of the query is looked at.
ChildInitial_ChecksErrorOnly(c) ==
  /\ cpc[c] = "initial"
  /\ \E a \in Get(childMask[c]) :
       GoOnOrExit(c, a.ret >= 0, "enable") /\ struck' = Note(struck, a)
  /\ UNCHANGED <<childFrame, childMask>>

ChildInitial(c) ==
  /\ cpc[c] = "initial"
  /\ \E a \in Get(childMask[c]) :
       GoOnOrExit(c, a.ret = 0, "enable") /\ struck' = Note(struck, a)
  /\ UNCHANGED <<childFrame, childMask>>

ChildEnable(c) ==
  /\ cpc[c] = "enable"
  /\ \E a \in Enable(childMask[c]) :
       /\ GoOnOrExit(c, a.ret >= 0, "check")
       /\ childMask' = [childMask EXCEPT ![c] = a.mask]
       /\ struck' = Note(struck, a)
  /\ UNCHANGED childFrame

ChildCheck(c) ==
  /\ cpc[c] = "check"
  /\ \E a \in Get(childMask[c]) :
       GoOnOrExit(c, a.ret > 0, "disable") /\ struck' = Note(struck, a)
  /\ UNCHANGED <<childFrame, childMask>>

\* The last call of a child; what it answers does not matter.
ChildDisable(c) ==
  /\ cpc[c] = "disable"
  /\ \E a \in Disable(childMask[c]) :
       /\ childMask' = [childMask EXCEPT ![c] = a.mask]
       /\ struck' = Note(struck, a)
  /\ cpc' = [cpc EXCEPT ![c] = "exit0"]
  /\ UNCHANGED childFrame

Child(c) == ChildInitial(c) \/ ChildEnable(c) \/ ChildCheck(c) \/ ChildDisable(c)

\* A signal ends the child, wherever it is.
ChildKilled(c) ==
  /\ cpc[c] # "unborn" /\ ~ChildEnded(c)
  /\ \E a \in Call("killed") : ~a.ok /\ struck' = Note(struck, a)
  /\ cpc' = [cpc EXCEPT ![c] = "killed"]
  /\ UNCHANGED <<childFrame, childMask>>

\* Everything has ended: the only state in which nothing happens any more.
Done ==
  /\ Exited /\ \A c \in Forks : cpc[c] = "unborn" \/ ChildEnded(c)
  /\ UNCHANGED vars

Next ==
  \/ Main
  \/ \E t \in FaultThreads : FaultThread(t)
  \/ \E t \in MigrationThreads : MigrationThread(t)
  \/ \E c \in Forks : Child(c) \/ ChildKilled(c)
  \/ Done

Spec == Init /\ [][Next]_vars

(***************************************************************************)
(* Every process and thread is scheduled.  Nothing is assumed of a fault   *)
(* thread's turns: it may wait for memory for ever.                        *)
(***************************************************************************)
Fairness ==
  /\ WF_vars(Main)
  /\ \A t \in FaultThreads :
       WF_vars(FaultPin(t) \/ FaultCheck(t)) /\ WF_vars(FaultEnd(t))
  /\ \A t \in MigrationThreads : WF_vars(MigrationThread(t))
  /\ \A c \in Forks : WF_vars(Child(c))

FairSpec == Spec /\ Fairness

(***************************************************************************)
(* Properties                                                              *)
(***************************************************************************)

\* Exit status 0 (lines 406-413) means that every one of the forks was made,
\* that each child passed all its checks, and that every thread ran to its
\* end: the sums over the counters lose no failure in any interleaving.
VerdictSound ==
  pc = "exit0" =>
    /\ \A c \in Forks : cpc[c] = "exit0"
    /\ \A t \in Threads : tpc[t] = "returned"

\* Exit status 1 is never a false alarm: something this test is to notice did
\* go wrong.  Memory that ran out in a thread is no failure (lines 111-113),
\* nor is a refused disabling.
NoFalseAlarm ==
  pc = "exit1" => struck \ {"malloc", "stuck", "keep"} # {}

\* Conversely these faults never go unnoticed, whenever and in whatever
\* thread or process they strike.
FaultsCaught ==
  pc = "exit0" => struck \cap {"nodes", "refuse", "ignore", "create", "pin",
                               "stray", "fork", "inherit", "killed"} = {}

\* main never exits while a child of its still runs (lines 370-388).
NoOrphan ==
  Exited => \A c \in Forks : cpc[c] = "unborn" \/ ChildEnded(c)

\* The statistics add up at every moment (lines 102, 132, 138, 154, 163, 180,
\* 305, 319): the counters are the sums over what threads and forks have done.
Accounting ==
  /\ threadFailures = Cardinality({t \in Threads : tpc[t] = "failed"})
  /\ migrations = FoldFunctionOnSet(+, 0, iter, MigrationThreads)
  /\ pageFaults = FoldFunctionOnSet(+, 0, iter,
                    {t \in FaultThreads : tpc[t] = "returned"})
  /\ \A c \in Forks : childPids[c] = "garbage" <=> c >= successfulForks + failedForks

\* How far the fork loop has come (lines 299-333): the entries of child_pids[]
\* below i are written, exactly the forked children have run.
ForkLoop ==
  /\ pc \in {"nodes", "enable", "checkEnabled", "start"} =>
       successfulForks + failedForks = 0
  /\ pc = "fork" => i = successfulForks + failedForks
  /\ pc = "verify" => i \in Forks /\ i + 1 = successfulForks + failedForks
  /\ \A c \in Forks :
       /\ childPids[c] = "garbage" <=> c >= successfulForks + failedForks
       /\ childPids[c] = "child" <=> cpc[c] # "unborn"
  /\ failedForks = 0 => \A c \in Forks : childPids[c] # "zero"
  /\ successfulForks + failedForks <= NUM_RAPID_FORKS

\* How far the creation of the threads has come (lines 267-294): thread_data[]
\* is started in its order.
Unstarted ==
  /\ pc \in {"nodes", "enable", "checkEnabled"} => i = 0
  /\ pc \in {"nodes", "enable", "checkEnabled", "start"} =>
       \A t \in Threads : t >= i => tpc[t] = "absent"

\* A thread that failed is counted (lines 102, 132, 154, 163).
FailuresCounted == (\E t \in Threads : tpc[t] = "failed") => threadFailures > 0

\* How far the joins have come (lines 360-366).
Joined ==
  /\ pc = "join" => \A t \in Threads : t < i => Ended(t)
  /\ pc \in {"reap", "exit0"} => \A t \in Threads : Ended(t)

\* How far the waiting for children has come (lines 375-388).
Reaped ==
  pc = "reap" => \A c \in Forks :
    c < i /\ childPids[c] = "child" =>
      ChildEnded(c) /\ (childrenFailed = 0 => cpc[c] = "exit0")

\* The inductive invariant behind VerdictSound, NoOrphan, StatsSettled and
\* Accounting: what each loop of main has established of the entries on both
\* sides of its index.
IInv ==
  /\ TypeOK /\ Unstarted /\ ForkLoop /\ FailuresCounted /\ Joined /\ Reaped
  /\ VerdictSound /\ NoOrphan

\* The statistics that are printed and judged after the joins (lines 360-368)
\* are final.
StatsSettled == [][pc = "reap" => UNCHANGED stats]_vars

\* Under fair scheduling main comes to a verdict, even if a fault thread never
\* gets memory: keep_running ends its loop (lines 107, 358).
Termination == <>Exited

\* A check of the test has failed in main, a thread or a child.  The printed
\* line of the disabling (lines 346-354) is not a check: nothing reads it.
Failed ==
  \/ failedForks > 0 \/ threadFailures > 0 \/ childrenFailed > 0
  \/ \E c \in Forks : cpc[c] \in {"exit1", "killed"}
  \/ /\ pc \in {"disable", "checkDisabled", "stop", "join", "reap", "exit0", "exit1"}
     /\ successfulForks + failedForks < NUM_RAPID_FORKS

\* What the exit status says.
ExitVerdict ==
  CASE pc = "exit0" -> "pass" [] pc = "exit1" -> "fail" [] OTHER -> "running"

Verdict == INSTANCE TestVerdict WITH failed <- Failed, verdict <- ExitVerdict

\* The test keeps the promise of TestVerdict.
ImplementsVerdict == Verdict!Spec

\* What the printed line "FAIL: Replication not disabled" (lines 347, 350)
\* says: that the test has failed.
DisableFailureCounts == pc = "exit0" => disabled # "FAIL"

=============================================================================
