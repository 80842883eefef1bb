# TLA+ verification of the Mitosis page-table-replication tests

`src/` holds 35 stand-alone C programs, `test1.c` … `test35.c`, that exercise a
kernel with *page-table replication* (Mitosis), and `compileall.sh`, which
compiles them. The kernel itself is not in the repository. A program switches
replication on and off with `prctl(100, …)` (`PR_SET_PGTABLE_REPL`), asks for the
mask of replicating nodes with `prctl(101)` (`PR_GET_PGTABLE_REPL`), does something
that is hard for page tables (forks, threads, migrations, faults, signals), checks
what it sees, and exits with status 0 or 1.

What makes such a program correct is therefore not what the kernel does but what
the program *concludes*: status 0 must mean that everything it checks was right,
status 1 that something was wrong, and it must come to a verdict, whatever the
interleaving of its own threads, children and handlers. The models let the kernel
keep or break each of its promises and ask whether the program tells the two apart.

## 1. Inventory

| Part (files) | State it keeps | Operations and interactions | What is hard | Model |
|---|---|---|---|---|
| Stress of fork, faults and migration (test35) | `keep_running`, statistics per thread, `child_pids[]`, counters | main starts fault and migration threads, forks in a loop, verifies itself, disables, stops, joins, reaps; threads poll `keep_running`; children run their own checks | three kinds of actors at once; failures summed over threads, forks and reaping; array with unwritten entries | `ForkStress` |
| Threads before and after a fork (test34) | `thread_data[]` (reused), `results` (copied by fork) | a round of workers, join, fork, a child with a worker of its own, a second round | slots reused, state copied by fork, three counts that make a verdict | `ThreadFork` |
| userfaultfd (test24) | `uffd`, region, `handler_ready`, `test_complete` | main faults on pages, a handler thread reads messages and copies pages | main sleeps until the handler acts; start and stop of the handler | `UserFault` |
| Thread sections (test18) | `threads_ready` under a mutex, `threads_can_exit` | threads write sections of a mapping, count themselves ready, wait to leave; main joins and verifies | counter race, clean-up while threads run | `ThreadSections` |
| Signals (test7, 9, 32) | jump buffer, signal counters, `global_mem` | traps at protected pages, `siglongjmp`, alarm | the jump lands at the *last* `sigsetjmp`; a handler that runs between any two steps | `SignalTests` |
| prctl interface (test1, 2, 3, 4, 6, 11) | the mask, `thread_running` | enable and disable cycles, inheritance over fork and exec, a second thread | the thread must be stopped on every failing path | `SystemScripts`, `ProcessScripts` |
| Forked memory (test8, 10, 19, 20) | shared or copied pages | parent and child write and check at the same time; vfork | isolation and sharing in every order | `ProcessScripts` |
| Workers (test21) | pids | processes that replicate at the same time | a fork that fails in the middle | `ProcessScripts` |
| clone (test26) | the mask, a stack | a child with and without `CLONE_VM` | shared mask; a stack freed while a child may run on it; a status that nobody looks at | `ProcessScripts` |
| mlock (test25) | contents of three regions | lock, write, unlock, check | a refused lock leaves contents that the last check does not expect | `SystemScripts` |
| Huge pages, migration, policies (test22, 23, 30) | contents of mappings, protections | calls that may be refused, then the same checks | which steps are skipped after a refusal | `SystemScripts` |
| Resource limits (test31) | lowered limits | four limits, lowered and set back one after the other | `goto`s that must pass the restoring call | `SystemScripts` |
| Memory operations (test5, 12–17, 27–29, 33) | contents of mappings, a file | mapping, moving, discarding, protecting, verifying | several clean-up paths; what a step must leave alone | `MemoryScripts` |
| Build script (`compileall.sh`) | none | compiles every file | — | not modelled |

Each program is a process of its own; the parts above do not call each other. What
they share is the kernel's interface, which `ReplKernel` models once, and the promise
of an honest verdict, which `TestVerdict` states once.

Each part is correct when the program cannot pass although a check failed
(`FaultsCaught`, `ImplementsVerdict`), cannot fail although nothing went wrong
(`NoFalseAlarm`), comes to an end (`Termination`), and on the way never uses what is
gone: slots (`PhaseStable`), sections and pages (`MemoryInUse`, `CleanupAlone`,
`AlarmSafe`), counts (`Accounting`, `OkCount`, `ReadyCounted`).

## 2. Modules

* **`ReplKernel`** — external code: what `prctl`, `fork` and library calls may answer.
  A call keeps its promise or breaks it in one of the ways in the constant `Faults`;
  a model keeps in `struck` the faults that have struck. A mask is 0 or 1, where 1
  stands for every non-zero mask. `Possible` drops an answer that differs from the right one
  in nothing but its name: a child that "inherits" a mask of 0 has lost nothing. A
  proof of `FaultsCaught` for every set of faults asks for this rule.
* **`TestVerdict`** — the abstract specification: checks may fail, and the verdict is
  "pass" only if none has and none will.
* **`ForkStress`** — test35. One action per stretch of `main`, of `fault_thread`, of
  `migration_thread` and of `child_process` between two points where others can
  interfere. `fault_thread`'s test of `keep_running` and its query are separate steps,
  so that main can stop it in between. Slots of `child_pids[]` that were never written
  hold `"garbage"`, and reaping one gives any answer. A child may die of a signal at any of its
  steps (`ChildKilled`), which `WIFEXITED` tells main (line 381).
* **`ThreadFork`** — test34. A worker is a pair of its phase and its slot, so that a
  slot of `thread_data[]` that is zeroed and reused is visible to a late reader. The child may
  die of a signal (`ChildKilled`, line 332), with its worker in any state.
* **`UserFault`** — test24, main and handler. `LoopTable` gives the loops of main their
  number of turns and what they expect. A page shows nothing, the handler's pattern,
  main's pattern, or something else. `DropPages` may leave any part of the dropped half with its
  old translation.
* **`ThreadSections`** — test18. `threads_ready++` is a read and a store (`ReadReady`,
  `StoreAndUnlock`) inside `Lock`.
* **`SignalTests`** — tests 7, 9 and 32 as scripts of one machine. `TakeSignal` is the
  handler with its `siglongjmp`; `AlarmFires` may run between any two steps.
* **`ScriptedTests`** — the other 28 programs. Most of the suite is straight-line: a call or
  an access, and what the code does when it goes wrong. `ScriptSteps` names the steps
  and these outcomes (return 1, clear `pass` and go on, print `FAIL` only, ignore, jump to a
  clean-up label, send SIGTERM to the children). `MemoryScripts`, `SystemScripts` and
  `ProcessScripts` write each program as a sequence of such steps, and `ScriptedTests` is the
  machine: `todo[p]` holds the steps process `p` has still to make, each kind of step
  is an action, and children and threads run their own scripts at the same time.
  Memory is what each process sees in each region; `Sharers` says who else sees a write
  (`MAP_SHARED`, threads, vfork, `CLONE_VM`), and a broken promise lets too few or too many
  see it. `keeps` names the regions that a step must not change, which a fault may damage.
  `ChildKilled` ends a child by a fault, on a stack that main has freed (`StackFreed`), or by the
  SIGTERM of test21, which is delivered some time after main has returned (`Signalled`).
* **`ScriptFacts`** — what can be read off the scripts without running them: where each step may
  lead, which limits are to be set back, which processes are still to be awaited, which regions
  have to be mapped. Its assumptions are closed formulas over the 28 scripts.
* **`ScriptOutlines`** — what must hold before each step of a script for no later check to fail:
  the masks allowed and the contents expected, computed backwards from the end. Its two
  assumptions, closed formulas again, say that the scripts' beginnings meet what they want and
  that no process disturbs what another one wants.
* **`ScriptDemands`** — the other direction: the masks and contents with which a process may go
  on from a step so that nobody ever notices, again computed backwards. What is not among them is
  a flaw that some later query or check shows. Its assumptions are closed formulas too: flaws stay
  where they are until a step fails for them; each kind of fault leaves one behind, or the program
  is in `Overlooking`; and what test3 and test26, whose processes depend on each other's writes,
  do in which order.
* **`MC…`** modules give the sets of faults; **`…_proofs`** modules hold the proofs.

In every module an operator named `X_Something` next to `X` is a mutated form of `X`: a
plausible bug of the code, which no behaviour contains. `PROJECT.json` names the one
that each property is sensitive to.

Two steps of the code that are one step here: test14's second attempt at the gap, with `MAP_FIXED`
(lines 119–123), belongs to the map step, which is refused where both attempts are; and test8's
`ftruncate`, whose failure is not looked at (line 115), stands at the point where it is felt, before
the write to a mapping beyond the end of the file, which is fatal. `waitpid` does not fail in the
models: it is called for a child that exists and has not been waited for, without options, in
programs that install no handler and so are not interrupted (the unwritten pids of test35 are the
exception, and modelled); the branches of test21 (line 132) and test35 (line 380) for an error are
the ones that a failed child takes, and test34 does not look at the result (line 324).

What is abstracted: node numbers, CPU numbers, page contents (to the values a check
tells apart), pages treated alike (one region), sleeping times, printed text, queries whose
result is only printed, and clean-up immediately before a return where the process ends
anyway. After a verdict threads stop, children go on.

## 3. Runs

| Run | Instance | Shows |
|---|---|---|
| `stress_kernel` | 2 forks (main verifies itself after the first), 1 fault thread, 1 migration thread, every broken promise of prctl and fork; 396,502 states | the inductive invariant `IInv`, `FaultsCaught`, `ImplementsVerdict` (refinement of `TestVerdict`), `Termination` |
| `stress_threads` | 2 forks, 2 fault threads, 1 migration thread, failures of what threads call; 1,440,391 states | `VerdictSound`, `NoFalseAlarm`, `Accounting`, `StatsSettled` |
| `stress_disable` | the second `prctl` is refused | *violated:* `DisableFailureCounts` |
| `threadfork` | 2 workers per round, every fault; 5,778 states | slots are stable under their workers, the process forks single-threaded, counts, verdict, termination |
| `threadfork_childthread` | 1 worker, wrong node | *violated:* `ChildThreadCounts` |
| `userfault` | 4 pages, every fault; 54,773 states | pages are filled once each, the handler is gone before clean-up, messages match, verdict, termination |
| `userfault_nomemory` | 2 pages, `malloc` fails | *violated:* `ReadyComes` |
| `sections` | 3 threads, every fault; 23,665 states | no lost increment, work before leave, verdict, termination |
| `sections_unmapped` | 2 threads, `pthread_create` fails | *violated:* `SectionMapped` |
| `signals` | the three programs, every fault, 3 turns of waiting; 591 states | signals are counted once, alarm and free, verdict, termination |
| `signals_spurious` | an allowed access may trap | *violated:* `NowWriteWorks` |
| `scripted` | the 28 programs, every kind of fault, any number of kinds in one execution; 128,234 states | faults are caught or named in `Overlooking`, no false alarm, limits set back on every path, no access to memory that is gone, refinement of `TestVerdict`, termination |

Bounds. Two threads of a kind, or three for the mutex, give every pairwise race; more
repeat them. Two forks give a fork that is verified and one that is not, an unwritten
tail of `child_pids[]`, and two children at once. `FAULT_ITERATIONS` and
`MIGRATION_CYCLES` only need a turn that is checked and one that is not. Four pages make
the dropped half two pages. `AlarmTurns = 3` gives a turn before the alarm, one after
it and the late case. In `scripted` a loop has two rounds that write different values (a
third round repeats the second) and two of test21's four workers race. `MaxFaults = 24` is the
number of kinds there are, so that nothing bounds the faults: one may hide another, which is what
`HiddenBy` speaks of, and theorem `FewerFaults` says that this instance has the behaviours of
every other one.
`CHECK_DEADLOCK FALSE` appears in the two runs of test24 only,
where main really may sleep for ever; everywhere else a stuck program is an error.

Fairness. The programs have no scheduler of their own: weak fairness of each thread
and process says that the operating system runs them. `ThreadSections` adds strong
fairness of `Lock` (a mutex that starves nobody); `UserFault` adds strong fairness of
`PollReports` (poll is not interrupted for ever while a message waits); `SignalTests`
adds that the timer runs; `ScriptedTests` has weak fairness of each process and nothing
else. In `ForkStress` nothing is assumed of the outcome of a fault
thread's `malloc`: it may fail for ever, and `keep_running` still ends it. `Termination`
names its exceptions: test9 when an access that should work traps every time, test3 when a
write of `thread_running` never reaches the other thread.

Faults that a program does *not* notice are named, not hidden. `FaultsCaught` is stated
for the faults each program is able to see; the rest is in `Unnoticed` (`SignalTests`), in the
comment on the property, or, for the 28 scripted programs, in three operators:

* `Overlooking(f)`: the programs that may pass although `f` has struck (replication that
  an accepted call did not enable, where no query follows; an error of the query taken for a mask);
* `HiddenBy(g)`: what a program would have seen but for an overlooked fault `g`;
* `PrintsOnly`: programs that print a failure, go on, and report success.

A fault that such a list does not name and that a program misses violates the property. The
property says nothing in the other direction: the run does not check that every entry of these
lists is needed. (Removing any one of them makes `FaultsCaught` fail on the run `scripted`; this
was tried once for each entry and is not part of a run.)

An exception in a property is a blind spot of the program that is written down, and no protection.
Hazards that lie wholly in such an exception have no property in `PROJECT.json`, only a note: the
copies that are still there when the parent writes (test10 line 105), failures that are printed
only (test27 line 98), the refused `mlock` (test25 line 201), the unexamined statuses (test26 line
135), the pages that begin with 0 (test29 line 98), and -1 taken for a mask (test14 line 155, test32
line 81). Others are met in part: `MemoryInUse` covers every path to the free of test26's stack but
that of the query right after clone (line 89), `EveryFaultHandled` says that the handler's printed
count is short exactly if a translation has survived `MADV_DONTNEED`, though test24 judges it
nowhere, `NoStrandedFault` stops at a failing `UFFDIO_COPY` (line 93), and in
`ThreadFork` a failure of the child's own worker is what `FaultsCaught` leaves out and
`ChildThreadCounts` shows.

Some faults go unnoticed by design, for instance `lose` at the forks that test35 does not
verify (line 326), others by omission, and then they are hazards in `PROJECT.json`.

## 4. Disagreements found

1. **test35**: FAIL is printed when replication cannot be disabled, but `all_ok`
   (line 406) ignores it: exit status 0 (`stress_disable`).
2. **test34**: the failure of the child's own worker is counted in the child's copy of
   `results`; the child still reports that all its tests passed (`threadfork_childthread`).
3. **test24**: a handler without memory returns before it sets `handler_ready`; main
   waits for ever (`userfault_nomemory`).
4. **test18**: a failing `pthread_create` makes main unmap memory that running threads
   use (`sections_unmapped`).
5. **test9**: a write that should work and traps lands at the earlier `sigsetjmp`, and is
   taken for the expected trap (`signals_spurious`); if it always traps, the test loops.

Five smaller ones are exceptions in the properties of `ScriptedTests`, each at its line:

6. **test25**: `mlock` may be refused ("Continue anyway - not fatal", line 80), but the
   final checks (lines 200 and 209) expect what is written only where it succeeds:
   the test fails (`NoFalseAlarm`).
7. **test5, test15, test27** print a failure and report success (`PrintsOnly`).
8. **test26** frees the stack of its `CLONE_VM` child without waiting when the mask right after
   clone is wrong (line 89, `MemoryInUse`), and does not look at how that child ended
   (line 94, `Failed`).
9. **test29** fills its file with the low byte of the offset, which is 0 at the start of
   every page, the only bytes it checks: a file that was never read shows the same (`Byte`).
10. **test3** reads `thread_running` in two loops that nothing ends when the write is lost
    (`Termination`).

## 5. Proofs

TLAPS proves, for every number of forks, threads, pages and turns, and every set of faults:

* `ReplKernel_proofs`: what an answer tells (an accepted call that left the mask at 0 was
  ignored; a child with a mask has inherited it), and that a fault once noted stays noted.
* `ForkStress_proofs` (`SizesAssumption` is all that is assumed of the constants):
  * `TypeCorrect`;
  * `VerdictIsSound`: status 0 means that every fork was made, every child passed and
    every thread ran to its end, and main leaves no running child behind. `VerdictSound` is not
    inductive: it depends on what the counters mean while the loops run. `IInv` adds
    `ForkLoop` (index, counters and `child_pids[]` agree), `FailuresCounted` (a failed
    thread is in its statistics), `Joined` and `Reaped` (what the loops have passed is
    done). One step per action, one lemma per kind of thread;
  * `StatsAreSettled`: an action property — after the joins no step changes the statistics;
  * `StressImplementsVerdict`: refinement of `TestVerdict`. `FailedStays` shows that a
    failure is never forgotten, `VerdictGiven` that the verdict is given once and from
    all failures; a step is then `CheckFails`, `Abort`, `Report` or a stutter;
  * `LoopsEstablish`: the inductive invariant `IInv` itself, which the run `stress_kernel` checks;
  * `StatisticsAddUp`: `Accounting`. The sums are not unfolded: each is the cardinality of a set
    of units, one for every failed turn of a thread, so that a step adds or removes one element;
  * `NoAlarmIsFalse` (invariant `Quiet`: as long as nothing harmful has
    struck, masks are what each actor expects and no counter counts a failure) and
    `NoFaultIsMissed` (invariant `Traced`: each fault that has struck has left a mark on the way
    to the verdict — a mask that the next query will show, a failed child, a statistic).
* `ThreadFork_proofs`: `TypeCorrect`, `PhasesAreStable`, `ForksSingleThreaded`, `CountIsRight`,
  `ForkImplementsVerdict`, `NoAlarmIsFalse`, `NoFaultIsMissed`. The invariant follows main:
  `FirstRound`, `SecondRound` and `ChildRound` say which workers exist, which have been joined
  and what their slots hold; the count of good workers is the cardinality of a set. `NoFaultIsMissed`
  follows the faults that only make a worker fail as well: where the test passes, the child's own
  worker alone has met them.
* `UserFault_proofs`: `TypeCorrect`, `MessagesMatch`, `CleansUpAlone`, `NoFaultIsStranded`,
  `FaultsAreHandled`, `NoAlarmIsFalse`, `NoFaultIsMissed`, `UserFaultImplementsVerdict`.
  `Control` relates the two programs' places, `OneMessage` says that there is never more than one
  fault under way (main sleeps on it), `PagesSeen` what each page shows in each loop, `Counted`
  that the handler's count is the number of pages that were missing, and `Short` that fewer were
  missing again if a translation has survived.
* `ThreadSections_proofs` (`NumThreadsAssumption`): `TypeCorrect`, `NoIncrementLost`,
  `WorkIsDoneFirst`, `NoFaultIsMissed`. The type of the counter already needs the count:
  `threads_ready` stays below `NUM_THREADS` only because it is the cardinality of the set of
  ready threads, so the first three are proved together. The invariant adds `Mutual` (who is between
  lock and unlock holds the mutex), `SeenCurrent` (what it has read is still true), `Fresh`
  (threads not created yet have not run) and `Written`. `NoFaultIsMissed` adds the
  stages of main and what a broken section leaves for a later check.
* `SignalTests_proofs` (`AlarmTurnsAssumption`): `TypeCorrect`, `AlarmIsSafe`, `NoAlarmIsFalse`,
  `NoFaultIsMissed`. `Counts` bounds the counter by the place in the script, `Jumps` says where a
  `siglongjmp` may land, `Alarms` that main leaves the wait without the alarm only if it is
  late. `InPlace` gives the protection that each access relies on (so that an access that is
  to trap is never allowed and one that is to work always is), `Quiet` what a run without
  faults looks like at each step, `Traced` what each fault leaves behind.
* `ScriptedTests_proofs`, for every set of faults and every `MaxFaults`:
  * `TypeCorrect`: no process runs past the end of its script, wherever a failure makes it jump to
    (invariants `ControlOK` and `MemoryOK`);
  * `LimitsAreRestored`: `LimitsOwed` says that the steps to come set back what is lowered;
  * `ScriptsImplementVerdict`: refinement of `TestVerdict`. `Awaited` says that every child that
    exists has a wait before it in main's remaining steps, also after a jump to a clean-up label;
  * `MemoryIsInUse`: `Held` relates the regions that are mapped to those that the remaining steps
    touch, `Lifted` the protections, `StackHeld` keeps the stack of test26 under its child.
  * `FewerFaults`: for all `Faults` and `MaxFaults`, `Spec` implies the specification in which all
    24 kinds may strike in any combination. `FaultsCaught` does not mention either constant,
    so that the run `scripted`, which checks just that specification, speaks for all of them.

  What these need to know of the scripts themselves are the assumptions of `ScriptFacts`: formulas
  with no constant and no variable in them, over scripts that are written out. The provers do not
  evaluate 28 programs; TLC does, on the run `scripted`, and they are the same for every instance.
* `ScriptedFaults_proofs`:
  * `NoAlarmIsFalse`: while nothing strikes that a program may fail for, every process finds the
    mask and the contents that it wants (`Untroubled`, which is `InPlace` for the process
    itself and `Delivered` for what a child that has ended leaves for main). It rests on the
    closed assumptions of `ScriptOutlines`, which TLC evaluates in the same run;
  * `NoFaultIsMissed`: `FaultsCaught`, the claim in the last line of each of the 28 programs, for
    every set of faults, in any combination and any order of the processes. The property speaks of
    the end only, and is far from inductive: what has struck is history, and a later write, unmap or
    fork may wipe out every trace of it. The inductive invariant `Watched` says that a failure has
    already been noticed (`Shown`), or every fault that has struck is `Accounted` for: this program
    overlooks it, or it has left a mark — a process with a mask that the rest of its script does not
    tolerate (`Amiss`), or one that sees contents it does not tolerate in a region that nobody is
    going to change (`Astray`). A mark is passed on by every step that goes on (`AmissStays`,
    `AstrayMine`, `AstrayOther`), and none is left where a process ends, since the end tolerates
    everything; so at the verdict only overlooked faults remain. The other conjuncts of `Watched`
    carry what a mark cannot show yet: `Sourced` (a program without children holds only what it
    has written, so that a stale page differs from it), `Expecting` (main does not have what a
    child is to deliver before the child has written it, so that main misses a child's lost write),
    `Polling` (the two threads of test3, of which one waits where the other's write is lost),
    `OwnLife` (the first child of test26, whose status main does not look at, finds its own
    mapping as it left it) and `Never` (main of test21 has no mask that a worker could inherit).
    The masks and contents meant are those of `ScriptDemands`.

`Traced` and `Quiet` keep the same plan everywhere: faults are history, so the proof carries
what the history implies about the state, and at the verdict only the faults remain
that `FaultsCaught` allows.

Every safety invariant and every action property that a passing run checks is stated by a theorem.
Only model-checked: liveness under fairness (`Termination` of each module, which also needs
`ENABLED`), and the closed assumptions about the scripts: what a recursive
computation over 28 written-out sequences yields is evaluated, not proved.

## 6. Not modelled

`compileall.sh` runs the compiler over the files and keeps no state. Inside the programs: which
node a mask names (test4 tries several; the models have one non-zero mask, so that the
mask 1 of node 0, which `prctl` takes for "all nodes", is a hazard without a property), CPU
pinning beyond success or failure, queries whose result is only printed (test24 line 191,
test18 line 163), and the race detection of C's memory model: `volatile` flags are read
and written atomically in the models.

## 7. What is left

* Several masks, to tell the nodes of test4 and test23 apart.
