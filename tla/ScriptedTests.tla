--------------------------- MODULE ScriptedTests ---------------------------
(***************************************************************************)
(* The machine that executes the scripts: the 28 programs that are a       *)
(* sequence of calls, their children and threads.  All processes of a      *)
(* program run the same actions; every call may break its promise in the   *)
(* ways of Faults.  Memory is what each process sees in each region.       *)
(***************************************************************************)
EXTENDS ReplKernel, SequencesExt, MemoryScripts, SystemScripts, ProcessScripts

CONSTANT MaxFaults    \* so many kinds of faults strike one execution at most

ASSUME MaxFaultsAssumption == MaxFaults \in Nat

Script ==
  [ test1  |-> [main |-> Main1],
    test2  |-> [main |-> Main2, child1 |-> Child2],
    test3  |-> [main |-> Main3, child1 |-> Child3],
    test4  |-> [main |-> Main4],
    test5  |-> [main |-> Main5],
    test6  |-> [main |-> Main6, child1 |-> Child6],
    test8  |-> [main |-> Main8, child1 |-> Child8],
    test10 |-> [main |-> Main10, child1 |-> Child10],
    test11 |-> [main |-> Main11],
    test12 |-> [main |-> Main12],
    test13 |-> [main |-> Main13],
    test14 |-> [main |-> Main14],
    test15 |-> [main |-> Main15],
    test16 |-> [main |-> Main16],
    test17 |-> [main |-> Main17],
    test19 |-> [main |-> Main19, child1 |-> Child19],
    test20 |-> [main |-> Main20, child1 |-> Child20, child2 |-> Child20Exec],
    test21 |-> [main |-> Main21, child1 |-> Worker21("a", "b"), child2 |-> Worker21("c", "d")],
    test22 |-> [main |-> Main22],
    test23 |-> [main |-> Main23],
    test25 |-> [main |-> Main25],
    test26 |-> [main |-> Main26, child1 |-> Child26, child2 |-> Child26],
    test27 |-> [main |-> Main27],
    test28 |-> [main |-> Main28],
    test29 |-> [main |-> Main29],
    test30 |-> [main |-> Main30],
    test31 |-> [main |-> Main31],
    test33 |-> [main |-> Main33] ]

Tests == DOMAIN Script
ProcsOf(t) == DOMAIN Script[t]
AllProcs == {"main", "child1", "child2"}

StepsOf(t) == UNION {{Script[t][p][i] : i \in DOMAIN Script[t][p]} : p \in ProcsOf(t)}

\* The variables that are there from the start, as zeros.
Static == {"flag", "touched"}

RegionsOf(t) ==
  UNION {s.at \cup (IF s.do = "move" THEN {s.val} ELSE {}) : s \in StepsOf(t)}

\* The processes that run in one address space, while both are there: a thread
\* and its process; vfork; CLONE_VM.
OneMemory(t) ==
  CASE t = "test3"  -> {"main", "child1"}
    [] t = "test20" -> {"main", "child1", "child2"}
    [] t = "test26" -> {"main", "child1"}
    [] OTHER -> {}

\* MAP_SHARED (test8).
SharedRegions == {"prefix", "suffix"}

Contents == {"none", "zero", "old", "new", "inverted", "changed", "file", "parent",
             "child", "a", "b", "c", "d", "v0", "v1", "bad"}

VARIABLES
  test,      \* which of the programs this is
  todo,      \* the steps each process has still to make
  state,     \* "absent", "running", and how it has ended
  pass,      \* the program's pass, of each process
  printed,   \* was FAIL printed by a program that goes on as if it had not?
  mem,       \* what each process sees in each region, "none" if unmapped
  closed,    \* the regions protected against access
  mask,      \* the mask of each process
  lowered,   \* the resource limits that are lowered
  struck

control == <<test, todo, state, pass, printed, struck>>
memory == <<mem, closed>>
vars == <<control, memory, mask, lowered>>

Procs == DOMAIN state
Regions == DOMAIN mem["main"]
Ended(p) == state[p] \in {"ok", "failed", "killed"}
Current(p) == Head(todo[p])

\* The type of every variable.
TypeOK ==
  /\ test \in Tests
  /\ state \in [ProcsOf(test) -> {"absent", "running", "ok", "failed", "killed"}]
  /\ \A p \in Procs : todo[p] # <<>>
  /\ pass \in [Procs -> BOOLEAN] /\ printed \in BOOLEAN
  /\ mem \in [Procs -> [RegionsOf(test) -> Contents]] /\ closed \subseteq Regions
  /\ mask \in [Procs -> Mask]
  /\ lowered \subseteq {"data", "stack", "processes", "cpu"}
  /\ Cardinality(struck) <= MaxFaults

Init ==
  /\ test \in Tests
  /\ todo = Script[test]
  /\ state = [p \in ProcsOf(test) |-> IF p = "main" THEN "running" ELSE "absent"]
  /\ pass = [p \in Procs |-> TRUE] /\ printed = FALSE
  /\ mem = [p \in Procs |->
              [r \in RegionsOf(test) |-> IF r \in Static THEN "zero" ELSE "none"]]
  /\ closed = {}
  /\ mask = [p \in Procs |-> 0]
  /\ lowered = {}
  /\ struck = {}

(***************************************************************************)
(* Control                                                                 *)
(***************************************************************************)

Doing(p, what) == p \in Procs /\ state[p] = "running" /\ Current(p).do = what

Strike(faults) ==
  /\ struck' = struck \cup (faults \ {"none"})
  /\ Cardinality(struck') <= MaxFaults

\* What is left of the steps u after the first n of them.
After(u, n) == SubSeq(u, n + 1, Len(u))

\* p goes on n steps later.
Advance(p, n) == todo' = [todo EXCEPT ![p] = After(@, n)]
Proceed(p) == Advance(p, 1) /\ UNCHANGED <<test, state, pass, printed>>
EndAs(p, how) == state' = [state EXCEPT ![p] = how] /\ UNCHANGED <<test, todo, pass, printed>>

\* How many steps later the next one of u is that bears the label l.
ToLabel(u, l) == SelectInSeq(Tail(u), LAMBDA s : s.label = l)

\* Mutant: a refused call is gone on from as if it had been granted.
GoesWrong_NotNoticed(p) == Proceed(p)

GoesWrong(p) ==
  LET s == Current(p)
      after == 1 + s.skip
  IN CASE s.bad \in {"abort", "kill"} -> EndAs(p, "failed")
       [] s.bad = "die" -> EndAs(p, "killed")
       [] s.bad = "ignore" -> Advance(p, after) /\ UNCHANGED <<test, state, pass, printed>>
       [] s.bad = "print" ->
            Advance(p, after) /\ printed' = TRUE /\ UNCHANGED <<test, state, pass>>
       [] s.bad = "note" ->
            /\ Advance(p, after) /\ pass' = [pass EXCEPT ![p] = FALSE]
            /\ UNCHANGED <<test, state, printed>>
       [] OTHER ->
            /\ Advance(p, ToLabel(todo[p], s.bad)) /\ pass' = [pass EXCEPT ![p] = FALSE]
            /\ UNCHANGED <<test, state, printed>>

ProceedIf(p, good) == IF good THEN Proceed(p) ELSE GoesWrong(p)

\* The refusal of a call whose result does not matter to the program.
Refused(p, fault) == IF Current(p).bad = "ignore" THEN "optional" ELSE fault

(***************************************************************************)
(* Memory                                                                  *)
(***************************************************************************)

\* The processes that see what p does to the regions R.
Sharers(p, R) ==
  LET group == IF R # {} /\ R \subseteq SharedRegions THEN Procs
               ELSE IF p \in OneMemory(test) THEN OneMemory(test) ELSE {}
  IN {p} \cup {q \in group : state[q] # "absent"}

\* f where it is defined and g elsewhere.
Over(f, g) == [r \in DOMAIN f \cup DOMAIN g |-> IF r \in DOMAIN f THEN f[r] ELSE g[r]]

\* mem once the processes Q see the contents of the function f.
Changed(Q, f) == [q \in Procs |-> IF q \in Q THEN Over(f, mem[q]) ELSE mem[q]]

Filled(R, v) == [r \in R |-> v]
Nothing == Filled({}, "none")

\* A step may damage a region it must keep.
Damage(p) ==
  Possible({[at |-> {}, fault |-> "none"]}
           \cup {[at |-> {r}, fault |-> "corrupt"] : r \in Current(p).keeps})

\* The access to the regions R becomes f and a region that d names is damaged.
Becomes(p, R, f, d) == mem' = Changed(Sharers(p, R), Over(Filled(d.at, "bad"), f))

(***************************************************************************)
(* The steps                                                               *)
(***************************************************************************)

EnableReplication(p) ==
  /\ Doing(p, "enable")
  /\ \E a \in Enable(mask[p]), d \in Damage(p) :
       /\ ProceedIf(p, a.ret = 0)
       /\ mask' = [mask EXCEPT ![p] = a.mask]
       /\ Becomes(p, {}, Nothing, d)
       /\ Strike({IF a.ret = 0 THEN a.fault ELSE Refused(p, a.fault), d.fault})
  /\ UNCHANGED <<closed, lowered>>

DisableReplication(p) ==
  /\ Doing(p, "disable")
  /\ \E a \in Disable(mask[p]), d \in Damage(p) :
       /\ ProceedIf(p, a.ret = 0)
       /\ mask' = [mask EXCEPT ![p] = a.mask]
       /\ Becomes(p, {}, Nothing, d)
       /\ Strike({IF a.ret = 0 THEN a.fault ELSE Refused(p, a.fault), d.fault})
  /\ UNCHANGED <<closed, lowered>>

\* A node that does not exist is accepted; the refusal is what is hoped for.
EnableInvalid(p) ==
  /\ Doing(p, "invalid")
  /\ \E a \in Call("accept") :
       /\ ProceedIf(p, ~a.ok)
       /\ mask' = IF a.ok THEN mask ELSE [mask EXCEPT ![p] = 1]
       /\ Strike({a.fault})
  /\ UNCHANGED <<memory, lowered>>

Satisfies(ret, want) ==
  CASE want = "zero" -> ret = 0
    [] want = "on" -> ret > 0
    [] want = "nonzero" -> ret # 0
    [] OTHER -> ret >= 0

QueryReplication(p) ==
  /\ Doing(p, "query")
  /\ \E a \in Get(mask[p]) :
       ProceedIf(p, Satisfies(a.ret, Current(p).val)) /\ Strike({a.fault})
  /\ UNCHANGED <<memory, mask, lowered>>

\* What the regions hold once they are mapped: of a file, its content, or zeros
\* if the file is not read.
Mapped(p, v) ==
  Possible({[val |-> IF v \in Regions THEN mem[p][v] ELSE v, fault |-> "none"]}
           \cup (IF v = "zero" THEN {} ELSE {[val |-> "zero", fault |-> "blank"]}))

MapMemory(p) ==
  /\ Doing(p, "map")
  /\ LET s == Current(p) IN
     \/ \E a \in Mapped(p, s.val), d \in Damage(p) :
          /\ Proceed(p)
          /\ Becomes(p, s.at, Filled(s.at, a.val), d)
          /\ Strike({a.fault, d.fault})
     \/ /\ Refused(p, "nomem") \in Faults
        /\ GoesWrong(p)
        /\ UNCHANGED mem
        /\ Strike({Refused(p, "nomem")})
  /\ UNCHANGED <<closed, mask, lowered>>

\* A part of the write may be lost; those who share the memory may not see it,
\* those who do not may.
Arriving(p, R, v) ==
  Possible({[at |-> R, fault |-> "none"]}
           \cup {[at |-> R \ L, fault |-> "lost"] :
                   L \in (SUBSET {r \in R : mem[p][r] # v}) \ {{}}})

Reaching(p, R) ==
  LET right == Sharers(p, R)
      others == {q \in Procs \ right : state[q] = "running" /\ \A r \in R : mem[q][r] # "none"}
  IN Possible({[who |-> right, fault |-> "none"]}
              \cup (IF right = {p} THEN {} ELSE {[who |-> {p}, fault |-> "split"]})
              \cup (IF others = {} THEN {}
                    ELSE {[who |-> right \cup others,
                           fault |-> IF p = "main" THEN "leakDown" ELSE "leak"]}))

WriteMemory(p) ==
  /\ Doing(p, "write")
  /\ LET s == Current(p) IN
     \E a \in Arriving(p, s.at, s.val), b \in Reaching(p, s.at), d \in Damage(p) :
       /\ mem' = Changed(b.who, Over(Filled(d.at, "bad"), Filled(a.at, s.val)))
       /\ Strike({a.fault, b.fault, d.fault})
  /\ Proceed(p)
  /\ UNCHANGED <<closed, mask, lowered>>

\* The byte at the start of every page is what the checks look at: test29 fills
\* its file with the low byte of the offset, which is 0 there.
Byte(v) == IF v = "file" THEN "zero" ELSE v

CheckMemory(p) ==
  /\ Doing(p, "check")
  /\ LET s == Current(p) IN
     ProceedIf(p, \A r \in s.at : Byte(mem[p][r]) = Byte(s.val))
  /\ UNCHANGED <<struck, memory, mask, lowered>>

\* The result of munmap is looked at where the step may go wrong.
UnmapMemory(p) ==
  /\ Doing(p, "unmap")
  /\ LET s == Current(p) IN
     \E a \in Call("unmap"), d \in Damage(p) :
       /\ a.ok \/ s.bad # "ignore"
       /\ ProceedIf(p, a.ok)
       /\ Becomes(p, s.at, IF a.ok THEN Filled(s.at, "none") ELSE Nothing, d)
       /\ Strike({a.fault, d.fault})
  /\ UNCHANGED <<closed, mask, lowered>>

\* MADV_DONTNEED: the regions hold zeros again; stale pages stay what they were.
DropMemory(p) ==
  /\ Doing(p, "drop")
  /\ LET s == Current(p) IN
     \/ \E stale \in SUBSET {r \in s.at : mem[p][r] # "zero"}, d \in Damage(p) :
          /\ stale # {} => "stale" \in Faults
          /\ Proceed(p)
          /\ Becomes(p, s.at, Filled(s.at \ stale, "zero"), d)
          /\ Strike({IF stale = {} THEN "none" ELSE "stale", d.fault})
     \/ /\ "call" \in Faults
        /\ GoesWrong(p)
        /\ UNCHANGED mem
        /\ Strike({"call"})
  /\ UNCHANGED <<closed, mask, lowered>>

ProtectMemory(p) ==
  /\ Doing(p, "shut") \/ Doing(p, "open")
  /\ LET s == Current(p) IN
     \E a \in Call("call") :
       /\ ProceedIf(p, a.ok)
       /\ closed' = IF ~a.ok THEN closed
                    ELSE IF s.do = "shut" THEN closed \cup s.at ELSE closed \ s.at
       /\ Strike({a.fault})
  /\ UNCHANGED <<mem, mask, lowered>>

MoveMemory(p) ==
  /\ Doing(p, "move")
  /\ LET s == Current(p) IN
     \E a \in Call("call"), d \in Damage(p) :
       /\ ProceedIf(p, a.ok)
       /\ a.ok \/ d.at = {}
       /\ Becomes(p, s.at,
                  IF a.ok
                    THEN [r \in s.at \cup {s.val} |->
                            IF r \in s.at THEN "none" ELSE mem[p][CHOOSE q \in s.at : TRUE]]
                    ELSE Nothing, d)
       /\ Strike({a.fault, d.fault})
  /\ UNCHANGED <<closed, mask, lowered>>

OtherCall(p) ==
  /\ Doing(p, "call")
  /\ \E a \in Call(Refused(p, "call")), d \in Damage(p) :
       /\ ProceedIf(p, a.ok)
       /\ Becomes(p, {}, Nothing, d)
       /\ Strike({a.fault, d.fault})
  /\ UNCHANGED <<closed, mask, lowered>>

LowerLimit(p) ==
  /\ Doing(p, "lower")
  /\ \E a \in Call("optional") :
       /\ ProceedIf(p, a.ok)
       /\ lowered' = IF a.ok THEN lowered \cup {Current(p).val} ELSE lowered
       /\ Strike({a.fault})
  /\ UNCHANGED <<memory, mask>>

\* Mutant: a limit is set back only where nothing has failed.
RestoreLimit_IfPassed(p) ==
  /\ Doing(p, "restore")
  /\ Proceed(p)
  /\ lowered' = IF pass[p] THEN lowered \ {Current(p).val} ELSE lowered
  /\ UNCHANGED <<struck, memory, mask>>

RestoreLimit(p) ==
  /\ Doing(p, "restore")
  /\ Proceed(p)
  /\ lowered' = lowered \ {Current(p).val}
  /\ UNCHANGED <<struck, memory, mask>>

\* k runs from the start of its script.
Started(p, k) ==
  /\ state' = [state EXCEPT ![k] = "running"]
  /\ Advance(p, 1)
  /\ UNCHANGED <<test, pass, printed>>

\* The child has the memory of its parent or a copy, in which a page that it
\* looks at may be wrong.
ForkProcess(p) ==
  /\ Doing(p, "fork")
  /\ LET s == Current(p) k == s.val IN
     \E a \in Fork(mask[p]), d \in Damage(p),
        c \in Possible({[at |-> {}, fault |-> "none"]}
                       \cup {[at |-> {r}, fault |-> "badCopy"] : r \in s.at}) :
       /\ mask' = [mask EXCEPT ![p] = a.parent, ![k] = a.child]
       /\ IF a.ret = 1
          THEN /\ Started(p, k)
               /\ mem' = [mem EXCEPT ![p] = Over(Filled(d.at, "bad"), mem[p]),
                                     ![k] = Over(Filled(c.at, "bad"), mem[p])]
          ELSE /\ GoesWrong(p)
               /\ c.at = {} /\ d.at = {}
               /\ UNCHANGED mem
       /\ Strike({a.fault, c.fault, d.fault})
  /\ UNCHANGED <<closed, lowered>>

CreateThread(p) ==
  /\ Doing(p, "thread")
  /\ \E a \in Call("call") :
       /\ IF a.ok THEN Started(p, Current(p).val) ELSE GoesWrong(p)
       /\ Strike({a.fault})
  /\ UNCHANGED <<memory, mask, lowered>>

\* clone with CLONE_VM: ends the replication of the memory both run in, or is
\* refused with EINVAL, which the program accepts.
CloneVM(p) ==
  /\ Doing(p, "cloneVM")
  /\ LET s == Current(p) k == s.val IN
     \/ \E keep \in Possible({[mask |-> 0, fault |-> "none"],
                              [mask |-> mask[p], fault |-> "keepVM"]}) :
          /\ Started(p, k)
          /\ mask' = [mask EXCEPT ![p] = keep.mask, ![k] = keep.mask]
          /\ mem' = [mem EXCEPT ![k] = mem[p]]
          /\ Strike({keep.fault})
     \/ /\ "optional" \in Faults
        /\ Advance(p, 1 + s.skip)
        /\ Strike({"optional"})
        /\ UNCHANGED <<test, state, pass, printed, mask, mem>>
     \/ /\ "fork" \in Faults
        /\ GoesWrong(p)
        /\ Strike({"fork"})
        /\ UNCHANGED <<mask, mem>>
  /\ UNCHANGED <<closed, lowered>>

\* Mutant: the status is not looked at.
WaitForProcess_AnyStatus(p) ==
  /\ (Doing(p, "wait") \/ Doing(p, "waitExit")) /\ Proceed(p)
  /\ Ended(Current(p).val)
  /\ UNCHANGED <<struck, memory, mask, lowered>>

\* Mutant: a child that was killed is taken for one that has succeeded.
WaitForProcess_ExitOnly(p) ==
  /\ Doing(p, "wait") \/ Doing(p, "waitExit")
  /\ ProceedIf(p, state[Current(p).val] # "failed")
  /\ Ended(Current(p).val)
  /\ UNCHANGED <<struck, memory, mask, lowered>>

\* Mutant: main looks at a child that may still be running.
WaitForProcess_TooEarly(p) ==
  /\ \/ Doing(p, "wait") /\ ProceedIf(p, state[Current(p).val] = "ok")
     \/ Doing(p, "waitExit") /\ ProceedIf(p, state[Current(p).val] # "failed")
  /\ UNCHANGED <<struck, memory, mask, lowered>>

\* Mutant: main waits again until the child has succeeded.
WaitForProcess_UntilOk(p) ==
  /\ Doing(p, "wait") \/ Doing(p, "waitExit")
  /\ IF state[Current(p).val] = "ok" THEN Proceed(p)
     ELSE UNCHANGED <<test, todo, state, pass, printed>>
  /\ UNCHANGED <<struck, memory, mask, lowered>>

WaitForProcess(p) ==
  /\ \/ Doing(p, "wait") /\ ProceedIf(p, state[Current(p).val] = "ok")
     \/ Doing(p, "waitExit") /\ ProceedIf(p, state[Current(p).val] # "failed")
  /\ Ended(Current(p).val)
  /\ UNCHANGED <<struck, memory, mask, lowered>>

\* Between two looks the process sleeps.
Await(p) ==
  /\ Doing(p, "await")
  /\ LET s == Current(p) IN
     IF \A r \in s.at : mem[p][r] = s.val THEN Proceed(p)
     ELSE UNCHANGED <<test, todo, state, pass, printed>>
  /\ UNCHANGED <<struck, memory, mask, lowered>>

\* The new program has fresh memory and no replication; execKeeps shows only
\* where the child had inherited a mask.
Exec(p) ==
  /\ Doing(p, "exec")
  /\ \/ \E keep \in Possible({[mask |-> 0, fault |-> "none"],
                              [mask |-> mask[p], fault |-> "execKeeps"]}) :
          /\ Proceed(p)
          /\ mask' = [mask EXCEPT ![p] = keep.mask]
          /\ mem' = [mem EXCEPT ![p] = Filled(Regions, "none")]
          /\ Strike({keep.fault})
     \/ /\ Refused(p, "call") \in Faults
        /\ GoesWrong(p)
        /\ Strike({Refused(p, "call")})
        /\ UNCHANGED <<mask, mem>>
  /\ UNCHANGED <<closed, lowered>>

\* The program is skipped, or not.
CheckNodes(p) ==
  /\ Doing(p, "numa")
  /\ Proceed(p) \/ EndAs(p, "ok")
  /\ UNCHANGED <<struck, memory, mask, lowered>>

Judge(p) ==
  /\ Doing(p, "judge")
  /\ ProceedIf(p, pass[p])
  /\ UNCHANGED <<struck, memory, mask, lowered>>

\* Mutant: a child that should exit goes on behind its code.
Return_FallsThrough(p) ==
  /\ Doing(p, "end")
  /\ IF p = "main" THEN EndAs(p, IF pass[p] THEN "ok" ELSE "failed") ELSE Proceed(p)
  /\ UNCHANGED <<struck, memory, mask, lowered>>

Return(p) ==
  /\ Doing(p, "end")
  /\ EndAs(p, IF pass[p] THEN "ok" ELSE "failed")
  /\ UNCHANGED <<struck, memory, mask, lowered>>

\* test26: main has freed the stack that its CLONE_VM child runs on.
StackFreed(k) ==
  test = "test26" /\ k = "child1" /\ state[k] = "running" /\ mem[k]["stack"] = "none"

\* test21: main has sent SIGTERM to the workers it had made, and has returned;
\* each of them runs on until the signal reaches it.
Signalled == state["main"] = "failed" /\ Current("main").bad = "kill"

Doomed(k) == StackFreed(k) \/ Signalled

\* A child dies at an access of broken memory, or of a stack that is freed, or of
\* the signal.
ChildKilled(k) ==
  /\ k \in Procs \ {"main"} /\ state[k] = "running" /\ test # "test3"
  /\ EndAs(k, "killed")
  /\ \/ Doomed(k) /\ UNCHANGED struck
     \/ ~Doomed(k) /\ "killed" \in Faults /\ Strike({"killed"})
  /\ UNCHANGED <<memory, mask, lowered>>

Step(p) ==
  \/ EnableReplication(p) \/ DisableReplication(p) \/ EnableInvalid(p)
  \/ QueryReplication(p)
  \/ MapMemory(p) \/ WriteMemory(p) \/ CheckMemory(p) \/ UnmapMemory(p)
  \/ DropMemory(p) \/ ProtectMemory(p) \/ MoveMemory(p) \/ OtherCall(p)
  \/ LowerLimit(p) \/ RestoreLimit(p)
  \/ ForkProcess(p) \/ CloneVM(p) \/ CreateThread(p) \/ WaitForProcess(p)
  \/ Await(p) \/ Exec(p) \/ CheckNodes(p) \/ Judge(p) \/ Return(p)

Done == (\A p \in Procs : state[p] # "running") /\ UNCHANGED vars

Next ==
  \/ \E p \in AllProcs : Step(p)
  \/ \E k \in AllProcs : ChildKilled(k)
  \/ Done

Spec == Init /\ [][Next]_vars

\* Every process is scheduled.
FairSpec == Spec /\ \A p \in AllProcs : WF_vars(Step(p))

(***************************************************************************)
(* Properties                                                              *)
(***************************************************************************)

\* The programs that may pass and print no FAIL although the fault f has struck.
Overlooking(f) ==
  CASE f = "keep"   -> Tests \ {"test1"}      \* the last mask is not queried
    [] f = "ignore" -> {"test3", "test4", "test5", "test16", "test17", "test19", "test20",
                        "test21", "test22", "test23", "test25", "test27", "test31", "test33"}
    [] f = "get"    -> {"test3", "test14", "test15", "test26", "test28", "test29", "test30",
                        "test31"}              \* -1 is a mask other than 0
    [] f = "inherit" -> {"test6", "test19", "test20"}    \* exec follows, or no query
    [] f = "lose"    -> {"test19", "test20"}
    [] f = "execKeeps" -> {"test20"}           \* what the child should not have inherited
    [] f = "accept"  -> {"test4"}              \* a warning
    [] f = "blank"   -> {"test29"}             \* see Byte
    [] f = "leakDown" -> {"test10"}            \* the child has made its checks
    [] f = "leak"     -> {"test21"}            \* what has leaked is written over
    [] f = "lost"     -> {"test21", "test26"}  \* written again; in the first child
    [] f \in {"nomem", "split", "killed"} -> {"test26"}  \* in a child not looked at
    [] OTHER -> {}

\* The programs that print a failure, go on, and report success at the end:
\* test5.c:102 and 119, test27.c:98 and 109, test15.c:156 and 292.
PrintsOnly == {"test5", "test15", "test27"}

\* The faults that the program would notice but for an overlooked fault g: a loss
\* behind a query that fails, what a child would report that has died, damage to
\* a page that is wrong already.
HiddenBy(g) ==
  CASE g = "get"    -> {"ignore", "lose"}
    [] g = "killed" -> {"inherit", "leak"}
    [] g = "lost"   -> {"leak"}
    [] g = "blank"  -> {"corrupt"}
    [] OTHER -> {}

\* Return status 0: whatever has struck is overlooked by this program, or hidden
\* by what it overlooks, in whatever order its processes have run; no two other
\* faults hide each other.  The last line of each program claims that nothing was
\* wrong (e.g. test16.c:174, test26.c:148).
FaultsCaught ==
  state["main"] = "ok" =>
    \/ \A f \in struck \ {"optional"} :
         \/ test \in Overlooking(f)
         \/ \E g \in struck : test \in Overlooking(g) /\ f \in HiddenBy(g)
    \/ printed /\ test \in PrintsOnly

\* A program never fails for a call it may be refused (e.g. test5.c:91,
\* test22.c:99, test31.c:62), nor because of the order in which its processes
\* have run (test3.c:109, test10.c:104, test21.c:122); except that test25, whose
\* mlock is refused ("Continue anyway - not fatal", line 80), fails the final
\* checks at lines 200 and 209: what they expect is written where mlock succeeds.
NoFalseAlarm ==
  state["main"] \in {"failed", "killed"} =>
    \/ struck \ {"optional"} # {}
    \/ test = "test25" /\ "optional" \in struck

\* test31 runs under one lowered limit at a time, and no path out of it leaves
\* one lowered (test31.c:70, 78, 111, 137, 144, 168, 175, 184).
LimitsRestored ==
  /\ Cardinality(lowered) <= 1
  /\ state["main"] \in {"ok", "failed"} => lowered = {}

\* The steps that access the memory they name; await reads it.
Accesses == {"write", "check", "await", "unmap", "drop", "shut", "open", "move"}

\* No process touches memory that is not mapped or is protected, whichever of
\* the mappings it has been refused and wherever it has jumped to; and the stack
\* of test26's CLONE_VM child outlives it, unless the mask read right after
\* clone is wrong (test26.c:89 frees the stack without waiting).
MemoryInUse ==
  /\ \A p \in Procs :
       state[p] = "running" =>
         /\ Current(p).do \in Accesses =>
              \A r \in Current(p).at : mem[p][r] # "none"
         /\ Current(p).do \in {"write", "check"} => Current(p).at \cap closed = {}
  /\ \A k \in Procs : StackFreed(k) => struck \cap {"keepVM", "get"} # {}

\* What is a failure of the program: its own, or one of a child; except that
\* test26 does not look at how its first child has ended, nor whether the
\* second was killed (test26.c:94, 135).
Failed ==
  \/ state["main"] \in {"failed", "killed"} \/ ~pass["main"]
  \/ \E k \in Procs \ {"main"} :
       \/ state[k] = "failed" /\ ~(test = "test26" /\ k = "child1")
       \/ state[k] = "killed" /\ test # "test26"

\* What the exit status says.
ExitVerdict ==
  CASE state["main"] = "ok" -> "pass" [] state["main"] = "running" -> "running"
    [] OTHER -> "fail"

Verdict == INSTANCE TestVerdict WITH failed <- Failed, verdict <- ExitVerdict

\* The programs keep the promise of TestVerdict: the children are done before
\* main passes, and a failure of one is a failure of the program.
ImplementsVerdict == Verdict!Spec

\* Every process comes to an end, whatever fails and wherever a failure makes it
\* jump to; except that test3 polls for ever for a write of thread_running that
\* does not reach the other thread (test3.c:18, 62).
Termination ==
  <>( \/ \A p \in Procs : state[p] # "running"
      \/ test = "test3" /\ struck \cap {"lost", "split"} # {} )

=============================================================================
