---------------------------- MODULE ScriptSteps ----------------------------
(***************************************************************************)
(* Most programs of the suite are straight-line: a fixed sequence of calls *)
(* and memory accesses, each followed by what the program does when it     *)
(* goes wrong.  A script is such a sequence; its steps are the records     *)
(* below.  ScriptedTests is the machine that executes them.                *)
(*                                                                         *)
(* "bad" says what the code does when the step goes wrong:                 *)
(*   "abort"   it returns or exits with status 1;                          *)
(*   "note"    it sets pass to 0 and goes on;                              *)
(*   "print"   it prints FAIL and goes on;                                 *)
(*   "ignore"  it does not look, or prints a warning, and goes on;         *)
(*   "die"     the process is killed (a stack that cannot grow, a file     *)
(*             that is too short for its mapping);                         *)
(*   "kill"    it sends SIGTERM to the children made so far and returns 1; *)
(* any other value is a label: it sets pass to 0 and goes to the next step *)
(* of that label.  A step that goes wrong and is gone on from leaves out   *)
(* the next "skip" steps, which stand in the else branch.                  *)
(***************************************************************************)
EXTENDS Naturals, Sequences

step(do, at, val, bad) ==
  [ do    |-> do,     \* what the step does,
    at    |-> at,     \* to which regions of memory,
    val   |-> val,    \* with which content, result, process or limit
    bad   |-> bad,
    skip  |-> 0,
    keeps |-> {},     \* the regions it must not change
    label |-> "" ]

Outcomes == {"abort", "note", "print", "ignore", "die", "kill"}

\* PR_SET_PGTABLE_REPL 1 and 0; a mask that must not be accepted; and
\* PR_GET_PGTABLE_REPL, whose result must be "zero", "on" (> 0), "nonzero" (an
\* error, -1, will do) or "any" (>= 0).
enable(bad)       == step("enable", {}, "", bad)
disable(bad)      == step("disable", {}, "", bad)
invalid           == step("invalid", {}, "", "ignore")
query(want, bad)  == step("query", {}, want, bad)

\* The regions R are mapped (mmap, malloc, sbrk, a stack frame) and hold zeros,
\* or what the region f or the file f holds; they are written; they must hold v.
map(R, bad)        == step("map", R, "zero", bad)
mapFile(R, f, bad) == step("map", R, f, bad)
write(R, v)           == step("write", R, v, "ignore")
check(R, v, bad)      == step("check", R, v, bad)

\* munmap and free; MADV_DONTNEED; mprotect; mremap from r to q.
unmap(R, bad)   == step("unmap", R, "", bad)
drop(R, bad)    == step("drop", R, "", bad)
shut(R, bad)    == step("shut", R, "", bad)
open(R, bad)    == step("open", R, "", bad)
move(r, q, bad) == step("move", {r}, q, bad)

\* Any other call: a file, mlock, a memory policy, the migration of pages.
call(bad) == step("call", {}, "", bad)

\* A soft resource limit is lowered, and set back.
lower(limit)   == step("lower", {}, limit, "ignore")
restore(limit) == step("restore", {}, limit, "ignore")

\* fork or vfork, which gives the process k a copy of the regions R; clone with
\* CLONE_VM; pthread_create; waiting for k to succeed, or not to exit with
\* another status than 0 (it may be killed).
fork(k, R, bad)  == step("fork", R, k, bad)
cloneVM(k, bad)  == step("cloneVM", {}, k, bad)
thread(k, bad)   == step("thread", {}, k, bad)
wait(k, bad)     == step("wait", {}, k, bad)
waitExit(k, bad) == step("waitExit", {}, k, bad)
exec(bad)        == step("exec", {}, "", bad)

\* Polling until the regions R hold v.
await(R, v) == step("await", R, v, "ignore")

\* Fewer than two NUMA nodes: return 0.  Return 1 if pass is 0.  Return.
numa  == step("numa", {}, "", "ignore")
judge == step("judge", {}, "", "abort")
end   == step("end", {}, "", "abort")

keeping(R, s)    == [s EXCEPT !.keeps = R]
labelled(l, s)   == [s EXCEPT !.label = l]

\* s, and rest unless s goes wrong.
orSkip(s, rest) == <<[s EXCEPT !.skip = Len(rest)]>> \o rest

\* New memory is mapped, written and verified.
fresh(R, bad) == <<map(R, bad), write(R, "new"), check(R, "new", bad)>>

=============================================================================
