---------------------------- MODULE SignalTests ----------------------------
(***************************************************************************)
(* src/test7.c, src/test9.c and src/test32.c: signals under replication.   *)
(* Each is one thread that goes through a script of steps; a step traps an *)
(* access on purpose (sigsetjmp, the access, the landing of siglongjmp),   *)
(* needs an access to work, changes a protection, or makes a call.  The    *)
(* handler of SIGSEGV stays installed: a signal at an access that should   *)
(* work lands at the last sigsetjmp.  test7 also has an alarm, whose       *)
(* handler writes to memory that main frees.                               *)
(*                                                                         *)
(* Clean-up right before a return is left out: the process ends there.     *)
(***************************************************************************)
EXTENDS ReplKernel, Sequences

CONSTANT AlarmTurns   \* turns of the loop that waits for the alarm (30)

ASSUME AlarmTurnsAssumption == AlarmTurns \in Nat \ {0}

Pages == {"first", "second"}

\* Steps.
Do(op) == [op |-> op]
GetStep(wanted) == [op |-> "get", wanted |-> wanted]
Install(checked) == [op |-> "install", checked |-> checked]
Map(page) == [op |-> "map", page |-> page]
Protect(page, to) == [op |-> "protect", page |-> page, to |-> to]
Work(page, access) == [op |-> "work", page |-> page, access |-> access]
Trap(page, access) == [op |-> "trap", page |-> page, access |-> access]

Script7 ==
  << Do("enable"), Do("sigaction"), Do("kill"), Do("kill"), Do("count"),
     Do("malloc"), Do("sigaction"), Do("alarm"), Do("await"), Do("compare"),
     Install(TRUE), Trap("first", "write"), GetStep("positive"), Do("end") >>

Script9 ==
  << Do("enable"), Map("first"), Work("first", "write"),
     Protect("first", "ro"), Work("first", "read"),
     Install(FALSE), Trap("first", "write"),
     Protect("first", "rw"), Work("first", "write"),
     Protect("second", "none"), Trap("second", "read"),
     GetStep("positive"), Do("end") >>

Script32 ==
  << Do("numa"), Install(TRUE), Do("enable"), GetStep("nonzero"),
     Trap("first", "write"),
     Map("second"), Work("second", "write"), Protect("second", "none"),
     Trap("second", "read"), Protect("second", "rw"), Work("second", "read"),
     Map("second"), Work("second", "write"), Protect("second", "ro"),
     Work("second", "read"), Trap("second", "write"),
     GetStep("nonzero"), Do("end") >>

Script == [test7 |-> Script7, test9 |-> Script9, test32 |-> Script32]

VARIABLES
  test,      \* which of the three programs this is
  pc, status,
  prot,      \* the protection of the pages
  armed,     \* is the handler of SIGSEGV installed?
  jump,      \* the step of the last sigsetjmp, 0 before the first
  landed,    \* has siglongjmp just landed at the step pc?
  caught,    \* signal_count, segv_caught
  timer, turns, alarmed,  \* the alarm, the turns main has waited, sigalrm_received
  mem,       \* global_mem
  mask, struck

alarmVars == <<timer, turns, alarmed>>
vars == <<test, pc, status, prot, armed, jump, landed, caught, alarmVars, mem,
          mask, struck>>

Step == Script[test][pc]
Exited == status \in {"skip", "exit0", "exit1", "killed"}

TypeOK ==
  /\ test \in DOMAIN Script /\ pc \in DOMAIN Script[test]
  /\ status \in {"running", "freeing", "skip", "exit0", "exit1", "killed"}
  /\ prot \in [Pages -> {"unmapped", "none", "ro", "rw"}]
  /\ armed \in BOOLEAN /\ landed \in BOOLEAN
  /\ jump \in {0} \cup {s \in DOMAIN Script[test] : Script[test][s].op = "trap"}
  /\ caught \in 0 .. 4
  /\ timer \in {"off", "set", "fired"} /\ turns \in 0 .. AlarmTurns
  /\ alarmed \in BOOLEAN
  /\ mem \in {"none", "text", "textOK", "freed"} /\ mask \in Mask

Init ==
  /\ test \in DOMAIN Script
  /\ pc = 1 /\ status = "running"
  /\ prot = [p \in Pages |-> "unmapped"]
  /\ armed = FALSE /\ jump = 0 /\ landed = FALSE /\ caught = 0
  /\ timer = "off" /\ turns = 0 /\ alarmed = FALSE
  /\ mem = "none" /\ mask = 0 /\ struck = {}

(***************************************************************************)
(* The steps                                                               *)
(***************************************************************************)

At(op) == status = "running" /\ ~landed /\ Step.op = op

Proceed == pc' = pc + 1 /\ UNCHANGED <<status, mem>>

\* main frees global_mem, if there is one, and returns 1.
Fail ==
  /\ IF mem = "none" THEN status' = "exit1" /\ UNCHANGED mem
                     ELSE status' = "freeing" /\ mem' = "freed"
  /\ UNCHANGED pc

ProceedIf(good) == IF good THEN Proceed ELSE Fail

EnableReplication ==
  /\ At("enable")
  /\ \E a \in Enable(mask) :
       /\ ProceedIf(a.ret >= 0)
       /\ mask' = a.mask
       /\ struck' = Note(struck, a)
  /\ UNCHANGED <<test, prot, armed, jump, landed, caught, alarmVars>>

\* test32 keeps the answer unsigned: an error counts as enabled.
CheckEnabled ==
  /\ At("get")
  /\ \E a \in Get(mask) :
       /\ ProceedIf(IF Step.wanted = "positive" THEN a.ret > 0 ELSE a.ret # 0)
       /\ struck' = Note(struck, a)
  /\ UNCHANGED <<test, prot, armed, jump, landed, caught, alarmVars, mask>>

CheckNuma ==
  /\ At("numa")
  /\ \E a \in Call("numa") :
       /\ IF a.ok THEN Proceed ELSE status' = "skip" /\ UNCHANGED <<pc, mem>>
       /\ struck' = Note(struck, a)
  /\ UNCHANGED <<test, prot, armed, jump, landed, caught, alarmVars, mask>>

\* The handler of SIGSEGV; test9 does not look at what sigaction returns.
InstallHandler ==
  /\ At("install")
  /\ \E a \in Call("sigaction") :
       /\ ProceedIf(a.ok \/ ~Step.checked)
       /\ armed' = a.ok
       /\ struck' = Note(struck, a)
  /\ UNCHANGED <<test, prot, jump, landed, caught, alarmVars, mask>>

\* test9 maps its pages at once.
MapPages ==
  /\ At("map")
  /\ \E a \in Call("mmap") :
       /\ ProceedIf(a.ok)
       /\ prot' = IF a.ok THEN [p \in Pages |->
                                 IF p = Step.page \/ test = "test9" THEN "rw" ELSE prot[p]]
                          ELSE prot
       /\ struck' = Note(struck, a)
  /\ UNCHANGED <<test, armed, jump, landed, caught, alarmVars, mask>>

ChangeProtection ==
  /\ At("protect")
  /\ \E a \in Call("mprotect") :
       /\ ProceedIf(a.ok)
       /\ prot' = IF a.ok THEN [prot EXCEPT ![Step.page] = Step.to] ELSE prot
       /\ struck' = Note(struck, a)
  /\ UNCHANGED <<test, armed, jump, landed, caught, alarmVars, mask>>

(***************************************************************************)
(* Accesses and their signals                                              *)
(***************************************************************************)

Allowed == prot[Step.page] = "rw" \/ (prot[Step.page] = "ro" /\ Step.access = "read")

\* What the handler of SIGSEGV or SIGBUS does to n.
Counted(n) == CASE test = "test9" -> 1 [] test = "test32" -> n + 1 [] OTHER -> n

\* A signal: siglongjmp to the last sigsetjmp, or the end without a handler.
\* Delivering it may lose the replication.
TakeSignal(target, count) ==
  /\ IF armed THEN landed' = TRUE /\ pc' = target /\ caught' = Counted(count)
                   /\ UNCHANGED status
              ELSE status' = "killed" /\ UNCHANGED <<landed, pc, caught>>
  /\ UNCHANGED mem

\* Mutant: the counter is not reset before sigsetjmp.
TrapAccess_NoReset ==
  /\ At("trap") /\ ~Allowed
  /\ jump' = pc
  /\ TakeSignal(pc, caught)
  /\ UNCHANGED <<test, prot, armed, alarmVars, mask, struck>>

\* Resets the counter, sets the jump and makes the access; a replica that has
\* missed a change of protection lets it through.
TrapAccess ==
  /\ At("trap")
  /\ jump' = pc
  /\ \E a \in Call("noTrap"), b \in Call("lose") :
       /\ a.ok \/ b.ok
       /\ IF Allowed \/ ~a.ok THEN Fail /\ caught' = 0 /\ UNCHANGED landed
                              ELSE TakeSignal(pc, 0)
       /\ mask' = IF b.ok THEN mask ELSE 0
       /\ struck' = Note(Note(struck, a), b)
  /\ UNCHANGED <<test, prot, armed, alarmVars>>

\* Mutant: the counter is not looked at.
JudgeLanding_IgnoresCount ==
  /\ status = "running" /\ landed
  /\ Proceed
  /\ landed' = FALSE
  /\ UNCHANGED <<test, prot, armed, jump, caught, alarmVars, mask, struck>>

\* Mutant: a wrong count makes test32 trap again.
JudgeLanding_Retries ==
  /\ status = "running" /\ landed
  /\ pc' = (IF caught > 1 THEN pc ELSE pc + 1)
  /\ landed' = FALSE
  /\ UNCHANGED <<test, status, prot, armed, jump, caught, alarmVars, mem, mask, struck>>

\* After the landing test32 wants one signal, test9 at least one.
JudgeLanding ==
  /\ status = "running" /\ landed
  /\ ProceedIf(CASE test = "test32" -> caught = 1 [] test = "test9" -> caught # 0
                 [] OTHER -> TRUE)
  /\ landed' = FALSE
  /\ UNCHANGED <<test, prot, armed, jump, caught, alarmVars, mask, struck>>

\* An access that should work, and the comparison of what it shows, which test32
\* makes after reads only; a replica that has missed a change of protection or
\* of contents fails it.
WorkAccess ==
  /\ At("work")
  /\ \E a \in Call("spurious"), b \in Call("corrupt") :
       /\ a.ok \/ b.ok
       /\ b.ok \/ Step.access = "read" \/ test = "test9"
       /\ IF Allowed /\ a.ok THEN ProceedIf(b.ok) /\ UNCHANGED <<landed, caught>>
                             ELSE TakeSignal(jump, caught)
       /\ struck' = Note(Note(struck, a), b)
  /\ UNCHANGED <<test, prot, armed, jump, alarmVars, mask>>

(***************************************************************************)
(* test7 only                                                              *)
(***************************************************************************)

\* The handlers of SIGUSR1 and SIGUSR2, and of SIGALRM.
InstallOther ==
  /\ At("sigaction")
  /\ \E a \in Call("sigaction") : ProceedIf(a.ok) /\ struck' = Note(struck, a)
  /\ UNCHANGED <<test, prot, armed, jump, landed, caught, alarmVars, mask>>

\* kill to oneself, the handler and the test of its flag: the signal arrives
\* once, or is lost, or is delivered again.
KillSelf ==
  /\ At("kill")
  /\ \E a \in Call("lostSignal"), b \in Call("twice") :
       /\ a.ok \/ b.ok
       /\ ProceedIf(a.ok)
       /\ caught' = caught + (IF ~a.ok THEN 0 ELSE IF b.ok THEN 1 ELSE 2)
       /\ struck' = Note(Note(struck, a), b)
  /\ UNCHANGED <<test, prot, armed, jump, landed, alarmVars, mask>>

CheckCount ==
  /\ At("count")
  /\ ProceedIf(caught = 2)
  /\ UNCHANGED <<test, prot, armed, jump, landed, caught, alarmVars, mask, struck>>

AllocateText ==
  /\ At("malloc")
  /\ \E a \in Call("malloc") :
       /\ IF a.ok THEN pc' = pc + 1 /\ mem' = "text" /\ UNCHANGED status ELSE Fail
       /\ struck' = Note(struck, a)
  /\ UNCHANGED <<test, prot, armed, jump, landed, caught, alarmVars, mask>>

SetAlarm ==
  /\ At("alarm")
  /\ timer' = "set"
  /\ Proceed
  /\ UNCHANGED <<test, prot, armed, jump, landed, caught, turns, alarmed, mask, struck>>

\* Mutant: the turns are not limited.
AwaitTurn_NoLimit ==
  /\ At("await") /\ ~alarmed
  /\ turns' = turns + 1
  /\ UNCHANGED <<test, pc, status, prot, armed, jump, landed, caught, timer, alarmed,
                 mem, mask, struck>>

\* One turn of 100 ms; the alarm comes before the last, unless it is late.
AwaitTurn ==
  /\ At("await") /\ ~alarmed /\ turns < AlarmTurns
  /\ IF turns + 1 < AlarmTurns THEN UNCHANGED struck
                               ELSE "late" \in Faults /\ struck' = struck \cup {"late"}
  /\ turns' = turns + 1
  /\ UNCHANGED <<test, pc, status, prot, armed, jump, landed, caught, timer, alarmed,
                 mem, mask>>

\* Mutant: main waits one turn at most.
AwaitEnds_AtOnce ==
  /\ At("await")
  /\ ProceedIf(alarmed)
  /\ UNCHANGED <<test, prot, armed, jump, landed, caught, alarmVars, mask, struck>>

AwaitEnds ==
  /\ At("await") /\ (alarmed \/ turns = AlarmTurns)
  /\ ProceedIf(alarmed)
  /\ UNCHANGED <<test, prot, armed, jump, landed, caught, alarmVars, mask, struck>>

CompareText ==
  /\ At("compare")
  /\ \E a \in Call("corrupt") :
       /\ ProceedIf(a.ok /\ mem = "textOK")
       /\ struck' = Note(struck, a)
  /\ UNCHANGED <<test, prot, armed, jump, landed, caught, alarmVars, mask>>

\* The handler of SIGALRM runs between two steps of main.
AlarmFires ==
  /\ ~Exited /\ timer = "set"
  /\ timer' = "fired" /\ alarmed' = TRUE
  /\ mem' = IF mem = "text" THEN "textOK" ELSE mem
  /\ UNCHANGED <<test, pc, status, prot, armed, jump, landed, caught, turns, mask, struck>>

(***************************************************************************)
(* The end                                                                 *)
(***************************************************************************)

Return ==
  /\ status = "freeing"
  /\ status' = "exit1"
  /\ UNCHANGED <<test, pc, prot, armed, jump, landed, caught, alarmVars, mem, mask, struck>>

\* Frees, disables replication without looking at the answer, and returns 0.
Succeed ==
  /\ At("end")
  /\ status' = "exit0"
  /\ mem' = IF mem = "none" THEN mem ELSE "freed"
  /\ \E a \in Disable(mask) : mask' = a.mask
  /\ UNCHANGED <<test, pc, prot, armed, jump, landed, caught, alarmVars, struck>>

Done == Exited /\ UNCHANGED vars

Main ==
  \/ EnableReplication \/ CheckEnabled \/ CheckNuma \/ InstallHandler \/ MapPages
  \/ ChangeProtection \/ TrapAccess \/ JudgeLanding \/ WorkAccess \/ InstallOther
  \/ KillSelf \/ CheckCount \/ AllocateText \/ SetAlarm \/ AwaitTurn \/ AwaitEnds
  \/ CompareText \/ Return \/ Succeed

Next == Main \/ AlarmFires \/ Done

Spec == Init /\ [][Next]_vars

\* The process is scheduled and its timer runs.
FairSpec == Spec /\ WF_vars(Main) /\ WF_vars(AlarmFires)

(***************************************************************************)
(* Properties                                                              *)
(***************************************************************************)

\* Faults a test passes with: test7 takes an alarm that comes right after the
\* last turn; test9 takes a signal at an access that should
\* work for the one it waits for; test32 takes an error for a mask.
Unnoticed == [ test7 |-> {"late"}, test9 |-> {"spurious"}, test32 |-> {"get", "ignore", "lose"} ]

\* Exit status 0 (test7.c:177, test9.c:174, test32.c:261): no other fault
\* has struck, and replication was lost only behind a failing query.
FaultsCaught ==
  status = "exit0" =>
    /\ struck \subseteq Unnoticed[test]
    /\ struck \cap {"ignore", "lose"} # {} => "get" \in struck

\* A failure is never a false alarm: no signal of one phase is counted in the
\* next (test32.c:139, 221), and the alarm has its time (test7.c:120).
NoFalseAlarm == status \in {"exit1", "killed"} => struck # {}

\* While global_mem is freed (test7.c:127) its handler may still run only if
\* the alarm is late.
AlarmSafe == mem = "freed" /\ timer = "set" => "late" \in struck

\* The test ends, however often the handler jumps back (test32.c:105), but for
\* test9 when accesses that should work keep trapping.
Termination == <>(Exited \/ (test = "test9" /\ "spurious" \in struck))

\* What "Now write should work" (test9.c:113) says of a test that passes.
NowWriteWorks == test = "test9" /\ status = "exit0" => "spurious" \notin struck

=============================================================================
