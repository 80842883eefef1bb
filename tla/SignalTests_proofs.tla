------------------------ MODULE SignalTests_proofs ------------------------
(***************************************************************************)
(* SignalTests for any set of faults and any number of turns that test7    *)
(* waits for its alarm: first what the handlers may do to the programs,    *)
(* then what the verdict of a program tells.                               *)
(***************************************************************************)
EXTENDS SignalTests, ReplKernel_proofs

\* How often a signal has been counted where main is.
Counts ==
  /\ test = "test7"  => (pc <= 3 => caught = 0) /\ (pc = 4 => caught <= 2)
  /\ test = "test9"  => caught <= 1
  /\ test = "test32" => caught <= 2 /\ (status = "running" /\ ~landed => caught <= 1)

\* Where a siglongjmp would land.
Jumps ==
  /\ test = "test9"  => (pc <= 6 => ~armed) /\ (pc >= 8 => jump # 0)
  /\ test = "test32" => (pc >= 6 => jump # 0)
  /\ landed => Step.op = "trap" /\ jump = pc

\* The alarm, the wait for it and the memory of its handler.
Alarms ==
  /\ alarmed <=> timer = "fired"
  /\ test # "test7" \/ pc <= 8 => timer = "off"
  /\ timer = "set" => Step.op = "await" /\ (status # "running" => "late" \in struck)
  /\ mem = "freed" => status # "running"
  /\ turns = AlarmTurns => "late" \in struck

IInv == TypeOK /\ Counts /\ Jumps /\ Alarms

-----------------------------------------------------------------------------
(* The scripts.                                                            *)

LEMMA Steps7 ==
  /\ DOMAIN Script7 = 1 .. 14
  /\ \A p \in 1 .. 14 :
       /\ Script7[p].op = "kill" => p \in {3, 4}
       /\ Script7[p].op = "alarm" => p = 8
       /\ Script7[p].op = "await" <=> p = 9
       /\ Script7[p].op = "trap" <=> p = 12
       /\ Script7[p].op = "end" <=> p = 14
       /\ Script7[p].op # "work"
  BY DEF Script7, Do, GetStep, Install, Map, Protect, Work, Trap

LEMMA Steps9 ==
  /\ DOMAIN Script9 = 1 .. 13
  /\ \A p \in 1 .. 13 :
       /\ Script9[p].op = "install" => p = 6
       /\ Script9[p].op = "trap" <=> p \in {7, 11}
       /\ Script9[p].op = "work" => p \in {3, 5, 9}
       /\ Script9[p].op = "end" <=> p = 13
       /\ Script9[p].op \notin {"kill", "alarm", "await"}
  BY DEF Script9, Do, GetStep, Install, Map, Protect, Work, Trap

LEMMA Steps32 ==
  /\ DOMAIN Script32 = 1 .. 18
  /\ \A p \in 1 .. 18 :
       /\ Script32[p].op = "trap" <=> p \in {5, 9, 16}
       /\ Script32[p].op = "work" => p \in {7, 11, 13, 15}
       /\ Script32[p].op = "end" <=> p = 18
       /\ Script32[p].op \notin {"kill", "alarm", "await"}
  BY DEF Script32, Do, GetStep, Install, Map, Protect, Work, Trap

\* What a step tells of the place in its script.
LEMMA StepIs ==
  ASSUME NEW t \in DOMAIN Script, NEW p \in DOMAIN Script[t]
  PROVE  /\ p \in Nat
         /\ Script[t][p].op # "end" => p + 1 \in DOMAIN Script[t]
         /\ Script[t][p].op = "kill" => t = "test7" /\ p \in {3, 4}
         /\ Script[t][p].op = "alarm" =>
              t = "test7" /\ p = 8 /\ Script[t][p + 1].op = "await"
         /\ Script[t][p].op = "await" => t = "test7" /\ p = 9
         /\ t = "test9" => /\ Script[t][p].op = "install" => p = 6
                           /\ Script[t][p].op = "trap" <=> p \in {7, 11}
                           /\ Script[t][p].op = "work" => p \in {3, 5, 9}
         /\ t = "test32" => /\ Script[t][p].op = "trap" <=> p \in {5, 9, 16}
                            /\ Script[t][p].op = "work" => p \in {7, 11, 13, 15}
         /\ t = "test7" => /\ Script[t][p].op # "work"
                           /\ Script[t][p].op = "trap" <=> p = 12
  <1>1. CASE t = "test7"
    BY <1>1, Steps7 DEF Script
  <1>2. CASE t = "test9"
    BY <1>2, Steps9 DEF Script
  <1>3. CASE t = "test32"
    BY <1>3, Steps32 DEF Script
  <1> QED
    BY <1>1, <1>2, <1>3 DEF Script

LEMMA ScriptBegins ==
  ASSUME NEW t \in DOMAIN Script PROVE 1 \in DOMAIN Script[t]
  BY Steps7, Steps9, Steps32 DEF Script

-----------------------------------------------------------------------------
LEMMA InvInit == Init => IInv
  <1> SUFFICES ASSUME Init PROVE IInv
    OBVIOUS
  <1>1. /\ armed \in BOOLEAN /\ landed \in BOOLEAN /\ alarmed \in BOOLEAN
        /\ ~armed /\ ~landed /\ ~alarmed
    BY DEF Init
  <1>2. /\ test \in DOMAIN Script /\ pc \in DOMAIN Script[test] /\ pc = 1
        /\ prot \in [Pages -> {"unmapped", "none", "ro", "rw"}]
        /\ 0 \in 0 .. AlarmTurns /\ AlarmTurns # 0
    BY ScriptBegins, AlarmTurnsAssumption DEF Init
  <1>3. TypeOK
    BY <1>1, <1>2 DEF Init, TypeOK, Mask
  <1>4. Counts /\ Jumps /\ Alarms
    BY <1>1, <1>2 DEF Init, Counts, Jumps, Alarms
  <1> QED
    BY <1>3, <1>4 DEF IInv

\* Where main is, by the script it goes through.
LEMMA Here ==
  ASSUME TypeOK
  PROVE  /\ test \in {"test7", "test9", "test32"} /\ pc \in Nat
         /\ Step.op # "end" => pc + 1 \in DOMAIN Script[test]
         /\ Step.op = "kill" => test = "test7" /\ pc \in {3, 4}
         /\ Step.op = "alarm" =>
              test = "test7" /\ pc = 8 /\ Script[test][pc + 1].op = "await"
         /\ Step.op = "await" => test = "test7" /\ pc = 9
         /\ test = "test7" => Step.op # "work" /\ (Step.op = "trap" <=> pc = 12)
         /\ test = "test9" => /\ Step.op = "install" => pc = 6
                              /\ Step.op = "trap" <=> pc \in {7, 11}
                              /\ Step.op = "work" => pc \in {3, 5, 9}
         /\ test = "test32" => /\ Step.op = "trap" <=> pc \in {5, 9, 16}
                               /\ Step.op = "work" => pc \in {7, 11, 13, 15}
  BY StepIs DEF TypeOK, Step, Script

\* A step that goes on in the script or fails, and does nothing to signals.
Calm ==
  /\ UNCHANGED <<test, jump, landed, caught, alarmVars>> /\ struck \subseteq struck'
  /\ armed' = armed \/ (armed' \in BOOLEAN /\ Step.op = "install" /\ (armed' => pc' = pc + 1))
  /\ status = "running" /\ ~landed /\ Step.op \notin {"kill", "alarm", "await", "trap", "end"}
  /\ \/ pc' = pc + 1 /\ status' = status /\ mem' \in {mem, "text"}
     \/ /\ UNCHANGED pc /\ status' \in {"freeing", "skip", "exit1"}
        /\ mem' \in {mem, "freed"}
  /\ prot' \in [Pages -> {"unmapped", "none", "ro", "rw"}] /\ mask' \in Mask

LEMMA CalmKeeps == IInv /\ Calm => IInv'
  <1> SUFFICES ASSUME IInv, Calm PROVE IInv'
    OBVIOUS
  <1> USE Here DEF Calm, alarmVars
  <1>1. TypeOK
    BY DEF IInv
  <1>2. TypeOK'
    <2>1. armed' \in BOOLEAN
      BY <1>1 DEF TypeOK
    <2>2. /\ UNCHANGED <<test, jump, landed, caught, timer, turns, alarmed>>
          /\ pc' \in DOMAIN Script[test]
          /\ status' \in {"running", "freeing", "skip", "exit0", "exit1", "killed"}
          /\ mem' \in {"none", "text", "textOK", "freed"}
          /\ prot' \in [Pages -> {"unmapped", "none", "ro", "rw"}] /\ mask' \in Mask
      BY <1>1 DEF TypeOK
    <2> QED
      BY <1>1, <2>1, <2>2 DEF TypeOK
  <1>3. Counts'
    BY <1>1 DEF IInv, Counts
  <1>4. Jumps'
    <2>1. pc' \in {pc, pc + 1} /\ pc \in Nat /\ test' = test /\ jump' = jump /\ ~landed'
      BY <1>1
    <2>2. test = "test9" /\ pc' <= 6 => ~armed'
      BY <1>1, <2>1 DEF IInv, Jumps, TypeOK
    <2>3. /\ test = "test9" /\ pc' >= 8 => jump # 0
          /\ test = "test32" /\ pc' >= 6 => jump # 0
      BY <1>1, <2>1 DEF IInv, Jumps
    <2> QED
      BY <2>1, <2>2, <2>3 DEF Jumps
  <1>5. Alarms'
    BY <1>1 DEF IInv, Alarms, TypeOK
  <1> QED
    BY <1>2, <1>3, <1>4, <1>5 DEF IInv

\* The steps of the setup, and the comparisons.
LEMMA CalmSteps ==
  ASSUME IInv,
         \/ EnableReplication \/ CheckEnabled \/ CheckNuma \/ InstallHandler \/ MapPages
         \/ ChangeProtection \/ InstallOther \/ CheckCount \/ AllocateText \/ CompareText
  PROVE  Calm
  <1>0. TypeOK
    BY DEF IInv
  <1> USE <1>0, Noted DEF TypeOK, Calm, At, ProceedIf, Proceed, Fail
  <1>1. CASE EnableReplication
    <2>1. PICK a \in Enable(mask) :
            /\ ProceedIf(a.ret >= 0) /\ mask' = a.mask /\ struck' = Note(struck, a)
      BY <1>1 DEF EnableReplication
    <2>2. mask' \in Mask
      BY <2>1, EnableAnswers DEF Mask
    <2> QED
      BY <1>1, <2>1, <2>2 DEF EnableReplication
  <1>2. CASE CheckEnabled
    BY <1>2 DEF CheckEnabled
  <1>3. CASE CheckNuma
    BY <1>3 DEF CheckNuma
  <1>4. CASE InstallHandler
    <2>1. PICK a \in Call("sigaction") :
            /\ ProceedIf(a.ok \/ ~Step.checked)
            /\ armed' = a.ok /\ struck' = Note(struck, a)
      BY <1>4 DEF InstallHandler
    <2>2. armed' \in BOOLEAN
      BY <2>1, CallAnswers
    <2> QED
      BY <1>4, <2>1, <2>2 DEF InstallHandler
  <1>5. CASE MapPages
    BY <1>5 DEF MapPages
  <1>6. CASE ChangeProtection
    <2>1. test \in {"test7", "test9", "test32"} /\ Step.op = "protect"
          /\ Step.to \in {"none", "ro", "rw"}
      <3>1. \A p \in 1 .. 14 : Script7[p].op # "protect"
        BY DEF Script7, Do, GetStep, Install, Map, Protect, Work, Trap
      <3>2. \A p \in 1 .. 13 :
              Script9[p].op = "protect" => Script9[p].to \in {"none", "ro", "rw"}
        BY DEF Script9, Do, GetStep, Install, Map, Protect, Work, Trap
      <3>3. \A p \in 1 .. 18 :
              Script32[p].op = "protect" => Script32[p].to \in {"none", "ro", "rw"}
        BY DEF Script32, Do, GetStep, Install, Map, Protect, Work, Trap
      <3> QED
        BY <1>6, <3>1, <3>2, <3>3, Steps7, Steps9, Steps32, Here
        DEF ChangeProtection, Step, Script
    <2> QED
      BY <1>6, <2>1 DEF ChangeProtection
  <1>7. CASE InstallOther
    BY <1>7 DEF InstallOther
  <1>8. CASE CheckCount \/ CompareText
    BY <1>8 DEF CheckCount, CompareText
  <1>9. CASE AllocateText
    BY <1>9 DEF AllocateText
  <1> QED
    BY <1>1, <1>2, <1>3, <1>4, <1>5, <1>6, <1>7, <1>8, <1>9

\* The access that is to trap: the count restarts.
LEMMA TrapKeeps == IInv /\ TrapAccess => IInv'
  <1> SUFFICES ASSUME IInv, TrapAccess PROVE IInv'
    OBVIOUS
  <1>0. TypeOK /\ Counts /\ Jumps /\ Alarms
    BY DEF IInv
  <1>1. /\ status = "running" /\ ~landed /\ Step.op = "trap" /\ jump' = pc
        /\ UNCHANGED <<test, prot, armed, timer, turns, alarmed>>
    BY DEF TrapAccess, At, alarmVars
  <1>2. PICK a \in Call("noTrap"), b \in Call("lose") :
          /\ IF Allowed \/ ~a.ok THEN Fail /\ caught' = 0 /\ UNCHANGED landed
                                 ELSE TakeSignal(pc, 0)
          /\ mask' = IF b.ok THEN mask ELSE 0
          /\ struck' = Note(Note(struck, a), b)
    BY DEF TrapAccess
  <1>3. /\ pc' = pc /\ (caught' \in {0, 1} \/ caught' = caught)
        /\ mask' \in Mask /\ struck \subseteq struck'
        /\ mem' \in {mem, "freed"}
        /\ mem' = "freed" => status' # "running"
        /\ status' \in {"running", "freeing", "exit1", "killed"}
    <2>1. mask' \in Mask /\ struck \subseteq struck'
      BY <1>0, <1>2, Noted DEF TypeOK, Mask
    <2>2. CASE Fail /\ caught' = 0
      BY <1>0, <1>1, <2>1, <2>2 DEF Fail, Alarms
    <2>3. CASE TakeSignal(pc, 0)
      <3>1. /\ mem' = mem /\ status' \in {status, "killed"} /\ pc' = pc
            /\ caught' \in {0, 1} \/ caught' = caught
        BY <1>1, <2>3 DEF TakeSignal, Counted
      <3> QED
        BY <1>0, <1>1, <2>1, <3>1 DEF Alarms
    <2> QED
      BY <1>2, <2>2, <2>3
  <1>4. landed' \in BOOLEAN
    BY <1>0, <1>2 DEF TakeSignal, TypeOK
  <1>5. pc \in {p \in DOMAIN Script[test] : Script[test][p].op = "trap"}
    BY <1>0, <1>1 DEF TypeOK, Step
  <1>6. TypeOK'
    BY <1>0, <1>1, <1>3, <1>4, <1>5 DEF TypeOK
  <1>7. Counts'
    BY <1>0, <1>1, <1>3, Here DEF Counts, TypeOK
  <1>8. Jumps'
    <2>1. test = "test9" /\ pc' <= 6 => ~armed'
      BY <1>0, <1>1, <1>3 DEF Jumps, TypeOK
    <2>2. Step' = Step /\ pc # 0
      BY <1>0, <1>1, <1>3, Here DEF Step
    <2> QED
      BY <1>1, <1>3, <2>1, <2>2 DEF Jumps
  <1>9. Alarms'
    <2>1. timer # "set" /\ pc' = pc /\ UNCHANGED <<test, timer, turns, alarmed>>
      BY <1>0, <1>1, <1>3 DEF Alarms
    <2> QED
      BY <1>0, <1>3, <2>1 DEF Alarms
  <1> QED
    BY <1>6, <1>7, <1>8, <1>9 DEF IInv

\* What main does after a landing.
LEMMA LandingKeeps == IInv /\ JudgeLanding => IInv'
  <1> SUFFICES ASSUME IInv, JudgeLanding PROVE IInv'
    OBVIOUS
  <1>0. TypeOK /\ Counts /\ Jumps /\ Alarms
    BY DEF IInv
  <1>1. /\ status = "running" /\ Step.op = "trap" /\ jump = pc /\ landed' = FALSE
        /\ UNCHANGED <<test, prot, armed, jump, caught, timer, turns, alarmed, mask, struck>>
    BY <1>0 DEF JudgeLanding, alarmVars, Jumps
  <1>2. \/ /\ pc' = pc + 1 /\ status' = "running" /\ mem' = mem
           /\ test = "test32" => caught = 1
        \/ /\ pc' = pc /\ status' \in {"freeing", "exit1"} /\ mem' \in {mem, "freed"}
    BY <1>1 DEF JudgeLanding, ProceedIf, Proceed, Fail
  <1>3. TypeOK'
    <2>1. pc' \in DOMAIN Script[test]
      BY <1>0, <1>1, <1>2, Here DEF TypeOK
    <2> QED
      BY <1>0, <1>1, <1>2, <2>1 DEF TypeOK
  <1>4. Counts'
    BY <1>0, <1>1, <1>2, Here DEF Counts, TypeOK
  <1>5. Jumps'
    <2>1. test = "test9" /\ pc' <= 6 => ~armed'
      BY <1>0, <1>1, <1>2, Here DEF Jumps, TypeOK
    <2>2. jump # 0
      BY <1>0, <1>1, Here
    <2> QED
      BY <1>1, <2>1, <2>2 DEF Jumps
  <1>6. Alarms'
    <2>1. timer # "set" /\ (test = "test7" => pc = 12)
      BY <1>0, <1>1, Here DEF Alarms
    <2> QED
      BY <1>0, <1>1, <1>2, <2>1 DEF Alarms
  <1> QED
    BY <1>3, <1>4, <1>5, <1>6 DEF IInv

\* The access that is to work, and the signal that it may raise.
LEMMA WorkKeeps == IInv /\ WorkAccess => IInv'
  <1> SUFFICES ASSUME IInv, WorkAccess PROVE IInv'
    OBVIOUS
  <1>0. TypeOK /\ Counts /\ Jumps /\ Alarms
    BY DEF IInv
  <1>1. /\ status = "running" /\ ~landed /\ Step.op = "work" /\ test \in {"test9", "test32"}
        /\ UNCHANGED <<test, prot, armed, jump, timer, turns, alarmed, mask>>
    BY <1>0, Here DEF WorkAccess, At, alarmVars
  <1>2. PICK a \in Call("spurious"), b \in Call("corrupt") :
          /\ IF Allowed /\ a.ok THEN ProceedIf(b.ok) /\ UNCHANGED <<landed, caught>>
                                ELSE TakeSignal(jump, caught)
          /\ struck' = Note(Note(struck, a), b)
    BY DEF WorkAccess
  <1>3. struck \subseteq struck' /\ timer = "off"
    BY <1>0, <1>1, <1>2, Noted DEF Alarms
  <1>4. CASE armed /\ ~(Allowed /\ a.ok)
    <2>1. /\ landed' = TRUE /\ pc' = jump /\ caught' = Counted(caught)
          /\ UNCHANGED <<status, mem>>
      BY <1>2, <1>4 DEF TakeSignal
    <2>2. jump # 0
      BY <1>0, <1>1, <1>4, Here DEF Jumps
    <2>3. jump \in DOMAIN Script[test] /\ Script[test][jump].op = "trap"
      BY <1>0, <2>2 DEF TypeOK
    <2>4. caught' \in 0 .. 2 /\ (test = "test9" => caught' <= 1)
      BY <1>0, <1>1, <2>1 DEF Counted, Counts, TypeOK
    <2>5. TypeOK'
      BY <1>0, <1>1, <2>1, <2>3, <2>4 DEF TypeOK
    <2>6. Counts'
      BY <1>1, <2>1, <2>4 DEF Counts
    <2>7. Jumps'
      <3>1. Step'.op = "trap" /\ jump' = pc' /\ jump' # 0
        BY <1>1, <2>1, <2>2, <2>3 DEF Step
      <3>2. test = "test9" => pc' \in {7, 11}
        BY <1>0, <2>1, <2>3, StepIs DEF TypeOK
      <3> QED
        BY <1>1, <3>1, <3>2 DEF Jumps
    <2>8. Alarms'
      BY <1>0, <1>1, <1>3, <2>1 DEF Alarms
    <2> QED
      BY <2>5, <2>6, <2>7, <2>8 DEF IInv
  <1>5. CASE ~armed \/ (Allowed /\ a.ok)
    <2>1. /\ UNCHANGED <<landed, caught>>
          /\ \/ pc' = pc + 1 /\ status' = "running" /\ mem' = mem
             \/ /\ pc' = pc /\ status' \in {"freeing", "exit1", "killed"}
                /\ mem' \in {mem, "freed"}
      BY <1>1, <1>2, <1>5 DEF TakeSignal, ProceedIf, Proceed, Fail
    <2>2. pc' \in DOMAIN Script[test]
      BY <1>0, <1>1, <2>1, Here DEF TypeOK
    <2>3. TypeOK'
      BY <1>0, <1>1, <2>1, <2>2 DEF TypeOK
    <2>4. Counts'
      BY <1>0, <1>1, <2>1 DEF Counts
    <2>5. Jumps'
      <3>1. test = "test9" /\ pc' <= 6 => ~armed'
        BY <1>0, <1>1, <2>1, Here DEF Jumps, TypeOK
      <3>2. /\ test = "test9" /\ pc' >= 8 => jump # 0
            /\ test = "test32" /\ pc' >= 6 => jump # 0
        BY <1>0, <1>1, <2>1, Here DEF Jumps
      <3> QED
        BY <1>1, <2>1, <3>1, <3>2 DEF Jumps
    <2>6. Alarms'
      BY <1>0, <1>1, <1>3, <2>1 DEF Alarms
    <2> QED
      BY <2>3, <2>4, <2>5, <2>6 DEF IInv
  <1> QED
    BY <1>4, <1>5

\* test7 sends itself two signals.
LEMMA KillKeeps == IInv /\ KillSelf => IInv'
  <1> SUFFICES ASSUME IInv, KillSelf PROVE IInv'
    OBVIOUS
  <1>0. TypeOK /\ Counts /\ Jumps /\ Alarms
    BY DEF IInv
  <1>1. /\ status = "running" /\ ~landed /\ test = "test7" /\ pc \in {3, 4}
        /\ pc + 1 \in DOMAIN Script[test]
        /\ UNCHANGED <<test, prot, armed, jump, landed, timer, turns, alarmed, mask>>
    BY <1>0, Here DEF KillSelf, At, alarmVars
  <1>2. PICK a \in Call("lostSignal"), b \in Call("twice") :
          /\ ProceedIf(a.ok)
          /\ caught' = caught + (IF ~a.ok THEN 0 ELSE IF b.ok THEN 1 ELSE 2)
          /\ struck' = Note(Note(struck, a), b)
    BY DEF KillSelf
  <1>3. \/ pc' = pc + 1 /\ UNCHANGED <<status, mem>> /\ caught' \in {caught + 1, caught + 2}
        \/ /\ pc' = pc /\ status' \in {"freeing", "exit1"} /\ mem' \in {mem, "freed"}
           /\ caught' = caught
    BY <1>0, <1>2 DEF ProceedIf, Proceed, Fail, TypeOK
  <1>4. caught \in 0 .. 2 /\ (pc = 3 => caught = 0)
    BY <1>0, <1>1 DEF Counts, TypeOK
  <1>5. TypeOK'
    <2>1. caught' \in 0 .. 4
      BY <1>3, <1>4
    <2> QED
      BY <1>0, <1>1, <1>3, <2>1 DEF TypeOK
  <1>6. Counts'
    BY <1>1, <1>3, <1>4 DEF Counts
  <1>7. Jumps'
    BY <1>1 DEF Jumps
  <1>8. Alarms'
    <2>1. struck \subseteq struck'
      BY <1>2, Noted
    <2> QED
      BY <1>0, <1>1, <1>3, <2>1 DEF Alarms
  <1> QED
    BY <1>5, <1>6, <1>7, <1>8 DEF IInv

\* The alarm is set, and main starts to wait.
LEMMA SetAlarmKeeps == IInv /\ SetAlarm => IInv'
  <1> SUFFICES ASSUME IInv, SetAlarm PROVE IInv'
    OBVIOUS
  <1>0. TypeOK /\ Counts /\ Jumps /\ Alarms
    BY DEF IInv
  <1>1. /\ status = "running" /\ ~landed /\ test = "test7" /\ pc = 8
        /\ pc + 1 \in DOMAIN Script[test] /\ Script[test][pc + 1].op = "await"
        /\ pc' = pc + 1 /\ timer' = "set"
        /\ UNCHANGED <<test, status, prot, armed, jump, landed, caught, turns, alarmed,
                       mem, mask, struck>>
    BY <1>0, Here DEF SetAlarm, At, Proceed
  <1>2. TypeOK'
    BY <1>0, <1>1 DEF TypeOK
  <1>3. Counts' /\ Jumps'
    BY <1>0, <1>1 DEF Counts, Jumps
  <1>4. Alarms'
    <2>1. Step'.op = "await" /\ timer = "off"
      BY <1>0, <1>1 DEF Step, Alarms
    <2> QED
      BY <1>0, <1>1, <2>1 DEF Alarms
  <1> QED
    BY <1>2, <1>3, <1>4 DEF IInv

\* A turn of the wait: the last one passes without the alarm only if it is late.
LEMMA AwaitTurnKeeps == IInv /\ AwaitTurn => IInv'
  <1> SUFFICES ASSUME IInv, AwaitTurn PROVE IInv'
    OBVIOUS
  <1>0. TypeOK /\ Counts /\ Jumps /\ Alarms
    BY DEF IInv
  <1>1. /\ status = "running" /\ Step.op = "await" /\ turns < AlarmTurns
        /\ turns' = turns + 1 /\ struck \subseteq struck'
        /\ turns + 1 < AlarmTurns \/ "late" \in struck'
        /\ UNCHANGED <<test, pc, status, prot, armed, jump, landed, caught, timer, alarmed,
                       mem, mask>>
    BY DEF AwaitTurn, At
  <1>2. turns' \in 0 .. AlarmTurns /\ (turns' = AlarmTurns => "late" \in struck')
    BY <1>0, <1>1, AlarmTurnsAssumption DEF TypeOK
  <1>3. TypeOK'
    BY <1>0, <1>1, <1>2 DEF TypeOK
  <1>4. Step' = Step
    BY <1>1 DEF Step
  <1>5. Counts' /\ Jumps'
    BY <1>0, <1>1, <1>4 DEF Counts, Jumps
  <1>6. Alarms'
    BY <1>0, <1>1, <1>2, <1>4 DEF Alarms
  <1> QED
    BY <1>3, <1>5, <1>6 DEF IInv

\* The end of the wait: main gives up only when the alarm is late.
LEMMA AwaitEndsKeeps == IInv /\ AwaitEnds => IInv'
  <1> SUFFICES ASSUME IInv, AwaitEnds PROVE IInv'
    OBVIOUS
  <1>0. TypeOK /\ Counts /\ Jumps /\ Alarms
    BY DEF IInv
  <1>1. /\ status = "running" /\ ~landed /\ test = "test7" /\ pc = 9
        /\ pc + 1 \in DOMAIN Script[test]
        /\ alarmed \/ turns = AlarmTurns
        /\ UNCHANGED <<test, prot, armed, jump, landed, caught, timer, turns, alarmed,
                       mask, struck>>
    BY <1>0, Here DEF AwaitEnds, At, alarmVars
  <1>2. \/ alarmed /\ pc' = pc + 1 /\ UNCHANGED <<status, mem>>
        \/ /\ ~alarmed /\ pc' = pc /\ status' \in {"freeing", "exit1"}
           /\ mem' \in {mem, "freed"}
    BY DEF AwaitEnds, ProceedIf, Proceed, Fail
  <1>3. TypeOK'
    BY <1>0, <1>1, <1>2 DEF TypeOK
  <1>4. Counts' /\ Jumps'
    BY <1>0, <1>1, <1>2 DEF Counts, Jumps
  <1>5. Alarms'
    <2>1. CASE alarmed
      BY <1>0, <1>1, <1>2, <2>1 DEF Alarms
    <2>2. CASE ~alarmed
      <3>1. Step' = Step /\ "late" \in struck'
        BY <1>0, <1>1, <1>2, <2>2 DEF Step, Alarms
      <3> QED
        BY <1>0, <1>1, <1>2, <2>2, <3>1 DEF Alarms
    <2> QED
      BY <2>1, <2>2
  <1> QED
    BY <1>3, <1>4, <1>5 DEF IInv

\* The handler of the alarm, between two steps of main.
LEMMA AlarmKeeps == IInv /\ AlarmFires => IInv'
  <1> SUFFICES ASSUME IInv, AlarmFires PROVE IInv'
    OBVIOUS
  <1>0. TypeOK /\ Counts /\ Jumps /\ Alarms
    BY DEF IInv
  <1>1. /\ timer = "set" /\ timer' = "fired" /\ alarmed' = TRUE
        /\ mem' = IF mem = "text" THEN "textOK" ELSE mem
        /\ UNCHANGED <<test, pc, status, prot, armed, jump, landed, caught, turns, mask,
                       struck>>
    BY DEF AlarmFires
  <1>2. Step' = Step
    BY <1>1 DEF Step
  <1>3. TypeOK'
    BY <1>0, <1>1 DEF TypeOK
  <1>4. Counts' /\ Jumps'
    BY <1>0, <1>1, <1>2 DEF Counts, Jumps
  <1>5. Alarms'
    BY <1>0, <1>1, <1>2 DEF Alarms
  <1> QED
    BY <1>3, <1>4, <1>5 DEF IInv

\* The two ends, where nothing waits for the alarm any more.
LEMMA EndKeeps == IInv /\ (Return \/ Succeed) => IInv'
  <1> SUFFICES ASSUME IInv, Return \/ Succeed PROVE IInv'
    OBVIOUS
  <1>0. TypeOK /\ Counts /\ Jumps /\ Alarms
    BY DEF IInv
  <1>1. /\ UNCHANGED <<test, pc, prot, armed, jump, landed, caught, timer, turns, alarmed,
                       struck>>
        /\ status' \in {"exit0", "exit1"}
        /\ \/ UNCHANGED mem /\ status = "freeing"
           \/ mem' \in {mem, "freed"} /\ Step.op = "end"
    BY DEF Return, Succeed, alarmVars, At
  <1>2. mask' \in Mask
    <2>1. CASE Return
      BY <1>0, <2>1 DEF Return, TypeOK
    <2>2. CASE Succeed
      <3>1. PICK a \in Disable(mask) : mask' = a.mask
        BY <2>2 DEF Succeed
      <3> QED
        BY <1>0, <3>1, DisableAnswers DEF TypeOK, Mask
    <2> QED
      BY <2>1, <2>2
  <1>3. Step' = Step
    BY <1>1 DEF Step
  <1>4. TypeOK'
    BY <1>0, <1>1, <1>2 DEF TypeOK
  <1>5. Counts' /\ Jumps'
    BY <1>0, <1>1, <1>3 DEF Counts, Jumps
  <1>6. Alarms'
    BY <1>0, <1>1, <1>3 DEF Alarms
  <1> QED
    BY <1>4, <1>5, <1>6 DEF IInv

LEMMA InvNext == IInv /\ [Next]_vars => IInv'
  <1> SUFFICES ASSUME IInv, [Next]_vars PROVE IInv'
    OBVIOUS
  <1>1. CASE \/ EnableReplication \/ CheckEnabled \/ CheckNuma \/ InstallHandler
             \/ MapPages \/ ChangeProtection \/ InstallOther \/ CheckCount
             \/ AllocateText \/ CompareText
    BY <1>1, CalmSteps, CalmKeeps
  <1>2. CASE TrapAccess \/ JudgeLanding \/ WorkAccess \/ KillSelf
    BY <1>2, TrapKeeps, LandingKeeps, WorkKeeps, KillKeeps
  <1>3. CASE SetAlarm \/ AwaitTurn \/ AwaitEnds \/ AlarmFires \/ Return \/ Succeed
    BY <1>3, SetAlarmKeeps, AwaitTurnKeeps, AwaitEndsKeeps, AlarmKeeps, EndKeeps
  <1>4. CASE UNCHANGED vars
    BY <1>4 DEF IInv, TypeOK, Counts, Jumps, Alarms, vars, alarmVars, Step
  <1> QED
    BY <1>1, <1>2, <1>3, <1>4 DEF Next, Main, Done

-----------------------------------------------------------------------------
\* Every variable keeps its type: whatever the handlers do, the jump lands at
\* a sigsetjmp that has been passed and the counter stays small.
THEOREM TypeCorrect == Spec => []TypeOK
  <1>1. IInv => TypeOK
    BY DEF IInv
  <1> QED
    BY InvInit, InvNext, <1>1, PTL DEF Spec

\* While global_mem is freed (test7.c:127) its handler may still run only if
\* the alarm is late, however long main waits for it.
THEOREM AlarmIsSafe == Spec => []AlarmSafe
  <1>1. IInv => AlarmSafe
    BY DEF IInv, Alarms, AlarmSafe
  <1> QED
    BY InvInit, InvNext, <1>1, PTL DEF Spec

-----------------------------------------------------------------------------
(***************************************************************************)
(* The verdict: a failure is never a false alarm, and a test that passes   *)
(* has noticed every fault that it is able to see.                         *)
(***************************************************************************)

\* The steps that enable replication, ask for it last, and install the handler.
EnabledAt == [test7 |-> 1, test9 |-> 1, test32 |-> 3]
AskedAt == [test7 |-> 13, test9 |-> 12, test32 |-> 17]
InstalledAt == [test7 |-> 11, test9 |-> 6, test32 |-> 2]

Running == status = "running" /\ ~landed

\* The protection that the steps ahead rely on.
InPlace ==
  /\ test # "test9" => prot["first"] = "unmapped"
  /\ Running =>
       /\ test = "test9" => /\ pc \in {3, 9} => prot["first"] = "rw"
                            /\ pc \in {5, 6, 7} => prot["first"] = "ro"
                            /\ pc = 11 => prot["second"] = "none"
       /\ test = "test32" => /\ pc \in {7, 11, 13} => prot["second"] = "rw"
                             /\ pc = 9 => prot["second"] = "none"
                             /\ pc \in {15, 16} => prot["second"] = "ro"
  /\ landed => armed

\* What a fault that has struck has left behind while the test may still pass.
Lasting == {"get", "ignore", "lose", "late", "spurious", "sigaction", "twice"}

Traced ==
  status \in {"running", "exit0"} =>
    /\ struck \subseteq Lasting
    /\ "sigaction" \in struck => test = "test9" /\ pc = 7 /\ ~armed
    /\ "get" \in struck => test = "test32"
    /\ "twice" \in struck => test = "test7" /\ pc \in {4, 5} /\ caught > pc - 3
    /\ "late" \in struck => test = "test7"
    /\ "spurious" \in struck => test = "test9" \/ (test = "test32" /\ landed /\ caught = 2)
    /\ "ignore" \in struck \/ "lose" \in struck =>
         /\ pc > EnabledAt[test]
         /\ status = "running" => mask = 0
         /\ "get" \in struck \/ pc <= AskedAt[test]
    /\ test = "test7" /\ pc = 4 => caught > 0
    /\ test = "test32" /\ pc >= 6 /\ ~landed => caught = 1
    /\ test # "test7" /\ landed => caught > 0
    /\ status = "exit0" => pc = AskedAt[test] + 1

\* Without a fault the test goes as it should.
Quiet ==
  struck = {} =>
    /\ status \in {"running", "exit0"}
    /\ status = "running" /\ pc > EnabledAt[test] => mask = 1
    /\ pc > InstalledAt[test] => armed
    /\ test = "test32" /\ landed => caught = 1
    /\ test = "test7" => /\ pc = 3 => caught = 0
                         /\ pc = 4 => caught = 1
                         /\ pc = 5 => caught = 2
                         /\ pc \in {7, 8, 9} => mem = IF alarmed THEN "textOK" ELSE "text"
                         /\ pc = 10 => mem = "textOK"

FInv == InPlace /\ Traced /\ Quiet

-----------------------------------------------------------------------------
(* The scripts, step by step.                                              *)

\* What main does at each place, and to which page.
LEMMA Places7 ==
  ASSUME TypeOK, test = "test7"
  PROVE  /\ pc \in 1 .. 14
         /\ (Step.op = "enable" <=> pc = 1) /\ (Step.op = "get" <=> pc = 13)
         /\ (Step.op = "install" <=> pc = 11) /\ (Step.op = "sigaction" <=> pc \in {2, 7})
         /\ (Step.op = "kill" <=> pc \in {3, 4}) /\ (Step.op = "count" <=> pc = 5)
         /\ (Step.op = "malloc" <=> pc = 6) /\ (Step.op = "alarm" <=> pc = 8)
         /\ (Step.op = "await" <=> pc = 9) /\ (Step.op = "compare" <=> pc = 10)
         /\ (Step.op = "trap" <=> pc = 12) /\ (Step.op = "end" <=> pc = 14)
         /\ Step.op \notin {"numa", "map", "protect", "work"}
         /\ (pc = 11 => Step.checked = TRUE)
         /\ (pc = 12 => Step.page = "first" /\ Step.access = "write")
         /\ (pc = 13 => Step.wanted = "positive")
  BY DEF TypeOK, Step, Script, Script7, Do, GetStep, Install, Map, Protect, Work, Trap

LEMMA Places9 ==
  ASSUME TypeOK, test = "test9"
  PROVE  /\ pc \in 1 .. 13
         /\ (Step.op = "enable" <=> pc = 1) /\ (Step.op = "get" <=> pc = 12)
         /\ (Step.op = "install" <=> pc = 6) /\ (Step.op = "map" <=> pc = 2)
         /\ (Step.op = "protect" <=> pc \in {4, 8, 10})
         /\ (Step.op = "work" <=> pc \in {3, 5, 9})
         /\ (Step.op = "trap" <=> pc \in {7, 11}) /\ (Step.op = "end" <=> pc = 13)
         /\ Step.op \notin {"numa", "sigaction", "kill", "count", "malloc", "alarm", "await",
                           "compare"}
         /\ (pc = 2 => Step.page = "first")
         /\ (pc = 3 => Step.page = "first" /\ Step.access = "write")
         /\ (pc = 4 => Step.page = "first" /\ Step.to = "ro")
         /\ (pc = 5 => Step.page = "first" /\ Step.access = "read")
         /\ (pc = 6 => Step.checked = FALSE)
         /\ (pc = 7 => Step.page = "first" /\ Step.access = "write")
         /\ (pc = 8 => Step.page = "first" /\ Step.to = "rw")
         /\ (pc = 9 => Step.page = "first" /\ Step.access = "write")
         /\ (pc = 10 => Step.page = "second" /\ Step.to = "none")
         /\ (pc = 11 => Step.page = "second" /\ Step.access = "read")
         /\ (pc = 12 => Step.wanted = "positive")
  BY DEF TypeOK, Step, Script, Script9, Do, GetStep, Install, Map, Protect, Work, Trap

LEMMA Places32 ==
  ASSUME TypeOK, test = "test32"
  PROVE  /\ pc \in 1 .. 18
         /\ (Step.op = "enable" <=> pc = 3) /\ (Step.op = "numa" <=> pc = 1)
         /\ (Step.op = "get" <=> pc \in {4, 17}) /\ (Step.op = "install" <=> pc = 2)
         /\ (Step.op = "map" <=> pc \in {6, 12})
         /\ (Step.op = "protect" <=> pc \in {8, 10, 14})
         /\ (Step.op = "work" <=> pc \in {7, 11, 13, 15})
         /\ (Step.op = "trap" <=> pc \in {5, 9, 16}) /\ (Step.op = "end" <=> pc = 18)
         /\ Step.op \notin {"sigaction", "kill", "count", "malloc", "alarm", "await", "compare"}
         /\ (pc = 2 => Step.checked = TRUE) /\ (pc = 4 => Step.wanted = "nonzero")
         /\ (pc = 5 => Step.page = "first" /\ Step.access = "write")
         /\ (pc = 6 => Step.page = "second")
         /\ (pc = 7 => Step.page = "second" /\ Step.access = "write")
         /\ (pc = 8 => Step.page = "second" /\ Step.to = "none")
         /\ (pc = 9 => Step.page = "second" /\ Step.access = "read")
         /\ (pc = 10 => Step.page = "second" /\ Step.to = "rw")
         /\ (pc = 11 => Step.page = "second" /\ Step.access = "read")
         /\ (pc = 12 => Step.page = "second")
         /\ (pc = 13 => Step.page = "second" /\ Step.access = "write")
         /\ (pc = 14 => Step.page = "second" /\ Step.to = "ro")
         /\ (pc = 15 => Step.page = "second" /\ Step.access = "read")
         /\ (pc = 16 => Step.page = "second" /\ Step.access = "write")
         /\ (pc = 17 => Step.wanted = "nonzero")
  BY DEF TypeOK, Step, Script, Script32, Do, GetStep, Install, Map, Protect, Work, Trap


\* An answer that breaks no promise leaves no trace; another is noted.
LEMMA NoteIs ==
  \A S, a : /\ a.fault = "none" => Note(S, a) = S
            /\ a.fault # "none" => Note(S, a) = S \cup {a.fault}
  BY DEF Note

\* A test that begins has nothing behind it.
LEMMA FInvInit == Init => FInv
  <1> SUFFICES ASSUME Init PROVE FInv
    OBVIOUS
  <1>1. ~landed /\ pc = 1 /\ status = "running" /\ struck = {} /\ test \in DOMAIN Script
    BY DEF Init
  <1>2. prot["first"] = "unmapped"
    BY DEF Init, Pages
  <1>3. InPlace
    BY <1>1, <1>2 DEF InPlace
  <1>4. Traced /\ Quiet
    BY <1>1 DEF Traced, Quiet, EnabledAt, InstalledAt, AskedAt, Script
  <1> QED
    BY <1>3, <1>4 DEF FInv

\* The test gives up, having noted why.
GivesUp ==
  /\ UNCHANGED <<test, prot>> /\ landed' = FALSE
  /\ status' \in {"skip", "freeing", "exit1", "killed"}
  /\ struck' # {}

\* A test that gives up has no promise left to keep.
LEMMA GivingUp == InPlace /\ GivesUp => FInv'
  <1> SUFFICES ASSUME InPlace, GivesUp PROVE FInv'
    OBVIOUS
  <1>1. InPlace'
    BY DEF InPlace, GivesUp, Running
  <1>2. Traced' /\ Quiet'
    BY DEF Traced, Quiet, GivesUp
  <1> QED
    BY <1>1, <1>2 DEF FInv

\* One of the steps that have nothing to do with accesses: it is gone on from.
Onward ==
  /\ status = "running" /\ ~landed /\ pc' = pc + 1 /\ status' = "running"
  /\ UNCHANGED <<test, prot, landed>>

\* Which test, place and count there may be.
LEMMA Places ==
  ASSUME TypeOK
  PROVE  test \in {"test7", "test9", "test32"} /\ pc \in Nat /\ caught \in Nat
  BY Here DEF TypeOK

\* Protections stay right where no step changes them.
LEMMA OnwardInPlace ==
  ASSUME TypeOK, InPlace, Onward, Step.op \notin {"map", "protect", "trap"}
  PROVE  InPlace'
  <1>1. CASE test = "test7"
    BY <1>1, Places DEF InPlace, Onward, Running
  <1>2. CASE test = "test9"
    <2>1. pc \in 1 .. 13 /\ pc \notin {2, 4, 7, 8, 10, 11}
      BY <1>2, Places9
    <2> QED
      BY <1>2, <2>1 DEF InPlace, Onward, Running
  <1>3. CASE test = "test32"
    <2>1. pc \in 1 .. 18 /\ pc \notin {5, 6, 8, 9, 10, 12, 14, 16}
      BY <1>3, Places32
    <2> QED
      BY <1>3, <2>1 DEF InPlace, Onward, Running
  <1> QED
    BY <1>1, <1>2, <1>3, Places

\* A mask that an ignored call leaves at 0 shows at the queries.
LEMMA EnableTraced == IInv /\ FInv /\ EnableReplication => FInv'
  <1> SUFFICES ASSUME IInv, FInv, EnableReplication PROVE FInv'
    OBVIOUS
  <1>0. TypeOK /\ InPlace /\ Traced /\ Quiet
    BY DEF IInv, FInv
  <1>1. /\ status = "running" /\ ~landed /\ Step.op = "enable"
        /\ UNCHANGED <<test, prot, armed, jump, landed, caught, alarmVars>>
    BY DEF EnableReplication, At
  <1>2. PICK a \in Enable(mask) :
          ProceedIf(a.ret >= 0) /\ mask' = a.mask /\ struck' = Note(struck, a)
    BY DEF EnableReplication
  <1>3. \/ test \in {"test7", "test9"} /\ pc = 1
        \/ test = "test32" /\ pc = 3
    BY <1>0, <1>1, Places, Places7, Places9, Places32
  <1>4. \/ a.fault = "none" /\ a.ret = 0 /\ a.mask = 1
        \/ a.fault = "refuse" /\ a.ret = -1
        \/ a.fault = "ignore" /\ a.ret = 0 /\ a.mask = 0
    BY <1>0, <1>2, EnableAnswers DEF TypeOK
  <1>5. CASE a.fault = "refuse"
    <2>1. GivesUp
      BY <1>1, <1>2, <1>4, <1>5, NoteIs DEF GivesUp, ProceedIf, Fail
    <2> QED
      BY <1>0, <2>1, GivingUp
  <1>6. CASE a.fault # "refuse"
    <2>1. Onward /\ UNCHANGED mem
      BY <1>1, <1>2, <1>4, <1>6 DEF Onward, ProceedIf, Proceed
    <2>2. \/ struck' = struck /\ mask' = 1
          \/ struck' = struck \cup {"ignore"} /\ mask' = 0
      <3>1. CASE a.fault = "none"
        BY <1>2, <1>4, <3>1, NoteIs
      <3>2. CASE a.fault = "ignore"
        BY <1>2, <1>4, <3>2, NoteIs
      <3> QED
        BY <1>4, <1>6, <3>1, <3>2
    <2>3. InPlace'
      BY <1>0, <1>1, <2>1, OnwardInPlace
    <2>4. Traced'
      BY <1>0, <1>1, <1>3, <2>1, <2>2
      DEF Traced, Onward, EnabledAt, AskedAt, Lasting
    <2>5. Quiet'
      BY <1>0, <1>1, <1>3, <2>1, <2>2 DEF Quiet, Onward, EnabledAt, InstalledAt
    <2> QED
      BY <2>3, <2>4, <2>5 DEF FInv
  <1> QED
    BY <1>5, <1>6

\* A query that goes wrong ends the test, but for test32.
LEMMA CheckTraced == IInv /\ FInv /\ CheckEnabled => FInv'
  <1> SUFFICES ASSUME IInv, FInv, CheckEnabled PROVE FInv'
    OBVIOUS
  <1>0. TypeOK /\ InPlace /\ Traced /\ Quiet
    BY DEF IInv, FInv
  <1>1. /\ status = "running" /\ ~landed /\ Step.op = "get"
        /\ UNCHANGED <<test, prot, armed, jump, landed, caught, timer, turns, alarmed, mask>>
    BY DEF CheckEnabled, At, alarmVars
  <1>2. PICK a \in Get(mask) :
          /\ ProceedIf(IF Step.wanted = "positive" THEN a.ret > 0 ELSE a.ret # 0)
          /\ struck' = Note(struck, a)
    BY DEF CheckEnabled
  <1>3. \/ test = "test7" /\ pc = 13 /\ Step.wanted = "positive"
        \/ test = "test9" /\ pc = 12 /\ Step.wanted = "positive"
        \/ test = "test32" /\ pc \in {4, 17} /\ Step.wanted = "nonzero"
    BY <1>0, <1>1, Places, Places7, Places9, Places32
  <1>4. \/ a.fault = "none" /\ a.ret = mask
        \/ a.fault = "get" /\ a.ret = -1
    BY <1>0, <1>2, GetAnswers DEF TypeOK
  <1>5. CASE pc' = pc
    <2>1. /\ status' \in {"freeing", "exit1"}
          /\ a.ret = 0 \/ a.ret = -1
      BY <1>0, <1>2, <1>3, <1>4, <1>5 DEF ProceedIf, Proceed, Fail, TypeOK, Mask
    <2>2. struck' # {}
      <3>1. CASE a.fault = "get"
        BY <1>2, <3>1, NoteIs
      <3>2. CASE a.fault = "none"
        BY <1>0, <1>1, <1>2, <1>3, <1>4, <2>1, <3>2, NoteIs DEF Quiet, EnabledAt
      <3> QED
        BY <1>4, <3>1, <3>2
    <2>3. GivesUp
      BY <1>1, <2>1, <2>2 DEF GivesUp
    <2> QED
      BY <1>0, <2>3, GivingUp
  <1>6. CASE pc' # pc
    <2>1. Onward /\ UNCHANGED mem
      BY <1>1, <1>2, <1>6 DEF Onward, ProceedIf, Proceed, Fail
    <2>2. \/ struck' = struck /\ mask = 1
          \/ struck' = struck \cup {"get"} /\ test = "test32"
      <3>1. CASE a.fault = "none"
        BY <1>0, <1>2, <1>4, <2>1, <3>1, NoteIs DEF ProceedIf, Fail, Onward, TypeOK, Mask
      <3>2. CASE a.fault = "get"
        BY <1>1, <1>2, <1>3, <1>4, <2>1, <3>2, NoteIs DEF ProceedIf, Fail, Onward
      <3> QED
        BY <1>4, <3>1, <3>2
    <2>3. InPlace'
      BY <1>0, <1>1, <2>1, OnwardInPlace
    <2>4. Traced'
      BY <1>0, <1>1, <1>3, <2>1, <2>2
      DEF Traced, Onward, EnabledAt, AskedAt, Lasting
    <2>5. Quiet'
      BY <1>0, <1>1, <1>3, <2>1, <2>2 DEF Quiet, Onward, EnabledAt, InstalledAt
    <2> QED
      BY <2>3, <2>4, <2>5 DEF FInv
  <1> QED
    BY <1>5, <1>6

\* A call that works and does nothing to replication.
Uneventful ==
  /\ Onward
  /\ Step.op \in {"numa", "install", "sigaction", "count", "malloc", "alarm", "await", "compare"}
  /\ UNCHANGED <<caught, alarmed, mask, struck>>
  /\ Step.op = "install" => armed' = TRUE
  /\ Step.op # "install" => armed' = armed
  /\ Step.op = "malloc" => mem' = "text"
  /\ Step.op # "malloc" => mem' = mem
  /\ Step.op = "count" => caught = 2
  /\ Step.op = "await" => alarmed

\* Such a call keeps the traces of what has struck.
LEMMA UneventfulKeeps == IInv /\ FInv /\ Uneventful => FInv'
  <1> SUFFICES ASSUME IInv, FInv, Uneventful PROVE FInv'
    OBVIOUS
  <1>0. TypeOK /\ InPlace /\ Traced /\ Quiet /\ Counts /\ Alarms
    BY DEF IInv, FInv
  <1>1. /\ status = "running" /\ status' = "running" /\ ~landed /\ ~landed'
        /\ pc' = pc + 1 /\ test' = test
    BY DEF Uneventful, Onward
  <1>2. InPlace'
    BY <1>0, OnwardInPlace DEF Uneventful
  <1>3. \/ test = "test7" /\ pc \in {2, 5, 6, 7, 8, 9, 10, 11}
        \/ test = "test9" /\ pc = 6
        \/ test = "test32" /\ pc \in {1, 2}
    BY <1>0, Places, Places7, Places9, Places32 DEF Uneventful
  <1>4. Traced'
    <2>1. "twice" \notin struck
      <3>1. CASE test = "test7" /\ pc = 5
        BY <1>0, <1>1, <3>1, Places7 DEF Traced, Uneventful
      <3>2. CASE ~(test = "test7" /\ pc = 5)
        BY <1>0, <1>1, <1>3, <3>2 DEF Traced
      <3> QED
        BY <3>1, <3>2
    <2>2. "sigaction" \notin struck
      BY <1>0, <1>1, <1>3 DEF Traced
    <2> QED
      BY <1>0, <1>1, <1>3, <2>1, <2>2 DEF Traced, Uneventful, EnabledAt, AskedAt
  <1>5. Quiet'
    <2>1. SUFFICES ASSUME struck = {} PROVE Quiet'
      BY DEF Quiet, Uneventful
    <2>2. /\ pc' > EnabledAt[test] => mask' = 1
          /\ pc' > InstalledAt[test] => armed'
      <3>1. CASE test = "test7"
        BY <1>0, <1>1, <1>3, <2>1, <3>1, Places7
        DEF Quiet, Uneventful, EnabledAt, InstalledAt
      <3>2. CASE test = "test9"
        BY <1>0, <1>1, <1>3, <2>1, <3>2, Places9
        DEF Quiet, Uneventful, EnabledAt, InstalledAt
      <3>3. CASE test = "test32"
        BY <1>0, <1>1, <1>3, <2>1, <3>3, Places32
        DEF Quiet, Uneventful, EnabledAt, InstalledAt
      <3> QED
        BY <1>3, <3>1, <3>2, <3>3
    <2>3. ASSUME test = "test7"
          PROVE  /\ pc' = 3 => caught' = 0
                 /\ pc' # 4
                 /\ pc' = 5 => caught' = 2
      BY <1>0, <1>1, <1>3, <2>3 DEF Counts, Uneventful
    <2>4. ASSUME test = "test7"
          PROVE  /\ pc' \in {7, 8, 9} => mem' = IF alarmed' THEN "textOK" ELSE "text"
                 /\ pc' = 10 => mem' = "textOK"
      <3>1. CASE pc = 6
        BY <1>0, <1>1, <2>4, <3>1, Places7 DEF Alarms, Uneventful
      <3>2. CASE pc # 6
        BY <1>0, <1>1, <1>3, <2>1, <2>4, <3>2, Places7 DEF Quiet, Uneventful
      <3> QED
        BY <3>1, <3>2
    <2> QED
      BY <1>1, <2>2, <2>3, <2>4 DEF Quiet
  <1> QED
    BY <1>2, <1>4, <1>5 DEF FInv

\* A library call: it works, or its failure is noted.
LEMMA Called ==
  ASSUME NEW f, f # "none", NEW a \in Call(f), struck' = Note(struck, a)
  PROVE  \/ a.ok = TRUE /\ struck' = struck
         \/ a.ok = FALSE /\ struck' = struck \cup {f}
  BY CallAnswers, NoteIs

\* The calls of the setup.
LEMMA SetupTraced ==
  ASSUME IInv, FInv, CheckNuma \/ InstallOther \/ AllocateText \/ SetAlarm
  PROVE  FInv'
  <1>0. TypeOK /\ InPlace /\ Traced /\ Quiet /\ Alarms
    BY DEF IInv, FInv
  <1>1. Uneventful \/ GivesUp
    <2>1. CASE CheckNuma
      <3>1. PICK a \in Call("numa") :
              /\ IF a.ok THEN Proceed ELSE status' = "skip" /\ UNCHANGED <<pc, mem>>
              /\ struck' = Note(struck, a)
        BY <2>1 DEF CheckNuma
      <3>2. \/ a.ok = TRUE /\ struck' = struck
            \/ a.ok = FALSE /\ struck' = struck \cup {"numa"}
        BY <3>1, Called
      <3> QED
        BY <2>1, <3>1, <3>2
        DEF CheckNuma, At, Proceed, Uneventful, Onward, GivesUp, alarmVars
    <2>2. CASE InstallOther
      <3>1. PICK a \in Call("sigaction") : ProceedIf(a.ok) /\ struck' = Note(struck, a)
        BY <2>2 DEF InstallOther
      <3>2. \/ a.ok = TRUE /\ struck' = struck
            \/ a.ok = FALSE /\ struck' = struck \cup {"sigaction"}
        BY <3>1, Called
      <3> QED
        BY <2>2, <3>1, <3>2
        DEF InstallOther, At, ProceedIf, Proceed, Fail, Uneventful, Onward, GivesUp, alarmVars
    <2>3. CASE AllocateText
      <3>1. PICK a \in Call("malloc") :
              /\ IF a.ok THEN pc' = pc + 1 /\ mem' = "text" /\ UNCHANGED status ELSE Fail
              /\ struck' = Note(struck, a)
        BY <2>3 DEF AllocateText
      <3>2. \/ a.ok = TRUE /\ struck' = struck
            \/ a.ok = FALSE /\ struck' = struck \cup {"malloc"}
        BY <3>1, Called
      <3> QED
        BY <2>3, <3>1, <3>2
        DEF AllocateText, At, Fail, Uneventful, Onward, GivesUp, alarmVars
    <2>4. CASE SetAlarm
      BY <2>4 DEF SetAlarm, At, Proceed, Uneventful, Onward
    <2> QED
      BY <2>1, <2>2, <2>3, <2>4
  <1> QED
    BY <1>0, <1>1, UneventfulKeeps, GivingUp

\* The comparisons of test7 fail only after a fault.
LEMMA ComparisonTraced ==
  ASSUME IInv, FInv, CheckCount \/ AwaitEnds \/ CompareText
  PROVE  FInv'
  <1>0. TypeOK /\ InPlace /\ Traced /\ Quiet /\ Alarms
    BY DEF IInv, FInv
  <1>1. Uneventful \/ GivesUp
    <2>1. CASE CheckCount
      <3>1. test = "test7" /\ pc = 5
        BY <1>0, <2>1, Places, Places7, Places9, Places32 DEF CheckCount, At
      <3>2. caught # 2 => struck # {}
        BY <1>0, <3>1 DEF Quiet
      <3> QED
        BY <2>1, <3>2
        DEF CheckCount, At, ProceedIf, Proceed, Fail, Uneventful, Onward, GivesUp, alarmVars
    <2>2. CASE AwaitEnds
      <3>1. ~alarmed => struck # {}
        BY <1>0, <2>2 DEF Alarms, AwaitEnds
      <3> QED
        BY <2>2, <3>1
        DEF AwaitEnds, At, ProceedIf, Proceed, Fail, Uneventful, Onward, GivesUp, alarmVars
    <2>3. CASE CompareText
      <3>1. PICK a \in Call("corrupt") :
              ProceedIf(a.ok /\ mem = "textOK") /\ struck' = Note(struck, a)
        BY <2>3 DEF CompareText
      <3>2. \/ a.ok = TRUE /\ struck' = struck
            \/ a.ok = FALSE /\ struck' = struck \cup {"corrupt"}
        BY <3>1, Called
      <3>3. test = "test7" /\ pc = 10
        BY <1>0, <2>3, Places, Places7, Places9, Places32 DEF CompareText, At
      <3>4. mem # "textOK" => struck # {}
        BY <1>0, <3>3 DEF Quiet
      <3> QED
        BY <2>3, <3>1, <3>2, <3>4
        DEF CompareText, At, ProceedIf, Proceed, Fail, Uneventful, Onward, GivesUp, alarmVars
    <2> QED
      BY <2>1, <2>2, <2>3
  <1> QED
    BY <1>0, <1>1, UneventfulKeeps, GivingUp

\* test9 goes on without its handler, up to the access that is to trap.
LEMMA InstallTraced == IInv /\ FInv /\ InstallHandler => FInv'
  <1> SUFFICES ASSUME IInv, FInv, InstallHandler PROVE FInv'
    OBVIOUS
  <1>0. TypeOK /\ InPlace /\ Traced /\ Quiet
    BY DEF IInv, FInv
  <1>1. /\ status = "running" /\ ~landed /\ Step.op = "install"
        /\ UNCHANGED <<test, prot, jump, landed, caught, timer, turns, alarmed, mask>>
    BY DEF InstallHandler, At, alarmVars
  <1>2. PICK a \in Call("sigaction") :
          /\ ProceedIf(a.ok \/ ~Step.checked)
          /\ armed' = a.ok /\ struck' = Note(struck, a)
    BY DEF InstallHandler
  <1>3. \/ a.ok = TRUE /\ struck' = struck
        \/ a.ok = FALSE /\ struck' = struck \cup {"sigaction"}
    BY <1>2, Called
  <1>4. CASE a.ok = TRUE
    <2>1. struck' = struck
      BY <1>3, <1>4
    <2>2. Uneventful
      BY <1>1, <1>2, <1>4, <2>1 DEF ProceedIf, Proceed, Uneventful, Onward
    <2> QED
      BY <2>2, UneventfulKeeps
  <1>5. CASE a.ok = FALSE /\ Step.checked
    <2>1. GivesUp
      BY <1>1, <1>2, <1>3, <1>5 DEF GivesUp, ProceedIf, Fail
    <2> QED
      BY <1>0, <2>1, GivingUp
  <1>6. CASE a.ok = FALSE /\ ~Step.checked
    <2>1. test = "test9" /\ pc = 6
      BY <1>0, <1>1, <1>6, Places, Places7, Places9, Places32
    <2>2. Onward /\ armed' = FALSE /\ struck' = struck \cup {"sigaction"}
      BY <1>1, <1>2, <1>3, <1>6 DEF ProceedIf, Proceed, Onward
    <2>3. InPlace'
      BY <1>0, <1>1, <2>2, OnwardInPlace
    <2>4. Traced'
      BY <1>0, <1>1, <2>1, <2>2
      DEF Traced, Onward, EnabledAt, AskedAt, Lasting
    <2>5. Quiet'
      BY <2>2 DEF Quiet
    <2> QED
      BY <2>3, <2>4, <2>5 DEF FInv
  <1> QED
    BY <1>3, <1>4, <1>5, <1>6

\* The pages and their protections: the next accesses find what they rely on.
LEMMA PagesTraced == IInv /\ FInv /\ (MapPages \/ ChangeProtection) => FInv'
  <1> SUFFICES ASSUME IInv, FInv, MapPages \/ ChangeProtection PROVE FInv'
    OBVIOUS
  <1>0. TypeOK /\ InPlace /\ Traced /\ Quiet
    BY DEF IInv, FInv
  <1>1. /\ status = "running" /\ ~landed /\ Step.op \in {"map", "protect"}
        /\ UNCHANGED <<test, armed, jump, landed, caught, timer, turns, alarmed, mask>>
    BY DEF MapPages, ChangeProtection, At, alarmVars
  <1>2. \/ test = "test9" /\ pc \in {2, 4, 8, 10}
        \/ test = "test32" /\ pc \in {6, 8, 10, 12, 14}
    BY <1>0, <1>1, Places, Places7, Places9, Places32
  <1>3. \/ GivesUp
        \/ /\ pc' = pc + 1 /\ status' = "running" /\ UNCHANGED <<mem, struck>>
           /\ \/ /\ Step.op = "map"
                 /\ prot' = [p \in Pages |->
                               IF p = Step.page \/ test = "test9" THEN "rw" ELSE prot[p]]
              \/ Step.op = "protect" /\ prot' = [prot EXCEPT ![Step.page] = Step.to]
    <2>1. CASE MapPages
      <3>1. PICK a \in Call("mmap") :
              /\ ProceedIf(a.ok)
              /\ prot' = IF a.ok THEN [p \in Pages |->
                            IF p = Step.page \/ test = "test9" THEN "rw" ELSE prot[p]]
                                 ELSE prot
              /\ struck' = Note(struck, a)
        BY <2>1 DEF MapPages
      <3>2. \/ a.ok = TRUE /\ struck' = struck
            \/ a.ok = FALSE /\ struck' = struck \cup {"mmap"}
        BY <3>1, Called
      <3> QED
        BY <1>1, <2>1, <3>1, <3>2 DEF MapPages, At, ProceedIf, Proceed, Fail, GivesUp
    <2>2. CASE ChangeProtection
      <3>1. PICK a \in Call("mprotect") :
              /\ ProceedIf(a.ok)
              /\ prot' = IF a.ok THEN [prot EXCEPT ![Step.page] = Step.to] ELSE prot
              /\ struck' = Note(struck, a)
        BY <2>2 DEF ChangeProtection
      <3>2. \/ a.ok = TRUE /\ struck' = struck
            \/ a.ok = FALSE /\ struck' = struck \cup {"mprotect"}
        BY <3>1, Called
      <3> QED
        BY <1>1, <2>2, <3>1, <3>2 DEF ChangeProtection, At, ProceedIf, Proceed, Fail, GivesUp
    <2> QED
      BY <2>1, <2>2
  <1>4. CASE ~GivesUp
    <2>1. prot \in [Pages -> {"unmapped", "none", "ro", "rw"}]
      BY <1>0 DEF TypeOK
    <2>2. InPlace'
      <3>1. CASE test = "test9"
        BY <1>0, <1>1, <1>2, <1>3, <1>4, <2>1, <3>1, Places9 DEF InPlace, Running, Pages
      <3>2. CASE test = "test32"
        BY <1>0, <1>1, <1>2, <1>3, <1>4, <2>1, <3>2, Places32 DEF InPlace, Running, Pages
      <3> QED
        BY <1>2, <3>1, <3>2
    <2>3. Traced'
      BY <1>0, <1>1, <1>2, <1>3, <1>4 DEF Traced, EnabledAt, AskedAt
    <2>4. Quiet'
      BY <1>0, <1>1, <1>2, <1>3, <1>4 DEF Quiet, EnabledAt, InstalledAt
    <2> QED
      BY <2>2, <2>3, <2>4 DEF FInv
  <1> QED
    BY <1>0, <1>4, GivingUp

\* A signal delivered twice makes the count too large for good.
LEMMA KillTraced == IInv /\ FInv /\ KillSelf => FInv'
  <1> SUFFICES ASSUME IInv, FInv, KillSelf PROVE FInv'
    OBVIOUS
  <1>0. TypeOK /\ InPlace /\ Traced /\ Quiet /\ Counts
    BY DEF IInv, FInv
  <1>1. /\ status = "running" /\ ~landed /\ Step.op = "kill"
        /\ test = "test7" /\ pc \in {3, 4} /\ caught \in Nat
        /\ UNCHANGED <<test, prot, armed, jump, landed, timer, turns, alarmed, mask>>
    BY <1>0, Here, Places DEF KillSelf, At, alarmVars
  <1>2. PICK a \in Call("lostSignal"), b \in Call("twice") :
          /\ ProceedIf(a.ok)
          /\ caught' = caught + (IF ~a.ok THEN 0 ELSE IF b.ok THEN 1 ELSE 2)
          /\ struck' = Note(Note(struck, a), b)
    BY DEF KillSelf
  <1>3. CASE a.ok = FALSE
    <2>1. a.fault = "lostSignal" /\ "lostSignal" \in struck'
      BY <1>2, <1>3, CallAnswers, Noted
    <2>2. GivesUp
      BY <1>1, <1>2, <1>3, <2>1 DEF ProceedIf, Fail, GivesUp
    <2> QED
      BY <1>0, <2>2, GivingUp
  <1>4. CASE a.ok = TRUE
    <2>1. Onward /\ mem' = mem
      BY <1>1, <1>2, <1>4 DEF ProceedIf, Proceed, Onward
    <2>2. \/ struck' = struck /\ caught' = caught + 1
          \/ struck' = struck \cup {"twice"} /\ caught' = caught + 2
      <3>1. a.fault = "none" /\ Note(struck, a) = struck
        BY <1>4, CallAnswers, NoteIs
      <3>2. CASE b.ok = TRUE
        BY <1>1, <1>2, <1>4, <3>1, <3>2, CallAnswers, NoteIs
      <3>3. CASE b.ok = FALSE
        BY <1>1, <1>2, <1>4, <3>1, <3>3, CallAnswers, NoteIs
      <3> QED
        BY <3>2, <3>3, CallAnswers
    <2>3. InPlace'
      BY <1>0, <1>1, <2>1, OnwardInPlace
    <2>4. Traced'
      BY <1>0, <1>1, <2>1, <2>2 DEF Traced, Onward, EnabledAt, AskedAt, Lasting
    <2>5. Quiet'
      BY <1>0, <1>1, <2>1, <2>2 DEF Quiet, Onward, EnabledAt, InstalledAt
    <2> QED
      BY <2>3, <2>4, <2>5 DEF FInv
  <1> QED
    BY <1>3, <1>4, CallAnswers

\* The wait, the alarm and the two ends.
LEMMA WaitTraced ==
  ASSUME IInv, FInv, AwaitTurn \/ AlarmFires \/ Return \/ Succeed
  PROVE  FInv'
  <1>0. TypeOK /\ InPlace /\ Traced /\ Quiet /\ Alarms /\ Jumps
    BY DEF IInv, FInv
  <1>1. CASE AwaitTurn
    <2>1. /\ status = "running" /\ ~landed /\ Step.op = "await"
          /\ struck' = struck \/ struck' = struck \cup {"late"}
          /\ UNCHANGED <<test, pc, status, prot, armed, landed, caught, alarmed, mem, mask>>
      BY <1>1 DEF AwaitTurn, At
    <2>2. test = "test7" /\ pc = 9
      BY <1>0, <2>1, Here
    <2> QED
      BY <1>0, <2>1, <2>2 DEF FInv, InPlace, Running, Traced, Quiet, Lasting
  <1>2. CASE AlarmFires
    <2>1. /\ timer = "set" /\ alarmed' = TRUE
          /\ mem' = IF mem = "text" THEN "textOK" ELSE mem
          /\ UNCHANGED <<test, pc, status, prot, armed, landed, caught, mask, struck>>
      BY <1>2 DEF AlarmFires
    <2>2. InPlace' /\ Traced'
      BY <1>0, <2>1 DEF InPlace, Running, Traced
    <2>3. Quiet'
      BY <1>0, <2>1 DEF Quiet
    <2> QED
      BY <2>2, <2>3 DEF FInv
  <1>3. CASE Return
    <2>1. /\ status = "freeing" /\ status' = "exit1"
          /\ UNCHANGED <<test, pc, prot, armed, landed, caught, mem, mask, struck>>
      BY <1>3 DEF Return
    <2> QED
      BY <1>0, <2>1 DEF FInv, InPlace, Running, Traced, Quiet
  <1>4. CASE Succeed
    <2>1. /\ status = "running" /\ ~landed /\ Step.op = "end" /\ status' = "exit0"
          /\ UNCHANGED <<test, pc, prot, armed, landed, caught, alarmed, struck>>
      BY <1>4 DEF Succeed, At, alarmVars
    <2>2. pc = AskedAt[test] + 1 /\ pc > EnabledAt[test] /\ (test = "test7" => pc = 14)
      <3>1. \/ test = "test7" /\ pc = 14
            \/ test = "test9" /\ pc = 13
            \/ test = "test32" /\ pc = 18
        BY <1>0, <2>1, Places, Places7, Places9, Places32
      <3> QED
        BY <3>1 DEF AskedAt, EnabledAt
    <2>3. InPlace'
      BY <1>0, <2>1 DEF InPlace, Running
    <2>4. Traced'
      BY <1>0, <2>1, <2>2 DEF Traced
    <2>5. Quiet'
      BY <1>0, <2>1, <2>2 DEF Quiet
    <2> QED
      BY <2>3, <2>4, <2>5 DEF FInv
  <1> QED
    BY <1>1, <1>2, <1>3, <1>4

\* An access that is to trap is not allowed, one that is to work is.
LEMMA AccessIs ==
  ASSUME TypeOK, InPlace, Running
  PROVE  /\ Step.op = "trap" => ~Allowed
         /\ Step.op = "work" => Allowed
  <1>1. CASE test = "test7"
    BY <1>1, Places7 DEF InPlace, Allowed
  <1>2. CASE test = "test9"
    BY <1>2, Places9 DEF InPlace, Allowed
  <1>3. CASE test = "test32"
    BY <1>3, Places32 DEF InPlace, Allowed
  <1> QED
    BY <1>1, <1>2, <1>3, Places

\* The access that is to trap does so exactly once, unless a fault is noted.
LEMMA TrapTraced == IInv /\ FInv /\ TrapAccess => FInv'
  <1> SUFFICES ASSUME IInv, FInv, TrapAccess PROVE FInv'
    OBVIOUS
  <1>0. TypeOK /\ InPlace /\ Traced /\ Quiet
    BY DEF IInv, FInv
  <1>1. /\ status = "running" /\ ~landed /\ Step.op = "trap"
        /\ UNCHANGED <<test, prot, armed, timer, turns, alarmed>>
    BY DEF TrapAccess, At, alarmVars
  <1>2. ~Allowed
    BY <1>0, <1>1, AccessIs DEF Running
  <1>3. \/ test = "test7" /\ pc = 12
        \/ test = "test9" /\ pc \in {7, 11}
        \/ test = "test32" /\ pc \in {5, 9, 16}
    BY <1>0, <1>1, Places, Places7, Places9, Places32
  <1>4. PICK a \in Call("noTrap"), b \in Call("lose") :
          /\ IF ~a.ok THEN Fail /\ caught' = 0 /\ UNCHANGED landed
                      ELSE TakeSignal(pc, 0)
          /\ mask' = IF b.ok THEN mask ELSE 0
          /\ struck' = Note(Note(struck, a), b)
    BY <1>2 DEF TrapAccess
  <1>5. CASE a.ok = FALSE
    <2>1. "noTrap" \in struck'
      BY <1>4, <1>5, CallAnswers, Noted
    <2>2. GivesUp
      BY <1>1, <1>4, <1>5, <2>1 DEF Fail, GivesUp
    <2> QED
      BY <1>0, <2>2, GivingUp
  <1>6. CASE a.ok = TRUE /\ ~armed
    <2>1. struck # {}
      BY <1>0, <1>3, <1>6 DEF Quiet, InstalledAt
    <2>2. struck' # {}
      BY <1>4, <2>1, Noted
    <2>3. GivesUp
      BY <1>1, <1>4, <1>6, <2>2 DEF TakeSignal, GivesUp
    <2> QED
      BY <1>0, <2>3, GivingUp
  <1>7. CASE a.ok = TRUE /\ armed
    <2>1. /\ landed' = TRUE /\ pc' = pc /\ caught' = Counted(0) /\ UNCHANGED <<status, mem>>
      BY <1>4, <1>7 DEF TakeSignal
    <2>2. /\ test = "test9" => caught' = 1
          /\ test = "test32" => caught' = 1
      BY <2>1 DEF Counted
    <2>3. \/ struck' = struck /\ mask' = mask
          \/ struck' = struck \cup {"lose"} /\ mask' = 0
      <3>1. Note(struck, a) = struck
        BY <1>7, CallAnswers, NoteIs
      <3>2. CASE b.ok = TRUE
        BY <1>4, <3>1, <3>2, CallAnswers, NoteIs
      <3>3. CASE b.ok = FALSE
        BY <1>4, <3>1, <3>3, CallAnswers, NoteIs
      <3> QED
        BY <3>2, <3>3, CallAnswers
    <2>4. InPlace'
      BY <1>0, <1>1, <1>7, <2>1 DEF InPlace, Running
    <2>5. Traced'
      BY <1>0, <1>1, <1>3, <1>7, <2>1, <2>2, <2>3
      DEF Traced, EnabledAt, AskedAt, Lasting
    <2>6. Quiet'
      BY <1>0, <1>1, <1>3, <2>1, <2>2, <2>3 DEF Quiet, EnabledAt, InstalledAt
    <2> QED
      BY <2>4, <2>5, <2>6 DEF FInv
  <1> QED
    BY <1>5, <1>6, <1>7, CallAnswers

\* The count tells test32 a signal that it did not provoke from one that it did.
LEMMA LandingTraced == IInv /\ FInv /\ JudgeLanding => FInv'
  <1> SUFFICES ASSUME IInv, FInv, JudgeLanding PROVE FInv'
    OBVIOUS
  <1>0. TypeOK /\ InPlace /\ Traced /\ Quiet /\ Jumps
    BY DEF IInv, FInv
  <1>1. /\ status = "running" /\ landed /\ Step.op = "trap" /\ landed' = FALSE
        /\ UNCHANGED <<test, prot, armed, jump, caught, timer, turns, alarmed, mask, struck>>
    BY <1>0 DEF JudgeLanding, alarmVars, Jumps
  <1>2. \/ test = "test7" /\ pc = 12
        \/ test = "test9" /\ pc \in {7, 11}
        \/ test = "test32" /\ pc \in {5, 9, 16}
    BY <1>0, <1>1, Places, Places7, Places9, Places32
  <1>3. armed
    BY <1>0, <1>1 DEF InPlace
  <1>4. \/ /\ pc' = pc + 1 /\ UNCHANGED <<status, mem>>
           /\ test = "test32" => caught = 1
        \/ /\ status' \in {"freeing", "exit1"}
           /\ \/ test = "test32" /\ caught # 1
              \/ test = "test9" /\ caught = 0
    BY <1>2 DEF JudgeLanding, ProceedIf, Proceed, Fail
  <1>5. CASE status' # "running"
    <2>1. struck # {}
      BY <1>0, <1>1, <1>4, <1>5 DEF Quiet, Traced
    <2>2. GivesUp
      BY <1>1, <1>4, <1>5, <2>1 DEF GivesUp
    <2> QED
      BY <1>0, <2>2, GivingUp
  <1>6. CASE status' = "running"
    <2>1. pc' = pc + 1 /\ UNCHANGED <<status, mem>> /\ (test = "test32" => caught = 1)
      BY <1>4, <1>6
    <2>2. InPlace'
      BY <1>0, <1>1, <1>2, <2>1 DEF InPlace, Running
    <2>3. Traced'
      BY <1>0, <1>1, <1>2, <1>3, <2>1 DEF Traced, EnabledAt, AskedAt
    <2>4. Quiet'
      BY <1>0, <1>1, <1>2, <1>3, <2>1 DEF Quiet, EnabledAt, InstalledAt
    <2> QED
      BY <2>2, <2>3, <2>4 DEF FInv
  <1> QED
    BY <1>5, <1>6

\* A signal at an access that is to work ends test32 at the landing.
LEMMA WorkTraced == IInv /\ FInv /\ WorkAccess => FInv'
  <1> SUFFICES ASSUME IInv, FInv, WorkAccess PROVE FInv'
    OBVIOUS
  <1>0. TypeOK /\ InPlace /\ Traced /\ Quiet /\ Jumps
    BY DEF IInv, FInv
  <1>1. /\ status = "running" /\ ~landed /\ Step.op = "work"
        /\ UNCHANGED <<test, prot, armed, jump, timer, turns, alarmed, mask>>
    BY DEF WorkAccess, At, alarmVars
  <1>2. Allowed
    BY <1>0, <1>1, AccessIs DEF Running
  <1>3. \/ test = "test9" /\ pc \in {3, 5, 9}
        \/ test = "test32" /\ pc \in {7, 11, 13, 15}
    BY <1>0, <1>1, Places, Places7, Places9, Places32
  <1>4. PICK a \in Call("spurious"), b \in Call("corrupt") :
          /\ a.ok \/ b.ok
          /\ IF a.ok THEN ProceedIf(b.ok) /\ UNCHANGED <<landed, caught>>
                     ELSE TakeSignal(jump, caught)
          /\ struck' = Note(Note(struck, a), b)
    BY <1>2 DEF WorkAccess
  <1>5. CASE a.ok = TRUE /\ b.ok = FALSE
    <2>1. "corrupt" \in struck'
      BY <1>4, <1>5, CallAnswers, Noted
    <2>2. GivesUp
      BY <1>1, <1>4, <1>5, <2>1 DEF ProceedIf, Fail, GivesUp
    <2> QED
      BY <1>0, <2>2, GivingUp
  <1>6. CASE a.ok = TRUE /\ b.ok = TRUE
    <2>1. struck' = struck
      BY <1>4, <1>6, CallAnswers, NoteIs
    <2>2. Onward /\ UNCHANGED <<mem, caught>>
      BY <1>1, <1>4, <1>6 DEF ProceedIf, Proceed, Onward
    <2>3. InPlace'
      BY <1>0, <1>1, <2>2, OnwardInPlace
    <2>4. Traced'
      BY <1>0, <1>1, <1>3, <2>1, <2>2 DEF Traced, Onward, EnabledAt, AskedAt
    <2>5. Quiet'
      BY <1>0, <1>1, <1>3, <2>1, <2>2 DEF Quiet, Onward, EnabledAt, InstalledAt
    <2> QED
      BY <2>3, <2>4, <2>5 DEF FInv
  <1>7. CASE a.ok = FALSE /\ ~armed
    <2>1. "spurious" \in struck'
      BY <1>4, <1>7, CallAnswers, Noted
    <2>2. GivesUp
      BY <1>1, <1>4, <1>7, <2>1 DEF TakeSignal, GivesUp
    <2> QED
      BY <1>0, <2>2, GivingUp
  <1>8. CASE a.ok = FALSE /\ armed
    <2>1. struck' = struck \cup {"spurious"}
      <3>1. b.ok = TRUE /\ b.fault = "none"
        BY <1>4, <1>8, CallAnswers
      <3>2. Note(struck, a) = struck \cup {"spurious"}
        BY <1>8, CallAnswers, NoteIs
      <3> QED
        BY <1>4, <3>1, <3>2, NoteIs
    <2>2. /\ landed' = TRUE /\ pc' = jump /\ caught' = Counted(caught)
          /\ UNCHANGED <<status, mem>>
      BY <1>4, <1>8 DEF TakeSignal
    <2>3. /\ test = "test9" => jump \in {7, 11} /\ caught' = 1
          /\ test = "test32" => jump \in {5, 9, 16} /\ caught' = 2
      <3>1. jump # 0
        BY <1>0, <1>3, <1>8 DEF Jumps
      <3>2. jump \in DOMAIN Script[test] /\ Script[test][jump].op = "trap"
        BY <1>0, <3>1 DEF TypeOK
      <3>3. test = "test32" => caught = 1
        BY <1>0, <1>1, <1>3 DEF Traced
      <3> QED
        BY <1>0, <2>2, <3>2, <3>3, StepIs DEF Counted, TypeOK
    <2>4. InPlace'
      BY <1>0, <1>1, <1>8, <2>2 DEF InPlace, Running
    <2>5. Traced'
      BY <1>0, <1>1, <1>3, <1>8, <2>1, <2>2, <2>3
      DEF Traced, EnabledAt, AskedAt, Lasting
    <2>6. Quiet'
      BY <2>1 DEF Quiet
    <2> QED
      BY <2>4, <2>5, <2>6 DEF FInv
  <1> QED
    BY <1>5, <1>6, <1>7, <1>8, CallAnswers

\* Every step keeps the invariant.
LEMMA FInvNext == IInv /\ FInv /\ [Next]_vars => FInv'
  <1> SUFFICES ASSUME IInv, FInv, [Next]_vars PROVE FInv'
    OBVIOUS
  <1>1. CASE \/ EnableReplication \/ CheckEnabled \/ CheckNuma \/ InstallHandler
             \/ InstallOther \/ AllocateText \/ SetAlarm
    BY <1>1, EnableTraced, CheckTraced, SetupTraced, InstallTraced
  <1>2. CASE MapPages \/ ChangeProtection \/ TrapAccess \/ JudgeLanding \/ WorkAccess
    BY <1>2, PagesTraced, TrapTraced, LandingTraced, WorkTraced
  <1>3. CASE KillSelf \/ CheckCount \/ AwaitEnds \/ CompareText
    BY <1>3, KillTraced, ComparisonTraced
  <1>4. CASE AwaitTurn \/ AlarmFires \/ Return \/ Succeed
    BY <1>4, WaitTraced
  <1>5. CASE UNCHANGED vars
    BY <1>5 DEF FInv, InPlace, Running, Traced, Quiet, vars, alarmVars
  <1> QED
    BY <1>1, <1>2, <1>3, <1>4, <1>5 DEF Next, Main, Done

-----------------------------------------------------------------------------
\* A failure is never a false alarm: no signal of one phase is counted in the
\* next (test32.c:139, 221), and the alarm has its time (test7.c:120), however
\* long main waits.
THEOREM NoAlarmIsFalse == Spec => []NoFalseAlarm
  <1>1. FInv => NoFalseAlarm
    BY DEF FInv, Quiet, NoFalseAlarm
  <1> QED
    BY InvInit, InvNext, FInvInit, FInvNext, <1>1, PTL DEF Spec

\* Exit status 0 (test7.c:177, test9.c:174, test32.c:261): every fault that the
\* test is able to see has been seen, in any environment.
THEOREM NoFaultIsMissed == Spec => []FaultsCaught
  <1>1. ASSUME IInv, FInv PROVE FaultsCaught
    <2>1. SUFFICES ASSUME status = "exit0" PROVE FaultsCaught
      BY DEF FaultsCaught
    <2>2. TypeOK /\ Jumps /\ Traced /\ pc = AskedAt[test] + 1
      BY <1>1, <2>1 DEF IInv, FInv, Traced
    <2>3. \/ test = "test7" /\ pc = 14
          \/ test = "test9" /\ pc = 13
          \/ test = "test32" /\ pc = 18
      BY <2>2, Places DEF AskedAt
    <2>4. Step.op # "trap"
      BY <2>2, <2>3, Places7, Places9, Places32
    <2>5. ~landed
      BY <2>2, <2>4 DEF Jumps
    <2>6. /\ struck \subseteq Lasting /\ "sigaction" \notin struck /\ "twice" \notin struck
          /\ "get" \in struck => test = "test32"
          /\ "late" \in struck => test = "test7"
          /\ "spurious" \in struck => test = "test9"
          /\ "ignore" \in struck \/ "lose" \in struck => "get" \in struck
      BY <2>1, <2>2, <2>3, <2>5 DEF Traced, AskedAt
    <2> QED
      BY <2>3, <2>6 DEF FaultsCaught, Unnoticed, Lasting
  <1> QED
    BY InvInit, InvNext, FInvInit, FInvNext, <1>1, PTL DEF Spec

=============================================================================
