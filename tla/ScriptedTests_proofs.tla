------------------------ MODULE ScriptedTests_proofs ------------------------
(***************************************************************************)
(* What the machine of ScriptedTests does with the scripts, whatever set   *)
(* of faults strikes, however many at once.  Of the scripts only the facts *)
(* of ScriptFacts are used.                                                *)
(*                                                                         *)
(* At the end, an environment that can do less to the programs takes none  *)
(* of them anywhere that one where every fault may strike does not.        *)
(***************************************************************************)
EXTENDS ScriptFacts, ReplKernel_proofs, FiniteSetTheorems

\* Every process stands at a step of its script.
Placed ==
  /\ todo = [p \in ProcsOf(test) |-> todo[p]]
  /\ \A p \in ProcsOf(test) : todo[p] \in Rests(test, p)

LEMMA ProcsAre == TypeOK => Procs = ProcsOf(test) /\ test \in Tests
  BY DEF TypeOK, Procs

-----------------------------------------------------------------------------
(***************************************************************************)
(* What a step of the process p does to the control of the program, one    *)
(* definition for each kind of step.                                       *)
(***************************************************************************)
Here(p) == Head(todo[p])

GoTo(p, u) == todo' = [todo EXCEPT ![p] = u] /\ UNCHANGED <<test, state>>

\* The step works and the next one follows.
Works(p) ==
  /\ Here(p).do \notin MakesProcess \cup {"end"}
  /\ Here(p).do = "wait" => state[Here(p).val] = "ok"
  /\ Here(p).do = "waitExit" => state[Here(p).val] \in {"ok", "killed"}
  /\ GoTo(p, After(todo[p], 1)) /\ UNCHANGED <<pass, printed>>
  /\ lowered' = CASE Here(p).do = "lower" -> lowered \cup {Here(p).val}
                  [] Here(p).do = "restore" -> lowered \ {Here(p).val}
                  [] OTHER -> lowered

\* The step goes wrong.
Fails(p) ==
  /\ Here(p).do \notin {"end", "restore"}
  /\ Here(p).do \in WaitsFor => Ended(Here(p).val)
  /\ GoesWrong(p)
  /\ UNCHANGED lowered

\* The step makes a process.
Makes(p) ==
  /\ Here(p).do \in MakesProcess
  /\ Started(p, Here(p).val)
  /\ UNCHANGED lowered

\* CLONE_VM is refused.
Refuses(p) ==
  /\ Here(p).do = "cloneVM"
  /\ GoTo(p, After(todo[p], 1 + Here(p).skip))
  /\ UNCHANGED <<pass, printed, lowered>>

\* The process comes to an end.
Stops(p) ==
  /\ \/ Here(p).do = "numa" /\ EndAs(p, "ok")
     \/ Here(p).do = "end" /\ EndAs(p, IF pass[p] THEN "ok" ELSE "failed")
  /\ UNCHANGED lowered

\* It waits.
Sleeps(p) == UNCHANGED <<test, todo, state, pass, printed, lowered>>

LEMMA StepControl ==
  ASSUME NEW p, Step(p)
  PROVE  /\ p \in Procs /\ state[p] = "running"
         /\ \/ Works(p) \/ Fails(p) \/ Makes(p)
            \/ Refuses(p) \/ Stops(p) \/ Sleeps(p)
  <1> USE DEF Doing, Current, Here, Works, Fails, GoTo, Proceed, ProceedIf, Advance,
        MakesProcess, WaitsFor
  <1>1. CASE EnableReplication(p)
    BY <1>1 DEF EnableReplication
  <1>2. CASE DisableReplication(p)
    BY <1>2 DEF DisableReplication
  <1>3. CASE EnableInvalid(p)
    BY <1>3 DEF EnableInvalid
  <1>4. CASE QueryReplication(p)
    BY <1>4 DEF QueryReplication
  <1>5. CASE MapMemory(p)
    BY <1>5 DEF MapMemory
  <1>6. CASE WriteMemory(p)
    BY <1>6 DEF WriteMemory
  <1>7. CASE CheckMemory(p)
    BY <1>7 DEF CheckMemory
  <1>8. CASE UnmapMemory(p)
    BY <1>8 DEF UnmapMemory
  <1>9. CASE DropMemory(p)
    BY <1>9 DEF DropMemory
  <1>10. CASE ProtectMemory(p)
    BY <1>10 DEF ProtectMemory
  <1>11. CASE MoveMemory(p)
    BY <1>11 DEF MoveMemory
  <1>12. CASE OtherCall(p)
    BY <1>12 DEF OtherCall
  <1>13. CASE LowerLimit(p)
    BY <1>13 DEF LowerLimit
  <1>14. CASE RestoreLimit(p)
    BY <1>14 DEF RestoreLimit
  <1>15. CASE ForkProcess(p)
    BY <1>15 DEF ForkProcess, Makes
  <1>16. CASE CloneVM(p)
    BY <1>16 DEF CloneVM, Makes, Refuses
  <1>17. CASE CreateThread(p)
    BY <1>17 DEF CreateThread, Makes
  <1>18. CASE WaitForProcess(p)
    BY <1>18 DEF WaitForProcess, Ended
  <1>19. CASE Await(p)
    BY <1>19 DEF Await, Sleeps
  <1>20. CASE Exec(p)
    BY <1>20 DEF Exec
  <1>21. CASE CheckNodes(p)
    BY <1>21 DEF CheckNodes, Stops
  <1>22. CASE Judge(p)
    BY <1>22 DEF Judge
  <1>23. CASE Return(p)
    BY <1>23 DEF Return, Stops
  <1> QED
    BY <1>1, <1>2, <1>3, <1>4, <1>5, <1>6, <1>7, <1>8, <1>9, <1>10, <1>11, <1>12, <1>13,
       <1>14, <1>15, <1>16, <1>17, <1>18, <1>19, <1>20, <1>21, <1>22, <1>23 DEF Step

\* What the process p does when its step goes wrong.
LEMMA WrongIs ==
  ASSUME NEW p, GoesWrong(p)
  PROVE  /\ UNCHANGED test /\ printed' \in {printed, TRUE}
         /\ \/ /\ Ending(todo[p])
               /\ state' = [state EXCEPT ![p] = IF Here(p).bad = "die" THEN "killed" ELSE "failed"]
               /\ UNCHANGED <<todo, pass>>
            \/ /\ ~Ending(todo[p]) /\ GoTo(p, WrongRest(todo[p]))
               /\ Here(p).bad \in {"ignore", "print"}
               /\ UNCHANGED pass
            \/ /\ ~Ending(todo[p]) /\ GoTo(p, WrongRest(todo[p]))
               /\ Here(p).bad \notin {"ignore", "print"}
               /\ pass' = [pass EXCEPT ![p] = FALSE]
  <1> USE DEF GoesWrong, Current, Here, EndAs, Advance, GoTo, WrongRest, Ending
  <1>1. CASE Here(p).bad \in {"abort", "die", "kill"}
    BY <1>1
  <1>2. CASE Here(p).bad \in {"ignore", "print"}
    BY <1>2
  <1>3. CASE Here(p).bad = "note"
    BY <1>3
  <1>4. CASE Here(p).bad \notin {"abort", "die", "kill", "ignore", "print", "note"}
    BY <1>4
  <1> QED
    BY <1>1, <1>2, <1>3, <1>4

-----------------------------------------------------------------------------
\* The control of the program keeps its type.
ControlOK ==
  /\ test \in Tests
  /\ state \in [ProcsOf(test) -> {"absent", "running", "ok", "failed", "killed"}]
  /\ pass \in [Procs -> BOOLEAN] /\ printed \in BOOLEAN
  /\ lowered \subseteq Limits
  /\ Placed

LEMMA ControlInit == Init => ControlOK
  <1> SUFFICES ASSUME Init PROVE ControlOK
    OBVIOUS
  <1>1. Procs = ProcsOf(test) /\ test \in Tests
    BY DEF Init, Procs
  <1>2. Placed
    BY <1>1, ScriptsWellFormed DEF Init, Placed
  <1> QED
    BY <1>1, <1>2 DEF Init, ControlOK

\* What the scripts say of the step p is at.
LEMMA HereIs ==
  ASSUME ControlOK, NEW p \in Procs
  PROVE  /\ Procs = ProcsOf(test) /\ test \in Tests
         /\ todo[p] \in Rests(test, p) /\ WellFormed(test, p, Here(p))
         /\ Here(p).do # "end" => /\ After(todo[p], 1) \in Rests(test, p)
                                  /\ ~Ending(todo[p]) => WrongRest(todo[p]) \in Rests(test, p)
         /\ Here(p).do = "cloneVM" => After(todo[p], 1 + Here(p).skip) \in Rests(test, p)
  <1>1. Procs = ProcsOf(test)
    BY DEF ControlOK, Procs
  <1> QED
    BY <1>1, ScriptsWellFormed DEF ControlOK, Placed, Here

LEMMA PlacedMoves ==
  ASSUME ControlOK, NEW p \in Procs, NEW u \in Rests(test, p), GoTo(p, u)
  PROVE  Placed' /\ UNCHANGED Procs
  <1>1. Procs = ProcsOf(test) /\ UNCHANGED Procs
    BY DEF ControlOK, Procs, GoTo
  <1>2. todo' = [q \in ProcsOf(test) |-> IF q = p THEN u ELSE todo[q]]
    BY <1>1 DEF ControlOK, Placed, GoTo
  <1> QED
    BY <1>1, <1>2 DEF ControlOK, Placed, GoTo

LEMMA ControlStep ==
  ASSUME ControlOK, NEW p, Step(p)
  PROVE  ControlOK'
  <1>0. /\ p \in Procs /\ state[p] = "running"
        /\ \/ Works(p) \/ Fails(p) \/ Makes(p)
           \/ Refuses(p) \/ Stops(p) \/ Sleeps(p)
    BY StepControl
  <1>h. /\ Procs = ProcsOf(test) /\ test \in Tests
        /\ todo[p] \in Rests(test, p) /\ WellFormed(test, p, Here(p))
        /\ Here(p).do # "end" => /\ After(todo[p], 1) \in Rests(test, p)
                                 /\ ~Ending(todo[p]) => WrongRest(todo[p]) \in Rests(test, p)
        /\ Here(p).do = "cloneVM" => After(todo[p], 1 + Here(p).skip) \in Rests(test, p)
    BY <1>0, HereIs
  <1>a. ASSUME UNCHANGED <<todo, test>> PROVE Placed'
    BY <1>a DEF ControlOK, Placed
  <1>b. ASSUME UNCHANGED <<test, pass, lowered>>, Placed', printed' \in {printed, TRUE},
               state' \in [ProcsOf(test) -> {"absent", "running", "ok", "failed", "killed"}]
        PROVE  ControlOK'
    BY <1>b DEF ControlOK, Procs
  <1>1. CASE Works(p)
    <2>1. Placed' /\ UNCHANGED Procs
      BY <1>0, <1>h, <1>1, PlacedMoves DEF Works
    <2>2. lowered' \subseteq Limits
      BY <1>h, <1>1 DEF Works, WellFormed, ControlOK
    <2> QED
      BY <1>1, <2>1, <2>2 DEF Works, GoTo, ControlOK
  <1>2. CASE Fails(p)
    <2>1. CASE state' # state
      <3>1. UNCHANGED <<test, todo, pass, lowered>> /\ printed' \in {printed, TRUE}
        BY <1>2, <2>1, WrongIs DEF Fails, GoTo
      <3>2. state' \in [ProcsOf(test) -> {"absent", "running", "ok", "failed", "killed"}]
        BY <1>2, <2>1, WrongIs DEF Fails, GoTo, ControlOK
      <3> QED
        BY <3>1, <3>2, <1>a, <1>b
    <2>2. CASE ~Ending(todo[p]) /\ GoTo(p, WrongRest(todo[p]))
      <3>1. Placed' /\ UNCHANGED Procs
        BY <1>0, <1>h, <1>2, <2>2, PlacedMoves DEF Fails
      <3>2. /\ printed' \in {printed, TRUE} /\ UNCHANGED <<lowered, test, state>>
            /\ pass' = pass \/ pass' = [pass EXCEPT ![p] = FALSE]
        BY <1>2, <2>2, WrongIs DEF Fails, GoTo
      <3>3. pass' \in [Procs -> BOOLEAN]
        BY <3>2 DEF ControlOK
      <3> QED
        BY <3>1, <3>2, <3>3 DEF ControlOK
    <2>3. CASE UNCHANGED <<test, todo, state, pass, lowered>> /\ printed' \in {printed, TRUE}
      BY <1>a, <1>b, <2>3 DEF ControlOK
    <2> QED
      BY <1>2, <2>1, <2>2, <2>3, WrongIs DEF Fails
  <1>3. CASE Makes(p)
    <2>1. Here(p).val \in ProcsOf(test) /\ Here(p).do # "end"
      BY <1>h, <1>3 DEF Makes, WellFormed, MakesProcess
    <2>2. /\ UNCHANGED <<test, pass, printed, lowered>>
          /\ todo' = [todo EXCEPT ![p] = After(todo[p], 1)]
          /\ state' = [state EXCEPT ![Here(p).val] = "running"]
      BY <1>3 DEF Makes, Started, Advance
    <2>3. todo' = [q \in ProcsOf(test) |-> IF q = p THEN After(todo[p], 1) ELSE todo[q]]
      BY <2>2 DEF ControlOK, Placed
    <2>4. Placed'
      BY <1>h, <2>1, <2>2, <2>3 DEF ControlOK, Placed
    <2> QED
      BY <1>b, <2>1, <2>2, <2>4 DEF ControlOK
  <1>4. CASE Refuses(p)
    BY <1>0, <1>h, <1>4, PlacedMoves DEF Refuses, GoTo, ControlOK
  <1>5. CASE Stops(p)
    BY <1>0, <1>h, <1>5, <1>a, <1>b DEF Stops, EndAs, ControlOK
  <1>6. CASE Sleeps(p)
    BY <1>6, <1>a, <1>b DEF Sleeps, ControlOK
  <1> QED
    BY <1>0, <1>1, <1>2, <1>3, <1>4, <1>5, <1>6

-----------------------------------------------------------------------------
\* The memory keeps its type.
MemoryOK ==
  /\ mem \in [ProcsOf(test) -> [RegionsOf(test) -> Contents]]
  /\ closed \subseteq RegionsOf(test)
  /\ mask \in [ProcsOf(test) -> Mask]
  /\ Cardinality(struck) <= MaxFaults

\* f gives contents to some of the regions.
IsPatch(f) ==
  /\ f = [r \in DOMAIN f |-> f[r]] /\ DOMAIN f \subseteq RegionsOf(test)
  /\ \A r \in DOMAIN f : f[r] \in Contents

LEMMA FilledIsPatch ==
  ASSUME NEW R, NEW v, R \subseteq RegionsOf(test), v \in Contents
  PROVE  IsPatch(Filled(R, v)) /\ DOMAIN Filled(R, v) = R /\ \A r \in R : Filled(R, v)[r] = v
  BY DEF IsPatch, Filled

LEMMA NothingIsPatch == IsPatch(Nothing) /\ DOMAIN Nothing = {}
  BY DEF IsPatch, Nothing, Filled

LEMMA OverIs ==
  ASSUME NEW f, NEW g
  PROVE  /\ DOMAIN Over(f, g) = DOMAIN f \cup DOMAIN g
         /\ \A r \in DOMAIN f : Over(f, g)[r] = f[r]
         /\ \A r \in DOMAIN g \ DOMAIN f : Over(f, g)[r] = g[r]
  BY DEF Over

LEMMA OverIsPatch ==
  ASSUME NEW f, NEW g, IsPatch(f), IsPatch(g)
  PROVE  IsPatch(Over(f, g))
  BY DEF IsPatch, Over

LEMMA OverType ==
  ASSUME NEW f, IsPatch(f), NEW g \in [RegionsOf(test) -> Contents]
  PROVE  Over(f, g) \in [RegionsOf(test) -> Contents]
  BY DEF IsPatch, Over

LEMMA ChangedType ==
  ASSUME NEW f, IsPatch(f), NEW Q, Procs = ProcsOf(test), MemoryOK
  PROVE  Changed(Q, f) \in [ProcsOf(test) -> [RegionsOf(test) -> Contents]]
  <1>1. \A q \in ProcsOf(test) : Over(f, mem[q]) \in [RegionsOf(test) -> Contents]
    BY OverType DEF MemoryOK
  <1> QED
    BY <1>1 DEF Changed, MemoryOK

LEMMA DamageIs ==
  ASSUME ControlOK, NEW p \in Procs, NEW d \in Damage(p)
  PROVE  d.at \subseteq RegionsOf(test) /\ d.at \subseteq Here(p).keeps
         /\ (d.fault = "none" <=> d.at = {}) /\ d.fault \in {"none", "corrupt"}
  BY HereIs DEF Damage, Possible, Here, Current, WellFormed

LEMMA BecomesType ==
  ASSUME ControlOK, MemoryOK, NEW p \in Procs, NEW d \in Damage(p), NEW R, NEW f,
         IsPatch(f), Becomes(p, R, f, d)
  PROVE  mem' \in [ProcsOf(test) -> [RegionsOf(test) -> Contents]]
  <1>1. IsPatch(Filled(d.at, "bad"))
    BY DamageIs, FilledIsPatch DEF Contents
  <1> QED
    BY <1>1, OverIsPatch, ChangedType, HereIs DEF Becomes

\* What the mask becomes has the right type.
LEMMA MaskAnswers ==
  ASSUME NEW m \in Mask
  PROVE  /\ \A a \in Enable(m) : a.mask \in Mask
         /\ \A a \in Disable(m) : a.mask \in Mask
         /\ \A a \in Fork(m) : a.parent \in Mask /\ a.child \in Mask
  BY DEF Enable, Disable, Fork, Possible, Mask

\* Every step leaves which program, processes and regions there are.
LEMMA MemoryStep ==
  ASSUME ControlOK, MemoryOK, NEW p, Step(p)
  PROVE  /\ mem' \in [ProcsOf(test) -> [RegionsOf(test) -> Contents]]
         /\ closed' \subseteq RegionsOf(test)
         /\ mask' \in [ProcsOf(test) -> Mask]
         /\ Cardinality(struck') <= MaxFaults
  <1>0. p \in Procs /\ Procs = ProcsOf(test)
    BY StepControl, HereIs
  <1>1. WellFormed(test, p, Here(p))
    BY <1>0, HereIs
  <1>2. mask[p] \in Mask /\ {0, 1} \subseteq Mask
    BY <1>0 DEF MemoryOK, Mask
  <1>m. ASSUME UNCHANGED mem
        PROVE  mem' \in [ProcsOf(test) -> [RegionsOf(test) -> Contents]]
    BY <1>m DEF MemoryOK
  <1>s. ASSUME UNCHANGED struck \/ \E f : Strike(f)
        PROVE  Cardinality(struck') <= MaxFaults
    BY <1>s DEF MemoryOK, Strike
  <1>k. ASSUME NEW f, NEW keep \in Possible({[mask |-> 0, fault |-> "none"],
                                            [mask |-> mask[p], fault |-> f]})
        PROVE  keep.mask \in {0, mask[p]}
    BY <1>k DEF Possible
  <1> USE <1>0
  <1>3. CASE EnableReplication(p) \/ DisableReplication(p)
    BY <1>2, <1>3, <1>s, MaskAnswers, NothingIsPatch, BecomesType
    DEF EnableReplication, DisableReplication, MemoryOK
  <1>4. CASE EnableInvalid(p)
    BY <1>2, <1>4, <1>m, <1>s DEF EnableInvalid, MemoryOK, memory
  <1>5. CASE QueryReplication(p)
    BY <1>5, <1>m, <1>s DEF QueryReplication, MemoryOK, memory
  <1>6. CASE MapMemory(p)
    <2>1. Here(p).at \subseteq RegionsOf(test)
      BY <1>1 DEF WellFormed
    <2>2. CASE UNCHANGED mem
      BY <1>6, <1>m, <1>s, <2>2 DEF MapMemory, MemoryOK
    <2>3. ASSUME NEW a \in Mapped(p, Here(p).val), NEW d \in Damage(p),
                 Becomes(p, Here(p).at, Filled(Here(p).at, a.val), d), Here(p).do = "map"
          PROVE  mem' \in [ProcsOf(test) -> [RegionsOf(test) -> Contents]]
      <3>1. a.val \in Contents
        <4>1. Here(p).val \in RegionsOf(test) \/ Here(p).val \in Contents
          BY <1>1, <2>3 DEF WellFormed
        <4>2. Regions = RegionsOf(test)
          BY ScriptsWellFormed DEF MemoryOK, ControlOK, Regions
        <4>3. mem[p] \in [RegionsOf(test) -> Contents]
          BY DEF MemoryOK
        <4> QED
          BY <4>1, <4>2, <4>3 DEF Mapped, Possible, Contents
      <3> QED
        BY <2>1, <2>3, <3>1, FilledIsPatch, BecomesType
    <2> QED
      BY <1>6, <1>m, <1>s, <2>2, <2>3 DEF MapMemory, MemoryOK, Current, Here, Doing
  <1>7. CASE WriteMemory(p)
    <2>1. Here(p).at \subseteq RegionsOf(test)
      BY <1>1 DEF WellFormed
    <2>2. Here(p).val \in Contents
      BY <1>1, <1>7 DEF WellFormed, WriteMemory, Doing, Current, Here
    <2>3. ASSUME NEW a \in Arriving(p, Here(p).at, Here(p).val), NEW d \in Damage(p)
          PROVE  IsPatch(Over(Filled(d.at, "bad"), Filled(a.at, Here(p).val)))
      <3>1. a.at \subseteq RegionsOf(test)
        BY <2>1, <2>3 DEF Arriving, Possible
      <3>2. d.at \subseteq RegionsOf(test)
        BY <2>3, DamageIs
      <3> QED
        BY <2>2, <3>1, <3>2, FilledIsPatch, OverIsPatch DEF Contents
    <2>4. mem' \in [ProcsOf(test) -> [RegionsOf(test) -> Contents]]
      BY <1>7, <2>3, ChangedType DEF WriteMemory, Current, Here
    <2> QED
      BY <1>7, <1>s, <2>4 DEF WriteMemory, MemoryOK
  <1>8. CASE CheckMemory(p) \/ WaitForProcess(p) \/ Await(p)
    BY <1>8, <1>m, <1>s DEF CheckMemory, WaitForProcess, Await, MemoryOK, memory
  <1>9. CASE UnmapMemory(p)
    <2>1. Here(p).at \subseteq RegionsOf(test)
      BY <1>1 DEF WellFormed
    <2>2. IsPatch(Filled(Here(p).at, "none"))
      BY <2>1, FilledIsPatch DEF Contents
    <2>3. mem' \in [ProcsOf(test) -> [RegionsOf(test) -> Contents]]
      BY <1>9, <2>2, NothingIsPatch, BecomesType DEF UnmapMemory, Current, Here
    <2> QED
      BY <1>9, <1>s, <2>3 DEF UnmapMemory, MemoryOK
  <1>10. CASE DropMemory(p)
    <2>1. Here(p).at \subseteq RegionsOf(test)
      BY <1>1 DEF WellFormed
    <2>2. ASSUME NEW stale PROVE IsPatch(Filled(Here(p).at \ stale, "zero"))
      BY <2>1, FilledIsPatch DEF Contents
    <2>3. mem' \in [ProcsOf(test) -> [RegionsOf(test) -> Contents]]
      BY <1>10, <1>m, <2>2, BecomesType DEF DropMemory, Current, Here
    <2> QED
      BY <1>10, <1>s, <2>3 DEF DropMemory, MemoryOK
  <1>11. CASE ProtectMemory(p)
    BY <1>1, <1>11, <1>m, <1>s DEF ProtectMemory, MemoryOK, WellFormed, Current, Here
  <1>12. CASE MoveMemory(p)
    <2> DEFINE s == Here(p)
               f == [r \in s.at \cup {s.val} |->
                       IF r \in s.at THEN "none" ELSE mem[p][CHOOSE q \in s.at : TRUE]]
    <2>1. s.at \subseteq RegionsOf(test) /\ s.at # {} /\ s.val \in RegionsOf(test)
      BY <1>1, <1>12 DEF WellFormed, MoveMemory, Doing, Current, Here
    <2>2. mem[p][CHOOSE q \in s.at : TRUE] \in Contents
      BY <2>1 DEF MemoryOK
    <2>3. IsPatch(f)
      BY <2>1, <2>2 DEF IsPatch, Contents
    <2>4. mem' \in [ProcsOf(test) -> [RegionsOf(test) -> Contents]]
      <3>1. PICK d \in Damage(p) : Becomes(p, s.at, f, d) \/ Becomes(p, s.at, Nothing, d)
        BY <1>12 DEF MoveMemory, Current, Here
      <3> HIDE DEF f, s
      <3> QED
        BY <2>3, <3>1, NothingIsPatch, BecomesType
    <2> QED
      BY <1>12, <1>s, <2>4 DEF MoveMemory, MemoryOK
  <1>13. CASE OtherCall(p)
    BY <1>13, <1>s, NothingIsPatch, BecomesType DEF OtherCall, MemoryOK
  <1>14. CASE LowerLimit(p) \/ RestoreLimit(p) \/ CreateThread(p)
    BY <1>14, <1>m, <1>s DEF LowerLimit, RestoreLimit, CreateThread, MemoryOK, memory
  <1>15. CASE ForkProcess(p)
    <2> DEFINE k == Here(p).val
    <2>1. Here(p).at \subseteq RegionsOf(test) /\ k \in ProcsOf(test)
      BY <1>1, <1>15
      DEF WellFormed, ForkProcess, Doing, Current, Here, MakesProcess
    <2>2. mem[p] \in [RegionsOf(test) -> Contents]
      BY DEF MemoryOK
    <2>3. ASSUME NEW R, R \subseteq RegionsOf(test)
          PROVE  Over(Filled(R, "bad"), mem[p]) \in [RegionsOf(test) -> Contents]
      <3>1. IsPatch(Filled(R, "bad"))
        BY <2>3, FilledIsPatch DEF Contents
      <3> QED
        BY <2>2, <3>1, OverType
    <2>4. PICK a \in Fork(mask[p]), d \in Damage(p),
               c \in Possible({[at |-> {}, fault |-> "none"]}
                       \cup {[at |-> {r}, fault |-> "badCopy"] : r \in Here(p).at}) :
            /\ mask' = [mask EXCEPT ![p] = a.parent, ![k] = a.child]
            /\ \/ mem' = [mem EXCEPT ![p] = Over(Filled(d.at, "bad"), mem[p]),
                                      ![k] = Over(Filled(c.at, "bad"), mem[p])]
               \/ UNCHANGED mem
      BY <1>15 DEF ForkProcess, Current, Here
    <2>5. c.at \subseteq RegionsOf(test) /\ d.at \subseteq RegionsOf(test)
      BY <2>1, <2>4, DamageIs DEF Possible
    <2>6. mem' \in [ProcsOf(test) -> [RegionsOf(test) -> Contents]]
      BY <1>m, <2>1, <2>3, <2>4, <2>5 DEF MemoryOK
    <2>7. mask' \in [ProcsOf(test) -> Mask]
      BY <1>2, <2>1, <2>4, MaskAnswers DEF MemoryOK
    <2> QED
      BY <1>15, <1>s, <2>6, <2>7 DEF ForkProcess, MemoryOK
  <1>16. CASE CloneVM(p)
    <2>1. Here(p).val \in ProcsOf(test)
      BY <1>1, <1>16 DEF WellFormed, CloneVM, Doing, Current, Here, MakesProcess
    <2>2. mem' \in [ProcsOf(test) -> [RegionsOf(test) -> Contents]]
      BY <1>16, <1>m, <2>1 DEF CloneVM, MemoryOK, Current, Here
    <2>3. mask' \in [ProcsOf(test) -> Mask]
      <3>1. CASE UNCHANGED mask
        BY <3>1 DEF MemoryOK
      <3>2. ASSUME NEW m, m \in {0, mask[p]},
                   mask' = [mask EXCEPT ![p] = m, ![Here(p).val] = m]
            PROVE  mask' \in [ProcsOf(test) -> Mask]
        BY <1>2, <2>1, <3>2 DEF MemoryOK
      <3> QED
        BY <1>16, <1>k, <3>1, <3>2 DEF CloneVM, Current, Here
    <2> QED
      BY <1>16, <1>s, <2>2, <2>3 DEF CloneVM, MemoryOK
  <1>17. CASE Exec(p)
    <2>1. Regions = RegionsOf(test)
      BY ScriptsWellFormed DEF MemoryOK, ControlOK, Regions
    <2>2. Filled(Regions, "none") \in [RegionsOf(test) -> Contents]
      BY <2>1 DEF Filled, Contents
    <2>3. mem' \in [ProcsOf(test) -> [RegionsOf(test) -> Contents]]
      BY <1>17, <1>m, <2>2 DEF Exec, MemoryOK
    <2>4. mask' \in [ProcsOf(test) -> Mask]
      <3>1. CASE UNCHANGED mask
        BY <3>1 DEF MemoryOK
      <3>2. ASSUME NEW m, m \in {0, mask[p]}, mask' = [mask EXCEPT ![p] = m]
            PROVE  mask' \in [ProcsOf(test) -> Mask]
        BY <1>2, <3>2 DEF MemoryOK
      <3> QED
        BY <1>17, <1>k, <3>1, <3>2 DEF Exec
    <2> QED
      BY <1>17, <1>s, <2>3, <2>4 DEF Exec, MemoryOK
  <1>18. CASE CheckNodes(p) \/ Judge(p) \/ Return(p)
    BY <1>18, <1>m, <1>s DEF CheckNodes, Judge, Return, MemoryOK, memory
  <1> QED
    BY <1>3, <1>4, <1>5, <1>6, <1>7, <1>8, <1>9, <1>10, <1>11, <1>12, <1>13, <1>14, <1>15,
       <1>16, <1>17, <1>18 DEF Step

LEMMA MemoryInit == Init => MemoryOK
  <1> SUFFICES ASSUME Init PROVE MemoryOK
    OBVIOUS
  <1>1. Procs = ProcsOf(test)
    BY DEF Init, Procs
  <1>2. Cardinality(struck) <= MaxFaults
    BY MaxFaultsAssumption, FS_EmptySet DEF Init
  <1> QED
    BY <1>1, <1>2 DEF Init, MemoryOK, Contents, Mask

\* The death of a child is all that ChildKilled does.
LEMMA KilledIs ==
  ASSUME ControlOK, MemoryOK, NEW k, ChildKilled(k)
  PROVE  /\ k \in Procs \ {"main"} /\ state[k] = "running" /\ test # "test3"
         /\ state' = [state EXCEPT ![k] = "killed"]
         /\ UNCHANGED <<test, todo, pass, printed, memory, mask, lowered>>
         /\ ControlOK' /\ MemoryOK'
  <1>1. /\ k \in Procs \ {"main"} /\ state[k] = "running" /\ test # "test3"
        /\ state' = [state EXCEPT ![k] = "killed"]
        /\ UNCHANGED <<test, todo, pass, printed, memory, mask, lowered>>
        /\ UNCHANGED struck \/ Strike({"killed"})
    BY DEF ChildKilled, EndAs
  <1>2. ControlOK'
    BY <1>1 DEF ControlOK, Placed, Procs
  <1>3. MemoryOK'
    BY <1>1 DEF MemoryOK, memory, Strike
  <1> QED
    BY <1>1, <1>2, <1>3

\* No step changes the program.
LEMMA TestStays ==
  ASSUME ControlOK, NEW p, Step(p)
  PROVE  UNCHANGED <<test, Procs>>
  <1>1. UNCHANGED test
    BY StepControl, WrongIs
    DEF Works, Fails, Makes, Refuses, Stops, Sleeps, GoTo, Started, EndAs
  <1> QED
    BY <1>1, ControlStep DEF ControlOK, Procs

LEMMA TypedNext == ControlOK /\ MemoryOK /\ [Next]_vars => ControlOK' /\ MemoryOK'
  <1> SUFFICES ASSUME ControlOK, MemoryOK, [Next]_vars PROVE ControlOK' /\ MemoryOK'
    OBVIOUS
  <1>1. ASSUME NEW p, Step(p) PROVE ControlOK' /\ MemoryOK'
    BY <1>1, ControlStep, MemoryStep, TestStays DEF MemoryOK
  <1>2. ASSUME NEW k, ChildKilled(k) PROVE ControlOK' /\ MemoryOK'
    BY <1>2, KilledIs
  <1>3. CASE UNCHANGED vars
    BY <1>3 DEF vars, control, memory, ControlOK, MemoryOK, Placed, Procs
  <1> QED
    BY <1>1, <1>2, <1>3 DEF Next, Done

LEMMA TypedInit == Init => ControlOK /\ MemoryOK
  BY ControlInit, MemoryInit

\* Every variable keeps its type: no process runs past the end of its script,
\* wherever its failures make it jump to.
THEOREM TypeCorrect == Spec => []TypeOK
  <1>1. ControlOK /\ MemoryOK => TypeOK
    <2> SUFFICES ASSUME ControlOK, MemoryOK PROVE TypeOK
      OBVIOUS
    <2>1. Procs = ProcsOf(test) /\ Regions = RegionsOf(test)
      BY ScriptsWellFormed DEF ControlOK, MemoryOK, Procs, Regions
    <2>2. \A p \in Procs : todo[p] # <<>>
      BY <2>1, ScriptsWellFormed DEF ControlOK, Placed
    <2> QED
      BY <2>1, <2>2 DEF ControlOK, MemoryOK, TypeOK, Limits
  <1> QED
    BY <1>1, TypedInit, TypedNext, PTL DEF Spec

-----------------------------------------------------------------------------
(***************************************************************************)
(* Limits: lowered is what the rest of the script is to set back.          *)
(***************************************************************************)
LimitsOwed ==
  /\ state["main"] = "running" => lowered = Owed(todo["main"])
  /\ state["main"] \in {"ok", "failed"} => lowered = {}
  /\ Cardinality(lowered) <= 1

LEMMA OwedInit == Init => LimitsOwed
  <1> SUFFICES ASSUME Init PROVE LimitsOwed
    OBVIOUS
  <1>1. test \in Tests /\ "main" \in ProcsOf(test)
    BY ScriptsWellFormed DEF Init
  <1>2. Owed(todo["main"]) = {}
    BY <1>1, LimitsAreOwed DEF Init
  <1> QED
    BY <1>1, <1>2, FS_EmptySet DEF Init, LimitsOwed

LEMMA OwedMain ==
  ASSUME ControlOK, LimitsOwed, Step("main")
  PROVE  LimitsOwed'
  <1> DEFINE u == todo["main"]
             s == Head(u)
  <1>0. /\ "main" \in Procs /\ state["main"] = "running"
        /\ \/ Works("main") \/ Fails("main") \/ Makes("main")
           \/ Refuses("main") \/ Stops("main") \/ Sleeps("main")
    BY StepControl
  <1>1. u \in Rests(test, "main") /\ test \in Tests
    BY <1>0, HereIs
  <1>2. /\ Cardinality(Owed(u)) <= 1
        /\ s.do \in {"numa", "end"} => Owed(u) = {}
        /\ s.do # "end" =>
             /\ Owed(After(u, 1)) = CASE s.do = "lower" -> Owed(u) \cup {s.val}
                                      [] s.do = "restore" -> Owed(u) \ {s.val}
                                      [] OTHER -> Owed(u)
             /\ s.bad \in {"abort", "kill"} => Owed(u) = {}
             /\ ~Ending(u) /\ s.do # "restore" => Owed(WrongRest(u)) = Owed(u)
        /\ s.do = "cloneVM" => Owed(After(u, 1 + s.skip)) = Owed(u)
    BY <1>1, LimitsAreOwed
  <1>3. lowered = Owed(u)
    BY <1>0 DEF LimitsOwed
  <1>4. ASSUME NEW v \in Rests(test, "main"), GoTo("main", v), lowered' = Owed(v)
        PROVE  LimitsOwed'
    <2>1. Cardinality(Owed(v)) <= 1
      BY <1>1, LimitsAreOwed
    <2>2. todo'["main"] = v /\ state'["main"] = "running"
      BY <1>0, <1>4 DEF GoTo, ControlOK, Placed, Procs
    <2> QED
      BY <1>4, <2>1, <2>2 DEF LimitsOwed
  <1>5. ASSUME UNCHANGED lowered, state'["main"] # "running",
               state'["main"] \in {"ok", "failed"} => lowered = {}
        PROVE  LimitsOwed'
    BY <1>5 DEF LimitsOwed
  <1>6. /\ s.do # "end" => /\ After(u, 1) \in Rests(test, "main")
                           /\ ~Ending(u) => WrongRest(u) \in Rests(test, "main")
        /\ s.do = "cloneVM" => After(u, 1 + s.skip) \in Rests(test, "main")
    BY <1>0, HereIs DEF Here
  <1> HIDE DEF u, s
  <1>7. CASE Works("main")
    BY <1>2, <1>3, <1>4, <1>6, <1>7 DEF Works, Here, u, s
  <1>8. CASE Fails("main")
    <2>1. s.do \notin {"end", "restore"} /\ UNCHANGED lowered
      BY <1>8 DEF Fails, Here, u, s
    <2>2. CASE ~Ending(u) /\ GoTo("main", WrongRest(u))
      BY <1>2, <1>3, <1>4, <1>6, <2>1, <2>2
    <2>3. CASE s.bad \in {"abort", "kill", "die"} /\ state' # state
      <3>1. /\ state'["main"] \in {"failed", "killed"}
            /\ s.bad = "die" => state'["main"] = "killed"
        BY <1>0, <1>8, <2>3, WrongIs DEF Fails, Here, GoTo, ControlOK, Procs, u, s
      <3> QED
        BY <1>2, <1>3, <1>5, <2>1, <2>3, <3>1
    <2>4. \/ ~Ending(u) /\ GoTo("main", WrongRest(u))
          \/ s.bad \in {"abort", "kill", "die"} /\ state' # state
      BY <1>0, <1>8, WrongIs DEF Fails, Here, Ending, ControlOK, Procs, u, s
    <2> QED
      BY <2>2, <2>3, <2>4
  <1>9. CASE Makes("main")
    <2>1. /\ todo'["main"] = After(u, 1) /\ UNCHANGED lowered
          /\ s.do \in MakesProcess
          /\ state'["main"] = "running"
      BY <1>0, <1>9 DEF Makes, Started, Advance, Here, ControlOK, Placed, Procs, u, s
    <2>2. Owed(After(u, 1)) = Owed(u)
      BY <1>2, <2>1 DEF MakesProcess
    <2> QED
      BY <1>2, <1>3, <2>1, <2>2 DEF LimitsOwed
  <1>10. CASE Refuses("main")
    BY <1>2, <1>3, <1>4, <1>6, <1>10 DEF Refuses, Here, u, s
  <1>11. CASE Stops("main")
    <2>1. /\ state'["main"] \in {"ok", "failed"} /\ UNCHANGED lowered
          /\ s.do \in {"numa", "end"}
      BY <1>0, <1>11 DEF Stops, EndAs, Here, ControlOK, Procs, u, s
    <2> QED
      BY <1>2, <1>3, <1>5, <2>1
  <1>12. CASE Sleeps("main")
    BY <1>12 DEF Sleeps, LimitsOwed
  <1> QED
    BY <1>0, <1>7, <1>8, <1>9, <1>10, <1>11, <1>12

\* What a step of the child p leaves alone: the limits and the other processes.
LEMMA ChildStep ==
  ASSUME ControlOK, NEW p, Step(p), p # "main"
  PROVE  /\ ~Makes(p) /\ ~Refuses(p) /\ Here(p).do \notin WaitsFor /\ UNCHANGED lowered
         /\ \A q \in Procs \ {p} : /\ state'[q] = state[q] /\ todo'[q] = todo[q]
                                   /\ pass'[q] = pass[q]
         /\ state'[p] # "absent" /\ state[p] = "running"
         /\ "main" \in Procs /\ p \in Procs
  <1>0. /\ p \in Procs /\ "main" \in Procs /\ state[p] = "running"
        /\ Works(p) \/ Fails(p) \/ Makes(p) \/ Refuses(p) \/ Stops(p) \/ Sleeps(p)
        /\ WellFormed(test, p, Here(p))
    BY StepControl, HereIs, ScriptsWellFormed
  <1>1. /\ Here(p).do \notin MakesProcess \cup WaitsFor \cup {"lower", "restore", "cloneVM"}
    BY <1>0 DEF WellFormed, MakesProcess
  <1>2. ~Makes(p) /\ ~Refuses(p)
    BY <1>1 DEF Makes, Refuses
  <1>3. todo = [q \in Procs |-> todo[q]] /\ state = [q \in Procs |-> state[q]]
        /\ pass = [q \in Procs |-> pass[q]]
    BY DEF ControlOK, Placed, Procs
  <1>4. UNCHANGED lowered
    BY <1>0, <1>1, <1>2 DEF Works, Fails, Stops, Sleeps
  <1>5. /\ \A q \in Procs \ {p} : /\ state'[q] = state[q] /\ todo'[q] = todo[q]
                                  /\ pass'[q] = pass[q]
        /\ state'[p] # "absent"
    <2>1. CASE Works(p)
      BY <1>0, <1>3, <2>1 DEF Works, GoTo
    <2>2. CASE Fails(p)
      BY <1>0, <1>1, <1>3, <2>2, WrongIs DEF Fails, GoTo
    <2>3. CASE Stops(p)
      BY <1>0, <1>3, <2>3 DEF Stops, EndAs
    <2> QED
      BY <1>0, <1>2, <2>1, <2>2, <2>3 DEF Sleeps
  <1> QED
    BY <1>0, <1>1, <1>2, <1>4, <1>5

LEMMA OwedNext == ControlOK /\ MemoryOK /\ LimitsOwed /\ [Next]_vars => LimitsOwed'
  <1> SUFFICES ASSUME ControlOK, MemoryOK, LimitsOwed, [Next]_vars PROVE LimitsOwed'
    OBVIOUS
  <1>1. ASSUME NEW p, Step(p) PROVE LimitsOwed'
    BY <1>1, OwedMain, ChildStep DEF LimitsOwed
  <1>2. ASSUME NEW k, ChildKilled(k) PROVE LimitsOwed'
    <2>1. state'["main"] = state["main"] /\ UNCHANGED <<todo, lowered>>
      BY <1>2, KilledIs, ScriptsWellFormed DEF ControlOK
    <2> QED
      BY <2>1 DEF LimitsOwed
  <1>3. CASE UNCHANGED vars
    BY <1>3 DEF vars, control, LimitsOwed
  <1> QED
    BY <1>1, <1>2, <1>3 DEF Next, Done

\* test31 lowers one limit at a time and no path out of it leaves one lowered,
\* whatever call fails and however many.
THEOREM LimitsAreRestored == Spec => []LimitsRestored
  <1>1. LimitsOwed => LimitsRestored
    BY DEF LimitsOwed, LimitsRestored
  <1> QED
    BY <1>1, TypedInit, TypedNext, OwedInit, OwedNext, PTL DEF Spec

-----------------------------------------------------------------------------
(***************************************************************************)
(* Processes: those that main has still to make are absent; while nothing  *)
(* has failed in main, those that it has waited for have ended as it       *)
(* accepts.                                                                *)
(***************************************************************************)
Children == Procs \ {"main"}

Awaited ==
  /\ state["main"] = "running" =>
       /\ \A k \in Children \cap ToMake(todo["main"]) : state[k] = "absent"
       /\ pass["main"] =>
            \A k \in Children \ Pending(todo["main"]) : state[k] \in Accepted(test, k)
  /\ todo["main"] = Script[test]["main"] => pass["main"]
  /\ state["main"] = "ok" => pass["main"] /\ \A k \in Children : state[k] \in Accepted(test, k)
  /\ \A k \in Children : Blameless(test, k) => pass[k] /\ state[k] \notin {"failed", "killed"}

LEMMA AwaitedInit == Init => Awaited
  <1> SUFFICES ASSUME Init PROVE Awaited
    OBVIOUS
  <1>1. test \in Tests /\ Procs = ProcsOf(test) /\ "main" \in Procs
    BY ScriptsWellFormed DEF Init, Procs
  <1>2. Children \subseteq ToMake(todo["main"])
    BY <1>1, ProcessesAreAwaited DEF Init, Children
  <1>3. Children \subseteq Pending(todo["main"])
    BY <1>2 DEF Pending
  <1> QED
    BY <1>1, <1>2, <1>3 DEF Init, Awaited, Children

\* main goes on at u, and has not noticed a failure.
LEMMA AwaitedGoesOn ==
  ASSUME Awaited, state["main"] = "running", "main" \in Procs, pass["main"] \in BOOLEAN,
         NEW u, u # Script[test]["main"], UNCHANGED Procs, pass'["main"] => pass["main"],
         todo'["main"] = u, UNCHANGED <<test, state>>,
         \A k \in Children : pass'[k] = pass[k],
         ToMake(u) \subseteq ToMake(todo["main"]),
         pass'["main"] =>
           \A k \in Children \cap (Pending(todo["main"]) \ Pending(u)) :
             state[k] \in Accepted(test, k)
  PROVE  Awaited'
  BY DEF Awaited, Children

LEMMA AwaitedMain ==
  ASSUME ControlOK, Awaited, Step("main")
  PROVE  Awaited'
  <1> DEFINE u == todo["main"]
             s == Head(u)
  <1>0. /\ "main" \in Procs /\ state["main"] = "running"
        /\ \/ Works("main") \/ Fails("main") \/ Makes("main")
           \/ Refuses("main") \/ Stops("main") \/ Sleeps("main")
    BY StepControl
  <1>1. u \in Rests(test, "main") /\ test \in Tests /\ Procs = ProcsOf(test)
    BY <1>0, HereIs
  <1>2. UNCHANGED <<test, Procs>>
    BY TestStays
  <1>3. /\ s.do = "end" => Pending(u) = {}
        /\ s.do = "numa" => u = Script[test]["main"]
        /\ s.do # "end" =>
             /\ After(u, 1) # Script[test]["main"]
             /\ ~Ending(u) => /\ WrongRest(u) # Script[test]["main"]
                              /\ ToMake(WrongRest(u)) \subseteq ToMake(u)
             /\ Pending(u) \ Pending(After(u, 1)) \subseteq AwaitedBy(s)
             /\ s.do \notin MakesProcess => ToMake(After(u, 1)) = ToMake(u)
             /\ s.bad \in {"ignore", "print"} =>
                  Pending(u) \ Pending(WrongRest(u)) \subseteq AwaitedBy(s)
        /\ s.do \in MakesProcess =>
             /\ s.val \in ToMake(u) /\ s.val \in Pending(After(u, 1))
             /\ ToMake(After(u, 1)) = ToMake(u) \ {s.val}
        /\ s.do = "waitExit" => "killed" \in Accepted(test, s.val)
        /\ s.do \in WaitsFor /\ s.bad \in {"ignore", "print"} =>
             {"failed", "killed"} \subseteq Accepted(test, s.val) \/ Blameless(test, s.val)
    BY <1>1, ProcessesAreAwaited
  <1>4. s.do = "cloneVM" =>
          /\ After(u, 1 + s.skip) # Script[test]["main"]
          /\ ToMake(After(u, 1 + s.skip)) = ToMake(u) \ {s.val}
          /\ Pending(u) \ Pending(After(u, 1 + s.skip)) = {s.val}
          /\ s.val \in ToMake(u)
    BY <1>1, ProcessesAreAwaited DEF MakesProcess
  <1>5. todo = [q \in Procs |-> todo[q]] /\ state = [q \in Procs |-> state[q]]
        /\ pass = [q \in Procs |-> pass[q]] /\ \A q \in Procs : pass[q] \in BOOLEAN
    BY <1>1 DEF ControlOK, Placed
  <1>6. \A k \in Procs : {"absent", "ok"} \subseteq Accepted(test, k)
    BY DEF Accepted
  <1>w. s.do \in WaitsFor => s.val \in Children
    BY <1>0, <1>1, HereIs DEF WellFormed, Here, Children
  <1> HIDE DEF u, s
  <1>7. CASE Works("main")
    <2>1. /\ s.do \notin MakesProcess \cup {"end"}
          /\ s.do = "wait" => state[s.val] = "ok"
          /\ s.do = "waitExit" => state[s.val] \in {"ok", "killed"}
          /\ todo'["main"] = After(u, 1) /\ UNCHANGED <<test, state, pass>>
      BY <1>0, <1>5, <1>7 DEF Works, GoTo, Here, u, s
    <2>2. \A k \in Children \cap (Pending(u) \ Pending(After(u, 1))) :
            state[k] \in Accepted(test, k)
      BY <1>3, <1>6, <2>1 DEF AwaitedBy, WaitsFor, Children
    <2> QED
      BY <1>0, <1>2, <1>3, <1>5, <2>1, <2>2, AwaitedGoesOn DEF u
  <1>8. CASE Fails("main")
    <2>1. s.do # "end" /\ (s.do \in WaitsFor => Ended(s.val))
      BY <1>8 DEF Fails, Here, u, s
    <2>2. CASE ~Ending(u) /\ GoTo("main", WrongRest(u))
               /\ s.bad \in {"ignore", "print"} /\ UNCHANGED pass
      <3>1. todo'["main"] = WrongRest(u) /\ UNCHANGED <<test, state, pass>>
        BY <1>0, <1>5, <2>2 DEF GoTo
      <3>2. ASSUME NEW k \in Children, k \in Pending(u), k \notin Pending(WrongRest(u))
            PROVE  state[k] \in Accepted(test, k)
        <4>1. s.do \in WaitsFor /\ k = s.val
          BY <1>3, <2>1, <2>2, <3>2 DEF AwaitedBy
        <4>2. state[k] \in {"ok", "failed", "killed"}
          BY <2>1, <4>1 DEF Ended
        <4>3. {"failed", "killed"} \subseteq Accepted(test, k) \/ state[k] = "ok"
          BY <1>3, <2>2, <4>1, <4>2 DEF Awaited
        <4> QED
          BY <1>6, <4>2, <4>3 DEF Children
      <3> QED
        BY <1>0, <1>2, <1>3, <1>5, <2>1, <2>2, <3>1, <3>2, AwaitedGoesOn DEF u
    <2>3. CASE ~Ending(u) /\ GoTo("main", WrongRest(u)) /\ pass' = [pass EXCEPT !["main"] = FALSE]
      <3>1. /\ todo'["main"] = WrongRest(u) /\ UNCHANGED <<test, state>>
            /\ ~pass'["main"] /\ \A k \in Children : pass'[k] = pass[k]
        BY <1>0, <1>5, <2>3 DEF GoTo, Children
      <3> QED
        BY <1>0, <1>2, <1>3, <1>5, <2>1, <2>3, <3>1, AwaitedGoesOn DEF u
    <2>4. CASE Ending(u) /\ UNCHANGED <<todo, pass>>
               /\ state' = [state EXCEPT !["main"] = IF s.bad = "die" THEN "killed" ELSE "failed"]
      <3>1. /\ state'["main"] \in {"failed", "killed"}
            /\ \A k \in Children : state'[k] = state[k]
        BY <1>0, <1>5, <2>4 DEF Children
      <3> QED
        BY <1>2, <2>4, <3>1 DEF Awaited, Children
    <2> QED
      BY <1>8, <2>2, <2>3, <2>4, WrongIs DEF Fails, Here, u, s
  <1>9. CASE Makes("main")
    <2>1. /\ s.do \in MakesProcess /\ UNCHANGED <<test, pass>>
          /\ todo'["main"] = After(u, 1)
          /\ state' = [state EXCEPT ![s.val] = "running"]
      BY <1>0, <1>5, <1>9 DEF Makes, Started, Advance, Here, u, s
    <2>2. s.val \in Children
      BY <1>0, <1>1, <2>1, HereIs DEF WellFormed, Here, Children, u, s
    <2>3. s.do # "end" /\ AwaitedBy(s) = {}
      BY <2>1 DEF AwaitedBy, MakesProcess, WaitsFor
    <2>4. state'["main"] = "running" /\ state'[s.val] = "running"
          /\ \A k \in Children \ {s.val} : state'[k] = state[k]
      BY <1>0, <1>5, <2>1, <2>2 DEF Children
    <2>5. Pending(u) \subseteq Pending(After(u, 1)) /\ s.val \in Pending(After(u, 1))
          /\ ToMake(After(u, 1)) = ToMake(u) \ {s.val}
      BY <1>3, <2>1, <2>3
    <2>6. UNCHANGED Children
      BY <1>2 DEF Children
    <2>7. After(u, 1) # Script[test]["main"]
      BY <1>3, <2>3
    <2> QED
      BY <1>0, <2>1, <2>2, <2>4, <2>5, <2>6, <2>7 DEF Awaited, u
  <1>10. CASE Refuses("main")
    <2>1. /\ s.do = "cloneVM" /\ todo'["main"] = After(u, 1 + s.skip)
          /\ UNCHANGED <<test, state, pass>>
      BY <1>0, <1>5, <1>10 DEF Refuses, GoTo, Here, u, s
    <2>2. pass["main"] => \A k \in Children \cap {s.val} : state[k] = "absent"
      BY <1>0, <1>4, <2>1 DEF Awaited, u
    <2>3. pass["main"] =>
            \A k \in Children \cap (Pending(u) \ Pending(After(u, 1 + s.skip))) :
              state[k] \in Accepted(test, k)
      BY <1>4, <1>6, <2>1, <2>2 DEF Children
    <2> QED
      BY <1>0, <1>2, <1>4, <1>5, <2>1, <2>3, AwaitedGoesOn DEF u
  <1>11. CASE Stops("main")
    <2>1. /\ UNCHANGED <<test, todo, pass>> /\ \A k \in Children : state'[k] = state[k]
          /\ \/ s.do = "numa" /\ state'["main"] = "ok"
             \/ s.do = "end" /\ state'["main"] = IF pass["main"] THEN "ok" ELSE "failed"
      BY <1>0, <1>5, <1>11 DEF Stops, EndAs, Here, Children, u, s
    <2>2. CASE s.do = "numa"
      <3>1. u = Script[test]["main"] /\ pass["main"]
        BY <1>3, <2>2 DEF Awaited, u
      <3>2. ToMake(u) = ProcsOf(test) \ {"main"}
        BY <1>1, <3>1, ProcessesAreAwaited
      <3>3. \A k \in Children : state[k] = "absent"
        BY <1>0, <1>1, <3>1, <3>2 DEF Awaited, Children, u
      <3> QED
        BY <1>2, <1>6, <2>1, <3>1, <3>3 DEF Awaited, Children
    <2>3. CASE s.do = "end"
      <3>1. Pending(u) = {}
        BY <1>3, <2>3
      <3>2. pass["main"] => \A k \in Children : state[k] \in Accepted(test, k)
        BY <1>0, <3>1 DEF Awaited, u
      <3>3. state'["main"] = IF pass["main"] THEN "ok" ELSE "failed"
        BY <2>1, <2>3
      <3> QED
        BY <1>2, <2>1, <3>2, <3>3 DEF Awaited, Children
    <2> QED
      BY <2>1, <2>2, <2>3
  <1>12. CASE Sleeps("main")
    BY <1>2, <1>12 DEF Sleeps, Awaited, Children
  <1> QED
    BY <1>0, <1>7, <1>8, <1>9, <1>10, <1>11, <1>12

LEMMA AwaitedChild ==
  ASSUME ControlOK, Awaited, NEW p, Step(p), p # "main"
  PROVE  Awaited'
  <1>1. UNCHANGED <<test, Procs>>
    BY TestStays
  <1>2. /\ \A q \in Procs \ {p} : /\ state'[q] = state[q] /\ todo'[q] = todo[q]
                                  /\ pass'[q] = pass[q]
        /\ state[p] = "running" /\ "main" \in Procs /\ p \in Procs
    BY ChildStep
  <1>3. UNCHANGED Children /\ p \in Children
    BY <1>1, <1>2 DEF Children
  <1>4. "running" \notin Accepted(test, p)
    BY DEF Accepted
  <1>5. ASSUME Blameless(test, p) PROVE pass'[p] /\ state'[p] \notin {"failed", "killed"}
    <2>1. pass[p]
      BY <1>3, <1>5 DEF Awaited
    <2>2. todo[p] \in Rests(test, p) /\ test \in Tests /\ p \in ProcsOf(test)
      BY <1>2, HereIs
    <2>3. Here(p).bad = "ignore" \/ Here(p).do = "end"
      BY <1>5, <2>2, ProcessesAreAwaited DEF Here
    <2>4. todo = [q \in Procs |-> todo[q]] /\ state = [q \in Procs |-> state[q]]
      BY DEF ControlOK, Placed, Procs
    <2>5. Works(p) \/ Fails(p) \/ Stops(p) \/ Sleeps(p)
      BY ChildStep, StepControl
    <2>6. CASE Works(p) \/ Sleeps(p)
      BY <1>2, <2>1, <2>6 DEF Works, Sleeps, GoTo
    <2>7. CASE Fails(p)
      BY <1>2, <2>1, <2>3, <2>7, WrongIs DEF Fails, GoTo, Ending, Here
    <2>8. CASE Stops(p)
      BY <1>2, <2>1, <2>4, <2>8 DEF Stops, EndAs
    <2> QED
      BY <2>5, <2>6, <2>7, <2>8
  <1> QED
    BY <1>1, <1>2, <1>3, <1>4, <1>5 DEF Awaited, Children

LEMMA AwaitedNext == ControlOK /\ MemoryOK /\ Awaited /\ [Next]_vars => Awaited'
  <1> SUFFICES ASSUME ControlOK, MemoryOK, Awaited, [Next]_vars PROVE Awaited'
    OBVIOUS
  <1>1. ASSUME NEW p, Step(p) PROVE Awaited'
    BY <1>1, AwaitedMain, AwaitedChild
  <1>2. ASSUME NEW k, ChildKilled(k) PROVE Awaited'
    <2>1. /\ k \in Children /\ state[k] = "running" /\ test # "test3" /\ "main" \in Procs
          /\ UNCHANGED <<test, todo, pass, Procs>>
      BY <1>2, KilledIs, ScriptsWellFormed DEF Children, ControlOK, Procs
    <2>2. state'[k] = "killed" /\ \A q \in Procs \ {k} : state'[q] = state[q]
      BY <1>2, <2>1, KilledIs DEF ControlOK, Children, Procs
    <2>3. "running" \notin Accepted(test, k)
      BY DEF Accepted
    <2> QED
      BY <2>1, <2>2, <2>3 DEF Awaited, Children, Blameless
  <1>3. CASE UNCHANGED vars
    BY <1>3 DEF vars, control, Awaited, Children, Procs
  <1> QED
    BY <1>1, <1>2, <1>3 DEF Next, Done
-----------------------------------------------------------------------------
(***************************************************************************)
(* The verdict.                                                            *)
(***************************************************************************)

\* What a step does to the ends of main and of its children.
EndsStay ==
  /\ state["main"] # "running" => state'["main"] = state["main"]
  /\ state["main"] = "running" => state'["main"] # "absent"
  /\ ~pass["main"] => ~pass'["main"]
  /\ \A k \in Children : state[k] \in {"failed", "killed"} =>
       state'[k] = state[k] \/ ~pass'["main"]

LEMMA EndsStayMain ==
  ASSUME ControlOK, Awaited, Step("main")
  PROVE  EndsStay
  <1>0. /\ "main" \in Procs /\ state["main"] = "running" /\ Procs = ProcsOf(test)
        /\ \/ Works("main") \/ Fails("main") \/ Makes("main")
           \/ Refuses("main") \/ Stops("main") \/ Sleeps("main")
    BY StepControl DEF ControlOK, Procs
  <1>1. state = [q \in Procs |-> state[q]] /\ pass = [q \in Procs |-> pass[q]]
    BY <1>0 DEF ControlOK
  <1>2. CASE Works("main") \/ Refuses("main") \/ Sleeps("main")
    BY <1>0, <1>2 DEF Works, Refuses, Sleeps, GoTo, EndsStay
  <1>3. CASE Fails("main")
    <2>1. /\ \A k \in Children : state[k] \in {"failed", "killed"} => state'[k] = state[k]
          /\ state'["main"] # "absent"
      <3>1. CASE UNCHANGED state
        BY <1>0, <3>1
      <3>2. CASE state' = [state EXCEPT !["main"] = IF Here("main").bad = "die" THEN "killed"
                                                                                ELSE "failed"]
        BY <1>0, <1>1, <3>2 DEF Children
      <3> QED
        BY <1>3, <3>1, <3>2, WrongIs DEF Fails, GoTo
    <2>2. ~pass["main"] => ~pass'["main"]
      BY <1>0, <1>1, <1>3, WrongIs DEF Fails
    <2> QED
      BY <1>0, <2>1, <2>2 DEF EndsStay
  <1>4. CASE Makes("main")
    <2>1. /\ Here("main").do \in MakesProcess /\ UNCHANGED pass
          /\ state' = [state EXCEPT ![Here("main").val] = "running"]
      BY <1>4 DEF Makes, Started
    <2>2. pass["main"] => state[Here("main").val] = "absent"
      <3>1. todo["main"] \in Rests(test, "main") /\ test \in Tests
            /\ Here("main").val \in Children
        BY <1>0, <2>1, HereIs DEF WellFormed, Children
      <3>2. Here("main").val \in ToMake(todo["main"])
        BY <2>1, <3>1, ProcessesAreAwaited DEF Here
      <3> QED
        BY <1>0, <3>1, <3>2 DEF Awaited
    <2> QED
      BY <1>0, <1>1, <2>1, <2>2 DEF EndsStay, Children
  <1>5. CASE Stops("main")
    BY <1>0, <1>1, <1>5 DEF Stops, EndAs, EndsStay, Children
  <1> QED
    BY <1>0, <1>2, <1>3, <1>4, <1>5

LEMMA EndsStayNext == ControlOK /\ MemoryOK /\ Awaited /\ [Next]_vars => EndsStay
  <1> SUFFICES ASSUME ControlOK, MemoryOK, Awaited, [Next]_vars PROVE EndsStay
    OBVIOUS
  <1>1. ASSUME NEW p, Step(p), p # "main" PROVE EndsStay
    <2>1. /\ \A q \in Procs \ {p} : state'[q] = state[q] /\ pass'[q] = pass[q]
          /\ "main" \in Procs /\ state[p] = "running"
      BY <1>1, ChildStep
    <2> QED
      BY <1>1, <2>1 DEF EndsStay, Children
  <1>2. ASSUME NEW k, ChildKilled(k) PROVE EndsStay
    <2>1. /\ k \in Children /\ state[k] = "running" /\ UNCHANGED pass
          /\ state' = [state EXCEPT ![k] = "killed"]
      BY <1>2, KilledIs DEF Children
    <2>2. state'["main"] = state["main"] /\ \A q \in Children \ {k} : state'[q] = state[q]
      BY <2>1, ScriptsWellFormed DEF ControlOK, Children, Procs
    <2> QED
      BY <2>1, <2>2 DEF EndsStay, Children
  <1>3. CASE UNCHANGED vars
    BY <1>3 DEF vars, control, EndsStay
  <1> QED
    BY <1>1, <1>2, <1>3, EndsStayMain DEF Next, Done

\* A failure, once noticed or not, stays one.
LEMMA FailedStays ==
  ControlOK /\ ControlOK' /\ UNCHANGED test /\ EndsStay /\ Failed => Failed'
  BY DEF Failed, EndsStay, Children, ControlOK, Procs

\* A program that reports success has had no failure.
LEMMA PassedIsRight == Awaited /\ state["main"] = "ok" => ~Failed
  BY DEF Awaited, Failed, Accepted, Children

\* The programs keep the promise of TestVerdict, whatever fails in which of
\* their processes and in whatever order these run: status 0 means that no
\* check has failed, in any process, and that none can fail any more.
THEOREM ScriptsImplementVerdict == Spec => ImplementsVerdict
  <1>1. Init => Verdict!Init
    <2> SUFFICES ASSUME Init PROVE Verdict!Init
      OBVIOUS
    <2>1. "main" \in Procs /\ Procs = ProcsOf(test)
      BY ScriptsWellFormed DEF Init, Procs
    <2> QED
      BY <2>1 DEF Init, Verdict!Init, Failed, ExitVerdict
  <1>2. ControlOK /\ MemoryOK /\ Awaited /\ [Next]_vars => [Verdict!Next]_(Verdict!vars)
    <2> SUFFICES ASSUME ControlOK, MemoryOK, Awaited, [Next]_vars
                 PROVE  [Verdict!Next]_(Verdict!vars)
      OBVIOUS
    <2>1. EndsStay /\ ControlOK' /\ Awaited' /\ UNCHANGED test
      BY EndsStayNext, TypedNext, AwaitedNext, TestStays, KilledIs
      DEF Next, Done, vars, control
    <2>2. /\ Failed => Failed'
          /\ state["main"] = "ok" => ~Failed
      BY <2>1, FailedStays, PassedIsRight
    <2>8. state'["main"] = "ok" => ~Failed'
      BY <2>1 DEF Awaited, Failed, Accepted, Children
    <2>3. state'["main"] \in {"failed", "killed"} => Failed'
      BY DEF Failed
    <2>4. state'["main"] \in {"absent", "running", "ok", "failed", "killed"}
      BY <2>1, ScriptsWellFormed DEF ControlOK
    <2>5. Failed \in BOOLEAN /\ Failed' \in BOOLEAN
      BY DEF Failed
    <2> HIDE DEF Failed
    <2>6. CASE state["main"] # "running"
      <3>1. UNCHANGED ExitVerdict /\ (ExitVerdict = "pass" => ~Failed')
        BY <2>1, <2>2, <2>6, <2>8 DEF EndsStay, ExitVerdict
      <3> HIDE DEF ExitVerdict
      <3> QED
        BY <2>2, <2>5, <3>1 DEF Verdict!Next, Verdict!vars, Verdict!CheckFails
    <2>7. CASE state["main"] = "running"
      <3>1. /\ ExitVerdict = "running" /\ ExitVerdict' \in {"running", "pass", "fail"}
            /\ ExitVerdict' = "pass" => ~Failed'
            /\ ExitVerdict' = "fail" => Failed'
        BY <2>1, <2>3, <2>4, <2>7, <2>8 DEF EndsStay, ExitVerdict
      <3> HIDE DEF ExitVerdict
      <3> QED
        BY <2>2, <2>5, <3>1
        DEF Verdict!Next, Verdict!vars, Verdict!CheckFails, Verdict!Abort, Verdict!Report
    <2> QED
      BY <2>6, <2>7
  <1> QED
    BY <1>1, <1>2, TypedInit, TypedNext, AwaitedInit, AwaitedNext, PTL
    DEF Spec, ImplementsVerdict, Verdict!Spec
-----------------------------------------------------------------------------
(***************************************************************************)
(* Memory: what a process still needs is mapped, for it.                   *)
(***************************************************************************)

\* Nothing that q sees is unmapped.
Stays(q) == \A r \in RegionsOf(test) : mem[q][r] # "none" => mem'[q][r] # "none"

AllStay == \A q \in Procs : Stays(q)

\* The step works; q keeps what it does not take away, and sees what it maps.
WorksOnMemory(p) ==
  LET s == Here(p) IN
  /\ Works(p)
  /\ \A q \in Procs : \A r \in RegionsOf(test) :
       mem[q][r] # "none" =>
         \/ mem'[q][r] # "none"
         \/ /\ r \in Removes(test, s)
            /\ q = p \/ (s.do \in {"unmap", "move"} /\ Sees(test, p, q, s))
  /\ \A r \in Maps(s) : mem'[p][r] # "none"

\* What the step of p touches is mapped.
Touchable(p) == \A r \in Touches(test, Here(p)) : mem[p][r] # "none"

\* A process is made; it sees what its parent does.
MakesInMemory(p) ==
  LET k == Here(p).val IN
  /\ Makes(p)
  /\ \A q \in Procs \ {k} : Stays(q)
  /\ IF Here(p).do = "thread" THEN UNCHANGED mem
     ELSE \A r \in RegionsOf(test) : mem[p][r] # "none" => mem'[k][r] # "none"

LEMMA ChangedIs ==
  ASSUME ControlOK, MemoryOK, NEW Q, NEW f, IsPatch(f), mem' = Changed(Q, f)
  PROVE  \A q \in Procs : \A r \in RegionsOf(test) :
           mem'[q][r] = IF q \in Q /\ r \in DOMAIN f THEN f[r] ELSE mem[q][r]
  <1>1. Procs = ProcsOf(test)
    BY DEF ControlOK, Procs
  <1>2. \A q \in Procs : DOMAIN mem[q] = RegionsOf(test)
    BY <1>1 DEF MemoryOK
  <1> QED
    BY <1>1, <1>2 DEF Changed, Over, IsPatch

\* Of what becomes of the regions that a step changes and of those it damages.
LEMMA BecomesIs ==
  ASSUME ControlOK, MemoryOK, NEW p \in Procs, NEW d \in Damage(p), NEW R, NEW f,
         IsPatch(f), Becomes(p, R, f, d)
  PROVE  /\ \A q \in Procs : \A r \in RegionsOf(test) :
              mem[q][r] # "none" =>
                \/ mem'[q][r] # "none"
                \/ q \in Sharers(p, R) /\ r \in DOMAIN f /\ f[r] = "none" /\ r \notin d.at
         /\ \A r \in DOMAIN f : f[r] # "none" => mem'[p][r] # "none"
  <1> DEFINE g == Over(Filled(d.at, "bad"), f)
  <1>1. IsPatch(Filled(d.at, "bad")) /\ DOMAIN Filled(d.at, "bad") = d.at
        /\ \A r \in d.at : Filled(d.at, "bad")[r] = "bad"
    BY DamageIs, FilledIsPatch DEF Contents
  <1>2. IsPatch(g)
    BY <1>1, OverIsPatch
  <1>3. /\ DOMAIN g = d.at \cup DOMAIN f
        /\ \A r \in DOMAIN g : g[r] = IF r \in d.at THEN "bad" ELSE f[r]
    BY <1>1 DEF Over
  <1>4. p \in Sharers(p, R)
    BY DEF Sharers
  <1>5. DOMAIN f \subseteq RegionsOf(test)
    BY DEF IsPatch
  <1> HIDE DEF g
  <1>6. mem' = Changed(Sharers(p, R), g)
    BY DEF Becomes, g
  <1> QED
    BY <1>2, <1>3, <1>4, <1>5, <1>6, ChangedIs

LEMMA SharersSee ==
  ASSUME ControlOK, NEW p \in Procs, NEW q \in Sharers(p, Here(p).at), q # p
  PROVE  q \in Procs /\ Sees(test, p, q, Here(p))
  BY ScriptsWellFormed DEF Sharers, Sees, ControlOK, Procs

\* What a step does to control and memory.
OnMemory(p) ==
  \/ WorksOnMemory(p) \/ MakesInMemory(p)
  \/ AllStay /\ (Fails(p) \/ Refuses(p) \/ Stops(p) \/ Sleeps(p))

LEMMA UnmapsNothing ==
  ASSUME NEW p, Step(p), AllStay, Here(p).do \notin {"map", "move", "fork", "cloneVM"},
         Here(p).do = "thread" => UNCHANGED mem
  PROVE  OnMemory(p)
  <1>1. CASE Works(p)
    <2>1. Maps(Here(p)) = {}
      BY DEF Maps
    <2> QED
      BY <1>1, <2>1 DEF OnMemory, WorksOnMemory, AllStay, Stays
  <1>2. CASE Makes(p)
    BY <1>2 DEF OnMemory, MakesInMemory, AllStay, Makes, MakesProcess
  <1> QED
    BY <1>1, <1>2, StepControl DEF OnMemory

LEMMA LeavesMemory ==
  ASSUME NEW p, Step(p), UNCHANGED mem,
         Here(p).do \notin {"map", "move", "fork", "cloneVM"}
  PROVE  OnMemory(p)
  BY UnmapsNothing DEF AllStay, Stays

LEMMA MapOnMemory ==
  ASSUME ControlOK, MemoryOK, NEW p \in Procs, Touchable(p), MapMemory(p)
  PROVE  OnMemory(p)
  <1> DEFINE s == Here(p)
  <1>1. WellFormed(test, p, s) /\ s.do = "map"
    BY HereIs DEF MapMemory, Doing, Current, Here
  <1>2. CASE UNCHANGED mem /\ GoesWrong(p)
    BY <1>1, <1>2 DEF OnMemory, AllStay, Stays, Fails, MapMemory, WaitsFor
  <1>3. ASSUME NEW a \in Mapped(p, s.val), NEW d \in Damage(p), Proceed(p),
               Becomes(p, s.at, Filled(s.at, a.val), d)
        PROVE  OnMemory(p)
    <2>1. Works(p)
      BY <1>1, <1>3
      DEF Works, GoTo, Proceed, Advance, MapMemory, MakesProcess
    <2>2. mem[p] \in [RegionsOf(test) -> Contents] /\ Regions = RegionsOf(test)
      BY ScriptsWellFormed DEF MemoryOK, ControlOK, Regions, Procs
    <2>3. a.val \in Contents
      BY <1>1, <1>3, <2>2 DEF Mapped, Possible, WellFormed, Contents
    <2>4. a.val # "none"
      <3>1. s.val \in RegionsOf(test) => mem[p][s.val] # "none"
        BY <1>1 DEF Touchable, Touches, Accesses
      <3> QED
        BY <1>1, <1>3, <2>2, <3>1 DEF Mapped, Possible, WellFormed
    <2>5. s.at \subseteq RegionsOf(test) /\ Maps(s) = s.at
      BY <1>1 DEF WellFormed, Maps
    <2>6. IsPatch(Filled(s.at, a.val)) /\ DOMAIN Filled(s.at, a.val) = s.at
          /\ \A r \in s.at : Filled(s.at, a.val)[r] = a.val
      BY <2>3, <2>5, FilledIsPatch
    <2>7. /\ \A q \in Procs : \A r \in RegionsOf(test) :
               mem[q][r] # "none" => mem'[q][r] # "none"
          /\ \A r \in s.at : mem'[p][r] # "none"
      BY <1>3, <2>4, <2>6, BecomesIs
    <2> QED
      BY <2>1, <2>5, <2>7 DEF OnMemory, WorksOnMemory
  <1> QED
    BY <1>2, <1>3 DEF MapMemory, Current, Here

LEMMA WriteOnMemory ==
  ASSUME ControlOK, MemoryOK, NEW p \in Procs, WriteMemory(p)
  PROVE  OnMemory(p)
  <1> DEFINE s == Here(p)
  <1>1. WellFormed(test, p, s) /\ s.do = "write"
    BY HereIs DEF WriteMemory, Doing, Current, Here
  <1>2. PICK a \in Arriving(p, s.at, s.val), b \in Reaching(p, s.at), d \in Damage(p) :
          mem' = Changed(b.who, Over(Filled(d.at, "bad"), Filled(a.at, s.val)))
    BY DEF WriteMemory, Current, Here
  <1>3. a.at \subseteq RegionsOf(test) /\ s.val \in Contents \ {"none"}
    BY <1>1, <1>2 DEF Arriving, Possible, WellFormed
  <1> DEFINE f == Filled(d.at, "bad")
             g == Filled(a.at, s.val)
  <1>4. IsPatch(f) /\ IsPatch(g)
    BY <1>3, DamageIs, FilledIsPatch DEF Contents
  <1>5. IsPatch(Over(f, g))
    BY <1>4, OverIsPatch
  <1>6. \A r \in DOMAIN Over(f, g) : Over(f, g)[r] # "none"
    BY <1>3 DEF Over, Filled
  <1>7. AllStay
    BY <1>2, <1>5, <1>6, ChangedIs DEF AllStay, Stays
  <1> QED
    BY <1>1, <1>7, UnmapsNothing DEF Step

LEMMA UnmapOnMemory ==
  ASSUME ControlOK, MemoryOK, NEW p \in Procs, UnmapMemory(p)
  PROVE  OnMemory(p)
  <1> DEFINE s == Here(p)
  <1>1. WellFormed(test, p, s) /\ s.do = "unmap"
    BY HereIs DEF UnmapMemory, Doing, Current, Here
  <1>2. PICK a \in Call("unmap"), d \in Damage(p) :
          /\ ProceedIf(p, a.ok)
          /\ Becomes(p, s.at, IF a.ok THEN Filled(s.at, "none") ELSE Nothing, d)
    BY DEF UnmapMemory, Current, Here
  <1>3. s.at \subseteq RegionsOf(test) /\ Maps(s) = {} /\ Removes(test, s) = s.at
    BY <1>1 DEF WellFormed, Maps, Removes
  <1>4. CASE a.ok
    <2>1. Works(p)
      BY <1>1, <1>2, <1>4
      DEF Works, GoTo, ProceedIf, Proceed, Advance, UnmapMemory, MakesProcess
    <2>2. IsPatch(Filled(s.at, "none")) /\ DOMAIN Filled(s.at, "none") = s.at
      BY <1>3, FilledIsPatch DEF Contents
    <2>3. \A q \in Procs : \A r \in RegionsOf(test) :
            mem[q][r] # "none" => mem'[q][r] # "none" \/ (q \in Sharers(p, s.at) /\ r \in s.at)
      BY <1>2, <1>4, <2>2, BecomesIs
    <2> QED
      BY <1>1, <1>3, <2>1, <2>3, SharersSee DEF OnMemory, WorksOnMemory
  <1>5. CASE ~a.ok
    <2>1. AllStay
      BY <1>2, <1>5, NothingIsPatch, BecomesIs DEF AllStay, Stays
    <2> QED
      BY <1>1, <2>1, UnmapsNothing DEF Step
  <1> QED
    BY <1>4, <1>5

LEMMA DropOnMemory ==
  ASSUME ControlOK, MemoryOK, NEW p \in Procs, DropMemory(p)
  PROVE  OnMemory(p)
  <1> DEFINE s == Here(p)
  <1>1. WellFormed(test, p, s) /\ s.do = "drop"
    BY HereIs DEF DropMemory, Doing, Current, Here
  <1>2. ASSUME NEW stale, NEW d \in Damage(p), Becomes(p, s.at, Filled(s.at \ stale, "zero"), d)
        PROVE  AllStay
    <2>1. /\ IsPatch(Filled(s.at \ stale, "zero"))
          /\ DOMAIN Filled(s.at \ stale, "zero") = s.at \ stale
          /\ \A r \in s.at \ stale : Filled(s.at \ stale, "zero")[r] = "zero"
      BY <1>1, FilledIsPatch DEF Contents, WellFormed
    <2> QED
      BY <1>2, <2>1, BecomesIs DEF AllStay, Stays
  <1>3. AllStay
    BY <1>2 DEF DropMemory, Current, Here, AllStay, Stays
  <1> QED
    BY <1>1, <1>3, UnmapsNothing DEF Step

LEMMA MoveOnMemory ==
  ASSUME ControlOK, MemoryOK, NEW p \in Procs, Touchable(p), MoveMemory(p)
  PROVE  OnMemory(p)
  <1> DEFINE s == Here(p)
             v == mem[p][CHOOSE q \in s.at : TRUE]
             f == [r \in s.at \cup {s.val} |-> IF r \in s.at THEN "none" ELSE v]
  <1>1. WellFormed(test, p, s) /\ s.do = "move"
    BY HereIs DEF MoveMemory, Doing, Current, Here
  <1>2. PICK a \in Call("call"), d \in Damage(p) :
          /\ ProceedIf(p, a.ok)
          /\ Becomes(p, s.at, IF a.ok THEN f ELSE Nothing, d)
    BY DEF MoveMemory, Current, Here
  <1>3. /\ s.at \subseteq RegionsOf(test) /\ s.at # {} /\ s.val \in RegionsOf(test)
        /\ Maps(s) = {s.val} \ s.at /\ Removes(test, s) = s.at /\ Touches(test, s) = s.at
    BY <1>1 DEF WellFormed, Maps, Removes, Touches, Accesses
  <1>4. v \in Contents /\ v # "none"
    BY <1>3, ScriptsWellFormed DEF Touchable, MemoryOK, ControlOK, Procs
  <1>5. /\ IsPatch(f) /\ DOMAIN f = s.at \cup {s.val}
        /\ \A r \in DOMAIN f : f[r] = "none" <=> r \in s.at
    BY <1>3, <1>4 DEF IsPatch, Contents
  <1> HIDE DEF f, v, s
  <1>6. CASE a.ok
    <2>1. Works(p)
      BY <1>1, <1>2, <1>6
      DEF Works, GoTo, ProceedIf, Proceed, Advance, MoveMemory, MakesProcess, WaitsFor, s
    <2>2. /\ \A q \in Procs : \A r \in RegionsOf(test) :
               mem[q][r] # "none" => mem'[q][r] # "none" \/ (q \in Sharers(p, s.at) /\ r \in s.at)
          /\ \A r \in Maps(s) : mem'[p][r] # "none"
      BY <1>2, <1>3, <1>5, <1>6, BecomesIs
    <2> QED
      BY <1>1, <1>3, <2>1, <2>2, SharersSee DEF OnMemory, WorksOnMemory, s
  <1>7. CASE ~a.ok
    <2>1. AllStay
      BY <1>2, <1>7, NothingIsPatch, BecomesIs DEF AllStay, Stays
    <2>2. Fails(p)
      BY <1>1, <1>2, <1>7 DEF Fails, ProceedIf, MoveMemory, WaitsFor, s
    <2> QED
      BY <2>1, <2>2 DEF OnMemory
  <1> QED
    BY <1>6, <1>7

LEMMA ForkOnMemory ==
  ASSUME ControlOK, MemoryOK, NEW p \in Procs, ForkProcess(p)
  PROVE  OnMemory(p)
  <1> DEFINE s == Here(p)
             k == Here(p).val
  <1>1. WellFormed(test, p, s) /\ s.do = "fork"
    BY HereIs DEF ForkProcess, Doing, Current, Here
  <1>2. k \in Procs /\ Procs = ProcsOf(test)
    BY <1>1, HereIs DEF WellFormed, MakesProcess
  <1>3. CASE UNCHANGED mem /\ GoesWrong(p)
    BY <1>1, <1>3 DEF OnMemory, AllStay, Stays, Fails, ForkProcess, WaitsFor
  <1>4. ASSUME NEW C, NEW D, Started(p, k),
               mem' = [mem EXCEPT ![p] = Over(Filled(D, "bad"), mem[p]),
                                  ![k] = Over(Filled(C, "bad"), mem[p])]
        PROVE  OnMemory(p)
    <2>1. Makes(p)
      BY <1>1, <1>4 DEF Makes, MakesProcess, ForkProcess
    <2>2. ASSUME NEW R, NEW r \in RegionsOf(test), mem[p][r] # "none"
          PROVE  Over(Filled(R, "bad"), mem[p])[r] # "none"
      BY <1>2, <2>2 DEF Over, Filled, MemoryOK
    <2>3. /\ mem'[k] = Over(Filled(C, "bad"), mem[p])
          /\ p # k => mem'[p] = Over(Filled(D, "bad"), mem[p])
          /\ \A q \in Procs \ {p, k} : mem'[q] = mem[q]
      BY <1>2, <1>4 DEF MemoryOK
    <2> QED
      BY <1>1, <1>2, <2>1, <2>2, <2>3 DEF OnMemory, MakesInMemory, Stays
  <1> QED
    BY <1>3, <1>4 DEF ForkProcess, Current, Here

LEMMA CloneOnMemory ==
  ASSUME ControlOK, MemoryOK, NEW p \in Procs, CloneVM(p)
  PROVE  OnMemory(p)
  <1> DEFINE k == Here(p).val
  <1>1. WellFormed(test, p, Here(p)) /\ Here(p).do = "cloneVM"
    BY HereIs DEF CloneVM, Doing, Current, Here
  <1>2. k \in Procs /\ Procs = ProcsOf(test)
    BY <1>1, HereIs DEF WellFormed, MakesProcess
  <1>3. CASE UNCHANGED mem /\ (Refuses(p) \/ Fails(p))
    BY <1>3 DEF OnMemory, AllStay, Stays
  <1>4. CASE Started(p, k) /\ mem' = [mem EXCEPT ![k] = mem[p]]
    <2>1. Makes(p)
      BY <1>1, <1>4 DEF Makes, MakesProcess, CloneVM
    <2>2. mem'[k] = mem[p] /\ \A q \in Procs \ {k} : mem'[q] = mem[q]
      BY <1>2, <1>4 DEF MemoryOK
    <2> QED
      BY <1>1, <2>1, <2>2 DEF OnMemory, MakesInMemory, Stays
  <1>5. CASE GoesWrong(p) /\ UNCHANGED <<lowered, mem>>
    BY <1>1, <1>3, <1>5 DEF Fails, WaitsFor
  <1>6. CASE /\ Advance(p, 1 + Here(p).skip)
             /\ UNCHANGED <<test, state, pass, printed, mem, lowered>>
    BY <1>1, <1>3, <1>6 DEF Refuses, GoTo, Advance
  <1> QED
    BY <1>4, <1>5, <1>6 DEF CloneVM, Current, Here

LEMMA ExecOnMemory ==
  ASSUME ControlOK, MemoryOK, NEW p \in Procs, Exec(p)
  PROVE  OnMemory(p)
  <1>1. Here(p).do = "exec" /\ Procs = ProcsOf(test)
    BY HereIs DEF Exec, Doing, Current, Here
  <1>2. CASE UNCHANGED mem /\ GoesWrong(p)
    BY <1>1, <1>2 DEF OnMemory, AllStay, Stays, Fails, Exec, WaitsFor
  <1>3. CASE Proceed(p) /\ mem' = [mem EXCEPT ![p] = Filled(Regions, "none")]
    <2>1. Works(p)
      BY <1>1, <1>3
      DEF Works, GoTo, Proceed, Advance, Exec, MakesProcess
    <2>2. \A q \in Procs \ {p} : mem'[q] = mem[q]
      BY <1>1, <1>3 DEF MemoryOK
    <2>3. Maps(Here(p)) = {} /\ Removes(test, Here(p)) = RegionsOf(test)
      BY <1>1 DEF Maps, Removes
    <2> QED
      BY <2>1, <2>2, <2>3 DEF OnMemory, WorksOnMemory
  <1> QED
    BY <1>2, <1>3 DEF Exec

LEMMA OnMemoryStep ==
  ASSUME ControlOK, MemoryOK, NEW p, Step(p), Touchable(p)
  PROVE  OnMemory(p)
  <1>0. p \in Procs
    BY StepControl
  <1>1. CASE EnableReplication(p) \/ DisableReplication(p) \/ OtherCall(p)
    <2>1. PICK d \in Damage(p) : Becomes(p, {}, Nothing, d)
      BY <1>1 DEF EnableReplication, DisableReplication, OtherCall
    <2>2. AllStay
      BY <1>0, <2>1, NothingIsPatch, BecomesIs DEF AllStay, Stays
    <2> QED
      BY <1>1, <2>2, UnmapsNothing
      DEF EnableReplication, DisableReplication, OtherCall, Doing, Current, Here
  <1>2. CASE EnableInvalid(p) \/ QueryReplication(p) \/ CheckMemory(p) \/ ProtectMemory(p)
    BY <1>2, LeavesMemory
    DEF EnableInvalid, QueryReplication, CheckMemory, ProtectMemory, memory, Doing,
        Current, Here
  <1>3. CASE LowerLimit(p) \/ RestoreLimit(p) \/ CreateThread(p) \/ WaitForProcess(p)
    BY <1>3, LeavesMemory
    DEF LowerLimit, RestoreLimit, CreateThread, WaitForProcess, memory, Doing, Current, Here
  <1>4. CASE Await(p) \/ CheckNodes(p) \/ Judge(p) \/ Return(p)
    BY <1>4, LeavesMemory DEF Await, CheckNodes, Judge, Return, memory, Doing, Current, Here
  <1> QED
    BY <1>0, <1>1, <1>2, <1>3, <1>4, MapOnMemory, WriteOnMemory, UnmapOnMemory, DropOnMemory,
       MoveOnMemory, ForkOnMemory, CloneOnMemory, ExecOnMemory DEF Step

\* What a step of p does to the control of the other processes, unless it makes
\* one; and in every case.
LEMMA OthersStay ==
  ASSUME ControlOK, NEW p, Step(p),
         Works(p) \/ Fails(p) \/ Refuses(p) \/ Stops(p) \/ Sleeps(p)
  PROVE  /\ \A q \in Procs \ {p} : todo'[q] = todo[q] /\ state'[q] = state[q]
         /\ state'[p] # "absent"
         /\ p # "main" => pass'["main"] = pass["main"]
  <1>0. p \in Procs /\ "main" \in Procs /\ state[p] = "running"
    BY StepControl, ScriptsWellFormed DEF ControlOK, Procs
  <1>1. todo = [q \in Procs |-> todo[q]] /\ state = [q \in Procs |-> state[q]]
        /\ pass = [q \in Procs |-> pass[q]]
    BY DEF ControlOK, Placed, Procs
  <1>2. CASE Works(p) \/ Refuses(p) \/ Sleeps(p)
    BY <1>0, <1>1, <1>2 DEF Works, Refuses, Sleeps, GoTo
  <1>3. CASE Fails(p)
    <2>1. CASE UNCHANGED state
      BY <1>0, <1>1, <1>3, <2>1, WrongIs DEF Fails, GoTo
    <2>2. CASE state' # state
      <3>1. /\ UNCHANGED <<todo, pass>>
            /\ state' = [state EXCEPT ![p] = IF Here(p).bad = "die" THEN "killed"
                                                                     ELSE "failed"]
        BY <1>3, <2>2, WrongIs DEF Fails, GoTo
      <3> QED
        BY <1>0, <1>1, <3>1
    <2> QED
      BY <2>1, <2>2
  <1>4. CASE Stops(p)
    BY <1>0, <1>1, <1>4 DEF Stops, EndAs
  <1> QED
    BY <1>2, <1>3, <1>4

LEMMA OthersGoOn ==
  ASSUME ControlOK, NEW p, Step(p)
  PROVE  /\ \A q \in Procs \ {p} :
              /\ todo'[q] = todo[q]
              /\ state'[q] \in {state[q], "running"}
         /\ state'[p] # "absent"
         /\ p # "main" => pass'["main"] = pass["main"]
  <1>1. CASE Makes(p)
    <2>1. p \in Procs /\ state[p] = "running"
      BY StepControl
    <2>2. todo = [q \in Procs |-> todo[q]] /\ state = [q \in Procs |-> state[q]]
      BY DEF ControlOK, Placed, Procs
    <2> QED
      BY <1>1, <2>1, <2>2 DEF Makes, Started, Advance
  <1> QED
    BY <1>1, StepControl, OthersStay

Held ==
  /\ \A p \in Procs : state[p] = "running" =>
       \A r \in Needs(test, todo[p]) : mem[p][r] # "none"
  /\ \A p \in Procs : \A r \in Lasting(test) : mem[p][r] # "none"
  /\ \A p \in Procs : state[p] = "absent" => todo[p] = Script[test][p]
  /\ Strict(test) => pass["main"]

LEMMA HeldInit == Init => Held
  <1> SUFFICES ASSUME Init PROVE Held
    OBVIOUS
  <1>1. test \in Tests /\ Procs = ProcsOf(test) /\ "main" \in Procs
    BY ScriptsWellFormed DEF Init, Procs
  <1>2. Needs(test, todo["main"]) \subseteq Static
    BY <1>1, MemoryIsHeld DEF Init
  <1>3. Needs(test, todo["main"]) \subseteq RegionsOf(test)
    BY DEF Needs
  <1>4. Lasting(test) \subseteq Static \cap RegionsOf(test)
    BY DEF Lasting
  <1> QED
    BY <1>1, <1>2, <1>3, <1>4 DEF Init, Held

LEMMA HeldStep ==
  ASSUME ControlOK, MemoryOK, Awaited, Held, NEW p, Step(p)
  PROVE  Held'
  <1> DEFINE u == todo[p]
             s == Head(u)
  <1>0. p \in Procs /\ state[p] = "running" /\ "main" \in Procs
    BY StepControl, ScriptsWellFormed DEF ControlOK, Procs
  <1>1. u \in Rests(test, p) /\ test \in Tests /\ p \in ProcsOf(test) /\ Procs = ProcsOf(test)
        /\ WellFormed(test, p, s)
    BY <1>0, HereIs DEF Here
  <1>2. UNCHANGED <<test, Procs>>
    BY TestStays
  <1>3. /\ Touches(test, s) \subseteq Needs(test, u)
        /\ s.do # "end" =>
             /\ Needs(test, After(u, 1)) \subseteq (Needs(test, u) \ Removes(test, s)) \cup Maps(s)
             /\ ~Ending(u) => Needs(test, WrongRest(u)) \subseteq Needs(test, u)
        /\ s.do = "cloneVM" => Needs(test, After(u, 1 + s.skip)) \subseteq Needs(test, u)
        /\ s.do \in MakesProcess =>
             Needs(test, Script[test][s.val])
               \subseteq IF s.do = "thread" THEN Lasting(test) ELSE Needs(test, u)
        /\ s.do \in {"unmap", "move"} =>
             \A q \in ProcsOf(test) \ {p} : Sees(test, p, q, s) =>
               \/ \A v \in Rests(test, q) : s.at \cap Needs(test, v) = {}
               \/ p = "main" /\ q \notin Pending(u) /\ Strict(test)
    BY <1>1, MemoryIsHeld
  <1>4. /\ \A q \in Procs : state[q] = "running" =>
             \A r \in Needs(test, todo[q]) : mem[q][r] # "none"
        /\ \A q \in Procs : \A r \in Lasting(test) : mem[q][r] # "none"
        /\ \A q \in Procs : state[q] = "absent" => todo[q] = Script[test][q]
        /\ Strict(test) => pass["main"]
    BY DEF Held
  <1>5. OnMemory(p)
    BY <1>0, <1>3, <1>4, OnMemoryStep DEF Touchable, Here
  <1>6. /\ \A q \in Procs \ {p} :
             /\ todo'[q] = todo[q]
             /\ state'[q] \in {state[q], "killed", "running"}
        /\ state'[p] # "absent"
        /\ p # "main" => pass'["main"] = pass["main"]
    BY OthersGoOn
  <1>7. \A v : Needs(test, v) \subseteq RegionsOf(test)
    BY DEF Needs
  <1>8. Lasting(test) \subseteq RegionsOf(test) /\ Lasting(test) \cap Removes(test, s) = {}
    BY <1>1 DEF Lasting
  <1>9. todo = [q \in Procs |-> todo[q]] /\ state = [q \in Procs |-> state[q]]
        /\ pass = [q \in Procs |-> pass[q]]
    BY DEF ControlOK, Placed, Procs
  \* What is left to prove, in the variables of the first state.
  <1>a. ASSUME \A r \in Needs(test, todo'[p]) : state'[p] = "running" => mem'[p][r] # "none",
               \A q \in Procs \ {p} : state'[q] = "running" =>
                 \A r \in Needs(test, todo[q]) : mem'[q][r] # "none",
               \A q \in Procs : \A r \in Lasting(test) : mem'[q][r] # "none",
               Strict(test) => pass'["main"]
        PROVE  Held'
    <2>1. \A q \in Procs : state'[q] = "absent" => todo'[q] = Script[test][q]
      BY <1>2, <1>4, <1>6
    <2> QED
      BY <1>2, <1>6, <1>a, <2>1 DEF Held
  <1> HIDE DEF u, s
  <1>10. CASE WorksOnMemory(p)
    <2>1. /\ s.do \notin MakesProcess \cup {"end"} /\ UNCHANGED <<state, pass>>
          /\ todo'[p] = After(u, 1) /\ ~Makes(p)
      BY <1>0, <1>9, <1>10 DEF WorksOnMemory, Works, GoTo, Makes, Here, u, s
    <2>2. /\ \A q \in Procs : \A r \in RegionsOf(test) :
               mem[q][r] # "none" =>
                 \/ mem'[q][r] # "none"
                 \/ /\ r \in Removes(test, s)
                    /\ q = p \/ (s.do \in {"unmap", "move"} /\ Sees(test, p, q, s))
          /\ \A r \in Maps(s) : mem'[p][r] # "none"
      BY <1>10 DEF WorksOnMemory, Here, u, s
    <2>3. \A r \in Needs(test, After(u, 1)) : mem'[p][r] # "none"
      BY <1>0, <1>3, <1>4, <1>7, <2>1, <2>2 DEF u
    <2>4. ASSUME NEW q \in Procs \ {p}, state[q] = "running", NEW r \in Needs(test, todo[q])
          PROVE  mem'[q][r] # "none"
      <3>1. mem[q][r] # "none" /\ r \in RegionsOf(test) /\ todo[q] \in Rests(test, q)
        BY <1>1, <1>4, <1>7, <2>4, HereIs
      <3>2. SUFFICES ASSUME r \in Removes(test, s), s.do \in {"unmap", "move"},
                            Sees(test, p, q, s)
                     PROVE  FALSE
        BY <2>2, <3>1
      <3>3. r \in s.at
        BY <3>2 DEF Removes
      <3>4. p = "main" /\ q \notin Pending(u) /\ Strict(test)
        BY <1>1, <1>3, <2>4, <3>1, <3>2, <3>3
      <3>5. state[q] \in Accepted(test, q)
        BY <1>0, <1>4, <2>4, <3>4 DEF Awaited, Children, u
      <3> QED
        BY <2>4, <3>5 DEF Accepted
    <2>5. \A q \in Procs : \A r \in Lasting(test) : mem'[q][r] # "none"
      BY <1>4, <1>8, <2>2
    <2> QED
      BY <1>4, <1>a, <2>1, <2>3, <2>4, <2>5
  <1>11. CASE MakesInMemory(p)
    <2> DEFINE k == s.val
    <2>1. /\ s.do \in MakesProcess /\ UNCHANGED pass /\ todo'[p] = After(u, 1)
          /\ state' = [state EXCEPT ![k] = "running"]
          /\ \A q \in Procs \ {k} : Stays(q)
          /\ IF s.do = "thread" THEN UNCHANGED mem
             ELSE \A r \in RegionsOf(test) : mem[p][r] # "none" => mem'[k][r] # "none"
      BY <1>0, <1>9, <1>11 DEF MakesInMemory, Makes, Started, Advance, Here, u, s
    <2>2. p = "main" /\ k \in Children
      BY <1>1, <2>1 DEF WellFormed, Children
    <2>3. state[k] = "absent"
      <3>1. k \in ToMake(u)
        BY <1>1, <2>1, <2>2, ProcessesAreAwaited DEF s
      <3> QED
        BY <1>0, <2>2, <3>1 DEF Awaited, u
    <2>4. todo[k] = Script[test][k]
      BY <1>4, <2>2, <2>3 DEF Children
    <2>5. \A r \in Needs(test, todo[k]) : mem'[k][r] # "none"
      BY <1>0, <1>3, <1>4, <1>7, <2>1, <2>2, <2>4 DEF Children, u
    <2>6. Needs(test, After(u, 1)) \subseteq Needs(test, u)
      BY <1>3, <2>1 DEF Maps, MakesProcess
    <2>7. \A r \in Needs(test, After(u, 1)) : mem'[p][r] # "none"
      BY <1>0, <1>4, <1>7, <2>1, <2>2, <2>6 DEF Children, Stays, u
    <2>8. \A q \in Procs \ {p} : state'[q] = "running" =>
            \A r \in Needs(test, todo[q]) : mem'[q][r] # "none"
      BY <1>4, <1>7, <1>9, <2>1, <2>5 DEF Stays
    <2>9. \A q \in Procs : \A r \in Lasting(test) : mem'[q][r] # "none"
      BY <1>0, <1>4, <1>8, <2>1 DEF Stays
    <2> QED
      BY <1>4, <1>a, <2>1, <2>7, <2>8, <2>9
  <1>12. CASE AllStay /\ (Fails(p) \/ Refuses(p) \/ Stops(p) \/ Sleeps(p))
    <2>1. \A q \in Procs \ {p} : state'[q] = "running" => state[q] = "running"
      BY <1>12, OthersStay
    <2>2. \A q \in Procs \ {p} : state'[q] = "running" =>
            \A r \in Needs(test, todo[q]) : mem'[q][r] # "none"
      BY <1>4, <1>7, <1>12, <2>1 DEF AllStay, Stays
    <2>3. \A q \in Procs : \A r \in Lasting(test) : mem'[q][r] # "none"
      BY <1>4, <1>8, <1>12 DEF AllStay, Stays
    <2>4. state'[p] = "running" => Needs(test, todo'[p]) \subseteq Needs(test, u)
      <3>1. CASE Fails(p)
        <4>1. s.do # "end"
          BY <3>1 DEF Fails, Here, u, s
        <4>2. CASE ~Ending(u) /\ todo'[p] = WrongRest(u)
          BY <1>3, <4>1, <4>2
        <4>3. CASE state'[p] # "running"
          BY <4>3
        <4> QED
          BY <1>0, <1>9, <3>1, <4>2, <4>3, WrongIs DEF Fails, GoTo, Here, Ending, u, s
      <3>2. CASE Refuses(p)
        BY <1>0, <1>3, <1>9, <3>2 DEF Refuses, GoTo, Here, u, s
      <3>3. CASE Stops(p)
        BY <1>0, <1>9, <3>3 DEF Stops, EndAs
      <3>4. CASE Sleeps(p)
        BY <3>4 DEF Sleeps, u
      <3> QED
        BY <1>12, <3>1, <3>2, <3>3, <3>4
    <2>5. \A r \in Needs(test, todo'[p]) : state'[p] = "running" => mem'[p][r] # "none"
      BY <1>0, <1>4, <1>7, <1>12, <2>4 DEF AllStay, Stays, u
    <2>6. Strict(test) => pass'["main"]
      <3>1. CASE p = "main" /\ Fails(p) /\ Strict(test)
        <4>1. Ending(u) \/ s.bad \in {"ignore", "print"}
          BY <1>1, <3>1 DEF Strict, s
        <4> QED
          BY <1>4, <3>1, <4>1, WrongIs DEF Fails, Here, u, s
      <3>2. CASE Refuses(p) \/ Stops(p) \/ Sleeps(p)
        BY <1>4, <3>2 DEF Refuses, Stops, Sleeps, EndAs
      <3> QED
        BY <1>4, <1>6, <1>12, <3>1, <3>2
    <2> QED
      BY <1>a, <2>2, <2>3, <2>5, <2>6
  <1> QED
    BY <1>5, <1>10, <1>11, <1>12 DEF OnMemory

LEMMA HeldNext == ControlOK /\ MemoryOK /\ Awaited /\ Held /\ [Next]_vars => Held'
  <1> SUFFICES ASSUME ControlOK, MemoryOK, Awaited, Held, [Next]_vars PROVE Held'
    OBVIOUS
  <1>1. ASSUME NEW k, ChildKilled(k) PROVE Held'
    <2>1. /\ k \in Procs /\ state' = [state EXCEPT ![k] = "killed"]
          /\ UNCHANGED <<test, todo, pass, mem, Procs>>
      BY <1>1, KilledIs DEF memory, ControlOK, Procs
    <2>2. \A q \in Procs : state'[q] \in {state[q], "killed"}
      BY <2>1 DEF ControlOK, Procs
    <2> QED
      BY <2>1, <2>2 DEF Held
  <1>2. CASE UNCHANGED vars
    BY <1>2 DEF vars, control, memory, Held, Procs
  <1> QED
    BY <1>1, <1>2, HeldStep DEF Next, Done

-----------------------------------------------------------------------------
(***************************************************************************)
(* Protection.                                                             *)
(***************************************************************************)
OnProtection(p) ==
  \/ UNCHANGED closed /\ Works(p) /\ Here(p).do \notin {"shut", "open"}
  \/ UNCHANGED closed /\ (Fails(p) \/ Makes(p) \/ Refuses(p) \/ Stops(p) \/ Sleeps(p))
  \/ Works(p) /\ Here(p).do = "shut" /\ closed' = closed \cup Here(p).at
  \/ Works(p) /\ Here(p).do = "open" /\ closed' = closed \ Here(p).at

LEMMA OnProtectionStep == ASSUME NEW p, Step(p) PROVE OnProtection(p)
  <1>1. CASE ProtectMemory(p)
    <2>1. PICK a \in Call("call") :
            /\ ProceedIf(p, a.ok)
            /\ closed' = IF ~a.ok THEN closed
                         ELSE IF Here(p).do = "shut" THEN closed \cup Here(p).at
                         ELSE closed \ Here(p).at
      BY <1>1 DEF ProtectMemory, Current, Here
    <2>2. Here(p).do \in {"shut", "open"} /\ UNCHANGED lowered
      BY <1>1 DEF ProtectMemory, Doing, Current, Here
    <2>3. CASE a.ok
      <3>1. Works(p)
        BY <2>1, <2>2, <2>3 DEF Works, GoTo, ProceedIf, Proceed, Advance, MakesProcess
      <3> QED
        BY <2>1, <2>2, <2>3, <3>1 DEF OnProtection
    <2>4. CASE ~a.ok
      <3>1. Fails(p)
        BY <2>1, <2>2, <2>4 DEF Fails, ProceedIf, WaitsFor
      <3>2. UNCHANGED closed
        BY <2>1, <2>4
      <3> QED
        BY <3>1, <3>2 DEF OnProtection
    <2> QED
      BY <2>3, <2>4
  <1>2. ASSUME UNCHANGED closed, Here(p).do \notin {"shut", "open"} PROVE OnProtection(p)
    BY <1>2, StepControl DEF OnProtection
  <1> USE DEF Doing, Current, Here, memory
  <1>3. CASE EnableReplication(p) \/ DisableReplication(p) \/ EnableInvalid(p)
             \/ QueryReplication(p)
    BY <1>2, <1>3 DEF EnableReplication, DisableReplication, EnableInvalid, QueryReplication
  <1>4. CASE MapMemory(p) \/ WriteMemory(p) \/ CheckMemory(p) \/ UnmapMemory(p)
    BY <1>2, <1>4 DEF MapMemory, WriteMemory, CheckMemory, UnmapMemory
  <1>5. CASE DropMemory(p) \/ MoveMemory(p) \/ OtherCall(p) \/ LowerLimit(p) \/ RestoreLimit(p)
    BY <1>2, <1>5 DEF DropMemory, MoveMemory, OtherCall, LowerLimit, RestoreLimit
  <1>6. CASE ForkProcess(p) \/ CloneVM(p) \/ CreateThread(p) \/ WaitForProcess(p) \/ Await(p)
    BY <1>2, <1>6 DEF ForkProcess, CloneVM, CreateThread, WaitForProcess, Await
  <1>7. CASE Exec(p) \/ CheckNodes(p) \/ Judge(p) \/ Return(p)
    BY <1>2, <1>7 DEF Exec, CheckNodes, Judge, Return
  <1> QED
    BY <1>1, <1>3, <1>4, <1>5, <1>6, <1>7 DEF Step

\* What a process accesses next is not protected.
Lifted ==
  /\ closed # {} => Procs = {"main"}
  /\ \A p \in Procs : state[p] = "running" => closed \cap Opens(todo[p]) = {}

LEMMA LiftedStep ==
  ASSUME ControlOK, Lifted, NEW p, Step(p)
  PROVE  Lifted'
  <1> DEFINE u == todo[p]
             s == Head(u)
  <1>0. p \in Procs /\ state[p] = "running" /\ "main" \in Procs
    BY StepControl, ScriptsWellFormed DEF ControlOK, Procs
  <1>1. u \in Rests(test, p) /\ test \in Tests /\ p \in ProcsOf(test) /\ Procs = ProcsOf(test)
        /\ WellFormed(test, p, s)
    BY <1>0, HereIs DEF Here
  <1>2. /\ s.do # "end" =>
             /\ Opens(After(u, 1)) \subseteq CASE s.do = "shut" -> Opens(u) \ s.at
                                               [] s.do = "open" -> Opens(u) \cup s.at
                                               [] OTHER -> Opens(u)
             /\ ~Ending(u) => Opens(WrongRest(u)) \subseteq Opens(u)
        /\ s.do = "cloneVM" => Opens(After(u, 1 + s.skip)) \subseteq Opens(u)
        /\ s.do = "shut" => ProcsOf(test) = {"main"}
    BY <1>1, ProtectionIsLifted
  <1>3. UNCHANGED Procs
    BY TestStays
  <1>4. \A q \in Procs \ {p} : todo'[q] = todo[q]
    BY OthersGoOn
  <1>5. todo = [q \in Procs |-> todo[q]] /\ state = [q \in Procs |-> state[q]]
    BY DEF ControlOK, Placed, Procs
  <1> HIDE DEF u, s
  <1>6. Works(p) => todo'[p] = After(u, 1) /\ UNCHANGED state /\ s.do # "end"
    BY <1>0, <1>5 DEF Works, GoTo, Here, u, s
  <1>7. CASE UNCHANGED closed /\ Works(p) /\ s.do \notin {"shut", "open"}
    BY <1>0, <1>2, <1>3, <1>4, <1>6, <1>7 DEF Lifted, u
  <1>8. CASE Works(p) /\ s.do = "shut" /\ closed' = closed \cup s.at
    BY <1>0, <1>1, <1>2, <1>3, <1>4, <1>6, <1>8 DEF Lifted, u
  <1>9. CASE Works(p) /\ s.do = "open" /\ closed' = closed \ s.at
    BY <1>0, <1>2, <1>3, <1>4, <1>6, <1>9 DEF Lifted, u
  <1>10. CASE UNCHANGED closed /\ Makes(p)
    <2>1. s.val \in Procs \ {"main"}
      BY <1>1, <1>10 DEF Makes, WellFormed, Here, u, s
    <2>2. closed = {}
      BY <2>1 DEF Lifted
    <2> QED
      BY <1>10, <2>2 DEF Lifted
  <1>11. CASE UNCHANGED closed /\ (Fails(p) \/ Refuses(p) \/ Stops(p) \/ Sleeps(p))
    <2>1. \A q \in Procs \ {p} : state'[q] = "running" => state[q] = "running"
      BY <1>11, OthersStay
    <2>2. state'[p] = "running" => Opens(todo'[p]) \subseteq Opens(u)
      <3>1. CASE Fails(p)
        <4>1. s.do # "end"
          BY <3>1 DEF Fails, Here, u, s
        <4>2. CASE ~Ending(u) /\ todo'[p] = WrongRest(u)
          BY <1>2, <4>1, <4>2
        <4>3. CASE state'[p] # "running"
          BY <4>3
        <4> QED
          BY <1>0, <1>5, <3>1, <4>2, <4>3, WrongIs DEF Fails, GoTo, Here, Ending, u, s
      <3>2. CASE Refuses(p)
        BY <1>0, <1>2, <1>5, <3>2 DEF Refuses, GoTo, Here, u, s
      <3>3. CASE Stops(p)
        BY <1>0, <1>5, <3>3 DEF Stops, EndAs
      <3>4. CASE Sleeps(p)
        BY <3>4 DEF Sleeps, u
      <3> QED
        BY <1>11, <3>1, <3>2, <3>3, <3>4
    <2> QED
      BY <1>0, <1>3, <1>4, <1>11, <2>1, <2>2 DEF Lifted, u
  <1> QED
    BY <1>7, <1>8, <1>9, <1>10, <1>11, OnProtectionStep DEF OnProtection, Here, u, s

LEMMA LiftedInit == Init => Lifted
  BY DEF Init, Lifted

LEMMA LiftedNext == ControlOK /\ MemoryOK /\ Lifted /\ [Next]_vars => Lifted'
  <1> SUFFICES ASSUME ControlOK, MemoryOK, Lifted, [Next]_vars PROVE Lifted'
    OBVIOUS
  <1>1. ASSUME NEW k, ChildKilled(k) PROVE Lifted'
    <2>1. /\ k \in Procs /\ state' = [state EXCEPT ![k] = "killed"]
          /\ UNCHANGED <<todo, closed, Procs>>
      BY <1>1, KilledIs DEF memory, ControlOK, Procs
    <2>2. \A q \in Procs : state'[q] \in {state[q], "killed"}
      BY <2>1 DEF ControlOK, Procs
    <2> QED
      BY <2>1, <2>2 DEF Lifted
  <1>2. CASE UNCHANGED vars
    BY <1>2 DEF vars, control, memory, Lifted, Procs
  <1> QED
    BY <1>1, <1>2, LiftedStep DEF Next, Done

-----------------------------------------------------------------------------
(***************************************************************************)
(* The stack that main of test26 gives its first child.                    *)
(***************************************************************************)
Misread == struck \cap {"keepVM", "get"} # {}

StackHeld ==
  test = "test26" /\ state["child1"] = "running" =>
    \/ Misread
    \/ /\ mem["child1"]["stack"] # "none"
       /\ \/ Joins(todo["main"])
          \/ Reads(todo["main"]) /\ Joins(After(todo["main"], 1)) /\ mask["main"] = 0

LEMMA StruckGrows == ASSUME [Next]_vars PROVE struck \subseteq struck'
  <1>1. ASSUME UNCHANGED struck \/ \E f : Strike(f) PROVE struck \subseteq struck'
    BY <1>1 DEF Strike
  <1>2. ASSUME NEW p, Step(p) PROVE struck \subseteq struck'
    <2>1. CASE EnableReplication(p) \/ DisableReplication(p) \/ EnableInvalid(p)
               \/ QueryReplication(p)
      BY <1>1, <2>1 DEF EnableReplication, DisableReplication, EnableInvalid, QueryReplication
    <2>2. CASE MapMemory(p) \/ WriteMemory(p) \/ CheckMemory(p) \/ UnmapMemory(p)
      BY <1>1, <2>2 DEF MapMemory, WriteMemory, CheckMemory, UnmapMemory
    <2>3. CASE DropMemory(p) \/ ProtectMemory(p) \/ MoveMemory(p) \/ OtherCall(p)
      BY <1>1, <2>3 DEF DropMemory, ProtectMemory, MoveMemory, OtherCall
    <2>4. CASE LowerLimit(p) \/ RestoreLimit(p) \/ ForkProcess(p) \/ CloneVM(p)
      BY <1>1, <2>4 DEF LowerLimit, RestoreLimit, ForkProcess, CloneVM
    <2>5. CASE CreateThread(p) \/ WaitForProcess(p) \/ Await(p) \/ Exec(p)
      BY <1>1, <2>5 DEF CreateThread, WaitForProcess, Await, Exec
    <2>6. CASE CheckNodes(p) \/ Judge(p) \/ Return(p)
      BY <1>1, <2>6 DEF CheckNodes, Judge, Return
    <2> QED
      BY <1>2, <2>1, <2>2, <2>3, <2>4, <2>5, <2>6 DEF Step
  <1>3. ASSUME NEW k, ChildKilled(k) PROVE struck \subseteq struck'
    BY <1>1, <1>3 DEF ChildKilled
  <1> QED
    BY <1>1, <1>2, <1>3 DEF Next, Done, vars, control

LEMMA HeldTouchable ==
  ASSUME ControlOK, Held, NEW p, Step(p)
  PROVE  Touchable(p)
  <1>1. p \in Procs /\ state[p] = "running"
    BY StepControl
  <1>2. Touches(test, Here(p)) \subseteq Needs(test, todo[p])
    BY <1>1, HereIs, MemoryIsHeld DEF Here
  <1> QED
    BY <1>1, <1>2 DEF Held, Touchable

LEMMA MaskStays ==
  ASSUME ControlOK, MemoryOK, NEW p, Step(p), Here(p).do \notin MakesProcess,
         NEW q \in Procs \ {p}
  PROVE  mask'[q] = mask[q]
  <1>1. mask = [x \in Procs |-> mask[x]]
    BY DEF MemoryOK, ControlOK, Procs
  <1>2. ASSUME UNCHANGED mask \/ \E m : mask' = [mask EXCEPT ![p] = m]
        PROVE  mask'[q] = mask[q]
    BY <1>1, <1>2
  <1>3. CASE EnableReplication(p) \/ DisableReplication(p) \/ EnableInvalid(p)
             \/ QueryReplication(p)
    BY <1>2, <1>3 DEF EnableReplication, DisableReplication, EnableInvalid, QueryReplication
  <1>4. CASE MapMemory(p) \/ WriteMemory(p) \/ CheckMemory(p) \/ UnmapMemory(p)
    BY <1>2, <1>4 DEF MapMemory, WriteMemory, CheckMemory, UnmapMemory
  <1>5. CASE DropMemory(p) \/ ProtectMemory(p) \/ MoveMemory(p) \/ OtherCall(p)
    BY <1>2, <1>5 DEF DropMemory, ProtectMemory, MoveMemory, OtherCall
  <1>6. CASE LowerLimit(p) \/ RestoreLimit(p) \/ WaitForProcess(p) \/ Await(p)
    BY <1>2, <1>6 DEF LowerLimit, RestoreLimit, WaitForProcess, Await
  <1>7. CASE ForkProcess(p) \/ CloneVM(p) \/ CreateThread(p)
    BY <1>7 DEF ForkProcess, CloneVM, CreateThread, Doing, Current, Here, MakesProcess
  <1>8. CASE Exec(p) \/ CheckNodes(p) \/ Judge(p) \/ Return(p)
    BY <1>2, <1>8 DEF Exec, CheckNodes, Judge, Return
  <1> QED
    BY <1>3, <1>4, <1>5, <1>6, <1>7, <1>8 DEF Step

\* The clone gives the child the stack and ends replication, or is noted.
LEMMA StackGiven ==
  ASSUME ControlOK, MemoryOK, Awaited, Held, Step("main"), test = "test26",
         Makes("main"), Here("main").val = "child1"
  PROVE  StackHeld'
  <1> DEFINE u == todo["main"]
  <1>0. "main" \in Procs /\ state["main"] = "running" /\ Procs = ProcsOf(test)
        /\ u \in Rests(test, "main") /\ test \in Tests
    BY StepControl, HereIs
  <1>1. /\ Here("main").do = "cloneVM" /\ "stack" \in Needs("test26", u)
        /\ Reads(After(u, 1)) /\ Joins(After(After(u, 1), 1))
        /\ "child1" \in Children /\ "stack" \in RegionsOf("test26")
    BY <1>0, StackIsFreedLast DEF Makes, Here, Children
  <1>2. state["child1"] = "absent"
    <2>1. "child1" \in ToMake(u)
      BY <1>0, <1>1, ProcessesAreAwaited DEF Here, MakesProcess
    <2> QED
      BY <1>0, <1>1, <2>1 DEF Awaited
  <1>3. /\ todo'["main"] = After(u, 1) /\ UNCHANGED test
        /\ state' = [state EXCEPT !["child1"] = "running"]
    BY <1>0 DEF Makes, Started, Advance, ControlOK, Placed
  <1>4. state' # state
    BY <1>1, <1>2, <1>3 DEF ControlOK, Children, Procs
  <1>5. mem["main"]["stack"] # "none"
    BY <1>0, <1>1 DEF Held
  <1>6. CloneVM("main")
    BY <1>1, StepControl
    DEF Step, Doing, Current, Here, EnableReplication, DisableReplication, EnableInvalid,
        QueryReplication, MapMemory, WriteMemory, CheckMemory, UnmapMemory, DropMemory,
        ProtectMemory, MoveMemory, OtherCall, LowerLimit, RestoreLimit, ForkProcess,
        CreateThread, WaitForProcess, Await, Exec, CheckNodes, Judge, Return
  <1>7. ~GoesWrong("main")
    <2>1. state'["child1"] = "running" /\ "child1" \in Procs \ {"main"}
      BY <1>1, <1>3 DEF ControlOK, Children, Procs
    <2>2. state = [q \in Procs |-> state[q]]
      BY DEF ControlOK, Procs
    <2> QED
      BY <1>2, <2>1, <2>2, WrongIs DEF GoTo
  <1>8. PICK keep \in Possible({[mask |-> 0, fault |-> "none"],
                               [mask |-> mask["main"], fault |-> "keepVM"]}) :
          /\ mask' = [mask EXCEPT !["main"] = keep.mask, !["child1"] = keep.mask]
          /\ mem' = [mem EXCEPT !["child1"] = mem["main"]]
          /\ Strike({keep.fault})
    BY <1>4, <1>6, <1>7 DEF CloneVM, Current, Here
  <1>9. mem'["child1"]["stack"] # "none"
    BY <1>0, <1>1, <1>5, <1>8 DEF MemoryOK, Children
  <1>10. mask'["main"] = 0 \/ "keepVM" \in struck'
    BY <1>0, <1>1, <1>8 DEF MemoryOK, Children, Possible, Strike
  <1> QED
    BY <1>1, <1>3, <1>9, <1>10 DEF StackHeld, Misread

\* While the child runs, main reads its mask and waits, and does nothing else.
LEMMA StackStepMain ==
  ASSUME ControlOK, MemoryOK, Awaited, Held, StackHeld, Step("main"), struck \subseteq struck'
  PROVE  StackHeld'
  <1> DEFINE u == todo["main"]
             s == Head(u)
  <1>1. UNCHANGED <<test, Procs>>
    BY TestStays
  <1>2. SUFFICES ASSUME test = "test26", state'["child1"] = "running", ~Misread'
                 PROVE  StackHeld'
    BY <1>1 DEF StackHeld
  <1>3. ~Misread
    BY <1>2 DEF Misread
  <1>4. /\ "main" \in Procs /\ state["main"] = "running" /\ Procs = ProcsOf(test)
        /\ u \in Rests(test, "main") /\ WellFormed(test, "main", s)
        /\ "child1" \in Procs \ {"main"} /\ "stack" \in RegionsOf(test)
    BY <1>2, StepControl, HereIs, StackIsFreedLast DEF Here
  <1>5. /\ todo = [q \in Procs |-> todo[q]] /\ state = [q \in Procs |-> state[q]]
    BY DEF ControlOK, Placed, Procs
  <1>6. OnMemory("main")
    BY HeldTouchable, OnMemoryStep
  <1>7. CASE state["child1"] # "running"
    <2>1. Makes("main") /\ s.val = "child1"
      <3>1. Makes("main")
        BY <1>2, <1>4, <1>7, OthersStay, StepControl
      <3>2. state' = [state EXCEPT ![s.val] = "running"]
        BY <3>1 DEF Makes, Started, Here
      <3> QED
        BY <1>2, <1>4, <1>5, <1>7, <3>1, <3>2
    <2> QED
      BY <1>2, <2>1, StackGiven DEF Here
  <1>8. CASE state["child1"] = "running" /\ Joins(u)
    <2>1. s.do = "wait" /\ s.val = "child1"
      BY <1>8 DEF Joins
    <2>2. ~Works("main") /\ ~Fails("main") /\ ~Makes("main") /\ ~Refuses("main")
          /\ ~Stops("main")
      BY <1>8, <2>1
      DEF Works, Fails, Makes, Refuses, Stops, Here, Ended, MakesProcess, WaitsFor
    <2>3. AllStay /\ Sleeps("main")
      BY <1>6, <2>2 DEF OnMemory, WorksOnMemory, MakesInMemory
    <2>4. mem["child1"]["stack"] # "none"
      BY <1>2, <1>3, <1>8 DEF StackHeld
    <2> QED
      BY <1>4, <1>8, <2>3, <2>4 DEF StackHeld, AllStay, Stays, Sleeps
  <1>9. CASE state["child1"] = "running" /\ ~Joins(u)
    <2>1. Reads(u) /\ Joins(After(u, 1)) /\ mask["main"] = 0 /\ mem["child1"]["stack"] # "none"
      BY <1>2, <1>3, <1>9 DEF StackHeld
    <2>2. QueryReplication("main")
      BY <2>1
      DEF Step, Doing, Current, Here, Reads, EnableReplication, DisableReplication,
          EnableInvalid, MapMemory, WriteMemory, CheckMemory, UnmapMemory, DropMemory,
          ProtectMemory, MoveMemory, OtherCall, LowerLimit, RestoreLimit, ForkProcess,
          CloneVM, CreateThread, WaitForProcess, Await, Exec, CheckNodes, Judge, Return
    <2>3. PICK a \in Get(0) : ProceedIf("main", Satisfies(a.ret, "zero")) /\ Strike({a.fault})
      BY <2>1, <2>2 DEF QueryReplication, Current, Reads
    <2>4. a.ret = 0
      BY <1>2, <2>3 DEF Get, Possible, Strike, Misread
    <2>5. Proceed("main") /\ UNCHANGED mem
      BY <2>2, <2>3, <2>4 DEF ProceedIf, Satisfies, QueryReplication, memory
    <2>6. todo'["main"] = After(u, 1)
      BY <1>4, <1>5, <2>5 DEF Proceed, Advance
    <2> QED
      BY <2>1, <2>5, <2>6 DEF StackHeld
  <1> QED
    BY <1>7, <1>8, <1>9

LEMMA StackStepChild ==
  ASSUME ControlOK, MemoryOK, Awaited, Held, StackHeld, NEW p, Step(p), p # "main",
         struck \subseteq struck'
  PROVE  StackHeld'
  <1>1. UNCHANGED <<test, Procs>>
    BY TestStays
  <1>2. SUFFICES ASSUME test = "test26", state'["child1"] = "running", ~Misread'
                 PROVE  StackHeld'
    BY <1>1 DEF StackHeld
  <1>3. /\ ~Makes(p) /\ "main" \in Procs /\ p \in Procs /\ Procs = ProcsOf(test)
        /\ \A q \in Procs \ {p} : state'[q] = state[q] /\ todo'[q] = todo[q]
        /\ state[p] = "running"
    BY ChildStep, HereIs
  <1>4. /\ "child1" \in Procs /\ p \in {"child1", "child2"} /\ "stack" \in RegionsOf(test)
        /\ todo[p] \in Rests(test, p) /\ WellFormed(test, p, Here(p))
    BY <1>2, <1>3, HereIs, StackIsFreedLast, ScriptsWellFormed DEF AllProcs
  <1>5. Here(p).do # "exec" /\ "stack" \notin Here(p).at
    BY <1>2, <1>4, StackIsFreedLast DEF Here
  <1>6. /\ mem["child1"]["stack"] # "none"
        /\ \/ Joins(todo["main"])
           \/ Reads(todo["main"]) /\ Joins(After(todo["main"], 1)) /\ mask["main"] = 0
    BY <1>2, <1>3, <1>4 DEF StackHeld, Misread
  <1>7. mem'["child1"]["stack"] # "none"
    <2>1. "stack" \notin Removes(test, Here(p))
      BY <1>5 DEF Removes
    <2>2. OnMemory(p)
      BY HeldTouchable, OnMemoryStep
    <2> QED
      BY <1>3, <1>4, <1>6, <2>1, <2>2
      DEF OnMemory, WorksOnMemory, MakesInMemory, AllStay, Stays
  <1>8. mask'["main"] = mask["main"]
    <2>1. Here(p).do \notin MakesProcess
      BY <1>4 DEF WellFormed
    <2> QED
      BY <1>3, <2>1, MaskStays
  <1>9. todo'["main"] = todo["main"]
    BY <1>3
  <1> QED
    BY <1>6, <1>7, <1>8, <1>9 DEF StackHeld

LEMMA StackInit == Init => StackHeld
  BY StackIsFreedLast DEF Init, StackHeld

LEMMA StackNext ==
  ControlOK /\ MemoryOK /\ Awaited /\ Held /\ StackHeld /\ [Next]_vars => StackHeld'
  <1> SUFFICES ASSUME ControlOK, MemoryOK, Awaited, Held, StackHeld, [Next]_vars
               PROVE  StackHeld'
    OBVIOUS
  <1>0. struck \subseteq struck'
    BY StruckGrows
  <1>1. ASSUME NEW k, ChildKilled(k) PROVE StackHeld'
    <2>1. /\ k \in Procs /\ state' = [state EXCEPT ![k] = "killed"]
          /\ UNCHANGED <<test, todo, mem, mask>>
      BY <1>1, KilledIs DEF memory
    <2>2. state'["child1"] = "running" => state["child1"] = "running"
      BY <2>1 DEF ControlOK, Procs
    <2> QED
      BY <1>0, <2>1, <2>2 DEF StackHeld, Misread
  <1>2. CASE UNCHANGED vars
    BY <1>2 DEF vars, control, memory, StackHeld, Misread
  <1> QED
    BY <1>0, <1>1, <1>2, StackStepMain, StackStepChild DEF Next, Done

-----------------------------------------------------------------------------
\* No process of the 28 programs accesses memory that is unmapped or protected,
\* whichever mappings it is refused, wherever a failure makes it jump to and
\* whatever the processes that share its memory unmap in the meantime; and the
\* stack of test26's clone outlives it unless the mask is wrong.
THEOREM MemoryIsInUse == Spec => []MemoryInUse
  <1>1. ControlOK /\ MemoryOK /\ Held /\ Lifted /\ StackHeld => MemoryInUse
    <2> SUFFICES ASSUME ControlOK, MemoryOK, Held, Lifted, StackHeld PROVE MemoryInUse
      OBVIOUS
    <2>1. ASSUME NEW p \in Procs, state[p] = "running"
          PROVE  /\ Current(p).do \in Accesses => \A r \in Current(p).at : mem[p][r] # "none"
                 /\ Current(p).do \in {"write", "check"} => Current(p).at \cap closed = {}
      <3>1. todo[p] \in Rests(test, p) /\ test \in Tests /\ p \in ProcsOf(test)
        BY <2>1, HereIs
      <3>2. Touches(test, Head(todo[p])) \subseteq Needs(test, todo[p])
        BY <3>1, MemoryIsHeld
      <3>3. Head(todo[p]).do \in {"write", "check"} => Head(todo[p]).at \subseteq Opens(todo[p])
        BY <3>1, ProtectionIsLifted
      <3>4. Current(p).do \in Accesses => Touches(test, Current(p)) = Current(p).at
        BY DEF Touches, Accesses
      <3> QED
        BY <2>1, <3>2, <3>3, <3>4 DEF Held, Lifted, Current
    <2> QED
      BY <2>1 DEF MemoryInUse, StackHeld, StackFreed, Misread
  <1> QED
    BY <1>1, TypedInit, TypedNext, AwaitedInit, AwaitedNext, HeldInit, HeldNext,
       LiftedInit, LiftedNext, StackInit, StackNext, PTL DEF Spec



-----------------------------------------------------------------------------
(***************************************************************************)
(* Fewer faults, fewer behaviours.  The faults and their bound appear in   *)
(* the model only where an answer is possible and where it strikes; every  *)
(* other definition is the same in both instances, so that a step of the   *)
(* one is a step of the other.                                             *)
(***************************************************************************)
\* All kinds of faults that ScriptedTests has names for.
Known == {"refuse", "ignore", "stuck", "keep", "get", "accept",
          "fork", "inherit", "lose", "badCopy", "keepVM", "execKeeps", "killed",
          "nomem", "unmap", "call", "blank", "lost", "split", "leak", "leakDown",
          "stale", "corrupt", "optional"}

\* The environment that may show every one of them, in any combination.
All == INSTANCE ScriptedTests WITH Faults <- Known, MaxFaults <- 24

\* Each addition to a finite set adds one element at most.
LEMMA OneMore ==
  ASSUME NEW S, IsFiniteSet(S), NEW x
  PROVE  /\ IsFiniteSet(S \cup {x}) /\ Cardinality(S \cup {x}) \in Nat /\ Cardinality(S) \in Nat
         /\ Cardinality(S \cup {x}) <= Cardinality(S) + 1
  <1>1. Cardinality(S) \in Nat
    BY FS_CardinalityType
  <1>2. /\ IsFiniteSet(S \cup {x})
        /\ Cardinality(S \cup {x}) = IF x \in S THEN Cardinality(S) ELSE Cardinality(S) + 1
    BY FS_AddElement
  <1> QED
    BY <1>1, <1>2

LEMMA FourMore ==
  ASSUME NEW S, IsFiniteSet(S), NEW a, NEW b, NEW c, NEW d
  PROVE  /\ IsFiniteSet(S \cup {a, b, c, d}) /\ Cardinality(S) \in Nat
         /\ Cardinality(S \cup {a, b, c, d}) \in Nat
         /\ Cardinality(S \cup {a, b, c, d}) <= Cardinality(S) + 4
  <1> DEFINE A == S \cup {a}
             B == A \cup {b}
             C == B \cup {c}
             D == C \cup {d}
  <1>1. S \cup {a, b, c, d} = D
    OBVIOUS
  <1>2. /\ IsFiniteSet(A) /\ Cardinality(A) \in Nat /\ Cardinality(S) \in Nat
        /\ Cardinality(A) <= Cardinality(S) + 1
    BY OneMore
  <1> HIDE DEF A
  <1>3. IsFiniteSet(B) /\ Cardinality(B) \in Nat /\ Cardinality(B) <= Cardinality(A) + 1
    BY <1>2, OneMore
  <1> HIDE DEF B
  <1>4. IsFiniteSet(C) /\ Cardinality(C) \in Nat /\ Cardinality(C) <= Cardinality(B) + 1
    BY <1>3, OneMore
  <1> HIDE DEF C
  <1>5. IsFiniteSet(D) /\ Cardinality(D) \in Nat /\ Cardinality(D) <= Cardinality(C) + 1
    BY <1>4, OneMore
  <1> HIDE DEF D
  <1>6. Cardinality(D) <= Cardinality(S) + 4
    BY <1>2, <1>3, <1>4, <1>5
  <1> QED
    BY <1>1, <1>2, <1>5, <1>6, Zenon

LEMMA KnownIs == IsFiniteSet(Known) /\ Cardinality(Known) <= 24
  <1> DEFINE O == {}
             A == O \cup {"refuse", "ignore", "stuck", "keep"}
             B == A \cup {"get", "accept", "fork", "inherit"}
             C == B \cup {"lose", "badCopy", "keepVM", "execKeeps"}
             D == C \cup {"killed", "nomem", "unmap", "call"}
             E == D \cup {"blank", "lost", "split", "leak"}
             F == E \cup {"leakDown", "stale", "corrupt", "optional"}
  <1>1. Known = F
    BY DEF Known
  <1>2. IsFiniteSet(O) /\ Cardinality(O) = 0
    BY FS_EmptySet
  <1> HIDE DEF O
  <1>3. IsFiniteSet(A) /\ Cardinality(A) \in Nat /\ Cardinality(A) <= Cardinality(O) + 4
    BY <1>2, FourMore
  <1> HIDE DEF A
  <1>4. IsFiniteSet(B) /\ Cardinality(B) \in Nat /\ Cardinality(B) <= Cardinality(A) + 4
    BY <1>3, FourMore
  <1> HIDE DEF B
  <1>5. IsFiniteSet(C) /\ Cardinality(C) \in Nat /\ Cardinality(C) <= Cardinality(B) + 4
    BY <1>4, FourMore
  <1> HIDE DEF C
  <1>6. IsFiniteSet(D) /\ Cardinality(D) \in Nat /\ Cardinality(D) <= Cardinality(C) + 4
    BY <1>5, FourMore
  <1> HIDE DEF D
  <1>7. IsFiniteSet(E) /\ Cardinality(E) \in Nat /\ Cardinality(E) <= Cardinality(D) + 4
    BY <1>6, FourMore
  <1> HIDE DEF E
  <1>8. IsFiniteSet(F) /\ Cardinality(F) \in Nat /\ Cardinality(F) <= Cardinality(E) + 4
    BY <1>7, FourMore
  <1> HIDE DEF F
  <1> QED
    BY <1>1, <1>2, <1>3, <1>4, <1>5, <1>6, <1>7, <1>8


(***************************************************************************)
(* What the operators without Faults say there is what they say here.      *)
(***************************************************************************)
\* The scripts and the control of the programs do not depend on the faults.
LEMMA SameSteps ==
  /\ \A do, at, val, bad : All!step(do, at, val, bad) = step(do, at, val, bad)
  /\ \A bad : All!enable(bad) = enable(bad)
  /\ \A bad : All!disable(bad) = disable(bad)
  /\ All!invalid = invalid
  /\ \A want, bad : All!query(want, bad) = query(want, bad)
  /\ \A R, bad : All!map(R, bad) = map(R, bad)
  /\ \A R, f, bad : All!mapFile(R, f, bad) = mapFile(R, f, bad)
  /\ \A R, v : All!write(R, v) = write(R, v)
  /\ \A R, v, bad : All!check(R, v, bad) = check(R, v, bad)
  /\ \A R, bad : All!unmap(R, bad) = unmap(R, bad)
  /\ \A R, bad : All!drop(R, bad) = drop(R, bad)
  /\ \A R, bad : All!shut(R, bad) = shut(R, bad)
  /\ \A R, bad : All!open(R, bad) = open(R, bad)
  /\ \A r, q, bad : All!move(r, q, bad) = move(r, q, bad)
  /\ \A bad : All!call(bad) = call(bad)
  /\ \A limit : All!lower(limit) = lower(limit)
  /\ \A limit : All!restore(limit) = restore(limit)
  /\ \A k, R, bad : All!fork(k, R, bad) = fork(k, R, bad)
  /\ \A k, bad : All!cloneVM(k, bad) = cloneVM(k, bad)
  /\ \A k, bad : All!thread(k, bad) = thread(k, bad)
  /\ \A k, bad : All!wait(k, bad) = wait(k, bad)
  /\ \A k, bad : All!waitExit(k, bad) = waitExit(k, bad)
  /\ \A bad : All!exec(bad) = exec(bad)
  /\ \A R, v : All!await(R, v) = await(R, v)
  /\ All!numa = numa
  /\ All!judge = judge
  /\ All!end = end
  /\ \A R, s : All!keeping(R, s) = keeping(R, s)
  /\ \A l, s : All!labelled(l, s) = labelled(l, s)
  /\ \A s, rest : All!orSkip(s, rest) = orSkip(s, rest)
  /\ \A R, bad : All!fresh(R, bad) = fresh(R, bad)
  /\ \A r : All!OnStack(r) = OnStack(r)
  /\ \A v : All!Resized(v) = Resized(v)
  /\ \A v : All!Oscillated(v) = Oscillated(v)
  /\ All!MovedToFixed = MovedToFixed
  /\ All!Both = Both
  /\ \A r : All!Discarded(r) = Discarded(r)
  /\ \A v : All!Cycle(v) = Cycle(v)
  /\ All!Allocated = Allocated
  /\ All!DataLimit = DataLimit
  /\ All!StackLimit = StackLimit
  /\ All!ProcessLimit = ProcessLimit
  /\ All!CpuLimit = CpuLimit
  BY Zenon DEF All!step, step, All!enable, enable, All!disable, disable, All!invalid,
     invalid, All!query, query, All!map, map, All!mapFile, mapFile, All!write, write,
     All!check, check, All!unmap, unmap, All!drop, drop, All!shut, shut, All!open, open,
     All!move, move, All!call, call, All!lower, lower, All!restore, restore, All!fork, fork,
     All!cloneVM, cloneVM, All!thread, thread, All!wait, wait, All!waitExit, waitExit,
     All!exec, exec, All!await, await, All!numa, numa, All!judge, judge, All!end, end,
     All!keeping, keeping, All!labelled, labelled, All!orSkip, orSkip, All!fresh, fresh,
     All!OnStack, OnStack, All!Resized, Resized, All!Oscillated, Oscillated,
     All!MovedToFixed, MovedToFixed, All!Both, Both, All!Discarded, Discarded, All!Cycle,
     Cycle, All!Allocated, Allocated, All!DataLimit, DataLimit, All!StackLimit, StackLimit,
     All!ProcessLimit, ProcessLimit, All!CpuLimit, CpuLimit

LEMMA SameScripts ==
  /\ All!Main5 = Main5
  /\ All!Main12 = Main12
  /\ All!Main13 = Main13
  /\ All!Main14 = Main14
  /\ All!Main15 = Main15
  /\ All!Main16 = Main16
  /\ All!Main17 = Main17
  /\ All!Main27 = Main27
  /\ All!Main28 = Main28
  /\ All!Main29 = Main29
  /\ All!Main33 = Main33
  /\ All!Main1 = Main1
  /\ All!Main4 = Main4
  /\ All!Main11 = Main11
  /\ All!Main22 = Main22
  /\ All!Main23 = Main23
  /\ All!Main25 = Main25
  /\ All!Main30 = Main30
  /\ All!Main31 = Main31
  /\ All!Main2 = Main2
  /\ All!Child2 = Child2
  /\ All!Main3 = Main3
  /\ All!Child3 = Child3
  /\ All!Main6 = Main6
  /\ All!Replaced6 = Replaced6
  /\ All!Child6 = Child6
  /\ All!Main8 = Main8
  /\ All!Child8 = Child8
  /\ All!Main10 = Main10
  /\ All!Child10 = Child10
  /\ All!Main19 = Main19
  /\ All!Child19 = Child19
  /\ All!Main20 = Main20
  /\ All!Child20 = Child20
  /\ All!Child20Exec = Child20Exec
  /\ \A v0, v1 : All!Worker21(v0, v1) = Worker21(v0, v1)
  /\ All!Main21 = Main21
  /\ All!Main26 = Main26
  /\ All!Child26 = Child26
  BY SameSteps, Zenon DEF All!Main5, Main5, All!Main12, Main12, All!Main13, Main13,
     All!Main14, Main14, All!Main15, Main15, All!Main16, Main16, All!Main17, Main17,
     All!Main27, Main27, All!Main28, Main28, All!Main29, Main29, All!Main33, Main33,
     All!Main1, Main1, All!Main4, Main4, All!Main11, Main11, All!Main22, Main22, All!Main23,
     Main23, All!Main25, Main25, All!Main30, Main30, All!Main31, Main31, All!Main2, Main2,
     All!Child2, Child2, All!Main3, Main3, All!Child3, Child3, All!Main6, Main6,
     All!Replaced6, Replaced6, All!Child6, Child6, All!Main8, Main8, All!Child8, Child8, All!Main10, Main10, All!Child10, Child10,
     All!Main19, Main19, All!Child19, Child19, All!Main20, Main20, All!Child20, Child20,
     All!Child20Exec, Child20Exec, All!Worker21, Worker21, All!Main21, Main21, All!Main26,
     Main26, All!Child26, Child26

LEMMA SameScript == All!Script = Script
  BY SameScripts DEF All!Script, Script

LEMMA SameControl ==
  /\ \A p, n : All!Advance(p, n) <=> Advance(p, n)
  /\ \A u, n : All!After(u, n) = After(u, n)
  /\ \A p, w : All!Doing(p, w) <=> Doing(p, w)
  /\ \A p : All!Proceed(p) <=> Proceed(p)
  /\ \A p, w : All!EndAs(p, w) <=> EndAs(p, w)
  /\ \A p, k : All!Started(p, k) <=> Started(p, k)
  /\ \A p : All!Current(p) = Current(p)
  /\ \A p : All!Ended(p) <=> Ended(p)
  /\ All!Procs = Procs /\ All!Regions = Regions
  /\ \A p, f : All!Refused(p, f) = Refused(p, f)
  BY Zenon DEF All!Advance, Advance, All!After, After, All!Doing, Doing, All!Procs, Procs,
     All!Current, Current, All!Proceed, Proceed, All!EndAs, EndAs, All!Started, Started,
     All!Ended, Ended, All!Regions, Regions, All!Refused, Refused

LEMMA SameWrong ==
  /\ \A p : All!GoesWrong(p) <=> GoesWrong(p)
  /\ \A p, g : All!ProceedIf(p, g) <=> ProceedIf(p, g)
  <1>1. \A u, l : All!ToLabel(u, l) = ToLabel(u, l)
    BY Zenon DEF All!ToLabel, ToLabel, All!SelectInSeq, SelectInSeq, All!Min, Min
  <1>2. \A p : All!GoesWrong(p) <=> GoesWrong(p)
    BY <1>1, SameControl, Zenon DEF All!GoesWrong, GoesWrong
  <1> QED
    BY <1>2, SameControl, Zenon DEF All!ProceedIf, ProceedIf

LEMMA SameBecomes ==
  /\ \A p, R : All!Sharers(p, R) = Sharers(p, R)
  /\ \A f, g : All!Over(f, g) = Over(f, g)
  /\ \A R, v : All!Filled(R, v) = Filled(R, v)
  /\ \A Q, f : All!Changed(Q, f) = Changed(Q, f)
  /\ \A p, R, f, d : All!Becomes(p, R, f, d) <=> Becomes(p, R, f, d)
  /\ All!Nothing = Nothing
  BY Zenon DEF All!Becomes, Becomes, All!Changed, Changed, All!Over, Over, All!Sharers,
     Sharers, All!Filled, Filled, All!OneMemory, OneMemory, All!SharedRegions,
     SharedRegions, All!Procs, Procs, All!Nothing, Nothing

-----------------------------------------------------------------------------
LEMMA MorePossible ==
  ASSUME NEW S, \A a \in S : a.fault \in Known \cup {"none"}
  PROVE  \A a \in Possible(S) : a \in All!Possible(S) /\ a.fault \in Known \cup {"none"}
  <1> DEFINE right == {b \in S : b.fault = "none"}
  <1>1. Possible(S) = right \cup {b \in S : b.fault \in Faults /\ [b EXCEPT !.fault = "none"] \notin right}
    BY Zenon DEF Possible
  <1>2. All!Possible(S) = right \cup {b \in S : b.fault \in Known /\ [b EXCEPT !.fault = "none"] \notin right}
    BY Zenon DEF All!Possible
  <1> QED
    BY <1>1, <1>2, Zenon

LEMMA MoreAnswers ==
  LET More(S, T) == \A a \in S : a \in T /\ a.fault \in Known \cup {"none"} IN
  /\ \A m : /\ More(Enable(m), All!Enable(m)) /\ More(Disable(m), All!Disable(m))
            /\ More(Get(m), All!Get(m)) /\ More(Fork(m), All!Fork(m))
  /\ \A f \in Known : More(Call(f), All!Call(f))
  /\ \A p : More(Damage(p), All!Damage(p))
  /\ \A p, v : More(Mapped(p, v), All!Mapped(p, v))
  /\ \A p, R, v : More(Arriving(p, R, v), All!Arriving(p, R, v))
  /\ \A p, R : More(Reaching(p, R), All!Reaching(p, R))
  <1> USE MorePossible DEF Known
  <1>1. \A m : /\ \A a \in Enable(m) : a \in All!Enable(m) /\ a.fault \in Known \cup {"none"}
               /\ \A a \in Disable(m) : a \in All!Disable(m) /\ a.fault \in Known \cup {"none"}
               /\ \A a \in Get(m) : a \in All!Get(m) /\ a.fault \in Known \cup {"none"}
               /\ \A a \in Fork(m) : a \in All!Fork(m) /\ a.fault \in Known \cup {"none"}
    BY DEF Enable, All!Enable, Disable, All!Disable, Get, All!Get, Fork, All!Fork
  <1>2. \A f \in Known : \A a \in Call(f) : a \in All!Call(f) /\ a.fault \in Known \cup {"none"}
    BY DEF Call, All!Call
  <1>3. \A p : \A a \in Damage(p) : a \in All!Damage(p) /\ a.fault \in Known \cup {"none"}
    <2> SUFFICES ASSUME NEW p
                 PROVE  \A a \in Damage(p) : a \in All!Damage(p) /\ a.fault \in Known \cup {"none"}
      OBVIOUS
    <2> DEFINE S == {[at |-> {}, fault |-> "none"]}
                    \cup {[at |-> {r}, fault |-> "corrupt"] : r \in Current(p).keeps}
    <2>1. Damage(p) = Possible(S) /\ All!Damage(p) = All!Possible(S)
      BY SameControl, Zenon DEF Damage, All!Damage
    <2>2. \A a \in S : a.fault \in Known \cup {"none"}
      OBVIOUS
    <2> HIDE DEF S
    <2> QED
      BY <2>1, <2>2
  <1>4. \A p, v : \A a \in Mapped(p, v) : a \in All!Mapped(p, v) /\ a.fault \in Known \cup {"none"}
    BY SameControl DEF Mapped, All!Mapped
  <1>5. \A p, R, v : \A a \in Arriving(p, R, v) :
          a \in All!Arriving(p, R, v) /\ a.fault \in Known \cup {"none"}
    BY DEF Arriving, All!Arriving
  <1>6. \A p, R : \A a \in Reaching(p, R) :
          a \in All!Reaching(p, R) /\ a.fault \in Known \cup {"none"}
    <2> SUFFICES ASSUME NEW p, NEW R
                 PROVE  \A a \in Reaching(p, R) :
                          a \in All!Reaching(p, R) /\ a.fault \in Known \cup {"none"}
      OBVIOUS
    <2> DEFINE right == Sharers(p, R)
               others == {q \in Procs \ right :
                            state[q] = "running" /\ \A r \in R : mem[q][r] # "none"}
               S == {[who |-> right, fault |-> "none"]}
                    \cup (IF right = {p} THEN {} ELSE {[who |-> {p}, fault |-> "split"]})
                    \cup (IF others = {} THEN {}
                          ELSE {[who |-> right \cup others,
                                 fault |-> IF p = "main" THEN "leakDown" ELSE "leak"]})
    <2>1. Reaching(p, R) = Possible(S)
      BY Zenon DEF Reaching
    <2>2. All!Reaching(p, R) = All!Possible(S)
      BY SameControl, SameBecomes, Zenon DEF All!Reaching
    <2>3. \A a \in S : a.fault \in Known \cup {"none"}
      <3> HIDE DEF right, others
      <3> QED
        OBVIOUS
    <2> HIDE DEF S
    <2> QED
      BY <2>1, <2>2, <2>3
  <1> QED
    BY <1>1, <1>2, <1>3, <1>4, <1>5, <1>6, Zenon

LEMMA MoreStrikes ==
  ASSUME struck \subseteq Known, NEW F, F \subseteq Known \cup {"none"}, Strike(F)
  PROVE  All!Strike(F) /\ struck' \subseteq Known
  <1>1. struck' \subseteq Known
    BY DEF Strike
  <1>2. Cardinality(struck') <= 24
    BY <1>1, KnownIs, FS_Subset, FS_CardinalityType
  <1>3. All!Cardinality(struck') = Cardinality(struck')
    BY Zenon DEF All!Cardinality, Cardinality
  <1> QED
    BY <1>1, <1>2, <1>3 DEF Strike, All!Strike


-----------------------------------------------------------------------------
(***************************************************************************)
(* The actions.                                                            *)
(***************************************************************************)
LEMMA MoreReplication ==
  ASSUME struck \subseteq Known, NEW p, EnableReplication(p) \/ DisableReplication(p)
  PROVE  (All!EnableReplication(p) \/ All!DisableReplication(p)) /\ struck' \subseteq Known
  <1>0. \A f \in Known \cup {"none"} : Refused(p, f) \in Known \cup {"none"}
    BY DEF Refused, Known
  <1>1. CASE EnableReplication(p)
    <2>1. PICK a \in Enable(mask[p]), d \in Damage(p) :
            /\ ProceedIf(p, a.ret = 0)
            /\ mask' = [mask EXCEPT ![p] = a.mask]
            /\ Becomes(p, {}, Nothing, d)
            /\ Strike({IF a.ret = 0 THEN a.fault ELSE Refused(p, a.fault), d.fault})
      BY <1>1 DEF EnableReplication
    <2>2. All!Strike({IF a.ret = 0 THEN a.fault ELSE Refused(p, a.fault), d.fault})
          /\ struck' \subseteq Known
      BY <1>0, <2>1, MoreAnswers, MoreStrikes
    <2>3. a \in All!Enable(mask[p]) /\ d \in All!Damage(p)
      BY MoreAnswers
    <2> QED
      BY <1>1, <2>1, <2>2, <2>3, SameControl, SameWrong, SameBecomes
      DEF EnableReplication, All!EnableReplication
  <1>2. CASE DisableReplication(p)
    <2>1. PICK a \in Disable(mask[p]), d \in Damage(p) :
            /\ ProceedIf(p, a.ret = 0)
            /\ mask' = [mask EXCEPT ![p] = a.mask]
            /\ Becomes(p, {}, Nothing, d)
            /\ Strike({IF a.ret = 0 THEN a.fault ELSE Refused(p, a.fault), d.fault})
      BY <1>2 DEF DisableReplication
    <2>2. All!Strike({IF a.ret = 0 THEN a.fault ELSE Refused(p, a.fault), d.fault})
          /\ struck' \subseteq Known
      BY <1>0, <2>1, MoreAnswers, MoreStrikes
    <2>3. a \in All!Disable(mask[p]) /\ d \in All!Damage(p)
      BY MoreAnswers
    <2> QED
      BY <1>2, <2>1, <2>2, <2>3, SameControl, SameWrong, SameBecomes
      DEF DisableReplication, All!DisableReplication
  <1> QED
    BY <1>1, <1>2

LEMMA MoreInvalid ==
  ASSUME struck \subseteq Known, NEW p, EnableInvalid(p)
  PROVE  All!EnableInvalid(p) /\ struck' \subseteq Known
  <1>1. PICK a \in Call("accept") :
          /\ ProceedIf(p, ~a.ok) /\ Strike({a.fault})
          /\ mask' = IF a.ok THEN mask ELSE [mask EXCEPT ![p] = 1]
    BY DEF EnableInvalid
  <1>2. a \in All!Call("accept") /\ a.fault \in Known \cup {"none"}
    BY MoreAnswers DEF Known
  <1>3. All!Strike({a.fault}) /\ struck' \subseteq Known
    BY <1>1, <1>2, MoreStrikes
  <1> QED
    BY <1>1, <1>2, <1>3, SameControl, SameWrong
    DEF EnableInvalid, All!EnableInvalid, memory, All!memory

LEMMA MoreQuery ==
  ASSUME struck \subseteq Known, NEW p, QueryReplication(p)
  PROVE  All!QueryReplication(p) /\ struck' \subseteq Known
  <1>1. PICK a \in Get(mask[p]) : ProceedIf(p, Satisfies(a.ret, Current(p).val)) /\ Strike({a.fault})
    BY DEF QueryReplication
  <1>2. a \in All!Get(mask[p]) /\ a.fault \in Known \cup {"none"}
    BY MoreAnswers
  <1>3. All!Strike({a.fault}) /\ struck' \subseteq Known
    BY <1>1, <1>2, MoreStrikes
  <1>4. \A r, w : All!Satisfies(r, w) <=> Satisfies(r, w)
    BY Zenon DEF Satisfies, All!Satisfies
  <1> QED
    BY <1>1, <1>2, <1>3, <1>4, SameControl, SameWrong
    DEF QueryReplication, All!QueryReplication, memory, All!memory

LEMMA MoreMap ==
  ASSUME struck \subseteq Known, NEW p, MapMemory(p)
  PROVE  All!MapMemory(p) /\ struck' \subseteq Known
  <1> DEFINE s == Current(p)
  <1>1. All!Current(p) = s /\ (All!Doing(p, "map") <=> Doing(p, "map"))
    BY SameControl
  <1>2. ASSUME NEW a \in Mapped(p, s.val), NEW d \in Damage(p), Proceed(p),
               Becomes(p, s.at, Filled(s.at, a.val), d), Strike({a.fault, d.fault})
        PROVE  All!MapMemory(p) /\ struck' \subseteq Known
    <2>1. /\ a \in All!Mapped(p, s.val) /\ a.fault \in Known \cup {"none"}
          /\ d \in All!Damage(p) /\ d.fault \in Known \cup {"none"}
      BY MoreAnswers
    <2>2. All!Strike({a.fault, d.fault}) /\ struck' \subseteq Known
      BY <1>2, <2>1, MoreStrikes
    <2>3. All!Proceed(p) /\ All!Becomes(p, s.at, All!Filled(s.at, a.val), d)
      BY <1>2, SameControl, SameBecomes
    <2> QED
      BY <1>1, <2>1, <2>2, <2>3 DEF MapMemory, All!MapMemory
  <1>3. CASE /\ Refused(p, "nomem") \in Faults /\ GoesWrong(p) /\ UNCHANGED mem
             /\ Strike({Refused(p, "nomem")})
    <2>1. Refused(p, "nomem") \in Known /\ All!Refused(p, "nomem") = Refused(p, "nomem")
      BY SameControl DEF Refused, Known
    <2>2. All!Strike({Refused(p, "nomem")}) /\ struck' \subseteq Known
      BY <1>3, <2>1, MoreStrikes
    <2>3. All!GoesWrong(p)
      BY <1>3, SameWrong
    <2> QED
      BY <1>1, <1>3, <2>1, <2>2, <2>3 DEF MapMemory, All!MapMemory
  <1> QED
    BY <1>2, <1>3 DEF MapMemory

LEMMA MoreWrite ==
  ASSUME struck \subseteq Known, NEW p, WriteMemory(p)
  PROVE  All!WriteMemory(p) /\ struck' \subseteq Known
  <1> DEFINE s == Current(p)
  <1>1. PICK a \in Arriving(p, s.at, s.val), b \in Reaching(p, s.at), d \in Damage(p) :
          /\ mem' = Changed(b.who, Over(Filled(d.at, "bad"), Filled(a.at, s.val)))
          /\ Strike({a.fault, b.fault, d.fault})
    BY DEF WriteMemory
  <1>2. /\ a \in All!Arriving(p, s.at, s.val) /\ a.fault \in Known \cup {"none"}
        /\ b \in All!Reaching(p, s.at) /\ b.fault \in Known \cup {"none"}
        /\ d \in All!Damage(p) /\ d.fault \in Known \cup {"none"}
    BY MoreAnswers
  <1>3. All!Strike({a.fault, b.fault, d.fault}) /\ struck' \subseteq Known
    BY <1>1, <1>2, MoreStrikes
  <1>4. mem' = All!Changed(b.who, All!Over(All!Filled(d.at, "bad"), All!Filled(a.at, s.val)))
    BY <1>1, SameBecomes
  <1>5. /\ All!Doing(p, "write") /\ All!Proceed(p) /\ All!Current(p) = s
        /\ UNCHANGED <<closed, mask, lowered>>
    BY SameControl DEF WriteMemory
  <1> QED
    BY <1>2, <1>3, <1>4, <1>5 DEF All!WriteMemory

LEMMA MoreUnmap ==
  ASSUME struck \subseteq Known, NEW p, UnmapMemory(p)
  PROVE  All!UnmapMemory(p) /\ struck' \subseteq Known
  <1> DEFINE s == Current(p)
  <1>1. PICK a \in Call("unmap"), d \in Damage(p) :
          /\ a.ok \/ s.bad # "ignore"
          /\ ProceedIf(p, a.ok)
          /\ Becomes(p, s.at, IF a.ok THEN Filled(s.at, "none") ELSE Nothing, d)
          /\ Strike({a.fault, d.fault})
    BY DEF UnmapMemory
  <1>2. /\ a \in All!Call("unmap") /\ a.fault \in Known \cup {"none"}
        /\ d \in All!Damage(p) /\ d.fault \in Known \cup {"none"}
    BY MoreAnswers DEF Known
  <1>3. All!Strike({a.fault, d.fault}) /\ struck' \subseteq Known
    BY <1>1, <1>2, MoreStrikes
  <1>4. All!Becomes(p, s.at, IF a.ok THEN All!Filled(s.at, "none") ELSE All!Nothing, d)
    BY <1>1, SameBecomes
  <1>5. /\ All!Doing(p, "unmap") /\ All!Current(p) = s /\ All!ProceedIf(p, a.ok)
        /\ UNCHANGED <<closed, mask, lowered>>
    BY <1>1, SameControl, SameWrong DEF UnmapMemory
  <1> QED
    BY <1>1, <1>2, <1>3, <1>4, <1>5 DEF All!UnmapMemory

LEMMA MoreDrop ==
  ASSUME struck \subseteq Known, NEW p, DropMemory(p)
  PROVE  All!DropMemory(p) /\ struck' \subseteq Known
  <1> DEFINE s == Current(p)
  <1>1. /\ All!Doing(p, "drop") /\ All!Current(p) = s
        /\ UNCHANGED <<closed, mask, lowered>>
    BY SameControl DEF DropMemory
  <1>2. ASSUME NEW stale \in SUBSET {r \in s.at : mem[p][r] # "zero"}, NEW d \in Damage(p),
               Proceed(p), Becomes(p, s.at, Filled(s.at \ stale, "zero"), d),
               Strike({IF stale = {} THEN "none" ELSE "stale", d.fault})
        PROVE  All!DropMemory(p) /\ struck' \subseteq Known
    <2>1. d \in All!Damage(p) /\ d.fault \in Known \cup {"none"} /\ "stale" \in Known
      BY MoreAnswers DEF Known
    <2>2. All!Strike({IF stale = {} THEN "none" ELSE "stale", d.fault}) /\ struck' \subseteq Known
      BY <1>2, <2>1, MoreStrikes
    <2>3. All!Proceed(p) /\ All!Becomes(p, s.at, All!Filled(s.at \ stale, "zero"), d)
      BY <1>2, SameControl, SameBecomes
    <2> QED
      BY <1>1, <2>1, <2>2, <2>3 DEF All!DropMemory
  <1>3. CASE GoesWrong(p) /\ UNCHANGED mem /\ Strike({"call"})
    <2>1. All!GoesWrong(p) /\ "call" \in Known
      BY <1>3, SameWrong DEF Known
    <2>2. All!Strike({"call"}) /\ struck' \subseteq Known
      BY <1>3, <2>1, MoreStrikes
    <2> QED
      BY <1>1, <1>3, <2>1, <2>2 DEF All!DropMemory
  <1> QED
    BY <1>2, <1>3 DEF DropMemory

LEMMA MoreProtect ==
  ASSUME struck \subseteq Known, NEW p, ProtectMemory(p)
  PROVE  All!ProtectMemory(p) /\ struck' \subseteq Known
  <1>1. PICK a \in Call("call") :
          /\ ProceedIf(p, a.ok) /\ Strike({a.fault})
          /\ closed' = IF ~a.ok THEN closed
                       ELSE IF Current(p).do = "shut" THEN closed \cup Current(p).at
                       ELSE closed \ Current(p).at
    BY DEF ProtectMemory
  <1>2. a \in All!Call("call") /\ a.fault \in Known \cup {"none"}
    BY MoreAnswers DEF Known
  <1>3. All!Strike({a.fault}) /\ struck' \subseteq Known
    BY <1>1, <1>2, MoreStrikes
  <1>4. /\ All!Doing(p, "shut") \/ All!Doing(p, "open")
        /\ All!Current(p) = Current(p) /\ All!ProceedIf(p, a.ok)
        /\ UNCHANGED <<mem, mask, lowered>>
    BY <1>1, SameControl, SameWrong DEF ProtectMemory
  <1> QED
    BY <1>1, <1>2, <1>3, <1>4 DEF All!ProtectMemory

LEMMA MoreMove ==
  ASSUME struck \subseteq Known, NEW p, MoveMemory(p)
  PROVE  All!MoveMemory(p) /\ struck' \subseteq Known
  <1> DEFINE s == Current(p)
             f == [r \in s.at \cup {s.val} |->
                     IF r \in s.at THEN "none" ELSE mem[p][CHOOSE q \in s.at : TRUE]]
  <1>1. PICK a \in Call("call"), d \in Damage(p) :
          /\ ProceedIf(p, a.ok)
          /\ a.ok \/ d.at = {}
          /\ Becomes(p, s.at, IF a.ok THEN f ELSE Nothing, d)
          /\ Strike({a.fault, d.fault})
    BY DEF MoveMemory
  <1>2. /\ a \in All!Call("call") /\ a.fault \in Known \cup {"none"}
        /\ d \in All!Damage(p) /\ d.fault \in Known \cup {"none"}
    BY MoreAnswers DEF Known
  <1>3. All!Strike({a.fault, d.fault}) /\ struck' \subseteq Known
    BY <1>1, <1>2, MoreStrikes
  <1>4. All!Becomes(p, s.at, IF a.ok THEN f ELSE All!Nothing, d)
    BY <1>1, SameBecomes
  <1>5. /\ All!Doing(p, "move") /\ All!Current(p) = s /\ All!ProceedIf(p, a.ok)
        /\ UNCHANGED <<closed, mask, lowered>>
    BY <1>1, SameControl, SameWrong DEF MoveMemory
  <1>6. All!Becomes(p, All!Current(p).at,
                    IF a.ok
                      THEN [r \in All!Current(p).at \cup {All!Current(p).val} |->
                              IF r \in All!Current(p).at THEN "none"
                              ELSE mem[p][CHOOSE q \in All!Current(p).at : TRUE]]
                      ELSE All!Nothing, d)
    BY <1>4, <1>5
  <1>7. \E b \in All!Call("call"), e \in All!Damage(p) :
          /\ All!ProceedIf(p, b.ok)
          /\ b.ok \/ e.at = {}
          /\ All!Becomes(p, All!Current(p).at,
                         IF b.ok
                           THEN [r \in All!Current(p).at \cup {All!Current(p).val} |->
                                   IF r \in All!Current(p).at THEN "none"
                                   ELSE mem[p][CHOOSE q \in All!Current(p).at : TRUE]]
                           ELSE All!Nothing, e)
          /\ All!Strike({b.fault, e.fault})
    BY <1>1, <1>2, <1>3, <1>5, <1>6
  <1> QED
    BY <1>3, <1>5, <1>7 DEF All!MoveMemory

LEMMA MoreCall ==
  ASSUME struck \subseteq Known, NEW p, OtherCall(p)
  PROVE  All!OtherCall(p) /\ struck' \subseteq Known
  <1>1. PICK a \in Call(Refused(p, "call")), d \in Damage(p) :
          ProceedIf(p, a.ok) /\ Becomes(p, {}, Nothing, d) /\ Strike({a.fault, d.fault})
    BY DEF OtherCall
  <1>2. Refused(p, "call") \in Known /\ All!Refused(p, "call") = Refused(p, "call")
    BY SameControl DEF Refused, Known
  <1>3. /\ a \in All!Call(Refused(p, "call")) /\ a.fault \in Known \cup {"none"}
        /\ d \in All!Damage(p) /\ d.fault \in Known \cup {"none"}
    BY <1>2, MoreAnswers
  <1>4. All!Strike({a.fault, d.fault}) /\ struck' \subseteq Known
    BY <1>1, <1>3, MoreStrikes
  <1>5. /\ All!Doing(p, "call") /\ All!ProceedIf(p, a.ok) /\ All!Becomes(p, {}, All!Nothing, d)
        /\ UNCHANGED <<closed, mask, lowered>>
    BY <1>1, SameControl, SameWrong, SameBecomes DEF OtherCall
  <1> QED
    BY <1>2, <1>3, <1>4, <1>5 DEF All!OtherCall

LEMMA MoreLower ==
  ASSUME struck \subseteq Known, NEW p, LowerLimit(p)
  PROVE  All!LowerLimit(p) /\ struck' \subseteq Known
  <1>1. PICK a \in Call("optional") :
          /\ ProceedIf(p, a.ok) /\ Strike({a.fault})
          /\ lowered' = IF a.ok THEN lowered \cup {Current(p).val} ELSE lowered
    BY DEF LowerLimit
  <1>2. a \in All!Call("optional") /\ a.fault \in Known \cup {"none"}
    BY MoreAnswers DEF Known
  <1>3. All!Strike({a.fault}) /\ struck' \subseteq Known
    BY <1>1, <1>2, MoreStrikes
  <1> QED
    BY <1>1, <1>2, <1>3, SameControl, SameWrong
    DEF LowerLimit, All!LowerLimit, memory, All!memory

LEMMA MoreFork ==
  ASSUME struck \subseteq Known, NEW p, ForkProcess(p)
  PROVE  All!ForkProcess(p) /\ struck' \subseteq Known
  <1> DEFINE s == Current(p)
             k == s.val
             S == {[at |-> {}, fault |-> "none"]} \cup {[at |-> {r}, fault |-> "badCopy"] : r \in s.at}
  <1>1. PICK a \in Fork(mask[p]), d \in Damage(p), c \in Possible(S) :
          /\ mask' = [mask EXCEPT ![p] = a.parent, ![k] = a.child]
          /\ IF a.ret = 1
             THEN /\ Started(p, k)
                  /\ mem' = [mem EXCEPT ![p] = Over(Filled(d.at, "bad"), mem[p]),
                                        ![k] = Over(Filled(c.at, "bad"), mem[p])]
             ELSE /\ GoesWrong(p)
                  /\ c.at = {} /\ d.at = {}
                  /\ UNCHANGED mem
          /\ Strike({a.fault, c.fault, d.fault})
    BY DEF ForkProcess
  <1>2. /\ a \in All!Fork(mask[p]) /\ a.fault \in Known \cup {"none"}
        /\ d \in All!Damage(p) /\ d.fault \in Known \cup {"none"}
    BY MoreAnswers
  <1>3. c \in All!Possible(S) /\ c.fault \in Known \cup {"none"}
    <2>1. \A x \in S : x.fault \in Known \cup {"none"}
      BY DEF Known
    <2> HIDE DEF S
    <2> QED
      BY <2>1, MorePossible
  <1>4. All!Strike({a.fault, c.fault, d.fault}) /\ struck' \subseteq Known
    BY <1>1, <1>2, <1>3, MoreStrikes
  <1>5. IF a.ret = 1
        THEN /\ All!Started(p, k)
             /\ mem' = [mem EXCEPT ![p] = All!Over(All!Filled(d.at, "bad"), mem[p]),
                                   ![k] = All!Over(All!Filled(c.at, "bad"), mem[p])]
        ELSE /\ All!GoesWrong(p)
             /\ c.at = {} /\ d.at = {}
             /\ UNCHANGED mem
    BY <1>1, SameControl, SameWrong, SameBecomes
  <1>6. /\ All!Doing(p, "fork") /\ All!Current(p) = s /\ UNCHANGED <<closed, lowered>>
    BY SameControl DEF ForkProcess
  <1> QED
    BY <1>1, <1>2, <1>3, <1>4, <1>5, <1>6 DEF All!ForkProcess

LEMMA MoreThread ==
  ASSUME struck \subseteq Known, NEW p, CreateThread(p)
  PROVE  All!CreateThread(p) /\ struck' \subseteq Known
  <1>1. PICK a \in Call("call") :
          /\ IF a.ok THEN Started(p, Current(p).val) ELSE GoesWrong(p)
          /\ Strike({a.fault})
    BY DEF CreateThread
  <1>2. a \in All!Call("call") /\ a.fault \in Known \cup {"none"}
    BY MoreAnswers DEF Known
  <1>3. All!Strike({a.fault}) /\ struck' \subseteq Known
    BY <1>1, <1>2, MoreStrikes
  <1> QED
    BY <1>1, <1>2, <1>3, SameControl, SameWrong
    DEF CreateThread, All!CreateThread, memory, All!memory

LEMMA MoreClone ==
  ASSUME struck \subseteq Known, NEW p, CloneVM(p)
  PROVE  All!CloneVM(p) /\ struck' \subseteq Known
  <1> DEFINE s == Current(p)
             k == s.val
             S == {[mask |-> 0, fault |-> "none"], [mask |-> mask[p], fault |-> "keepVM"]}
  <1>1. All!Doing(p, "cloneVM") /\ All!Current(p) = s /\ UNCHANGED <<closed, lowered>>
    BY SameControl DEF CloneVM
  <1>2. ASSUME NEW keep \in Possible(S), Started(p, k),
               mask' = [mask EXCEPT ![p] = keep.mask, ![k] = keep.mask],
               mem' = [mem EXCEPT ![k] = mem[p]], Strike({keep.fault})
        PROVE  All!CloneVM(p) /\ struck' \subseteq Known
    <2>1. keep \in All!Possible(S) /\ keep.fault \in Known \cup {"none"}
      <3>1. \A x \in S : x.fault \in Known \cup {"none"}
        BY DEF Known
      <3> HIDE DEF S
      <3> QED
        BY <3>1, MorePossible
    <2>2. All!Strike({keep.fault}) /\ struck' \subseteq Known
      BY <1>2, <2>1, MoreStrikes
    <2>3. All!Started(p, k)
      BY <1>2, SameControl
    <2> QED
      BY <1>1, <1>2, <2>1, <2>2, <2>3 DEF All!CloneVM
  <1>3. CASE /\ Advance(p, 1 + s.skip) /\ Strike({"optional"})
             /\ UNCHANGED <<test, state, pass, printed, mask, mem>>
    <2>1. All!Advance(p, 1 + s.skip) /\ "optional" \in Known
      BY <1>3, SameControl DEF Known
    <2>2. All!Strike({"optional"}) /\ struck' \subseteq Known
      BY <1>3, <2>1, MoreStrikes
    <2> QED
      BY <1>1, <1>3, <2>1, <2>2 DEF All!CloneVM
  <1>4. CASE GoesWrong(p) /\ Strike({"fork"}) /\ UNCHANGED <<mask, mem>>
    <2>1. All!GoesWrong(p) /\ "fork" \in Known
      BY <1>4, SameWrong DEF Known
    <2>2. All!Strike({"fork"}) /\ struck' \subseteq Known
      BY <1>4, <2>1, MoreStrikes
    <2> QED
      BY <1>1, <1>4, <2>1, <2>2 DEF All!CloneVM
  <1> QED
    BY <1>2, <1>3, <1>4 DEF CloneVM

LEMMA MoreExec ==
  ASSUME struck \subseteq Known, NEW p, Exec(p)
  PROVE  All!Exec(p) /\ struck' \subseteq Known
  <1> DEFINE S == {[mask |-> 0, fault |-> "none"], [mask |-> mask[p], fault |-> "execKeeps"]}
  <1>1. All!Doing(p, "exec") /\ UNCHANGED <<closed, lowered>>
    BY SameControl DEF Exec
  <1>2. ASSUME NEW keep \in Possible(S), Proceed(p), mask' = [mask EXCEPT ![p] = keep.mask],
               mem' = [mem EXCEPT ![p] = Filled(Regions, "none")], Strike({keep.fault})
        PROVE  All!Exec(p) /\ struck' \subseteq Known
    <2>1. keep \in All!Possible(S) /\ keep.fault \in Known \cup {"none"}
      <3>1. \A x \in S : x.fault \in Known \cup {"none"}
        BY DEF Known
      <3> HIDE DEF S
      <3> QED
        BY <3>1, MorePossible
    <2>2. All!Strike({keep.fault}) /\ struck' \subseteq Known
      BY <1>2, <2>1, MoreStrikes
    <2>3. All!Proceed(p) /\ mem' = [mem EXCEPT ![p] = All!Filled(All!Regions, "none")]
      BY <1>2, SameControl, SameBecomes
    <2> QED
      BY <1>1, <1>2, <2>1, <2>2, <2>3 DEF All!Exec
  <1>3. CASE GoesWrong(p) /\ Strike({Refused(p, "call")}) /\ UNCHANGED <<mask, mem>>
    <2>1. /\ Refused(p, "call") \in Known /\ All!Refused(p, "call") = Refused(p, "call")
          /\ All!GoesWrong(p)
      BY <1>3, SameControl, SameWrong DEF Refused, Known
    <2>2. All!Strike({Refused(p, "call")}) /\ struck' \subseteq Known
      BY <1>3, <2>1, MoreStrikes
    <2> QED
      BY <1>1, <1>3, <2>1, <2>2 DEF All!Exec
  <1> QED
    BY <1>2, <1>3 DEF Exec

LEMMA MoreKilled ==
  ASSUME struck \subseteq Known, NEW k, ChildKilled(k)
  PROVE  All!ChildKilled(k) /\ struck' \subseteq Known
  <1>1. /\ All!Procs = Procs /\ All!EndAs(k, "killed") /\ (All!Doomed(k) <=> Doomed(k))
        /\ UNCHANGED <<memory, mask, lowered>> /\ k \in Procs \ {"main"}
        /\ state[k] = "running" /\ test # "test3"
    BY SameControl
    DEF ChildKilled, Doomed, All!Doomed, StackFreed, All!StackFreed, Signalled, All!Signalled
  <1>2. CASE Doomed(k) /\ UNCHANGED struck
    BY <1>1, <1>2 DEF All!ChildKilled, memory, All!memory
  <1>3. CASE ~Doomed(k) /\ Strike({"killed"})
    <2>1. "killed" \in Known
      BY DEF Known
    <2>2. All!Strike({"killed"}) /\ struck' \subseteq Known
      BY <1>3, <2>1, MoreStrikes
    <2> QED
      BY <1>1, <1>3, <2>1, <2>2 DEF All!ChildKilled, memory, All!memory
  <1> QED
    BY <1>2, <1>3 DEF ChildKilled

\* The actions in which nothing can strike.
LEMMA SameActions ==
  ASSUME NEW p
  PROVE  /\ CheckMemory(p) => All!CheckMemory(p) /\ UNCHANGED struck
         /\ RestoreLimit(p) => All!RestoreLimit(p) /\ UNCHANGED struck
         /\ WaitForProcess(p) => All!WaitForProcess(p) /\ UNCHANGED struck
         /\ Await(p) => All!Await(p) /\ UNCHANGED struck
         /\ CheckNodes(p) => All!CheckNodes(p) /\ UNCHANGED struck
         /\ Judge(p) => All!Judge(p) /\ UNCHANGED struck
         /\ Return(p) => All!Return(p) /\ UNCHANGED struck
  <1> USE SameControl, SameWrong DEF memory, All!memory
  <1>1. CheckMemory(p) => All!CheckMemory(p) /\ UNCHANGED struck
    <2>1. \A v : All!Byte(v) = Byte(v)
      BY DEF Byte, All!Byte
    <2> QED
      BY <2>1 DEF CheckMemory, All!CheckMemory
  <1>2. RestoreLimit(p) => All!RestoreLimit(p) /\ UNCHANGED struck
    BY DEF RestoreLimit, All!RestoreLimit
  <1>3. WaitForProcess(p) => All!WaitForProcess(p) /\ UNCHANGED struck
    BY DEF WaitForProcess, All!WaitForProcess
  <1>4. Await(p) => All!Await(p) /\ UNCHANGED struck
    BY DEF Await, All!Await
  <1>5. CheckNodes(p) => All!CheckNodes(p) /\ UNCHANGED struck
    BY DEF CheckNodes, All!CheckNodes
  <1>6. Judge(p) => All!Judge(p) /\ UNCHANGED struck
    BY DEF Judge, All!Judge
  <1>7. Return(p) => All!Return(p) /\ UNCHANGED struck
    BY DEF Return, All!Return
  <1> QED
    BY <1>1, <1>2, <1>3, <1>4, <1>5, <1>6, <1>7

LEMMA MoreSteps ==
  ASSUME struck \subseteq Known, [Next]_vars
  PROVE  [All!Next]_(All!vars) /\ struck' \subseteq Known
  <1>1. ASSUME NEW p \in AllProcs, Step(p)
        PROVE  (\E q \in AllProcs : All!Step(q)) /\ struck' \subseteq Known
    <2>1. All!Step(p) /\ struck' \subseteq Known
      BY <1>1, MoreReplication, MoreInvalid, MoreQuery, MoreMap, MoreWrite, MoreUnmap,
         MoreDrop, MoreProtect, MoreMove, MoreCall, MoreLower, MoreFork, MoreClone,
         MoreThread, MoreExec, SameActions
      DEF Step, All!Step
    <2> QED
      BY <2>1
  <1>2. ASSUME NEW k \in AllProcs, ChildKilled(k)
        PROVE  (\E q \in AllProcs : All!ChildKilled(q)) /\ struck' \subseteq Known
    BY <1>2, MoreKilled
  <1>3. vars = All!vars /\ vars' = All!vars'
    BY DEF vars, All!vars, control, All!control, memory, All!memory
  <1>4. CASE UNCHANGED vars
    BY <1>3, <1>4 DEF vars, control
  <1>5. AllProcs = All!AllProcs
    BY DEF AllProcs, All!AllProcs
  <1> QED
    BY <1>1, <1>2, <1>4, <1>5 DEF Next, All!Next, Done

\* Whatever set of faults an environment may show and however many at once, the
\* programs do nothing that they may not do where all may strike.
THEOREM FewerFaults == Spec => All!Spec
  <1>1. Init => All!Init /\ struck \subseteq Known
    <2> SUFFICES ASSUME Init PROVE All!Init /\ struck \subseteq Known
      OBVIOUS
    <2>1. \A t : All!ProcsOf(t) = ProcsOf(t)
      BY SameScript DEF ProcsOf, All!ProcsOf
    <2>2. All!Tests = Tests /\ All!Static = Static /\ All!Procs = Procs
      BY SameScript, SameControl DEF Tests, All!Tests, Static, All!Static
    <2>3. \A t : All!StepsOf(t) = StepsOf(t)
      <3> SUFFICES ASSUME NEW t PROVE All!StepsOf(t) = StepsOf(t)
        OBVIOUS
      <3>1. \A x : x \in StepsOf(t) <=>
                     \E p \in ProcsOf(t) : \E i \in DOMAIN Script[t][p] : x = Script[t][p][i]
        BY DEF StepsOf
      <3>2. \A x : x \in All!StepsOf(t) <=>
                     \E p \in All!ProcsOf(t) :
                       \E i \in DOMAIN All!Script[t][p] : x = All!Script[t][p][i]
        BY DEF All!StepsOf
      <3>3. \A x : x \in All!StepsOf(t) <=> x \in StepsOf(t)
        BY <2>1, <3>1, <3>2, SameScript
      <3> QED
        BY <3>3, Zenon
    <2>4. \A t : All!RegionsOf(t) = RegionsOf(t)
      BY <2>3, Zenon DEF RegionsOf, All!RegionsOf
    <2> QED
      BY SameScript, <2>1, <2>2, <2>4 DEF Init, All!Init
  <1>2. /\ struck \subseteq Known
        /\ [Next]_vars
        => [All!Next]_(All!vars) /\ (struck \subseteq Known)'
    BY MoreSteps
  <1> QED
    BY <1>1, <1>2, PTL DEF Spec, All!Spec

=============================================================================
