------------------------ MODULE ScriptedFaults_proofs ------------------------
(***************************************************************************)
(* What the faults that may strike mean for the scripted programs.         *)
(*                                                                         *)
(* First, no program fails for what it may be refused: as long as nothing  *)
(* else goes wrong, every process finds the mask and the memory that       *)
(* ScriptOutlines computes for the place it is at.                         *)
(*                                                                         *)
(* Then, no program passes where something has gone wrong, other than what *)
(* it is known to overlook: a fault that strikes leaves a mask or contents *)
(* that the steps still to come do not tolerate, as ScriptDemands computes *)
(* it, and what they do not tolerate stays there until one of them fails.  *)
(***************************************************************************)
EXTENDS ScriptDemands, ScriptedTests_proofs

\* Nothing has struck that a program may fail for.
Quiet == struck \subseteq {"optional"} /\ (test = "test25" => struck = {})

NoneFailed == \A p \in Procs : state[p] \in {"absent", "running", "ok"} /\ pass[p]

\* What each process wants it finds, in main too where it is to leave it there.
InPlace ==
  \A p \in Procs : state[p] = "running" =>
    /\ mask[p] \in Wants(test, p, todo[p]).masks
    /\ \A d \in Wants(test, p, todo[p]).holds :
         /\ mem[p][d[1]] = d[2]
         /\ d[1] \in PromisedBy(test, p) => mem["main"][d[1]] = d[2]

\* What a child has left for main is there until main has waited for the child.
Delivered ==
  \A k \in Children : state[k] = "ok" /\ k \in Pending(todo["main"]) =>
    \A d \in Promises(test, k) : mem["main"][d[1]] = d[2]

InOrder == NoneFailed /\ InPlace /\ Delivered

Untroubled == state["main"] # "absent" /\ (Quiet => InOrder)

-----------------------------------------------------------------------------
(***************************************************************************)
(* What a step of p does while nothing goes wrong.                         *)
(***************************************************************************)
SameMemory == \A q \in Procs : \A r \in RegionsOf(test) : mem'[q][r] = mem[q][r]
SameMask == \A q \in Procs : mask'[q] = mask[q]

\* What a region holds after the step s, which changes it.
Value(p, s, r) ==
  IF s.do = "write" THEN s.val
  ELSE IF s.do = "drop" THEN "zero"
  ELSE IF s.do = "unmap" THEN "none"
  ELSE IF s.do = "map" THEN IF s.val \in RegionsOf(test) THEN mem[p][s.val] ELSE s.val
  ELSE IF r \in s.at THEN "none" ELSE mem[p][CHOOSE q \in s.at : TRUE]

\* Whoever shares the regions sees what the step makes of them, and nothing else
\* changes.
RightOnMemory(p) ==
  LET s == Here(p) IN
  \A q \in Procs : \A r \in RegionsOf(test) :
    mem'[q][r] = IF q \in Sharers(p, s.at) /\ r \in Changes(s) THEN Value(p, s, r)
                 ELSE mem[q][r]

Goes(p) ==
  LET s == Here(p) IN
  /\ s.do \notin MakesProcess \cup {"end", "invalid"}
  /\ s.do \in WaitsFor => state[s.val] = "ok"
  /\ GoTo(p, After(todo[p], 1)) /\ UNCHANGED pass
  /\ \A q \in Procs : mask'[q] = IF q = p THEN NextMask(s, mask[p]) ELSE mask[q]
  /\ IF s.do = "exec" THEN \A q \in Procs \ {p} : mem'[q] = mem[q] ELSE RightOnMemory(p)

Skips(p) ==
  /\ MaySkip(test, Here(p))
  /\ GoTo(p, After(todo[p], 1 + Here(p).skip)) /\ UNCHANGED pass
  /\ SameMemory /\ SameMask

Begets(p) ==
  LET s == Here(p) IN
  /\ s.do \in MakesProcess /\ Started(p, s.val)
  /\ IF s.do = "thread" THEN UNCHANGED <<mem, mask>>
     ELSE /\ \A q \in Procs : mem'[q] = IF q = s.val THEN mem[p] ELSE mem[q]
          /\ \A q \in Procs : mask'[q] = IF q = s.val THEN 0
                                         ELSE IF q = p THEN NextMask(s, mask[p])
                                         ELSE mask[q]

Halts(p) ==
  /\ \/ Here(p).do \in {"numa", "end"} /\ EndAs(p, "ok")
     \/ UNCHANGED <<test, todo, state, pass>>
  /\ UNCHANGED <<mem, mask>>

Orderly(p) == Goes(p) \/ Skips(p) \/ Begets(p) \/ Halts(p)

LEMMA NoFault ==
  ASSUME Quiet', UNCHANGED test, NEW F, Strike(F)
  PROVE  F \subseteq {"none", "optional"} /\ (test = "test25" => F \subseteq {"none"})
  BY DEF Quiet, Strike

LEMMA NoDamage ==
  ASSUME ControlOK, NEW p \in Procs, NEW d \in Damage(p), d.fault \in {"none", "optional"}
  PROVE  d.at = {}
  BY DamageIs

LEMMA Ignored ==
  ASSUME NEW p, GoesWrong(p), Here(p).bad = "ignore"
  PROVE  GoTo(p, After(todo[p], 1 + Here(p).skip)) /\ UNCHANGED pass
  BY DEF GoesWrong, Current, Here, Advance, GoTo

LEMMA Proceeded ==
  ASSUME NEW p, Proceed(p)
  PROVE  GoTo(p, After(todo[p], 1)) /\ UNCHANGED pass
  BY DEF Proceed, Advance, GoTo

LEMMA BecomesRight ==
  ASSUME ControlOK, MemoryOK, NEW p \in Procs, NEW d, d.at = {}, NEW R, NEW f,
         IsPatch(f), Becomes(p, R, f, d)
  PROVE  \A q \in Procs : \A r \in RegionsOf(test) :
           mem'[q][r] = IF q \in Sharers(p, R) /\ r \in DOMAIN f THEN f[r] ELSE mem[q][r]
  <1> DEFINE g == Over(Filled(d.at, "bad"), f)
  <1>1. IsPatch(g) /\ DOMAIN g = DOMAIN f /\ \A r \in DOMAIN f : g[r] = f[r]
    BY DEF Over, Filled, IsPatch
  <1> HIDE DEF g
  <1>2. mem' = Changed(Sharers(p, R), g)
    BY DEF Becomes, g
  <1> QED
    BY <1>1, <1>2, ChangedIs

LEMMA BecomesNothing ==
  ASSUME ControlOK, MemoryOK, NEW p \in Procs, NEW d, d.at = {}, NEW R, Becomes(p, R, Nothing, d)
  PROVE  SameMemory
  BY NothingIsPatch, BecomesRight DEF SameMemory

\* Of the steps that leave all memory alone.
LEMMA RightIfSame ==
  ASSUME NEW p, SameMemory, Changes(Here(p)) = {}
  PROVE  RightOnMemory(p)
  BY DEF RightOnMemory, SameMemory

LEMMA UnchangedIsSame == ASSUME UNCHANGED mem PROVE SameMemory
  BY DEF SameMemory

\* Of the answer a to enabling or disabling replication.
LEMMA AnswerOrderly ==
  ASSUME ControlOK, MemoryOK, NEW p \in Procs, Quiet', UNCHANGED test,
         NEW a, NEW d \in Damage(p),
         \/ Here(p).do = "enable" /\ a \in Enable(mask[p])
         \/ Here(p).do = "disable" /\ a \in Disable(mask[p]),
         ProceedIf(p, a.ret = 0), mask' = [mask EXCEPT ![p] = a.mask],
         Becomes(p, {}, Nothing, d),
         Strike({IF a.ret = 0 THEN a.fault ELSE Refused(p, a.fault), d.fault})
  PROVE  Orderly(p)
  <1> DEFINE s == Here(p)
  <1>1. s.do \in {"enable", "disable"} /\ Changes(s) = {}
    BY DEF Changes
  <1>3. /\ (IF a.ret = 0 THEN a.fault ELSE Refused(p, a.fault)) \in {"none", "optional"}
        /\ test = "test25" => (IF a.ret = 0 THEN a.fault ELSE Refused(p, a.fault)) = "none"
        /\ d.fault \in {"none", "optional"}
    BY NoFault
  <1>4. SameMemory
    BY <1>3, NoDamage, BecomesNothing
  <1>5. \A q \in Procs : mask'[q] = IF q = p THEN a.mask ELSE mask[q]
    BY HereIs DEF MemoryOK
  <1>6. CASE a.ret = 0
    <2>1. a.mask = NextMask(s, mask[p])
      BY <1>1, <1>3, <1>6 DEF Enable, Disable, Possible, NextMask
    <2>2. Goes(p)
      BY <1>1, <1>4, <1>5, <1>6, <2>1, Proceeded, RightIfSame
      DEF Goes, ProceedIf, MakesProcess, WaitsFor
    <2> QED
      BY <2>2 DEF Orderly
  <1>7. CASE a.ret # 0
    <2>1. a.mask = mask[p] /\ a.fault \in {"refuse", "stuck"} /\ s.bad = "ignore"
          /\ test # "test25"
      BY <1>1, <1>3, <1>7 DEF Enable, Disable, Possible, Refused, Current, Here
    <2>2. Skips(p)
      BY <1>1, <1>4, <1>5, <1>7, <2>1, Ignored
      DEF Skips, ProceedIf, MaySkip, Refusable, SameMask
    <2> QED
      BY <2>2 DEF Orderly
  <1> QED
    BY <1>6, <1>7

LEMMA PrctlOrderly ==
  ASSUME ControlOK, MemoryOK, NEW p \in Procs, Quiet', UNCHANGED test,
         EnableReplication(p) \/ DisableReplication(p)
  PROVE  Orderly(p)
  <1>1. CASE EnableReplication(p)
    BY <1>1, AnswerOrderly DEF EnableReplication, Doing, Current, Here
  <1>2. CASE DisableReplication(p)
    BY <1>2, AnswerOrderly DEF DisableReplication, Doing, Current, Here
  <1> QED
    BY <1>1, <1>2

LEMMA InvalidOrderly ==
  ASSUME ControlOK, MemoryOK, NEW p \in Procs, Quiet', UNCHANGED test, EnableInvalid(p)
  PROVE  Orderly(p)
  <1>1. Here(p).do = "invalid" /\ Here(p).bad = "ignore"
    BY HereIs, ChecksAreMet DEF EnableInvalid, Doing, Current, Here
  <1>2. PICK a \in Call("accept") :
          /\ ProceedIf(p, ~a.ok) /\ Strike({a.fault})
          /\ mask' = IF a.ok THEN mask ELSE [mask EXCEPT ![p] = 1]
    BY DEF EnableInvalid
  <1>3. a.ok
    BY <1>2, NoFault DEF Call, Possible
  <1>4. GoesWrong(p) /\ UNCHANGED <<mem, mask>>
    BY <1>2, <1>3 DEF ProceedIf, EnableInvalid, memory
  <1> QED
    BY <1>1, <1>4, Ignored, UnchangedIsSame DEF Orderly, Skips, MaySkip, SameMask

LEMMA QueryOrderly ==
  ASSUME ControlOK, MemoryOK, NEW p \in Procs, Quiet', UNCHANGED test,
         mask[p] \in Wants(test, p, todo[p]).masks, QueryReplication(p)
  PROVE  Orderly(p)
  <1> DEFINE s == Here(p)
  <1>1. s.do = "query" /\ Changes(s) = {} /\ NextMask(s, mask[p]) = mask[p]
    BY DEF QueryReplication, Doing, Current, Here, Changes, NextMask
  <1>2. PICK a \in Get(mask[p]) : ProceedIf(p, Satisfies(a.ret, s.val)) /\ Strike({a.fault})
    BY DEF QueryReplication, Current, Here
  <1>3. a.ret = mask[p]
    BY <1>2, NoFault DEF Get, Possible
  <1>4. Satisfies(mask[p], s.val)
    BY <1>1, HereIs, ChecksAreMet DEF Here
  <1>5. Proceed(p) /\ UNCHANGED <<mem, mask>>
    BY <1>2, <1>3, <1>4 DEF ProceedIf, QueryReplication, memory
  <1>6. Goes(p)
    BY <1>1, <1>5, Proceeded, UnchangedIsSame, RightIfSame DEF Goes, MakesProcess, WaitsFor
  <1> QED
    BY <1>6 DEF Orderly

LEMMA MapOrderly ==
  ASSUME ControlOK, MemoryOK, NEW p \in Procs, Quiet', UNCHANGED test,
         MapMemory(p)
  PROVE  Orderly(p)
  <1> DEFINE s == Here(p)
  <1>1. WellFormed(test, p, s) /\ s.do = "map" /\ UNCHANGED mask
    BY HereIs DEF MapMemory, Doing, Current, Here
  <1>2. ASSUME NEW a \in Mapped(p, s.val), NEW d \in Damage(p), Proceed(p),
               Becomes(p, s.at, Filled(s.at, a.val), d), Strike({a.fault, d.fault})
        PROVE  Orderly(p)
    <2>1. a.fault \in {"none", "optional"} /\ d.at = {}
      BY <1>2, NoFault, NoDamage
    <2>2. mem[p] \in [RegionsOf(test) -> Contents] /\ Regions = RegionsOf(test)
      BY ScriptsWellFormed DEF MemoryOK, ControlOK, Regions, Procs
    <2>3. a.val = IF s.val \in RegionsOf(test) THEN mem[p][s.val] ELSE s.val
      BY <1>2, <2>1, <2>2 DEF Mapped, Possible
    <2>4. a.val \in Contents /\ s.at \subseteq RegionsOf(test)
      BY <1>1, <2>2, <2>3 DEF WellFormed
    <2>5. /\ IsPatch(Filled(s.at, a.val)) /\ DOMAIN Filled(s.at, a.val) = s.at
          /\ \A r \in s.at : Filled(s.at, a.val)[r] = a.val
      BY <2>4, FilledIsPatch
    <2>6. \A q \in Procs : \A r \in RegionsOf(test) :
            mem'[q][r] = IF q \in Sharers(p, s.at) /\ r \in s.at THEN a.val ELSE mem[q][r]
      BY <1>2, <2>1, <2>5, BecomesRight
    <2>7. Changes(s) = s.at /\ NextMask(s, mask[p]) = mask[p]
          /\ \A r : Value(p, s, r) = a.val
      BY <1>1, <2>3 DEF Changes, NextMask, Value
    <2>8. RightOnMemory(p)
      BY <2>6, <2>7 DEF RightOnMemory
    <2>9. Goes(p)
      BY <1>1, <1>2, <2>7, <2>8, Proceeded DEF Goes, MakesProcess, WaitsFor
    <2> QED
      BY <2>9 DEF Orderly
  <1>3. CASE GoesWrong(p) /\ UNCHANGED mem /\ Strike({Refused(p, "nomem")})
    <2>1. s.bad = "ignore" /\ test # "test25"
      BY <1>3, NoFault DEF Refused, Current, Here
    <2>2. Skips(p)
      BY <1>1, <1>3, <2>1, Ignored, UnchangedIsSame DEF Skips, MaySkip, Refusable, SameMask
    <2> QED
      BY <2>2 DEF Orderly
  <1> QED
    BY <1>2, <1>3 DEF MapMemory, Current, Here

LEMMA WriteOrderly ==
  ASSUME ControlOK, MemoryOK, NEW p \in Procs, Quiet', UNCHANGED test, WriteMemory(p)
  PROVE  Orderly(p)
  <1> DEFINE s == Here(p)
  <1>1. WellFormed(test, p, s) /\ s.do = "write" /\ UNCHANGED mask /\ Proceed(p)
    BY HereIs DEF WriteMemory, Doing, Current, Here
  <1>2. PICK a \in Arriving(p, s.at, s.val), b \in Reaching(p, s.at), d \in Damage(p) :
          /\ mem' = Changed(b.who, Over(Filled(d.at, "bad"), Filled(a.at, s.val)))
          /\ Strike({a.fault, b.fault, d.fault})
    BY DEF WriteMemory, Current, Here
  <1>3. a.fault \in {"none", "optional"} /\ b.fault \in {"none", "optional"} /\ d.at = {}
    BY <1>2, NoFault, NoDamage
  <1>4. a.at = s.at
    BY <1>2, <1>3 DEF Arriving, Possible
  <1>5. b.who = Sharers(p, s.at)
    BY <1>2, <1>3 DEF Reaching, Possible
  <1>6. s.at \subseteq RegionsOf(test) /\ s.val \in Contents
    BY <1>1 DEF WellFormed
  <1>7. /\ IsPatch(Filled(s.at, s.val)) /\ DOMAIN Filled(s.at, s.val) = s.at
        /\ \A r \in s.at : Filled(s.at, s.val)[r] = s.val
    BY <1>6, FilledIsPatch
  <1>8. Becomes(p, s.at, Filled(s.at, s.val), d)
    BY <1>2, <1>4, <1>5 DEF Becomes
  <1>9. \A q \in Procs : \A r \in RegionsOf(test) :
          mem'[q][r] = IF q \in Sharers(p, s.at) /\ r \in s.at THEN s.val ELSE mem[q][r]
    BY <1>3, <1>7, <1>8, BecomesRight
  <1>10. Changes(s) = s.at /\ NextMask(s, mask[p]) = mask[p] /\ \A r : Value(p, s, r) = s.val
    BY <1>1 DEF Changes, NextMask, Value
  <1>11. RightOnMemory(p)
    BY <1>9, <1>10 DEF RightOnMemory
  <1>12. Goes(p)
    BY <1>1, <1>10, <1>11, Proceeded DEF Goes, MakesProcess, WaitsFor
  <1> QED
    BY <1>12 DEF Orderly

LEMMA CheckOrderly ==
  ASSUME ControlOK, MemoryOK, NEW p \in Procs, Quiet', UNCHANGED test,
         \A d \in Wants(test, p, todo[p]).holds : mem[p][d[1]] = d[2], CheckMemory(p)
  PROVE  Orderly(p)
  <1> DEFINE s == Here(p)
  <1>1. s.do = "check" /\ Changes(s) = {} /\ NextMask(s, mask[p]) = mask[p]
    BY DEF CheckMemory, Doing, Current, Here, Changes, NextMask
  <1>2. \A r \in s.at : <<r, s.val>> \in Wants(test, p, todo[p]).holds
    BY <1>1, HereIs, ChecksAreMet DEF Here
  <1>3. \A r \in s.at : mem[p][r] = s.val
    BY <1>2
  <1>4. Proceed(p) /\ UNCHANGED <<mem, mask>>
    BY <1>3 DEF CheckMemory, ProceedIf, memory, Current, Here
  <1>5. Goes(p)
    BY <1>1, <1>4, Proceeded, UnchangedIsSame, RightIfSame DEF Goes, MakesProcess, WaitsFor
  <1> QED
    BY <1>5 DEF Orderly

LEMMA UnmapOrderly ==
  ASSUME ControlOK, MemoryOK, NEW p \in Procs, Quiet', UNCHANGED test, UnmapMemory(p)
  PROVE  Orderly(p)
  <1> DEFINE s == Here(p)
  <1>1. WellFormed(test, p, s) /\ s.do = "unmap" /\ UNCHANGED mask
    BY HereIs DEF UnmapMemory, Doing, Current, Here
  <1>2. PICK a \in Call("unmap"), d \in Damage(p) :
          /\ ProceedIf(p, a.ok)
          /\ Becomes(p, s.at, IF a.ok THEN Filled(s.at, "none") ELSE Nothing, d)
          /\ Strike({a.fault, d.fault})
    BY DEF UnmapMemory, Current, Here
  <1>3. a.fault \in {"none", "optional"} /\ d.at = {}
    BY <1>2, NoFault, NoDamage
  <1>4. a.ok
    BY <1>2, <1>3 DEF Call, Possible
  <1>5. IsPatch(Filled(s.at, "none")) /\ DOMAIN Filled(s.at, "none") = s.at
        /\ \A r \in s.at : Filled(s.at, "none")[r] = "none"
    BY <1>1, FilledIsPatch DEF Contents, WellFormed
  <1>6. \A q \in Procs : \A r \in RegionsOf(test) :
          mem'[q][r] = IF q \in Sharers(p, s.at) /\ r \in s.at THEN "none" ELSE mem[q][r]
    BY <1>2, <1>3, <1>4, <1>5, BecomesRight
  <1>7. Changes(s) = s.at /\ NextMask(s, mask[p]) = mask[p] /\ \A r : Value(p, s, r) = "none"
    BY <1>1 DEF Changes, NextMask, Value
  <1>8. RightOnMemory(p)
    BY <1>6, <1>7 DEF RightOnMemory
  <1>9. Goes(p)
    BY <1>1, <1>2, <1>4, <1>7, <1>8, Proceeded DEF Goes, ProceedIf, MakesProcess, WaitsFor
  <1> QED
    BY <1>9 DEF Orderly

LEMMA DropOrderly ==
  ASSUME ControlOK, MemoryOK, NEW p \in Procs, Quiet', UNCHANGED test, DropMemory(p)
  PROVE  Orderly(p)
  <1> DEFINE s == Here(p)
  <1>1. WellFormed(test, p, s) /\ s.do = "drop" /\ UNCHANGED mask
    BY HereIs DEF DropMemory, Doing, Current, Here
  <1>2. ~Strike({"call"})
    BY NoFault
  <1>3. PICK stale \in SUBSET {r \in s.at : mem[p][r] # "zero"}, d \in Damage(p) :
          /\ Proceed(p) /\ Becomes(p, s.at, Filled(s.at \ stale, "zero"), d)
          /\ Strike({IF stale = {} THEN "none" ELSE "stale", d.fault})
    BY <1>2 DEF DropMemory, Current, Here
  <1>4. stale = {} /\ d.at = {}
    BY <1>3, NoFault, NoDamage
  <1>5. IsPatch(Filled(s.at, "zero")) /\ DOMAIN Filled(s.at, "zero") = s.at
        /\ \A r \in s.at : Filled(s.at, "zero")[r] = "zero"
    BY <1>1, FilledIsPatch DEF Contents, WellFormed
  <1>6. s.at \ stale = s.at
    BY <1>4
  <1>7. \A q \in Procs : \A r \in RegionsOf(test) :
          mem'[q][r] = IF q \in Sharers(p, s.at) /\ r \in s.at THEN "zero" ELSE mem[q][r]
    BY <1>3, <1>4, <1>5, <1>6, BecomesRight
  <1>8. Changes(s) = s.at /\ NextMask(s, mask[p]) = mask[p] /\ \A r : Value(p, s, r) = "zero"
    BY <1>1 DEF Changes, NextMask, Value
  <1>9. RightOnMemory(p)
    BY <1>7, <1>8 DEF RightOnMemory
  <1>10. Goes(p)
    BY <1>1, <1>3, <1>8, <1>9, Proceeded DEF Goes, MakesProcess, WaitsFor
  <1> QED
    BY <1>10 DEF Orderly

LEMMA MoveOrderly ==
  ASSUME ControlOK, MemoryOK, NEW p \in Procs, Quiet', UNCHANGED test, MoveMemory(p)
  PROVE  Orderly(p)
  <1> DEFINE s == Here(p)
             v == mem[p][CHOOSE q \in s.at : TRUE]
             f == [r \in s.at \cup {s.val} |-> IF r \in s.at THEN "none" ELSE v]
  <1>1. WellFormed(test, p, s) /\ s.do = "move" /\ UNCHANGED mask
    BY HereIs DEF MoveMemory, Doing, Current, Here
  <1>2. PICK a \in Call("call"), d \in Damage(p) :
          /\ ProceedIf(p, a.ok)
          /\ Becomes(p, s.at, IF a.ok THEN f ELSE Nothing, d)
          /\ Strike({a.fault, d.fault})
    BY DEF MoveMemory, Current, Here
  <1>3. a.fault \in {"none", "optional"} /\ d.at = {}
    BY <1>2, NoFault, NoDamage
  <1>4. a.ok
    BY <1>2, <1>3 DEF Call, Possible
  <1>5. /\ s.at \subseteq RegionsOf(test) /\ s.at # {} /\ s.val \in RegionsOf(test)
    BY <1>1 DEF WellFormed
  <1>6. v \in Contents
    BY <1>5 DEF MemoryOK, ControlOK, Procs
  <1>7. /\ IsPatch(f) /\ DOMAIN f = Changes(s)
        /\ \A r \in DOMAIN f : f[r] = Value(p, s, r)
    BY <1>1, <1>5, <1>6 DEF IsPatch, Contents, Changes, Value
  <1> HIDE DEF f, v, s
  <1>8. \A q \in Procs : \A r \in RegionsOf(test) :
          mem'[q][r] = IF q \in Sharers(p, s.at) /\ r \in Changes(s) THEN Value(p, s, r)
                       ELSE mem[q][r]
    BY <1>2, <1>3, <1>4, <1>7, BecomesRight
  <1>9. RightOnMemory(p)
    BY <1>8 DEF RightOnMemory, s
  <1>10. NextMask(s, mask[p]) = mask[p]
    BY <1>1 DEF NextMask
  <1>11. Goes(p)
    BY <1>1, <1>2, <1>4, <1>9, <1>10, Proceeded DEF Goes, ProceedIf, MakesProcess, WaitsFor, s
  <1> QED
    BY <1>11 DEF Orderly

\* Calls that may be refused and change neither memory nor the mask.
LEMMA CallOrderly ==
  ASSUME ControlOK, MemoryOK, NEW p \in Procs, Quiet', UNCHANGED test,
         OtherCall(p) \/ LowerLimit(p)
  PROVE  Orderly(p)
  <1> DEFINE s == Here(p)
  <1>1. /\ s.do \in {"call", "lower"} /\ Changes(s) = {} /\ NextMask(s, mask[p]) = mask[p]
        /\ UNCHANGED mask
    BY DEF OtherCall, LowerLimit, Doing, Current, Here, Changes, NextMask, memory
  <1>2. SameMemory
    <2>1. CASE OtherCall(p)
      <3>1. PICK a \in Call(Refused(p, "call")), d \in Damage(p) :
              Becomes(p, {}, Nothing, d) /\ Strike({a.fault, d.fault})
        BY <2>1 DEF OtherCall
      <3>2. d.at = {}
        BY <3>1, NoFault, NoDamage
      <3> QED
        BY <3>1, <3>2, BecomesNothing
    <2>2. CASE LowerLimit(p)
      BY <2>2, UnchangedIsSame DEF LowerLimit, memory
    <2> QED
      BY <2>1, <2>2
  <1>3. CASE Proceed(p)
    <2>1. Goes(p)
      BY <1>1, <1>2, <1>3, Proceeded, RightIfSame DEF Goes, MakesProcess, WaitsFor
    <2> QED
      BY <2>1 DEF Orderly
  <1>4. CASE ~Proceed(p)
    <2>1. GoesWrong(p) /\ MaySkip(test, s) /\ s.bad = "ignore"
      <3>1. CASE OtherCall(p)
        <4>1. PICK a \in Call(Refused(p, "call")), d \in Damage(p) :
                ProceedIf(p, a.ok) /\ Strike({a.fault, d.fault})
          BY <3>1 DEF OtherCall
        <4>2. ~a.ok /\ GoesWrong(p)
          BY <1>4, <4>1 DEF ProceedIf
        <4>3. s.bad = "ignore" /\ test # "test25"
          BY <4>1, <4>2, NoFault DEF Call, Possible, Refused, Current, Here
        <4>4. s.do = "call"
          BY <3>1 DEF OtherCall, Doing, Current, Here
        <4> QED
          BY <4>2, <4>3, <4>4 DEF MaySkip, Refusable
      <3>2. CASE LowerLimit(p)
        <4>1. PICK a \in Call("optional") : ProceedIf(p, a.ok) /\ Strike({a.fault})
          BY <3>2 DEF LowerLimit
        <4>2. ~a.ok /\ GoesWrong(p)
          BY <1>4, <4>1 DEF ProceedIf
        <4>3. s.do = "lower" /\ test # "test25"
          BY <3>2, <4>1, <4>2, NoFault
          DEF LowerLimit, Doing, Current, Here, Call, Possible
        <4>4. s.bad = "ignore"
          BY <4>3, HereIs, ChecksAreMet DEF Here
        <4> QED
          BY <4>2, <4>3, <4>4 DEF MaySkip, Refusable
      <3> QED
        BY <3>1, <3>2
    <2>2. Skips(p)
      BY <1>1, <1>2, <2>1, Ignored DEF Skips, SameMask
    <2> QED
      BY <2>2 DEF Orderly
  <1> QED
    BY <1>3, <1>4

LEMMA ProtectOrderly ==
  ASSUME ControlOK, MemoryOK, NEW p \in Procs, Quiet', UNCHANGED test, ProtectMemory(p)
  PROVE  Orderly(p)
  <1>1. /\ Here(p).do \in {"shut", "open"} /\ Changes(Here(p)) = {}
        /\ NextMask(Here(p), mask[p]) = mask[p] /\ UNCHANGED <<mem, mask>>
    BY DEF ProtectMemory, Doing, Current, Here, Changes, NextMask
  <1>2. PICK a \in Call("call") : ProceedIf(p, a.ok) /\ Strike({a.fault})
    BY DEF ProtectMemory
  <1>3. a.ok
    BY <1>2, NoFault DEF Call, Possible
  <1>4. Goes(p)
    BY <1>1, <1>2, <1>3, Proceeded, UnchangedIsSame, RightIfSame
    DEF ProceedIf, Goes, MakesProcess, WaitsFor
  <1> QED
    BY <1>4 DEF Orderly

LEMMA WaitOrderly ==
  ASSUME ControlOK, MemoryOK, NEW p \in Procs, Quiet', UNCHANGED test, NoneFailed,
         WaitForProcess(p)
  PROVE  Orderly(p)
  <1> DEFINE s == Here(p)
  <1>1. /\ s.do \in WaitsFor /\ Changes(s) = {} /\ NextMask(s, mask[p]) = mask[p]
        /\ UNCHANGED <<mem, mask>> /\ Ended(s.val)
    BY DEF WaitForProcess, Doing, Current, Here, Changes, NextMask, WaitsFor, memory
  <1>2. s.val \in Procs
    BY <1>1, HereIs DEF WellFormed
  <1>3. state[s.val] = "ok"
    BY <1>1, <1>2 DEF NoneFailed, Ended
  <1>4. Proceed(p)
    BY <1>3 DEF WaitForProcess, ProceedIf, Current, Here
  <1>5. Goes(p)
    BY <1>1, <1>3, <1>4, Proceeded, UnchangedIsSame, RightIfSame
    DEF Goes, MakesProcess, WaitsFor
  <1> QED
    BY <1>5 DEF Orderly

LEMMA ForkOrderly ==
  ASSUME ControlOK, MemoryOK, NEW p \in Procs, Quiet', UNCHANGED test, ForkProcess(p)
  PROVE  Orderly(p)
  <1> DEFINE s == Here(p)
             k == Here(p).val
  <1>1. WellFormed(test, p, s) /\ s.do = "fork"
    BY HereIs DEF ForkProcess, Doing, Current, Here
  <1>2. k \in Procs \ {p} /\ Procs = ProcsOf(test)
    BY <1>1, HereIs DEF WellFormed, MakesProcess
  <1>3. PICK a \in Fork(mask[p]), d \in Damage(p),
             c \in Possible({[at |-> {}, fault |-> "none"]}
                       \cup {[at |-> {r}, fault |-> "badCopy"] : r \in s.at}) :
          /\ mask' = [mask EXCEPT ![p] = a.parent, ![k] = a.child]
          /\ a.ret = 1 =>
               /\ Started(p, k)
               /\ mem' = [mem EXCEPT ![p] = Over(Filled(d.at, "bad"), mem[p]),
                                     ![k] = Over(Filled(c.at, "bad"), mem[p])]
          /\ Strike({a.fault, c.fault, d.fault})
    BY DEF ForkProcess, Current, Here
  <1>4. /\ a.fault \in {"none", "optional"} /\ c.fault \in {"none", "optional"}
        /\ d.fault \in {"none", "optional"}
    BY <1>3, NoFault
  <1>5. d.at = {}
    BY <1>3, <1>4, NoDamage
  <1>6. c.at = {}
    BY <1>3, <1>4 DEF Possible
  <1>7. a.ret = 1 /\ a.parent = mask[p] /\ a.child = 0
    BY <1>3, <1>4 DEF Fork, Possible
  <1>8. Over(Filled({}, "bad"), mem[p]) = mem[p]
    BY <1>2 DEF Over, Filled, MemoryOK
  <1>9. /\ \A q \in Procs : mem'[q] = IF q = k THEN mem[p] ELSE mem[q]
        /\ \A q \in Procs : mask'[q] = IF q = k THEN 0 ELSE mask[q]
    BY <1>2, <1>3, <1>5, <1>6, <1>7, <1>8 DEF MemoryOK
  <1>10. NextMask(s, mask[p]) = mask[p]
    BY <1>1 DEF NextMask
  <1>11. Begets(p)
    BY <1>1, <1>3, <1>7, <1>9, <1>10 DEF Begets, MakesProcess
  <1> QED
    BY <1>11 DEF Orderly

LEMMA CloneOrderly ==
  ASSUME ControlOK, MemoryOK, NEW p \in Procs, Quiet', UNCHANGED test, CloneVM(p)
  PROVE  Orderly(p)
  <1> DEFINE s == Here(p)
             k == Here(p).val
  <1>1. WellFormed(test, p, s) /\ s.do = "cloneVM"
    BY HereIs DEF CloneVM, Doing, Current, Here
  <1>2. k \in Procs \ {p} /\ Procs = ProcsOf(test)
    BY <1>1, HereIs DEF WellFormed, MakesProcess
  <1>3. ASSUME NEW keep \in Possible({[mask |-> 0, fault |-> "none"],
                                     [mask |-> mask[p], fault |-> "keepVM"]}),
               Started(p, k), mask' = [mask EXCEPT ![p] = keep.mask, ![k] = keep.mask],
               mem' = [mem EXCEPT ![k] = mem[p]], Strike({keep.fault})
        PROVE  Orderly(p)
    <2>1. keep.mask = 0
      BY <1>3, NoFault DEF Possible
    <2>2. /\ \A q \in Procs : mem'[q] = IF q = k THEN mem[p] ELSE mem[q]
          /\ \A q \in Procs : mask'[q] = IF q = k THEN 0 ELSE IF q = p THEN 0 ELSE mask[q]
      BY <1>2, <1>3, <2>1 DEF MemoryOK
    <2>3. NextMask(s, mask[p]) = 0
      BY <1>1 DEF NextMask
    <2>4. Begets(p)
      BY <1>1, <1>3, <2>2, <2>3 DEF Begets, MakesProcess
    <2> QED
      BY <2>4 DEF Orderly
  <1>4. CASE /\ Advance(p, 1 + s.skip) /\ Strike({"optional"})
             /\ UNCHANGED <<test, state, pass, printed, mask, mem>>
    <2>1. test # "test25"
      BY <1>4, NoFault
    <2>2. Skips(p)
      BY <1>1, <1>4, <2>1, UnchangedIsSame
      DEF Skips, MaySkip, Refusable, GoTo, Advance, SameMask
    <2> QED
      BY <2>2 DEF Orderly
  <1>5. ~Strike({"fork"})
    BY NoFault
  <1> QED
    BY <1>3, <1>4, <1>5 DEF CloneVM, Current, Here

LEMMA ThreadOrderly ==
  ASSUME ControlOK, MemoryOK, NEW p \in Procs, Quiet', UNCHANGED test, CreateThread(p)
  PROVE  Orderly(p)
  <1>1. Here(p).do = "thread" /\ UNCHANGED <<mem, mask>>
    BY DEF CreateThread, Doing, Current, Here, memory
  <1>2. PICK a \in Call("call") :
          (IF a.ok THEN Started(p, Here(p).val) ELSE GoesWrong(p)) /\ Strike({a.fault})
    BY DEF CreateThread, Current, Here
  <1>3. a.ok
    BY <1>2, NoFault DEF Call, Possible
  <1> QED
    BY <1>1, <1>2, <1>3 DEF Orderly, Begets, MakesProcess

LEMMA ExecOrderly ==
  ASSUME ControlOK, MemoryOK, NEW p \in Procs, Quiet', UNCHANGED test, Exec(p)
  PROVE  Orderly(p)
  <1> DEFINE s == Here(p)
  <1>1. s.do = "exec" /\ Procs = ProcsOf(test) /\ NextMask(s, mask[p]) = 0
    BY HereIs DEF Exec, Doing, Current, Here, NextMask
  <1>2. ASSUME NEW keep \in Possible({[mask |-> 0, fault |-> "none"],
                                     [mask |-> mask[p], fault |-> "execKeeps"]}),
               Proceed(p), mask' = [mask EXCEPT ![p] = keep.mask],
               mem' = [mem EXCEPT ![p] = Filled(Regions, "none")], Strike({keep.fault})
        PROVE  Orderly(p)
    <2>1. keep.mask = 0
      BY <1>2, NoFault DEF Possible
    <2>2. /\ \A q \in Procs \ {p} : mem'[q] = mem[q]
          /\ \A q \in Procs : mask'[q] = IF q = p THEN 0 ELSE mask[q]
      BY <1>1, <1>2, <2>1 DEF MemoryOK
    <2>3. Goes(p)
      BY <1>1, <1>2, <2>2, Proceeded DEF Goes, MakesProcess, WaitsFor
    <2> QED
      BY <2>3 DEF Orderly
  <1>3. CASE GoesWrong(p) /\ Strike({Refused(p, "call")}) /\ UNCHANGED <<mask, mem>>
    <2>1. s.bad = "ignore" /\ test # "test25"
      BY <1>3, NoFault DEF Refused, Current, Here
    <2>2. Skips(p)
      BY <1>1, <1>3, <2>1, Ignored, UnchangedIsSame DEF Skips, MaySkip, Refusable, SameMask
    <2> QED
      BY <2>2 DEF Orderly
  <1> QED
    BY <1>2, <1>3 DEF Exec

\* Steps without a call.
LEMMA LocalOrderly ==
  ASSUME ControlOK, MemoryOK, NEW p \in Procs, NoneFailed,
         \/ RestoreLimit(p) \/ Await(p) \/ CheckNodes(p) \/ Judge(p) \/ Return(p)
  PROVE  Orderly(p)
  <1> DEFINE s == Here(p)
  <1>1. /\ s.do \in {"restore", "await", "numa", "judge", "end"} /\ UNCHANGED <<mem, mask>>
        /\ Changes(s) = {} /\ NextMask(s, mask[p]) = mask[p]
    BY DEF RestoreLimit, Await, CheckNodes, Judge, Return, Doing, Current, Here, Changes,
       NextMask, memory
  <1>2. CASE Proceed(p) /\ s.do # "end"
    <2>1. Goes(p)
      BY <1>1, <1>2, Proceeded, UnchangedIsSame, RightIfSame DEF Goes, MakesProcess, WaitsFor
    <2> QED
      BY <2>1 DEF Orderly
  <1>3. CASE s.do \in {"numa", "end"} /\ EndAs(p, "ok")
    BY <1>1, <1>3 DEF Orderly, Halts
  <1>4. CASE UNCHANGED <<test, todo, state, pass>>
    BY <1>1, <1>4 DEF Orderly, Halts
  <1>5. pass[p]
    BY DEF NoneFailed
  <1>6. CASE RestoreLimit(p)
    BY <1>2, <1>6 DEF RestoreLimit, Doing, Current, Here
  <1>7. CASE Await(p)
    BY <1>2, <1>4, <1>7 DEF Await, Doing, Current, Here
  <1>8. CASE CheckNodes(p)
    BY <1>2, <1>3, <1>8 DEF CheckNodes, Doing, Current, Here
  <1>9. CASE Judge(p)
    BY <1>2, <1>5, <1>9 DEF Judge, ProceedIf, Doing, Current, Here
  <1>10. CASE Return(p)
    BY <1>3, <1>5, <1>10 DEF Return, Doing, Current, Here
  <1> QED
    BY <1>6, <1>7, <1>8, <1>9, <1>10

\* While nothing goes wrong, every step is orderly.
LEMMA StepIsOrderly ==
  ASSUME ControlOK, MemoryOK, NEW p, Step(p), Quiet', InOrder
  PROVE  Orderly(p)
  <1>0. p \in Procs /\ state[p] = "running" /\ UNCHANGED test
    BY StepControl, TestStays
  <1>1. /\ mask[p] \in Wants(test, p, todo[p]).masks
        /\ \A d \in Wants(test, p, todo[p]).holds : mem[p][d[1]] = d[2]
        /\ NoneFailed
    BY <1>0 DEF InOrder, InPlace
  <1> QED
    BY <1>0, <1>1, PrctlOrderly, InvalidOrderly, QueryOrderly, MapOrderly, WriteOrderly,
       CheckOrderly, UnmapOrderly, DropOrderly, MoveOrderly, CallOrderly, ProtectOrderly,
       WaitOrderly, ForkOrderly, CloneOrderly, ThreadOrderly, ExecOrderly, LocalOrderly
    DEF Step


-----------------------------------------------------------------------------
(***************************************************************************)
(* Orderly steps keep everything in order.                                 *)
(***************************************************************************)

\* The invariants of ScriptedTests_proofs that this rests on.
Sound == ControlOK /\ MemoryOK /\ Awaited /\ Held /\ state["main"] # "absent"

LEMMA SeenIsShared ==
  ASSUME ControlOK, NEW p \in Procs, NEW q \in Procs, state[q] # "absent",
         Sees(test, p, q, Here(p))
  PROVE  q \in Sharers(p, Here(p).at)
  BY DEF Sharers, Sees

\* A child that is there main has made and has still to wait for.
LEMMA StillAwaited ==
  ASSUME ControlOK, Awaited, NoneFailed, state["main"] = "running",
         NEW k \in Children, state[k] # "absent",
         state[k] = "running" \/ k \in Pending(todo["main"])
  PROVE  k \in Pending(todo["main"]) \ ToMake(todo["main"])
  <1>1. "main" \in Procs
    BY ScriptsWellFormed DEF ControlOK, Procs
  <1> QED
    BY <1>1 DEF Awaited, Accepted, NoneFailed

\* What p does, nobody relies on who sees it, and no promise to main is broken.
LEMMA Undisturbed ==
  ASSUME ControlOK, Awaited, NoneFailed, NEW p \in Procs, state[p] = "running",
         NEW q \in Procs \ {p}
  PROVE  LET s == Here(p) IN
         /\ state[q] = "running" /\ q \in Sharers(p, s.at)
              => Changes(s) \cap Reliant(test, q, todo[q]) = {}
         /\ /\ state[q] = "running" \/ (state[q] = "ok" /\ q \in Pending(todo["main"]))
            /\ "main" \in Sharers(p, s.at)
            => Changes(s) \cap PromisedBy(test, q) = {}
  <1> DEFINE s == Here(p)
  <1>1. /\ Procs = ProcsOf(test) /\ test \in Tests
        /\ todo[p] \in Rests(test, p) /\ todo[q] \in Rests(test, q)
    BY HereIs
  <1>2. PromisedBy(test, "main") = {}
    BY DEF PromisedBy, Promises
  <1>3. q \in Sharers(p, s.at) => Sees(test, p, q, s)
    BY SharersSee
  <1>4. "main" \in Sharers(p, s.at) /\ p # "main" => Sees(test, p, "main", s)
    BY SharersSee
  <1>5. CASE p = "main"
    <2>1. state[q] = "running" \/ (state[q] = "ok" /\ q \in Pending(todo["main"]))
          => q \in Pending(todo["main"]) \ ToMake(todo["main"])
      BY <1>5, StillAwaited DEF Children
    <2> QED
      BY <1>1, <1>3, <1>5, <2>1, NobodyDisturbs DEF Here
  <1>6. CASE p # "main" /\ q = "main"
    <2>1. state["main"] = "running" => p \in Pending(todo["main"]) \ ToMake(todo["main"])
      BY <1>6, StillAwaited DEF Children
    <2> QED
      BY <1>1, <1>2, <1>3, <1>6, <2>1, NobodyDisturbs DEF Here
  <1>7. CASE p # "main" /\ q # "main"
    BY <1>1, <1>3, <1>4, <1>7, NobodyDisturbs DEF Here
  <1> QED
    BY <1>5, <1>6, <1>7

\* What is wanted and what is promised are regions of the program.
LEMMA WantsAre ==
  ASSUME ControlOK, NEW p \in Procs
  PROVE  /\ \A u \in Rests(test, p) : Wants(test, p, u).holds \subseteq RegionsOf(test) \X Contents
         /\ Promises(test, p) \subseteq RegionsOf(test) \X Contents
         /\ Wants(test, p, todo[p]).holds \subseteq RegionsOf(test) \X Contents
  BY HereIs, ChecksAreMet

LEMMA InOrderSkips ==
  ASSUME Sound, InOrder, NEW p \in Procs, state[p] = "running", Skips(p),
         UNCHANGED <<test, Procs>>
  PROVE  InOrder'
  <1> DEFINE v == After(todo[p], 1 + Here(p).skip)
  <1>1. /\ Procs = ProcsOf(test) /\ test \in Tests /\ "main" \in Procs
        /\ todo[p] \in Rests(test, p) /\ todo = [q \in Procs |-> todo[q]]
    BY HereIs, ScriptsWellFormed DEF Sound, ControlOK, Placed
  <1>2. /\ UNCHANGED <<state, pass>> /\ todo'[p] = v
        /\ \A q \in Procs \ {p} : todo'[q] = todo[q]
    BY <1>1 DEF Skips, GoTo
  <1>3. /\ Wants(test, p, todo[p]).masks \subseteq Wants(test, p, v).masks
        /\ Wants(test, p, v).holds \subseteq Wants(test, p, todo[p]).holds
        /\ p = "main" => Pending(v) \subseteq Pending(todo[p])
    BY <1>1, ChecksAreMet DEF Skips, Here
  <1> HIDE DEF v
  <1>4. NoneFailed'
    BY <1>2 DEF InOrder, NoneFailed
  <1>5. InPlace'
    <2> SUFFICES ASSUME NEW q \in Procs, state[q] = "running"
                 PROVE  /\ mask'[q] \in Wants(test, q, todo'[q]).masks
                        /\ \A d \in Wants(test, q, todo'[q]).holds :
                             /\ mem'[q][d[1]] = d[2]
                             /\ d[1] \in PromisedBy(test, q) => mem'["main"][d[1]] = d[2]
      BY <1>2 DEF InPlace
    <2>1. /\ Wants(test, q, todo[q]).masks \subseteq Wants(test, q, todo'[q]).masks
          /\ Wants(test, q, todo'[q]).holds \subseteq Wants(test, q, todo[q]).holds
      BY <1>2, <1>3
    <2>2. Wants(test, q, todo[q]).holds \subseteq RegionsOf(test) \X Contents
      BY WantsAre DEF Sound
    <2> QED
      BY <1>1, <2>1, <2>2 DEF InOrder, InPlace, Skips, SameMemory, SameMask
  <1>6. Delivered'
    <2> SUFFICES ASSUME NEW k \in Children, state[k] = "ok", k \in Pending(todo'["main"]),
                        NEW d \in Promises(test, k)
                 PROVE  mem'["main"][d[1]] = d[2]
      BY <1>2 DEF Delivered, Children
    <2>1. k \in Pending(todo["main"])
      BY <1>1, <1>2, <1>3
    <2>2. d[1] \in RegionsOf(test)
      BY WantsAre DEF Sound, Children
    <2> QED
      BY <1>1, <2>1, <2>2 DEF InOrder, Delivered, Skips, SameMemory
  <1> QED
    BY <1>4, <1>5, <1>6 DEF InOrder

LEMMA InOrderHalts ==
  ASSUME Sound, InOrder, NEW p \in Procs, state[p] = "running", Halts(p),
         UNCHANGED <<test, Procs>>
  PROVE  InOrder'
  <1>1. /\ Procs = ProcsOf(test) /\ test \in Tests /\ todo[p] \in Rests(test, p)
        /\ state = [q \in Procs |-> state[q]]
    BY HereIs DEF Sound, ControlOK
  <1>2. UNCHANGED <<todo, pass, mem, mask>>
    BY DEF Halts, EndAs
  <1>3. CASE UNCHANGED state
    BY <1>2, <1>3 DEF InOrder, NoneFailed, InPlace, Delivered, Children
  <1>4. CASE Here(p).do \in {"numa", "end"} /\ EndAs(p, "ok")
    <2>1. /\ state'[p] = "ok" /\ \A q \in Procs \ {p} : state'[q] = state[q]
      BY <1>1, <1>4 DEF EndAs
    <2>2. NoneFailed'
      BY <1>2, <2>1 DEF InOrder, NoneFailed
    <2>3. InPlace'
      BY <1>2, <2>1 DEF InOrder, InPlace
    <2>4. \A d \in Promises(test, p) : p # "main" => mem["main"][d[1]] = d[2]
      <3> SUFFICES ASSUME NEW d \in Promises(test, p), p # "main"
                   PROVE  mem["main"][d[1]] = d[2]
        OBVIOUS
      <3>1. d \in Wants(test, p, todo[p]).holds
        BY <1>1, <1>4, ChecksAreMet DEF Here
      <3>2. d[1] \in PromisedBy(test, p)
        BY DEF PromisedBy
      <3> QED
        BY <3>1, <3>2 DEF InOrder, InPlace
    <2>5. Delivered'
      BY <1>2, <2>1, <2>4 DEF InOrder, Delivered, Children
    <2> QED
      BY <2>2, <2>3, <2>5 DEF InOrder
  <1> QED
    BY <1>3, <1>4 DEF Halts

LEMMA InOrderBegets ==
  ASSUME Sound, InOrder, NEW p \in Procs, state[p] = "running", Begets(p),
         UNCHANGED <<test, Procs>>
  PROVE  InOrder'
  <1> DEFINE u == todo["main"]
             s == Head(u)
             k == s.val
  <1>1. /\ Procs = ProcsOf(test) /\ test \in Tests
        /\ todo[p] \in Rests(test, p) /\ todo = [q \in Procs |-> todo[q]]
        /\ state = [q \in Procs |-> state[q]]
    BY HereIs DEF Sound, ControlOK, Placed
  <1>2. p = "main" /\ k \in Children /\ s.do \in MakesProcess
    BY <1>1, HereIs DEF Sound, Begets, WellFormed, Here, Children
  <1>3. k \in ToMake(u)
    BY <1>1, <1>2, ProcessesAreAwaited
  <1>4. state[k] = "absent" /\ todo[k] = Script[test][k]
    BY <1>2, <1>3 DEF Sound, Awaited, Held, Children
  <1>5. /\ UNCHANGED pass /\ state'[k] = "running" /\ todo'["main"] = After(u, 1)
        /\ \A q \in Procs \ {k} : state'[q] = state[q]
        /\ \A q \in Procs \ {"main"} : todo'[q] = todo[q]
    BY <1>1, <1>2 DEF Begets, Started, Advance, Here, Children
  <1>6. /\ s.do # "end" /\ s.do \notin WaitsFor /\ Changes(s) = {} /\ s.do # "exec"
        /\ s.do # "invalid"
    BY <1>2 DEF MakesProcess, WaitsFor, Changes
  <1>7. /\ Wants(test, k, todo[k]).holds
             \subseteq IF s.do = "thread" THEN {} ELSE Wants(test, "main", u).holds
        /\ IF s.do = "thread" THEN Wants(test, k, todo[k]).masks = Mask
                              ELSE 0 \in Wants(test, k, todo[k]).masks
        /\ \A d \in Wants(test, k, todo[k]).holds : d[1] \notin PromisedBy(test, k)
    <2>1. u \in Rests(test, "main") /\ s = Head(u) /\ k = s.val
      BY <1>1, <1>2
    <2>2. LET C == Wants(test, k, Script[test][k]) IN
          /\ C.holds \subseteq IF s.do = "thread" THEN {} ELSE Wants(test, "main", u).holds
          /\ IF s.do = "thread" THEN C.masks = Mask ELSE 0 \in C.masks
          /\ \A d \in C.holds : d[1] \notin PromisedBy(test, k)
      BY <1>1, <1>2, <2>1, ChecksAreMet
    <2> QED
      BY <1>4, <2>2
  <1>8. /\ \A m \in Wants(test, "main", u).masks :
             NextMask(s, m) \in Wants(test, "main", After(u, 1)).masks
        /\ Wants(test, "main", After(u, 1)).holds \subseteq Wants(test, "main", u).holds
        /\ Pending(After(u, 1)) \subseteq Pending(u)
    <2>1. \A d \in Wants(test, "main", After(u, 1)).holds :
            Gives(test, s, Wants(test, "main", u).holds, d) \/ d \in Received(test, s)
      BY <1>1, <1>2, <1>6, ChecksAreMet
    <2>2. Wants(test, "main", After(u, 1)).holds \subseteq Wants(test, "main", u).holds
      BY <1>6, <2>1 DEF Gives, Received
    <2> QED
      BY <1>1, <1>2, <1>6, <2>2, ChecksAreMet
  <1>9. IF s.do = "thread" THEN UNCHANGED <<mem, mask>>
        ELSE /\ \A q \in Procs : mem'[q] = IF q = k THEN mem["main"] ELSE mem[q]
             /\ \A q \in Procs : mask'[q] = IF q = k THEN 0
                                            ELSE IF q = "main" THEN NextMask(s, mask["main"])
                                            ELSE mask[q]
    BY <1>2 DEF Begets, Here
  <1>10. s.do = "thread" => NextMask(s, mask["main"]) = mask["main"]
    BY DEF NextMask
  <1>11. mask[k] \in Mask
    BY <1>1, <1>2 DEF Sound, MemoryOK, Children
  <1>12. PromisedBy(test, "main") = {}
    BY DEF PromisedBy, Promises
  <1> HIDE DEF k, s, u
  <1>13. NoneFailed'
    BY <1>5 DEF InOrder, NoneFailed
  <1>14. \A q \in Procs \ {k} : mem'[q] = mem[q]
    BY <1>9
  <1>15. InPlace'
    <2> SUFFICES ASSUME NEW q \in Procs, state'[q] = "running"
                 PROVE  /\ mask'[q] \in Wants(test, q, todo'[q]).masks
                        /\ \A d \in Wants(test, q, todo'[q]).holds :
                             /\ mem'[q][d[1]] = d[2]
                             /\ d[1] \in PromisedBy(test, q) => mem'["main"][d[1]] = d[2]
      BY DEF InPlace
    <2>1. CASE q = k
      <3>1. todo'[q] = todo[k] /\ "main" \in Procs
        BY <1>2, <1>5, <2>1 DEF Children
      <3>2. mask'[q] \in Wants(test, q, todo'[q]).masks
        BY <1>7, <1>9, <1>11, <2>1, <3>1
      <3>3. ASSUME NEW d \in Wants(test, q, todo'[q]).holds PROVE mem'[q][d[1]] = d[2]
        <4>1. s.do # "thread" /\ d \in Wants(test, "main", u).holds
          BY <1>7, <2>1, <3>1, <3>3
        <4>2. mem["main"][d[1]] = d[2]
          BY <1>2, <4>1 DEF InOrder, InPlace, u
        <4> QED
          BY <1>9, <2>1, <4>1, <4>2
      <3> QED
        BY <1>7, <2>1, <3>1, <3>2, <3>3
    <2>2. CASE q = "main"
      <3>1. todo'[q] = After(u, 1) /\ q # k /\ todo[q] = u
        BY <1>2, <1>5, <2>2 DEF Children, u
      <3>2. mask'[q] = NextMask(s, mask["main"])
        BY <1>9, <1>10, <2>2, <3>1
      <3>3. mask["main"] \in Wants(test, "main", u).masks
        BY <1>2, <2>2, <3>1 DEF InOrder, InPlace
      <3>4. \A d \in Wants(test, "main", u).holds : mem["main"][d[1]] = d[2]
        BY <1>2, <2>2, <3>1 DEF InOrder, InPlace
      <3> QED
        BY <1>8, <1>12, <1>14, <2>2, <3>1, <3>2, <3>3, <3>4
    <2>3. CASE q # k /\ q # "main"
      <3>1. state[q] = "running" /\ todo'[q] = todo[q] /\ mem'[q] = mem[q] /\ mask'[q] = mask[q]
        BY <1>5, <1>9, <2>3
      <3>2. mem'["main"] = mem["main"]
        BY <1>2, <1>14 DEF Children
      <3> QED
        BY <3>1, <3>2 DEF InOrder, InPlace
    <2> QED
      BY <2>1, <2>2, <2>3
  <1>16. Delivered'
    <2> SUFFICES ASSUME NEW j \in Children, state'[j] = "ok", j \in Pending(todo'["main"]),
                        NEW d \in Promises(test, j)
                 PROVE  mem'["main"][d[1]] = d[2]
      BY DEF Delivered, Children
    <2>1. state[j] = "ok" /\ j \in Pending(todo["main"])
      BY <1>5, <1>8 DEF Children, u
    <2>2. mem'["main"] = mem["main"]
      BY <1>2, <1>14 DEF Children
    <2> QED
      BY <2>1, <2>2 DEF InOrder, Delivered
  <1> QED
    BY <1>13, <1>15, <1>16 DEF InOrder

\* What the next steps want, the step s gives.
LEMMA StepGives ==
  ASSUME Sound, InOrder, NEW p \in Procs, state[p] = "running", RightOnMemory(p),
         NEW d \in RegionsOf(test) \X Contents,
         Gives(test, Here(p), Wants(test, p, todo[p]).holds, d)
  PROVE  /\ mem'[p][d[1]] = d[2]
         /\ d[1] \in PromisedBy(test, p) => mem'["main"][d[1]] = d[2]
  <1> DEFINE s == Here(p)
             D == Wants(test, p, todo[p]).holds
  <1>1. /\ Procs = ProcsOf(test) /\ test \in Tests /\ "main" \in Procs
        /\ todo[p] \in Rests(test, p) /\ WellFormed(test, p, s)
    BY HereIs, ScriptsWellFormed DEF Sound, ControlOK
  <1>2. s.do # "exec" /\ d[1] \in RegionsOf(test)
    BY DEF Gives
  <1>3. \A c \in D : mem[p][c[1]] = c[2]
                      /\ (c[1] \in PromisedBy(test, p) => mem["main"][c[1]] = c[2])
    BY DEF InOrder, InPlace
  <1>4. CASE d[1] \notin Changes(s)
    BY <1>1, <1>2, <1>3, <1>4 DEF RightOnMemory, Gives
  <1>5. CASE d[1] \in Changes(s)
    <2>1. Value(p, s, d[1]) = d[2]
      <3>1. s.do \in {"write", "drop", "unmap", "map", "move"}
        BY <1>5 DEF Changes
      <3>2. CASE s.do \in {"write", "drop", "unmap"}
        BY <1>5, <3>2 DEF Gives, Value
      <3>3. CASE s.do = "map"
        <4>1. CASE s.val \in RegionsOf(test)
          <5>1. <<s.val, d[2]>> \in D
            BY <1>5, <3>3, <4>1 DEF Gives
          <5> QED
            BY <1>3, <3>3, <4>1, <5>1 DEF Value
        <4>2. CASE s.val \notin RegionsOf(test)
          BY <1>5, <3>3, <4>2 DEF Gives, Value
        <4> QED
          BY <4>1, <4>2
      <3>4. CASE s.do = "move"
        <4>1. d[1] \notin s.at /\ \A r \in s.at : <<r, d[2]>> \in D
          BY <1>5, <3>4 DEF Gives
        <4>2. (CHOOSE q \in s.at : TRUE) \in s.at
          BY <1>1, <3>4 DEF WellFormed
        <4>3. mem[p][CHOOSE q \in s.at : TRUE] = d[2]
          BY <1>3, <4>1, <4>2
        <4> QED
          BY <3>4, <4>1, <4>3 DEF Value
      <3> QED
        BY <3>1, <3>2, <3>3, <3>4
    <2>2. p \in Sharers(p, s.at)
      BY DEF Sharers
    <2>3. mem'[p][d[1]] = d[2]
      BY <1>2, <1>5, <2>1, <2>2 DEF RightOnMemory
    <2>4. ASSUME d[1] \in PromisedBy(test, p) PROVE "main" \in Sharers(p, s.at)
      <3>1. p # "main"
        BY <2>4 DEF PromisedBy, Promises
      <3>2. Sees(test, p, "main", s)
        BY <1>1, <1>5, <2>4, <3>1, NobodyDisturbs DEF Here
      <3>3. state["main"] # "absent"
        BY DEF Sound
      <3> QED
        BY <1>1, <3>2, <3>3, SeenIsShared DEF Sound
    <2> QED
      BY <1>1, <1>2, <1>5, <2>1, <2>3, <2>4 DEF RightOnMemory
  <1> QED
    BY <1>4, <1>5

\* What the step of p leaves alone: what the other processes want and promise.
LEMMA OthersKeep ==
  ASSUME Sound, InOrder, NEW p \in Procs, state[p] = "running", RightOnMemory(p),
         NEW q \in Procs \ {p}
  PROVE  /\ state[q] = "running" =>
              \A d \in Wants(test, q, todo[q]).holds : mem'[q][d[1]] = d[2]
         /\ \/ state[q] = "running"
            \/ state[q] = "ok" /\ q \in Pending(todo["main"])
            => \A r \in PromisedBy(test, q) : mem'["main"][r] = mem["main"][r]
  <1> DEFINE s == Here(p)
  <1>1. /\ state[q] = "running" /\ q \in Sharers(p, s.at)
             => Changes(s) \cap Reliant(test, q, todo[q]) = {}
        /\ /\ state[q] = "running" \/ (state[q] = "ok" /\ q \in Pending(todo["main"]))
           /\ "main" \in Sharers(p, s.at)
           => Changes(s) \cap PromisedBy(test, q) = {}
    BY Undisturbed DEF Sound, InOrder
  <1>2. \A x \in Procs : \A r \in RegionsOf(test) :
          ~(x \in Sharers(p, s.at) /\ r \in Changes(s)) => mem'[x][r] = mem[x][r]
    BY DEF RightOnMemory
  <1>3. "main" \in Procs
    BY ScriptsWellFormed DEF Sound, ControlOK, Procs
  <1> HIDE DEF s
  <1>4. ASSUME state[q] = "running", NEW d \in Wants(test, q, todo[q]).holds
        PROVE  mem'[q][d[1]] = d[2]
    <2>1. d[1] \in RegionsOf(test)
      BY <1>4, WantsAre DEF Sound
    <2>2. d[1] \in Reliant(test, q, todo[q])
      BY <1>4 DEF Reliant
    <2>3. mem[q][d[1]] = d[2]
      BY <1>4 DEF InOrder, InPlace
    <2> QED
      BY <1>1, <1>2, <1>4, <2>1, <2>2, <2>3
  <1>5. ASSUME state[q] = "running" \/ (state[q] = "ok" /\ q \in Pending(todo["main"])),
               NEW r \in PromisedBy(test, q)
        PROVE  mem'["main"][r] = mem["main"][r]
    <2>1. r \in RegionsOf(test)
      BY WantsAre DEF Sound, PromisedBy
    <2> QED
      BY <1>1, <1>2, <1>3, <1>5, <2>1
  <1> QED
    BY <1>4, <1>5

LEMMA InOrderGoes ==
  ASSUME Sound, InOrder, NEW p \in Procs, state[p] = "running", Goes(p),
         UNCHANGED <<test, Procs>>
  PROVE  InOrder'
  <1> DEFINE u == todo[p]
             s == Here(p)
             N == Wants(test, p, After(u, 1))
  <1>1. /\ Procs = ProcsOf(test) /\ test \in Tests /\ "main" \in Procs
        /\ u \in Rests(test, p) /\ WellFormed(test, p, s) /\ todo = [q \in Procs |-> todo[q]]
    BY HereIs, ScriptsWellFormed DEF Sound, ControlOK, Placed
  <1>2. /\ UNCHANGED <<state, pass>> /\ todo'[p] = After(u, 1)
        /\ \A q \in Procs \ {p} : todo'[q] = todo[q]
    BY <1>1 DEF Goes, GoTo
  <1>3. s.do \notin MakesProcess \cup {"end", "invalid"} /\ s = Head(u)
    BY DEF Goes, Here
  <1>4. /\ \A m \in Wants(test, p, u).masks : NextMask(s, m) \in N.masks
        /\ \A d \in N.holds : Gives(test, s, Wants(test, p, u).holds, d) \/ d \in Received(test, s)
        /\ N.holds \subseteq RegionsOf(test) \X Contents
        /\ s.do = "exec" => p # "main"
        /\ p = "main" => Pending(After(u, 1)) \subseteq Pending(u)
        /\ p = "main" /\ s.do \in WaitsFor => s.val \in Pending(u)
    <2>1. After(u, 1) \in Rests(test, p)
      BY <1>3, HereIs DEF Sound
    <2> QED
      BY <1>1, <1>3, <2>1, ChecksAreMet
  <1>5. \A q \in Procs : mask'[q] = IF q = p THEN NextMask(s, mask[p]) ELSE mask[q]
    BY DEF Goes
  <1>6. s.do # "exec" => RightOnMemory(p)
    BY DEF Goes
  <1>7. s.do = "exec" => /\ \A q \in Procs \ {p} : mem'[q] = mem[q]
                         /\ N.holds = {}
    BY <1>4 DEF Goes, Gives, Received, WaitsFor
  <1>8. s.do \in WaitsFor => state[s.val] = "ok"
    BY DEF Goes
  <1> HIDE DEF u, s, N
  <1>9. NoneFailed'
    BY <1>2 DEF InOrder, NoneFailed
  <1>10. ASSUME NEW d \in N.holds
         PROVE  /\ mem'[p][d[1]] = d[2]
                /\ d[1] \in PromisedBy(test, p) => mem'["main"][d[1]] = d[2]
    <2>1. s.do # "exec" /\ RightOnMemory(p) /\ d \in RegionsOf(test) \X Contents
      BY <1>4, <1>6, <1>7
    <2>2. CASE Gives(test, s, Wants(test, p, u).holds, d)
      BY <2>1, <2>2, StepGives DEF s, u
    <2>3. CASE d \in Received(test, s)
      <3>1. s.do \in WaitsFor /\ d \in Promises(test, s.val)
        BY <2>3 DEF Received
      <3>2. p = "main" /\ s.val \in Children
        BY <1>1, <3>1 DEF WellFormed, Children
      <3>3. mem["main"][d[1]] = d[2]
        BY <1>4, <1>8, <3>1, <3>2 DEF InOrder, Delivered, u
      <3>4. Changes(s) = {}
        BY <3>1 DEF Changes, WaitsFor
      <3>5. mem'["main"][d[1]] = mem["main"][d[1]]
        BY <1>1, <2>1, <3>4 DEF RightOnMemory, s
      <3> QED
        BY <3>2, <3>3, <3>5
    <2> QED
      BY <1>4, <2>2, <2>3
  <1>11. ASSUME NEW q \in Procs \ {p}, state[q] = "running"
         PROVE  \A d \in Wants(test, q, todo[q]).holds :
                  /\ mem'[q][d[1]] = d[2]
                  /\ d[1] \in PromisedBy(test, q) => mem'["main"][d[1]] = d[2]
    <2>1. CASE s.do = "exec"
      BY <1>1, <1>4, <1>7, <1>11, <2>1 DEF InOrder, InPlace
    <2>2. CASE s.do # "exec"
      BY <1>6, <1>11, <2>2, OthersKeep DEF InOrder, InPlace
    <2> QED
      BY <2>1, <2>2
  <1>12. InPlace'
    <2> SUFFICES ASSUME NEW q \in Procs, state[q] = "running"
                 PROVE  /\ mask'[q] \in Wants(test, q, todo'[q]).masks
                        /\ \A d \in Wants(test, q, todo'[q]).holds :
                             /\ mem'[q][d[1]] = d[2]
                             /\ d[1] \in PromisedBy(test, q) => mem'["main"][d[1]] = d[2]
      BY <1>2 DEF InPlace
    <2>1. mask[q] \in Wants(test, q, todo[q]).masks
      BY DEF InOrder, InPlace
    <2>2. CASE q = p
      BY <1>2, <1>4, <1>5, <1>10, <2>1, <2>2 DEF u, N
    <2>3. CASE q # p
      BY <1>2, <1>5, <1>11, <2>1, <2>3
    <2> QED
      BY <2>2, <2>3
  <1>13. Delivered'
    <2> SUFFICES ASSUME NEW k \in Children, state[k] = "ok", k \in Pending(todo'["main"]),
                        NEW d \in Promises(test, k)
                 PROVE  mem'["main"][d[1]] = d[2]
      BY <1>2 DEF Delivered, Children
    <2>1. k \in Pending(todo["main"])
      BY <1>1, <1>2, <1>4 DEF u
    <2>2. k # p /\ k \in Procs
      BY DEF Children
    <2>3. mem["main"][d[1]] = d[2] /\ d[1] \in PromisedBy(test, k)
      BY <2>1 DEF InOrder, Delivered, PromisedBy
    <2>4. CASE s.do = "exec"
      BY <1>1, <1>4, <1>7, <2>3, <2>4
    <2>5. CASE s.do # "exec"
      BY <1>6, <2>1, <2>2, <2>3, <2>5, OthersKeep
    <2> QED
      BY <2>4, <2>5
  <1> QED
    BY <1>9, <1>12, <1>13 DEF InOrder

LEMMA UntroubledStep ==
  ASSUME Sound, Quiet => InOrder, NEW p, Step(p), struck \subseteq struck'
  PROVE  Untroubled'
  <1>1. p \in Procs /\ state[p] = "running" /\ UNCHANGED <<test, Procs>>
    BY StepControl, TestStays DEF Sound
  <1>2. state'["main"] # "absent"
    BY OthersGoOn, ScriptsWellFormed DEF Sound, ControlOK, Procs
  <1>3. ASSUME Quiet' PROVE InOrder'
    <2>1. InOrder
      BY <1>1, <1>3 DEF Quiet
    <2>2. Orderly(p)
      BY <1>3, <2>1, StepIsOrderly DEF Sound
    <2> QED
      BY <1>1, <2>1, <2>2, InOrderGoes, InOrderSkips, InOrderBegets, InOrderHalts DEF Orderly
  <1> QED
    BY <1>2, <1>3 DEF Untroubled

\* A child that is killed is struck by a fault, or its stack is freed, or main
\* has failed.
LEMMA UntroubledKilled ==
  ASSUME Sound, StackHeld, Untroubled, NEW k, ChildKilled(k)
  PROVE  Untroubled'
  <1>1. /\ k \in Procs \ {"main"} /\ state' = [state EXCEPT ![k] = "killed"]
        /\ UNCHANGED test
    BY KilledIs DEF Sound
  <1>2. state'["main"] # "absent"
    BY <1>1 DEF Sound
  <1>3. ~Quiet'
    <2>1. CASE StackFreed(k) /\ UNCHANGED struck
      <3>1. Misread
        BY <2>1 DEF StackFreed, StackHeld
      <3> QED
        BY <2>1, <3>1 DEF Misread, Quiet
    <2>2. CASE Signalled /\ UNCHANGED <<struck, test>>
      <3>1. "main" \in Procs /\ state["main"] = "failed"
        BY <2>2, ScriptsWellFormed DEF Signalled, Sound, ControlOK, Procs
      <3>2. ~Quiet
        BY <3>1 DEF Untroubled, InOrder, NoneFailed
      <3> QED
        BY <2>2, <3>2 DEF Quiet
    <2>3. CASE Strike({"killed"})
      BY <2>3 DEF Strike, Quiet
    <2> QED
      BY <1>1, <2>1, <2>2, <2>3 DEF ChildKilled, Doomed
  <1> QED
    BY <1>2, <1>3 DEF Untroubled

LEMMA UntroubledNext ==
  ControlOK /\ MemoryOK /\ Awaited /\ Held /\ StackHeld /\ Untroubled /\ [Next]_vars => Untroubled'
  <1> SUFFICES ASSUME ControlOK, MemoryOK, Awaited, Held, StackHeld, Untroubled, [Next]_vars
               PROVE  Untroubled'
    OBVIOUS
  <1>0. Sound /\ struck \subseteq struck'
    BY StruckGrows DEF Sound, Untroubled
  <1>1. ASSUME NEW p, Step(p) PROVE Untroubled'
    BY <1>0, <1>1, UntroubledStep DEF Untroubled
  <1>2. ASSUME NEW k, ChildKilled(k) PROVE Untroubled'
    BY <1>0, <1>2, UntroubledKilled
  <1>3. CASE UNCHANGED vars
    BY <1>3 DEF vars, control, memory, Untroubled, Quiet, InOrder, NoneFailed, InPlace,
       Delivered, Children, Procs
  <1> QED
    BY <1>1, <1>2, <1>3 DEF Next, Done

LEMMA UntroubledInit == Init => Untroubled
  <1> SUFFICES ASSUME Init PROVE Untroubled
    OBVIOUS
  <1>1. /\ test \in Tests /\ Procs = ProcsOf(test) /\ "main" \in Procs
        /\ \A p \in Procs : state[p] = IF p = "main" THEN "running" ELSE "absent"
    BY ScriptsWellFormed DEF Init, Procs
  <1>2. NoneFailed
    BY <1>1 DEF Init, NoneFailed
  <1>3. /\ 0 \in Wants(test, "main", todo["main"]).masks
        /\ Wants(test, "main", todo["main"]).holds
             \subseteq {<<r, "zero">> : r \in Static \cap RegionsOf(test)}
    BY <1>1, ChecksAreMet DEF Init
  <1>4. mask["main"] = 0 /\ \A r \in Static \cap RegionsOf(test) : mem["main"][r] = "zero"
    BY <1>1 DEF Init
  <1>5. InPlace
    BY <1>1, <1>3, <1>4 DEF InPlace
  <1>6. Delivered
    BY <1>1 DEF Delivered, Children
  <1> QED
    BY <1>1, <1>2, <1>5, <1>6 DEF Untroubled, InOrder

\* No program of the 28 fails for a refusal it accepts, nor for the order in
\* which its processes run: as long as nothing else strikes, every process finds
\* the mask it queries and the contents it checks, whoever else has run.
THEOREM NoAlarmIsFalse == Spec => []NoFalseAlarm
  <1>1. ControlOK /\ Untroubled => NoFalseAlarm
    <2>1. ControlOK => "main" \in Procs
      BY ScriptsWellFormed DEF ControlOK, Procs
    <2> QED
      BY <2>1 DEF Untroubled, Quiet, InOrder, NoneFailed, NoFalseAlarm
  <1> QED
    BY <1>1, TypedInit, TypedNext, AwaitedInit, AwaitedNext, HeldInit, HeldNext, StackInit,
       StackNext, UntroubledInit, UntroubledNext, PTL DEF Spec

-----------------------------------------------------------------------------
(***************************************************************************)
(* What a step of p does to the contents of the regions and to the masks,  *)
(* whatever strikes.                                                       *)
(***************************************************************************)

\* What the step of p leaves alone, or damages; and what it makes of a region.
Leaves(p, q, r) ==
  mem'[q][r] = mem[q][r] \/ (r \in Here(p).keeps /\ mem'[q][r] = "bad")

Alters(p, q, r) ==
  LET s == Here(p) IN
  /\ r \in Changes(s)
  /\ \/ /\ s.do = "write" /\ mem'[q][r] = s.val
        /\ q = p \/ Sees(test, p, q, s) \/ mem[q][r] # "none"
     \/ /\ q = p \/ Sees(test, p, q, s)
        /\ \/ mem'[q][r] = Value(p, s, r)
           \/ s.do = "map" /\ mem'[q][r] = "zero" /\ "blank" \in struck'

\* What a step of p does to what q sees.
OnContents(p) ==
  \A q \in Procs : \A r \in RegionsOf(test) :
    \/ Leaves(p, q, r) \/ Alters(p, q, r)
    \/ Here(p).do = "exec" /\ q = p
    \/ Here(p).do \in {"fork", "cloneVM"} /\ q = Here(p).val

LEMMA BecomesMay ==
  ASSUME ControlOK, MemoryOK, NEW p \in Procs, NEW d \in Damage(p), NEW R, NEW f,
         IsPatch(f), Becomes(p, R, f, d)
  PROVE  /\ \A q \in Procs : \A r \in RegionsOf(test) :
              \/ Leaves(p, q, r)
              \/ q \in Sharers(p, R) /\ r \in DOMAIN f /\ mem'[q][r] = f[r]
         /\ \A r \in DOMAIN f : mem'[p][r] \in {f[r], "bad"}
         /\ \A r \in d.at : mem'[p][r] = "bad"
  <1> DEFINE g == Over(Filled(d.at, "bad"), f)
  <1>1. /\ IsPatch(Filled(d.at, "bad")) /\ DOMAIN Filled(d.at, "bad") = d.at
        /\ \A r \in d.at : Filled(d.at, "bad")[r] = "bad"
        /\ d.at \subseteq Here(p).keeps
    BY DamageIs, FilledIsPatch DEF Contents
  <1>2. IsPatch(g)
    BY <1>1, OverIsPatch
  <1>3. /\ DOMAIN g = d.at \cup DOMAIN f
        /\ \A r \in DOMAIN g : g[r] = IF r \in d.at THEN "bad" ELSE f[r]
    BY <1>1 DEF Over
  <1>4. p \in Sharers(p, R) /\ p \in Procs
    BY DEF Sharers
  <1>5. DOMAIN f \subseteq RegionsOf(test) /\ d.at \subseteq RegionsOf(test)
    BY DamageIs DEF IsPatch
  <1> HIDE DEF g
  <1>6. mem' = Changed(Sharers(p, R), g)
    BY DEF Becomes, g
  <1>7. \A q \in Procs : \A r \in RegionsOf(test) :
          mem'[q][r] = IF q \in Sharers(p, R) /\ r \in DOMAIN g THEN g[r] ELSE mem[q][r]
    BY <1>2, <1>6, ChangedIs
  <1> QED
    BY <1>1, <1>3, <1>4, <1>5, <1>7 DEF Leaves

LEMMA SharersAre ==
  ASSUME ControlOK, NEW p \in Procs, NEW q \in Sharers(p, Here(p).at)
  PROVE  q = p \/ Sees(test, p, q, Here(p))
  BY SharersSee

\* The step of p is the action for what it does.
LEMMA ActionIs ==
  ASSUME NEW p, Step(p)
  PROVE  /\ Here(p).do = "enable" => EnableReplication(p)
         /\ Here(p).do = "disable" => DisableReplication(p)
         /\ Here(p).do = "invalid" => EnableInvalid(p)
         /\ Here(p).do = "query" => QueryReplication(p)
         /\ Here(p).do = "map" => MapMemory(p)
         /\ Here(p).do = "write" => WriteMemory(p)
         /\ Here(p).do = "check" => CheckMemory(p)
         /\ Here(p).do = "unmap" => UnmapMemory(p)
         /\ Here(p).do = "drop" => DropMemory(p)
         /\ Here(p).do = "move" => MoveMemory(p)
         /\ Here(p).do = "fork" => ForkProcess(p)
         /\ Here(p).do = "cloneVM" => CloneVM(p)
         /\ Here(p).do = "thread" => CreateThread(p)
         /\ Here(p).do \in WaitsFor => WaitForProcess(p)
         /\ Here(p).do = "await" => Await(p)
         /\ Here(p).do = "exec" => Exec(p)
         /\ Here(p).do \in {"numa", "end", "shut", "open", "lower", "restore", "judge"} =>
              CheckNodes(p) \/ Return(p) \/ ProtectMemory(p) \/ LowerLimit(p)
              \/ RestoreLimit(p) \/ Judge(p)
  <1>1. Here(p).do \in {"enable", "disable", "invalid", "query"} <=>
          EnableReplication(p) \/ DisableReplication(p) \/ EnableInvalid(p) \/ QueryReplication(p)
    BY DEF Step, Doing, Current, Here, EnableReplication, DisableReplication, EnableInvalid,
        QueryReplication, MapMemory, WriteMemory, CheckMemory, UnmapMemory, DropMemory,
        ProtectMemory, MoveMemory, OtherCall, LowerLimit, RestoreLimit, ForkProcess, CloneVM,
        CreateThread, WaitForProcess, Await, Exec, CheckNodes, Judge, Return
  <1> QED
    BY DEF Step, Doing, Current, Here, WaitsFor, EnableReplication, DisableReplication, EnableInvalid,
        QueryReplication, MapMemory, WriteMemory, CheckMemory, UnmapMemory, DropMemory,
        ProtectMemory, MoveMemory, OtherCall, LowerLimit, RestoreLimit, ForkProcess, CloneVM,
        CreateThread, WaitForProcess, Await, Exec, CheckNodes, Judge, Return

\* What the step of p, where it works, makes of the regions that p maps or moves.
Gained(p) ==
  \A r \in Changes(Here(p)) :
    \/ mem'[p][r] \in {Value(p, Here(p), r), "bad"}
    \/ /\ Here(p).do = "map" /\ Here(p).val # "zero"
       /\ mem'[p][r] = "zero" /\ "blank" \in struck'

LEMMA MapContents ==
  ASSUME ControlOK, MemoryOK, NEW p \in Procs, MapMemory(p)
  PROVE  /\ OnContents(p)
         /\ GoesWrong(p) \/ (Proceed(p) /\ Gained(p))
  <1> DEFINE s == Here(p)
  <1>1. WellFormed(test, p, s) /\ s.do = "map"
    BY HereIs DEF MapMemory, Doing, Current, Here
  <1>2. CASE UNCHANGED mem /\ GoesWrong(p)
    BY <1>2 DEF OnContents, Leaves
  <1>3. ASSUME NEW a \in Mapped(p, s.val), NEW d \in Damage(p), Proceed(p),
               Becomes(p, s.at, Filled(s.at, a.val), d), Strike({a.fault, d.fault})
        PROVE  OnContents(p) /\ Gained(p)
    <2>2. mem[p] \in [RegionsOf(test) -> Contents] /\ Regions = RegionsOf(test)
      BY ScriptsWellFormed DEF MemoryOK, ControlOK, Regions, Procs
    <2>3. a.val \in Contents
      BY <1>1, <1>3, <2>2 DEF Mapped, Possible, WellFormed, Contents
    <2>5. s.at \subseteq RegionsOf(test) /\ Changes(s) = s.at
      BY <1>1 DEF WellFormed, Changes
    <2>6. IsPatch(Filled(s.at, a.val)) /\ DOMAIN Filled(s.at, a.val) = s.at
          /\ \A r \in s.at : Filled(s.at, a.val)[r] = a.val
      BY <2>3, <2>5, FilledIsPatch
    <2>7. \A r \in s.at :
            a.val = Value(p, s, r) \/ (a.val = "zero" /\ s.val # "zero" /\ "blank" \in struck')
      BY <1>1, <1>3, <2>2 DEF Mapped, Possible, Value, Strike
    <2>8. /\ \A q \in Procs : \A r \in RegionsOf(test) :
               \/ Leaves(p, q, r)
               \/ q \in Sharers(p, s.at) /\ r \in s.at /\ mem'[q][r] = a.val
          /\ \A r \in s.at : mem'[p][r] \in {a.val, "bad"}
      BY <1>3, <2>6, BecomesMay
    <2>9. \A q \in Sharers(p, s.at) : q = p \/ Sees(test, p, q, s)
      BY SharersAre
    <2>10. OnContents(p)
      BY <1>1, <2>5, <2>7, <2>8, <2>9 DEF OnContents, Alters
    <2> QED
      BY <1>1, <2>5, <2>7, <2>8, <2>10 DEF Gained
  <1> QED
    BY <1>2, <1>3 DEF MapMemory, Current, Here

LEMMA MoveContents ==
  ASSUME ControlOK, MemoryOK, NEW p \in Procs, MoveMemory(p)
  PROVE  /\ OnContents(p)
         /\ GoesWrong(p) \/ (Proceed(p) /\ Gained(p))
  <1> DEFINE s == Here(p)
             v == mem[p][CHOOSE q \in s.at : TRUE]
             f == [r \in s.at \cup {s.val} |-> IF r \in s.at THEN "none" ELSE v]
  <1>1. WellFormed(test, p, s) /\ s.do = "move"
    BY HereIs DEF MoveMemory, Doing, Current, Here
  <1>2. PICK a \in Call("call"), d \in Damage(p) :
          /\ ProceedIf(p, a.ok)
          /\ Becomes(p, s.at, IF a.ok THEN f ELSE Nothing, d)
    BY DEF MoveMemory, Current, Here
  <1>3. /\ s.at \subseteq RegionsOf(test) /\ s.at # {} /\ s.val \in RegionsOf(test)
        /\ Changes(s) = s.at \cup {s.val}
    BY <1>1 DEF WellFormed, Changes
  <1>4. v \in Contents
    BY <1>3, ScriptsWellFormed DEF MemoryOK, ControlOK, Procs
  <1>5. /\ IsPatch(f) /\ DOMAIN f = s.at \cup {s.val}
        /\ \A r \in DOMAIN f : f[r] = Value(p, s, r)
    BY <1>1, <1>3, <1>4 DEF IsPatch, Contents, Value
  <1> HIDE DEF f, v
  <1>6. CASE a.ok
    <2>1. /\ \A q \in Procs : \A r \in RegionsOf(test) :
               \/ Leaves(p, q, r)
               \/ q \in Sharers(p, s.at) /\ r \in DOMAIN f /\ mem'[q][r] = f[r]
          /\ \A r \in DOMAIN f : mem'[p][r] \in {f[r], "bad"}
      BY <1>2, <1>5, <1>6, BecomesMay
    <2>2. \A q \in Sharers(p, s.at) : q = p \/ Sees(test, p, q, s)
      BY SharersAre
    <2>3. OnContents(p)
      BY <1>3, <1>5, <2>1, <2>2 DEF OnContents, Alters
    <2>4. Proceed(p)
      BY <1>2, <1>6 DEF ProceedIf
    <2> QED
      BY <1>3, <1>5, <2>1, <2>3, <2>4 DEF Gained
  <1>7. CASE ~a.ok
    <2>1. \A q \in Procs : \A r \in RegionsOf(test) : Leaves(p, q, r)
      BY <1>2, <1>7, NothingIsPatch, BecomesMay
    <2> QED
      BY <1>2, <1>7, <2>1 DEF OnContents, ProceedIf
  <1> QED
    BY <1>6, <1>7

\* Who sees a write: those who share the memory, the writer alone, or also others
\* that have the regions mapped.
LEMMA ReachIs ==
  ASSUME NEW p, NEW R, NEW b \in Reaching(p, R)
  PROVE  /\ p \in Sharers(p, R) /\ p \in b.who
         /\ \/ b.who = Sharers(p, R) /\ b.fault = "none"
            \/ b.who = {p} /\ b.fault = "split" /\ Sharers(p, R) # {p}
            \/ /\ Sharers(p, R) \subseteq b.who
               /\ b.fault = IF p = "main" THEN "leakDown" ELSE "leak"
               /\ \E q \in Procs \ Sharers(p, R) :
                    q \in b.who /\ state[q] = "running" /\ \A r \in R : mem[q][r] # "none"
         /\ \A q \in b.who : q \in Sharers(p, R) \/ \A r \in R : mem[q][r] # "none"
  <1> DEFINE right == Sharers(p, R)
             others == {q \in Procs \ right : state[q] = "running"
                                             /\ \A r \in R : mem[q][r] # "none"}
  <1>1. p \in right
    BY DEF Sharers
  <1>2. \A q : q \in others <=> /\ q \in Procs \ right /\ state[q] = "running"
                                /\ \A r \in R : mem[q][r] # "none"
    OBVIOUS
  <1>3. \/ b = [who |-> right, fault |-> "none"]
        \/ b = [who |-> {p}, fault |-> "split"] /\ right # {p}
        \/ /\ b = [who |-> right \cup others,
                   fault |-> IF p = "main" THEN "leakDown" ELSE "leak"]
           /\ others # {}
    BY DEF Reaching, Possible
  <1> HIDE DEF others, right
  <1>4. /\ p \in right /\ p \in b.who
        /\ \/ b.who = right /\ b.fault = "none"
           \/ b.who = {p} /\ b.fault = "split" /\ right # {p}
           \/ /\ right \subseteq b.who
              /\ b.fault = IF p = "main" THEN "leakDown" ELSE "leak"
              /\ \E q \in Procs \ right :
                   q \in b.who /\ state[q] = "running" /\ \A r \in R : mem[q][r] # "none"
        /\ \A q \in b.who : q \in right \/ \A r \in R : mem[q][r] # "none"
    BY <1>1, <1>2, <1>3
  <1> QED
    BY <1>4 DEF right

LEMMA WriteContents ==
  ASSUME ControlOK, MemoryOK, NEW p \in Procs, WriteMemory(p)
  PROVE  OnContents(p)
  <1> DEFINE s == Here(p)
  <1>1. WellFormed(test, p, s) /\ s.do = "write"
    BY HereIs DEF WriteMemory, Doing, Current, Here
  <1>2. PICK a \in Arriving(p, s.at, s.val), b \in Reaching(p, s.at), d \in Damage(p) :
          mem' = Changed(b.who, Over(Filled(d.at, "bad"), Filled(a.at, s.val)))
    BY DEF WriteMemory, Current, Here
  <1>3. a.at \subseteq s.at /\ s.at \subseteq RegionsOf(test) /\ s.val \in Contents
        /\ Changes(s) = s.at
    BY <1>1, <1>2 DEF Arriving, Possible, WellFormed, Changes
  <1>4. /\ IsPatch(Filled(d.at, "bad")) /\ DOMAIN Filled(d.at, "bad") = d.at
        /\ \A r \in d.at : Filled(d.at, "bad")[r] = "bad"
        /\ d.at \subseteq Here(p).keeps
    BY DamageIs, FilledIsPatch DEF Contents
  <1>5. /\ IsPatch(Filled(a.at, s.val)) /\ DOMAIN Filled(a.at, s.val) = a.at
        /\ \A r \in a.at : Filled(a.at, s.val)[r] = s.val
    BY <1>3, FilledIsPatch
  <1> DEFINE g == Over(Filled(d.at, "bad"), Filled(a.at, s.val))
  <1>6. /\ IsPatch(g) /\ DOMAIN g = d.at \cup a.at
        /\ \A r \in DOMAIN g : g[r] = IF r \in d.at THEN "bad" ELSE s.val
    <2>1. IsPatch(g)
      BY <1>4, <1>5, OverIsPatch
    <2> QED
      BY <1>4, <1>5, <2>1 DEF Over
  <1>7. mem' = Changed(b.who, g)
    BY <1>2
  <1> HIDE DEF g
  <1>8. \A q \in b.who \ Sharers(p, s.at) : \A r \in s.at : mem[q][r] # "none"
    BY <1>2, ReachIs
  <1>9. \A q \in Sharers(p, s.at) : q = p \/ Sees(test, p, q, s)
    BY SharersAre
  <1>10. \A q \in Procs : \A r \in RegionsOf(test) :
           mem'[q][r] = IF q \in b.who /\ r \in DOMAIN g THEN g[r] ELSE mem[q][r]
    BY <1>6, <1>7, ChangedIs
  <1>11. ASSUME NEW q \in Procs, NEW r \in RegionsOf(test)
         PROVE  Leaves(p, q, r) \/ Alters(p, q, r)
    <2>1. CASE r \in d.at \/ q \notin b.who \/ r \notin DOMAIN g
      BY <1>4, <1>6, <1>10, <2>1 DEF Leaves
    <2>2. CASE q \in b.who /\ r \in a.at /\ r \notin d.at
      <3>1. mem'[q][r] = s.val /\ r \in s.at
        BY <1>3, <1>6, <1>10, <2>2
      <3>2. q = p \/ Sees(test, p, q, s) \/ mem[q][r] # "none"
        BY <1>8, <1>9, <2>2, <3>1
      <3> QED
        BY <1>1, <1>3, <3>1, <3>2 DEF Alters
    <2> QED
      BY <1>6, <2>1, <2>2
  <1> QED
    BY <1>11 DEF OnContents

LEMMA UnmapContents ==
  ASSUME ControlOK, MemoryOK, NEW p \in Procs, UnmapMemory(p)
  PROVE  OnContents(p)
  <1> DEFINE s == Here(p)
  <1>1. WellFormed(test, p, s) /\ s.do = "unmap"
    BY HereIs DEF UnmapMemory, Doing, Current, Here
  <1>2. PICK a \in Call("unmap"), d \in Damage(p) :
          Becomes(p, s.at, IF a.ok THEN Filled(s.at, "none") ELSE Nothing, d)
    BY DEF UnmapMemory, Current, Here
  <1>3. s.at \subseteq RegionsOf(test) /\ Changes(s) = s.at
        /\ \A r \in s.at : Value(p, s, r) = "none"
    BY <1>1 DEF WellFormed, Changes, Value
  <1>4. \A q \in Sharers(p, s.at) : q = p \/ Sees(test, p, q, s)
    BY SharersAre
  <1>5. CASE a.ok
    <2>1. /\ IsPatch(Filled(s.at, "none")) /\ DOMAIN Filled(s.at, "none") = s.at
          /\ \A r \in s.at : Filled(s.at, "none")[r] = "none"
      BY <1>3, FilledIsPatch DEF Contents
    <2>2. \A q \in Procs : \A r \in RegionsOf(test) :
            \/ Leaves(p, q, r)
            \/ q \in Sharers(p, s.at) /\ r \in s.at /\ mem'[q][r] = "none"
      BY <1>2, <1>5, <2>1, BecomesMay
    <2> QED
      BY <1>3, <1>4, <2>2 DEF OnContents, Alters
  <1>6. CASE ~a.ok
    BY <1>2, <1>6, NothingIsPatch, BecomesMay DEF OnContents
  <1> QED
    BY <1>5, <1>6

LEMMA DropContents ==
  ASSUME ControlOK, MemoryOK, NEW p \in Procs, DropMemory(p)
  PROVE  OnContents(p)
  <1> DEFINE s == Here(p)
  <1>1. WellFormed(test, p, s) /\ s.do = "drop"
    BY HereIs DEF DropMemory, Doing, Current, Here
  <1>2. s.at \subseteq RegionsOf(test) /\ Changes(s) = s.at
        /\ \A r \in s.at : Value(p, s, r) = "zero"
    BY <1>1 DEF WellFormed, Changes, Value
  <1>3. \A q \in Sharers(p, s.at) : q = p \/ Sees(test, p, q, s)
    BY SharersAre
  <1>4. ASSUME NEW stale, NEW d \in Damage(p), Becomes(p, s.at, Filled(s.at \ stale, "zero"), d)
        PROVE  OnContents(p)
    <2>1. /\ IsPatch(Filled(s.at \ stale, "zero"))
          /\ DOMAIN Filled(s.at \ stale, "zero") = s.at \ stale
          /\ \A r \in s.at \ stale : Filled(s.at \ stale, "zero")[r] = "zero"
      BY <1>2, FilledIsPatch DEF Contents
    <2>2. \A q \in Procs : \A r \in RegionsOf(test) :
            \/ Leaves(p, q, r)
            \/ q \in Sharers(p, s.at) /\ r \in s.at /\ mem'[q][r] = "zero"
      BY <1>4, <2>1, BecomesMay
    <2> QED
      BY <1>2, <1>3, <2>2 DEF OnContents, Alters
  <1>5. ASSUME UNCHANGED mem PROVE OnContents(p)
    BY <1>5 DEF OnContents, Leaves
  <1> QED
    BY <1>4, <1>5 DEF DropMemory, Current, Here

LEMMA ForkContents ==
  ASSUME ControlOK, MemoryOK, NEW p \in Procs, ForkProcess(p)
  PROVE  /\ OnContents(p)
         /\ GoesWrong(p) \/ (/\ Started(p, Here(p).val)
                            /\ \A r \in RegionsOf(test) :
                                 mem'[Here(p).val][r] \in {mem[p][r], "bad"})
  <1> DEFINE s == Here(p)
             k == Here(p).val
  <1>1. WellFormed(test, p, s) /\ s.do = "fork"
    BY HereIs DEF ForkProcess, Doing, Current, Here
  <1>2. k \in Procs /\ Procs = ProcsOf(test) /\ k # p
    BY <1>1, HereIs DEF WellFormed, MakesProcess
  <1>3. CASE UNCHANGED mem /\ GoesWrong(p)
    BY <1>3 DEF OnContents, Leaves
  <1>4. ASSUME NEW C, NEW d \in Damage(p), Started(p, k),
               mem' = [mem EXCEPT ![p] = Over(Filled(d.at, "bad"), mem[p]),
                                  ![k] = Over(Filled(C, "bad"), mem[p])]
        PROVE  /\ OnContents(p)
               /\ \A r \in RegionsOf(test) : mem'[k][r] \in {mem[p][r], "bad"}
    <2>1. /\ mem'[k] = Over(Filled(C, "bad"), mem[p])
          /\ mem'[p] = Over(Filled(d.at, "bad"), mem[p])
          /\ \A q \in Procs \ {p, k} : mem'[q] = mem[q]
      BY <1>2, <1>4 DEF MemoryOK
    <2>2. ASSUME NEW R
          PROVE  \A r \in RegionsOf(test) :
                   Over(Filled(R, "bad"), mem[p])[r] = IF r \in R THEN "bad" ELSE mem[p][r]
      BY <1>2 DEF Over, Filled, MemoryOK
    <2>3. d.at \subseteq s.keeps
      BY DamageIs
    <2>4. \A r \in RegionsOf(test) : Leaves(p, p, r)
      BY <2>1, <2>2, <2>3 DEF Leaves
    <2>5. OnContents(p)
      BY <1>1, <2>1, <2>4 DEF OnContents, Leaves
    <2> QED
      BY <2>1, <2>2, <2>5
  <1> QED
    BY <1>3, <1>4 DEF ForkProcess, Current, Here

LEMMA OnContentsStep ==
  ASSUME ControlOK, MemoryOK, NEW p, Step(p)
  PROVE  OnContents(p)
  <1>0. p \in Procs /\ Procs = ProcsOf(test)
    BY StepControl, HereIs
  <1>1. CASE EnableReplication(p) \/ DisableReplication(p) \/ OtherCall(p)
    <2>1. PICK d \in Damage(p) : Becomes(p, {}, Nothing, d)
      BY <1>1 DEF EnableReplication, DisableReplication, OtherCall
    <2> QED
      BY <1>0, <2>1, NothingIsPatch, BecomesMay DEF OnContents
  <1>2. ASSUME UNCHANGED mem PROVE OnContents(p)
    BY <1>2 DEF OnContents, Leaves
  <1>3. CASE EnableInvalid(p) \/ QueryReplication(p) \/ CheckMemory(p) \/ ProtectMemory(p)
    BY <1>2, <1>3 DEF EnableInvalid, QueryReplication, CheckMemory, ProtectMemory, memory
  <1>4. CASE LowerLimit(p) \/ RestoreLimit(p) \/ CreateThread(p) \/ WaitForProcess(p)
    BY <1>2, <1>4 DEF LowerLimit, RestoreLimit, CreateThread, WaitForProcess, memory
  <1>5. CASE Await(p) \/ CheckNodes(p) \/ Judge(p) \/ Return(p)
    BY <1>2, <1>5 DEF Await, CheckNodes, Judge, Return, memory
  <1>6. CASE CloneVM(p)
    <2>1. Here(p).do = "cloneVM" /\ Here(p).val \in Procs
      BY <1>0, <1>6, HereIs DEF CloneVM, Doing, Current, Here, WellFormed, MakesProcess
    <2>2. UNCHANGED mem \/ mem' = [mem EXCEPT ![Here(p).val] = mem[p]]
      BY <1>6 DEF CloneVM, Current, Here
    <2>3. \A q \in Procs : q # Here(p).val => mem'[q] = mem[q]
      BY <1>0, <2>1, <2>2 DEF MemoryOK
    <2> QED
      BY <2>1, <2>3 DEF OnContents, Leaves
  <1>7. CASE Exec(p)
    <2>1. Here(p).do = "exec"
      BY <1>7 DEF Exec, Doing, Current, Here
    <2>2. UNCHANGED mem \/ mem' = [mem EXCEPT ![p] = Filled(Regions, "none")]
      BY <1>7 DEF Exec
    <2>3. \A q \in Procs : q # p => mem'[q] = mem[q]
      BY <1>0, <2>2 DEF MemoryOK
    <2> QED
      BY <2>1, <2>3 DEF OnContents, Leaves
  <1> QED
    BY <1>0, <1>1, <1>3, <1>4, <1>5, <1>6, <1>7, MapContents, WriteContents, UnmapContents,
       DropContents, MoveContents, ForkContents DEF Step

-----------------------------------------------------------------------------
(***************************************************************************)
(* What a program that passes has not looked at.                           *)
(***************************************************************************)

\* The fault f is overlooked, or hidden by one that is.
Excused(f) ==
  \/ test \in Overlooking(f)
  \/ \E g \in struck : test \in Overlooking(g) /\ f \in HiddenBy(g)

\* A failure has been noticed, or printed.
Shown == Failed \/ (printed /\ test \in PrintsOnly)

\* Nobody is going to change the region r that p sees.
Settled(p, r) ==
  \A q \in Procs \ {p} :
    state[q] \in {"absent", "running"} => r \notin MayChange(test, q, p, todo[q])

\* p sees what it is not going to tolerate; it has a mask that it is not going
\* to tolerate.
Astray(p, b) ==
  /\ test # "test26" /\ state[p] = "running"
  /\ \E r \in RegionsOf(test) :
       mem[p][r] \notin Tolerates(test, p, todo[p], b)[r] /\ Settled(p, r)
Amiss(p, m) == state[p] = "running" /\ mask[p] = m /\ m \notin Masks(test, p, todo[p])

\* A step of p that nobody notices.
Unseen(p) ==
  /\ Sound /\ Sound' /\ Step(p) /\ struck \subseteq struck'
  /\ ~Shown /\ ~Shown' /\ UNCHANGED <<test, Procs>>

LEMMA UnseenIs ==
  ASSUME NEW p, Unseen(p)
  PROVE  /\ p \in Procs /\ state[p] = "running" /\ "main" \in Procs
         /\ Procs = ProcsOf(test) /\ test \in Tests /\ UNCHANGED <<test, Procs>>
         /\ ControlOK /\ MemoryOK /\ Awaited /\ Held
         /\ ControlOK' /\ MemoryOK' /\ Awaited' /\ Held'
         /\ ~Failed /\ ~Failed'
         /\ todo[p] \in Rests(test, p) /\ WellFormed(test, p, Here(p))
         /\ Head(todo[p]) = Here(p)
  <1>1. p \in Procs /\ state[p] = "running"
    BY StepControl DEF Unseen
  <1>2. ControlOK /\ MemoryOK /\ Awaited /\ Held /\ ControlOK' /\ MemoryOK' /\ Awaited' /\ Held'
    BY DEF Unseen, Sound
  <1>3. ~Failed /\ ~Failed' /\ UNCHANGED <<test, Procs>>
    BY DEF Unseen, Shown
  <1>4. /\ Procs = ProcsOf(test) /\ test \in Tests
        /\ todo[p] \in Rests(test, p) /\ WellFormed(test, p, Here(p))
    BY <1>1, <1>2, HereIs
  <1>5. "main" \in Procs
    BY <1>4, ScriptsWellFormed
  <1> QED
    BY <1>1, <1>2, <1>3, <1>4, <1>5 DEF Here

\* What p does, it does to itself, and to the process that it makes.
LEMMA OthersAre ==
  ASSUME NEW p, Unseen(p), NEW q \in Procs \ {p}
  PROVE  /\ todo'[q] = todo[q]
         /\ \/ state'[q] = state[q]
            \/ Makes(p) /\ q = Here(p).val /\ state[q] = "absent" /\ state'[q] = "running"
  <1>1. /\ p \in Procs /\ "main" \in Procs /\ ControlOK /\ ~Failed' /\ Step(p)
        /\ WellFormed(test, p, Here(p)) /\ Awaited /\ state[p] = "running"
        /\ todo[p] \in Rests(test, p) /\ Procs = ProcsOf(test) /\ test \in Tests
        /\ Head(todo[p]) = Here(p)
    BY UnseenIs DEF Unseen
  <1>2. todo = [x \in Procs |-> todo[x]] /\ state = [x \in Procs |-> state[x]]
    BY <1>1 DEF ControlOK, Placed
  <1>3. todo'[q] = todo[q]
    BY <1>1, OthersGoOn
  <1>4. CASE Makes(p)
    <2>1. /\ p = "main" /\ Here(p).val \in Procs \ {"main"} /\ Here(p).val \in ToMake(todo[p])
      BY <1>1, <1>4, ProcessesAreAwaited DEF Makes, WellFormed
    <2>2. state[Here(p).val] = "absent"
      BY <1>1, <2>1 DEF Awaited, Children
    <2> QED
      BY <1>1, <1>2, <1>3, <1>4, <2>2 DEF Makes, Started
  <1>5. CASE Fails(p)
    <2>1. CASE state' = [state EXCEPT ![p] = IF Here(p).bad = "die" THEN "killed" ELSE "failed"]
      BY <1>1, <1>2, <1>3, <2>1
    <2>2. CASE UNCHANGED state
      BY <1>3, <2>2
    <2> QED
      BY <1>5, <2>1, <2>2, WrongIs DEF Fails, GoTo
  <1>6. CASE Works(p) \/ Refuses(p) \/ Stops(p) \/ Sleeps(p)
    BY <1>1, <1>2, <1>3, <1>6 DEF Works, Refuses, Stops, Sleeps, GoTo, EndAs
  <1> QED
    BY <1>1, <1>4, <1>5, <1>6, StepControl

\* A child that runs main has made and has still to wait for.
LEMMA Concurrent ==
  /\ ControlOK /\ Awaited /\ ~Failed =>
       \A k \in Children : state[k] = "running" =>
         \/ /\ state["main"] = "running"
            /\ k \in Pending(todo["main"]) \ ToMake(todo["main"])
         \/ state["main"] = "absent"
  /\ (ControlOK /\ Awaited /\ ~Failed =>
       \A k \in Children : state[k] = "running" =>
         \/ /\ state["main"] = "running"
            /\ k \in Pending(todo["main"]) \ ToMake(todo["main"])
         \/ state["main"] = "absent")'
  <1>1. ASSUME ControlOK, Awaited, ~Failed, NEW k \in Children, state[k] = "running"
        PROVE  \/ /\ state["main"] = "running"
                  /\ k \in Pending(todo["main"]) \ ToMake(todo["main"])
               \/ state["main"] = "absent"
    <2>1. "main" \in Procs /\ state["main"] \in {"absent", "running", "ok", "failed", "killed"}
      BY <1>1, ScriptsWellFormed DEF ControlOK, Procs
    <2>2. pass["main"] /\ state["main"] \notin {"failed", "killed"}
      BY <1>1 DEF Failed
    <2>3. state[k] \notin Accepted(test, k)
      BY <1>1 DEF Accepted
    <2> QED
      BY <1>1, <2>1, <2>2, <2>3 DEF Awaited
  <1>2. ASSUME ControlOK', Awaited', (~Failed)', NEW k \in Children', state'[k] = "running"
        PROVE  \/ /\ state'["main"] = "running"
                  /\ k \in Pending(todo'["main"]) \ ToMake(todo'["main"])
               \/ state'["main"] = "absent"
    <2>1. "main" \in Procs' /\ state'["main"] \in {"absent", "running", "ok", "failed", "killed"}
      BY <1>2, ScriptsWellFormed DEF ControlOK, Procs
    <2>2. pass'["main"] /\ state'["main"] \notin {"failed", "killed"}
      BY <1>2 DEF Failed
    <2>3. state'[k] \notin Accepted(test', k)
      BY <1>2 DEF Accepted
    <2> QED
      BY <1>2, <2>1, <2>2, <2>3 DEF Awaited
  <1> QED
    BY <1>1, <1>2

\* Whoever runs p may find q at, p has in its way.
LEMMA BesideIs ==
  ASSUME NEW p, Unseen(p), NEW q \in Procs \ {p}
  PROVE  /\ state[q] = "running" => todo[p] \in Beside(test, p, q)
         /\ state[q] = "running" => todo[q] \in Beside(test, q, p)
  <1>1. /\ p \in Procs /\ state[p] = "running" /\ "main" \in Procs /\ Sound
        /\ ControlOK /\ Awaited /\ ~Failed /\ todo[p] \in Rests(test, p)
    BY UnseenIs DEF Unseen
  <1>2. todo[q] \in Rests(test, q)
    BY <1>1, HereIs
  <1>3. \A k \in Children : state[k] = "running" =>
          k \in Pending(todo["main"]) \ ToMake(todo["main"])
    BY <1>1, Concurrent DEF Sound
  <1> QED
    BY <1>1, <1>2, <1>3 DEF Beside, Children

\* What nobody may change while p runs, nobody is going to.
LEMMA PrivateSettles ==
  ASSUME NEW p, Unseen(p), NEW q \in Procs, state'[q] = "running", NEW r, Private(test, q, r)
  PROVE  Settled(q, r)'
  <1>1. /\ Procs = ProcsOf(test) /\ UNCHANGED <<test, Procs>> /\ "main" \in Procs /\ Sound'
        /\ ControlOK' /\ Awaited' /\ ~Failed'
    BY UnseenIs DEF Unseen
  <1>2. \A x \in Procs : todo'[x] \in Rests(test, x)
    BY <1>1 DEF ControlOK, Placed
  <1>3. \A k \in Children : state'[k] = "running" =>
          k \in Pending(todo'["main"]) \ ToMake(todo'["main"])
    BY <1>1, Concurrent DEF Sound, Children
  <1>4. ASSUME NEW x \in Procs \ {q} PROVE todo'[x] \in Beside(test, x, q)
    BY <1>1, <1>2, <1>3, <1>4 DEF Beside, Children
  <1> QED
    BY <1>1, <1>4 DEF Settled, Private

LEMMA AloneSettles ==
  ASSUME ProcsOf(test) = {"main"}, NEW p, Unseen(p), NEW r
  PROVE  Settled("main", r)'
  BY UnseenIs DEF Settled

\* A step that goes wrong, and nobody sees it.
LEMMA WrongIsIgnored ==
  ASSUME NEW p, Unseen(p), Heard(test, p), GoesWrong(p)
  PROVE  /\ Here(p).bad = "ignore" /\ UNCHANGED <<pass, printed>>
         /\ GoTo(p, After(todo[p], 1 + Here(p).skip))
  <1>1. /\ p \in Procs /\ state[p] = "running" /\ "main" \in Procs /\ ControlOK
        /\ ~Failed' /\ todo[p] \in Rests(test, p) /\ test \in Tests /\ Procs = ProcsOf(test)
        /\ UNCHANGED <<test, Procs>> /\ ~(printed' /\ test \in PrintsOnly)
        /\ WellFormed(test, p, Here(p)) /\ Head(todo[p]) = Here(p)
    BY UnseenIs DEF Unseen, Shown
  <1>2. state = [x \in Procs |-> state[x]] /\ pass = [x \in Procs |-> pass[x]]
    BY <1>1 DEF ControlOK
  <1>3. /\ Here(p).bad = "print" => test \in PrintsOnly
        /\ p # "main" => Here(p).bad \in {"abort", "ignore"}
    BY <1>1, FailuresShow
  <1>4. state'[p] \notin {"failed", "killed"}
    <2>1. CASE p = "main"
      BY <1>1, <2>1 DEF Failed
    <2>2. CASE p # "main"
      <3>1. state'[p] # "failed"
        BY <1>1, <2>2 DEF Failed, Heard, Accepted
      <3>2. state'[p] # "killed"
        BY <1>1, <1>2, <1>3, <2>2 DEF GoesWrong, Current, Here, EndAs, Advance
      <3> QED
        BY <3>1, <3>2
    <2> QED
      BY <2>1, <2>2
  <1>5. p = "main" => pass'[p]
    BY <1>1 DEF Failed
  <1>6. CASE Here(p).bad = "ignore"
    BY <1>6 DEF GoesWrong, Current, Here, Advance, GoTo
  <1>7. CASE Here(p).bad \in {"abort", "die", "kill"}
    BY <1>1, <1>2, <1>4, <1>7 DEF GoesWrong, Current, Here, EndAs
  <1>8. CASE Here(p).bad = "print"
    BY <1>1, <1>3, <1>8 DEF GoesWrong, Current, Here
  <1>9. CASE Here(p).bad \notin {"abort", "die", "kill", "ignore", "print"}
    <2>1. pass' = [pass EXCEPT ![p] = FALSE]
      BY <1>9 DEF GoesWrong, Current, Here
    <2> QED
      BY <1>1, <1>2, <1>3, <1>5, <1>9, <2>1
  <1> QED
    BY <1>6, <1>7, <1>8, <1>9

-----------------------------------------------------------------------------
(***************************************************************************)
(* The ways in which p goes on without anybody seeing that it should not.  *)
(***************************************************************************)

\* What p has looked at before it goes on to the next step.
Met(p) ==
  LET s == Here(p) IN
  /\ s.do = "check" => \A r \in s.at : Byte(mem[p][r]) = Byte(s.val)
  /\ s.do = "await" => \A r \in s.at : mem[p][r] = s.val
  /\ s.do = "query" =>
       \/ Satisfies(mask[p], s.val)
       \/ mask[p] = 0 /\ "get" \in struck' /\ test \in Overlooking("get")
  /\ s.do \in {"map", "move"} => Gained(p)
  /\ s.do \in WaitsFor => state[s.val] # "running"

GoesOn(p) ==
  /\ Here(p).do \notin MakesProcess \cup {"end"} /\ Met(p)
  /\ GoTo(p, After(todo[p], 1))

SkipsOn(p) ==
  /\ Ignores(todo[p]) \/ Here(p).do = "cloneVM"
  /\ GoTo(p, After(todo[p], 1 + Here(p).skip))
  /\ Here(p).do \in WaitsFor => state[Here(p).val] # "running"

ComesToEnd(p) ==
  /\ Here(p).do \in {"numa", "end"} /\ state'[p] # "running"
  /\ UNCHANGED <<test, todo, mem, mask>>

Begins(p) ==
  /\ Makes(p)
  /\ Here(p).do = "fork" =>
       \A r \in RegionsOf(test) : mem'[Here(p).val][r] \in {mem[p][r], "bad"}

Naps(p) == Here(p).do = "await" /\ UNCHANGED <<test, todo, state, mem, mask>>

Flows(p) == GoesOn(p) \/ SkipsOn(p) \/ ComesToEnd(p) \/ Begins(p) \/ Naps(p)

LEMMA WrongFlows ==
  ASSUME NEW p, Unseen(p), Heard(test, p), GoesWrong(p),
         Here(p).do \notin {"write", "await", "restore", "unmap", "numa", "end"},
         Here(p).do \in WaitsFor => state[Here(p).val] # "running"
  PROVE  SkipsOn(p)
  BY WrongIsIgnored, UnseenIs DEF SkipsOn, Ignores

\* Of the steps that look at nothing.
LEMMA AnswerFlows ==
  ASSUME NEW p, Unseen(p), Heard(test, p), Proceed(p) \/ GoesWrong(p),
         Here(p).do \in {"enable", "disable", "invalid", "drop", "shut", "open", "call", "lower",
                        "judge", "exec"}
  PROVE  Flows(p)
  <1>1. CASE Proceed(p)
    BY <1>1 DEF Flows, GoesOn, GoTo, Proceed, Advance, Met, WaitsFor, MakesProcess
  <1>2. CASE GoesWrong(p)
    BY <1>2, WrongFlows DEF Flows, WaitsFor
  <1> QED
    BY <1>1, <1>2

LEMMA QueryFlows ==
  ASSUME NEW p, Unseen(p), Heard(test, p), QueryReplication(p)
  PROVE  Flows(p)
  <1>1. Here(p).do = "query" /\ p \in Procs /\ test \in Tests /\ Procs = ProcsOf(test)
        /\ todo[p] \in Rests(test, p) /\ mask[p] \in Mask
    BY UnseenIs DEF QueryReplication, Doing, Current, Here, MemoryOK
  <1>2. PICK a \in Get(mask[p]) :
          ProceedIf(p, Satisfies(a.ret, Here(p).val)) /\ Strike({a.fault})
    BY DEF QueryReplication, Current, Here
  <1>3. a = [ret |-> mask[p], fault |-> "none"] \/ a = [ret |-> -1, fault |-> "get"]
    BY <1>2 DEF Get, Possible
  <1>4. CASE Satisfies(a.ret, Here(p).val)
    <2>1. Proceed(p)
      BY <1>2, <1>4 DEF ProceedIf
    <2>2. CASE a = [ret |-> mask[p], fault |-> "none"]
      <3>1. Met(p)
        BY <1>1, <1>4, <2>2 DEF Met, WaitsFor
      <3> QED
        BY <1>1, <2>1, <3>1 DEF Flows, GoesOn, GoTo, Proceed, Advance, MakesProcess
    <2>3. CASE a = [ret |-> -1, fault |-> "get"]
      <3>1. Here(p).val = "nonzero"
        BY <1>4, <2>3 DEF Satisfies
      <3>2. test \in Overlooking("get")
        BY <1>1, <3>1, FailuresShow DEF Here
      <3>3. "get" \in struck'
        BY <1>2, <2>3 DEF Strike
      <3>4. mask[p] # 0 => Satisfies(mask[p], Here(p).val)
        BY <3>1 DEF Satisfies
      <3>5. Met(p)
        BY <1>1, <3>2, <3>3, <3>4 DEF Met, WaitsFor
      <3> QED
        BY <1>1, <2>1, <3>5 DEF Flows, GoesOn, GoTo, Proceed, Advance, MakesProcess
    <2> QED
      BY <1>3, <2>2, <2>3
  <1>5. CASE ~Satisfies(a.ret, Here(p).val)
    <2>1. GoesWrong(p)
      BY <1>2, <1>5 DEF ProceedIf
    <2> QED
      BY <1>1, <2>1, WrongFlows DEF Flows, WaitsFor
  <1> QED
    BY <1>4, <1>5

LEMMA StepFlows ==
  ASSUME NEW p, Unseen(p), Heard(test, p)
  PROVE  Flows(p)
  <1>0. /\ Step(p) /\ p \in Procs /\ ControlOK /\ MemoryOK /\ state[p] = "running"
        /\ state = [x \in Procs |-> state[x]] /\ WellFormed(test, p, Here(p))
    BY UnseenIs DEF Unseen, ControlOK
  <1> USE DEF Doing, Current, Here
  <1>1. CASE EnableReplication(p) \/ DisableReplication(p) \/ EnableInvalid(p)
    BY <1>1, AnswerFlows DEF EnableReplication, DisableReplication, EnableInvalid, ProceedIf
  <1>2. CASE QueryReplication(p)
    BY <1>2, QueryFlows
  <1>3. CASE DropMemory(p) \/ ProtectMemory(p) \/ OtherCall(p)
    BY <1>3, AnswerFlows DEF DropMemory, ProtectMemory, OtherCall, ProceedIf
  <1>4. CASE LowerLimit(p) \/ Judge(p) \/ Exec(p)
    BY <1>4, AnswerFlows DEF LowerLimit, Judge, Exec, ProceedIf
  <1>5. CASE MapMemory(p) \/ MoveMemory(p)
    <2>1. Here(p).do \in {"map", "move"}
      BY <1>5 DEF MapMemory, MoveMemory
    <2>2. CASE GoesWrong(p)
      BY <2>1, <2>2, WrongFlows DEF Flows, WaitsFor
    <2>3. CASE Proceed(p) /\ Gained(p)
      BY <2>1, <2>3 DEF Flows, GoesOn, GoTo, Proceed, Advance, Met, WaitsFor, MakesProcess
    <2> QED
      BY <1>0, <1>5, <2>2, <2>3, MapContents, MoveContents
  <1>6. CASE WriteMemory(p) \/ RestoreLimit(p)
    BY <1>6 DEF WriteMemory, RestoreLimit, Flows, GoesOn, GoTo, Proceed, Advance, Met,
        WaitsFor, MakesProcess
  <1>7. CASE CheckMemory(p)
    <2>1. Here(p).do = "check"
      BY <1>7 DEF CheckMemory
    <2>2. CASE GoesWrong(p)
      BY <2>1, <2>2, WrongFlows DEF Flows, WaitsFor
    <2>3. CASE Proceed(p) /\ \A r \in Here(p).at : Byte(mem[p][r]) = Byte(Here(p).val)
      BY <2>1, <2>3 DEF Flows, GoesOn, GoTo, Proceed, Advance, Met, WaitsFor, MakesProcess
    <2> QED
      BY <1>7, <2>2, <2>3 DEF CheckMemory, ProceedIf
  <1>8. CASE UnmapMemory(p)
    <2>1. Here(p).do = "unmap"
      BY <1>8 DEF UnmapMemory
    <2>2. Proceed(p) \/ (GoesWrong(p) /\ Here(p).bad # "ignore")
      BY <1>8 DEF UnmapMemory, ProceedIf
    <2>3. Proceed(p)
      BY <2>2, WrongIsIgnored
    <2> QED
      BY <2>1, <2>3 DEF Flows, GoesOn, GoTo, Proceed, Advance, Met, WaitsFor, MakesProcess
  <1>9. CASE ForkProcess(p)
    <2>1. Here(p).do = "fork"
      BY <1>9 DEF ForkProcess
    <2>2. CASE GoesWrong(p)
      BY <2>1, <2>2, WrongFlows DEF Flows, WaitsFor
    <2>3. CASE /\ Started(p, Here(p).val)
               /\ \A r \in RegionsOf(test) : mem'[Here(p).val][r] \in {mem[p][r], "bad"}
      BY <1>9, <2>1, <2>3 DEF Flows, Begins, Makes, MakesProcess, ForkProcess
    <2> QED
      BY <1>0, <1>9, <2>2, <2>3, ForkContents
  <1>10. CASE CreateThread(p)
    <2>1. Here(p).do = "thread" /\ (GoesWrong(p) \/ Started(p, Here(p).val)) /\ UNCHANGED lowered
      BY <1>10 DEF CreateThread
    <2>2. CASE GoesWrong(p)
      BY <2>1, <2>2, WrongFlows DEF Flows, WaitsFor
    <2> QED
      BY <2>1, <2>2 DEF Flows, Begins, Makes, MakesProcess
  <1>11. CASE CloneVM(p)
    <2>1. /\ Here(p).do = "cloneVM" /\ UNCHANGED lowered
          /\ \/ GoesWrong(p) \/ Started(p, Here(p).val)
             \/ Advance(p, 1 + Here(p).skip) /\ UNCHANGED <<test, state>>
      BY <1>11 DEF CloneVM
    <2>2. CASE GoesWrong(p)
      BY <2>1, <2>2, WrongFlows DEF Flows, WaitsFor
    <2>3. CASE Started(p, Here(p).val)
      BY <2>1, <2>3 DEF Flows, Begins, Makes, MakesProcess
    <2>4. CASE Advance(p, 1 + Here(p).skip) /\ UNCHANGED <<test, state>>
      BY <2>1, <2>4 DEF Flows, SkipsOn, GoTo, Advance, WaitsFor
    <2> QED
      BY <2>1, <2>2, <2>3, <2>4
  <1>12. CASE WaitForProcess(p)
    <2>1. /\ Here(p).do \in WaitsFor
          /\ Proceed(p) \/ GoesWrong(p)
          /\ state[Here(p).val] # "running"
      BY <1>12 DEF WaitForProcess, ProceedIf, WaitsFor, Ended
    <2>2. CASE GoesWrong(p)
      BY <2>1, <2>2, WrongFlows DEF Flows, WaitsFor
    <2>3. CASE Proceed(p)
      BY <2>1, <2>3 DEF Flows, GoesOn, GoTo, Proceed, Advance, Met, WaitsFor, MakesProcess
    <2> QED
      BY <2>1, <2>2, <2>3
  <1>13. CASE Await(p)
    BY <1>13 DEF Await, Flows, GoesOn, Naps, GoTo, Proceed, Advance, Met, WaitsFor, MakesProcess,
       memory
  <1>14. CASE CheckNodes(p)
    <2>1. CASE Proceed(p)
      BY <1>14, <2>1 DEF CheckNodes, Flows, GoesOn, GoTo, Proceed, Advance, Met, WaitsFor,
         MakesProcess
    <2>2. CASE EndAs(p, "ok")
      BY <1>0, <1>14, <2>2 DEF CheckNodes, Flows, ComesToEnd, EndAs, memory
    <2> QED
      BY <1>14, <2>1, <2>2 DEF CheckNodes
  <1>15. CASE Return(p)
    BY <1>0, <1>15 DEF Return, Flows, ComesToEnd, EndAs, memory
  <1> QED
    BY <1>0, <1>1, <1>2, <1>3, <1>4, <1>5, <1>6, <1>7, <1>8, <1>9, <1>10, <1>11, <1>12, <1>13,
       <1>14, <1>15 DEF Step

-----------------------------------------------------------------------------
(***************************************************************************)
(* A wrong mask stays one, and so do wrong contents.                       *)
(***************************************************************************)
Switches == {"enable", "disable", "invalid", "exec", "cloneVM"}

LEMMA OnMasks ==
  ASSUME ControlOK, MemoryOK, NEW p, Step(p)
  PROVE  /\ \A q \in Procs \ {p} :
              mask'[q] = mask[q] \/ (Here(p).do \in {"fork", "cloneVM"} /\ q = Here(p).val)
         /\ \/ mask'[p] = mask[p]
            \/ Here(p).do \in Switches
            \/ Here(p).do = "fork" /\ mask'[p] = 0
  <1> USE DEF Doing, Current, Here
  <1>1. mask = [x \in Procs |-> mask[x]] /\ p \in Procs
    BY StepControl DEF MemoryOK, ControlOK, Procs
  <1>2. WellFormed(test, p, Here(p)) /\ Procs = ProcsOf(test)
    BY <1>1, HereIs
  <1>3. ASSUME UNCHANGED mask PROVE \A q \in Procs : mask'[q] = mask[q]
    BY <1>3
  <1>4. CASE Here(p).do \in {"fork", "cloneVM", "thread"}
    <2>1. ForkProcess(p) \/ CloneVM(p) \/ CreateThread(p)
      BY <1>4, ActionIs
    <2>2. Here(p).val \in Procs \ {p}
      BY <1>2, <1>4 DEF WellFormed, MakesProcess
    <2>3. CASE ForkProcess(p)
      <3>1. PICK a \in Fork(mask[p]) :
              mask' = [mask EXCEPT ![p] = a.parent, ![Here(p).val] = a.child]
        BY <2>3 DEF ForkProcess
      <3>2. a.parent \in {mask[p], 0}
        BY <3>1 DEF Fork, Possible
      <3>3. mask'[p] = a.parent /\ \A q \in Procs \ {p, Here(p).val} : mask'[q] = mask[q]
        BY <1>1, <2>2, <3>1
      <3> QED
        BY <2>3, <3>2, <3>3 DEF ForkProcess
    <2>4. CASE CloneVM(p)
      <3>1. UNCHANGED mask \/ \E m : mask' = [mask EXCEPT ![p] = m, ![Here(p).val] = m]
        BY <2>4 DEF CloneVM
      <3>2. \A q \in Procs \ {p, Here(p).val} : mask'[q] = mask[q]
        BY <1>1, <3>1
      <3> QED
        BY <2>4, <3>2 DEF CloneVM, Switches
    <2>5. CASE CreateThread(p)
      BY <1>1, <1>3, <2>5 DEF CreateThread
    <2> QED
      BY <2>1, <2>3, <2>4, <2>5
  <1>5. CASE Here(p).do \notin {"fork", "cloneVM", "thread"}
    <2>1. \A q \in Procs \ {p} : mask'[q] = mask[q]
      BY <1>5, MaskStays DEF MakesProcess
    <2>2. CASE EnableReplication(p) \/ DisableReplication(p) \/ EnableInvalid(p) \/ Exec(p)
      BY <2>1, <2>2 DEF EnableReplication, DisableReplication, EnableInvalid, Exec, Switches
    <2>3. CASE QueryReplication(p) \/ MapMemory(p) \/ WriteMemory(p) \/ CheckMemory(p)
      BY <2>1, <2>3 DEF QueryReplication, MapMemory, WriteMemory, CheckMemory
    <2>4. CASE UnmapMemory(p) \/ DropMemory(p) \/ ProtectMemory(p) \/ MoveMemory(p)
      BY <2>1, <2>4 DEF UnmapMemory, DropMemory, ProtectMemory, MoveMemory
    <2>5. CASE OtherCall(p) \/ LowerLimit(p) \/ RestoreLimit(p) \/ WaitForProcess(p)
      BY <2>1, <2>5 DEF OtherCall, LowerLimit, RestoreLimit, WaitForProcess
    <2>6. CASE Await(p) \/ CheckNodes(p) \/ Judge(p) \/ Return(p)
      BY <2>1, <2>6 DEF Await, CheckNodes, Judge, Return
    <2>7. CASE ForkProcess(p) \/ CloneVM(p) \/ CreateThread(p)
      BY <1>5, <2>7 DEF ForkProcess, CloneVM, CreateThread
    <2> QED
      BY <2>2, <2>3, <2>4, <2>5, <2>6, <2>7 DEF Step
  <1> QED
    BY <1>4, <1>5

\* Where p goes on.
LEMMA FlowsTo ==
  ASSUME NEW p, Unseen(p)
  PROVE  /\ GoesOn(p) \/ Begins(p) =>
              /\ todo'[p] = After(todo[p], 1) /\ state'[p] = "running" /\ Here(p).do # "end"
              /\ After(todo[p], 1) \in Rests(test, p)
         /\ SkipsOn(p) => todo'[p] = After(todo[p], 1 + Here(p).skip) /\ state'[p] = "running"
         /\ Naps(p) => todo'[p] = todo[p] /\ state'[p] = "running"
         /\ Begins(p) => /\ p = "main" /\ Here(p).val \in Procs \ {p}
                         /\ state'[Here(p).val] = "running"
                         /\ state[Here(p).val] = "absent"
                         /\ todo'[Here(p).val] = Script[test][Here(p).val]
         /\ GoesOn(p) => UNCHANGED state
  <1>1. /\ p \in Procs /\ state[p] = "running" /\ Procs = ProcsOf(test) /\ ControlOK
        /\ WellFormed(test, p, Here(p)) /\ Held /\ Awaited /\ test \in Tests
        /\ todo[p] \in Rests(test, p) /\ Head(todo[p]) = Here(p)
    BY UnseenIs
  <1>2. todo = [x \in Procs |-> todo[x]] /\ state = [x \in Procs |-> state[x]]
    BY <1>1 DEF ControlOK, Placed
  <1>3. Here(p).do # "end" => After(todo[p], 1) \in Rests(test, p)
    BY <1>1, HereIs
  <1>4. ASSUME Begins(p)
        PROVE  /\ p = "main" /\ Here(p).val \in Procs \ {p} /\ state[Here(p).val] = "absent"
               /\ state' = [state EXCEPT ![Here(p).val] = "running"]
               /\ todo' = [todo EXCEPT ![p] = After(@, 1)] /\ Here(p).do # "end"
    <2>1. /\ p = "main" /\ Here(p).val \in Procs \ {p} /\ Here(p).val \in ToMake(todo[p])
      BY <1>1, <1>4, ProcessesAreAwaited DEF Begins, Makes, WellFormed
    <2> QED
      BY <1>1, <1>4, <2>1 DEF Awaited, Children, Begins, Makes, Started, Advance, MakesProcess
  <1> QED
    BY <1>1, <1>2, <1>3, <1>4 DEF GoesOn, SkipsOn, Naps, GoTo, Held

LEMMA AmissStays ==
  ASSUME NEW p, Unseen(p), NEW q \in Procs, Heard(test, q), NEW m \in Mask, Amiss(q, m),
         ~(m = 0 /\ "get" \in struck' /\ test \in Overlooking("get"))
  PROVE  Amiss(q, m)'
  <1> DEFINE u == todo[p]
             s == Here(p)
  <1>1. /\ p \in Procs /\ state[p] = "running" /\ Procs = ProcsOf(test) /\ test \in Tests
        /\ ControlOK /\ MemoryOK /\ Step(p) /\ u \in Rests(test, p) /\ Head(u) = s
        /\ UNCHANGED test /\ WellFormed(test, p, s) /\ Awaited /\ "main" \in Procs
    BY UnseenIs DEF Unseen
  <1>2. state[q] = "running" /\ mask[q] = m /\ m \notin Masks(test, q, todo[q])
    BY DEF Amiss
  <1>3. CASE q # p
    <2>1. todo'[q] = todo[q] /\ state'[q] = state[q]
      BY <1>2, <1>3, OthersAre
    <2>2. s.do \in {"fork", "cloneVM"} => q # s.val
      <3>1. s.do \in {"fork", "cloneVM"} => p = "main" /\ s.val \in ToMake(u)
        BY <1>1, ProcessesAreAwaited DEF WellFormed, MakesProcess
      <3> QED
        BY <1>1, <1>2, <1>3, <3>1 DEF Awaited, Children
    <2>3. mask'[q] = mask[q]
      BY <1>1, <1>3, <2>2, OnMasks
    <2> QED
      BY <1>1, <1>2, <2>1, <2>3 DEF Amiss
  <1>4. CASE q = p
    <2>1. /\ s.do \notin {"end", "numa"} \cup Switches
          /\ s.do = "fork" => m # 1
          /\ s.do = "query" => (m \in Masks(test, p, After(u, 1)) => ~Satisfies(m, s.val))
          /\ s.do # "query" => m \notin Masks(test, p, After(u, 1))
          /\ Ignores(u) => m \notin Masks(test, p, After(u, 1 + s.skip))
      BY <1>1, <1>2, <1>4, MasksStay DEF Switches
    <2>2. mask'[p] = m
      BY <1>1, <1>2, <1>4, <2>1, OnMasks DEF Mask
    <2>3. Flows(p)
      BY <1>4, StepFlows
    <2>4. CASE GoesOn(p) \/ Begins(p)
      <3>1. m \notin Masks(test, p, After(u, 1))
        <4>1. s.do = "query" => GoesOn(p)
          BY <2>4 DEF Begins, Makes, MakesProcess
        <4>2. s.do = "query" => Satisfies(m, s.val)
          BY <1>2, <1>4, <4>1 DEF GoesOn, Met
        <4> QED
          BY <2>1, <4>2
      <3> QED
        BY <1>1, <1>4, <2>2, <2>4, <3>1, FlowsTo DEF Amiss
    <2>5. CASE SkipsOn(p)
      <3>1. Ignores(u)
        BY <2>1, <2>5 DEF SkipsOn, Switches
      <3> QED
        BY <1>1, <1>4, <2>1, <2>2, <2>5, <3>1, FlowsTo DEF Amiss
    <2>6. CASE Naps(p)
      BY <1>1, <1>2, <1>4, <2>2, <2>6, FlowsTo DEF Amiss
    <2>7. CASE ComesToEnd(p)
      BY <2>1, <2>7 DEF ComesToEnd
    <2> QED
      BY <2>3, <2>4, <2>5, <2>6, <2>7 DEF Flows
  <1> QED
    BY <1>3, <1>4

LEMMA AllHeard == ASSUME NEW t, t # "test26", NEW p PROVE Heard(t, p)
  BY DEF Heard, Accepted

LEMMA SettledStays ==
  ASSUME NEW p, Unseen(p), test # "test26", NEW q \in Procs, state[q] = "running",
         NEW r, Settled(q, r)
  PROVE  Settled(q, r)'
  <1> DEFINE u == todo[p]
             s == Here(p)
  <1>1. /\ p \in Procs /\ state[p] = "running" /\ Procs = ProcsOf(test) /\ test \in Tests
        /\ u \in Rests(test, p) /\ Head(u) = s /\ UNCHANGED <<test, Procs>>
    BY UnseenIs
  <1>2. ASSUME NEW x \in Procs \ {q}, x # p, state'[x] \in {"absent", "running"}
        PROVE  r \notin MayChange(test, x, q, todo'[x])
    <2>1. todo'[x] = todo[x] /\ state[x] \in {"absent", "running"}
      BY <1>2, OthersAre
    <2> QED
      BY <2>1 DEF Settled
  <1>3. ASSUME p # q, state'[p] \in {"absent", "running"}
        PROVE  r \notin MayChange(test, p, q, todo'[p])
    <2>1. u \in Beside(test, p, q) /\ r \notin MayChange(test, p, q, u)
      BY <1>1, <1>3, BesideIs DEF Settled
    <2>2. Flows(p)
      BY AllHeard, StepFlows
    <2>3. /\ s.do # "end" /\ q \notin AwaitedBy(s) =>
               MayChange(test, p, q, After(u, 1)) \subseteq MayChange(test, p, q, u)
          /\ (Ignores(u) /\ q \notin AwaitedBy(s)) \/ s.do = "cloneVM" =>
               MayChange(test, p, q, After(u, 1 + s.skip)) \subseteq MayChange(test, p, q, u)
      BY <1>1, <1>3, <2>1, FlawsAreLeftAlone
    <2>4. CASE GoesOn(p)
      <3>1. q \notin AwaitedBy(s)
        BY <2>4 DEF GoesOn, Met, AwaitedBy
      <3> QED
        BY <2>1, <2>3, <2>4, <3>1, FlowsTo
    <2>5. CASE SkipsOn(p)
      <3>1. q \notin AwaitedBy(s)
        BY <2>5 DEF SkipsOn, AwaitedBy
      <3> QED
        BY <2>1, <2>3, <2>5, <3>1, FlowsTo DEF SkipsOn
    <2>6. CASE Begins(p)
      <3>1. q \notin AwaitedBy(s)
        BY <2>6 DEF Begins, Makes, MakesProcess, WaitsFor, AwaitedBy
      <3> QED
        BY <2>1, <2>3, <2>6, <3>1, FlowsTo
    <2>7. CASE Naps(p)
      BY <2>1, <2>7, FlowsTo
    <2>8. CASE ComesToEnd(p)
      BY <1>1, <1>3, <2>1, <2>8 DEF ComesToEnd
    <2> QED
      BY <2>2, <2>4, <2>5, <2>6, <2>7, <2>8 DEF Flows
  <1> QED
    BY <1>1, <1>2, <1>3 DEF Settled

\* What p does to the flaw that q has: nothing.
LEMMA AstrayOther ==
  ASSUME NEW p, Unseen(p), NEW q \in Procs \ {p}, NEW b \in BOOLEAN, Astray(q, b)
  PROVE  Astray(q, b)'
  <1> DEFINE s == Here(p)
             T == Tolerates(test, q, todo[q], b)
  <1>1. /\ p \in Procs /\ state[p] = "running" /\ Procs = ProcsOf(test) /\ test \in Tests
        /\ todo[p] \in Rests(test, p) /\ Head(todo[p]) = s /\ UNCHANGED <<test, Procs>>
        /\ ControlOK /\ MemoryOK /\ Awaited /\ Step(p) /\ WellFormed(test, p, s)
        /\ "main" \in Procs
    BY UnseenIs DEF Unseen
  <1>2. PICK r \in RegionsOf(test) : mem[q][r] \notin T[r] /\ Settled(q, r)
    BY DEF Astray
  <1>3. test # "test26" /\ state[q] = "running"
    BY DEF Astray
  <1>4. todo'[q] = todo[q] /\ state'[q] = state[q] /\ todo[q] \in Rests(test, q)
    BY <1>1, <1>3, OthersAre, HereIs
  <1>5. mem[q][r] \in Contents
    BY <1>1 DEF MemoryOK
  <1>6. T[r] \subseteq Contents /\ ("bad" \in T[r] => T[r] = Contents)
    BY <1>1, <1>4, FlawsStay
  <1>7. T[r] # Contents /\ "bad" \notin T[r]
    BY <1>2, <1>5, <1>6
  <1>8. todo[p] \in Beside(test, p, q) /\ todo[q] \in Beside(test, q, p)
    BY <1>3, BesideIs
  <1>9. r \notin MayChange(test, p, q, todo[p])
    BY <1>1, <1>2 DEF Settled
  <1>10. /\ Sees(test, p, q, s) => r \notin Changes(s)
         /\ s.do = "write" /\ ~Sees(test, p, q, s) /\ r \in s.at => s.val \notin T[r]
    BY <1>1, <1>3, <1>7, <1>8, <1>9, FlawsAreLeftAlone
  <1>11. s.do \in {"fork", "cloneVM"} => q # s.val
    <2>1. s.do \in {"fork", "cloneVM"} => p = "main" /\ s.val \in ToMake(todo[p])
      BY <1>1, ProcessesAreAwaited DEF WellFormed, MakesProcess
    <2> QED
      BY <1>1, <1>3, <2>1 DEF Awaited, Children
  <1>12. OnContents(p)
    BY <1>1, OnContentsStep
  <1>13. Leaves(p, q, r) \/ Alters(p, q, r)
    BY <1>11, <1>12 DEF OnContents
  <1>14. mem'[q][r] \notin T[r]
    <2>1. CASE Leaves(p, q, r)
      BY <1>2, <1>7, <2>1 DEF Leaves
    <2>2. CASE Alters(p, q, r)
      <3>1. s.do = "write" => Changes(s) = s.at
        BY DEF Changes
      <3> QED
        BY <1>10, <2>2, <3>1 DEF Alters
    <2> QED
      BY <1>13, <2>1, <2>2
  <1>15. Settled(q, r)'
    BY <1>2, <1>3, SettledStays
  <1> QED
    BY <1>1, <1>3, <1>4, <1>14, <1>15 DEF Astray

\* p goes on with its flaw, or hands it on to the process that it makes.
LEMMA AstrayMine ==
  ASSUME NEW p, Unseen(p), NEW b \in BOOLEAN, Astray(p, b),
         b \/ "blank" \notin struck' \/ test \notin Overlooking("blank")
  PROVE  \E q \in Procs : Astray(q, b)'
  <1> DEFINE u == todo[p]
             s == Here(p)
             T == Tolerates(test, p, u, b)
             N == Tolerates(test, p, After(u, 1), b)
             E == Tolerates(test, p, After(u, 1 + s.skip), b)
  <1>1. /\ p \in Procs /\ state[p] = "running" /\ Procs = ProcsOf(test) /\ test \in Tests
        /\ u \in Rests(test, p) /\ Head(u) = s /\ UNCHANGED <<test, Procs>>
        /\ ControlOK /\ MemoryOK /\ MemoryOK' /\ Awaited /\ Step(p) /\ WellFormed(test, p, s)
        /\ "main" \in Procs
    BY UnseenIs DEF Unseen
  <1>2. PICK r \in RegionsOf(test) : mem[p][r] \notin T[r] /\ Settled(p, r)
    BY DEF Astray
  <1>3. test # "test26"
    BY DEF Astray
  <1> DEFINE v == mem[p][r]
  <1>4. v \in Contents
    BY <1>1 DEF MemoryOK
  <1>5. /\ T[r] \subseteq Contents /\ ("bad" \in T[r] => T[r] = Contents)
        /\ s.do \in {"end", "numa", "exec"} => T[r] = Contents
        /\ r \in Changes(s) /\ ~(s.do = "move" /\ r \in s.at) => T[r] = Contents
        /\ s.do \notin {"end", "numa", "exec", "map", "move", "fork"} =>
             \A x \in N[r] \ T[r] :
               \/ s.do = "check" /\ r \in s.at /\ Byte(x) # Byte(s.val)
               \/ s.do = "await" /\ r \in s.at /\ x # s.val
        /\ s.do = "map" =>
             \A x \in N[r] \ T[r] :
               /\ r = s.val /\ ProcsOf(test) = {"main"}
               /\ \E y \in s.at : x \notin N[y] /\ (b => "zero" \notin N[y])
        /\ s.do = "move" =>
             /\ ProcsOf(test) = {"main"} /\ s.val \notin s.at
             /\ r \in s.at => N[s.val] \subseteq T[r] /\ s.at = {r}
             /\ r \notin s.at => N[r] \subseteq T[r]
        /\ s.do = "fork" =>
             LET C == Tolerates(test, s.val, Script[test][s.val], b) IN
             /\ N[r] \cap C[r] \subseteq T[r]
             /\ C[r] # Contents => Private(test, s.val, r)
        /\ Ignores(u) \/ s.do = "cloneVM" => E[r] \subseteq T[r]
    <2>1. ASSUME NEW w \in Rests(test, p), NEW c \in BOOLEAN
          PROVE  LET h == Head(w)
                     A == Tolerates(test, p, w, c)
                     F == Tolerates(test, p, After(w, 1), c)
                     G == Tolerates(test, p, After(w, 1 + h.skip), c)
                 IN /\ A[r] \subseteq Contents
                    /\ "bad" \in A[r] => A[r] = Contents
                    /\ h.do \in {"end", "numa", "exec"} => A[r] = Contents
                    /\ r \in Changes(h) /\ ~(h.do = "move" /\ r \in h.at) => A[r] = Contents
                    /\ h.do \notin {"end", "numa", "exec", "map", "move", "fork"} =>
                         \A x \in F[r] \ A[r] :
                           \/ h.do = "check" /\ r \in h.at /\ Byte(x) # Byte(h.val)
                           \/ h.do = "await" /\ r \in h.at /\ x # h.val
                    /\ h.do = "map" =>
                         \A x \in F[r] \ A[r] :
                           /\ r = h.val /\ ProcsOf(test) = {"main"}
                           /\ \E y \in h.at : x \notin F[y] /\ (c => "zero" \notin F[y])
                    /\ h.do = "move" =>
                         /\ ProcsOf(test) = {"main"} /\ h.val \notin h.at
                         /\ r \in h.at => F[h.val] \subseteq A[r] /\ h.at = {r}
                         /\ r \notin h.at => F[r] \subseteq A[r]
                    /\ h.do = "fork" =>
                         LET C == Tolerates(test, h.val, Script[test][h.val], c) IN
                         /\ F[r] \cap C[r] \subseteq A[r]
                         /\ C[r] # Contents => Private(test, h.val, r)
                    /\ Ignores(w) \/ h.do = "cloneVM" => G[r] \subseteq A[r]
      BY <1>1, FlawsStay
    <2> QED
      BY <1>1, <2>1
  <1>6. /\ T[r] # Contents /\ "bad" \notin T[r] /\ v \notin T[r]
        /\ s.do \notin {"end", "numa", "exec"}
    BY <1>2, <1>4, <1>5
  <1>7. Settled(p, r)'
    BY <1>1, <1>2, <1>3, SettledStays
  <1>8. Flows(p)
    BY <1>3, AllHeard, StepFlows
  <1>9. \A y \in RegionsOf(test) : After(u, 1) \in Rests(test, p) /\ "bad" \in N[y] => N[y] = Contents
    BY <1>1, FlawsStay
  <1>10. ASSUME state'[p] = "running", mem'[p][r] \notin Tolerates(test, p, todo'[p], b)[r]
         PROVE  Astray(p, b)'
    BY <1>1, <1>3, <1>7, <1>10 DEF Astray
  <1> HIDE DEF T, N, E, u, s, v
  <1>11. CASE s.do = "move" /\ r \in s.at
    <2>1. s.bad # "ignore"
      BY <1>1, <1>11, FailuresShow
    <2>2. GoesOn(p)
      BY <1>1, <1>8, <1>11, <2>1
      DEF Flows, SkipsOn, Ignores, ComesToEnd, Begins, Makes, MakesProcess, Naps, s, u
    <2>3. s.val \in RegionsOf(test) /\ s.val \in Changes(s) /\ s.val \notin s.at /\ s.at = {r}
      BY <1>1, <1>5, <1>11 DEF WellFormed, Changes
    <2>4. Value(p, s, s.val) = v
      BY <1>11, <2>3 DEF Value, v
    <2>5. mem'[p][s.val] \in {v, "bad"}
      BY <1>11, <2>2, <2>3, <2>4 DEF GoesOn, Met, Gained, s
    <2>6. mem'[p][s.val] \notin N[s.val]
      BY <1>5, <1>6, <1>11, <2>5
    <2>7. PICK z : z = s.val
      OBVIOUS
    <2>8. Settled(p, z)'
      BY <1>1, <1>5, <1>11, AloneSettles
    <2> QED
      BY <1>1, <1>3, <2>2, <2>3, <2>6, <2>7, <2>8, FlowsTo DEF Astray, N, u
  <1>12. CASE ~(s.do = "move" /\ r \in s.at)
    <2>1. mem'[p][r] \in {v, "bad"}
      <3>1. OnContents(p)
        BY <1>1, OnContentsStep
      <3>2. s.do \in MakesProcess => p # s.val
        BY <1>1 DEF WellFormed
      <3>3. Leaves(p, p, r) \/ Alters(p, p, r)
        BY <1>1, <1>6, <3>1, <3>2 DEF OnContents, s, MakesProcess
      <3>4. r \notin Changes(s)
        BY <1>5, <1>6, <1>12
      <3> QED
        BY <3>3, <3>4 DEF Leaves, Alters, s, v
    <2>2. mem'[p][r] \notin T[r]
      BY <1>6, <2>1
    <2>3. CASE Naps(p)
      BY <1>1, <1>10, <2>2, <2>3, FlowsTo DEF T, u
    <2>4. CASE SkipsOn(p)
      <3>1. mem'[p][r] \notin E[r]
        BY <1>5, <2>2, <2>4 DEF SkipsOn, s, u
      <3> QED
        BY <1>1, <1>10, <2>4, <3>1, FlowsTo DEF E, u, s
    <2>5. CASE (GoesOn(p) \/ Begins(p)) /\ mem'[p][r] \notin N[r]
      BY <1>1, <1>10, <2>5, FlowsTo DEF N, u
    <2>6. CASE (GoesOn(p) \/ Begins(p)) /\ mem'[p][r] \in N[r]
      <3>1. v \in N[r] \ T[r] /\ After(u, 1) \in Rests(test, p)
        BY <1>4, <1>6, <1>9, <2>1, <2>6, FlowsTo DEF u
      <3>2. CASE s.do \notin {"map", "move", "fork"}
        <4>1. \/ s.do = "check" /\ r \in s.at /\ Byte(v) # Byte(s.val)
              \/ s.do = "await" /\ r \in s.at /\ v # s.val
          BY <1>5, <1>6, <3>1, <3>2
        <4>2. GoesOn(p)
          BY <2>6, <4>1 DEF Begins, Makes, MakesProcess, s
        <4> QED
          BY <4>1, <4>2 DEF GoesOn, Met, s, v
      <3>3. CASE s.do = "map"
        <4>1. PICK y \in s.at : v \notin N[y] /\ (b => "zero" \notin N[y])
          BY <1>5, <3>1, <3>3
        <4>2. r = s.val /\ ProcsOf(test) = {"main"} /\ y \in RegionsOf(test) /\ y \in Changes(s)
          BY <1>1, <1>5, <3>1, <3>3 DEF WellFormed, Changes
        <4>3. Value(p, s, y) = v
          BY <3>3, <4>2 DEF Value, v
        <4>4. GoesOn(p)
          BY <2>6, <3>3 DEF Begins, Makes, MakesProcess, s
        <4>5. \/ mem'[p][y] \in {v, "bad"}
              \/ mem'[p][y] = "zero" /\ "blank" \in struck' /\ test \in Overlooking("blank")
          <5>1. s.val # "zero" => test \in Overlooking("blank")
            BY <1>1, <3>3, FailuresShow
          <5> QED
            BY <3>3, <4>2, <4>3, <4>4, <5>1 DEF GoesOn, Met, Gained, s
        <4>6. "bad" \notin N[y]
          BY <1>4, <1>9, <3>1, <4>1, <4>2
        <4>7. mem'[p][y] \notin N[y]
          BY <4>1, <4>5, <4>6
        <4>8. Settled(p, y)'
          BY <1>1, <4>2, AloneSettles
        <4> QED
          BY <1>1, <1>3, <4>2, <4>4, <4>7, <4>8, FlowsTo DEF Astray, N, u
      <3>4. CASE s.do = "move"
        BY <1>5, <1>12, <3>1, <3>4
      <3>5. CASE s.do = "fork"
        <4>0. PICK k : k = s.val
          OBVIOUS
        <4> DEFINE C == Tolerates(test, k, Script[test][k], b)
        <4>1. Begins(p)
          BY <2>6, <3>5 DEF GoesOn, MakesProcess, s
        <4>2. k \in Procs /\ state'[k] = "running" /\ todo'[k] = Script[test][k]
          BY <4>0, <4>1, FlowsTo DEF s
        <4>3. mem'[k][r] \in {v, "bad"}
          BY <3>5, <4>0, <4>1 DEF Begins, s, v
        <4>4. v \notin C[r] /\ (C[r] # Contents => Private(test, k, r))
          BY <1>5, <3>1, <3>5, <4>0
        <4>5. C[r] # Contents /\ "bad" \notin C[r]
          <5>1. Script[test][k] \in Rests(test, k)
            BY <1>1, <4>2, ScriptsWellFormed
          <5>2. "bad" \in C[r] => C[r] = Contents
            BY <1>1, <4>2, <5>1, FlawsStay
          <5> QED
            BY <1>4, <4>4, <5>2
        <4>6. Settled(k, r)'
          BY <4>2, <4>4, <4>5, PrivateSettles
        <4>7. mem'[k][r] \notin Tolerates(test, k, todo'[k], b)[r]
          BY <4>2, <4>3, <4>4, <4>5
        <4> QED
          BY <1>1, <1>3, <4>2, <4>6, <4>7 DEF Astray
      <3> QED
        BY <3>2, <3>3, <3>4, <3>5
    <2>7. CASE ComesToEnd(p)
      BY <1>6, <2>7 DEF ComesToEnd, s
    <2> QED
      BY <1>8, <2>3, <2>4, <2>5, <2>6, <2>7 DEF Flows
  <1> QED
    BY <1>11, <1>12

-----------------------------------------------------------------------------
(***************************************************************************)
(* What a fault that nobody has noticed has left behind.                   *)
(***************************************************************************)
Marked(f) ==
  \/ /\ f \in {"ignore", "lose"}
     /\ \E p \in Procs : Heard(test, p) /\ (p = "main" \/ test # "test26") /\ Amiss(p, 0)
  \/ f \in {"keep", "keepVM"} /\ Amiss("main", 1)
  \/ f = "inherit" /\ \E k \in Children : Heard(test, k) /\ Amiss(k, 1)
  \/ f = "execKeeps" /\ test # "test26" /\ \E k \in Children : Heard(test, k) /\ Amiss(k, 1)
  \/ f = "corrupt" /\ \E p \in Procs : Astray(p, FALSE)
  \/ /\ f \in {"lost", "split", "leak", "leakDown", "stale", "badCopy"}
     /\ \E p \in Procs : Astray(p, TRUE)

\* The fault f is no reason for alarm, or there is one still to come.
Accounted(f) == f \in {"none", "optional"} \/ Excused(f) \/ Marked(f)

LEMMA MainHeard == \A t : Heard(t, "main")
  BY DEF Heard, Accepted

LEMMA MarkStays ==
  ASSUME NEW p, Unseen(p), NEW f, Marked(f)
  PROVE  Accounted(f)'
  <1>1. /\ UNCHANGED <<test, Procs>> /\ p \in Procs /\ "main" \in Procs /\ UNCHANGED Children
    BY UnseenIs DEF Children
  <1>2. CASE f \in {"ignore", "lose"}
    <2>1. PICK q \in Procs : Heard(test, q) /\ (q = "main" \/ test # "test26") /\ Amiss(q, 0)
      BY <1>2 DEF Marked
    <2>2. CASE "get" \in struck' /\ test \in Overlooking("get")
      <3>1. f \in HiddenBy("get")
        BY <1>2 DEF HiddenBy
      <3> QED
        BY <1>1, <2>2, <3>1 DEF Accounted, Excused
    <2>3. CASE ~("get" \in struck' /\ test \in Overlooking("get"))
      <3>1. Amiss(q, 0)'
        BY <2>1, <2>3, AmissStays DEF Mask
      <3> QED
        BY <1>1, <1>2, <2>1, <3>1 DEF Accounted, Marked
    <2> QED
      BY <2>2, <2>3
  <1>3. ASSUME NEW q \in Procs, Heard(test, q), Amiss(q, 1) PROVE Amiss(q, 1)'
    BY <1>3, AmissStays DEF Mask
  <1>4. CASE f \in {"keep", "keepVM"}
    <2>1. Amiss("main", 1)
      BY <1>4 DEF Marked
    <2>2. Amiss("main", 1)'
      BY <1>1, <1>3, <2>1, MainHeard
    <2> QED
      BY <1>4, <2>2 DEF Accounted, Marked
  <1>5. CASE f \in {"inherit", "execKeeps"}
    <2>1. PICK k \in Children : Heard(test, k) /\ Amiss(k, 1)
      BY <1>5 DEF Marked
    <2>2. Amiss(k, 1)'
      BY <1>3, <2>1 DEF Children
    <2> QED
      BY <1>1, <1>5, <2>1, <2>2 DEF Accounted, Marked
  <1>6. ASSUME NEW b \in BOOLEAN, NEW q \in Procs, Astray(q, b),
               b \/ "blank" \notin struck' \/ test \notin Overlooking("blank")
        PROVE  \E x \in Procs : Astray(x, b)'
    BY <1>6, AstrayMine, AstrayOther
  <1>7. CASE f = "corrupt"
    <2>1. PICK q \in Procs : Astray(q, FALSE)
      BY <1>7 DEF Marked
    <2>2. CASE "blank" \in struck' /\ test \in Overlooking("blank")
      <3>1. f \in HiddenBy("blank")
        BY <1>7 DEF HiddenBy
      <3> QED
        BY <1>1, <2>2, <3>1 DEF Accounted, Excused
    <2>3. CASE ~("blank" \in struck' /\ test \in Overlooking("blank"))
      BY <1>1, <1>6, <1>7, <2>1, <2>3 DEF Accounted, Marked
    <2> QED
      BY <2>2, <2>3
  <1>8. CASE f \in {"lost", "split", "leak", "leakDown", "stale", "badCopy"}
    <2>1. PICK q \in Procs : Astray(q, TRUE)
      BY <1>8 DEF Marked
    <2> QED
      BY <1>1, <1>6, <1>8, <2>1 DEF Accounted, Marked
  <1> QED
    BY <1>2, <1>4, <1>5, <1>7, <1>8 DEF Marked

\* The faults of F are accounted for, hence those that have struck.
LEMMA StrikesAccounted ==
  ASSUME NEW F, Strike(F), \A f \in F : Accounted(f)'
  PROVE  \A f \in struck' \ struck : Accounted(f)'
  BY DEF Strike

LEMMA OverlookedIs ==
  ASSUME NEW p, Unseen(p), NEW f, test \in Overlooking(f)
  PROVE  Accounted(f)'
  BY UnseenIs DEF Accounted, Excused

LEMMA HeardAt ==
  ASSUME NEW p, Unseen(p), Here(p).do \notin {"query", "map", "write", "check", "unmap", "end"}
  PROVE  Heard(test, p)
  BY UnseenIs, MainHeard, FailuresShow

LEMMA ProceedsTo ==
  ASSUME NEW p, Unseen(p), Proceed(p)
  PROVE  todo'[p] = After(todo[p], 1) /\ state'[p] = "running"
  BY UnseenIs DEF Proceed, Advance, ControlOK, Placed

\* What is damaged p is going to find damaged.
LEMMA CorruptLeaves ==
  ASSUME NEW p, Unseen(p), NEW r \in Here(p).keeps, mem'[p][r] = "bad",
         Here(p).do \notin {"cloneVM", "await", "numa", "end"}
  PROVE  Accounted("corrupt")'
  <1> DEFINE u == todo[p]
  <1>1. /\ UNCHANGED <<test, Procs>> /\ p \in Procs /\ test \in Tests /\ Procs = ProcsOf(test)
        /\ u \in Rests(test, p) /\ WellFormed(test, p, Here(p)) /\ Head(u) = Here(p)
    BY UnseenIs
  <1>2. ASSUME NEW w \in Rests(test, p), NEW x \in Head(w).keeps
        PROVE  /\ test # "test26" /\ Private(test, p, x)
               /\ Head(w).do # "end" => "bad" \notin Tolerates(test, p, After(w, 1), FALSE)[x]
               /\ Ignores(w) => "bad" \notin Tolerates(test, p, After(w, 1 + Head(w).skip), FALSE)[x]
    BY <1>1, <1>2, FaultsLeaveFlaws
  <1>3. /\ test # "test26" /\ Private(test, p, r) /\ r \in RegionsOf(test)
        /\ "bad" \notin Tolerates(test, p, After(u, 1), FALSE)[r]
        /\ Ignores(u) => "bad" \notin Tolerates(test, p, After(u, 1 + Here(p).skip), FALSE)[r]
    BY <1>1, <1>2 DEF WellFormed
  <1>4. Flows(p)
    BY <1>3, AllHeard, StepFlows
  <1>5. state'[p] = "running" /\ "bad" \notin Tolerates(test, p, todo'[p], FALSE)[r]
    <2>1. CASE GoesOn(p) \/ Begins(p)
      BY <1>3, <2>1, FlowsTo
    <2>2. CASE SkipsOn(p)
      BY <1>3, <2>2, FlowsTo DEF SkipsOn
    <2> QED
      BY <1>4, <2>1, <2>2 DEF Flows, ComesToEnd, Naps
  <1>6. Settled(p, r)'
    BY <1>1, <1>3, <1>5, PrivateSettles
  <1>7. Astray(p, FALSE)'
    BY <1>1, <1>3, <1>5, <1>6 DEF Astray
  <1> QED
    BY <1>1, <1>7 DEF Accounted, Marked

LEMMA DamageAccounted ==
  ASSUME NEW p, Unseen(p), NEW d \in Damage(p), NEW R, NEW f, IsPatch(f), Becomes(p, R, f, d),
         Here(p).do \notin {"cloneVM", "await", "numa", "end"}
  PROVE  Accounted(d.fault)'
  <1>1. ControlOK /\ MemoryOK /\ p \in Procs
    BY UnseenIs
  <1>2. d.at \subseteq Here(p).keeps /\ (d.fault = "none" <=> d.at = {}) /\ d.fault \in {"none", "corrupt"}
    BY <1>1, DamageIs
  <1>3. \A r \in d.at : mem'[p][r] = "bad"
    BY <1>1, BecomesMay
  <1>4. CASE d.fault = "none"
    BY <1>4 DEF Accounted
  <1>5. CASE d.fault = "corrupt"
    BY <1>2, <1>3, <1>5, CorruptLeaves
  <1> QED
    BY <1>2, <1>4, <1>5

\* A call that is refused, and the program does not look.
LEMMA RefusedIsOptional ==
  ASSUME NEW p, Unseen(p), Heard(test, p), GoesWrong(p), NEW f
  PROVE  Refused(p, f) = "optional"
  BY WrongIsIgnored DEF Refused, Current, Here

-----------------------------------------------------------------------------
(***************************************************************************)
(* Each step of a kind accounts for the faults that strike at it: the      *)
(* program overlooks them, or what they leave behind is not tolerated.     *)
(***************************************************************************)

\* The faults that strike at a step are accounted for.
Explained == \A f \in struck' \ struck : f # "none" /\ Accounted(f)'

LEMMA StrikeExplained ==
  ASSUME NEW F, Strike(F), \A f \in F : Accounted(f)'
  PROVE  Explained
  BY DEF Strike, Explained

LEMMA CallExplained ==
  ASSUME NEW p, Unseen(p), Heard(test, p), Here(p).bad # "ignore",
         NEW f, NEW a \in Call(f), ProceedIf(p, a.ok)
  PROVE  a.ok = TRUE /\ a.fault = "none" /\ Accounted(a.fault)'
  BY WrongIsIgnored, CallAnswers DEF ProceedIf, Accounted

LEMMA PrctlExplained ==
  ASSUME NEW p, Unseen(p), EnableReplication(p) \/ DisableReplication(p)
  PROVE  Explained
  <1> DEFINE u == todo[p]
             s == Here(p)
  <1>1. /\ p \in Procs /\ ControlOK /\ MemoryOK /\ Procs = ProcsOf(test) /\ test \in Tests
        /\ u \in Rests(test, p) /\ Head(u) = s /\ UNCHANGED <<test, Procs>>
        /\ mask = [x \in Procs |-> mask[x]] /\ mask[p] \in Mask
    BY UnseenIs DEF MemoryOK
  <1>2. s.do \in {"enable", "disable"}
    BY DEF EnableReplication, DisableReplication, Doing, Current, Here
  <1>3. Heard(test, p)
    BY <1>2, HeardAt
  <1>4. ASSUME NEW a, NEW d \in Damage(p), ProceedIf(p, a.ret = 0),
               Becomes(p, {}, Nothing, d),
               Strike({IF a.ret = 0 THEN a.fault ELSE Refused(p, a.fault), d.fault}),
               a.ret = 0 /\ Proceed(p) => Accounted(a.fault)'
        PROVE  Explained
    <2>1. PICK e : e = IF a.ret = 0 THEN a.fault ELSE Refused(p, a.fault)
      OBVIOUS
    <2>2. Accounted(d.fault)'
      BY <1>2, <1>4, NothingIsPatch, DamageAccounted
    <2>3. Accounted(e)'
      <3>1. CASE a.ret = 0
        BY <1>4, <2>1, <3>1 DEF ProceedIf
      <3>2. CASE a.ret # 0
        <4>1. e = "optional"
          BY <1>3, <1>4, <2>1, <3>2, RefusedIsOptional DEF ProceedIf
        <4> QED
          BY <4>1 DEF Accounted
      <3> QED
        BY <3>1, <3>2
    <2> QED
      BY <1>4, <2>1, <2>2, <2>3, StrikeExplained
  <1>5. CASE EnableReplication(p)
    <2>1. PICK a \in Enable(mask[p]), d \in Damage(p) :
            /\ ProceedIf(p, a.ret = 0) /\ mask' = [mask EXCEPT ![p] = a.mask]
            /\ Becomes(p, {}, Nothing, d)
            /\ Strike({IF a.ret = 0 THEN a.fault ELSE Refused(p, a.fault), d.fault})
      BY <1>5 DEF EnableReplication
    <2>2. a.ret = 0 => a.fault = "none" \/ (a.fault = "ignore" /\ a.mask = 0)
      BY <1>1, EnableAnswers
    <2>3. ASSUME a.fault = "ignore", a.mask = 0, Proceed(p) PROVE Accounted(a.fault)'
      <3>1. \/ test \in Overlooking("ignore")
            \/ (p = "main" \/ test # "test26") /\ 0 \notin Masks(test, p, After(u, 1))
        BY <1>1, <1>5, MasksStay DEF EnableReplication, Doing, Current, Here
      <3>2. CASE test \in Overlooking("ignore")
        BY <2>3, <3>2, OverlookedIs
      <3>3. CASE (p = "main" \/ test # "test26") /\ 0 \notin Masks(test, p, After(u, 1))
        <4>1. Amiss(p, 0)'
          BY <1>1, <2>1, <2>3, <3>3, ProceedsTo DEF Amiss
        <4> QED
          BY <1>1, <1>3, <2>3, <3>3, <4>1 DEF Accounted, Marked
      <3> QED
        BY <3>1, <3>2, <3>3
    <2>4. a.ret = 0 /\ Proceed(p) => Accounted(a.fault)'
      BY <2>2, <2>3 DEF Accounted
    <2> QED
      BY <1>4, <2>1, <2>4
  <1>6. CASE DisableReplication(p)
    <2>1. PICK a \in Disable(mask[p]), d \in Damage(p) :
            /\ ProceedIf(p, a.ret = 0) /\ mask' = [mask EXCEPT ![p] = a.mask]
            /\ Becomes(p, {}, Nothing, d)
            /\ Strike({IF a.ret = 0 THEN a.fault ELSE Refused(p, a.fault), d.fault})
      BY <1>6 DEF DisableReplication
    <2>2. a.ret = 0 => a.fault = "none" \/ (a.fault = "keep" /\ a.mask = 1)
      <3>1. ASSUME a.fault = "keep", mask[p] = 0 PROVE FALSE
        <4>1. a = [ret |-> 0, mask |-> 0, fault |-> "keep"]
          BY <3>1 DEF Disable, Possible
        <4>2. [a EXCEPT !.fault = "none"] = [ret |-> 0, mask |-> 0, fault |-> "none"]
          BY <4>1
        <4> QED
          BY <3>1, <4>1, <4>2 DEF Disable, Possible
      <3> QED
        BY <1>1, <3>1, DisableAnswers DEF Mask
    <2>3. ASSUME a.fault = "keep", a.mask = 1, Proceed(p) PROVE Accounted(a.fault)'
      <3>1. \/ test \in Overlooking("keep")
            \/ p = "main" /\ 1 \notin Masks(test, p, After(u, 1))
        BY <1>1, <1>6, MasksStay DEF DisableReplication, Doing, Current, Here
      <3>2. CASE test \in Overlooking("keep")
        BY <2>3, <3>2, OverlookedIs
      <3>3. CASE p = "main" /\ 1 \notin Masks(test, p, After(u, 1))
        <4>1. Amiss(p, 1)'
          BY <1>1, <2>1, <2>3, <3>3, ProceedsTo DEF Amiss
        <4> QED
          BY <1>1, <2>3, <3>3, <4>1 DEF Accounted, Marked
      <3> QED
        BY <3>1, <3>2, <3>3
    <2>4. a.ret = 0 /\ Proceed(p) => Accounted(a.fault)'
      BY <2>2, <2>3 DEF Accounted
    <2> QED
      BY <1>4, <2>1, <2>4
  <1> QED
    BY <1>5, <1>6

LEMMA QueryExplained ==
  ASSUME NEW p, Unseen(p), EnableInvalid(p) \/ QueryReplication(p)
  PROVE  Explained
  <1> DEFINE s == Here(p)
  <1>1. /\ p \in Procs /\ Procs = ProcsOf(test) /\ test \in Tests
        /\ todo[p] \in Rests(test, p) /\ Head(todo[p]) = s /\ mask[p] \in Mask
    BY UnseenIs DEF MemoryOK
  <1>2. CASE EnableInvalid(p)
    <2>1. s.do = "invalid"
      BY <1>2 DEF EnableInvalid, Doing, Current, Here
    <2>2. test \in Overlooking("accept")
      BY <1>1, <2>1, FailuresShow
    <2>3. PICK a \in Call("accept") : Strike({a.fault})
      BY <1>2 DEF EnableInvalid
    <2>4. Accounted(a.fault)'
      BY <2>2, OverlookedIs, CallAnswers DEF Accounted
    <2> QED
      BY <2>3, <2>4, StrikeExplained
  <1>3. CASE QueryReplication(p)
    <2>1. s.do = "query"
      BY <1>3 DEF QueryReplication, Doing, Current, Here
    <2>2. PICK a \in Get(mask[p]) : ProceedIf(p, Satisfies(a.ret, s.val)) /\ Strike({a.fault})
      BY <1>3 DEF QueryReplication, Current, Here
    <2>3. ASSUME a.fault = "get", a.ret = -1 PROVE test \in Overlooking("get")
      <3>1. CASE ~Heard(test, p)
        BY <1>1, <2>1, <3>1, FailuresShow, MainHeard DEF Overlooking
      <3>2. CASE Heard(test, p)
        <4>1. Satisfies(a.ret, s.val)
          BY <1>1, <2>1, <2>2, <3>2, FailuresShow, WrongIsIgnored DEF ProceedIf
        <4>2. s.val = "nonzero"
          BY <2>3, <4>1 DEF Satisfies
        <4> QED
          BY <1>1, <2>1, <4>2, FailuresShow
      <3> QED
        BY <3>1, <3>2
    <2>4. Accounted(a.fault)'
      BY <1>1, <2>3, OverlookedIs, GetAnswers DEF Accounted
    <2> QED
      BY <2>2, <2>4, StrikeExplained
  <1> QED
    BY <1>2, <1>3

LEMMA MapExplained ==
  ASSUME NEW p, Unseen(p), MapMemory(p)
  PROVE  Explained
  <1> DEFINE s == Here(p)
  <1>1. /\ p \in Procs /\ ControlOK /\ MemoryOK /\ Procs = ProcsOf(test) /\ test \in Tests
        /\ todo[p] \in Rests(test, p) /\ Head(todo[p]) = s /\ WellFormed(test, p, s)
    BY UnseenIs
  <1>2. s.do = "map"
    BY DEF MapMemory, Doing, Current, Here
  <1>3. ASSUME NEW a \in Mapped(p, s.val), NEW d \in Damage(p),
               Becomes(p, s.at, Filled(s.at, a.val), d), Strike({a.fault, d.fault})
        PROVE  Explained
    <2>1. mem[p] \in [RegionsOf(test) -> Contents] /\ Regions = RegionsOf(test)
      BY <1>1, ScriptsWellFormed DEF MemoryOK, ControlOK, Regions, Procs
    <2>2. /\ a.val \in Contents
          /\ a.fault = "none" \/ (a.fault = "blank" /\ s.val # "zero")
      BY <1>1, <1>2, <1>3, <2>1 DEF Mapped, Possible, WellFormed, Contents
    <2>3. IsPatch(Filled(s.at, a.val))
      BY <1>1, <2>2, FilledIsPatch DEF WellFormed
    <2>4. Accounted(d.fault)'
      BY <1>2, <1>3, <2>3, DamageAccounted
    <2>5. Accounted(a.fault)'
      BY <1>1, <1>2, <2>2, FailuresShow, OverlookedIs DEF Accounted
    <2> QED
      BY <1>3, <2>4, <2>5, StrikeExplained
  <1>4. ASSUME GoesWrong(p), Strike({Refused(p, "nomem")})
        PROVE  Explained
    <2>1. PICK e : e = Refused(p, "nomem")
      OBVIOUS
    <2>2. CASE Heard(test, p)
      <3>1. e = "optional"
        BY <1>4, <2>1, <2>2, RefusedIsOptional
      <3> QED
        BY <1>4, <2>1, <3>1, StrikeExplained DEF Accounted
    <2>3. CASE ~Heard(test, p)
      <3>1. test = "test26"
        BY <1>1, <2>3, FailuresShow, MainHeard
      <3>2. e \in {"optional", "nomem"}
        BY <2>1 DEF Refused
      <3>3. test \in Overlooking("nomem")
        BY <3>1 DEF Overlooking
      <3>4. Accounted(e)'
        BY <3>2, <3>3, OverlookedIs DEF Accounted
      <3> QED
        BY <1>4, <2>1, <3>4, StrikeExplained
    <2> QED
      BY <2>2, <2>3
  <1> QED
    BY <1>3, <1>4 DEF MapMemory, Current, Here

LEMMA UnmapExplained ==
  ASSUME NEW p, Unseen(p), UnmapMemory(p)
  PROVE  Explained
  <1> DEFINE s == Here(p)
  <1>1. /\ p \in Procs /\ ControlOK /\ MemoryOK /\ Procs = ProcsOf(test) /\ test \in Tests
        /\ todo[p] \in Rests(test, p) /\ Head(todo[p]) = s /\ WellFormed(test, p, s)
    BY UnseenIs
  <1>2. PICK a \in Call("unmap"), d \in Damage(p) :
          /\ a.ok \/ s.bad # "ignore"
          /\ ProceedIf(p, a.ok)
          /\ Becomes(p, s.at, IF a.ok THEN Filled(s.at, "none") ELSE Nothing, d)
          /\ Strike({a.fault, d.fault})
    BY DEF UnmapMemory, Current, Here
  <1>3. s.do = "unmap"
    BY DEF UnmapMemory, Doing, Current, Here
  <1>4. a.ok = TRUE
    <2>1. ~Heard(test, p) => s.bad = "ignore"
      BY <1>1, <1>3, FailuresShow, MainHeard
    <2> QED
      BY <1>2, <2>1, WrongIsIgnored, CallAnswers DEF ProceedIf
  <1>5. a.fault = "none" \/ (a.fault = "unmap" /\ a.ok = FALSE)
    BY CallAnswers
  <1>6. IsPatch(Filled(s.at, "none"))
    BY <1>1, FilledIsPatch DEF WellFormed, Contents
  <1>7. Accounted(d.fault)'
    BY <1>2, <1>3, <1>4, <1>6, DamageAccounted
  <1> QED
    BY <1>2, <1>4, <1>5, <1>7, StrikeExplained DEF Accounted

\* What main of a program without children sees has been written.
Sourced == \A r \in RegionsOf(test) : mem["main"][r] \in MayHold(test, todo["main"])

LEMMA DropExplained ==
  ASSUME NEW p, Unseen(p), Sourced, DropMemory(p)
  PROVE  Explained
  <1> DEFINE u == todo[p]
             s == Here(p)
  <1>1. /\ p \in Procs /\ ControlOK /\ MemoryOK /\ Procs = ProcsOf(test) /\ test \in Tests
        /\ u \in Rests(test, p) /\ Head(u) = s /\ WellFormed(test, p, s)
        /\ UNCHANGED <<test, Procs>>
    BY UnseenIs
  <1>2. s.do = "drop"
    BY DEF DropMemory, Doing, Current, Here
  <1>3. Heard(test, p)
    BY <1>2, HeardAt
  <1>4. /\ ProcsOf(test) = {"main"} /\ s.bad # "ignore"
        /\ \A r \in s.at :
             Tolerates(test, p, After(u, 1), TRUE)[r] \cap MayHold(test, u) \subseteq {"zero"}
    <2>1. ASSUME NEW w \in Rests(test, p), Head(w).do = "drop"
          PROVE  /\ ProcsOf(test) = {"main"} /\ Head(w).bad # "ignore"
                 /\ \A r \in Head(w).at :
                      Tolerates(test, p, After(w, 1), TRUE)[r] \cap MayHold(test, w) \subseteq {"zero"}
      BY <1>1, <2>1, FaultsLeaveFlaws
    <2> QED
      BY <1>1, <1>2, <2>1
  <1>5. ~GoesWrong(p)
    BY <1>3, <1>4, WrongIsIgnored
  <1>6. PICK stale \in SUBSET {r \in s.at : mem[p][r] # "zero"}, d \in Damage(p) :
          /\ Proceed(p)
          /\ Becomes(p, s.at, Filled(s.at \ stale, "zero"), d)
          /\ Strike({IF stale = {} THEN "none" ELSE "stale", d.fault})
    BY <1>5 DEF DropMemory, Current, Here
  <1>7. /\ IsPatch(Filled(s.at \ stale, "zero"))
        /\ DOMAIN Filled(s.at \ stale, "zero") = s.at \ stale
    BY <1>1, FilledIsPatch DEF WellFormed, Contents
  <1>8. Accounted(d.fault)'
    BY <1>2, <1>6, <1>7, DamageAccounted
  <1>9. ASSUME NEW r \in stale PROVE Accounted("stale")'
    <2>1. r \in s.at /\ r \in RegionsOf(test) /\ mem[p][r] # "zero" /\ p = "main"
      BY <1>1, <1>4 DEF WellFormed
    <2>2. mem'[p][r] \in {mem[p][r], "bad"}
      BY <1>1, <1>6, <1>7, <2>1, BecomesMay DEF Leaves
    <2>3. mem'[p][r] \in MayHold(test, u) /\ mem'[p][r] # "zero"
      BY <1>4, <2>1, <2>2 DEF Sourced, MayHold
    <2>4. mem'[p][r] \notin Tolerates(test, p, After(u, 1), TRUE)[r]
      BY <1>4, <2>1, <2>3
    <2>5. Settled(p, r)'
      BY <1>4, <2>1, AloneSettles
    <2>6. test # "test26"
      BY <1>4, OwnIsAlone
    <2>7. Astray(p, TRUE)'
      BY <1>1, <1>6, <2>1, <2>4, <2>5, <2>6, ProceedsTo DEF Astray
    <2> QED
      BY <1>1, <2>7 DEF Accounted, Marked
  <1>10. Accounted("none")'
    BY DEF Accounted
  <1>11. PICK e : e = IF stale = {} THEN "none" ELSE "stale"
    OBVIOUS
  <1>12. Accounted(e)'
    BY <1>9, <1>10, <1>11
  <1> QED
    BY <1>6, <1>8, <1>11, <1>12, StrikeExplained

LEMMA MoveExplained ==
  ASSUME NEW p, Unseen(p), MoveMemory(p)
  PROVE  Explained
  <1> DEFINE s == Here(p)
             v == mem[p][CHOOSE q \in s.at : TRUE]
             f == [r \in s.at \cup {s.val} |-> IF r \in s.at THEN "none" ELSE v]
  <1>1. /\ p \in Procs /\ ControlOK /\ MemoryOK /\ Procs = ProcsOf(test) /\ test \in Tests
        /\ todo[p] \in Rests(test, p) /\ Head(todo[p]) = s /\ WellFormed(test, p, s)
    BY UnseenIs
  <1>2. s.do = "move"
    BY DEF MoveMemory, Doing, Current, Here
  <1>3. Heard(test, p) /\ s.bad # "ignore"
    BY <1>1, <1>2, HeardAt, FailuresShow
  <1>4. PICK a \in Call("call"), d \in Damage(p) :
          /\ ProceedIf(p, a.ok)
          /\ Becomes(p, s.at, IF a.ok THEN f ELSE Nothing, d)
          /\ Strike({a.fault, d.fault})
    BY DEF MoveMemory, Current, Here
  <1>5. a.ok = TRUE /\ Accounted(a.fault)'
    BY <1>3, <1>4, CallExplained
  <1>6. s.at \subseteq RegionsOf(test) /\ s.at # {} /\ s.val \in RegionsOf(test)
    BY <1>1, <1>2 DEF WellFormed
  <1>7. v \in Contents
    BY <1>1, <1>6, ScriptsWellFormed DEF MemoryOK, ControlOK, Procs
  <1>8. IsPatch(f)
    BY <1>6, <1>7 DEF IsPatch, Contents
  <1> HIDE DEF f, v
  <1>9. Accounted(d.fault)'
    BY <1>2, <1>4, <1>5, <1>8, DamageAccounted
  <1> QED
    BY <1>4, <1>5, <1>9, StrikeExplained

LEMMA OtherCallExplained ==
  ASSUME NEW p, Unseen(p), OtherCall(p) \/ LowerLimit(p) \/ ProtectMemory(p) \/ CreateThread(p)
  PROVE  Explained
  <1>1. /\ p \in Procs /\ Procs = ProcsOf(test) /\ test \in Tests
        /\ todo[p] \in Rests(test, p) /\ Head(todo[p]) = Here(p)
    BY UnseenIs
  <1>2. Here(p).do \in {"call", "lower", "shut", "open", "thread"}
    BY DEF OtherCall, LowerLimit, ProtectMemory, CreateThread, Doing, Current, Here
  <1>3. Heard(test, p)
    BY <1>2, HeardAt
  <1>4. CASE OtherCall(p)
    <2>1. PICK a \in Call(Refused(p, "call")), d \in Damage(p) :
            ProceedIf(p, a.ok) /\ Becomes(p, {}, Nothing, d) /\ Strike({a.fault, d.fault})
      BY <1>4 DEF OtherCall
    <2>2. Accounted(d.fault)'
      BY <1>2, <2>1, NothingIsPatch, DamageAccounted
    <2>3. a.fault = "none" \/ (a.fault = Refused(p, "call") /\ a.ok = FALSE)
      BY <2>1, CallAnswers
    <2>4. a.fault \in {"none", "optional"}
      BY <1>3, <2>1, <2>3, RefusedIsOptional DEF ProceedIf
    <2> QED
      BY <2>1, <2>2, <2>4, StrikeExplained DEF Accounted
  <1>5. CASE LowerLimit(p)
    <2>1. PICK a \in Call("optional") : Strike({a.fault})
      BY <1>5 DEF LowerLimit
    <2>2. a.fault \in {"none", "optional"}
      BY <2>1, CallAnswers
    <2> QED
      BY <2>1, <2>2, StrikeExplained DEF Accounted
  <1>6. CASE ProtectMemory(p) \/ CreateThread(p)
    <2>1. PICK a \in Call("call") : (a.ok \/ GoesWrong(p)) /\ Strike({a.fault})
      BY <1>6 DEF ProtectMemory, CreateThread, ProceedIf
    <2>2. Here(p).do \in {"shut", "open", "thread"}
      BY <1>6 DEF ProtectMemory, CreateThread, Doing, Current, Here
    <2>3. Here(p).bad # "ignore"
      BY <1>1, <2>2, FailuresShow
    <2>4. a.fault = "none"
      BY <1>3, <2>1, <2>3, CallAnswers, WrongIsIgnored
    <2> QED
      BY <2>1, <2>4, StrikeExplained DEF Accounted
  <1> QED
    BY <1>4, <1>5, <1>6

\* main of test21 has no replication.
Never == test = "test21" => mask["main"] = 0

LEMMA ForkExplained ==
  ASSUME NEW p, Unseen(p), Never, ForkProcess(p)
  PROVE  Explained
  <1>0. PICK k : k = Here(p).val
    OBVIOUS
  <1> DEFINE u == todo[p]
             s == Here(p)
  <1>1. /\ p \in Procs /\ ControlOK /\ MemoryOK /\ Procs = ProcsOf(test) /\ test \in Tests
        /\ u \in Rests(test, p) /\ Head(u) = s /\ WellFormed(test, p, s)
        /\ UNCHANGED <<test, Procs>> /\ mask[p] \in Mask
    BY UnseenIs DEF MemoryOK
  <1>2. s.do = "fork"
    BY DEF ForkProcess, Doing, Current, Here
  <1>3. Heard(test, p) /\ s.bad # "ignore"
    BY <1>1, <1>2, HeardAt, FailuresShow
  <1>4. ~GoesWrong(p)
    BY <1>3, WrongIsIgnored
  <1>5. PICK a \in Fork(mask[p]), d \in Damage(p),
             c \in Possible({[at |-> {}, fault |-> "none"]}
                            \cup {[at |-> {r}, fault |-> "badCopy"] : r \in s.at}) :
          /\ mask' = [mask EXCEPT ![p] = a.parent, ![k] = a.child]
          /\ Started(p, k)
          /\ mem' = [mem EXCEPT ![p] = Over(Filled(d.at, "bad"), mem[p]),
                                ![k] = Over(Filled(c.at, "bad"), mem[p])]
          /\ Strike({a.fault, c.fault, d.fault})
          /\ a.ret = 1
    BY <1>0, <1>4 DEF ForkProcess, Current, Here
  <1>6. p = "main" /\ k \in Procs \ {p}
    BY <1>0, <1>1, <1>2 DEF WellFormed, MakesProcess
  <1>7. Begins(p)
    <2>1. Makes(p)
      BY <1>0, <1>2, <1>5 DEF Makes, MakesProcess, ForkProcess
    <2>2. Flows(p)
      BY <1>3, StepFlows
    <2> QED
      BY <1>2, <1>3, <2>2 DEF Flows, GoesOn, SkipsOn, ComesToEnd, Naps, MakesProcess, Ignores, Here
  <1>8. /\ todo'[p] = After(u, 1) /\ state'[p] = "running"
        /\ todo'[k] = Script[test][k] /\ state'[k] = "running"
    BY <1>0, <1>7, FlowsTo
  <1>9. mask'[p] = a.parent /\ mask'[k] = a.child
    BY <1>1, <1>5, <1>6 DEF MemoryOK
  <1>10. Accounted(a.fault)'
    <2>1. \/ a.fault = "none"
          \/ a.fault = "inherit" /\ a.child = 1 /\ mask[p] = 1
          \/ a.fault = "lose" /\ a.parent = 0 /\ mask[p] = 1
      <3>1. ASSUME a.fault = "lose", mask[p] = 0 PROVE FALSE
        <4>1. a = [ret |-> 1, parent |-> 0, child |-> 0, fault |-> "lose"]
          BY <3>1 DEF Fork, Possible
        <4>2. [a EXCEPT !.fault = "none"] = [ret |-> 1, parent |-> 0, child |-> 0, fault |-> "none"]
          BY <4>1
        <4> QED
          BY <3>1, <4>1, <4>2 DEF Fork, Possible
      <3> QED
        BY <1>1, <1>5, <3>1, ForkAnswers DEF Mask
    <2>2. /\ test \in Overlooking("inherit") \cup {"test21"}
             \/ (Heard(test, k) /\ 1 \notin Masks(test, k, Script[test][k]))
          /\ test \in Overlooking("lose") \cup {"test21"} \/ 0 \notin Masks(test, p, After(u, 1))
      BY <1>0, <1>1, <1>2, MasksStay
    <2>3. mask[p] = 1 => test # "test21"
      BY <1>6 DEF Never
    <2>4. CASE a.fault = "none"
      BY <2>4 DEF Accounted
    <2>5. CASE a.fault = "inherit" /\ a.child = 1 /\ mask[p] = 1
      <3>1. CASE test \in Overlooking("inherit")
        BY <2>5, <3>1, OverlookedIs
      <3>2. CASE Heard(test, k) /\ 1 \notin Masks(test, k, Script[test][k])
        <4>1. Amiss(k, 1)'
          BY <1>1, <1>8, <1>9, <2>5, <3>2 DEF Amiss
        <4>2. k \in Children'
          BY <1>1, <1>6 DEF Children
        <4> QED
          BY <1>1, <2>5, <3>2, <4>1, <4>2 DEF Accounted, Marked
      <3> QED
        BY <2>2, <2>3, <2>5, <3>1, <3>2
    <2>6. CASE a.fault = "lose" /\ a.parent = 0 /\ mask[p] = 1
      <3>1. CASE test \in Overlooking("lose")
        BY <2>6, <3>1, OverlookedIs
      <3>2. CASE 0 \notin Masks(test, p, After(u, 1))
        <4>1. Amiss(p, 0)'
          BY <1>1, <1>8, <1>9, <2>6, <3>2 DEF Amiss
        <4> QED
          BY <1>1, <1>3, <1>6, <2>6, <4>1 DEF Accounted, Marked
      <3> QED
        BY <2>2, <2>3, <2>6, <3>1, <3>2
    <2> QED
      BY <2>1, <2>4, <2>5, <2>6
  <1>11. Over(Filled(d.at, "bad"), mem[p]) = mem'[p] /\ Over(Filled(c.at, "bad"), mem[p]) = mem'[k]
    BY <1>1, <1>5, <1>6 DEF MemoryOK
  <1>12. ASSUME NEW R, NEW r \in R PROVE Over(Filled(R, "bad"), mem[p])[r] = "bad"
    BY <1>12 DEF Over, Filled
  <1>13. Accounted(d.fault)'
    <2>1. d.at \subseteq s.keeps /\ (d.fault = "none" <=> d.at = {}) /\ d.fault \in {"none", "corrupt"}
      BY <1>1, DamageIs
    <2>2. \A r \in d.at : mem'[p][r] = "bad"
      BY <1>11, <1>12
    <2>3. CASE d.fault = "none"
      BY <2>3 DEF Accounted
    <2>4. CASE d.fault = "corrupt"
      BY <1>2, <2>1, <2>2, <2>4, CorruptLeaves
    <2> QED
      BY <2>1, <2>3, <2>4
  <1>14. Accounted(c.fault)'
    <2>1. c.fault = "none" \/ (c.fault = "badCopy" /\ \E r \in s.at : c.at = {r})
      BY <1>5 DEF Possible
    <2>2. CASE c.fault = "none"
      BY <2>2 DEF Accounted
    <2>3. ASSUME c.fault = "badCopy", NEW r \in s.at, c.at = {r} PROVE Accounted(c.fault)'
      <3> DEFINE C == Tolerates(test, k, Script[test][k], TRUE)
      <3>1. mem'[k][r] = "bad" /\ r \in RegionsOf(test)
        BY <1>1, <1>11, <1>12, <2>3 DEF WellFormed
      <3>2. "bad" \notin C[r] /\ test # "test26"
        BY <1>0, <1>1, <1>2, FaultsLeaveFlaws
      <3>3. C[r] # Contents => Private(test, k, r)
        <4>1. ASSUME NEW w \in Rests(test, p), Head(w).do = "fork"
              PROVE  LET A == Tolerates(test, Head(w).val, Script[test][Head(w).val], TRUE)
                     IN A[r] # Contents => Private(test, Head(w).val, r)
          BY <1>1, <3>1, <4>1, FlawsStay
        <4> QED
          BY <1>0, <1>1, <1>2, <4>1
      <3>4. Settled(k, r)'
        BY <1>6, <1>8, <3>2, <3>3, PrivateSettles DEF Contents
      <3>5. Astray(k, TRUE)'
        BY <1>1, <1>8, <3>1, <3>2, <3>4 DEF Astray
      <3> QED
        BY <1>1, <1>6, <2>3, <3>5 DEF Accounted, Marked
    <2> QED
      BY <2>1, <2>2, <2>3
  <1> QED
    BY <1>5, <1>10, <1>13, <1>14, StrikeExplained

LEMMA CloneExplained ==
  ASSUME NEW p, Unseen(p), CloneVM(p)
  PROVE  Explained
  <1> DEFINE u == todo[p]
             s == Here(p)
  <1>1. /\ p \in Procs /\ ControlOK /\ MemoryOK /\ Procs = ProcsOf(test) /\ test \in Tests
        /\ u \in Rests(test, p) /\ Head(u) = s /\ WellFormed(test, p, s)
        /\ UNCHANGED <<test, Procs>> /\ mask[p] \in Mask
    BY UnseenIs DEF MemoryOK
  <1>2. s.do = "cloneVM"
    BY DEF CloneVM, Doing, Current, Here
  <1>3. Heard(test, p) /\ s.bad # "ignore" /\ p = "main" /\ s.val \in Procs \ {p}
    BY <1>1, <1>2, HeardAt, FailuresShow DEF WellFormed, MakesProcess
  <1>4. ~GoesWrong(p)
    BY <1>3, WrongIsIgnored
  <1>5. CASE Strike({"optional"})
    BY <1>5, StrikeExplained DEF Accounted
  <1>6. ASSUME NEW keep \in Possible({[mask |-> 0, fault |-> "none"],
                                      [mask |-> mask[p], fault |-> "keepVM"]}),
               Started(p, s.val), mask' = [mask EXCEPT ![p] = keep.mask, ![s.val] = keep.mask],
               Strike({keep.fault})
        PROVE  Explained
    <2>1. keep.fault = "none" \/ (keep.fault = "keepVM" /\ keep.mask = 1)
      <3>1. ASSUME keep.fault = "keepVM", mask[p] = 0 PROVE FALSE
        <4>1. keep = [mask |-> 0, fault |-> "keepVM"]
          BY <3>1 DEF Possible
        <4>2. [keep EXCEPT !.fault = "none"] = [mask |-> 0, fault |-> "none"]
          BY <4>1
        <4> QED
          BY <1>6, <3>1, <4>1, <4>2 DEF Possible
      <3> QED
        BY <1>1, <1>6, <3>1 DEF Possible, Mask
    <2>2. ASSUME keep.fault = "keepVM", keep.mask = 1 PROVE Accounted(keep.fault)'
      <3>1. mask'[p] = 1
        BY <1>1, <1>3, <1>6, <2>2 DEF MemoryOK
      <3>2. Makes(p)
        BY <1>2, <1>6 DEF Makes, MakesProcess, CloneVM
      <3>3. Begins(p)
        BY <1>2, <3>2 DEF Begins
      <3>4. 1 \notin Masks(test, p, After(u, 1))
        BY <1>1, <1>2, MasksStay
      <3>5. Amiss(p, 1)'
        BY <1>1, <3>1, <3>3, <3>4, FlowsTo DEF Amiss
      <3> QED
        BY <1>1, <1>3, <2>2, <3>5 DEF Accounted, Marked
    <2> QED
      BY <1>6, <2>1, <2>2, StrikeExplained DEF Accounted
  <1> QED
    BY <1>4, <1>5, <1>6 DEF CloneVM, Current, Here

LEMMA ExecExplained ==
  ASSUME NEW p, Unseen(p), Exec(p)
  PROVE  Explained
  <1> DEFINE u == todo[p]
             s == Here(p)
  <1>1. /\ p \in Procs /\ ControlOK /\ MemoryOK /\ Procs = ProcsOf(test) /\ test \in Tests
        /\ u \in Rests(test, p) /\ Head(u) = s
        /\ UNCHANGED <<test, Procs>> /\ mask[p] \in Mask
    BY UnseenIs DEF MemoryOK
  <1>2. s.do = "exec"
    BY DEF Exec, Doing, Current, Here
  <1>3. Heard(test, p)
    BY <1>2, HeardAt
  <1>4. ASSUME GoesWrong(p), Strike({Refused(p, "call")}) PROVE Explained
    <2>1. PICK e : e = Refused(p, "call")
      OBVIOUS
    <2>2. e = "optional"
      BY <1>3, <1>4, <2>1, RefusedIsOptional
    <2> QED
      BY <1>4, <2>1, <2>2, StrikeExplained DEF Accounted
  <1>5. ASSUME NEW keep \in Possible({[mask |-> 0, fault |-> "none"],
                                      [mask |-> mask[p], fault |-> "execKeeps"]}),
               Proceed(p), mask' = [mask EXCEPT ![p] = keep.mask],
               Strike({keep.fault})
        PROVE  Explained
    <2>1. keep.fault = "none" \/ (keep.fault = "execKeeps" /\ keep.mask = 1)
      <3>1. ASSUME keep.fault = "execKeeps", mask[p] = 0 PROVE FALSE
        <4>1. keep = [mask |-> 0, fault |-> "execKeeps"]
          BY <3>1 DEF Possible
        <4>2. [keep EXCEPT !.fault = "none"] = [mask |-> 0, fault |-> "none"]
          BY <4>1
        <4> QED
          BY <1>5, <3>1, <4>1, <4>2 DEF Possible
      <3> QED
        BY <1>1, <1>5, <3>1 DEF Possible, Mask
    <2>2. ASSUME keep.fault = "execKeeps", keep.mask = 1 PROVE Accounted(keep.fault)'
      <3>1. mask'[p] = 1
        BY <1>1, <1>5, <2>2 DEF MemoryOK
      <3>2. \/ test \in Overlooking("execKeeps")
            \/ p # "main" /\ test # "test26" /\ 1 \notin Masks(test, p, After(u, 1))
        BY <1>1, <1>2, MasksStay
      <3>3. CASE test \in Overlooking("execKeeps")
        BY <2>2, <3>3, OverlookedIs
      <3>4. CASE p # "main" /\ test # "test26" /\ 1 \notin Masks(test, p, After(u, 1))
        <4>1. Amiss(p, 1)'
          BY <1>1, <1>5, <3>1, <3>4, ProceedsTo DEF Amiss
        <4> QED
          BY <1>1, <1>3, <2>2, <3>4, <4>1 DEF Accounted, Marked, Children
      <3> QED
        BY <3>2, <3>3, <3>4
    <2> QED
      BY <1>5, <2>1, <2>2, StrikeExplained DEF Accounted
  <1> QED
    BY <1>4, <1>5 DEF Exec, Current, Here

-----------------------------------------------------------------------------
(***************************************************************************)
(* The same of the steps that read and write; main misses what a child     *)
(* that has lost a write has not delivered.                                *)
(***************************************************************************)

LEMMA BadIs ==
  ASSUME NEW t \in Tests, NEW p \in ProcsOf(t), NEW u \in Rests(t, p), NEW b \in BOOLEAN, NEW r \in RegionsOf(t),
         "bad" \in Tolerates(t, p, u, b)[r]
  PROVE  Tolerates(t, p, u, b)[r] = Contents
  BY FlawsStay

LEMMA DeliveredIs ==
  ASSUME NEW t \in Tests, NEW k \in ProcsOf(t), NEW d \in Deliveries(t, k)
  PROVE  /\ d[1] \in RegionsOf(t) /\ d[2] \in Contents \ {"none", "zero", "bad"}
         /\ t # "test26" /\ k # "main" /\ ProcsOf(t) # {"main"}
         /\ \A v \in Beside(t, "main", k) :
              Tolerates(t, "main", v, TRUE)[d[1]] \subseteq {d[2]} \/ (t = "test3" /\ ~Polls(v))
         /\ \A j \in ProcsOf(t) \ {"main", k} : \A u \in Rests(t, j) :
              d[1] \notin Changes(Head(u)) /\ d[1] \notin MayChange(t, j, "main", u)
  BY DeliveriesAreExpected

LEMMA DeliveredByIs ==
  ASSUME NEW t \in Tests, NEW k \in ProcsOf(t), NEW d \in Deliveries(t, k), NEW u \in Rests(t, k)
  PROVE  /\ Head(u).do \notin {"exec", "move", "map"}
         /\ d[1] \in Changes(Head(u)) =>
              /\ Head(u).do = "write" /\ d[1] \in MayChange(t, k, "main", u)
              /\ d[1] \notin MayChange(t, k, "main", After(u, 1))
  BY DeliveriesAreExpected

LEMMA DeliveredToIs ==
  ASSUME NEW t \in Tests, NEW k \in ProcsOf(t), NEW d \in Deliveries(t, k), NEW v \in Rests(t, "main")
  PROVE  /\ Head(v).do # "exec"
         /\ d[1] \in Changes(Head(v)) =>
                 \/ Head(v).do = "map" /\ Head(v).val \notin RegionsOf(t) /\ Head(v).val # d[2]
                 \/ Head(v).do = "write" /\ Head(v).val # d[2]
                 \/ Head(v).do = "unmap"
  BY DeliveriesAreExpected

LEMMA PolledIs ==
  ASSUME NEW u \in Rests("test3", "main")
  PROVE  /\ Head(u).keeps = {} /\ Head(u).do \notin {"exec", "fork", "cloneVM"}
         /\ Head(u).do = "write" =>
            /\ Head(u).at = {"flag"} /\ Head(u).val = "zero" /\ ~Polls(u) /\ Writes(u)
            /\ ~Writes(After(u, 1))
            /\ "flag" \notin MayChange("test3", "main", "child1", After(u, 1))
         /\ Head(u).do = "await" => Head(u).at = {"flag"} /\ Head(u).val = "new"
         /\ Head(u).do # "write" => Changes(Head(u)) = {}
         /\ Head(u).do # "end" /\ Writes(After(u, 1)) => Writes(u)
         /\ Ignores(u) /\ Writes(After(u, 1 + Head(u).skip)) => Writes(u)
  BY ThreadIsPolled

LEMMA PollingIs ==
  ASSUME NEW u \in Rests("test3", "child1")
  PROVE  /\ Head(u).keeps = {} /\ Head(u).do \in {"write", "await", "end"}
         /\ Head(u).do = "write" => Head(u).at = {"flag"}
         /\ "flag" \notin MayChange("test3", "child1", "main", u) => u = ThreadWaits \/ Head(u).do = "end"
         /\ "flag" \in MayChange("test3", "child1", "main", u) =>
              Head(u).do = "write" /\ After(u,1) = ThreadWaits
         /\ u = ThreadWaits => Head(u).do = "await" /\ Head(u).at = {"flag"} /\ Head(u).val = "zero"
  BY ThreadIsPolled

\* What a child is going to leave for main is not there yet, and main of test3
\* polls for it.
Expecting ==
  \A k \in Children : \A d \in Deliveries(test, k) :
    state[k] \in {"absent", "running"} /\ d[1] \in MayChange(test, k, "main", todo[k]) =>
      mem["main"][d[1]] # d[2] /\ (test = "test3" => Polls(todo["main"]))

\* Behind its poll, main of test3 and the thread it stops see the same flag.
Polling ==
  test = "test3" /\ state["main"] = "running" /\ Writes(todo["main"]) =>
    /\ ~Polls(todo["main"]) => mem["main"]["flag"] = "new"
    /\ mem["main"]["flag"] = "new" =>
         /\ state["child1"] = "running" /\ todo["child1"] = ThreadWaits
         /\ mem["child1"]["flag"] = "new"

\* The memory of test26 that its first child maps is mapped in main only as long
\* as the child needs it; the child finds there what it has written.
OwnLife ==
  test = "test26" /\ ~Failed /\ struck \cap {"killed", "lost"} = {} =>
    /\ mem["main"]["own"] # "none" =>
         state["child1"] = "running" /\ "own" \in Needs(test, todo["child1"])
    /\ state["child1"] = "running" =>
         /\ mem["child1"]["stack"] # "none"
         /\ Head(todo["child1"]).do = "check" => mem["child1"]["own"] = "new"

\* What a write does: a to the regions, which those of b see, and d.
Writing(p, a, b, d) ==
  LET s == Here(p) IN
  /\ Unseen(p) /\ s.do = "write" /\ Proceed(p)
  /\ a \in Arriving(p, s.at, s.val) /\ b \in Reaching(p, s.at) /\ d \in Damage(p)
  /\ mem' = Changed(b.who, Over(Filled(d.at, "bad"), Filled(a.at, s.val)))
  /\ Strike({a.fault, b.fault, d.fault})

LEMMA WritingIs ==
  ASSUME NEW p, NEW a, NEW b, NEW d, Writing(p, a, b, d)
  PROVE  /\ Unseen(p) /\ p \in Procs /\ Here(p).do = "write"
         /\ Here(p).at \subseteq RegionsOf(test) /\ Here(p).val \in Contents \ {"none"}
         /\ Changes(Here(p)) = Here(p).at
         /\ \A q \in Procs : \A r \in RegionsOf(test) :
              mem'[q][r] = IF q \in b.who /\ r \in d.at THEN "bad"
                           ELSE IF q \in b.who /\ r \in a.at THEN Here(p).val ELSE mem[q][r]
         /\ a.at \subseteq Here(p).at
         /\ \/ a.fault = "none" /\ a.at = Here(p).at
            \/ /\ a.fault = "lost"
               /\ \E r \in Here(p).at \ a.at : mem[p][r] # Here(p).val
         /\ d.at \subseteq Here(p).keeps
         /\ todo'[p] = After(todo[p], 1) /\ state'[p] = "running"
         /\ After(todo[p], 1) \in Rests(test, p)
  <1> DEFINE s == Here(p)
  <1>1. /\ p \in Procs /\ ControlOK /\ MemoryOK /\ WellFormed(test, p, s) /\ s.do = "write"
        /\ Unseen(p) /\ Proceed(p) /\ d \in Damage(p)
    BY UnseenIs DEF Writing
  <1>2. s.at \subseteq RegionsOf(test) /\ s.val \in Contents \ {"none"} /\ Changes(s) = s.at
    BY <1>1 DEF WellFormed, Changes
  <1>3. /\ a.at \subseteq s.at
        /\ \/ a.fault = "none" /\ a.at = s.at
           \/ a.fault = "lost" /\ \E r \in s.at \ a.at : mem[p][r] # s.val
    <2>1. \/ a = [at |-> s.at, fault |-> "none"]
          \/ \E L \in (SUBSET {r \in s.at : mem[p][r] # s.val}) \ {{}} :
               a = [at |-> s.at \ L, fault |-> "lost"]
      BY DEF Writing, Arriving, Possible
    <2>2. CASE a = [at |-> s.at, fault |-> "none"]
      BY <2>2
    <2>3. ASSUME NEW L \in (SUBSET {r \in s.at : mem[p][r] # s.val}) \ {{}},
                 a = [at |-> s.at \ L, fault |-> "lost"]
          PROVE  a.at \subseteq s.at /\ a.fault = "lost" /\ \E r \in s.at \ a.at : mem[p][r] # s.val
      <3>1. PICK r : r \in L
        BY <2>3
      <3>2. r \in s.at \ a.at /\ mem[p][r] # s.val
        BY <2>3, <3>1
      <3> QED
        BY <2>3, <3>2
    <2> QED
      BY <2>1, <2>2, <2>3
  <1>4. /\ IsPatch(Filled(d.at, "bad")) /\ DOMAIN Filled(d.at, "bad") = d.at
        /\ \A r \in d.at : Filled(d.at, "bad")[r] = "bad"
        /\ d.at \subseteq s.keeps
    BY <1>1, DamageIs, FilledIsPatch DEF Contents
  <1>5. /\ IsPatch(Filled(a.at, s.val)) /\ DOMAIN Filled(a.at, s.val) = a.at
        /\ \A r \in a.at : Filled(a.at, s.val)[r] = s.val
    BY <1>2, <1>3, FilledIsPatch
  <1> DEFINE g == Over(Filled(d.at, "bad"), Filled(a.at, s.val))
  <1>6. IsPatch(g) /\ DOMAIN g = d.at \cup a.at
        /\ \A r \in DOMAIN g : g[r] = IF r \in d.at THEN "bad" ELSE s.val
    <2>1. IsPatch(g)
      BY <1>4, <1>5, OverIsPatch
    <2> QED
      BY <1>4, <1>5, <2>1 DEF Over
  <1>7. mem' = Changed(b.who, g)
    BY DEF Writing
  <1> HIDE DEF g
  <1>8. \A q \in Procs : \A r \in RegionsOf(test) :
          mem'[q][r] = IF q \in b.who /\ r \in DOMAIN g THEN g[r] ELSE mem[q][r]
    BY <1>1, <1>6, <1>7, ChangedIs
  <1>9. \A q \in Procs : \A r \in RegionsOf(test) :
          mem'[q][r] = IF q \in b.who /\ r \in d.at THEN "bad"
                       ELSE IF q \in b.who /\ r \in a.at THEN s.val ELSE mem[q][r]
    BY <1>6, <1>8
  <1>10. todo'[p] = After(todo[p], 1) /\ state'[p] = "running"
    BY <1>1, ProceedsTo
  <1>11. After(todo[p], 1) \in Rests(test, p)
    BY <1>1, HereIs
  <1> QED
    BY <1>1, <1>2, <1>3, <1>4, <1>9, <1>10, <1>11

\* What main waits for in vain.
LEMMA Undelivered ==
  ASSUME NEW p, NEW a, NEW b, NEW d, Writing(p, a, b, d), Expecting, p # "main",
         NEW r \in Here(p).at, <<r, Here(p).val>> \in Deliveries(test, p),
         mem'["main"][r] \in {mem["main"][r], "bad"}
  PROVE  Astray("main", TRUE)'
  <1>0. PICK v : v = Here(p).val
    OBVIOUS
  <1> DEFINE e == <<r, v>>
             s == Here(p)
             u == todo[p]
             T == Tolerates(test, "main", todo["main"], TRUE)[r]
  <1>1. /\ Unseen(p) /\ p \in Procs /\ s.do = "write" /\ s.at \subseteq RegionsOf(test)
        /\ Changes(s) = s.at /\ todo'[p] = After(u, 1) /\ state'[p] = "running"
    BY WritingIs
  <1>2. /\ state[p] = "running" /\ "main" \in Procs /\ Procs = ProcsOf(test) /\ test \in Tests
        /\ ControlOK /\ Awaited /\ ~Failed /\ u \in Rests(test, p) /\ Head(u) = s
        /\ UNCHANGED <<test, Procs>> /\ p \in Children /\ state["main"] # "absent"
    BY <1>1, UnseenIs DEF Children, Unseen, Sound
  <1>3. state["main"] = "running" /\ p \in Pending(todo["main"]) \ ToMake(todo["main"])
    BY <1>2, Concurrent
  <1>4. todo["main"] \in Beside(test, "main", p) /\ todo["main"] \in Rests(test, "main")
    BY <1>1, <1>2, <1>3, BesideIs, HereIs
  <1>5. /\ e[1] = r /\ e[2] = v /\ e \in Deliveries(test, p)
        /\ v \in Contents \ {"none", "zero", "bad"}
    <2>1. e[1] = r /\ e[2] = v /\ e \in Deliveries(test, p)
      BY <1>0
    <2>2. e[2] \in Contents \ {"none", "zero", "bad"}
      BY <1>1, <1>2, <2>1, DeliveredIs
    <2> QED
      BY <2>1, <2>2
  <1>6. /\ test # "test26"
        /\ r \in MayChange(test, p, "main", u) /\ r \notin MayChange(test, p, "main", After(u, 1))
        /\ T \subseteq {v} \/ (test = "test3" /\ ~Polls(todo["main"]))
        /\ \A j \in ProcsOf(test) \ {"main", p} : \A w \in Rests(test, j) :
             r \notin MayChange(test, j, "main", w)
    <2>1. /\ test # "test26"
          /\ T \subseteq {e[2]} \/ (test = "test3" /\ ~Polls(todo["main"]))
          /\ \A j \in ProcsOf(test) \ {"main", p} : \A w \in Rests(test, j) :
               e[1] \notin MayChange(test, j, "main", w)
      BY <1>1, <1>2, <1>4, <1>5, DeliveredIs
    <2>2. e[1] \in MayChange(test, p, "main", u) /\ e[1] \notin MayChange(test, p, "main", After(u, 1))
      BY <1>1, <1>2, <1>5, DeliveredByIs
    <2> QED
      BY <1>5, <2>1, <2>2
  <1>7. mem["main"][r] # v /\ (test = "test3" => Polls(todo["main"]))
    BY <1>2, <1>5, <1>6 DEF Expecting
  <1>8. mem'["main"][r] \notin T
    BY <1>5, <1>6, <1>7
  <1>9. todo'["main"] = todo["main"] /\ state'["main"] = "running"
    BY <1>1, <1>2, <1>3, OthersAre
  <1>10. Settled("main", r)'
    <2>1. ASSUME NEW j \in Procs \ {"main"} PROVE r \notin MayChange(test, j, "main", todo'[j])
      <3>1. CASE j = p
        BY <1>1, <1>6, <3>1
      <3>2. CASE j # p
        <4>1. todo'[j] = todo[j] /\ todo[j] \in Rests(test, j)
          BY <1>1, <1>2, <3>2, OthersAre, HereIs
        <4> QED
          BY <1>2, <1>6, <3>2, <4>1
      <3> QED
        BY <3>1, <3>2
    <2> QED
      BY <1>2, <2>1 DEF Settled
  <1> QED
    BY <1>1, <1>2, <1>6, <1>8, <1>9, <1>10 DEF Astray

\* The thread of test3 does not see that main has stopped it.
LEMMA Unstopped ==
  ASSUME NEW p, NEW a, NEW b, NEW d, Writing(p, a, b, d), Polling,
         StopsThread(test, p, Here(p)),
         \/ \E r \in Here(p).at \ a.at : mem[p][r] # Here(p).val
         \/ b.who = {p}
  PROVE  Astray("child1", TRUE)'
  <1> DEFINE s == Here(p)
             u == todo[p]
  <1>1. /\ Unseen(p) /\ p \in Procs /\ s.do = "write"
        /\ \A q \in Procs : \A r \in RegionsOf(test) :
             mem'[q][r] = IF q \in b.who /\ r \in d.at THEN "bad"
                          ELSE IF q \in b.who /\ r \in a.at THEN s.val ELSE mem[q][r]
        /\ d.at \subseteq s.keeps /\ todo'[p] = After(u, 1)
    BY WritingIs
  <1>2. /\ test = "test3" /\ p = "main" /\ state[p] = "running" /\ u \in Rests("test3", "main")
        /\ Head(u) = s /\ UNCHANGED <<test, Procs>> /\ Procs = ProcsOf(test) /\ Unseen(p)
    BY <1>1, UnseenIs DEF StopsThread
  <1>3. /\ ProcsOf("test3") = {"main", "child1"} /\ "flag" \in RegionsOf("test3")
        /\ "new" \notin Tolerates("test3", "child1", ThreadWaits, TRUE)["flag"]
        /\ s.keeps = {} /\ s.at = {"flag"} /\ ~Polls(u) /\ Writes(u)
        /\ "flag" \notin MayChange("test3", "main", "child1", After(u, 1))
    <2>1. /\ ProcsOf("test3") = {"main", "child1"} /\ "flag" \in RegionsOf("test3")
          /\ "new" \notin Tolerates("test3", "child1", ThreadWaits, TRUE)["flag"]
      BY ThreadIsPolled
    <2>2. /\ Head(u).keeps = {} /\ Head(u).at = {"flag"} /\ ~Polls(u) /\ Writes(u)
          /\ "flag" \notin MayChange("test3", "main", "child1", After(u, 1))
      BY <1>1, <1>2, PolledIs
    <2> QED
      BY <1>2, <2>1, <2>2
  <1>4. /\ state["child1"] = "running" /\ todo["child1"] = ThreadWaits
        /\ mem["child1"]["flag"] = "new"
    BY <1>2, <1>3 DEF Polling
  <1>5. "flag" \notin a.at \/ "child1" \notin b.who
    BY <1>2, <1>3
  <1>6. mem'["child1"]["flag"] = "new"
    BY <1>1, <1>2, <1>3, <1>4, <1>5
  <1>7. todo'["child1"] = ThreadWaits /\ state'["child1"] = "running"
    BY <1>2, <1>3, <1>4, OthersAre
  <1>8. Settled("child1", "flag")'
    BY <1>1, <1>2, <1>3 DEF Settled
  <1> QED
    BY <1>2, <1>3, <1>6, <1>7, <1>8 DEF Astray

\* A part of a write that is lost.
LEMMA LostAstray ==
  ASSUME NEW p, NEW a, NEW b, NEW d, Writing(p, a, b, d), Sourced, Expecting, Polling,
         NEW x \in Here(p).at \ a.at, mem[p][x] # Here(p).val,
         test \notin Overlooking("lost")
  PROVE  \E q \in Procs : Astray(q, TRUE)'
  <1> DEFINE s == Here(p)
             u == todo[p]
             N == Tolerates(test, p, After(u, 1), TRUE)[x]
  <1>1. /\ Unseen(p) /\ p \in Procs /\ s.do = "write" /\ s.at \subseteq RegionsOf(test)
        /\ \A q \in Procs : \A r \in RegionsOf(test) :
             mem'[q][r] = IF q \in b.who /\ r \in d.at THEN "bad"
                          ELSE IF q \in b.who /\ r \in a.at THEN s.val ELSE mem[q][r]
        /\ s.val \in Contents \ {"none"}
        /\ todo'[p] = After(u, 1) /\ state'[p] = "running" /\ After(u, 1) \in Rests(test, p)
    BY WritingIs
  <1>2. /\ Procs = ProcsOf(test) /\ test \in Tests /\ u \in Rests(test, p) /\ Head(u) = s
        /\ UNCHANGED <<test, Procs>> /\ "main" \in Procs /\ mem[p][x] \in Contents
    BY <1>1, UnseenIs DEF MemoryOK
  <1>3. test # "test26"
    BY DEF Overlooking
  <1>4. \A q \in Procs : mem'[q][x] \in {mem[q][x], "bad"}
    BY <1>1
  <1>5. \/ StopsThread(test, p, s)
        \/ N \cap MayHold(test, u) \subseteq {s.val} /\ Private(test, p, x)
        \/ p # "main" /\ <<x, s.val>> \in Deliveries(test, p)
    <2>1. \/ StopsThread(test, p, Head(u))
          \/ \A r \in Head(u).at :
               \/ /\ Tolerates(test, p, After(u, 1), TRUE)[r] \cap MayHold(test, u) \subseteq {Head(u).val}
                  /\ Private(test, p, r)
               \/ p # "main" /\ <<r, Head(u).val>> \in Deliveries(test, p)
      BY <1>1, <1>2, LossShows
    <2> QED
      BY <1>2, <2>1
  <1>6. CASE StopsThread(test, p, s)
    <2>1. Astray("child1", TRUE)'
      BY <1>6, Unstopped
    <2> QED
      BY <1>2, <1>6, <2>1, ThreadIsPolled DEF StopsThread
  <1>7. CASE N \cap MayHold(test, u) \subseteq {s.val} /\ Private(test, p, x)
    <2>1. "bad" \notin N
      <3>1. "bad" \in N => N = Contents
        <4>1. /\ After(u, 1) \in Rests(test, p) /\ x \in RegionsOf(test) /\ test \in Tests
              /\ p \in ProcsOf(test) /\ TRUE \in BOOLEAN
          BY <1>1, <1>2
        <4> QED
          BY <4>1, BadIs
      <3>2. {"none", "bad"} \subseteq MayHold(test, u) /\ {"none", "bad"} \subseteq Contents
        BY DEF MayHold, Contents
      <3> QED
        BY <1>1, <1>7, <3>1, <3>2
    <2>2. mem[p][x] \in MayHold(test, u)
      BY <1>1, <1>2 DEF Sourced, MayHold
    <2>3. mem'[p][x] \notin N
      BY <1>1, <1>4, <1>7, <2>1, <2>2
    <2>4. Settled(p, x)'
      BY <1>1, <1>7, PrivateSettles
    <2>5. Astray(p, TRUE)'
      BY <1>1, <1>2, <1>3, <2>3, <2>4 DEF Astray
    <2> QED
      BY <1>1, <2>5
  <1>8. CASE p # "main" /\ <<x, s.val>> \in Deliveries(test, p)
    <2>1. Astray("main", TRUE)'
      BY <1>2, <1>4, <1>8, Undelivered
    <2> QED
      BY <1>2, <2>1
  <1> QED
    BY <1>5, <1>6, <1>7, <1>8

\* A write that nobody sees but the writer.
LEMMA SplitAccounted ==
  ASSUME NEW p, NEW a, NEW b, NEW d, Writing(p, a, b, d), Expecting, Polling,
         b.who = {p}, Sharers(p, Here(p).at) # {p}
  PROVE  Accounted("split")'
  <1> DEFINE s == Here(p)
             u == todo[p]
  <1>1. /\ Unseen(p) /\ p \in Procs /\ s.do = "write" /\ s.at \subseteq RegionsOf(test)
        /\ \A q \in Procs : \A r \in RegionsOf(test) :
             mem'[q][r] = IF q \in b.who /\ r \in d.at THEN "bad"
                          ELSE IF q \in b.who /\ r \in a.at THEN s.val ELSE mem[q][r]
    BY WritingIs
  <1>2. /\ Procs = ProcsOf(test) /\ test \in Tests /\ u \in Rests(test, p) /\ Head(u) = s
        /\ UNCHANGED <<test, Procs>> /\ "main" \in Procs /\ ControlOK /\ Awaited
        /\ state[p] = "running"
    BY <1>1, UnseenIs
  <1>3. PICK q \in Sharers(p, s.at) : q # p
    BY DEF Sharers
  <1>4. q \in Procs \ {p} /\ Sees(test, p, q, s) /\ state[q] # "absent"
    BY <1>1, <1>2, <1>3, SharersSee DEF Sharers
  <1>5. \/ test \in Overlooking("split") \/ StopsThread(test, p, s)
        \/ p = "main" /\ \A k \in ProcsOf(test) \ {p} : Sees(test, p, k, s) => k \in ToMake(u)
        \/ p # "main" /\ s.at # {} /\ \A r \in s.at : <<r, s.val>> \in Deliveries(test, p)
        \/ p # "main" /\ \A k \in ProcsOf(test) \ {p} : ~Sees(test, p, k, s)
    BY <1>1, <1>2, SplitShows
  <1>6. CASE test \in Overlooking("split")
    BY <1>1, <1>6, OverlookedIs
  <1>7. CASE StopsThread(test, p, s)
    <2>1. Astray("child1", TRUE)' /\ "child1" \in Procs
      BY <1>2, <1>7, Unstopped, ThreadIsPolled DEF StopsThread
    <2> QED
      BY <1>2, <2>1 DEF Accounted, Marked
  <1>8. CASE p = "main" /\ \A k \in ProcsOf(test) \ {p} : Sees(test, p, k, s) => k \in ToMake(u)
    BY <1>2, <1>4, <1>8 DEF Awaited, Children
  <1>9. CASE p # "main" /\ s.at # {} /\ \A r \in s.at : <<r, s.val>> \in Deliveries(test, p)
    <2>1. PICK r \in s.at : TRUE
      BY <1>9
    <2>2. mem'["main"][r] = mem["main"][r]
      BY <1>1, <1>2, <1>9
    <2>3. Astray("main", TRUE)'
      BY <1>9, <2>1, <2>2, Undelivered
    <2> QED
      BY <1>2, <2>3 DEF Accounted, Marked
  <1> QED
    BY <1>2, <1>4, <1>5, <1>6, <1>7, <1>8, <1>9

\* A write that somebody sees who should not.
LEMMA LeakAccounted ==
  ASSUME NEW p, NEW a, NEW b, NEW d, Writing(p, a, b, d), Sourced, Expecting, Polling, OwnLife,
         p # "main", NEW q \in Procs \ Sharers(p, Here(p).at), q \in b.who, q # p,
         state[q] = "running", \A r \in Here(p).at : mem[q][r] # "none"
  PROVE  Accounted("leak")'
  <1> DEFINE s == Here(p)
             u == todo[p]
  <1>1. /\ Unseen(p) /\ p \in Procs /\ s.do = "write" /\ s.at \subseteq RegionsOf(test)
        /\ \A z \in Procs : \A r \in RegionsOf(test) :
             mem'[z][r] = IF z \in b.who /\ r \in d.at THEN "bad"
                          ELSE IF z \in b.who /\ r \in a.at THEN s.val ELSE mem[z][r]
        /\ s.val \in Contents \ {"none"}
        /\ \/ a.fault = "none" /\ a.at = s.at
           \/ \E r \in s.at \ a.at : mem[p][r] # s.val
    BY WritingIs
  <1>2. /\ Procs = ProcsOf(test) /\ test \in Tests /\ u \in Rests(test, p) /\ Head(u) = s
        /\ UNCHANGED <<test, Procs>> /\ "main" \in Procs /\ ControlOK /\ Awaited /\ ~Failed
        /\ state[p] = "running" /\ state["main"] # "absent" /\ struck \subseteq struck'
    BY <1>1, UnseenIs DEF Unseen, Sound
  <1>3. \A z \in Procs : state[z] # "absent" /\ Sees(test, p, z, s) => z \in Sharers(p, s.at)
    BY <1>1, <1>2, SeenIsShared
  <1>4. CASE test \in Overlooking("leak")
    BY <1>1, <1>4, OverlookedIs
  <1>5. CASE test = "test26"
    <2>1. CASE struck' \cap {"killed", "lost"} # {}
      <3>1. PICK g \in struck' : g \in {"killed", "lost"}
        BY <2>1
      <3>2. test \in Overlooking(g) /\ "leak" \in HiddenBy(g)
        BY <1>5, <3>1 DEF Overlooking, HiddenBy
      <3> QED
        BY <1>2, <3>2 DEF Accounted, Excused
    <2>2. CASE struck' \cap {"killed", "lost"} = {}
      <3>1. mem["main"]["own"] # "none" => state["child1"] = "running"
        BY <1>2, <1>5, <2>2 DEF OwnLife
      <3>2. ~(state["child1"] = "running" /\ state["child2"] = "running")
        <4>1. \A w \in Rests("test26", "main") :
                "child1" \in Pending(w) \ ToMake(w) => "child2" \in ToMake(w)
          BY MainOfTest26
        <4>2. ASSUME state["child1"] = "running"
              PROVE  state["main"] = "running" /\ "child1" \in Pending(todo["main"]) \ ToMake(todo["main"])
          BY <1>2, <1>5, <4>2, Concurrent, OwnIsAlone DEF Children
        <4>3. todo["main"] \in Rests(test, "main")
          BY <1>2, HereIs
        <4> QED
          BY <1>2, <1>5, <4>1, <4>2, <4>3, OwnIsAlone DEF Awaited, Children
      <3>3. CASE p = "child1"
        <4>1. Sees(test, p, "main", s)
          BY <1>2, <1>5, <3>3, FirstChildOfTest26
        <4> QED
          BY <1>2, <1>3, <1>5, <3>2, <3>3, <4>1, OwnIsAlone
      <3>4. CASE p = "child2"
        <4>1. "own" \in s.at
          BY <1>1, <1>2, <1>5, <3>4, SecondChildOfTest26
        <4> QED
          BY <1>2, <1>5, <3>1, <3>2, <3>4, <4>1, OwnIsAlone
      <3> QED
        BY <1>1, <1>2, <1>5, <3>3, <3>4, OwnIsAlone
    <2> QED
      BY <2>1, <2>2
  <1>6. CASE test \notin Overlooking("leak") /\ test # "test26"
    <2>1. \/ Sees(test, p, q, s)
          \/ /\ q = "main"
             /\ \E r \in s.at : Private(test, q, r) /\
                  \A v \in Beside(test, q, p) : s.val \notin Tolerates(test, q, v, TRUE)[r]
      <3>1. \/ Sees(test, p, q, Head(u))
            \/ /\ q = "main"
               /\ \E r \in Head(u).at :
                    /\ Private(test, q, r)
                    /\ \A v \in Beside(test, q, p) : Head(u).val \notin Tolerates(test, q, v, TRUE)[r]
        <4>1. /\ test \in Tests /\ p \in ProcsOf(test) \ {"main"} /\ u \in Rests(test, p)
              /\ Head(u).do = "write" /\ q \in ProcsOf(test) \ {p}
          BY <1>1, <1>2
        <4>2. \A z \in ProcsOf(test) \ {p} :
                \/ Sees(test, p, z, Head(u))
                \/ /\ z = "main"
                   /\ \E r \in Head(u).at :
                        /\ Private(test, z, r)
                        /\ \A v \in Beside(test, z, p) : Head(u).val \notin Tolerates(test, z, v, TRUE)[r]
          BY <1>6, <4>1, LeakShows, Zenon
        <4> QED
          BY <4>1, <4>2
      <3> QED
        BY <1>2, <3>1
    <2>2. PICK r \in s.at : /\ Private(test, q, r)
                            /\ \A v \in Beside(test, q, p) : s.val \notin Tolerates(test, q, v, TRUE)[r]
      BY <1>3, <2>1
    <2>3. test \notin Overlooking("lost")
      BY <1>6 DEF Overlooking
    <2>4. CASE r \notin a.at
      <3>1. PICK x \in s.at \ a.at : mem[p][x] # s.val
        BY <1>1, <2>4
      <3>2. PICK z \in Procs : Astray(z, TRUE)'
        BY <2>3, <3>1, LostAstray
      <3> QED
        BY <1>2, <3>2 DEF Accounted, Marked
    <2>5. CASE r \in a.at
      <3> DEFINE T == Tolerates(test, q, todo[q], TRUE)[r]
      <3>1. todo[q] \in Beside(test, q, p) /\ todo[q] \in Rests(test, q)
        BY <1>1, <1>2, BesideIs, HereIs
      <3>2. s.val \notin T /\ r \in RegionsOf(test)
        BY <1>1, <2>2, <3>1
      <3>3. "bad" \notin T
        <4>1. "bad" \in T => T = Contents
          BY <1>2, <3>1, <3>2, BadIs
        <4> QED
          BY <1>1, <3>2, <4>1
      <3>4. mem'[q][r] \notin T
        BY <1>1, <2>5, <3>2, <3>3
      <3>5. todo'[q] = todo[q] /\ state'[q] = "running"
        BY <1>1, OthersAre
      <3>6. Settled(q, r)'
        BY <1>1, <2>2, <3>5, PrivateSettles
      <3>7. Astray(q, TRUE)'
        BY <1>2, <1>6, <3>2, <3>4, <3>5, <3>6 DEF Astray
      <3> QED
        BY <1>2, <3>7 DEF Accounted, Marked
    <2> QED
      BY <2>4, <2>5
  <1> QED
    BY <1>4, <1>5, <1>6

LEMMA WriteExplained ==
  ASSUME NEW p, Unseen(p), Sourced, Expecting, Polling, OwnLife, WriteMemory(p)
  PROVE  Explained
  <1> DEFINE s == Here(p)
             u == todo[p]
  <1>1. PICK a \in Arriving(p, s.at, s.val), b \in Reaching(p, s.at), d \in Damage(p) :
          /\ mem' = Changed(b.who, Over(Filled(d.at, "bad"), Filled(a.at, s.val)))
          /\ Strike({a.fault, b.fault, d.fault})
    BY DEF WriteMemory, Current, Here
  <1>2. Writing(p, a, b, d)
    BY <1>1 DEF Writing, WriteMemory, Doing, Current, Here
  <1>3. /\ p \in Procs /\ ControlOK /\ Procs = ProcsOf(test) /\ test \in Tests
        /\ u \in Rests(test, p) /\ Head(u) = s /\ s.do = "write" /\ state[p] = "running"
        /\ UNCHANGED <<test, Procs>> /\ "main" \in Procs
    BY <1>2, UnseenIs, WritingIs
  <1>4. Accounted(a.fault)'
    <2>1. a.fault = "none" \/ (a.fault = "lost" /\ \E r \in s.at \ a.at : mem[p][r] # s.val)
      BY <1>2, WritingIs
    <2>2. CASE a.fault = "none"
      BY <2>2 DEF Accounted
    <2>3. ASSUME a.fault = "lost", NEW r \in s.at \ a.at, mem[p][r] # s.val
          PROVE  Accounted(a.fault)'
      <3>1. CASE test \in Overlooking("lost")
        BY <2>3, <3>1, OverlookedIs
      <3>2. CASE test \notin Overlooking("lost")
        <4>1. PICK q \in Procs : Astray(q, TRUE)'
          BY <1>2, <2>3, <3>2, LostAstray
        <4> QED
          BY <1>3, <2>3, <4>1 DEF Accounted, Marked
      <3> QED
        BY <3>1, <3>2
    <2> QED
      BY <2>1, <2>2, <2>3
  <1>5. Accounted(b.fault)'
    <2>1. /\ p \in Sharers(p, s.at)
          /\ \/ b.fault = "none"
             \/ b.who = {p} /\ b.fault = "split" /\ Sharers(p, s.at) # {p}
             \/ /\ b.fault = IF p = "main" THEN "leakDown" ELSE "leak"
                /\ \E q \in Procs \ Sharers(p, s.at) :
                     q \in b.who /\ state[q] = "running" /\ \A r \in s.at : mem[q][r] # "none"
      BY <1>1, ReachIs
    <2>2. CASE b.fault = "none"
      BY <2>2 DEF Accounted
    <2>3. CASE b.who = {p} /\ b.fault = "split" /\ Sharers(p, s.at) # {p}
      BY <1>2, <2>3, SplitAccounted
    <2>4. ASSUME NEW q \in Procs \ Sharers(p, s.at), q \in b.who, state[q] = "running",
                 \A r \in s.at : mem[q][r] # "none",
                 b.fault = IF p = "main" THEN "leakDown" ELSE "leak"
          PROVE  Accounted(b.fault)'
      <3>1. q # p
        BY <2>1
      <3>2. CASE p # "main"
        BY <1>2, <2>4, <3>1, <3>2, LeakAccounted
      <3>3. CASE p = "main"
        <4>1. \/ test \in Overlooking("leakDown")
              \/ Sees(test, p, q, s) \/ u \notin Beside(test, p, q)
          BY <1>3, <3>1, <3>3, LeakDownShows
        <4>2. ~Sees(test, p, q, s)
          BY <1>3, <2>4, SeenIsShared
        <4>3. u \in Beside(test, p, q)
          BY <2>4, <3>1, BesideIs
        <4> QED
          BY <2>4, <3>3, <4>1, <4>2, <4>3, OverlookedIs
      <3> QED
        BY <3>2, <3>3
    <2> QED
      BY <2>1, <2>2, <2>3, <2>4
  <1>6. Accounted(d.fault)'
    <2>1. /\ d.at \subseteq s.keeps /\ (d.fault = "none" <=> d.at = {})
          /\ d.fault \in {"none", "corrupt"} /\ d.at \subseteq RegionsOf(test)
      BY <1>1, <1>3, DamageIs
    <2>2. p \in b.who
      BY <1>1, ReachIs
    <2>3. \A r \in d.at : mem'[p][r] = "bad"
      BY <1>2, <1>3, <2>1, <2>2, WritingIs
    <2>4. CASE d.fault = "none"
      BY <2>4 DEF Accounted
    <2>5. CASE d.fault = "corrupt"
      BY <1>3, <2>1, <2>3, <2>5, CorruptLeaves
    <2> QED
      BY <2>1, <2>4, <2>5
  <1> QED
    BY <1>1, <1>4, <1>5, <1>6, StrikeExplained

\* Whatever strikes at a step that nobody notices.
LEMMA StepExplained ==
  ASSUME NEW p, Unseen(p), Never, Sourced, Expecting, Polling, OwnLife
  PROVE  Explained
  <1>1. ASSUME UNCHANGED struck PROVE Explained
    BY <1>1 DEF Explained
  <1>2. CASE CheckMemory(p) \/ RestoreLimit(p) \/ WaitForProcess(p) \/ Await(p)
    BY <1>1, <1>2 DEF CheckMemory, RestoreLimit, WaitForProcess, Await
  <1>3. CASE CheckNodes(p) \/ Judge(p) \/ Return(p)
    BY <1>1, <1>3 DEF CheckNodes, Judge, Return
  <1> QED
    BY <1>2, <1>3, PrctlExplained, QueryExplained, MapExplained, WriteExplained, UnmapExplained,
       DropExplained, MoveExplained, OtherCallExplained, ForkExplained, CloneExplained,
       ExecExplained DEF Unseen, Step

-----------------------------------------------------------------------------
(***************************************************************************)
(* What the accounts rest on stays true: what main expects of a child it   *)
(* does not hold before the child has written it, test3's threads wait     *)
(* for each other, and the first child of test26 finds what it has left.   *)
(***************************************************************************)

LEMMA NeverStays ==
  ASSUME NEW p, Unseen(p), Never
  PROVE  Never'
  <1>1. /\ p \in Procs /\ "main" \in Procs /\ Procs = ProcsOf(test) /\ test \in Tests
        /\ UNCHANGED <<test, Procs>> /\ ControlOK /\ MemoryOK /\ Step(p)
        /\ todo[p] \in Rests(test, p) /\ WellFormed(test, p, Here(p)) /\ Head(todo[p]) = Here(p)
    BY UnseenIs DEF Unseen
  <1>2. CASE p # "main"
    BY <1>1, <1>2, OnMasks DEF Never, WellFormed, MakesProcess
  <1>3. CASE p = "main"
    <2>1. ASSUME NEW t \in Tests, NEW u \in Rests(t, "main"), t = "test21"
          PROVE  Head(u).do \in {"fork", "wait", "end"}
      BY <2>1, ScriptsWellFormed, MasksStay
    <2>2. test = "test21" => Here(p).do \in {"fork", "wait", "end"}
      BY <1>1, <1>3, <2>1
    <2> QED
      BY <1>1, <1>3, <2>2, OnMasks DEF Never, Switches
  <1> QED
    BY <1>2, <1>3

LEMMA WrittenIs ==
  ASSUME NEW t \in Tests, NEW u \in Rests(t, "main"), Head(u).do # "end", ProcsOf(t) = {"main"}
  PROVE  /\ MayHold(t, u) \subseteq MayHold(t, After(u, 1))
         /\ Ignores(u) => MayHold(t, u) \subseteq MayHold(t, After(u, 1 + Head(u).skip))
         /\ Ignores(u) /\ Head(u).do = "map" =>
              Head(u).val \in MayHold(t, After(u, 1 + Head(u).skip))
         /\ Head(u).do \in {"write", "map"} => Head(u).val \in MayHold(t, After(u, 1))
         /\ Head(u).do \notin {"fork", "thread", "cloneVM", "exec"}
  <1>1. /\ MayHold(t, u) \subseteq MayHold(t, After(u, 1))
        /\ ~Ending(u) => MayHold(t, After(u, 1)) \subseteq MayHold(t, WrongRest(u))
        /\ Head(u).do \in {"write", "map"} => Head(u).val \in MayHold(t, After(u, 1))
        /\ Head(u).do \notin {"fork", "thread", "cloneVM", "exec"}
    BY ContentsAreWritten
  <1>2. Ignores(u) => ~Ending(u) /\ WrongRest(u) = After(u, 1 + Head(u).skip)
    BY DEF Ignores, Ending, WrongRest
  <1> QED
    BY <1>1, <1>2

LEMMA SourcedStays ==
  ASSUME NEW p, Unseen(p), Sourced
  PROVE  Sourced'
  <1> DEFINE s == Here(p)
             u == todo[p]
  <1>1. /\ p \in Procs /\ "main" \in Procs /\ Procs = ProcsOf(test) /\ test \in Tests
        /\ UNCHANGED <<test, Procs>> /\ ControlOK /\ MemoryOK /\ MemoryOK' /\ Step(p)
        /\ u \in Rests(test, p) /\ WellFormed(test, p, s) /\ Head(u) = s
    BY UnseenIs DEF Unseen
  <1>2. CASE ProcsOf(test) # {"main"}
    BY <1>1, <1>2 DEF Sourced, MayHold, MemoryOK
  <1>3. CASE ProcsOf(test) = {"main"}
    <2>1. p = "main" /\ Flows(p)
      BY <1>1, <1>3, StepFlows, MainHeard
    <2>2. CASE ComesToEnd(p) \/ Naps(p)
      BY <1>1, <2>2 DEF ComesToEnd, Naps, Sourced
    <2>3. CASE Begins(p)
      <3>1. s.do \in {"fork", "thread", "cloneVM"}
        BY <2>3 DEF Begins, Makes, MakesProcess
      <3> QED
        BY <1>1, <1>3, <2>1, <3>1, WrittenIs
    <2>4. CASE GoesOn(p) \/ SkipsOn(p)
      <3>1. s.do # "end"
        BY <1>1, <2>4 DEF GoesOn, SkipsOn, Ignores
      <3>2. PICK A : A = MayHold(test, todo'[p])
        OBVIOUS
      <3>3. /\ MayHold(test, u) \subseteq A
            /\ s.do \in {"write", "map"} => s.val \in A
            /\ s.do \notin {"fork", "thread", "cloneVM", "exec"}
        <4>1. /\ MayHold(test, u) \subseteq MayHold(test, After(u, 1))
              /\ Ignores(u) => MayHold(test, u) \subseteq MayHold(test, After(u, 1 + s.skip))
              /\ Ignores(u) /\ s.do = "map" => s.val \in MayHold(test, After(u, 1 + s.skip))
              /\ s.do \in {"write", "map"} => s.val \in MayHold(test, After(u, 1))
              /\ s.do \notin {"fork", "thread", "cloneVM", "exec"}
          BY <1>1, <1>3, <2>1, <3>1, WrittenIs
        <4>2. CASE GoesOn(p)
          BY <3>2, <4>1, <4>2, FlowsTo
        <4>3. CASE SkipsOn(p)
          <5>1. Ignores(u) /\ s.do # "write"
            BY <1>1, <4>1, <4>3 DEF SkipsOn, Ignores
          <5> QED
            BY <3>2, <4>1, <4>3, <5>1, FlowsTo
        <4> QED
          BY <2>4, <4>2, <4>3
      <3>4. {"none", "zero", "bad"} \subseteq A
        BY <3>2 DEF MayHold, Contents
      <3>5. ASSUME NEW r \in RegionsOf(test) PROVE mem'[p][r] \in A
        <4>1. Leaves(p, p, r) \/ Alters(p, p, r)
          BY <1>1, <2>1, <3>3, OnContentsStep DEF OnContents
        <4>2. CASE Leaves(p, p, r)
          BY <2>1, <3>3, <3>4, <4>2 DEF Leaves, Sourced
        <4>3. CASE Alters(p, p, r)
          <5>1. \A x \in RegionsOf(test) : mem[p][x] \in A
            BY <2>1, <3>3 DEF Sourced
          <5>2. s.do = "move" => (CHOOSE q \in s.at : TRUE) \in RegionsOf(test)
            BY <1>1 DEF WellFormed
          <5>3. s.do \in {"map", "write", "drop", "unmap", "move"}
            BY <4>3 DEF Alters, Changes
          <5>4. Value(p, s, r) \in A
            BY <3>3, <3>4, <5>1, <5>2, <5>3 DEF Value
          <5> QED
            BY <3>3, <3>4, <4>3, <5>4 DEF Alters
        <4> QED
          BY <4>1, <4>2, <4>3
      <3> QED
        BY <1>1, <2>1, <3>2, <3>5 DEF Sourced
    <2> QED
      BY <2>1, <2>2, <2>3, <2>4 DEF Flows
  <1> QED
    BY <1>2, <1>3

\* What a child is still going to change, it was going to change before.
LEMMA StillToChange ==
  ASSUME NEW p, Unseen(p), test # "test26", NEW k \in Children, state'[k] \in {"absent", "running"},
         NEW r, r \in MayChange(test, k, "main", todo'[k])
  PROVE  /\ state[k] \in {"absent", "running"} /\ r \in MayChange(test, k, "main", todo[k])
         /\ k = p => Here(p).do \notin {"write"} \/ todo'[p] = After(todo[p], 1)
  <1>1. /\ p \in Procs /\ "main" \in Procs /\ Procs = ProcsOf(test) /\ test \in Tests
        /\ UNCHANGED <<test, Procs>> /\ state[p] = "running" /\ Step(p) /\ ControlOK
        /\ todo[p] \in Rests(test, p) /\ WellFormed(test, p, Here(p)) /\ Head(todo[p]) = Here(p)
        /\ k \in Procs /\ k # "main"
    BY UnseenIs DEF Unseen, Children
  <1>2. CASE k # p
    BY <1>1, <1>2, OthersAre
  <1>3. CASE k = p
    <2>1. Flows(p)
      BY <1>1, AllHeard, StepFlows
    <2>2. state'[p] # "absent"
      BY <1>1, OthersGoOn
    <2>3. todo[p] \in Beside(test, p, "main") /\ "main" \notin AwaitedBy(Here(p))
      BY <1>1, <1>3 DEF Beside, AwaitedBy, WellFormed
    <2>4. /\ Here(p).do # "end" =>
               MayChange(test, p, "main", After(todo[p], 1)) \subseteq MayChange(test, p, "main", todo[p])
          /\ Ignores(todo[p]) \/ Here(p).do = "cloneVM" =>
               MayChange(test, p, "main", After(todo[p], 1 + Here(p).skip))
                 \subseteq MayChange(test, p, "main", todo[p])
      <3>1. ASSUME NEW w \in Beside(test, p, "main"), "main" \notin AwaitedBy(Head(w))
            PROVE  /\ Head(w).do # "end" =>
                        MayChange(test, p, "main", After(w, 1)) \subseteq MayChange(test, p, "main", w)
                   /\ Ignores(w) \/ Head(w).do = "cloneVM" =>
                        MayChange(test, p, "main", After(w, 1 + Head(w).skip))
                          \subseteq MayChange(test, p, "main", w)
        BY <1>1, <1>3, <3>1, FlawsAreLeftAlone
      <3>2. PICK w : w = todo[p]
        OBVIOUS
      <3>3. w \in Beside(test, p, "main") /\ "main" \notin AwaitedBy(Head(w)) /\ Head(w) = Here(p)
        BY <1>1, <2>3, <3>2
      <3> QED
        BY <3>1, <3>2, <3>3
    <2>5. CASE GoesOn(p) \/ Begins(p)
      BY <1>1, <1>3, <2>4, <2>5, FlowsTo
    <2>6. CASE SkipsOn(p)
      <3>1. todo'[p] = After(todo[p], 1 + Here(p).skip)
        BY <2>6, FlowsTo
      <3>2. Ignores(todo[p]) \/ Here(p).do = "cloneVM"
        BY <2>6 DEF SkipsOn
      <3>3. Here(p).do # "write"
        BY <1>1, <3>2 DEF Ignores
      <3> QED
        BY <1>1, <1>3, <2>4, <3>1, <3>2, <3>3
    <2>7. CASE ComesToEnd(p)
      BY <1>1, <1>3, <2>2, <2>7 DEF ComesToEnd
    <2>8. CASE Naps(p)
      BY <1>1, <1>3, <2>8, FlowsTo DEF Naps
    <2> QED
      BY <2>1, <2>5, <2>6, <2>7, <2>8 DEF Flows
  <1> QED
    BY <1>2, <1>3

\* While it polls, main of test3 comes to the end of its poll only.
LEMMA PollsOn ==
  ASSUME NEW p, Unseen(p), test = "test3", Polls(todo["main"]),
         ~Polls(todo'["main"])
  PROVE  p = "main" /\ Here(p).do = "await" /\ mem["main"]["flag"] = "new"
  <1> DEFINE s == Here(p)
             u == todo[p]
  <1>1. /\ p \in Procs /\ "main" \in Procs /\ Procs = ProcsOf(test) /\ test \in Tests
        /\ UNCHANGED <<test, Procs>> /\ u \in Rests(test, p) /\ Head(u) = s
    BY UnseenIs
  <1>2. p = "main" /\ Flows(p)
    BY <1>1, OthersAre, StepFlows, MainHeard
  <1>3. /\ s.do \notin {"exec", "fork", "cloneVM"}
        /\ s.do = "await" => s.at = {"flag"} /\ s.val = "new"
        /\ s.do = "await" \/ (Ending(u) /\ Polls(After(u, 1)))
    <2>1. Head(u).do = "await" \/ (Ending(u) /\ Polls(After(u, 1)))
      BY <1>1, <1>2, DeliveriesAreExpected
    <2>2. /\ Head(u).do \notin {"exec", "fork", "cloneVM"}
          /\ Head(u).do = "await" => Head(u).at = {"flag"} /\ Head(u).val = "new"
      BY <1>1, <1>2, PolledIs
    <2> QED
      BY <1>1, <2>1, <2>2
  <1>4. ~Naps(p) /\ ~ComesToEnd(p)
    BY <1>2, FlowsTo DEF ComesToEnd
  <1>5. ~SkipsOn(p)
    BY <1>1, <1>3 DEF SkipsOn, Ignores, Ending
  <1>6. GoesOn(p) \/ Begins(p) => todo'[p] = After(u, 1)
    BY FlowsTo
  <1>7. s.do = "await" /\ GoesOn(p)
    BY <1>2, <1>3, <1>4, <1>5, <1>6 DEF Flows, Begins, Makes, MakesProcess
  <1> QED
    BY <1>2, <1>3, <1>7 DEF GoesOn, Met

LEMMA ExpectingStays ==
  ASSUME NEW p, Unseen(p), Expecting
  PROVE  Expecting'
  <1> DEFINE s == Here(p)
             u == todo[p]
  <1>1. /\ p \in Procs /\ "main" \in Procs /\ Procs = ProcsOf(test) /\ test \in Tests
        /\ UNCHANGED <<test, Procs>> /\ ControlOK /\ MemoryOK /\ Step(p)
        /\ u \in Rests(test, p) /\ WellFormed(test, p, s) /\ Head(u) = s
    BY UnseenIs DEF Unseen
  <1>2. ASSUME NEW k \in Children, NEW d \in Deliveries(test, k),
               state'[k] \in {"absent", "running"}, d[1] \in MayChange(test, k, "main", todo'[k])
        PROVE  mem'["main"][d[1]] # d[2] /\ (test = "test3" => Polls(todo'["main"]))
    <2>1. /\ k \in Procs /\ k # "main" /\ k \in ProcsOf(test)
      BY <1>1 DEF Children
    <2>2. /\ d[1] \in RegionsOf(test) /\ d[2] \in Contents \ {"none", "zero", "bad"}
          /\ test # "test26"
          /\ \A j \in ProcsOf(test) \ {"main", k} : \A w \in Rests(test, j) :
               d[1] \notin Changes(Head(w))
      BY <1>1, <2>1, DeliveredIs
    <2>3. /\ state[k] \in {"absent", "running"} /\ d[1] \in MayChange(test, k, "main", todo[k])
          /\ k = p => s.do \notin {"write"} \/ todo'[p] = After(u, 1)
      BY <1>2, <2>2, StillToChange
    <2>4. mem["main"][d[1]] # d[2] /\ (test = "test3" => Polls(todo["main"]))
      BY <2>3 DEF Expecting
    <2>5. mem'["main"][d[1]] # d[2]
      <3>1. Leaves(p, "main", d[1]) \/ Alters(p, "main", d[1]) \/ (s.do = "exec" /\ p = "main")
        BY <1>1, <2>2, OnContentsStep DEF OnContents, WellFormed, MakesProcess
      <3>2. CASE Leaves(p, "main", d[1])
        BY <2>2, <2>4, <3>2 DEF Leaves
      <3>3. CASE p = k
        <4>1. ~Alters(p, "main", d[1])
          <5>1. d[1] \in Changes(s) =>
                  s.do = "write" /\ d[1] \notin MayChange(test, k, "main", After(u, 1))
            BY <1>1, <2>1, <3>3, DeliveredByIs
          <5> QED
            BY <1>2, <2>3, <3>3, <5>1 DEF Alters
        <4> QED
          BY <2>1, <3>1, <3>2, <3>3, <4>1
      <3>4. CASE p = "main"
        <4>1. /\ s.do # "exec"
              /\ d[1] \in Changes(s) =>
                   \/ s.do = "map" /\ s.val \notin RegionsOf(test) /\ s.val # d[2]
                   \/ s.do = "write" /\ s.val # d[2]
                   \/ s.do = "unmap"
          BY <1>1, <2>1, <3>4, DeliveredToIs
        <4>2. ASSUME Alters(p, "main", d[1]) PROVE mem'["main"][d[1]] # d[2]
          BY <2>2, <4>1, <4>2 DEF Alters, Value
        <4> QED
          BY <3>1, <3>2, <4>1, <4>2
      <3>5. CASE p \notin {k, "main"}
        <4>1. d[1] \notin Changes(s)
          BY <1>1, <2>2, <3>5
        <4> QED
          BY <3>1, <3>2, <3>5, <4>1 DEF Alters
      <3> QED
        BY <3>3, <3>4, <3>5
    <2>6. ASSUME test = "test3" PROVE Polls(todo'["main"])
      <3>1. d = <<"flag", "new">>
        BY <2>6, <2>1, ThreadIsPolled DEF Deliveries
      <3>2. mem["main"]["flag"] # "new"
        BY <2>4, <3>1
      <3> QED
        BY <2>4, <2>6, <3>2, PollsOn
    <2> QED
      BY <2>5, <2>6
  <1> QED
    BY <1>1, <1>2 DEF Expecting, Children

\* A step that changes no region.
LEMMA Untouched ==
  ASSUME NEW p, Unseen(p), Changes(Here(p)) = {}, Here(p).keeps = {},
         Here(p).do \notin {"exec", "fork", "cloneVM"}
  PROVE  \A q \in Procs : \A r \in RegionsOf(test) : mem'[q][r] = mem[q][r]
  BY UnseenIs, OnContentsStep DEF Unseen, OnContents, Leaves, Alters

LEMMA PollingStays ==
  ASSUME NEW p, Unseen(p), Polling, Expecting
  PROVE  Polling'
  <1> DEFINE s == Here(p)
             u == todo[p]
  <1> SUFFICES ASSUME test = "test3", state'["main"] = "running", Writes(todo'["main"])
               PROVE  /\ ~Polls(todo'["main"]) => mem'["main"]["flag"] = "new"
                      /\ mem'["main"]["flag"] = "new" =>
                           /\ state'["child1"] = "running" /\ todo'["child1"] = ThreadWaits
                           /\ mem'["child1"]["flag"] = "new"
    BY UnseenIs DEF Polling
  <1>1. /\ p \in Procs /\ "main" \in Procs /\ Procs = ProcsOf(test) /\ test \in Tests
        /\ UNCHANGED <<test, Procs>> /\ ControlOK /\ MemoryOK /\ Step(p) /\ state[p] = "running"
        /\ u \in Rests(test, p) /\ WellFormed(test, p, s) /\ Head(u) = s
    BY UnseenIs DEF Unseen
  <1>2. /\ ProcsOf("test3") = {"main", "child1"} /\ "flag" \in RegionsOf("test3")
        /\ Heard(test, p)
    BY <1>1, ThreadIsPolled
  <1>3. Flows(p)
    BY <1>2, StepFlows
  <1>4. CASE p = "main"
    <2>1. /\ s.keeps = {} /\ s.do \notin {"exec", "fork", "cloneVM"}
          /\ s.do = "write" => ~Writes(After(u, 1))
          /\ s.do # "write" => Changes(s) = {}
          /\ s.do # "end" /\ Writes(After(u, 1)) => Writes(u)
          /\ Ignores(u) /\ Writes(After(u, 1 + s.skip)) => Writes(u)
      <3>1. u \in Rests("test3", "main")
        BY <1>1, <1>4
      <3>2. /\ Head(u).keeps = {} /\ Head(u).do \notin {"exec", "fork", "cloneVM"}
            /\ Head(u).do = "write" => ~Writes(After(u, 1))
            /\ Head(u).do # "write" => Changes(Head(u)) = {}
        BY <3>1, PolledIs
      <3>3. /\ Head(u).do # "end" /\ Writes(After(u, 1)) => Writes(u)
            /\ Ignores(u) /\ Writes(After(u, 1 + Head(u).skip)) => Writes(u)
        BY <3>1, PolledIs
      <3> QED
        BY <1>1, <3>2, <3>3
    <2>2. Writes(u) /\ s.do # "write"
      <3>1. CASE GoesOn(p) \/ Begins(p)
        BY <1>4, <2>1, <3>1, FlowsTo
      <3>2. CASE SkipsOn(p)
        BY <1>1, <1>4, <2>1, <3>2, FlowsTo DEF SkipsOn, Ignores
      <3>3. CASE ComesToEnd(p)
        BY <1>4, <3>3 DEF ComesToEnd
      <3>4. CASE Naps(p)
        BY <1>4, <3>4, FlowsTo DEF Naps
      <3> QED
        BY <1>3, <3>1, <3>2, <3>3, <3>4 DEF Flows
    <2>3. \A q \in Procs : \A r \in RegionsOf(test) : mem'[q][r] = mem[q][r]
      BY <2>1, <2>2, Untouched
    <2>4. ~Polls(u) => mem["main"]["flag"] = "new"
      BY <1>1, <1>4, <2>2 DEF Polling
    <2>5. Polls(u) /\ ~Polls(todo'["main"]) => mem["main"]["flag"] = "new"
      BY <1>4, PollsOn
    <2>6. mem["main"]["flag"] = "new" =>
            /\ state["child1"] = "running" /\ todo["child1"] = ThreadWaits
            /\ mem["child1"]["flag"] = "new"
      BY <1>1, <1>4, <2>2 DEF Polling
    <2>7. state["child1"] = "running" => state'["child1"] = "running"
      BY <1>1, <1>2, <1>4, OthersAre
    <2>8. todo'["child1"] = todo["child1"]
      BY <1>1, <1>2, <1>4, OthersAre
    <2> QED
      BY <1>1, <1>2, <2>3, <2>4, <2>5, <2>6, <2>7, <2>8
  <1>5. CASE p = "child1"
    <2>1. /\ s.keeps = {} /\ s.do \in {"write", "await", "end"}
          /\ s.do = "write" => s.at = {"flag"}
          /\ "flag" \notin MayChange("test3", "child1", "main", u) => u = ThreadWaits \/ s.do = "end"
          /\ "flag" \in MayChange("test3", "child1", "main", u) =>
               s.do = "write" /\ After(u, 1) = ThreadWaits
          /\ u = ThreadWaits => s.do = "await" /\ s.at = {"flag"} /\ s.val = "zero"
      BY <1>1, <1>5, PollingIs
    <2>2. todo'["main"] = todo["main"] /\ state["main"] = "running"
      BY <1>1, <1>5, OthersAre DEF Makes, WellFormed
    <2>3. /\ ~Polls(todo["main"]) => mem["main"]["flag"] = "new"
          /\ mem["main"]["flag"] = "new" =>
               /\ state["child1"] = "running" /\ todo["child1"] = ThreadWaits
               /\ mem["child1"]["flag"] = "new"
      BY <1>1, <2>2 DEF Polling
    <2>4. CASE s.do # "write"
      <3>1. \A q \in Procs : \A r \in RegionsOf(test) : mem'[q][r] = mem[q][r]
        BY <2>1, <2>4, Untouched DEF Changes
      <3>2. ASSUME mem["main"]["flag"] = "new" PROVE Naps(p)
        <4>1. u = ThreadWaits /\ s.do = "await" /\ s.at = {"flag"} /\ s.val = "zero"
          BY <1>5, <2>1, <2>3, <3>2
        <4>2. ~Met(p)
          BY <1>5, <2>3, <3>2, <4>1 DEF Met
        <4> QED
          BY <1>1, <1>3, <4>1, <4>2
          DEF Flows, GoesOn, SkipsOn, Ignores, ComesToEnd, Begins, Makes, MakesProcess
      <3>3. Naps(p) => UNCHANGED <<todo, state>>
        BY DEF Naps
      <3> QED
        BY <1>1, <1>2, <2>2, <2>3, <3>1, <3>2, <3>3
    <2>5. CASE s.do = "write"
      <3>1. /\ s.at = {"flag"} /\ After(u, 1) = ThreadWaits
            /\ "flag" \in MayChange("test3", "child1", "main", u)
        BY <2>1, <2>5
      <3>2. mem["main"]["flag"] # "new" /\ Polls(todo["main"])
        <4>1. <<"flag", "new">> \in Deliveries(test, "child1") /\ "child1" \in Children
          BY <1>1, <1>2 DEF Deliveries, Children
        <4>2. PICK d : d = <<"flag", "new">>
          OBVIOUS
        <4>3. d \in Deliveries(test, "child1") /\ d[1] = "flag" /\ d[2] = "new"
          BY <4>1, <4>2
        <4>4. mem["main"][d[1]] # d[2] /\ (test = "test3" => Polls(todo["main"]))
          BY <1>1, <1>5, <3>1, <4>1, <4>3 DEF Expecting
        <4> QED
          BY <4>3, <4>4
      <3>3. PICK a \in Arriving(p, s.at, s.val), b \in Reaching(p, s.at), d \in Damage(p) :
              /\ mem' = Changed(b.who, Over(Filled(d.at, "bad"), Filled(a.at, s.val)))
              /\ Strike({a.fault, b.fault, d.fault}) /\ Proceed(p)
        BY <1>1, <2>5, ActionIs DEF WriteMemory, Current, Here
      <3>4. Writing(p, a, b, d)
        BY <2>5, <3>3 DEF Writing
      <3>5. /\ \A q \in Procs : \A r \in RegionsOf(test) :
                 mem'[q][r] = IF q \in b.who /\ r \in d.at THEN "bad"
                              ELSE IF q \in b.who /\ r \in a.at THEN s.val ELSE mem[q][r]
            /\ d.at \subseteq s.keeps /\ todo'[p] = After(u, 1) /\ state'[p] = "running"
        BY <3>4, WritingIs
      <3>6. p \in b.who
        BY <3>3, ReachIs
      <3>7. mem'["main"]["flag"] = "new" => mem'["child1"]["flag"] = "new"
        <4>1. d.at = {}
          BY <2>1, <3>5
        <4>2. /\ mem'["main"]["flag"] =
                   IF "main" \in b.who /\ "flag" \in a.at THEN s.val ELSE mem["main"]["flag"]
              /\ mem'["child1"]["flag"] =
                   IF "flag" \in a.at THEN s.val ELSE mem["child1"]["flag"]
          BY <1>1, <1>2, <1>5, <3>5, <3>6, <4>1
        <4> QED
          BY <3>2, <4>2
      <3> QED
        BY <1>5, <2>2, <3>1, <3>2, <3>5, <3>7
    <2> QED
      BY <2>4, <2>5
  <1> QED
    BY <1>1, <1>2, <1>4, <1>5

\* A call that makes no child leaves the child as it was.
LEMMA OwnLifeMain ==
  ASSUME Unseen("main"), OwnLife
  PROVE  OwnLife'
  <1> DEFINE p == "main"
             s == Here(p)
             u == todo[p]
  <1> SUFFICES ASSUME test = "test26", struck' \cap {"killed", "lost"} = {}
               PROVE  /\ mem'["main"]["own"] # "none" =>
                           state'["child1"] = "running" /\ "own" \in Needs(test, todo'["child1"])
                      /\ state'["child1"] = "running" =>
                           /\ mem'["child1"]["stack"] # "none"
                           /\ Head(todo'["child1"]).do = "check" => mem'["child1"]["own"] = "new"
    BY UnseenIs DEF OwnLife
  <1>1. /\ p \in Procs /\ "main" \in Procs /\ Procs = ProcsOf(test) /\ test \in Tests
        /\ UNCHANGED <<test, Procs>> /\ ControlOK /\ MemoryOK /\ Awaited /\ Held /\ Step(p)
        /\ state[p] = "running" /\ ~Failed /\ struck \subseteq struck'
        /\ u \in Rests(test, p) /\ WellFormed(test, p, s) /\ Head(u) = s
    BY UnseenIs DEF Unseen
  <1>2. /\ ProcsOf("test26") = {"main", "child1", "child2"} /\ "own" \in RegionsOf(test)
        /\ "stack" \in RegionsOf(test) /\ Head(Script["test26"]["child1"]).do # "check"
    BY OwnIsAlone, StackIsFreedLast
  <1>3. /\ mem["main"]["own"] # "none" =>
             state["child1"] = "running" /\ "own" \in Needs(test, todo["child1"])
        /\ state["child1"] = "running" =>
             /\ mem["child1"]["stack"] # "none"
             /\ Head(todo["child1"]).do = "check" => mem["child1"]["own"] = "new"
    BY <1>1 DEF OwnLife
  <1>4. /\ s.keeps = {} /\ s.do \notin {"exec", "write"} /\ "own" \notin Changes(s)
        /\ "child1" \in Pending(u) \ ToMake(u) => Changes(s) = {}
    BY <1>1, MainOfTest26
  <1>5. mem'["main"]["own"] = mem["main"]["own"]
    BY <1>1, <1>2, <1>4, OnContentsStep DEF OnContents, Leaves, Alters, WellFormed, MakesProcess
  <1>6. todo'["child1"] = todo["child1"] /\ (state["child1"] = "running" => state'["child1"] = "running")
    BY <1>1, <1>2, OthersAre
  <1>7. CASE state["child1"] = "running"
    <2>1. "child1" \in Pending(u) \ ToMake(u)
      BY <1>1, <1>2, <1>7, Concurrent DEF Children
    <2>2. s.do \in MakesProcess => s.val \in ToMake(u)
      BY <1>1, ProcessesAreAwaited
    <2>3. \A r \in RegionsOf(test) : mem'["child1"][r] = mem["child1"][r]
      BY <1>1, <1>2, <1>4, <2>1, <2>2, OnContentsStep DEF OnContents, Leaves, Alters, MakesProcess
    <2> QED
      BY <1>2, <1>3, <1>5, <1>6, <1>7, <2>3
  <1>8. CASE state["child1"] # "running"
    <2>1. ASSUME state'["child1"] = "running"
          PROVE  /\ mem'["child1"]["stack"] # "none"
                 /\ Head(todo'["child1"]).do # "check"
      <3>1. state["child1"] = "absent" /\ Makes(p) /\ s.val = "child1"
        BY <1>1, <1>2, <1>8, <2>1, OthersAre
      <3>2. s.do = "cloneVM" /\ "stack" \in Needs(test, u)
        BY <1>1, <3>1, StackIsFreedLast DEF Makes
      <3>3. mem["main"]["stack"] # "none"
        BY <1>1, <3>2 DEF Held
      <3>4. CloneVM(p)
        BY <1>1, <3>2, ActionIs
      <3>5. ~GoesWrong(p)
        <4>1. "child1" \in Procs \ {p}
          BY <1>1, <1>2
        <4>2. ASSUME GoesWrong(p) PROVE state'["child1"] = state["child1"]
          <5>1. CASE state' = [state EXCEPT ![p] = IF s.bad = "die" THEN "killed" ELSE "failed"]
            BY <4>1, <5>1
          <5> QED
            BY <4>2, <5>1, WrongIs DEF GoTo
        <4> QED
          BY <2>1, <3>1, <4>2
      <3>6. mem' = [mem EXCEPT !["child1"] = mem[p]]
        BY <1>8, <2>1, <3>1, <3>4, <3>5 DEF CloneVM, Current, Here
      <3>7. mem'["child1"]["stack"] = mem["main"]["stack"]
        BY <1>1, <1>2, <3>6 DEF MemoryOK
      <3>8. todo["child1"] = Script[test]["child1"]
        BY <1>1, <1>2, <3>1 DEF Held
      <3> QED
        BY <1>2, <1>6, <3>3, <3>7, <3>8
    <2> QED
      BY <1>3, <1>5, <1>8, <2>1
  <1> QED
    BY <1>7, <1>8

LEMMA OwnLifeStranger ==
  ASSUME Unseen("child2"), OwnLife
  PROVE  OwnLife'
  <1> DEFINE p == "child2"
             s == Here(p)
             u == todo[p]
  <1> SUFFICES ASSUME test = "test26", struck' \cap {"killed", "lost"} = {}
               PROVE  /\ mem'["main"]["own"] # "none" =>
                           state'["child1"] = "running" /\ "own" \in Needs(test, todo'["child1"])
                      /\ state'["child1"] # "running"
    BY UnseenIs DEF OwnLife
  <1>1. /\ p \in Procs /\ "main" \in Procs /\ Procs = ProcsOf(test) /\ test \in Tests
        /\ UNCHANGED <<test, Procs>> /\ ControlOK /\ MemoryOK /\ Awaited /\ Held /\ Step(p)
        /\ state[p] = "running" /\ ~Failed /\ struck \subseteq struck' /\ state["main"] # "absent"
        /\ u \in Rests(test, p) /\ WellFormed(test, p, s) /\ Head(u) = s
    BY UnseenIs DEF Unseen, Sound
  <1>2. ProcsOf("test26") = {"main", "child1", "child2"} /\ "own" \in RegionsOf(test)
    BY OwnIsAlone
  <1>3. state["child1"] # "running"
    <2>1. ASSUME state["child1"] = "running" PROVE FALSE
      <3>1. /\ state["main"] = "running"
            /\ "child1" \in Pending(todo["main"]) \ ToMake(todo["main"])
        BY <1>1, <1>2, <2>1, Concurrent DEF Children
      <3>2. todo["main"] \in Rests(test, "main")
        BY <1>1, HereIs
      <3>3. "child2" \in ToMake(todo["main"])
        BY <3>1, <3>2, MainOfTest26
      <3> QED
        BY <1>1, <1>2, <3>1, <3>3 DEF Awaited, Children
    <2> QED
      BY <2>1
  <1>4. mem["main"]["own"] = "none"
    BY <1>1, <1>3 DEF OwnLife
  <1>5. ~Sees(test, p, "main", s) /\ s.keeps = {} /\ s.do # "exec"
    BY <1>1, SecondChildOfTest26
  <1>6. mem'["main"]["own"] = "none"
    BY <1>1, <1>2, <1>4, <1>5, OnContentsStep DEF OnContents, Leaves, Alters, WellFormed, MakesProcess
  <1>7. state'["child1"] # "running"
    BY <1>1, <1>2, <1>3, OthersAre DEF Makes, WellFormed
  <1> QED
    BY <1>6, <1>7

LEMMA OwnLifeOwner ==
  ASSUME Unseen("child1"), OwnLife
  PROVE  OwnLife'
  <1> DEFINE p == "child1"
             s == Here(p)
             u == todo[p]
  <1> SUFFICES ASSUME test = "test26", struck' \cap {"killed", "lost"} = {}
               PROVE  /\ mem'["main"]["own"] # "none" =>
                           state'["child1"] = "running" /\ "own" \in Needs(test, todo'["child1"])
                      /\ state'["child1"] = "running" =>
                           /\ mem'["child1"]["stack"] # "none"
                           /\ Head(todo'["child1"]).do = "check" => mem'["child1"]["own"] = "new"
    BY UnseenIs DEF OwnLife
  <1>1. /\ p \in Procs /\ "main" \in Procs /\ Procs = ProcsOf(test) /\ test \in Tests
        /\ UNCHANGED <<test, Procs>> /\ ControlOK /\ MemoryOK /\ Awaited /\ Held /\ Step(p)
        /\ state[p] = "running" /\ ~Failed /\ struck \subseteq struck' /\ state["main"] # "absent"
        /\ u \in Rests(test, p) /\ WellFormed(test, p, s) /\ Head(u) = s
    BY UnseenIs DEF Unseen, Sound
  <1>2. /\ "own" \in RegionsOf(test) /\ "stack" \in RegionsOf(test)
        /\ u \in Rests("test26", "child1")
    BY <1>1, OwnIsAlone, StackIsFreedLast
  <1>3. /\ mem["main"]["own"] # "none" => "own" \in Needs(test, u)
        /\ mem["child1"]["stack"] # "none"
        /\ s.do = "check" => mem["child1"]["own"] = "new"
    BY <1>1 DEF OwnLife
  <1>4. /\ s.do \in {"query", "map", "write", "check", "unmap", "end"}
        /\ s.keeps = {} /\ Changes(s) \subseteq {"own"} /\ Sees(test, p, "main", s)
        /\ s.do \in {"query", "map"} => s.bad = "abort"
    <2>1. /\ Head(u).do \in {"query", "map", "write", "check", "unmap", "end"}
          /\ Head(u).keeps = {} /\ Changes(Head(u)) \subseteq {"own"}
          /\ Sees("test26", "child1", "main", Head(u))
          /\ Head(u).do \in {"query", "map"} => Head(u).bad = "abort"
      BY <1>2, FirstChildOfTest26
    <2> QED
      BY <1>1, <2>1
  <1>5. mem'["child1"]["stack"] # "none"
    BY <1>1, <1>2, <1>3, <1>4, OnContentsStep DEF OnContents, Leaves, Alters
  <1>6. ASSUME GoesWrong(p), s.bad = "abort" PROVE state'[p] = "failed"
    <2>1. EndAs(p, "failed")
      BY <1>6 DEF GoesWrong, Current, Here
    <2> QED
      BY <1>1, <2>1 DEF EndAs, Procs
  <1>7. Proceed(p) => todo'[p] = After(u, 1) /\ state'[p] = "running"
    BY ProceedsTo
  <1>8. CASE s.do = "query"
    <2>1. "own" \notin Needs(test, u) /\ Head(After(u, 1)).do # "check"
      BY <1>1, <1>2, <1>8, FirstChildOfTest26
    <2>2. UNCHANGED mem /\ (Proceed(p) \/ GoesWrong(p))
      BY <1>1, <1>8, ActionIs DEF QueryReplication, ProceedIf, memory
    <2> QED
      BY <1>3, <1>4, <1>5, <1>6, <1>7, <1>8, <2>1, <2>2
  <1>9. CASE s.do = "map"
    <2>1. /\ "own" \notin Needs(test, u) /\ Head(After(u, 1)).do # "check"
          /\ "own" \in Needs(test, After(u, 1))
      BY <1>1, <1>2, <1>9, FirstChildOfTest26
    <2>2. Proceed(p) \/ (UNCHANGED mem /\ GoesWrong(p))
      BY <1>1, <1>9, ActionIs DEF MapMemory
    <2> QED
      BY <1>3, <1>4, <1>5, <1>6, <1>7, <1>9, <2>1, <2>2
  <1>10. CASE s.do = "write"
    <2>1. s.at = {"own"} /\ s.val = "new" /\ "own" \in Needs(test, After(u, 1))
      BY <1>1, <1>2, <1>10, FirstChildOfTest26
    <2>2. PICK a \in Arriving(p, s.at, s.val), b \in Reaching(p, s.at), d \in Damage(p) :
            /\ mem' = Changed(b.who, Over(Filled(d.at, "bad"), Filled(a.at, s.val)))
            /\ Strike({a.fault, b.fault, d.fault}) /\ Proceed(p)
      BY <1>1, <1>10, ActionIs DEF WriteMemory, Current, Here
    <2>3. Writing(p, a, b, d)
      BY <1>10, <2>2 DEF Writing
    <2>4. a.fault # "lost"
      BY <2>2 DEF Strike
    <2>5. /\ \A q \in Procs : \A r \in RegionsOf(test) :
               mem'[q][r] = IF q \in b.who /\ r \in d.at THEN "bad"
                            ELSE IF q \in b.who /\ r \in a.at THEN s.val ELSE mem[q][r]
          /\ d.at \subseteq s.keeps /\ (a.fault = "none" => a.at = s.at)
          /\ a.fault \in {"none", "lost"}
      BY <2>3, WritingIs
    <2>6. p \in b.who
      BY <2>2, ReachIs
    <2>7. mem'[p]["own"] = "new"
      BY <1>1, <1>2, <1>4, <2>1, <2>4, <2>5, <2>6
    <2> QED
      BY <1>5, <1>7, <2>1, <2>2, <2>7
  <1>11. CASE s.do = "check"
    <2>1. /\ s.at = {"own"} /\ s.val = "new" /\ "own" \in Needs(test, After(u, 1))
          /\ Head(After(u, 1)).do # "check"
      BY <1>1, <1>2, <1>11, FirstChildOfTest26
    <2>2. Proceed(p)
      BY <1>1, <1>3, <1>11, <2>1, ActionIs DEF CheckMemory, ProceedIf, Current, Here
    <2> QED
      BY <1>5, <1>7, <2>1, <2>2
  <1>12. CASE s.do = "unmap"
    <2>1. s.at = {"own"} /\ s.bad = "ignore" /\ Head(After(u, 1)).do # "check"
      BY <1>1, <1>2, <1>12, FirstChildOfTest26
    <2>2. PICK d \in Damage(p) : Proceed(p) /\ Becomes(p, s.at, Filled(s.at, "none"), d)
      BY <1>1, <1>12, <2>1, ActionIs DEF UnmapMemory, ProceedIf, Current, Here
    <2>3. d.at = {}
      BY <1>1, <1>4, DamageIs
    <2>4. /\ IsPatch(Filled(s.at, "none")) /\ DOMAIN Filled(s.at, "none") = s.at
          /\ \A r \in s.at : Filled(s.at, "none")[r] = "none"
      BY <1>2, <2>1, FilledIsPatch DEF Contents
    <2>5. "main" \in Sharers(p, s.at)
      BY <1>1, <1>4, SeenIsShared
    <2>6. mem'["main"]["own"] = "none"
      BY <1>1, <1>2, <2>1, <2>2, <2>3, <2>4, <2>5, BecomesRight
    <2> QED
      BY <1>5, <1>7, <2>1, <2>2, <2>6
  <1>13. CASE s.do = "end"
    <2>1. "own" \notin Needs(test, u)
      BY <1>1, <1>2, <1>13, FirstChildOfTest26
    <2>2. UNCHANGED mem /\ state'[p] # "running"
      <3>1. Return(p)
        BY <1>1, <1>13, ActionIs
        DEF CheckNodes, ProtectMemory, LowerLimit, RestoreLimit, Judge, Doing, Current, Here
      <3>2. UNCHANGED mem /\ state' = [state EXCEPT ![p] = IF pass[p] THEN "ok" ELSE "failed"]
        BY <3>1 DEF Return, EndAs, memory
      <3> QED
        BY <1>1, <3>2 DEF Procs
    <2> QED
      BY <1>3, <2>1, <2>2
  <1> QED
    BY <1>4, <1>8, <1>9, <1>10, <1>11, <1>12, <1>13

LEMMA OwnLifeStays ==
  ASSUME NEW p, Unseen(p), OwnLife
  PROVE  OwnLife'
  <1>1. CASE test # "test26"
    BY <1>1, UnseenIs DEF OwnLife
  <1>2. CASE test = "test26"
    BY <1>2, UnseenIs, OwnIsAlone, OwnLifeMain, OwnLifeOwner, OwnLifeStranger
  <1> QED
    BY <1>1, <1>2

-----------------------------------------------------------------------------
(***************************************************************************)
(* Every fault that has struck is overlooked or leaves a mark.             *)
(***************************************************************************)

\* The state of a program that has not yet failed: each fault that has struck is
\* overlooked or has left a mark.
Tracing ==
  /\ Never /\ Sourced /\ Expecting /\ Polling /\ OwnLife
  /\ \A f \in struck : f # "none" /\ Accounted(f)

Watched == Shown \/ Tracing

LEMMA AccountedStays ==
  ASSUME NEW p, Unseen(p), NEW f, Accounted(f)
  PROVE  Accounted(f)'
  <1>1. CASE f \in {"none", "optional"}
    BY <1>1 DEF Accounted
  <1>2. CASE Excused(f)
    BY <1>2 DEF Unseen, Accounted, Excused
  <1>3. CASE Marked(f)
    BY <1>3, MarkStays
  <1> QED
    BY <1>1, <1>2, <1>3 DEF Accounted

LEMMA TracingStep ==
  ASSUME NEW p, Unseen(p), Tracing
  PROVE  Tracing'
  <1>1. Never' /\ Sourced' /\ Expecting' /\ Polling' /\ OwnLife'
    BY NeverStays, SourcedStays, ExpectingStays, PollingStays, OwnLifeStays DEF Tracing
  <1>2. Explained
    BY StepExplained DEF Tracing
  <1>3. ASSUME NEW f \in struck' PROVE f # "none" /\ Accounted(f)'
    <2>1. CASE f \in struck
      BY <2>1, AccountedStays DEF Tracing
    <2>2. CASE f \notin struck
      BY <1>2, <2>2 DEF Explained
    <2> QED
      BY <2>1, <2>2
  <1> QED
    BY <1>1, <1>3 DEF Tracing

LEMMA TracingKilled ==
  ASSUME Sound, Tracing, ~Shown, NEW k, ChildKilled(k), ~Shown'
  PROVE  Tracing'
  <1>1. /\ k \in Procs \ {"main"} /\ state[k] = "running" /\ test # "test3"
        /\ state' = [state EXCEPT ![k] = "killed"] /\ ControlOK /\ ControlOK'
        /\ UNCHANGED <<test, todo, pass, printed, memory, mask, lowered>>
    BY KilledIs DEF Sound
  <1>2. /\ UNCHANGED <<mem, Procs>> /\ state'[k] = "killed"
        /\ \A q \in Procs \ {k} : state'[q] = state[q]
        /\ Procs = ProcsOf(test) /\ test \in Tests /\ "main" \in Procs
    BY <1>1, ScriptsWellFormed DEF memory, Procs, ControlOK
  <1>3. test = "test26"
    BY <1>1, <1>2 DEF Shown, Failed
  <1>4. \/ StackFreed(k) /\ UNCHANGED struck
        \/ struck' = struck \cup {"killed"}
    <2>1. ~Signalled
      BY DEF Signalled, Shown, Failed
    <2> QED
      BY <2>1 DEF ChildKilled, Doomed, Strike
  <1>5. OwnLife' /\ (k = "child1" /\ "killed" \notin struck' => "lost" \in struck)
    <2>1. CASE struck \cap {"killed", "lost"} # {}
      BY <1>4, <2>1 DEF OwnLife
    <2>2. CASE "killed" \in struck'
      BY <2>2 DEF OwnLife
    <2>3. CASE struck \cap {"killed", "lost"} = {} /\ "killed" \notin struck'
      <3>1. StackFreed(k)
        BY <1>4, <2>3
      <3>2. k = "child1" /\ mem["child1"]["stack"] # "none"
        BY <1>1, <1>3, <2>3, <3>1 DEF StackFreed, Tracing, OwnLife, Shown
      <3> QED
        BY <3>1, <3>2 DEF StackFreed
    <2> QED
      BY <2>1, <2>2, <2>3
  <1>6. Never' /\ Sourced' /\ Polling'
    BY <1>1, <1>2, <1>3 DEF Tracing, Never, Sourced, Polling
  <1>7. Expecting'
    BY <1>1, <1>2, <1>3, DeliveredIs DEF Expecting, Children
  <1>8. ASSUME NEW f \in struck' PROVE f # "none" /\ Accounted(f)'
    <2>1. CASE f = "killed"
      BY <1>1, <1>3, <2>1 DEF Accounted, Excused, Overlooking
    <2>2. CASE f \in struck
      <3>1. f # "none" /\ Accounted(f) /\ struck \subseteq struck'
        BY <1>4, <2>2 DEF Tracing
      <3>2. CASE f \in {"none", "optional"} \/ Excused(f)
        BY <1>1, <3>1, <3>2 DEF Accounted, Excused
      <3>3. CASE Marked(f)
        <4>1. \A q \in Procs \ {k} : \A m : Amiss(q, m) => Amiss(q, m)'
          BY <1>1, <1>2 DEF Amiss
        <4>2. CASE f \in {"ignore", "lose"}
          BY <1>1, <1>2, <1>3, <3>1, <3>3, <4>1, <4>2 DEF Marked, Accounted, Astray
        <4>3. CASE f \in {"keep", "keepVM"}
          BY <1>1, <1>2, <1>3, <3>1, <3>3, <4>1, <4>3 DEF Marked, Accounted, Astray
        <4>4. CASE f = "inherit"
          <5>1. CASE "killed" \in struck'
            BY <1>1, <1>3, <3>1, <4>4, <5>1 DEF Accounted, Excused, Overlooking, HiddenBy
          <5>2. CASE "killed" \notin struck'
            <6>1. ~Heard(test, k)
              BY <1>3, <1>4, <5>2 DEF Heard, Accepted, StackFreed
            <6> QED
              BY <1>1, <1>2, <1>3, <3>1, <3>3, <4>1, <4>4, <6>1
              DEF Marked, Accounted, Astray, Children
          <5> QED
            BY <5>1, <5>2
        <4> QED
          BY <1>3, <3>3, <4>2, <4>3, <4>4 DEF Marked, Astray
      <3> QED
        BY <3>1, <3>2, <3>3 DEF Accounted
    <2> QED
      BY <1>4, <2>1, <2>2
  <1> QED
    BY <1>5, <1>6, <1>7, <1>8 DEF Tracing

LEMMA PrintedStays ==
  ASSUME ControlOK, MemoryOK, [Next]_vars
  PROVE  UNCHANGED test /\ (printed => printed')
  <1>1. ASSUME NEW p, Step(p) PROVE UNCHANGED test /\ (printed => printed')
    <2>1. ControlOK' /\ UNCHANGED test
      BY <1>1, TestStays, ControlStep
    <2>2. printed' = printed \/ GoesWrong(p)
      BY <1>1, StepControl DEF Works, Fails, Makes, Refuses, Stops, Sleeps, Started, EndAs
    <2> QED
      BY <2>1, <2>2, WrongIs DEF ControlOK
  <1>2. ASSUME NEW k, ChildKilled(k) PROVE UNCHANGED test /\ (printed => printed')
    BY <1>2, KilledIs
  <1>3. CASE UNCHANGED vars
    BY <1>3 DEF vars, control
  <1> QED
    BY <1>1, <1>2, <1>3 DEF Next, Done

LEMMA ShownStays ==
  ASSUME ControlOK, MemoryOK, Awaited, [Next]_vars, Shown
  PROVE  Shown'
  BY PrintedStays, EndsStayNext, TypedNext, FailedStays DEF Shown

LEMMA WatchedNext ==
  ControlOK /\ MemoryOK /\ Awaited /\ Held /\ StackHeld /\ Untroubled /\ Watched /\ [Next]_vars
    => Watched'
  <1> SUFFICES ASSUME ControlOK, MemoryOK, Awaited, Held, StackHeld, Untroubled, Watched,
                      [Next]_vars, ~Shown'
               PROVE  Tracing'
    BY DEF Watched
  <1>1. ~Shown /\ Tracing
    BY ShownStays DEF Watched
  <1>2. Sound /\ Sound' /\ struck \subseteq struck'
    BY StruckGrows, TypedNext, AwaitedNext, HeldNext, UntroubledNext DEF Sound, Untroubled
  <1>3. ASSUME NEW p, Step(p) PROVE Tracing'
    <2>1. Unseen(p)
      BY <1>1, <1>2, <1>3, TestStays DEF Unseen
    <2> QED
      BY <1>1, <2>1, TracingStep
  <1>4. ASSUME NEW k, ChildKilled(k) PROVE Tracing'
    BY <1>1, <1>2, <1>4, TracingKilled
  <1>5. CASE UNCHANGED vars
    <2>1. Never' /\ Sourced' /\ Expecting' /\ Polling' /\ OwnLife'
      BY <1>1, <1>5 DEF vars, control, memory, Tracing, Never, Sourced, Expecting, Polling, OwnLife,
         Children, Procs, Failed
    <2>2. \A q, m : Amiss(q, m)' <=> Amiss(q, m)
      BY <1>5 DEF vars, control, memory, Amiss
    <2>3. \A q, b : Astray(q, b)' <=> Astray(q, b)
      BY <1>5 DEF vars, control, memory, Astray, Settled, Procs
    <2>4. \A f : Marked(f)' <=> Marked(f)
      BY <1>5, <2>2, <2>3 DEF vars, control, Marked, Children, Procs
    <2>5. \A f : Accounted(f)' <=> Accounted(f)
      BY <1>5, <2>4 DEF vars, control, Accounted, Excused
    <2> QED
      BY <1>1, <1>5, <2>1, <2>5 DEF Tracing, vars, control
  <1> QED
    BY <1>3, <1>4, <1>5 DEF Next, Done

LEMMA WatchedInit == Init => Watched
  <1> SUFFICES ASSUME Init PROVE Tracing
    BY DEF Watched
  <1>1. /\ test \in Tests /\ Procs = ProcsOf(test) /\ "main" \in Procs
        /\ \A p \in Procs : state[p] = IF p = "main" THEN "running" ELSE "absent"
        /\ todo = Script[test] /\ struck = {} /\ mask["main"] = 0
    BY ScriptsWellFormed DEF Init, Procs
  <1>2. \A r \in RegionsOf(test) :
          mem["main"][r] = IF r \in Static THEN "zero" ELSE "none"
    BY <1>1 DEF Init
  <1>3. Never
    BY <1>1 DEF Never
  <1>4. Sourced
    BY <1>2 DEF Sourced, MayHold, Contents
  <1>5. test = "test3" => Polls(todo["main"])
    BY <1>1, DeliveriesAreExpected
  <1>6. Expecting
    <2>1. ASSUME NEW k \in Children, NEW d \in Deliveries(test, k)
          PROVE  mem["main"][d[1]] # d[2]
      <3>1. d[1] \in RegionsOf(test) /\ d[2] \in Contents \ {"none", "zero", "bad"}
        BY <1>1, DeliveredIs DEF Children
      <3> QED
        BY <1>2, <3>1
    <2> QED
      BY <1>5, <2>1 DEF Expecting
  <1>7. Polling
    <2>1. test = "test3" => mem["main"]["flag"] # "new"
      BY <1>2, ThreadIsPolled
    <2> QED
      BY <1>5, <2>1 DEF Polling
  <1>8. OwnLife
    <2>1. test = "test26" => mem["main"]["own"] = "none" /\ state["child1"] # "running"
      BY <1>1, <1>2, OwnIsAlone
    <2> QED
      BY <2>1 DEF OwnLife
  <1> QED
    BY <1>1, <1>3, <1>4, <1>6, <1>7, <1>8 DEF Tracing

\* A program that passes, with whatever has struck, is one that FaultsCaught says
\* overlooks this, or that prints the failure and goes on: the last line of each
\* of the 28 (e.g. test16.c:174, test26.c:148) is true of all other faults, in
\* whatever order its processes have run.
THEOREM NoFaultIsMissed == Spec => []FaultsCaught
  <1>1. ControlOK /\ Awaited /\ Watched => FaultsCaught
    <2> SUFFICES ASSUME ControlOK, Awaited, Watched, state["main"] = "ok",
                        ~(printed /\ test \in PrintsOnly), NEW f \in struck \ {"optional"}
                 PROVE  \/ test \in Overlooking(f)
                        \/ \E g \in struck : test \in Overlooking(g) /\ f \in HiddenBy(g)
      BY DEF FaultsCaught
    <2>1. f # "none" /\ Accounted(f)
      BY PassedIsRight DEF Watched, Shown, Tracing
    <2>2. \A q \in Procs : state[q] # "running"
      BY DEF Awaited, Accepted, Children
    <2>3. ~Marked(f)
      <3>1. "main" \in Procs
        BY ScriptsWellFormed DEF ControlOK, Procs
      <3> QED
        BY <2>2, <3>1 DEF Marked, Amiss, Astray, Children
    <2> QED
      BY <2>1, <2>3 DEF Accounted, Excused
  <1> QED
    BY <1>1, TypedInit, TypedNext, AwaitedInit, AwaitedNext, HeldInit, HeldNext, StackInit,
       StackNext, UntroubledInit, UntroubledNext, WatchedInit, WatchedNext, PTL DEF Spec

=============================================================================
