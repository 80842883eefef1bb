---------------------------- MODULE ScriptFacts ----------------------------
(***************************************************************************)
(* What can be read off the scripts without running them: where each step  *)
(* may lead, which limits are to be set back, which processes are still to *)
(* be waited for.  The assumptions of this module are closed formulas over *)
(* the scripts, in which no CONSTANT and no VARIABLE occurs: TLC decides   *)
(* each by evaluating it.  The proofs about the machine rest on them, not  *)
(* on the 28 scripts.                                                      *)
(***************************************************************************)
EXTENDS ScriptedTests

\* What p may still have to do in the program t.
Rests(t, p) ==
  {SubSeq(Script[t][p], n, Len(Script[t][p])) : n \in 1 .. Len(Script[t][p])}

\* The first step of the rest u ends the process when it goes wrong.
Ending(u) == Head(u).bad \in {"abort", "die", "kill"}

\* Where the rest u goes on otherwise: behind the else branch, or at the label.
WrongRest(u) ==
  IF Head(u).bad \in {"ignore", "print", "note"}
    THEN After(u, 1 + Head(u).skip)
    ELSE After(u, ToLabel(u, Head(u).bad))

MakesProcess == {"fork", "thread", "cloneVM"}
WaitsFor == {"wait", "waitExit"}
Limits == {"data", "stack", "processes", "cpu"}

\* The step is one that the process p of t can make.
WellFormed(t, p, s) ==
  /\ s.at \subseteq RegionsOf(t) /\ s.keeps \subseteq RegionsOf(t)
  /\ s.do = "write" => s.val \in Contents \ {"none"}
  /\ s.do = "map" => s.val \in RegionsOf(t) \cup (Contents \ {"none"})
  /\ s.do = "move" => s.at # {} /\ s.val \in RegionsOf(t)
  /\ s.do \in MakesProcess \cup WaitsFor =>
       p = "main" /\ s.val \in ProcsOf(t) \ {"main"}
  /\ s.do = "lower" => s.val \in Limits
  /\ s.do \in {"lower", "restore"} => p = "main"

\* No step leads out of its script: the last one ends the process, labels and
\* else branches lie inside.
ASSUME ScriptsWellFormed ==
  \A t \in Tests :
    /\ "main" \in ProcsOf(t) /\ ProcsOf(t) \subseteq AllProcs
    /\ OneMemory(t) \subseteq ProcsOf(t)
    /\ Script[t] = [p \in ProcsOf(t) |-> Script[t][p]]
    /\ \A p \in ProcsOf(t) :
         /\ Script[t][p] \in Rests(t, p)
         /\ \A u \in Rests(t, p) :
              /\ u # <<>> /\ WellFormed(t, p, Head(u))
              /\ Head(u).do # "end" =>
                   /\ After(u, 1) \in Rests(t, p)
                   /\ ~Ending(u) => WrongRest(u) \in Rests(t, p)
              /\ Head(u).do = "cloneVM" => After(u, 1 + Head(u).skip) \in Rests(t, p)

(***************************************************************************)
(* Limits                                                                  *)
(***************************************************************************)

\* The limits that are lowered where the rest u begins: the next step about
\* them sets them back.
Owed(u) ==
  {l \in Limits :
     \E n \in 1 .. Len(u) :
       /\ u[n].do = "restore" /\ u[n].val = l
       /\ \A m \in 1 .. n - 1 : ~(u[m].do \in {"lower", "restore"} /\ u[m].val = l)}

\* One limit is lowered at a time, every way out sets it back.
ASSUME LimitsAreOwed ==
  \A t \in Tests :
    /\ Owed(Script[t]["main"]) = {}
    /\ \A u \in Rests(t, "main") :
         LET s == Head(u) IN
         /\ Cardinality(Owed(u)) <= 1
         /\ s.do \in {"numa", "end"} => Owed(u) = {}
         /\ s.do # "end" =>
              /\ Owed(After(u, 1)) = CASE s.do = "lower" -> Owed(u) \cup {s.val}
                                       [] s.do = "restore" -> Owed(u) \ {s.val}
                                       [] OTHER -> Owed(u)
              /\ s.bad \in {"abort", "kill"} => Owed(u) = {}
              /\ ~Ending(u) /\ s.do # "restore" => Owed(WrongRest(u)) = Owed(u)
         /\ s.do = "cloneVM" => Owed(After(u, 1 + s.skip)) = Owed(u)

(***************************************************************************)
(* Processes                                                               *)
(***************************************************************************)

\* The processes that u has still to make, those it has to wait for, and both.
ToMake(u) == {u[n].val : n \in {m \in 1 .. Len(u) : u[m].do \in MakesProcess}}
ToAwait(u) == {u[n].val : n \in {m \in 1 .. Len(u) : u[m].do \in WaitsFor}}
Pending(u) == ToMake(u) \cup ToAwait(u)

\* The ends of a child that main accepts, if it has made it at all.
Accepted(t, k) ==
  {"absent", "ok"}
  \cup (IF t = "test26" /\ k = "child1" THEN {"failed", "killed"} ELSE {})
  \cup (IF t = "test26" /\ k = "child2" THEN {"killed"} ELSE {})

\* The thread of test3 cannot fail, which is why nobody looks at its result.
Blameless(t, p) == t = "test3" /\ p = "child1"

\* The step s waits, and for k.
AwaitedBy(s) == IF s.do \in WaitsFor THEN {s.val} ELSE {}

\* Where main goes on without a failure it has made, or refrained from making,
\* and waited for every process that it leaves behind.
ASSUME ProcessesAreAwaited ==
  \A t \in Tests :
    /\ ToMake(Script[t]["main"]) = ProcsOf(t) \ {"main"}
    /\ \A u \in Rests(t, "main") :
         LET s == Head(u) IN
         /\ s.do = "end" => Pending(u) = {}
         /\ s.do = "numa" => u = Script[t]["main"]
         /\ s.do # "end" =>
              /\ After(u, 1) # Script[t]["main"]
              /\ ~Ending(u) => /\ WrongRest(u) # Script[t]["main"]
                               /\ ToMake(WrongRest(u)) \subseteq ToMake(u)
              /\ Pending(u) \ Pending(After(u, 1)) \subseteq AwaitedBy(s)
              /\ s.do \notin MakesProcess => ToMake(After(u, 1)) = ToMake(u)
              /\ s.bad \in {"ignore", "print"} =>
                   Pending(u) \ Pending(WrongRest(u)) \subseteq AwaitedBy(s)
         /\ s.do \in MakesProcess =>
              /\ s.val \in ToMake(u) /\ s.val \in Pending(After(u, 1))
              /\ ToMake(After(u, 1)) = ToMake(u) \ {s.val}
         /\ s.do = "cloneVM" =>
              LET v == After(u, 1 + s.skip) IN
              /\ v # Script[t]["main"] /\ ToMake(v) = ToMake(u) \ {s.val}
              /\ Pending(u) \ Pending(v) = {s.val}
         /\ s.do = "waitExit" => "killed" \in Accepted(t, s.val)
         /\ s.do \in WaitsFor /\ s.bad \in {"ignore", "print"} =>
              {"failed", "killed"} \subseteq Accepted(t, s.val) \/ Blameless(t, s.val)
    /\ \A p \in ProcsOf(t) : Blameless(t, p) =>
         \A u \in Rests(t, p) : Head(u).bad = "ignore" \/ Head(u).do = "end"

(***************************************************************************)
(* Memory                                                                  *)
(***************************************************************************)

\* The regions that the step s of the program t accesses, or maps anew from;
\* those it maps; those it takes away.
Touches(t, s) ==
  CASE s.do \in Accesses -> s.at
    [] s.do = "map" -> {s.val} \cap RegionsOf(t)
    [] OTHER -> {}
Maps(s) ==
  CASE s.do = "map" -> s.at [] s.do = "move" -> {s.val} \ s.at [] OTHER -> {}
Removes(t, s) ==
  CASE s.do \in {"unmap", "move"} -> s.at [] s.do = "exec" -> RegionsOf(t) [] OTHER -> {}

\* Whoever reaches the n-th step of u has not failed at the m-th.
Worked(u, m, n) ==
  LET v == After(u, m - 1) IN Ending(v) \/ Len(u) - Len(WrongRest(v)) >= n

\* The regions that must be mapped where the rest u begins: it may touch them
\* before it has mapped them.
Needs(t, u) ==
  {r \in RegionsOf(t) :
     \E n \in 1 .. Len(u) :
       /\ r \in Touches(t, u[n])
       /\ \A m \in 1 .. n - 1 : r \in Maps(u[m]) => ~Worked(u, m, n)}

\* The variables that no process of t takes away.
Lasting(t) ==
  {r \in Static \cap RegionsOf(t) :
     \A p \in ProcsOf(t) : \A u \in Rests(t, p) : r \notin Removes(t, Head(u))}

\* q may see what the step s of p does to memory.
Sees(t, p, q, s) ==
  \/ s.at # {} /\ s.at \subseteq SharedRegions
  \/ {p, q} \subseteq OneMemory(t)

\* main ends at the first failure that it notices.
Strict(t) ==
  \A u \in Rests(t, "main") : Ending(u) \/ Head(u).bad \in {"ignore", "print"}

\* Where a process goes on, what it needs is mapped there; what it takes away,
\* no other process needs, or main has waited for the other before.
ASSUME MemoryIsHeld ==
  \A t \in Tests :
    /\ Needs(t, Script[t]["main"]) \subseteq Static
    /\ \A p \in ProcsOf(t) : \A u \in Rests(t, p) :
         LET s == Head(u) IN
         /\ Touches(t, s) \subseteq Needs(t, u)
         /\ s.do # "end" =>
              /\ Needs(t, After(u, 1)) \subseteq (Needs(t, u) \ Removes(t, s)) \cup Maps(s)
              /\ ~Ending(u) => Needs(t, WrongRest(u)) \subseteq Needs(t, u)
         /\ s.do = "cloneVM" => Needs(t, After(u, 1 + s.skip)) \subseteq Needs(t, u)
         /\ s.do \in MakesProcess =>
              Needs(t, Script[t][s.val])
                \subseteq IF s.do = "thread" THEN Lasting(t) ELSE Needs(t, u)
         /\ s.do \in {"unmap", "move"} =>
              \A q \in ProcsOf(t) \ {p} : Sees(t, p, q, s) =>
                \/ \A v \in Rests(t, q) : s.at \cap Needs(t, v) = {}
                \/ p = "main" /\ q \notin Pending(u) /\ Strict(t)

\* The regions that must not be protected where the rest u begins.
Opens(u) ==
  {r \in UNION {u[n].at : n \in 1 .. Len(u)} :
     \E n \in 1 .. Len(u) :
       /\ r \in u[n].at /\ u[n].do \in {"write", "check"}
       /\ \A m \in 1 .. n - 1 : ~(u[m].do = "open" /\ r \in u[m].at)}

\* What is protected is not accessed before it is open again.
ASSUME ProtectionIsLifted ==
  \A t \in Tests : \A p \in ProcsOf(t) : \A u \in Rests(t, p) :
    LET s == Head(u) IN
    /\ s.do \in {"write", "check"} => s.at \subseteq Opens(u)
    /\ s.do # "end" =>
         /\ Opens(After(u, 1)) \subseteq CASE s.do = "shut" -> Opens(u) \ s.at
                                           [] s.do = "open" -> Opens(u) \cup s.at
                                           [] OTHER -> Opens(u)
         /\ ~Ending(u) => Opens(WrongRest(u)) \subseteq Opens(u)
    /\ s.do = "cloneVM" => Opens(After(u, 1 + s.skip)) \subseteq Opens(u)
    /\ s.do = "shut" => ProcsOf(t) = {"main"}

\* main of test26 reads its mask, and waits for the child that runs on the
\* stack, before it frees this.
Reads(u) == Head(u).do = "query" /\ Head(u).val = "zero"
Joins(u) == Head(u).do = "wait" /\ Head(u).val = "child1"

ASSUME StackIsFreedLast ==
  /\ {"child1", "child2"} \subseteq ProcsOf("test26") /\ "stack" \in RegionsOf("test26")
  /\ \A u \in Rests("test26", "main") :
       Head(u).do \in MakesProcess /\ Head(u).val = "child1" =>
         /\ Head(u).do = "cloneVM" /\ "stack" \in Needs("test26", u)
         /\ Reads(After(u, 1)) /\ Joins(After(After(u, 1), 1))
  /\ \A k \in {"child1", "child2"} : \A u \in Rests("test26", k) :
       Head(u).do # "exec" /\ "stack" \notin Head(u).at

=============================================================================
