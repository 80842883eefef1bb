---------------------------- MODULE ScriptDemands ----------------------------
(***************************************************************************)
(* What a program would have to find, before each step of its scripts, to  *)
(* pass without anybody noticing: the masks that its queries and the       *)
(* contents that its checks let through.  It is computed backwards from    *)
(* the queries and checks, like ScriptOutlines; what is not in it is a     *)
(* flaw that a later step shows.  The assumptions say where flaws stay,    *)
(* that each fault leaves one unless the program is known to overlook it,  *)
(* and what the three programs do in which a process depends on what       *)
(* another one writes.  They are closed formulas, which TLC decides by     *)
(* evaluating them.                                                        *)
(***************************************************************************)
EXTENDS ScriptOutlines

\* The step s may be gone on from behind its else branch, and nobody notices.
Skippable(s) ==
  \/ s.do \in {"enable", "disable", "invalid", "map", "call", "exec", "lower"} /\ s.bad = "ignore"
  \/ s.do = "cloneVM"

\* What the regions may hold before the step s, where they may hold N behind it
\* and the child it makes may find what Q says; b says whether a file that is
\* not read counts as a flaw of the region or the region it is mapped from.
Earlier(t, s, N, Q, b) ==
  [r \in RegionsOf(t) |->
     CASE s.do \in {"end", "numa", "exec"} -> Contents
       [] s.do = "check" /\ r \in s.at -> {v \in N[r] : Byte(v) = Byte(s.val)}
       [] s.do = "await" /\ r \in s.at -> {v \in N[r] : v = s.val}
       [] s.do = "move" /\ r \in s.at -> N[s.val]
       [] s.do = "map" /\ r = s.val ->
            {v \in N[r] : \A q \in s.at : v \in N[q] \/ (b /\ "zero" \in N[q])}
       [] s.do = "fork" -> N[r] \cap Q[s.val][r]
       [] OTHER -> IF r \in Changes(s) THEN Contents ELSE N[r]]

\* The masks before the step s, where those of M may be there behind it.
EarlierMasks(s, M) ==
  CASE s.do \in {"end", "numa", "exec", "enable", "disable", "invalid", "cloneVM"} -> Mask
    [] s.do = "fork" -> M \cup {1}
    [] s.do = "query" -> {m \in M : Satisfies(m, s.val)}
    [] OTHER -> M

\* Both before the step s, where W lists them for each of the steps behind it.
Demanded(t, s, W, Q, b) ==
  IF s.do = "end" THEN [masks |-> Mask, holds |-> [r \in RegionsOf(t) |-> Contents]]
  ELSE LET H == Earlier(t, s, W[1].holds, Q, b)
           M == EarlierMasks(s, W[1].masks)
       IN IF Skippable(s)
            THEN [masks |-> M \cup W[1 + s.skip].masks,
                  holds |-> [r \in RegionsOf(t) |-> H[r] \cup W[1 + s.skip].holds[r]]]
            ELSE [masks |-> M, holds |-> H]

\* Both for all steps of p; those of all processes of all programs, which TLC
\* computes once.
Lines(t, p, Q, b) ==
  FoldRight(LAMBDA s, W : <<Demanded(t, s, W, Q, b)>> \o W, Script[t][p], <<>>)

Outline ==
  [t \in Tests |-> [b \in BOOLEAN |->
     LET Q == [k \in ProcsOf(t) \ {"main"} |-> Lines(t, k, <<>>, b)] IN
     [p \in ProcsOf(t) |->
        IF p = "main" THEN Lines(t, p, [k \in DOMAIN Q |-> Q[k][1].holds], b) ELSE Q[p]]]]

Line(t, p, u, b) == Outline[t][b][p][Len(Script[t][p]) - Len(u) + 1]

\* Where p has still to make the steps u, it tolerates these masks and contents.
Masks(t, p, u) == Line(t, p, u, TRUE).masks
Tolerates(t, p, u, b) == Line(t, p, u, b).holds

\* The regions that q may change for p in the steps u, before it waits for p.
MayChange(t, q, p, u) ==
  UNION {Changes(u[n]) : n \in {m \in 1 .. Len(u) :
     /\ Sees(t, q, p, u[m])
     /\ \A i \in 1 .. m : ~(u[i].do \in WaitsFor /\ u[i].val = p)}}

\* The first step of the rest u may go wrong, and the program does not look.
Ignores(u) ==
  Head(u).bad = "ignore" /\ Head(u).do \notin {"write", "await", "restore", "unmap", "numa", "end"}

\* A failure of p is noticed.
Heard(t, p) == "failed" \notin Accepted(t, p)

\* The rests of q that p may find q at, while p runs.
Beside(t, q, p) ==
  IF q = "main" THEN {v \in Rests(t, q) : p \in Pending(v) \ ToMake(v)}
  ELSE Rests(t, q)

\* No process changes the region r that p sees while p runs.
Private(t, p, r) ==
  \A q \in ProcsOf(t) \ {p} : \A v \in Beside(t, q, p) : r \notin MayChange(t, q, p, v)

\* What is not tolerated before a step is not tolerated behind it.
ASSUME FlawsStay ==
  \A t \in Tests : \A p \in ProcsOf(t) : \A u \in Rests(t, p) : \A b \in BOOLEAN :
    \A r \in RegionsOf(t) :
      LET s == Head(u)
          T == Tolerates(t, p, u, b)
          N == Tolerates(t, p, After(u, 1), b)
          E == Tolerates(t, p, After(u, 1 + s.skip), b)
      IN /\ T[r] \subseteq Contents
         /\ "bad" \in T[r] => T[r] = Contents
         /\ s.do \in {"end", "numa", "exec"} => T[r] = Contents
         /\ r \in Changes(s) /\ ~(s.do = "move" /\ r \in s.at) => T[r] = Contents
         /\ s.do \notin {"end", "numa", "exec", "map", "move", "fork"} =>
              \A v \in N[r] \ T[r] :
                \/ s.do = "check" /\ r \in s.at /\ Byte(v) # Byte(s.val)
                \/ s.do = "await" /\ r \in s.at /\ v # s.val
         /\ s.do = "map" =>
              \A v \in N[r] \ T[r] :
                /\ r = s.val /\ ProcsOf(t) = {"main"}
                /\ \E q \in s.at : v \notin N[q] /\ (b => "zero" \notin N[q])
         /\ s.do = "move" =>
              /\ ProcsOf(t) = {"main"} /\ s.val \notin s.at
              /\ r \in s.at => N[s.val] \subseteq T[r] /\ s.at = {r}
              /\ r \notin s.at => N[r] \subseteq T[r]
         /\ s.do = "fork" =>
              LET C == Tolerates(t, s.val, Script[t][s.val], b) IN
              /\ N[r] \cap C[r] \subseteq T[r]
              /\ C[r] # Contents => Private(t, s.val, r)
         /\ Ignores(u) \/ s.do = "cloneVM" => E[r] \subseteq T[r]

\* What p does not tolerate, no other process puts right while p runs: what q
\* may change for p becomes no more, and what q writes without p seeing it p
\* would not take for right if it saw it.
ASSUME FlawsAreLeftAlone ==
  \A t \in Tests : \A q \in ProcsOf(t) : \A p \in ProcsOf(t) \ {q} : \A u \in Beside(t, q, p) :
    LET s == Head(u) M == MayChange(t, q, p, u) IN
    /\ Sees(t, q, p, s) => Changes(s) \subseteq M
    /\ s.do # "end" /\ p \notin AwaitedBy(s) => MayChange(t, q, p, After(u, 1)) \subseteq M
    /\ (Ignores(u) /\ p \notin AwaitedBy(s)) \/ s.do = "cloneVM" =>
         MayChange(t, q, p, After(u, 1 + s.skip)) \subseteq M
    /\ s.do = "write" /\ t # "test26" /\ ~Sees(t, q, p, s) =>
         \A v \in Beside(t, p, q) : \A b \in BOOLEAN : \A r \in s.at :
           LET T == Tolerates(t, p, v, b)[r] IN T = Contents \/ s.val \notin T

\* What main counts on from the child k: what k promises, and that it starts.
Deliveries(t, k) ==
  IF t = "test3" /\ k = "child1" THEN {<<"flag", "new">>} ELSE Promises(t, k)

\* The rest u has still to wait for a write of another thread.
Polls(u) == \E n \in 1 .. Len(u) : u[n].do = "await"
Writes(u) == \E n \in 1 .. Len(u) : u[n].do = "write"

\* main stops the thread of test3.
StopsThread(t, p, s) == t = "test3" /\ p = "main" /\ s.do = "write"

\* What a region of a program without children may hold where main has still to
\* make the steps u: what has been written.
MayHold(t, u) ==
  IF ProcsOf(t) = {"main"}
    THEN {"none", "zero", "bad"}
         \cup {Script[t]["main"][n].val : n \in {m \in 1 .. Len(Script[t]["main"]) - Len(u) :
                                                   Script[t]["main"][m].do \in {"write", "map"}}}
    ELSE Contents

\* A program without children has in its regions what it has written or mapped.
ASSUME ContentsAreWritten ==
  \A t \in Tests : \A u \in Rests(t, "main") :
    LET s == Head(u) IN
    s.do # "end" /\ ProcsOf(t) = {"main"} =>
      /\ MayHold(t, u) \subseteq MayHold(t, After(u, 1))
      /\ ~Ending(u) => MayHold(t, After(u, 1)) \subseteq MayHold(t, WrongRest(u))
      /\ s.do \in {"write", "map"} => s.val \in MayHold(t, After(u, 1))
      /\ s.do \notin {"fork", "thread", "cloneVM", "exec"}

\* Damage to a page, to the copy of a page at a fork, or a page that keeps what
\* it held when it is given back, leaves a region with what is not tolerated.
ASSUME FaultsLeaveFlaws ==
  \A t \in Tests : \A p \in ProcsOf(t) : \A u \in Rests(t, p) :
    LET s == Head(u)
        N(b) == Tolerates(t, p, After(u, 1), b)
    IN
    \* corrupt: what s keeps is damaged
    /\ \A r \in s.keeps :
         /\ t # "test26" /\ Private(t, p, r)
         /\ s.do # "end" => "bad" \notin N(FALSE)[r]
         /\ Ignores(u) => "bad" \notin Tolerates(t, p, After(u, 1 + s.skip), FALSE)[r]
    \* badCopy: the child finds what its parent has not written
    /\ s.do = "fork" => \A r \in s.at : "bad" \notin Tolerates(t, s.val, Script[t][s.val], TRUE)[r]
                                         /\ t # "test26"
    \* stale: what is dropped is still there
    /\ s.do = "drop" =>
         /\ ProcsOf(t) = {"main"} /\ s.bad # "ignore"
         /\ \A r \in s.at : N(TRUE)[r] \cap MayHold(t, u) \subseteq {"zero"}

\* A write that is lost leaves the region with what its writer does not tolerate,
\* or main without what it expects of the child.
ASSUME LossShows ==
  \A t \in Tests : \A p \in ProcsOf(t) : \A u \in Rests(t, p) : Head(u).do = "write" =>
    \/ t \in Overlooking("lost") \/ StopsThread(t, p, Head(u))
    \/ \A r \in Head(u).at :
         \/ /\ Tolerates(t, p, After(u, 1), TRUE)[r] \cap MayHold(t, u) \subseteq {Head(u).val}
            /\ Private(t, p, r)
         \/ p # "main" /\ <<r, Head(u).val>> \in Deliveries(t, p)

\* A write that only its writer sees reaches nobody else anyway, or main misses
\* what it expects of the child.
ASSUME SplitShows ==
  \A t \in Tests : \A p \in ProcsOf(t) : \A u \in Rests(t, p) : Head(u).do = "write" =>
    \/ t \in Overlooking("split") \/ StopsThread(t, p, Head(u))
    \/ p = "main" /\ \A k \in ProcsOf(t) \ {p} : Sees(t, p, k, Head(u)) => k \in ToMake(u)
    \/ /\ p # "main" /\ Head(u).at # {}
       /\ \A r \in Head(u).at : <<r, Head(u).val>> \in Deliveries(t, p)
    \/ p # "main" /\ \A k \in ProcsOf(t) \ {p} : ~Sees(t, p, k, Head(u))

\* A write of a child that should be the child's own leaves another process with
\* what it does not tolerate.
ASSUME LeakShows ==
  \A t \in Tests : t \in Overlooking("leak") \/ t = "test26" \/
    \A p \in ProcsOf(t) \ {"main"} : \A u \in Rests(t, p) : Head(u).do = "write" =>
      \A q \in ProcsOf(t) \ {p} :
        \/ Sees(t, p, q, Head(u))
        \/ /\ q = "main"
           /\ \E r \in Head(u).at :
                /\ Private(t, q, r)
                /\ \A v \in Beside(t, q, p) : Head(u).val \notin Tolerates(t, q, v, TRUE)[r]

\* main does not write what its children should not see while they run.
ASSUME LeakDownShows ==
  \A t \in Tests : t \in Overlooking("leakDown") \/
    \A u \in Rests(t, "main") : Head(u).do = "write" =>
      \A k \in ProcsOf(t) \ {"main"} :
        Sees(t, "main", k, Head(u)) \/ u \notin Beside(t, "main", k)

\* A step that goes wrong ends the program, is printed by those that print, or
\* leaves what would have been different had it worked; only the first child of
\* test26 may fail, or the second be killed, without main noticing.
ASSUME FailuresShow ==
  \A t \in Tests : \A p \in ProcsOf(t) : \A u \in Rests(t, p) :
    LET s == Head(u) IN
    /\ s.bad = "print" => t \in PrintsOnly
    /\ p # "main" => s.bad \in {"abort", "ignore"}
    /\ s.do \in {"query", "check", "drop", "shut", "open", "move", "fork", "cloneVM", "thread"} =>
         s.bad # "ignore"
    /\ s.do = "query" /\ s.val = "nonzero" => t \in Overlooking("get")
    /\ s.do = "invalid" => t \in Overlooking("accept")
    /\ s.do = "map" /\ s.val # "zero" => t \in Overlooking("blank")
    /\ p # "main" /\ ~Heard(t, p) =>
         /\ t = "test26"
         /\ s.do \in {"query", "map", "write", "check", "unmap", "end"}
         /\ s.do = "unmap" => s.bad = "ignore"

\* A mask that is not tolerated before a step is not tolerated behind it, and
\* each fault of a mask leaves one that is not, or the program overlooks it.
ASSUME MasksStay ==
  \A t \in Tests : \A p \in ProcsOf(t) : \A u \in Rests(t, p) :
    LET s == Head(u)
        M == Masks(t, p, u)
        N == Masks(t, p, After(u, 1))
    IN /\ s.do \in {"end", "numa", "exec", "enable", "disable", "invalid", "cloneVM"} => M = Mask
       /\ s.do = "fork" => 1 \in M
       /\ s.do = "query" => \A m \in N \ M : ~Satisfies(m, s.val)
       /\ s.do \notin {"end", "numa", "exec", "enable", "disable", "invalid", "cloneVM", "query"} =>
            N \subseteq M
       /\ Ignores(u) => Masks(t, p, After(u, 1 + s.skip)) \subseteq M
       \* ignore
       /\ s.do = "enable" =>
            \/ t \in Overlooking("ignore")
            \/ Heard(t, p) /\ (p = "main" \/ t # "test26") /\ 0 \notin N
       \* keep
       /\ s.do = "disable" => t \in Overlooking("keep") \/ (p = "main" /\ 1 \notin N)
       \* inherit, lose
       /\ s.do = "fork" =>
            /\ t \in Overlooking("inherit") \cup {"test21"}
               \/ (Heard(t, s.val) /\ 1 \notin Masks(t, s.val, Script[t][s.val]))
            /\ t \in Overlooking("lose") \cup {"test21"} \/ 0 \notin N
       \* keepVM
       /\ s.do = "cloneVM" => 1 \notin N
       \* execKeeps
       /\ s.do = "exec" =>
            t \in Overlooking("execKeeps")
            \/ (Heard(t, p) /\ p # "main" /\ t # "test26" /\ 1 \notin N)
       \* test21
       /\ t = "test21" /\ p = "main" => s.do \in {"fork", "wait", "end"}

\* Where the thread of test3 polls the flag until main resets it.
ThreadWaits == <<Script["test3"]["child1"][2], Script["test3"]["child1"][3]>>

\* main of test3 waits until the thread has set the flag, the thread until main
\* has reset it; neither writes to it otherwise.
ASSUME ThreadIsPolled ==
  /\ ProcsOf("test3") = {"main", "child1"} /\ "flag" \in RegionsOf("test3")
  /\ Heard("test3", "child1") /\ Heard("test3", "main")
  /\ "new" \notin Tolerates("test3", "child1", ThreadWaits, TRUE)["flag"]
  /\ \A u \in Rests("test3", "main") :
       LET s == Head(u) v == After(u, 1) IN
       /\ s.keeps = {} /\ s.do \notin {"exec", "fork", "cloneVM"}
       /\ s.do = "write" =>
            /\ s.at = {"flag"} /\ s.val = "zero" /\ ~Polls(u) /\ Writes(u) /\ ~Writes(v)
            /\ "flag" \notin MayChange("test3", "main", "child1", v)
       /\ s.do = "await" => s.at = {"flag"} /\ s.val = "new"
       /\ s.do # "write" => Changes(s) = {}
       /\ s.do # "end" /\ Writes(v) => Writes(u)
       /\ Ignores(u) /\ Writes(After(u, 1 + s.skip)) => Writes(u)
  /\ \A u \in Rests("test3", "child1") :
       LET s == Head(u) IN
       /\ s.keeps = {} /\ s.do \in {"write", "await", "end"}
       /\ s.do = "write" => s.at = {"flag"}
       /\ "flag" \notin MayChange("test3", "child1", "main", u) => u = ThreadWaits \/ s.do = "end"
       /\ "flag" \in MayChange("test3", "child1", "main", u) =>
            s.do = "write" /\ After(u, 1) = ThreadWaits
       /\ u = ThreadWaits => s.do = "await" /\ s.at = {"flag"} /\ s.val = "zero"

\* What main counts on from a child nobody else writes, the child writes once,
\* and main does not pass without it.
ASSUME DeliveriesAreExpected ==
  /\ Polls(Script["test3"]["main"])
  /\ \A u \in Rests("test3", "main") : Polls(u) =>
       Head(u).do = "await" \/ (Ending(u) /\ Polls(After(u, 1)))
  /\ \A t \in Tests : \A k \in ProcsOf(t) : \A d \in Deliveries(t, k) :
       /\ d[1] \in RegionsOf(t) /\ d[2] \in Contents \ {"none", "zero", "bad"}
       /\ t # "test26" /\ k # "main" /\ ProcsOf(t) # {"main"}
       /\ \A u \in Rests(t, k) :
            LET s == Head(u) M == MayChange(t, k, "main", u) IN
            /\ d[1] \in Changes(s) =>
                 /\ s.do = "write" /\ d[1] \in M
                 /\ d[1] \notin MayChange(t, k, "main", After(u, 1))
            /\ s.do \notin {"exec", "move", "map"}
       /\ \A v \in Rests(t, "main") :
            LET s == Head(v) IN
            /\ d[1] \in Changes(s) =>
                 \/ s.do = "map" /\ s.val \notin RegionsOf(t) /\ s.val # d[2]
                 \/ s.do = "write" /\ s.val # d[2]
                 \/ s.do = "unmap"
            /\ s.do # "exec"
       /\ \A j \in ProcsOf(t) \ {"main", k} : \A u \in Rests(t, j) :
            d[1] \notin Changes(Head(u)) /\ d[1] \notin MayChange(t, j, "main", u)
       /\ \A v \in Beside(t, "main", k) :
            Tolerates(t, "main", v, TRUE)[d[1]] \subseteq {d[2]} \/ (t = "test3" /\ ~Polls(v))

\* The first child of test26 shares main's memory and works on a mapping of its
\* own, which main and the second child, a copy, leave alone.
ASSUME OwnIsAlone ==
  /\ ProcsOf("test26") = {"main", "child1", "child2"}
  /\ "own" \in RegionsOf("test26") \ Static
  /\ Head(Script["test26"]["child1"]).do # "check"

\* The first child maps its own region before it checks it, and unmaps it.
ASSUME FirstChildOfTest26 ==
  \A u \in Rests("test26", "child1") :
    /\ Head(u).do \in {"query", "map", "write", "check", "unmap", "end"}
    /\ Head(u).keeps = {} /\ Changes(Head(u)) \subseteq {"own"}
    /\ Sees("test26", "child1", "main", Head(u))
    /\ Head(u).do \in {"query", "map"} => Head(u).bad = "abort"
    /\ Head(u).do = "query" => "own" \notin Needs("test26", u) /\ Head(After(u, 1)).do # "check"
    /\ Head(u).do = "map" =>
         /\ Head(u).at = {"own"} /\ Head(u).val = "zero" /\ Head(After(u, 1)).do # "check"
         /\ "own" \notin Needs("test26", u) /\ "own" \in Needs("test26", After(u, 1))
    /\ Head(u).do = "write" =>
         Head(u).at = {"own"} /\ Head(u).val = "new" /\ "own" \in Needs("test26", After(u, 1))
    /\ Head(u).do = "check" =>
         /\ Head(u).at = {"own"} /\ Head(u).val = "new" /\ "own" \in Needs("test26", After(u, 1))
         /\ Head(After(u, 1)).do # "check"
    /\ Head(u).do = "unmap" =>
         Head(u).at = {"own"} /\ Head(u).bad = "ignore" /\ Head(After(u, 1)).do # "check"
    /\ Head(u).do = "end" => "own" \notin Needs("test26", u)

\* What the second child does, the others do not see.
ASSUME SecondChildOfTest26 ==
  \A u \in Rests("test26", "child2") :
    /\ Head(u).keeps = {} /\ Head(u).do # "exec"
    /\ ~Sees("test26", "child2", "main", Head(u)) /\ ~Sees("test26", "child2", "child1", Head(u))
    /\ Head(u).do = "write" => "own" \in Head(u).at

\* main does not write, and waits for the first child before it makes the second.
ASSUME MainOfTest26 ==
  \A u \in Rests("test26", "main") :
    /\ Head(u).keeps = {} /\ Head(u).do \notin {"exec", "write"} /\ "own" \notin Changes(Head(u))
    /\ "child1" \in Pending(u) \ ToMake(u) => "child2" \in ToMake(u) /\ Changes(Head(u)) = {}

=============================================================================
