--------------------------- MODULE ScriptOutlines ---------------------------
(***************************************************************************)
(* What must hold before each step of the scripts for no check to fail, if *)
(* nothing goes wrong but what may be refused.  It is computed backwards   *)
(* from the checks; the assumptions say that every script establishes what *)
(* it checks, and that the processes of a program do not disturb each      *)
(* other.  Like those of ScriptFacts they are closed formulas, which TLC   *)
(* decides by evaluating them.                                             *)
(***************************************************************************)
EXTENDS ScriptFacts

\* The step may be refused and the program accepts that.  test25 accepts it of
\* mlock, but not in its final checks.
Refusable(t, s) ==
  /\ t # "test25"
  /\ \/ s.do \in {"enable", "disable", "map", "call", "exec"} /\ s.bad = "ignore"
     \/ s.do \in {"lower", "cloneVM"}

\* The step s may lead to the end of its else branch: when it is refused, or
\* when a mask is refused that should be.
MaySkip(t, s) == Refusable(t, s) \/ s.do = "invalid"

\* What the step makes of the mask m.
NextMask(s, m) ==
  IF s.do = "enable" THEN 1 ELSE IF s.do \in {"disable", "cloneVM", "exec"} THEN 0 ELSE m

\* The regions whose contents the step changes.
Changes(s) ==
  IF s.do \in {"map", "write", "drop", "unmap"} THEN s.at
  ELSE IF s.do = "move" THEN s.at \cup {s.val} ELSE {}

\* The step gives the region of d the contents of d, if D has held before: it
\* writes them, or copies them, or leaves them alone.
Gives(t, s, D, d) ==
  IF s.do = "exec" THEN FALSE
  ELSE IF d[1] \notin Changes(s) THEN d \in D
  ELSE IF s.do = "write" THEN d[2] = s.val
  ELSE IF s.do = "drop" THEN d[2] = "zero"
  ELSE IF s.do = "unmap" THEN FALSE
  ELSE IF s.do = "map"
    THEN IF s.val \in RegionsOf(t) THEN <<s.val, d[2]>> \in D ELSE d[2] = s.val
  ELSE d[1] \notin s.at /\ \A r \in s.at : <<r, d[2]>> \in D

\* What the child k leaves in the memory that it shares with main.
Promises(t, k) ==
  IF t = "test8" /\ k = "child1" THEN {<<"suffix", "child">>}
  ELSE IF t = "test20" /\ k = "child1" THEN {<<"touched", "new">>}
  ELSE {}

PromisedBy(t, k) == {d[1] : d \in Promises(t, k)}

\* What main gets when the step s waits.
Received(t, s) == IF s.do \in WaitsFor THEN Promises(t, s.val) ELSE {}

\* What the contents d come from, before the step s.
Sources(t, s, d) ==
  IF d[1] \notin Changes(s) THEN {d} \ Received(t, s)
  ELSE IF s.do = "map" /\ s.val \in RegionsOf(t) THEN {<<s.val, d[2]>>}
  ELSE IF s.do = "move" THEN {<<r, d[2]>> : r \in s.at}
  ELSE {}

\* What must hold before the step s of p, where W lists what must hold at each
\* of the steps behind it, and Q at the start of each process.
Before(t, p, s, W, Q) ==
  LET next == IF s.do \in {"end", "invalid"} THEN {} ELSE {W[1]}
      else == IF MaySkip(t, s) THEN {W[1 + s.skip]} ELSE {}
  IN [ masks |-> {m \in Mask :
                    /\ s.do = "query" => Satisfies(m, s.val)
                    /\ \A w \in next : NextMask(s, m) \in w.masks
                    /\ \A w \in else : m \in w.masks},
       holds |-> UNION {Sources(t, s, d) : d \in UNION {w.holds : w \in next}}
                 \cup UNION {w.holds : w \in else}
                 \cup (IF s.do = "check" THEN {<<r, s.val>> : r \in s.at} ELSE {})
                 \cup (IF s.do = "end" THEN Promises(t, p) ELSE {})
                 \cup (IF s.do \in {"fork", "cloneVM"} THEN Q[s.val] ELSE {}) ]

Backwards(t, p, u, Q) ==
  FoldRight(LAMBDA s, W : <<Before(t, p, s, W, Q)>> \o W, u, <<>>)[1]

\* What must hold where p has still to make the steps u: the mask is one of
\* masks, each region in holds has the contents next to it.
Wants(t, p, u) ==
  Backwards(t, p, u,
            IF p # "main" THEN <<>>
            ELSE [k \in ProcsOf(t) \ {"main"} |->
                    Backwards(t, k, Script[t][k], <<>>).holds])

\* Every process establishes what it checks.
ASSUME ChecksAreMet ==
  \A t \in Tests :
    /\ 0 \in Wants(t, "main", Script[t]["main"]).masks
    /\ Wants(t, "main", Script[t]["main"]).holds
         \subseteq {<<r, "zero">> : r \in Static \cap RegionsOf(t)}
    /\ \A k \in ProcsOf(t) : Promises(t, k) \subseteq RegionsOf(t) \X Contents
    /\ \A p \in ProcsOf(t) : \A u \in Rests(t, p) :
         LET s == Head(u) D == Wants(t, p, u) IN
         /\ D.holds \subseteq RegionsOf(t) \X Contents
         /\ s.do = "query" => \A m \in D.masks : Satisfies(m, s.val)
         /\ s.do = "check" => \A r \in s.at : <<r, s.val>> \in D.holds
         /\ s.do \in {"end", "numa"} /\ p # "main" => Promises(t, p) \subseteq D.holds
         /\ s.do \notin {"end", "invalid"} =>
              LET N == Wants(t, p, After(u, 1)) IN
              /\ \A m \in D.masks : NextMask(s, m) \in N.masks
              /\ \A d \in N.holds : Gives(t, s, D.holds, d) \/ d \in Received(t, s)
         /\ MaySkip(t, s) =>
              LET E == Wants(t, p, After(u, 1 + s.skip)) IN
              D.masks \subseteq E.masks /\ E.holds \subseteq D.holds
         /\ s.do \in {"invalid", "lower"} => s.bad = "ignore"
         /\ s.do = "exec" => p # "main"
         /\ p = "main" =>
              /\ s.do # "end" => Pending(After(u, 1)) \subseteq Pending(u)
              /\ MaySkip(t, s) => Pending(After(u, 1 + s.skip)) \subseteq Pending(u)
              /\ s.do \in WaitsFor => s.val \in Pending(u)
         /\ s.do \in MakesProcess =>
              LET C == Wants(t, s.val, Script[t][s.val]) IN
              /\ C.holds \subseteq IF s.do = "thread" THEN {} ELSE D.holds
              /\ IF s.do = "thread" THEN C.masks = Mask ELSE 0 \in C.masks
              /\ \A d \in C.holds : d[1] \notin PromisedBy(t, s.val)

\* The regions of which something must hold.
Reliant(t, p, u) == {d[1] : d \in Wants(t, p, u).holds}

\* What a process does while another one runs does not touch what that one
\* relies on, unless main receives it from a child.
ASSUME NobodyDisturbs ==
  \A t \in Tests : \A k \in ProcsOf(t) \ {"main"} :
    /\ \A u \in Rests(t, k) :
         LET s == Head(u) IN
         /\ Changes(s) \cap PromisedBy(t, k) # {} => Sees(t, k, "main", s)
         /\ \A j \in ProcsOf(t) \ {"main", k} :
              /\ Sees(t, k, j, s) =>
                   \A v \in Rests(t, j) : Changes(s) \cap Reliant(t, j, v) = {}
              /\ Sees(t, k, "main", s) => Changes(s) \cap PromisedBy(t, j) = {}
    /\ \A v \in Rests(t, "main") : k \in Pending(v) \ ToMake(v) =>
         LET m == Head(v) IN
         /\ Changes(m) \cap PromisedBy(t, k) = {}
         /\ \A u \in Rests(t, k) :
              LET s == Head(u) IN
              /\ Sees(t, k, "main", s) => Changes(s) \cap Reliant(t, "main", v) = {}
              /\ Sees(t, "main", k, m) => Changes(m) \cap Reliant(t, k, u) = {}

=============================================================================
