------------------------- MODULE ReplKernel_proofs -------------------------
(***************************************************************************)
(* What the answers of the kernel tell, whatever the set of faults.        *)
(***************************************************************************)
EXTENDS ReplKernel, TLAPS

LEMMA EnableAnswers ==
  ASSUME NEW m \in Mask
  PROVE  \A a \in Enable(m) : \/ a.fault = "none" /\ a.ret = 0 /\ a.mask = 1
                              \/ a.fault = "refuse" /\ a.ret = -1 /\ a.mask = m
                              \/ a.fault = "ignore" /\ a.ret = 0 /\ a.mask = 0 /\ m = 0
  <1>1. ASSUME NEW a \in Enable(m), a.fault = "ignore", m # 0 PROVE FALSE
    <2>1. a = [ret |-> 0, mask |-> m, fault |-> "ignore"] /\ m = 1
      BY <1>1 DEF Enable, Possible, Mask
    <2>2. [a EXCEPT !.fault = "none"] = [ret |-> 0, mask |-> 1, fault |-> "none"]
      BY <2>1
    <2> QED
      BY <1>1, <2>1, <2>2 DEF Enable, Possible
  <1> QED
    BY <1>1 DEF Enable, Possible

LEMMA DisableAnswers ==
  ASSUME NEW m \in Mask
  PROVE  \A a \in Disable(m) : \/ a.fault = "none" /\ a.ret = 0 /\ a.mask = 0
                               \/ a.fault = "stuck" /\ a.ret = -1 /\ a.mask = m
                               \/ a.fault = "keep" /\ a.ret = 0 /\ a.mask = m
  BY DEF Disable, Possible

LEMMA GetAnswers ==
  ASSUME NEW m \in Mask
  PROVE  \A a \in Get(m) : \/ a.fault = "none" /\ a.ret = m
                           \/ a.fault = "get" /\ a.ret = -1
  BY DEF Get, Possible

LEMMA ForkAnswers ==
  ASSUME NEW m \in Mask
  PROVE  \A a \in Fork(m) :
           \/ a.fault = "none" /\ a.ret = 1 /\ a.parent = m /\ a.child = 0
           \/ a.fault = "fork" /\ a.ret = -1 /\ a.parent = m /\ a.child = 0
           \/ a.fault = "inherit" /\ a.ret = 1 /\ a.parent = m /\ a.child = m /\ m = 1
           \/ a.fault = "lose" /\ a.ret = 1 /\ a.parent = 0 /\ a.child = 0
  <1>1. ASSUME NEW a \in Fork(m), a.fault = "inherit", m # 1 PROVE FALSE
    <2>1. a = [ret |-> 1, parent |-> m, child |-> m, fault |-> "inherit"] /\ m = 0
      BY <1>1 DEF Fork, Possible, Mask
    <2>2. [a EXCEPT !.fault = "none"] = [ret |-> 1, parent |-> m, child |-> 0, fault |-> "none"]
      BY <2>1
    <2> QED
      BY <1>1, <2>1, <2>2 DEF Fork, Possible
  <1> QED
    BY <1>1 DEF Fork, Possible

LEMMA CallAnswers ==
  \A f, a : a \in Call(f) => \/ a.fault = "none" /\ a.ok = TRUE
                             \/ a.fault = f /\ a.ok = FALSE
  BY DEF Call, Possible

\* A fault that has struck is noted and never forgotten.
LEMMA Noted ==
  \A S, a, f : f \in Note(S, a) <=> f \in S \/ (f = a.fault /\ f # "none")
  BY DEF Note

LEMMA NoneNoted == \A S, a : Note(S, a) = {} => S = {} /\ a.fault = "none"
  BY DEF Note

=============================================================================
