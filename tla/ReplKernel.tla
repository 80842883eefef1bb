---------------------------- MODULE ReplKernel ----------------------------
(***************************************************************************)
(* The kernel as the tests use it: prctl(PR_SET_PGTABLE_REPL),             *)
(* prctl(PR_GET_PGTABLE_REPL) and fork().  Nothing of the kernel is in     *)
(* src/; an operator below is the set of answers a call may give.  A mask  *)
(* is 0 (disabled) or 1, which stands for every non-zero node mask.        *)
(*                                                                         *)
(* A call either keeps its promise or breaks it in one of the ways of      *)
(* Faults.  The tests exist to tell the two apart, so a model of a test    *)
(* keeps the set of the faults that have struck.                           *)
(***************************************************************************)
EXTENDS Integers

CONSTANT Faults    \* the faults this environment may show; {} if it is correct

Mask == {0, 1}

\* The answers of S that this environment may give.  One that is the right answer
\* but for its name breaks no promise: a child cannot inherit a mask of 0.
Possible(S) ==
  LET right == {a \in S : a.fault = "none"}
  IN  right \cup {a \in S : a.fault \in Faults /\ [a EXCEPT !.fault = "none"] \notin right}

\* The faults that have struck once the answer a has been given.
Note(struck, a) == struck \cup ({a.fault} \ {"none"})

\* PR_SET_PGTABLE_REPL, 1: succeeds, is refused, or is accepted and ignored.
Enable(mask) == Possible(
  { [ret |-> 0,  mask |-> 1,    fault |-> "none"],
    [ret |-> -1, mask |-> mask, fault |-> "refuse"],
    [ret |-> 0,  mask |-> mask, fault |-> "ignore"] })

\* PR_SET_PGTABLE_REPL, 0: succeeds, is refused, or is accepted and ignored.
Disable(mask) == Possible(
  { [ret |-> 0,  mask |-> 0,    fault |-> "none"],
    [ret |-> -1, mask |-> mask, fault |-> "stuck"],
    [ret |-> 0,  mask |-> mask, fault |-> "keep"] })

\* PR_GET_PGTABLE_REPL: the mask of the caller, or an error.
Get(mask) == Possible(
  { [ret |-> mask, fault |-> "none"],
    [ret |-> -1,   fault |-> "get"] })

\* fork: the child starts without replication and the parent keeps its own;
\* or no child is made, the child inherits the mask, or the parent loses it.
Fork(mask) == Possible(
  { [ret |-> 1,  parent |-> mask, child |-> 0,    fault |-> "none"],
    [ret |-> -1, parent |-> mask, child |-> 0,    fault |-> "fork"],
    [ret |-> 1,  parent |-> mask, child |-> mask, fault |-> "inherit"],
    [ret |-> 1,  parent |-> 0,    child |-> 0,    fault |-> "lose"] })

\* A library call that works or fails with the given fault: pthread_create,
\* malloc, pinning a thread, being on the node one is pinned to.
Call(fault) == Possible(
  { [ok |-> TRUE, fault |-> "none"], [ok |-> FALSE, fault |-> fault] })

=============================================================================
