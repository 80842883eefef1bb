---------------------------- MODULE TestVerdict ----------------------------
(***************************************************************************)
(* What every program of the suite promises: whatever order its threads    *)
(* and processes run in, it exits with status 0 only if none of its checks *)
(* has failed, and nothing of it fails after that verdict.                 *)
(***************************************************************************)
VARIABLES
  failed,   \* has a check of the test, in any thread or process, failed?
  verdict   \* what the exit status of the test says

vars == <<failed, verdict>>

TypeOK == failed \in BOOLEAN /\ verdict \in {"running", "pass", "fail"}

Init == ~failed /\ verdict = "running"

\* A check fails.  After a verdict "fail" the children the test left behind
\* may still fail; after "pass" nothing may.
CheckFails ==
  /\ verdict # "pass"
  /\ failed' = TRUE
  /\ UNCHANGED verdict

\* main returns right at the check that failed.
Abort ==
  /\ verdict = "running"
  /\ failed' = TRUE
  /\ verdict' = "fail"

\* main returns from its end.
Report ==
  /\ verdict = "running"
  /\ verdict' = IF failed THEN "fail" ELSE "pass"
  /\ UNCHANGED failed

Next == CheckFails \/ Abort \/ Report

Spec == Init /\ [][Next]_vars

=============================================================================
