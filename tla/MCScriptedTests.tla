-------------------------- MODULE MCScriptedTests --------------------------
(***************************************************************************)
(* The environment in which TLC checks ScriptedTests.                      *)
(***************************************************************************)
EXTENDS ScriptDemands

AllFaults == {"refuse", "ignore", "stuck", "keep", "get", "accept",
              "fork", "inherit", "lose", "badCopy", "keepVM", "execKeeps", "killed",
              "nomem", "unmap", "call", "blank", "lost", "split", "leak", "leakDown",
              "stale", "corrupt", "optional"}
=============================================================================
