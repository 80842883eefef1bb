---------------------------- MODULE MCThreadFork ----------------------------
(***************************************************************************)
(* Environments in which TLC checks ThreadFork.                            *)
(***************************************************************************)
EXTENDS ThreadFork

AllFaults == {"nodes", "refuse", "ignore", "get", "create", "pin", "stray",
              "fork", "inherit", "lose", "killed"}
StrayFault == {"stray"}
=============================================================================
