---------------------------- MODULE MCForkStress ----------------------------
(***************************************************************************)
(* Environments in which TLC checks ForkStress.                            *)
(***************************************************************************)
EXTENDS ForkStress

KernelFaults == {"refuse", "ignore", "get", "fork", "inherit", "lose", "stuck", "keep",
                 "killed"}
LibraryFaults == {"nodes", "create", "pin", "stray", "malloc", "get"}
StuckFault == {"stuck"}
=============================================================================
