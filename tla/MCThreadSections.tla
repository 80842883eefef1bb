-------------------------- MODULE MCThreadSections --------------------------
(***************************************************************************)
(* Environments in which TLC checks ThreadSections.                        *)
(***************************************************************************)
EXTENDS ThreadSections

AllFaults == {"mmap", "refuse", "ignore", "create", "badPage", "staleView",
              "exitLoses", "stuck"}
CreateFault == {"create"}
=============================================================================
