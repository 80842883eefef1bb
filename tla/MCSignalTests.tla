--------------------------- MODULE MCSignalTests ---------------------------
(***************************************************************************)
(* Environments in which TLC checks SignalTests.                           *)
(***************************************************************************)
EXTENDS SignalTests

AllFaults == {"numa", "sigaction", "refuse", "ignore", "get", "mmap", "mprotect",
              "noTrap", "lose", "spurious", "corrupt", "lostSignal", "twice",
              "malloc", "late", "stuck", "keep"}
SpuriousFault == {"spurious"}
=============================================================================
