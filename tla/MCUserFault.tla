---------------------------- MODULE MCUserFault ----------------------------
(***************************************************************************)
(* Environments in which TLC checks UserFault.                             *)
(***************************************************************************)
EXTENDS UserFault

AllFaults == {"userfaultfd", "api", "mmap", "register", "create", "refuse",
              "ignore", "corrupt", "madvise", "stale", "lostWrite", "stuck", "keep",
              "malloc", "poll", "read", "partial", "copy"}
MallocFault == {"malloc"}
=============================================================================
