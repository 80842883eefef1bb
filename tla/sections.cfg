\* Three threads, every fault.
SPECIFICATION FairSpec
CONSTANTS
  Faults <- AllFaults
  NUM_THREADS = 3
INVARIANTS
  ReadyCounted
  WorkDoneFirst
  FaultsCaught
PROPERTIES
  Termination
