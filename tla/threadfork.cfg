\* Two workers in each round and one in the child, against every fault.
SPECIFICATION FairSpec
CONSTANTS
  Faults <- AllFaults
  NUM_THREADS = 2
INVARIANTS
  NoFalseAlarm
  FaultsCaught
  PhaseStable
  ForksAlone
  OkCount
PROPERTIES
  ImplementsVerdict
  Termination
