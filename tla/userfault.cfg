\* Four pages and every fault; main may sleep for ever.
SPECIFICATION FairSpec
CONSTANTS
  Faults <- AllFaults
  NUM_PAGES = 4
CHECK_DEADLOCK FALSE
INVARIANTS
  TypeOK
  FaultsCaught
  NoFalseAlarm
  NoStrandedFault
  CleanupAlone
  EveryFaultHandled
  MessageMatches
PROPERTIES
  ImplementsVerdict
  Termination
