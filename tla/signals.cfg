\* The three programs, every fault, and an alarm that has three turns.
SPECIFICATION FairSpec
CONSTANTS
  Faults <- AllFaults
  AlarmTurns = 3
INVARIANTS
  TypeOK
  FaultsCaught
  NoFalseAlarm
  AlarmSafe
PROPERTIES
  Termination
