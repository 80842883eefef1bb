\* The 28 programs, against all kinds of faults: as many at once as there are.
SPECIFICATION FairSpec
CONSTANTS
  Faults <- AllFaults
  MaxFaults = 24
INVARIANTS
  TypeOK
  FaultsCaught
  NoFalseAlarm
  LimitsRestored
  MemoryInUse
PROPERTIES
  ImplementsVerdict
  Termination
