\* An access that should work may trap.
SPECIFICATION Spec
CONSTANTS
  Faults <- SpuriousFault
  AlarmTurns = 1
INVARIANTS
  NowWriteWorks
