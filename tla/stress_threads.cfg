\* Two fault threads and a migration thread, against failures of the calls
\* that threads make.
SPECIFICATION Spec
CONSTANTS
  Faults <- LibraryFaults
  NUM_RAPID_FORKS = 2
  NUM_FAULT_THREADS = 2
  NUM_MIGRATION_THREADS = 1
  FAULT_ITERATIONS = 2
  MIGRATION_CYCLES = 2
  CheckEvery = 1
  VerifyEvery = 2
INVARIANTS
  VerdictSound
  NoFalseAlarm
  Accounting
PROPERTIES
  StatsSettled
