\* Disabling is refused.
SPECIFICATION Spec
CONSTANTS
  Faults <- StuckFault
  NUM_RAPID_FORKS = 2
  NUM_FAULT_THREADS = 0
  NUM_MIGRATION_THREADS = 0
  FAULT_ITERATIONS = 0
  MIGRATION_CYCLES = 0
  CheckEvery = 1
  VerifyEvery = 2
INVARIANTS
  DisableFailureCounts
