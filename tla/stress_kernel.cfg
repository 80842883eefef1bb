\* One fault thread, one migration thread and two forks of which the first is
\* verified, against every way the kernel may break its promises.
SPECIFICATION FairSpec
CONSTANTS
  Faults <- KernelFaults
  NUM_RAPID_FORKS = 2
  NUM_FAULT_THREADS = 1
  NUM_MIGRATION_THREADS = 1
  FAULT_ITERATIONS = 2
  MIGRATION_CYCLES = 1
  CheckEvery = 2
  VerifyEvery = 2
INVARIANTS
  IInv
  FaultsCaught
PROPERTIES
  ImplementsVerdict
  Termination
