\* The second thread may not be created.
SPECIFICATION Spec
CONSTANTS
  Faults <- CreateFault
  NUM_THREADS = 2
INVARIANTS
  SectionMapped
