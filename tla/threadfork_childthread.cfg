\* A worker may find itself on a wrong node.
SPECIFICATION Spec
CONSTANTS
  Faults <- StrayFault
  NUM_THREADS = 1
INVARIANTS
  ChildThreadCounts
