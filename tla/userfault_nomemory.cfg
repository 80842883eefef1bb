\* The handler gets no memory; main may wait for ever.
SPECIFICATION FairSpec
CONSTANTS
  Faults <- MallocFault
  NUM_PAGES = 2
CHECK_DEADLOCK FALSE
PROPERTIES
  ReadyComes
