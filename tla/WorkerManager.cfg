SPECIFICATION FairSpec
CONSTANTS
  a = a
  b = b
  c = c
  Tasks <- ThreeTasks
  MaxThreads = 2
INVARIANTS
  CapacityKept
  NoTaskWaits
PROPERTIES
  EveryTaskReturns
  KeepsAsking
CHECK_DEADLOCK FALSE
