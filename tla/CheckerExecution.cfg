SPECIFICATION ExecutionFairSpec
CONSTANTS
  Codes <- CodesValue
  Unknown = Unknown
INVARIANTS
  PlantedMeansReadBack
  OKMeansAllPassed
PROPERTIES
  EveryTaskReported
CHECK_DEADLOCK FALSE
