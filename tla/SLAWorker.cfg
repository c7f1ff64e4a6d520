SPECIFICATION FairSpec
CONSTANTS
  t1 = t1
  t2 = t2
  a = a
  b = b
  c = c
  d = d
  Teams <- TwoTeams
  Checks <- FourChecks
  TeamOf <- TeamOfValue
  Ok <- OkValue
  MaxTime = 3
INVARIANTS
  NotInflated
  NothingLeftOut
PROPERTIES
  EveryCheckReached
