SPECIFICATION FairSpec
CONSTANTS
  t1 = t1
  t2 = t2
  t3 = t3
  f1 = f1
  f2 = f2
  f3 = f3
  None = None
  Teams <- ThreeTeams
  Flags <- ThreeFlags
  Owner <- OwnerValue
  FlagTime <- TimeValue
  Thefts <- TheftsValue
  Expire = 1
  Unit = 2
  Initial = 4
  MaxTime = 4
INVARIANTS
  PointsConserved
  NoDebts
  PaidOnce
  TimelyThievesPaid
PROPERTIES
  TheftsPaid
