SPECIFICATION Spec
CONSTANTS
  c1 = c1
  c2 = c2
  t1 = t1
  t2 = t2
  t3 = t3
  f1 = f1
  f2 = f2
  x = x
  s1 = s1
  None = None
  Clients <- TwoClients
  Teams <- ThreeTeams
  Services <- OneService
  Strings <- AllStrings
  Flags <- TwoFlags
  Owner <- OwnerValue
  ServiceOf <- ServiceOfValue
  MaxLines = 1
SYMMETRY Symmetry
INVARIANTS
  RowsTrue
  RowsFresh
  AcceptedOnce
  FirstThiefPaid
