SPECIFICATION CSpec
CHECK_DEADLOCK FALSE
CONSTANTS
  o = o
  f1 = f1
  f2 = f2
  a = a
  b = b
  flag = flag
  t1 = t1
  Nobody = Nobody
  Users <- UsersValue
  Members <- MembersValue
  Tweets <- TweetsValue
  Owner = o
  Fellows <- FellowsValue
  Flag = flag
  Errands <- ErrandsValue
  Beside <- BesideValue
  MaxBroken = 1
INVARIANTS
  OnlyOwnPageFails
PROPERTIES
  FeedSpec
  Delivered
  VisitEnds
