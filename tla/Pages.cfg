SPECIFICATION PagesSpec
CONSTANTS
  f1 = f1
  f2 = f2
  tab1 = tab1
  tab2 = tab2
  t1 = t1
  t2 = t2
  NoFilter = NoFilter
  Filters <- TwoFilters
  Tabs <- TwoTabs
  Teams <- TwoTeams
  MaxLog = 1
  MaxChains = 3
  MaxRequests = 3
  MaxAnswers = 4
INVARIANTS
  LastClickCounts
PROPERTIES
  TableFollowsLog
  ChainsEnd
  PageGoesForward
