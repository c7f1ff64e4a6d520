SPECIFICATION Spec
CONSTANTS
  s1 = s1
  t1 = t1
  Services <- OneService
  Teams <- OneTeam
  Statuses <- OnlyOK
  MaxTasks = 1
  MaxRound = 1
  MaxFaults = 0
  MaxRestarts = 0
PROPERTIES
  LateReportIgnored
