SPECIFICATION FairSpec
CONSTANTS
  s1 = s1
  t1 = t1
  Services <- OneService
  Teams <- OneTeam
  Statuses <- StatusesValue
  MaxTasks = 1
  MaxRound = 2
  MaxFaults = 2
  MaxRestarts = 1
INVARIANTS
  NoTaskForgotten
  FlagOnlyWithReport
  OneVerdictPerSource
  QueueVerdictFinal
PROPERTIES
  LedgerSpec
  EveryTaskDecided
