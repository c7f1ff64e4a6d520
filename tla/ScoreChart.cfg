SPECIFICATION ChartSpec
CONSTANTS
  a = a
  None = None
  Scores <- OneScore
  MaxRound = 2
  MaxTime = 2
  MaxFailures = 1
  MaxRestarts = 1
INVARIANTS
  StandingExact
PROPERTIES
  EveryScoreShown
  ChartCurrent
