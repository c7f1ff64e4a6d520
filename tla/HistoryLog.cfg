SPECIFICATION Spec
CONSTANTS
  attack = attack
  secret = secret
  up = up
  down = down
  other = other
  Rows <- RowsValue
  LogOf <- LogOfValue
  KeyOf <- KeyOfValue
  StatusOf <- StatusOfValue
  None = None
  MaxTime = 2
  MaxFaults = 1
INVARIANTS
  AnswerExact
  LoggedOnce
  StatusShown
PROPERTIES
  EveryRowLogged
