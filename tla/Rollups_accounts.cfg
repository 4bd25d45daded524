SPECIFICATION Spec
CONSTANTS
  Hour = 2
  Day = 4
  Window = 2
  Grace = 1
  Checkpoint = 1
  Limit = 1
  Lag = 1
  Scenarios <- MCScenarios
INVARIANTS
  TypeOK
  
  LedgerIsTrue
  CountsSurvive
CHECK_DEADLOCK FALSE
