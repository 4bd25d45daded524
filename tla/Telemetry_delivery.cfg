SPECIFICATION Spec
CONSTANTS
  Capacity = 2
  MaxBatch = 3
  MaxBoot = 2
  Scenarios <- MCScenarios
INVARIANTS
  TypeOK
  DecidedOnce
PROPERTIES
  KeepsPromise
  
CHECK_DEADLOCK FALSE
