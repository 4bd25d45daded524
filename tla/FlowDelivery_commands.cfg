SPECIFICATION Spec
CONSTANTS
  Flows = {f1, f2}
  First = f1
  QueueCap = 1
  WindowCap = 1
  StateCap = 2
  MaxAttempts = 2
  Scenarios <- MCScenarios
CHECK_DEADLOCK FALSE
INVARIANTS TypeOK LatchedBoot VerdictIsCurrent LastIsSentOnce
PROPERTY NewerPacketStands
