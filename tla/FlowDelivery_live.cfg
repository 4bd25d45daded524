SPECIFICATION FairSpec
CONSTANTS
  Flows = {f1}
  First = f1
  QueueCap = 1
  WindowCap = 1
  StateCap = 1
  MaxAttempts = 1
  Scenarios <- MCLive
CHECK_DEADLOCK FALSE
PROPERTY NothingWaitsForever
