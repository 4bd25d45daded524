SPECIFICATION Spec
CONSTANTS
  Shapes = {"A", "B"}
  Blocks = {"X"}
  Snapshots <- ShapingSnapshots
  None = None
  SyncFaults = FALSE
  MaxFault = 2
  MaxCrash = 2
  MaxReboot = 1
  MaxCommand = 4
CONSTRAINT Corners
INVARIANTS
  TypeOK
  TreeIsRecoverable
  AppliedIsInstalled
  RefusalKeepsPrevious
  UnlockIsClean
