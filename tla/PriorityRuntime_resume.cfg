SPECIFICATION Spec
CONSTANTS
  None = None
  Ports = {"p1"}
  Clients = {1, 2}
  Snapshots <- BudgetSnapshots
  SlotCount = 2
  Capacity = 2
  MaxFault = 0
  MaxCrash = 2
  MaxReboot = 0
  MaxAdmin = 0
PROPERTY InterruptedRecoveryResumes
