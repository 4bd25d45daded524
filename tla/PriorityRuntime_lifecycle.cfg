SPECIFICATION Spec
CONSTANTS
  None = None
  Ports = {"p1", "p2"}
  Clients = {1, 2}
  Snapshots <- BudgetSnapshots
  SlotCount = 2
  Capacity = 2
  MaxFault = 1
  MaxCrash = 1
  MaxReboot = 1
  MaxAdmin = 1
INVARIANTS TypeOK StartsFromNothing  VerdictHasClass
PROPERTIES  CleanExit 
