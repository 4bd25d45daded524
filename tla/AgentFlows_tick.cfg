SPECIFICATION Spec
CONSTANTS
  Flows <- MCFlows
  MaxEntries = 2
  Policies = {"p"}
  Macs = {"m", "n"}
  None = None
  MaxAliases = 2
  MaxBlock = 8
  MaxOwners = 2
  MaxRev = 2
  MaxNow = 1
  EndpointTtl = 2
  Scenarios <- MCChange
PROPERTY TickRestores
CHECK_DEADLOCK FALSE
