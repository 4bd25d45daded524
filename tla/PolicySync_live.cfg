SPECIFICATION MCFairSpec
CONSTANTS
  MaxRev = 1
  MaxEpoch = 2
  MaxLife = 2
  MaxSession = 2
  MaxGen = 1
  MaxBoot = 2
  MaxQueue = 1
  MaxRefresh = 1
  MaxUnlock = 1
  ApplyFaults = FALSE
PROPERTIES Settles
