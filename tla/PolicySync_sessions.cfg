SPECIFICATION MCSpec
CONSTANTS
  MaxRev = 2
  MaxEpoch = 2
  MaxLife = 2
  MaxSession = 2
  MaxGen = 1
  MaxBoot = 2
  MaxQueue = 1
  MaxRefresh = 1
  MaxUnlock = 1
  ApplyFaults = TRUE
INVARIANTS TypeOK ActiveOwnsRow DeliveredWasSent AppliedIsStored
PROPERTIES BundleNeverGoesBack
