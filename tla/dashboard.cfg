SPECIFICATION FairSpec
CONSTANTS
  Alerts = {a1, a2, a3}
  Cleaners = {c1}
  Day = 2
  KeepFor = 2
  BatchSize = 1
  PageSize = 2
  MaxTime = 3
  MaxEvents = 3
  MaxStale = 1
  MaxFaults = 1
INVARIANTS CleanupComplete BarsAreComplete PageIsRight PagesCoverAlerts
PROPERTIES CleanupCatchesUp
CHECK_DEADLOCK FALSE
