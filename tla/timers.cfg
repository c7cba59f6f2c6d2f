SPECIFICATION Spec
CONSTANTS
  Workers = {w1}
  Second = 2
  Debounce = 3
  MaxWindow = 6
  FlushInterval = 2
  Lease = 8
  BackoffStep = 2
  BackoffCap = 4
  MaxSend = 3
  Horizon = 20
  MaxEvents = 5
INVARIANTS TypeOK ClaimedInTime
PROPERTIES DebounceOrWindow BackoffIsKept
CHECK_DEADLOCK FALSE
