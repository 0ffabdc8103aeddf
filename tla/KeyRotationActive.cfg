CONSTANTS
  gracePeriod = 2
  initialLife = 5
  maxVersions = 2
  MaxKeys = 4
  MaxClock = 6
SPECIFICATION KeysSpec
INVARIANT CurrentIsActive
CHECK_DEADLOCK FALSE
