SPECIFICATION Spec
CONSTANTS
  w1 = w1
  w2 = w2
  Writer <- OneWriter
  Quota = 2
  Size <- MCSize
  MaxBytes = 2
  MaxCycle = 0
  MaxSave = 2
  MaxFault = 0
INVARIANT
  CacheAlwaysMatchesLogs
CHECK_DEADLOCK FALSE
