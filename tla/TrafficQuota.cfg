SPECIFICATION Spec
CONSTANTS
  w1 = w1
  w2 = w2
  Writer <- MCWriter
  Quota = 2
  Size <- MCSize
  MaxBytes = 3
  MaxCycle = 1
  MaxSave = 1
  MaxFault = 1
SYMMETRY WriterSymmetry
INVARIANTS
  UsageIsExact
  QuotaHeld
  CacheMatchesLogs
CHECK_DEADLOCK FALSE
