SPECIFICATION FairSpec
CONSTANTS
  s1 = s1
  s2 = s2
  p1 = p1
  p2 = p2
  h1 = h1
  h2 = h2
  none = none
  Site <- MCSite
  Port <- MCPort
  Host <- MCHost
  None <- none
  Config <- MCConfig
  Coalescing <- Second
  MaxFault = 2
INVARIANTS
  RowsMatchInstances
  RoutesAgree
  RowOutlivesInstance
  NothingAcceptsAfterShutdown
PROPERTY
  OperationsFinish
CHECK_DEADLOCK FALSE
