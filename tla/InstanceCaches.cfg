SPECIFICATION Spec
CONSTANTS
  s1 = s1
  s2 = s2
  i1 = i1
  i2 = i2
  i3 = i3
  p1 = p1
  p2 = p2
  a1 = a1
  a2 = a2
  Second = 2
  Request <- Requests
  Site <- Sites
  Target <- Targets
  ImageAnswer <- ImageAnswers
  Minimum = 1
  MaxBody = 2
  MaxSiteBytes = 4
  MaxProcessBytes = 5
  ImageTTL = 3
  Nobody = 0
  MaxClock = 2
  Leap = 2
  PingKey <- PingKeys
  PingAnswer <- PingAnswers
  PingTTL = 2
  MaxEntries = 1
  AssetKey <- Assets
  AssetAnswer <- AssetAnswers
  AssetTTL = 2
  AssetMaxBytes = 2
  MaxEvent = 1
SYMMETRY KeySymmetry
INVARIANTS
  ImageBudgetExact
  ServedFresh
  NothingFromBeforeInvalidation
  AssetFilesConsistent
  FlightsAreFlown
CHECK_DEADLOCK FALSE
