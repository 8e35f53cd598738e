SPECIFICATION Spec
CONSTANTS
  s1 = s1
  s2 = s2
  r1 = r1
  r2 = r2
  a1 = a1
  a2 = a2
  configured = configured
  film = film
  index = index
  poster = poster
  Site <- Sites
  Authority <- Authorities
  Target <- Targets
  Configured = configured
  AuthorityOf <- Origins
  SiteLimits <- OfSite
  GlobalLimits <- InAll
  MaxDepth = 1
  MaxToken = 2
  Request <- Requests
  Manifest <- Manifests
  MaxURLs = 1
  MaxRedirects = 1
  OneWay = TRUE
  MaxEvent = 2
INVARIANTS
  AuthoritiesCounted
  UsesCounted
  PublishedIsCommitted
  EverythingReturned
PROPERTY
  RoutesKeepWorking
SYMMETRY Symmetry
CHECK_DEADLOCK FALSE
