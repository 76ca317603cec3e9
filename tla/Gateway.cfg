\* Three requests with one key over stores that may fail, expire or be lost.
SPECIFICATION Spec
CONSTANTS
  p1 = p1
  p2 = p2
  p3 = p3
  AutoModel = auto
  None = none
  Requests = {r1, r2, r3}
  Registry <- TwoProviders
  Descriptor <- Catalogue
  Models <- ModelNames
  Payloads <- StorePayloads
  Keys = {k}
  Durable = TRUE
  RecentEvents = 2
  MaxFaults = 1
SYMMETRY RequestSymmetry
INVARIANTS
  TypeOK
  RightfulAnswer
  CacheIsGenuine
  NoReexecution
  TelemetryAgrees
  StatisticsAgree
CHECK_DEADLOCK FALSE
