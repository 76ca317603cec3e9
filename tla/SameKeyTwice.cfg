\* Two requests with one key at the same time.
SPECIFICATION Spec
CONSTANTS
  p1 = p1
  p2 = p2
  p3 = p3
  AutoModel = auto
  None = none
  Requests = {r1, r2}
  Registry <- TwoProviders
  Descriptor <- Catalogue
  Models <- ModelNames
  Payloads <- StorePayloads
  Keys = {k}
  Durable = TRUE
  RecentEvents = 2
  MaxFaults = 0
INVARIANTS
  KeyNamesOneAnswer
CHECK_DEADLOCK FALSE
