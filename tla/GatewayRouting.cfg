\* Two requests that choose among three providers in every way and fall back,
\* on a fair loop.
SPECIFICATION LiveSpec
CONSTANTS
  p1 = p1
  p2 = p2
  p3 = p3
  AutoModel = auto
  None = none
  Requests = {r1, r2}
  Registry <- ThreeProviders
  Descriptor <- Catalogue
  Models <- ModelNames
  Payloads <- RoutingPayloads
  Keys = {}
  Durable = FALSE
  RecentEvents = 1
  MaxFaults = 1
INVARIANTS
  AttemptsAreFair
  GivesUpAfterAll
  BestFirst
PROPERTIES
  RequestsEnd
CHECK_DEADLOCK FALSE
