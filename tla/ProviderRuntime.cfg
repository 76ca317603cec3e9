\* Three calls, two permits; time passes and deadlines are delivered, nothing
\* else is fair.  The deadline is shorter than the recovery interval and the
\* bucket earns a token within it, as in the defaults.
SPECIFICATION LiveSpec
CONSTANTS
  Calls = {c1, c2, c3}
  FailureThreshold = 2
  RecoveryTimeout = 2
  TokenUnit = 2
  Rate = 1
  Capacity = 6
  Timeout = 1
  MaxConcurrency = 2
  MaxRequests = 5
  LastArrival = 3
INVARIANTS
  TypeOK
  Accounting
  PermitsConserved
  BreakerCoherent
  LatencyWithinDeadline
  OutageBounded
  HalfOpenAlone
  ProbeNeverRejected
PROPERTIES
  ProbeDecides
  CallsReturn
  OpenEnds
  ProbeResolves
CHECK_DEADLOCK FALSE
