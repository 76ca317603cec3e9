\* A rate of less than one token per recovery interval, which
\* PROVIDER_RATE_PER_SECOND allows: the breaker lets the probe through and the
\* bucket rejects it.
SPECIFICATION LiveSpec
CONSTANTS
  Calls = {c1, c2}
  FailureThreshold = 1
  RecoveryTimeout = 3
  TokenUnit = 4
  Rate = 1
  Capacity = 4
  Timeout = 2
  MaxConcurrency = 2
  MaxRequests = 4
  LastArrival = 4
PROPERTIES
  ProbeResolves
CHECK_DEADLOCK FALSE
