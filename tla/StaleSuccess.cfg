\* A call admitted before the circuit opened succeeds after it did.
SPECIFICATION Spec
CONSTANTS
  Calls = {c1, c2}
  FailureThreshold = 1
  RecoveryTimeout = 3
  TokenUnit = 2
  Rate = 2
  Capacity = 6
  Timeout = 2
  MaxConcurrency = 2
  MaxRequests = 4
  LastArrival = 3
PROPERTIES
  OpenUntilRecovery
CHECK_DEADLOCK FALSE
