\* A validation of two requests beside one other client; the limit pays for two
\* requests of the middle size, and the client stops before the limit.
SPECIFICATION CloudSpec
CONSTANTS
  Unset = Unset
  Junk = Junk
  t1 = t1
  t2 = t2
  o1 = o1
  Requests <- TheRequests
  Trial <- TheTrial
  Environments <- TheEnvironments
  Limit = 3
  Amounts = {1, 2}
  Overrun = 1
  MaxRestarts = 1
  CostCeiling = 2
INVARIANTS
  ReservedIsHeld
  WithinLimit
  BillCovered
  BillBySessions
  BilledOnPurpose
  CeilingPassedOnce
  BooksAgree
PROPERTIES
  KeepsCeiling
  ValidationEnds
CHECK_DEADLOCK FALSE
