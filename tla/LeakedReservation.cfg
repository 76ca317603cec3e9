\* A request is cut off while the service converses.
SPECIFICATION Spec
CONSTANTS
  Requests = {r1, r2, r3}
  Limit = 4
  Amounts = {1, 2, 3}
  Overrun = 0
  MaxRestarts = 0
SYMMETRY RequestSymmetry
INVARIANTS
  QuietMeansReleased
CHECK_DEADLOCK FALSE
