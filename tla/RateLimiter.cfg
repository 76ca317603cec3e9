\* A token takes three ticks to earn; the full bucket holds two and a half.
SPECIFICATION Spec
CONSTANTS
  TokenUnit = 6
  Rate = 2
  Capacity = 15
  MaxTime = 10
INVARIANTS
  NoStarvation
PROPERTIES
  KeepsEnvelope
