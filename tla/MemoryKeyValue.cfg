\* Two keys with a short and a long time to live, over twice the long one.
SPECIFICATION Spec
CONSTANTS
  Keys = {k1, k2}
  Values = {v1, v2}
  Lifetimes = {1, 3}
  None = none
  MaxTime = 6
PROPERTIES
  KeepsValues
