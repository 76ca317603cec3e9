\* One tick is 5 ms for the deadline and the recovery; the sleep is 7 ms, so two
\* ticks.  A scenario may be held up for five ticks, one less than the long
\* recovery.
SPECIFICATION Spec
CONSTANTS
  Repetitions = 2
  Deadline = 1
  SlowAnswer = 10
  Recovery = 1
  LongRecovery = 6
  Pause = 2
  MaxStall = 5
  AutoModel = AutoModel
  None = None
INVARIANTS
  ScenariosPass
PROPERTIES
  MatrixCompletes
CHECK_DEADLOCK FALSE
