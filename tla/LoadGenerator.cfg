\* Two workers send three requests, twice for each of two profiles.
SPECIFICATION Spec
CONSTANTS
  Profiles <- TwoProfiles
  Repetitions = 2
  Count = 3
  Concurrency = 2
  Responses <- SomeResponses
INVARIANTS
  EveryRequestOnce
  NearestRank
  ReportIsComplete
PROPERTIES
  MatrixEnds
CHECK_DEADLOCK FALSE
