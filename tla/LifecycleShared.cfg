SPECIFICATION Spec
CONSTANTS
  Searches = {s1, s2}
  ScheduleKeys = {day1}
  MovieKeys = {}
  FetchKeys = {show1}
  Ceiling = 1
  Reserve = 2
  BatchSize = 1
  CostLimit = 3
  UnresolvedLimit = 2
  MaxAttempts = 1
  Scopes = {}
SYMMETRY Symmetry
CONSTRAINT SharedBound
INVARIANTS
  AdmissionConservation
  AdmissionWithinLimits
PROPERTIES
  SharedRunSurvives
CHECK_DEADLOCK FALSE
