SPECIFICATION Spec
CONSTANTS
  Searches = {s1}
  ScheduleKeys = {day1}
  MovieKeys = {}
  FetchKeys = {show1, show2}
  Ceiling = 2
  Reserve = 2
  BatchSize = 1
  CostLimit = 2
  UnresolvedLimit = 1
  MaxAttempts = 1
  Scopes = {}
INVARIANT DerivedStateHasAnswer
CHECK_DEADLOCK FALSE
