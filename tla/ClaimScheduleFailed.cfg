SPECIFICATION Spec
CONSTANTS
  Searches = {s1}
  ScheduleKeys = {day1}
  MovieKeys = {}
  FetchKeys = {show1}
  Ceiling = 1
  Reserve = 1
  BatchSize = 1
  CostLimit = 1
  UnresolvedLimit = 1
  MaxAttempts = 1
  Scopes = {}
INVARIANT CompleteMeansNoScheduleFailed
CHECK_DEADLOCK FALSE
