SPECIFICATION Spec
CONSTANTS
  Searches = {s1}
  ScheduleKeys = {day1, movie1}
  MovieKeys = {movie1}
  FetchKeys = {show1, show2}
  Ceiling = 2
  Reserve = 3
  BatchSize = 1
  CostLimit = 3
  UnresolvedLimit = 1
  MaxAttempts = 1
  Scopes = {}
INVARIANTS
  TypeOK
  WindowAccounting
  NoLostWakeup
  HaltedIsEmptyHanded
  DrawnDownOnce
  DenialIsEarned
  CompleteAbandonsNothing
CHECK_DEADLOCK FALSE
