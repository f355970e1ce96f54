SPECIFICATION FairSpec
CONSTANTS
  Searches = {s1}
  ScheduleKeys = {day1}
  MovieKeys = {}
  FetchKeys = {show1}
  Ceiling = 1
  Reserve = 2
  BatchSize = 1
  CostLimit = 2
  UnresolvedLimit = 1
  MaxAttempts = 2
  Scopes = {"", "seat"}
INVARIANTS
  AttemptsAreBounded
  LiveSubscriptionIsDriven
  TerminalIsQuiet
PROPERTIES
  TerminalIsFinal
  FinishedSearchIsAnswered
  DeadlineIsAnswered
  FencedJobIsSettled
CHECK_DEADLOCK FALSE
