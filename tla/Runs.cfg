SPECIFICATION FairSpec
CONSTANTS
  shared = shared
  recheck = recheck
  sharedKey = sharedKey
  recheckKey = recheckKey
  Runs = {shared, recheck}
  NoRun = NoRun
  RunLimit = 1
  KeyOf <- KeyOfRuns
  Kind <- KindOfKeys
  Searches = {s1}
  Workers = {w1, w2}
  ActorAttempts = 2
  SweepAttempts = 2
  Scopes = {"", "seat"}
CONSTRAINT RecheckAlone
INVARIANTS
  TypeOK
  SemaphoreExcludes
  InFlightIsPermitted
  ChargedForWork
  AttemptsWithinBudget
  VerdictIsTerminal
PROPERTIES WaitedRunsEnd
CHECK_DEADLOCK FALSE
