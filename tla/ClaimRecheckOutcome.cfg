SPECIFICATION Spec
CONSTANTS
  shared = shared
  recheck = recheck
  sharedKey = sharedKey
  recheckKey = recheckKey
  Runs = {recheck}
  NoRun = NoRun
  RunLimit = 1
  KeyOf <- KeyOfRuns
  Kind <- KindOfKeys
  Searches = {}
  Workers = {w1, w2}
  ActorAttempts = 2
  SweepAttempts = 2
  Scopes = {"", "seat"}
INVARIANT OutcomeIsTerminal
CHECK_DEADLOCK FALSE
