SPECIFICATION CalmFairSpec
CONSTANTS
  x1 = x1
  x2 = x2
  Searches = {x1, x2}
  PollBudget = 2
  MaxRows = 2
  MaxFaults = 3
  MaxResumes = 1
  MaxCancels = 2
  MaxStarts = 2
  MaxResets = 1
  None = None
CONSTRAINT Bounded
INVARIANTS TypeOK ShownEndIsTrue EndComesWithAnswer WaitingViewIsDriven
PROPERTIES EndIsShown
CHECK_DEADLOCK FALSE
