SPECIFICATION Spec
CONSTANTS
  Searches = {x1, x2}
  PollBudget = 2
  MaxRows = 1
  MaxFaults = 0
  MaxResumes = 1
  MaxCancels = 0
  MaxStarts = 2
  MaxResets = 0
  None = None
INVARIANTS ShownEndIsOwn
CHECK_DEADLOCK FALSE
