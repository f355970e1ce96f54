SPECIFICATION FairSpec
CONSTANTS
  Projectors = {p1, p2}
  MaxEvents = 3
  MaxFaults = 1
INVARIANTS ReceivedInOrder ProjectionIsContiguous
PROPERTIES EveryEventArrives
CHECK_DEADLOCK FALSE
