SPECIFICATION AggFairSpec
CONSTANTS
  Passes = {a1, a2}
  MaxFacts = 2
  MaxFaults = 1
INVARIANTS FinalResultIsWhole ProcessedIsServed CancelAnswerIsEarned
PROPERTIES LogIsReliable DueSearchEnds RequestsAreServed
CHECK_DEADLOCK FALSE
