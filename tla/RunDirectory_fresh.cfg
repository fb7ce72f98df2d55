SPECIFICATION Spec
CONSTANTS
  testbench_names <- Two
  Deck = {"d0", "d1"}
  Original = "d0"
  MaxOuterIterations = 1
  RetryBudget = 0
  MaxOptimizeSteps = 0
  MaxCrashes = 2
  MaxLines = 1
  AtomicAppend = TRUE
  FreshRunsInSameDir = TRUE
INVARIANTS AcceptedMeansWhole
CHECK_DEADLOCK FALSE
