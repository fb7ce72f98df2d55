SPECIFICATION Spec
CONSTANTS
  testbench_names <- Two
  Deck = {"d0", "d1"}
  Original = "d0"
  MaxOuterIterations = 1
  RetryBudget = 0
  MaxOptimizeSteps = 0
  MaxCrashes = 1
  MaxLines = 2
  AtomicAppend = FALSE
  FreshRunsInSameDir = FALSE
INVARIANTS KillAnywhereIsResumable
CHECK_DEADLOCK FALSE
