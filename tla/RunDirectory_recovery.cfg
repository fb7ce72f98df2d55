SPECIFICATION FairSpec
CONSTANTS
  testbench_names <- Two
  Deck = {"d0", "d1"}
  Original = "d0"
  MaxOuterIterations = 1
  RetryBudget = 1
  MaxOptimizeSteps = 0
  MaxCrashes = 2
  MaxLines = 1
  AtomicAppend = TRUE
  FreshRunsInSameDir = FALSE
PROPERTIES ResumesFromWhatWasSaved RunEnds
CHECK_DEADLOCK FALSE
