SPECIFICATION Spec
CONSTANTS
  testbench_names <- Two
  Deck = {"d0", "d1"}
  Original = "d0"
  MaxOuterIterations = 2
  RetryBudget = 0
  MaxOptimizeSteps = 1
  MaxCrashes = 2
  MaxLines = 2
  AtomicAppend = TRUE
  FreshRunsInSameDir = FALSE
INVARIANTS TypeOK NamedFilesWhole CrashCostsOneStage
PROPERTIES CheckpointedDecksUntouched
CHECK_DEADLOCK FALSE
