SPECIFICATION Spec
CONSTANTS
  Corners = 3
  Behaviour <- Shown
  MaxOuterIterations = 2
  RetryBudget = 2
  MaxSearchSteps = 1
  MaxResumes = 0
INVARIANTS DriftNeedsAVerdictSweep
CHECK_DEADLOCK FALSE
