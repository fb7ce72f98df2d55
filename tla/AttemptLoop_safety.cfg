SPECIFICATION Spec
CONSTANTS
  Corners = 3
  Behaviour <- Shown
  MaxOuterIterations = 2
  RetryBudget = 2
  MaxSearchSteps = 1
  MaxResumes = 1
INVARIANTS TypeOK CornersPartition RotationMissesNobody DisagreementsAreReal ReentryBringsNews VerdictDescribesTheDeck ResultAccountsForAttempts
PROPERTIES SearchSeesOneCornerSet
CHECK_DEADLOCK FALSE
