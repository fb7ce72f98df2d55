SPECIFICATION Spec
CONSTANTS
  None = None
  Knob = {"m", "w"}
  Count = {"m"}
  Weight <- KnobWeight
  Unit = 2
  Start <- StartDeck
  Value = {1, 2}
  Run <- RunsExplored
  Proposal <- ProposalsExplored
  Partners = 1
  MaxSteps = 3
  Composites = 1
  BudgetPercent = 100
INVARIANTS CornerVerifiedMeansSwept
CHECK_DEADLOCK FALSE
