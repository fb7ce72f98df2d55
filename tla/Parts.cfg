SPECIFICATION PartsSpec
CONSTANTS
  None = None
  Knob = {"m", "w"}
  Count = {"m"}
  Weight <- KnobWeight
  Unit = 2
  Start <- StartDeck
  Value = {1, 2}
  Run <- RunsExplored
  Proposal <- ProposalsExplored
  Partners = 1
  MaxSteps = 3
  Composites = 1
  BudgetPercent = 100
  Epsilon = 50
  Tau = 100
  Testbenches = {"ac", "dc"}
  CornerCount = 2
  Criteria <- SweepCriteria
  Rendering <- Texts
  Showing <- Showings
  Worker = {w1, w2}
  Plan <- Sweeps
  Name = {"M1", "AMP_M1", "X1", "X2", "AMP_Q1", "M9"}
  PartOf <- Spellings
  Part <- PartsOfDeck
  Param = {"w", "m"}
  NewValue = {4, 9, 16, 40, 52, None}
  Grain = 2
  MaxChanges = 2
  Reference <- ReferenceBlock
  Block <- AgentBlocks
  Corners = 2
  MaxToolTurns = 2
  MaxCalls = 2
  MaxRepairs = 2
  SlotCriteria <- CriteriaOfSlot
  SlotRows <- RowsOfSlot
  Tolerance = 100
  MaxAuthored = 2
  MaxPoints = 1
  Circuits <- Benches
  Canonical = "ac"
  Edit <- Changes
  Body <- Bodies
  Literal = {"1", "2", "10", "20", "30"}
  Letter <- FirstLetter
  MaxEdits = 2
  MaxBatch = 2
  Skeletons <- Hierarchies
  Raw <- Expressions
  Declarable = {"w", "k"}
  ModelClass <- ModelClasses
  MaxTraceDepth = 2
  MaxDeclared = 2
  TestbenchDecl <- TestbenchDecls
  PvtDecl <- PvtDecls
  ReductionDecl <- ReductionDecls
  MaxTestbenches = 2
INVARIANTS
  PartsTypeOK LandsWhereASweepPassed ReturnsTheLanding ExhaustionIsReal
  AnswersAreTheirOwn SweepPassesEveryCorner SeedShowsTheWorst LogAccountsForCalls
  ApprovedGrowthIsBoundedByKey SimulatesTheSpecification
  AdmittedBodyPassedEveryStage AdmittedBodyIsNotMatched
  EditsLandWhereTheySay NumbersAreTheCircuits LoadedIsRunnable
PROPERTIES PartsTerminate
CHECK_DEADLOCK FALSE
