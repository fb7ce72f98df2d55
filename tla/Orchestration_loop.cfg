SPECIFICATION FairSpec
CONSTANTS
  MaxOuterIterations = 4
  MaxTuningRetries = 2
  TopologySwitchThreshold = 2
  MaxAlternatives = 2
  Pair = {p1, p2}
  Gate = {"refdes"}
  MaxResumes = 1
INVARIANTS TypeOK PassDescribesItsDeck VerdictsCompareNeighbours SwapsExplainTheDeck PairsSwappedOnce EscalatesAfterFailures HardFailNeedsAReview
PROPERTIES Terminates
CHECK_DEADLOCK FALSE
