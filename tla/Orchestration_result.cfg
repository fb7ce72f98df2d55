SPECIFICATION Spec
CONSTANTS
  MaxOuterIterations = 1
  MaxTuningRetries = 2
  TopologySwitchThreshold = 2
  MaxAlternatives = 2
  Pair = {p1, p2}
  Gate = {"refdes"}
  MaxResumes = 0
INVARIANTS ResultDescribesItsDeck
CHECK_DEADLOCK FALSE
