SPECIFICATION FairSpec
CONSTANTS
  Worker = {w1, w2}
  MaxClusters = 5
  MinFeasible = 2
  Percentage = 0
  None = None
INVARIANTS TypeOK SearchComplete SkipsBounded
PROPERTY SearchEnds
CHECK_DEADLOCK FALSE
