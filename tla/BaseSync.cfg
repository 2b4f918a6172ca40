SPECIFICATION FairSpec
CONSTANTS
  c1 = c1
  c2 = c2
  Cluster = {c1, c2}
  None = None
  Scenario <- Scenarios
  MaxEvents = 4
INVARIANTS
  TypeOK
  BoundClustersServed
PROPERTIES
  DeletionCompletes
CHECK_DEADLOCK FALSE
