SPECIFICATION FairSpec
CONSTANTS
  f1 = f1
  f2 = f2
  Feed = {f1, f2}
  BaseKey = BaseKey
  DescKey = DescKey
  None = None
  Scenario <- Scenarios
  MaxEvents = 4
  MaxPrune = 2
INVARIANTS
  TypeOK
  FeedsDeployed
  NothingLeftBehind
PROPERTIES
  DeletionCompletes
CHECK_DEADLOCK FALSE
