SPECIFICATION Spec
CONSTANTS
  f1 = f1
  f2 = f2
  Feed = {f1, f2}
  BaseKey = BaseKey
  DescKey = DescKey
  None = None
  Scenario <- EditingTwo
  MaxEvents = 2
  MaxPrune = 2
INVARIANTS
  FeedsDeployed
CHECK_DEADLOCK FALSE
