SPECIFICATION Spec
CONSTANTS
  Chart = {a}
  ChartName <- Names
  DescKey = DescKey
  None = None
  Mode = {"hub"}
  Allowed = {"chart"}
  MaxEvents <- Bound
INVARIANTS
  ReleasesUpgraded
CHECK_DEADLOCK FALSE
