SPECIFICATION FairSpec
CONSTANTS
  g1 = g1
  g2 = g2
  l1 = l1
  Feed = f
  Other = other
  Desc = desc
  Sub = {s1, s2}
  Glob = {g1, g2}
  Loc = {l1}
  Priority <- MCPriority
  None = None
  Scenario <- Scenarios
  MaxEvents = 4
INVARIANTS
  TypeOK
  OverridesApplied
  ReferredFeedKept
PROPERTIES
  OverrideLeavesNothing
  DeletionsComplete
CHECK_DEADLOCK FALSE
