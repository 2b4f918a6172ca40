SPECIFICATION FairSpec
CONSTANTS
  r1 = r1
  r2 = r2
  k1 = k1
  Res = {r1, r2}
  KindOf <- MCKindOf
  Drifted = Drifted
  None = None
  Scenario <- Scenarios
  MaxEvents = 3
INVARIANTS
  TypeOK
  DescriptionServed
PROPERTIES
  RecoveryRests
CHECK_DEADLOCK FALSE
