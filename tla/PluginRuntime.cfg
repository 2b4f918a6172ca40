SPECIFICATION FairSpec
CONSTANTS
  s1 = s1
  quota = quota
  window = window
  binder = binder
  Sub = {s1}
  MaxCycles = 2
  Plugin = {quota, window, binder}
  Registry <- MCRegistry
  Profile <- MCProfile
  None = None
INVARIANTS TypeOK ReservationsReleased
PROPERTIES PermitKept WaitEnds
CHECK_DEADLOCK FALSE
