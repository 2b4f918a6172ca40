SPECIFICATION FairSpec
CONSTANTS
  MaxNs = 1
  MaxSA = 2
  Allowed = {"fail", "restart", "crash", "delete", "edit", "revoke"}
  MaxFaults = 1
  Home = {1}
  None = 0
INVARIANTS
  TypeOK
  ApprovedTokenBound
PROPERTIES
  UnknownOnlyWhenSilent
  SilentBecomesUnknown
  ReportEndsUnknown
  PendingIsAnswered
CHECK_DEADLOCK FALSE
