SPECIFICATION FairSpec
CONSTANTS
  MaxNs = 1
  MaxSA = 1
  Allowed = {"fail"}
  MaxFaults = 1
  Home = {1}
  None = 0
PROPERTIES
  RequestIsAnswered
CHECK_DEADLOCK FALSE
