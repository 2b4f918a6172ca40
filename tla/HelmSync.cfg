SPECIFICATION FairSpec
CONSTANTS
  Chart = {a}
  ChartName <- Names
  DescKey = DescKey
  None = None
  Mode = {"hub", "agent", "nopusher"}
  Allowed = {"chart", "override", "drop", "delete", "secret", "silent", "gone", "apierr", "helmerr", "restart"}
  MaxEvents <- Bound
INVARIANTS
  TypeOK
  ReleasesPopulated
  DeployedMeansInstalled
  NoReleaseLeft
PROPERTIES
  SecretOutlivesReleases
  DeletionCompletes
CHECK_DEADLOCK FALSE
