CONSTANTS
  Requests = {"status", "snapshot", "disruptions"}
  MaxLoads = 3
  MaxServers = 2
  Healthy = {1}
  Undrawable = {2}
SPECIFICATION FairSpec
INVARIANTS
  ReadPageIsOneLoad
  OperationalOnlyIfRead
PROPERTIES
  FailureGivesButtonBack
CHECK_DEADLOCK FALSE
