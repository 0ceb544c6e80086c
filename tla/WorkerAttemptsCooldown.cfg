SPECIFICATION FairSpec
CONSTANTS
  MaxAttempts = 2
  WorkerRedispatchLimit = 1
  MaxFaults = 0
PROPERTIES
  ProviderFailureCools
CHECK_DEADLOCK FALSE
