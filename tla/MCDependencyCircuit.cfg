SPECIFICATION FairSpec
CONSTANTS
  Runs = {a, b}
  Global = gitlab
  Sweep = sweep
  Threshold = 2
  MaxFailures = 2
  MaxFaults = 1
PROPERTIES
  FewRunsStayIsolated
  CircuitCloses
  RunsProceed
CHECK_DEADLOCK FALSE
