SPECIFICATION FairSpec
CONSTANTS
  Documents <- TwoDocuments
  ReviewLimit = 2
  ModificationLimit = 1
  RetryLimit = 1
  MaxFaults = 1
  MaxHeads = 12
INVARIANTS
  PhasesAreAccepted
  FinalizationIsLast
PROPERTIES
  DeliveryEnds
CHECK_DEADLOCK FALSE
