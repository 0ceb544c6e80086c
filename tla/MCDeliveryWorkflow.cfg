SPECIFICATION Spec
CONSTANTS
  Documents <- OneDocument
  ReviewLimit = 1
  ModificationLimit = 1
  RetryLimit = 1
  MaxFaults = 2
  MaxHeads = 12
INVARIANTS
  ReadyIsProved
  DeliveryIsFrozen
  BudgetIsKept
CHECK_DEADLOCK FALSE
