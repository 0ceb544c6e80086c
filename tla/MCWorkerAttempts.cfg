SPECIFICATION FairSpec
CONSTANTS
  MaxAttempts = 2
  WorkerRedispatchLimit = 1
  MaxFaults = 1
INVARIANTS
  TypeOK
  OnlyOwnersLive
  ExitIsConfirmed
  BudgetIsEarned
PROPERTIES
  TimelineIsFinal
  DeadWorkerIsReplaced
CHECK_DEADLOCK FALSE
