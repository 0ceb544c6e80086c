SPECIFICATION FairSpec
CONSTANT MaxFaults = 1
INVARIANT InitializationIsIdempotent
CHECK_DEADLOCK FALSE
