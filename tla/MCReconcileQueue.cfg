SPECIFICATION FairSpec
CONSTANTS
  Runs = {a}
  Workers = {w1, w2}
  Rpc = rpc
  None = none
  Dead = dead
  MaxEvents = 2
  MaxFaults = 2
INVARIANTS
  TypeOK
  NoOrphanLease
  ClaimNotLeaked
PROPERTIES
  EventsAreReconciled
