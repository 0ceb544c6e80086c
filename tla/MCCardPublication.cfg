SPECIFICATION FairSpec
CONSTANTS
  MaxCards = 2
  MaxContext = 3
  MaxVersion = 3
INVARIANTS
  TypeOK
  AbortedIsQuiet
  SerialWork
  LedgerIsTrue
PROPERTIES
  HoldIsReleased
