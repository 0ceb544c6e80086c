SPECIFICATION FairSpec
CONSTANTS
  NoNotice = NoNotice
  Notices = {n1, n2, n3}
  Stubborn = {n1, n2}
  Limit = 2
  MaxFaults = 1
INVARIANT TypeOK
PROPERTIES
  ImplementsChannel
  OthersAreSettled
CHECK_DEADLOCK FALSE
