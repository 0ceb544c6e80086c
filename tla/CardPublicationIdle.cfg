SPECIFICATION Spec
CONSTANTS
  MaxCards = 2
  MaxContext = 3
  MaxVersion = 4
INVARIANTS
  ActiveRunHasWork
