SPECIFICATION FairSpec
CONSTANTS
  Workers = {w1}
  Rpcs = {r1}
  Sweep = sweep
  NoThread = none
  Requests = {q1, q2}
  NoRequest = noreq
  MaxVersion = 3
INVARIANTS
  TypeOK
  OneReconcile
  AbortIsConfirmed
PROPERTIES
  TerminalIsFinal
  AbortOnlyAdvances
  ExceptionNeedsRecover
  AbortCompletes
