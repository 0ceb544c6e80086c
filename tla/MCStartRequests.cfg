SPECIFICATION FairSpec
CONSTANT MaxFaults = 2
INVARIANTS
  OneRunPerMessage
  FirstWorkIsSingle
  WorkIsPrepared
PROPERTIES
  AnswerIsFinal
  RequestIsAnswered
  StartedRunGetsWork
CHECK_DEADLOCK FALSE
