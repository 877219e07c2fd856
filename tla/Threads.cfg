SPECIFICATION ThreadsSpec
INVARIANTS
  NoWaitingCircle
  HalfDoneContained
PROPERTIES
  ShutdownEndsThreads
  DropReturns
CHECK_DEADLOCK FALSE
