CONSTANTS
  N = 2
  MaxHeight <- Height21
  NoHash <- MCNoHash
  MaxOutstanding = 2
  AskOn = FALSE
SPECIFICATION GossipSpec
INVARIANTS
  ParentsStored
  ClockCoversStore
  RequestsBacked
  NoFork
PROPERTY
  ImplementsSpread
CHECK_DEADLOCK FALSE
