CONSTANTS
  N = 2
  MaxHeight <- Height21
  NoHash <- MCNoHash
  MaxRestarts = 1
SPECIFICATION RestartSpec
PROPERTY
  SelfParentIsLast
CHECK_DEADLOCK FALSE
