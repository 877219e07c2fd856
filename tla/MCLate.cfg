CONSTANTS
  N = 2
  MaxHeight <- Height32
  MaxAgain = 1
  NoHash <- MCNoHash
SPECIFICATION LateSpec
INVARIANTS
  UndisturbedNumbers
  UndisturbedComplete
  UndisturbedExact
  RootsStored
PROPERTY
  UndisturbedStable
CHECK_DEADLOCK FALSE
