CONSTANTS
  Nodes = {1}
  Frames <- MCFrames
  MaxFrames = 4
SPECIFICATION DeliverySpec
INVARIANT SleeperUpToDate
CHECK_DEADLOCK FALSE
