CONSTANTS
  Nodes = {1}
  Frames <- MCFrames
  MaxFrames = 4
SPECIFICATION DeliverySpec
INVARIANT NothingSkipped
CHECK_DEADLOCK FALSE
