CONSTANTS
  Nodes = {1, 2}
  Frames = {}
  MaxFrames = 3
  TRANSACTIONS_LIMIT = 2
  MaxRecords = 5
  MaxAgain = 1
  MaxSent <- Sent30
  MaxEmpty <- Empty03
SPECIFICATION TransactionsSpec
INVARIANTS
  PoolInOrder
  ReceivedPerRecord
  SameOrder
  CursorInRange
  SleeperHasWaker
CHECK_DEADLOCK FALSE
