CONSTANT
  PeerIds <- Ids4
SPECIFICATION FilePeerListSpec
INVARIANT
  PeerCountIsLen
CHECK_DEADLOCK FALSE
