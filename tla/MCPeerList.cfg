CONSTANT
  PeerIds <- Ids6
SPECIFICATION FairPeerListSpec
INVARIANTS
  NeverSelf
  OffsetIsHalving
  CurrentIsCreator
PROPERTY
  SuccessorAskedForEver
