CONSTANTS
  N = 2
  MaxHeight <- Height43
  NoHash <- MCNoHash
SPECIFICATION Spec
INVARIANTS
  TypeOK
  RootsStored
  FrameAgreement
  FlagTableFaithful
  FramesHoldStore
  FinalisedFrameAgreement
  FinalisedFrameComplete
  FinalisationExact
  FinalFramesHaveMajority
  FinalFramesFollowChains
PROPERTIES
  FinalisedFramesStable
  ImplementsFrameLog
CHECK_DEADLOCK FALSE
