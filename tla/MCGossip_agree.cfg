CONSTANTS
  N = 2
  MaxHeight <- Height22
  NoHash <- MCNoHash
  MaxOutstanding = 1
  AskOn = FALSE
SPECIFICATION GossipSpec
INVARIANT
  FinalisedFrameAgreement
CHECK_DEADLOCK FALSE
