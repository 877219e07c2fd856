CONSTANTS
  N = 2
  MaxHeight <- Height21
  NoHash <- MCNoHash
  MaxOutstanding = 1
  AskOn = TRUE
SPECIFICATION FairGossipSpec
PROPERTIES
  EveryoneFinalises
  EventsSpread
CHECK_DEADLOCK FALSE
