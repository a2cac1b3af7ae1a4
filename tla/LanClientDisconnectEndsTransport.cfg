SPECIFICATION FairSpec
CONSTANTS
  States <- MCStates
  Neutral <- MCNeutral
  MaxSeq = 2
PROPERTIES
  DisconnectEndsTransport
CHECK_DEADLOCK FALSE
