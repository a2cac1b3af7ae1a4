SPECIFICATION FairSpec
CONSTANTS
  States <- MCStates
  Neutral <- MCNeutral
  MaxSeq = 2
INVARIANTS
  TypeOK
  EndedShowsNeutral
  StoppedSamplesNothing
  NoCallbackIntoDeleted
PROPERTIES
  SentInOrder
  NoInputAfterClose
  DisconnectClosesDevice
  StopReturns
CHECK_DEADLOCK FALSE
