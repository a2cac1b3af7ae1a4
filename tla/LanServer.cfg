SPECIFICATION FairSpec
CONSTANTS
  States <- MCStates
  Neutral <- MCNeutral
  Absent <- MCAbsent
  MaxSeq = 2
  InputTimeout = 2
  HeartbeatTimeout = 3
INVARIANTS
  TypeOK
  HeldOnlyWhileArmed
  SnapshotShowsPad
  NoLostWakeUp
  OneReleasePerSilence
  NoCallbackIntoDeleted
  
PROPERTIES
  NoResurrection
  ImplementsPadOutput
  SilenceReleases
  SilentPeerEndsSession
  StopReturns
