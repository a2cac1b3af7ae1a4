SPECIFICATION Spec
CONSTANTS
  States <- MCStates
  Neutral <- MCNeutral
  Absent <- MCAbsent
  MaxSeq = 2
  InputTimeout = 2
  HeartbeatTimeout = 3
PROPERTIES
  FreshInputKept
