SPECIFICATION FairSpec
CONSTANTS
  States <- MCStates
  Neutral <- MCNeutral
  Absent <- MCAbsent
  Buttons <- MCButtons
  MaxSeq = 3
  QueueCap = 2
  InputTimeout = 1
INVARIANTS
  TypeOK
  EdgesKept
  SettlesOnLast
PROPERTIES
  ImplementsPadOutput
  CallsReturn
  AcceptedIsApplied
