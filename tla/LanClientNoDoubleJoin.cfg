SPECIFICATION Spec
CONSTANTS
  States <- MCStates
  Neutral <- MCNeutral
  MaxSeq = 2
INVARIANTS
  NoDoubleJoin
CHECK_DEADLOCK FALSE
