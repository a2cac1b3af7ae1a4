SPECIFICATION Spec
CONSTANTS
  States <- MCStates
  Neutral <- MCNeutral
  Absent <- MCAbsent
  Commands <- MCCommands
  Rest <- MCRest
  MaxCommands = 3
INVARIANTS
  TypeOK
  EndedIsReleased
  RumbleSettles
  StoppedIsQuiet
PROPERTIES
  ImplementsPadOutput
