SPECIFICATION FairSpec
CONSTANTS
  Samples <- MCSamples
  Reading <- MCReading
  Final = Final
  Absent = Absent
  Commands = {"off", "on"}
  Rest = "off"
  MaxSamples <- MCMaxSamples
  MaxSessions = 2
  MaxCommands = 2
  InputTimeout = 1
  HeartbeatTimeout = 1
INVARIANTS
  TypeOK
  PadShowsGamepad
PROPERTIES
  EndedSessionIsReleased
  LostPeerIsNoticed
  
