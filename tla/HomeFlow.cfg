SPECIFICATION FairSpec
CONSTANTS
  Keys <- MCKeys
  Missing = Missing
  Empty = Empty
  None = None
  Storages = {"ok", "full", "denied"}
INVARIANTS
  TypeOK
  ViewMatchesHandles
  CodeIsListenedFor
PROPERTIES
  EndIsShown
