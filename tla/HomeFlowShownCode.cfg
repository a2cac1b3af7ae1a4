SPECIFICATION Spec
CONSTANTS
  Keys <- MCKeys
  Missing = Missing
  Empty = Empty
  None = None
  Storages = {"ok"}
INVARIANT
  ShownCodeConnects
