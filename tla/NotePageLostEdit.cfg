SPECIFICATION FairSpec
CONSTANTS
  a = a
  b = b
  s1 = s1
  Note = {a}
  Draft = {}
  Shared = {a}
  NoNote = NoNote
  Call = {s1}
  NoCall = NoCall
  MaxVersion = 3
  MaxKeys = 1
  MaxOpens = 1
  MaxFaults = 0
  MaxReconnects = 1
PROPERTIES NoLostEdit
CHECK_DEADLOCK FALSE
