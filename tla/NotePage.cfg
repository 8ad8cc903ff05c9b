SPECIFICATION Spec
CONSTANTS
  a = a
  b = b
  s1 = s1
  Note <- MCTwoNotes
  NoNote = NoNote
  Shared = {b}
  Draft = {b}
  Call = {s1}
  NoCall = NoCall
  MaxVersion = 2
  MaxKeys = 2
  MaxOpens = 2
  MaxFaults = 1
  MaxReconnects = 1
INVARIANTS ShownIsOfRoute
PROPERTIES ListsHear SavesOverWhatWasRead QueuedOnce
CHECK_DEADLOCK FALSE
CONSTRAINT SecondKeyOnFirstNote
