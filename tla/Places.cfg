SPECIFICATION Spec
CONSTANTS
  a = a
  b = b
  c = c
  n = n
  p = p
  q = q
  None = None
  Gone = Gone
  Later = Later
  Nowhere = Nowhere
  Shown = n
  Constellation <- MCConstellation
  Note <- MCNote
  Starts <- MCStarts
  MaxRequests = 3
  MaxOthers = 1
INVARIANTS NoCycle OnePlacePerLine OneMainPlace
PROPERTIES DoesWhatItSays NotesKeepAPlace SubNotesAskedFor StayersKeepTheirPlace
CHECK_DEADLOCK FALSE
