SPECIFICATION LiveSpec
CONSTANTS
  None = None
  alice = alice
  bob = bob
  c1 = c1
  c2 = c2
  User <- MCUser
  Call <- MCCall
  MaxRuns = 1
  MaxSignIns = 2
INVARIANTS ChatBelongsToUser
PROPERTIES WaitersEnd
CHECK_DEADLOCK FALSE
ACTION_CONSTRAINTS AliceFirst QuietSecondPage
