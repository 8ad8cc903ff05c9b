SPECIFICATION Spec
CONSTANTS
  s1 = s1
  s2 = s2
  NoCall = NoCall
  Call <- MCTwoCalls
  MaxKeys = 1
  MaxReplies = 1
  MaxFaults = 0
  MaxOpens = 2
  MaxLate = 0
SYMMETRY CallSymmetry
PROPERTIES StopRestored
CHECK_DEADLOCK FALSE
