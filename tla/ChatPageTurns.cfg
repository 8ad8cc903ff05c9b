SPECIFICATION Spec
CONSTANTS
  s1 = s1
  s2 = s2
  NoCall = NoCall
  Call <- MCTwoCalls
  MaxKeys = 1
  MaxReplies = 2
  MaxFaults = 1
  MaxOpens = 4
  MaxLate = 1
SYMMETRY CallSymmetry
INVARIANTS OwnMessages
PROPERTIES KeptUntilKnown StopKept
CHECK_DEADLOCK FALSE
