SPECIFICATION Spec
CONSTANTS
  alice = alice
  bob = bob
  c1 = c1
  c2 = c2
  None = None
  User <- MCOneUser
  Call <- MCCall
  MaxRuns = 2
  MaxSignIns = 1
SYMMETRY CallSymmetry
CONSTRAINT OnePage
INVARIANTS RevokedOnlyAfterLoss FreshSession
CHECK_DEADLOCK FALSE
PROPERTIES EndsForCause
