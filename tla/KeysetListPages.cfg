SPECIFICATION FairSpec
CONSTANTS
  a = a
  b = b
  all = all
  some = some
  None = None
  Item <- MCTwoItems
  Key <- MCKey
  Holds <- MCHoldsTwo
  PageSize = 1
  MaxClock = 3
  MaxRequests = 3
INVARIANTS NoGap TailHeard RowsOfShownList FreshAfterReload
PROPERTIES NothingSpins
CHECK_DEADLOCK FALSE
