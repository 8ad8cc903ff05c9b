SPECIFICATION FairSpec
CONSTANTS
  k1 = k1
  k2 = k2
  h1 = h1
  h2 = h2
  Key <- TwoKeys
  Host <- TwoHosts
  MaxAttempts = 1
  AttemptBound = 1
  MaxSearches = 1
PROPERTY PromptAccepted
CHECK_DEADLOCK FALSE
