SPECIFICATION FairSpec
CONSTANTS
  k1 = k1
  NoKey = NoKey
  h1 = h1
  h2 = h2
  Event <- TwoEvents
  Key <- OneKey
  Host <- TwoHosts
  Concurrency = 1
  MaxAttempts = 2
  MaxChanges = 2
INVARIANTS
  NoChangeLost
  PermitsConserved
PROPERTIES
  EndedByHolder
  JobsSpec
  EveryEventEnds
