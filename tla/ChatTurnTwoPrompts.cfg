SPECIFICATION Spec
CONSTANTS
  k1 = k1
  k2 = k2
  h1 = h1
  h2 = h2
  Key <- TwoKeys
  Host <- OneHost
  MaxAttempts = 2
  AttemptBound = 2
  MaxSearches = 1
SYMMETRY Symmetry
INVARIANTS
  TranscriptMatchesTurns
  HistoryEndsWithPrompt
  ReplyIsOfLatestAttempt
  NoCurrentAttemptStopped
PROPERTIES
  LiveLeaseHolds
  ConversationSpec
CHECK_DEADLOCK FALSE
