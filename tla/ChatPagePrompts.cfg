SPECIFICATION PatientTalkSpec
CONSTANTS
  s1 = s1
  s2 = s2
  NoCall = NoCall
  Call <- MCTwoCalls
  MaxKeys = 2
  MaxReplies = 1
  MaxFaults = 1
  MaxOpens = 1
  MaxLate = 0
INVARIANTS NoPromptTwice
PROPERTIES PromptsEnd Settles ChatsAreConversations
CHECK_DEADLOCK FALSE
