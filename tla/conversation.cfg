SPECIFICATION ConversationSpec
CONSTANTS
  Keys = {1, 2}
  PageLimit = 1
  Setups <- MCSetups
INVARIANTS KeysAreUnique AnswerFollowsQuestion NeverStranded EndedReadsIdle PagesAreExact
CHECK_DEADLOCK FALSE
