SPECIFICATION QuerySpec
CONSTANTS
  MaxTokens = 13
  Texts <- Commented
INVARIANT CommentsSkipped
CHECK_DEADLOCK FALSE
