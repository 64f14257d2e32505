SPECIFICATION QuerySpec
CONSTANTS
  MaxTokens = 24
  Texts <- Inserts
INVARIANT InsertAccepted
CHECK_DEADLOCK FALSE
