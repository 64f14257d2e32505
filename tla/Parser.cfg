SPECIFICATION MCSpec
CONSTANTS
  MaxTokens = 10
  Texts <- SomeTexts
INVARIANTS
  TypeOK
  MaximalMunch
  OnlyBlanksSkipped
PROPERTIES
  TreeFollowsPrecedence
  ParserEnds
CHECK_DEADLOCK FALSE
