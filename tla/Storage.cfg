SPECIFICATION Spec
CONSTANTS
  Session = {s1, s2}
  NoDatabase = NoDatabase
  Names <- SomeNames
  Tables <- SomeTables
  IntMax = 8
  LongMax = 9
  Schemas <- SomeSchemas
  Inserts <- SomeInserts
  Selects <- SomeSelects
  MaxRows = 2
  MaxNext = 3
  Lengths <- SomeLengths
  NameTexts <- SomeNameTexts
  ErrorTexts <- SomeErrorTexts
  FirstId = 254
SYMMETRY SessionSymmetry
INVARIANTS
  TypeOK
  RowsFitSchema
  SelectsAsSql
  ReplyReadBack
  DeclaredLengths
PROPERTIES
  FoundByItsLiteral
  ImplementsCatalog
