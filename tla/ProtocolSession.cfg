SPECIFICATION Spec
CONSTANTS
  Challenges = {ch1, ch2}
  Users <- SomeUsers
  Secrets <- SomeSecrets
  Databases = {db1, db2}
  NoDatabase = NoDatabase
  Garbled = Garbled
  Seqs <- SomeSeqs
  RowCounts <- SomeRowCounts
  MaxRequests = 3
SYMMETRY NameSymmetry
INVARIANTS
  TypeOK
  LoginVerdict
  NothingBeforeLogin
  RepliesInOrder
  LockstepAnswered
  SwallowedByTextOnly
  DatabaseAsNamed
CHECK_DEADLOCK FALSE
