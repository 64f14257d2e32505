SPECIFICATION Spec
CONSTANTS
  Challenges = {ch1, ch2}
  Users <- SomeUsers
  Secrets <- SomeSecrets
  Databases = {db1}
  NoDatabase = NoDatabase
  Garbled = Garbled
  Seqs <- SomeSeqs
  RowCounts <- SomeRowCounts
  MaxRequests = 1
INVARIANT
  BadHandshakeAnswered
CHECK_DEADLOCK FALSE
