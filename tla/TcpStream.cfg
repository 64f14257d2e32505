SPECIFICATION Spec
CONSTANTS
  Requests = 3
  ReplyLen = 2
  ReadMax = 3
  InputCap = 4
  TxCap = 3
INVARIANTS
  TypeOK
  NothingLostOrRepeated
  BufferedInOrder
  InOrderWhileUnbuffered
  NoStallInLockstep
  KilledOnlyAfterFin
CHECK_DEADLOCK FALSE
