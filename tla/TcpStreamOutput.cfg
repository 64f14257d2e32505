SPECIFICATION FairSpec
CONSTANTS
  Requests = 1
  ReplyLen = 5
  ReadMax = 3
  InputCap = 2
  TxCap = 3
PROPERTY
  OutputBufferDrains
CHECK_DEADLOCK FALSE
