SPECIFICATION Spec
CONSTANTS
  Conn = {c1, c2}
  NoConn = NoConn
  Fd <- SmallFd
  MaxConnections = 2
INVARIANT
  ClosedGivesSocketBack
CHECK_DEADLOCK FALSE
