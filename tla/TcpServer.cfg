SPECIFICATION OrderedSpec
CONSTANTS
  Conn = {1, 2, 3}
  NoConn = NoConn
  Fd <- SmallFd
  MaxConnections = 2
INVARIANTS
  TypeOK
  OwnsDescriptor
  NoStaleEvent
  SessionIsolation
  EpollMatchesConnections
  AdmissionBound
  StopClosesAllButOne
  StaleEntryIsFree
PROPERTIES
  ResetIsNoticed
  StopEndsLoop
  ArrivalIsTaken
CHECK_DEADLOCK FALSE
