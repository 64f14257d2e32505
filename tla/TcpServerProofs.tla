---------------------------- MODULE TcpServerProofs ----------------------------
(***************************************************************************)
(* Invariants of module TcpServer for every set of connections, every      *)
(* finite descriptor table and every limit: the type invariant and the     *)
(* properties of who owns what, in three parts that build on each other.   *)
(*                                                                         *)
(* 1. Descriptors and the limit. OwnsDescriptor is inductive on top of the *)
(* type invariant: a number that is freed was owned by the connection      *)
(* closed with it, and accept(2) returns a number that names no socket.    *)
(* AdmissionBound needs to know that there is still room between the check *)
(* of the limit and the insertion, whatever the signal handler and the     *)
(* peers do in between.                                                    *)
(*                                                                         *)
(* 2. Isolation. SessionIsolation is not inductive by itself. An accept    *)
(* must not bring back to life a connection that an entry of connections_  *)
(* still names (FreshInv: what is accepted was never known before), and    *)
(* the callback must not file a handler under a number that meanwhile      *)
(* belongs to another connection (HandlerInv: the new connection still     *)
(* owns its number, or stop() has taken it away and the number is -1).     *)
(*                                                                         *)
(* 3. Events. NoStaleEvent, EpollMatchesConnections, StaleEntryIsFree and  *)
(* StopClosesAllButOne. An event stays its connection's because a number   *)
(* with an event in the batch is only freed when that event is dispatched, *)
(* or by stop(), after which nothing is accepted (EventInv). What epoll    *)
(* watches is told number by number (WatchInv), and an entry that epoll's  *)
(* error event erases is that of a connection that was reset, so that      *)
(* stop() finds every other one in connections_ (OpenInv).                 *)
(***************************************************************************)
EXTENDS TcpServer, FiniteSetTheorems, TLAPS

\* The numbers connections_ has an entry for.
Entries == {f \in Fd : connections[f] # NoConn}

\* The limit, and the room an accept that has passed the check still has.
AdmissionInv ==
  /\ ConnectionCount <= MaxConnections
  /\ pc = "insert" => ConnectionCount < MaxConnections

-----------------------------------------------------------------------------
(* Type correctness *)

LEMMA InitTypeOK == Init => TypeOK
  <1> SUFFICES ASSUME Init  PROVE TypeOK
    OBVIOUS
  <1>1. backlog \in Seq(Conn)
    BY DEF Init
  <1>2. /\ peer \in [Conn -> {"absent", "up", "fin", "reset"}]
        /\ rx \in [Conn -> BOOLEAN] /\ connected \in [Conn -> BOOLEAN]
    BY DEF Init
  <1>3. /\ fdTable \in [Fd -> Conn \cup {NoConn}]
        /\ connections \in [Fd -> Conn \cup {NoConn}]
        /\ protocolHandlers \in [Fd \cup {NoFd} -> Conn \cup {NoConn}]
        /\ fdOf \in [Conn -> Fd \cup {NoFd}]
    BY DEF Init
  <1> QED
    BY <1>1, <1>2, <1>3 DEF Init, TypeOK

\* Closing connections keeps the three tables it changes in their types.
LEMMA CloseConnectionsType ==
  ASSUME TypeOK, NEW cs, CloseConnections(cs)
  PROVE  /\ fdTable' \in [Fd -> Conn \cup {NoConn}]
         /\ connected' \in [Conn -> BOOLEAN]
         /\ fdOf' \in [Conn -> Fd \cup {NoFd}]
  BY DEF TypeOK, CloseConnections

LEMMA HandleCloseType ==
  ASSUME TypeOK, NEW f, HandleClose(f)
  PROVE  /\ interest' \subseteq Fd /\ ready' \subseteq Conn
         /\ connections' \in [Fd -> Conn \cup {NoConn}]
  BY DEF TypeOK, HandleClose

LEMMA WaitType == TypeOK /\ Wait => TypeOK'
  <1> SUFFICES ASSUME TypeOK, Wait  PROVE TypeOK'
    OBVIOUS
  <1>1. batch' \subseteq [fd : Fd, conn : Conn \cup {NoConn}, err : BOOLEAN]
    <2> SUFFICES ASSUME NEW f \in Fd, fdTable[f] \in ready
                 PROVE  Event(f) \in [fd : Fd, conn : Conn \cup {NoConn}, err : BOOLEAN]
      BY DEF Wait, TypeOK
    <2> QED
      BY DEF Event, Failed, TypeOK
  <1>2. acceptDue' \in BOOLEAN /\ ready' = {} /\ listenReady' = FALSE
    BY DEF Wait, TypeOK
  <1>3. pc' \in {"wait", "dispatch"}
    BY DEF Wait
  <1> QED
    BY <1>1, <1>2, <1>3
       DEF Wait, TypeOK, peerVars, connVars, tableVars

LEMMA SignalStopsType == TypeOK /\ SignalStops => TypeOK'
  <1> SUFFICES ASSUME TypeOK, SignalStops  PROVE TypeOK'
    OBVIOUS
  <1>1. CloseConnections(Known)
    BY DEF SignalStops
  <1> HIDE DEF CloseConnections
  <1>2. backlog' \in Seq(Conn) /\ connections' \in [Fd -> Conn \cup {NoConn}]
    BY DEF SignalStops
  <1> QED
    BY <1>1, <1>2, CloseConnectionsType DEF SignalStops, TypeOK, peerVars

LEMMA PeerType == TypeOK /\ Peer => TypeOK'
  <1> SUFFICES ASSUME TypeOK, NEW c \in Conn,
                      Connect(c) \/ PeerSend(c) \/ PeerFin(c) \/ PeerReset(c)
               PROVE  TypeOK'
    BY DEF Peer
  <1>1. CASE Connect(c)
    BY <1>1 DEF Connect, TypeOK, connVars, tableVars, loopVars
  <1>2. CASE PeerSend(c)
    BY <1>2 DEF PeerSend, Edge, TypeOK, connVars, tableVars, loopVars
  <1>3. CASE PeerFin(c)
    BY <1>3 DEF PeerFin, PeerEnds, Edge, TypeOK, connVars, tableVars, loopVars
  <1>4. CASE PeerReset(c)
    BY <1>4 DEF PeerReset, PeerEnds, Edge, TypeOK, connVars, tableVars, loopVars
  <1> QED
    BY <1>1, <1>2, <1>3, <1>4

LEMMA DispatchType == TypeOK /\ Dispatch => TypeOK'
  <1> SUFFICES ASSUME TypeOK, NEW e \in batch,
                      \/ DispatchNothing(e) \/ DispatchError(e) \/ ReadEnd(e)
                      \/ \E keep \in BOOLEAN : ReadMessage(e, keep)
               PROVE  TypeOK'
    BY DEF Dispatch
  <1>1. CASE DispatchNothing(e)
    BY <1>1 DEF DispatchNothing, Consume, TypeOK, kernelVars, peerVars, connVars, tableVars
  <1>2. CASE DispatchError(e)
    BY <1>2, HandleCloseType DEF DispatchError, Consume, TypeOK, peerVars, connVars
  <1>3. CASE ReadEnd(e)
    BY <1>3, HandleCloseType DEF ReadEnd, Consume, ForgetSocket, TypeOK, peerVars
  <1>4. ASSUME NEW keep \in BOOLEAN, ReadMessage(e, keep)  PROVE TypeOK'
    <2> DEFINE c == connections[e.fd]
    <2>1. CloseConnections(IF keep THEN {} ELSE {c})
      BY <1>4 DEF ReadMessage
    <2>2. /\ fdTable' \in [Fd -> Conn \cup {NoConn}]
          /\ connected' \in [Conn -> BOOLEAN]
          /\ fdOf' \in [Conn -> Fd \cup {NoFd}]
      BY <2>1, CloseConnectionsType
    <2>3. batch' \subseteq batch /\ interest' \subseteq interest /\ ready' \subseteq ready
      BY <1>4 DEF ReadMessage, Consume
    <2>4. rx' \in [Conn -> BOOLEAN]
      BY <1>4 DEF ReadMessage, TypeOK
    <2> QED
      BY <1>4, <2>2, <2>3, <2>4 DEF ReadMessage, TypeOK, tableVars
  <1> QED
    BY <1>1, <1>2, <1>3, <1>4

LEMMA AcceptType == TypeOK /\ Accept => TypeOK'
  <1> SUFFICES ASSUME TypeOK, NEW c \in Conn, NEW f \in Fd,
                      AcceptRefuses(c, f) \/ AcceptConnection(c, f)
               PROVE  TypeOK'
    BY DEF Accept, RejectAtLimit, SetupFails
  <1>1. CASE AcceptRefuses(c, f)
    BY <1>1 DEF AcceptRefuses, TypeOK, peerVars, connVars, tableVars
  <1>2. CASE AcceptConnection(c, f)
    BY <1>2 DEF AcceptConnection, TypeOK, peerVars, tableVars
  <1> QED
    BY <1>1, <1>2

LEMMA NextTypeOK == TypeOK /\ [Next]_vars => TypeOK'
  <1> SUFFICES ASSUME TypeOK, [Next]_vars  PROVE TypeOK'
    OBVIOUS
  <1> USE DEF kernelVars, peerVars, connVars, tableVars, loopVars
  <1>1. CASE Start
    BY <1>1 DEF Start, StartFails, StartListening, TypeOK
  <1>2. CASE Signal
    BY <1>2, SignalStopsType DEF Signal, SignalIgnored, TypeOK
  <1>3. CASE Peer
    BY <1>3, PeerType
  <1>4. CASE Wait
    BY <1>4, WaitType
  <1>5. CASE LoopExit \/ EndOfBatch \/ AcceptDone
    BY <1>5 DEF LoopExit, EndOfBatch, AcceptDone, TypeOK
  <1>6. CASE DispatchListen
    BY <1>6 DEF DispatchListen, TypeOK
  <1>7. CASE Dispatch
    BY <1>7, DispatchType
  <1>8. CASE Accept
    BY <1>8, AcceptType
  <1>9. CASE InsertConnection
    BY <1>9 DEF InsertConnection, TypeOK
  <1>10. CASE ConnectionCallback
    BY <1>10 DEF ConnectionCallback, FileHandler, TypeOK
  <1>11. CASE UNCHANGED vars
    BY <1>11 DEF vars, TypeOK
  <1> QED
    BY <1>1, <1>2, <1>3, <1>4, <1>5, <1>6, <1>7, <1>8, <1>9, <1>10, <1>11 DEF Next, Loop

\* Every variable of the server, the kernel and the peers stays in its domain.
THEOREM TypeCorrect == Spec => []TypeOK
  BY InitTypeOK, NextTypeOK, PTL DEF Spec

-----------------------------------------------------------------------------
(* Ownership of descriptor numbers *)

\* Two connections that own their numbers do not share one, so freeing the numbers of
\* some connections leaves the others theirs.
LEMMA CloseConnectionsOwns ==
  ASSUME TypeOK, OwnsDescriptor, NEW cs \in SUBSET Conn, CloseConnections(cs)
  PROVE  OwnsDescriptor'
  <1> SUFFICES ASSUME NEW c \in Conn, connected'[c]
               PROVE  fdOf'[c] \in Fd /\ fdTable'[fdOf'[c]] = c
    BY DEF OwnsDescriptor
  <1>1. connected[c] /\ c \notin cs /\ fdOf'[c] = fdOf[c]
    BY DEF CloseConnections, TypeOK
  <1>2. fdOf[c] \in Fd /\ fdTable[fdOf[c]] = c
    BY <1>1 DEF OwnsDescriptor
  <1>3. fdOf[c] \notin Numbers(cs)
    <2> SUFFICES ASSUME NEW d \in cs, connected[d], fdOf[d] = fdOf[c]  PROVE FALSE
      BY DEF Numbers
    <2> QED
      BY <1>1, <1>2 DEF OwnsDescriptor
  <1>4. fdTable'[fdOf[c]] = fdTable[fdOf[c]]
    BY <1>2, <1>3 DEF CloseConnections
  <1> QED
    BY <1>1, <1>2, <1>4

LEMMA DispatchOwns == TypeOK /\ OwnsDescriptor /\ Dispatch => OwnsDescriptor'
  <1> SUFFICES ASSUME TypeOK, OwnsDescriptor, NEW e \in batch,
                      \/ DispatchNothing(e) \/ DispatchError(e) \/ ReadEnd(e)
                      \/ \E keep \in BOOLEAN : ReadMessage(e, keep)
               PROVE  OwnsDescriptor'
    BY DEF Dispatch
  <1>1. CASE DispatchNothing(e)
    BY <1>1 DEF DispatchNothing, OwnsDescriptor, kernelVars, connVars
  <1>2. CASE DispatchError(e)
    BY <1>2 DEF DispatchError, OwnsDescriptor, connVars
  <1>3. CASE ReadEnd(e)
    BY <1>3 DEF ReadEnd, ForgetSocket, OwnsDescriptor, TypeOK
  <1>4. ASSUME NEW keep \in BOOLEAN, ReadMessage(e, keep)  PROVE OwnsDescriptor'
    <2> DEFINE closed == IF keep THEN {} ELSE {connections[e.fd]}
    <2>1. CloseConnections(closed)
      BY <1>4 DEF ReadMessage
    <2>2. connections[e.fd] \in Conn
      BY <1>4 DEF ReadMessage, HasWork, TypeOK
    <2>3. closed \in SUBSET Conn
      BY <2>2
    <2> HIDE DEF closed
    <2> QED
      BY <2>1, <2>3, CloseConnectionsOwns
  <1> QED
    BY <1>1, <1>2, <1>3, <1>4

\* accept(2) returns a number that names no socket, so nobody owned it.
LEMMA AcceptOwns == TypeOK /\ OwnsDescriptor /\ Accept => OwnsDescriptor'
  <1> SUFFICES ASSUME TypeOK, OwnsDescriptor, NEW c \in Conn, NEW f \in Fd,
                      AcceptRefuses(c, f) \/ AcceptConnection(c, f)
               PROVE  OwnsDescriptor'
    BY DEF Accept, RejectAtLimit, SetupFails
  <1>1. CASE AcceptRefuses(c, f)
    BY <1>1 DEF AcceptRefuses, OwnsDescriptor, connVars
  <1>2. CASE AcceptConnection(c, f)
    <2> SUFFICES ASSUME NEW d \in Conn, connected'[d]
                 PROVE  fdOf'[d] \in Fd /\ fdTable'[fdOf'[d]] = d
      BY DEF OwnsDescriptor
    <2>1. CASE d = c
      BY <1>2, <2>1 DEF AcceptConnection, TypeOK
    <2>2. CASE d # c
      <3>1. connected[d] /\ fdOf'[d] = fdOf[d]
        BY <1>2, <2>2 DEF AcceptConnection, TypeOK
      <3>2. fdOf[d] \in Fd /\ fdTable[fdOf[d]] = d
        BY <3>1 DEF OwnsDescriptor
      <3>3. fdOf[d] # f
        BY <1>2, <3>2, ConnAssumption DEF AcceptConnection, IsLowestFree
      <3> QED
        BY <1>2, <3>1, <3>2, <3>3 DEF AcceptConnection, TypeOK
    <2> QED
      BY <2>1, <2>2
  <1> QED
    BY <1>1, <1>2

LEMMA NextOwns == TypeOK /\ OwnsDescriptor /\ [Next]_vars => OwnsDescriptor'
  <1> SUFFICES ASSUME TypeOK, OwnsDescriptor, [Next]_vars  PROVE OwnsDescriptor'
    OBVIOUS
  <1>1. CASE SignalStops
    <2>1. Known \in SUBSET Conn
      BY DEF Known, TypeOK
    <2> QED
      BY <1>1, <2>1, CloseConnectionsOwns DEF SignalStops
  <1>2. CASE Dispatch
    BY <1>2, DispatchOwns
  <1>3. CASE Accept
    BY <1>3, AcceptOwns
  <1>4. ASSUME UNCHANGED <<fdTable, fdOf, connected>>  PROVE OwnsDescriptor'
    BY <1>4 DEF OwnsDescriptor
  <1>5. CASE Start \/ SignalIgnored \/ Wait \/ LoopExit \/ EndOfBatch \/ DispatchListen
    BY <1>4, <1>5
       DEF Start, StartFails, StartListening, SignalIgnored, Wait, LoopExit, EndOfBatch,
           DispatchListen, kernelVars, connVars
  <1>6. CASE AcceptDone \/ InsertConnection \/ ConnectionCallback
    BY <1>4, <1>6 DEF AcceptDone, InsertConnection, ConnectionCallback, kernelVars, connVars
  <1>7. CASE Peer
    BY <1>4, <1>7 DEF Peer, Connect, PeerSend, PeerFin, PeerReset, PeerEnds, connVars
  <1>8. CASE UNCHANGED vars
    BY <1>4, <1>8 DEF vars, kernelVars, connVars
  <1> QED
    BY <1>1, <1>2, <1>3, <1>5, <1>6, <1>7, <1>8 DEF Next, Loop, Signal

\* A connected TcpConnection always holds a number that names its own socket, so close(),
\* read() and write() of one client never reach the socket of another, however numbers
\* are freed and reused.
THEOREM OwnershipSafe == Spec => []OwnsDescriptor
  <1>1. Init => OwnsDescriptor
    BY DEF Init, OwnsDescriptor
  <1> QED
    BY <1>1, InitTypeOK, NextTypeOK, NextOwns, PTL DEF Spec

-----------------------------------------------------------------------------
(* The limit on connections *)

LEMMA EntriesFinite == IsFiniteSet(Entries) /\ Cardinality(Entries) \in Nat
  BY FdAssumption, FS_Subset, FS_CardinalityType DEF Entries

LEMMA CountIsEntries == ConnectionCount = Cardinality(Entries)
  BY DEF ConnectionCount, Entries

\* Erasing entries of connections_ cannot break the limit.
LEMMA FewerEntries ==
  ASSUME AdmissionInv, Entries' \subseteq Entries, pc' = "insert" => pc = "insert"
  PROVE  AdmissionInv'
  <1>1. Cardinality(Entries') <= Cardinality(Entries)
    BY EntriesFinite, FS_Subset
  <1>2. Cardinality(Entries') \in Nat
    BY EntriesFinite, FS_Subset, FS_CardinalityType
  <1>3. ConnectionCount' = Cardinality(Entries')
    BY DEF ConnectionCount, Entries
  <1> QED
    BY <1>1, <1>2, <1>3, CountIsEntries, EntriesFinite, MaxConnectionsAssumption
       DEF AdmissionInv

LEMMA InitAdmission == Init => AdmissionInv
  <1> SUFFICES ASSUME Init  PROVE AdmissionInv
    OBVIOUS
  <1>1. Entries = {}
    BY DEF Init, Entries
  <1>2. ConnectionCount = 0
    BY <1>1, CountIsEntries, FS_EmptySet
  <1> QED
    BY <1>2, MaxConnectionsAssumption DEF Init, AdmissionInv

\* The entry that is inserted is the one the check of the limit left room for.
LEMMA InsertAdmission == TypeOK /\ AdmissionInv /\ InsertConnection => AdmissionInv'
  <1> SUFFICES ASSUME TypeOK, AdmissionInv, InsertConnection  PROVE AdmissionInv'
    OBVIOUS
  <1> DEFINE f == fdOf[newConn]
  <1>1. Entries' \subseteq Entries \cup {f}
    BY DEF InsertConnection, Entries, TypeOK
  <1>2. /\ IsFiniteSet(Entries \cup {f})
        /\ Cardinality(Entries \cup {f}) <= Cardinality(Entries) + 1
    BY EntriesFinite, FS_AddElement
  <1>3. /\ Cardinality(Entries') <= Cardinality(Entries \cup {f})
        /\ Cardinality(Entries') \in Nat /\ Cardinality(Entries \cup {f}) \in Nat
    BY <1>1, <1>2, FS_Subset, FS_CardinalityType
  <1>4. ConnectionCount' = Cardinality(Entries')
    BY DEF ConnectionCount, Entries
  <1>5. Cardinality(Entries) < MaxConnections
    BY CountIsEntries DEF AdmissionInv, InsertConnection
  <1>6. pc' = "callback"
    BY DEF InsertConnection
  <1> QED
    BY <1>2, <1>3, <1>4, <1>5, <1>6, EntriesFinite, MaxConnectionsAssumption
       DEF AdmissionInv

LEMMA NextAdmission == TypeOK /\ AdmissionInv /\ [Next]_vars => AdmissionInv'
  <1> SUFFICES ASSUME TypeOK, AdmissionInv, [Next]_vars  PROVE AdmissionInv'
    OBVIOUS
  <1> USE DEF kernelVars, peerVars, connVars, tableVars, loopVars
  <1>1. ASSUME UNCHANGED connections, pc' = "insert" => pc = "insert"
        PROVE  AdmissionInv'
    <2>1. Entries' \subseteq Entries
      BY <1>1 DEF Entries
    <2> QED
      BY <1>1, <2>1, FewerEntries
  <1>2. CASE Start \/ SignalIgnored \/ Wait \/ LoopExit \/ EndOfBatch \/ DispatchListen
    BY <1>1, <1>2
       DEF Start, StartFails, StartListening, SignalIgnored, Wait, LoopExit, EndOfBatch,
           DispatchListen
  <1>3. CASE AcceptDone \/ ConnectionCallback
    BY <1>1, <1>3 DEF AcceptDone, ConnectionCallback
  <1>4. CASE Peer
    BY <1>1, <1>4 DEF Peer, Connect, PeerSend, PeerFin, PeerReset, PeerEnds
  <1>5. CASE SignalStops
    <2>1. Entries' = {}
      BY <1>5 DEF SignalStops, Entries
    <2>2. pc' = pc
      BY <1>5 DEF SignalStops
    <2> QED
      BY <2>1, <2>2, FewerEntries
  <1>6. ASSUME NEW e \in batch, DispatchNothing(e)  PROVE AdmissionInv'
    BY <1>1, <1>6 DEF DispatchNothing
  <1>7. ASSUME NEW e \in batch, NEW keep \in BOOLEAN, ReadMessage(e, keep)
        PROVE  AdmissionInv'
    BY <1>1, <1>7 DEF ReadMessage
  <1>8. ASSUME NEW f, HandleClose(f), pc' = pc  PROVE AdmissionInv'
    <2>1. Entries' \subseteq Entries
      BY <1>8 DEF HandleClose, Entries, TypeOK
    <2> QED
      BY <1>8, <2>1, FewerEntries
  <1>9. ASSUME NEW e \in batch, DispatchError(e) \/ ReadEnd(e)  PROVE AdmissionInv'
    BY <1>8, <1>9 DEF DispatchError, ReadEnd
  <1>10. CASE Dispatch
    BY <1>6, <1>7, <1>9, <1>10 DEF Dispatch
  <1>11. ASSUME NEW c \in Conn, NEW f \in Fd, AcceptRefuses(c, f)  PROVE AdmissionInv'
    BY <1>1, <1>11 DEF AcceptRefuses
  <1>12. ASSUME NEW c \in Conn, NEW f \in Fd, AcceptConnection(c, f)
         PROVE  AdmissionInv'
    <2>1. ConnectionCount' = ConnectionCount
      BY <1>12 DEF AcceptConnection, ConnectionCount
    <2>2. ConnectionCount < MaxConnections
      BY <1>12, CountIsEntries, EntriesFinite, MaxConnectionsAssumption
         DEF AcceptConnection, AtLimit
    <2> QED
      BY <2>1, <2>2 DEF AdmissionInv
  <1>13. CASE Accept
    BY <1>11, <1>12, <1>13 DEF Accept, RejectAtLimit, SetupFails
  <1>14. CASE InsertConnection
    BY <1>14, InsertAdmission
  <1>15. CASE UNCHANGED vars
    BY <1>1, <1>15 DEF vars
  <1> QED
    BY <1>2, <1>3, <1>4, <1>5, <1>10, <1>13, <1>14, <1>15 DEF Next, Loop, Signal

\* connections_ never holds more than max_connections_ entries, although an accept checks
\* its size and inserts in separate steps.
THEOREM AdmissionSafe == Spec => []AdmissionBound
  <1>1. AdmissionInv => AdmissionBound
    BY DEF AdmissionInv, AdmissionBound
  <1> QED
    BY <1>1, InitTypeOK, NextTypeOK, InitAdmission, NextAdmission, PTL DEF Spec

-----------------------------------------------------------------------------
(* Part 2: isolation of sessions *)

\* The server has not met connection c.
Fresh(c) == ~connected[c] /\ newConn # c /\ \A f \in Fd : connections[f] # c

\* Connections that have not been made, or not been accepted, are fresh, and the backlog
\* has each of them at most once.
FreshInv ==
  /\ \A c \in Conn : peer[c] = "absent" => Fresh(c) /\ ~IsPending(c)
  /\ \A c \in Conn : IsPending(c) => Fresh(c)
  /\ \A i, j \in 1 .. Len(backlog) : backlog[i] = backlog[j] => i = j

\* Between accept and callback the new connection owns its number, or has none.
HandlerInv ==
  /\ pc \in {"insert", "callback"} =>
       newConn \in Conn /\ (connected[newConn] \/ fdOf[newConn] = NoFd)
  /\ SessionIsolation


-----------------------------------------------------------------------------
(* Connections are accepted once *)

LEMMA InitFresh == Init => FreshInv
  BY ConnAssumption DEF Init, FreshInv, Fresh, IsPending

\* A step that makes no connection known keeps the fresh ones fresh.
LEMMA FreshStays ==
  ASSUME TypeOK, FreshInv,
         backlog' = backlog \/ backlog' = <<>>,
         newConn' \in {newConn, NoConn},
         \A c \in Conn : /\ peer'[c] = "absent" => peer[c] = "absent"
                         /\ connected'[c] => connected[c],
         \A f \in Fd : connections'[f] \in {connections[f], NoConn}
  PROVE  FreshInv'
  <1>1. ASSUME NEW c \in Conn, Fresh(c)  PROVE Fresh(c)'
    BY <1>1, ConnAssumption DEF Fresh
  <1>2. ASSUME NEW c \in Conn, IsPending(c)'  PROVE IsPending(c)
    BY <1>2 DEF IsPending
  <1>3. \A i, j \in 1 .. Len(backlog') : backlog'[i] = backlog'[j] => i = j
    BY DEF FreshInv
  <1> QED
    BY <1>1, <1>2, <1>3 DEF FreshInv

\* A client that connects was fresh, and was not in the backlog.
LEMMA ConnectFresh ==
  ASSUME TypeOK, FreshInv, NEW c \in Conn, Connect(c)
  PROVE  FreshInv'
  <1>1. /\ Len(backlog') = Len(backlog) + 1 /\ Len(backlog) \in Nat
        /\ \A i \in 1 .. Len(backlog) : backlog'[i] = backlog[i]
        /\ backlog'[Len(backlog) + 1] = c
        /\ DOMAIN backlog = 1 .. Len(backlog) /\ DOMAIN backlog' = 1 .. Len(backlog')
    BY DEF Connect, TypeOK
  <1>2. ASSUME NEW d \in Conn, Fresh(d)  PROVE Fresh(d)'
    BY <1>2 DEF Connect, Fresh, connVars, tableVars, loopVars
  <1>3. Fresh(c) /\ ~IsPending(c)
    BY DEF Connect, FreshInv
  <1>4. ASSUME NEW d \in Conn, peer'[d] = "absent"  PROVE d # c /\ peer[d] = "absent"
    BY <1>4 DEF Connect, TypeOK
  <1>5. \A i \in 1 .. Len(backlog') : i \in 1 .. Len(backlog) \/ i = Len(backlog) + 1
    BY <1>1
  <1>6. ASSUME NEW d \in Conn, IsPending(d)'  PROVE IsPending(d) \/ d = c
    BY <1>1, <1>5, <1>6 DEF IsPending
  <1>7. \A i \in 1 .. Len(backlog) : backlog[i] # c
    BY <1>1, <1>3 DEF IsPending
  <1>8. \A i, j \in 1 .. Len(backlog') : backlog'[i] = backlog'[j] => i = j
    BY <1>1, <1>5, <1>7 DEF FreshInv
  <1> QED
    BY <1>2, <1>3, <1>4, <1>6, <1>8 DEF FreshInv

\* accept(2) takes a connection out of the backlog, and it is not in there again.
LEMMA AcceptFresh ==
  ASSUME TypeOK, FreshInv, NEW c \in Conn, NEW f \in Fd,
         AcceptRefuses(c, f) \/ AcceptConnection(c, f)
  PROVE  FreshInv'
  <1>1. /\ backlog # <<>> /\ c = backlog[1] /\ backlog' = Tail(backlog)
        /\ backlog \in Seq(Conn)
    BY DEF AcceptRefuses, AcceptConnection, TypeOK
  <1>2. /\ Len(backlog) \in Nat /\ Len(backlog) >= 1
        /\ Len(backlog') = Len(backlog) - 1
        /\ \A i \in 1 .. Len(backlog') : backlog'[i] = backlog[i + 1]
        /\ DOMAIN backlog = 1 .. Len(backlog) /\ DOMAIN backlog' = 1 .. Len(backlog')
    BY <1>1
  <1>3. \A i \in 1 .. Len(backlog') : i + 1 \in 1 .. Len(backlog) /\ i + 1 # 1
    BY <1>2
  <1>4. ASSUME NEW d \in Conn, d # c, Fresh(d)  PROVE Fresh(d)'
    BY <1>4 DEF AcceptRefuses, AcceptConnection, Fresh, TypeOK, peerVars, connVars, tableVars
  <1>5. IsPending(c)
    BY <1>1, <1>2 DEF IsPending
  <1>6. ASSUME NEW d \in Conn, peer'[d] = "absent"  PROVE peer[d] = "absent" /\ d # c
    BY <1>5, <1>6 DEF AcceptRefuses, AcceptConnection, FreshInv, peerVars
  <1>7. ASSUME NEW d \in Conn, IsPending(d)'  PROVE IsPending(d) /\ d # c
    <2>1. PICK i \in 1 .. Len(backlog') : backlog'[i] = d
      BY <1>2, <1>7 DEF IsPending
    <2>2. backlog[i + 1] = d /\ i + 1 \in 1 .. Len(backlog) /\ i + 1 # 1
      BY <2>1, <1>2, <1>3
    <2>3. 1 \in 1 .. Len(backlog)
      BY <1>2
    <2> QED
      BY <2>2, <2>3, <1>1, <1>2 DEF IsPending, FreshInv
  <1>8. ASSUME NEW i \in 1 .. Len(backlog'), NEW j \in 1 .. Len(backlog'),
               backlog'[i] = backlog'[j]
        PROVE  i = j
    <2>1. backlog[i + 1] = backlog[j + 1]
      BY <1>2, <1>8
    <2>2. i + 1 = j + 1
      BY <2>1, <1>3 DEF FreshInv
    <2> QED
      BY <2>2, <1>2
  <1> QED
    BY <1>4, <1>6, <1>7, <1>8 DEF FreshInv

\* The connection that becomes known was newConn, and so not fresh.
LEMMA InsertFresh ==
  ASSUME TypeOK, FreshInv, InsertConnection
  PROVE  FreshInv'
  <1>1. ASSUME NEW c \in Conn, Fresh(c)  PROVE Fresh(c)'
    BY <1>1 DEF InsertConnection, Fresh, TypeOK, connVars
  <1>2. ASSUME NEW c \in Conn  PROVE IsPending(c)' = IsPending(c)
    BY DEF IsPending, InsertConnection, kernelVars
  <1> QED
    BY <1>1, <1>2 DEF InsertConnection, FreshInv, kernelVars, peerVars

LEMMA NextFresh == TypeOK /\ FreshInv /\ [Next]_vars => FreshInv'
  <1> SUFFICES ASSUME TypeOK, FreshInv, [Next]_vars  PROVE FreshInv'
    OBVIOUS
  <1>1. ASSUME UNCHANGED <<backlog, peer, connVars, connections>>,
               newConn' \in {newConn, NoConn}
        PROVE  FreshInv'
    BY <1>1, FreshStays DEF connVars
  <1>2. CASE Start \/ SignalIgnored \/ Wait \/ LoopExit \/ EndOfBatch \/ DispatchListen
    BY <1>1, <1>2
       DEF Start, StartFails, StartListening, SignalIgnored, Wait, LoopExit, EndOfBatch,
           DispatchListen, kernelVars, peerVars, tableVars, loopVars
  <1>3. CASE AcceptDone \/ ConnectionCallback
    BY <1>1, <1>3 DEF AcceptDone, ConnectionCallback, kernelVars, peerVars, tableVars
  <1>4. CASE SignalStops
    <2>1. \A c \in Conn : connected'[c] => connected[c]
      BY <1>4 DEF SignalStops, CloseConnections
    <2>2. \A f \in Fd : connections'[f] = NoConn
      BY <1>4 DEF SignalStops
    <2> QED
      BY <1>4, <2>1, <2>2, FreshStays DEF SignalStops, peerVars
  <1>5. ASSUME NEW c \in Conn, PeerSend(c) \/ PeerFin(c) \/ PeerReset(c)
        PROVE  FreshInv'
    <2>1. \A d \in Conn : peer'[d] = "absent" => peer[d] = "absent"
      BY <1>5 DEF PeerSend, PeerFin, PeerReset, PeerEnds, TypeOK
    <2> QED
      BY <1>5, <2>1, FreshStays
         DEF PeerSend, PeerFin, PeerReset, PeerEnds, connVars, tableVars, loopVars
  <1>6. CASE Peer
    BY <1>5, <1>6, ConnectFresh DEF Peer
  <1>7. ASSUME NEW e \in batch, DispatchNothing(e)  PROVE FreshInv'
    BY <1>1, <1>7 DEF DispatchNothing, kernelVars, peerVars, tableVars
  <1>8. ASSUME NEW e \in batch, NEW keep \in BOOLEAN, ReadMessage(e, keep)
        PROVE  FreshInv'
    <2>1. \A c \in Conn : connected'[c] => connected[c]
      BY <1>8 DEF ReadMessage, CloseConnections
    <2> QED
      BY <1>8, <2>1, FreshStays DEF ReadMessage, tableVars
  <1>9. ASSUME NEW e \in batch, DispatchError(e) \/ ReadEnd(e)  PROVE FreshInv'
    <2>1. \A c \in Conn : connected'[c] => connected[c]
      BY <1>9 DEF DispatchError, ReadEnd, ForgetSocket, TypeOK, connVars
    <2>2. \A f \in Fd : connections'[f] \in {connections[f], NoConn}
      BY <1>9 DEF DispatchError, ReadEnd, HandleClose, TypeOK
    <2> QED
      BY <1>9, <2>1, <2>2, FreshStays DEF DispatchError, ReadEnd, peerVars
  <1>10. CASE Dispatch
    BY <1>7, <1>8, <1>9, <1>10 DEF Dispatch
  <1>11. CASE Accept
    BY <1>11, AcceptFresh DEF Accept, RejectAtLimit, SetupFails
  <1>12. CASE InsertConnection
    BY <1>12, InsertFresh
  <1>13. CASE UNCHANGED vars
    BY <1>1, <1>13 DEF vars, kernelVars, peerVars, tableVars, loopVars
  <1> QED
    BY <1>2, <1>3, <1>4, <1>6, <1>10, <1>11, <1>12, <1>13 DEF Next, Loop, Signal

-----------------------------------------------------------------------------
(* Handlers *)

LEMMA InitHandler == Init => HandlerInv
  BY ConnAssumption DEF Init, HandlerInv, SessionIsolation, Live, Known

\* What SessionIsolation says of a number, without the sets.
LEMMA LiveEntry ==
  ASSUME TypeOK, NEW f \in Fd
  PROVE  connections[f] \in Live <=> connections[f] # NoConn /\ connected[connections[f]]
  BY DEF Live, Known, TypeOK

\* A step that only takes connections away from connections_, or closes them.
LEMMA HandlerStays ==
  ASSUME TypeOK, TypeOK', HandlerInv,
         \A f \in Fd : connections'[f] \in {connections[f], NoConn},
         \A c \in Conn : connected'[c] => connected[c] /\ fdOf'[c] = fdOf[c],
         \A c \in Conn : connected[c] =>
           connected'[c] \/ fdOf'[c] = NoFd \/ pc' \notin {"insert", "callback"},
         \A c \in Conn : fdOf[c] = NoFd => fdOf'[c] = NoFd,
         \A f \in Fd : connections'[f] # NoConn /\ connected'[connections'[f]]
                         => protocolHandlers'[f] = protocolHandlers[f],
         pc' \in {"insert", "callback"} => pc' = pc /\ newConn' = newConn,
         pc = "callback" => pc' = pc
  PROVE  HandlerInv'
  <1>1. pc' \in {"insert", "callback"} =>
          newConn' \in Conn /\ (connected'[newConn'] \/ fdOf'[newConn'] = NoFd)
    BY DEF HandlerInv
  <1>2. ASSUME NEW f \in Fd, (connections[f] \in Live)'
        PROVE  /\ fdOf'[connections'[f]] = f
               /\ \/ protocolHandlers'[f] = connections'[f]
                  \/ pc' = "callback" /\ newConn' = connections'[f]
    <2> DEFINE c == connections'[f]
    <2>1. c # NoConn /\ connected'[c] /\ c \in Conn
      BY <1>2 DEF Live, Known, TypeOK
    <2>2. connections[f] = c /\ connected[c] /\ fdOf'[c] = fdOf[c]
      BY <2>1
    <2>3. connections[f] \in Live
      BY <2>1, <2>2, LiveEntry
    <2>4. fdOf[c] = f /\ (protocolHandlers[f] = c \/ (pc = "callback" /\ newConn = c))
      BY <2>2, <2>3 DEF HandlerInv, SessionIsolation
    <2> QED
      BY <2>1, <2>2, <2>4
  <1> QED
    BY <1>1, <1>2 DEF HandlerInv, SessionIsolation

\* stop() closes the new connection only if it has been inserted, and leaves no entry.
LEMMA SignalHandler ==
  ASSUME TypeOK, TypeOK', HandlerInv, SignalStops
  PROVE  HandlerInv'
  <1>1. \A f \in Fd : connections'[f] = NoConn
    BY DEF SignalStops
  <1>2. \A c \in Conn : connected'[c] => connected[c] /\ fdOf'[c] = fdOf[c]
    BY DEF SignalStops, CloseConnections, TypeOK
  <1>3. \A c \in Conn : connected[c] => connected'[c] \/ fdOf'[c] = NoFd
    BY DEF SignalStops, CloseConnections, TypeOK
  <1>4. \A c \in Conn : fdOf[c] = NoFd => fdOf'[c] = NoFd
    BY DEF SignalStops, CloseConnections
  <1> QED
    BY <1>1, <1>2, <1>3, <1>4, HandlerStays DEF SignalStops

\* The number a peer's end of stream unregisters, and whose handler it deletes, is the
\* connection's own.
LEMMA DispatchHandler ==
  ASSUME TypeOK, TypeOK', OwnsDescriptor, HandlerInv, NEW e \in batch,
         \/ DispatchNothing(e) \/ DispatchError(e) \/ ReadEnd(e)
         \/ \E keep \in BOOLEAN : ReadMessage(e, keep)
  PROVE  HandlerInv'
  <1>1. pc = "dispatch" /\ pc' = pc
    BY DEF DispatchNothing, DispatchError, ReadEnd, ReadMessage
  <1>2. CASE DispatchNothing(e)
    BY <1>1, <1>2, HandlerStays
       DEF DispatchNothing, kernelVars, peerVars, connVars, tableVars
  <1>3. CASE DispatchError(e)
    <2>1. \A f \in Fd : connections'[f] \in {connections[f], NoConn}
      BY <1>3 DEF DispatchError, HandleClose, TypeOK
    <2> QED
      BY <1>1, <1>3, <2>1, HandlerStays DEF DispatchError, connVars
  <1>4. ASSUME NEW keep \in BOOLEAN, ReadMessage(e, keep)  PROVE HandlerInv'
    <2>1. \A c \in Conn : connected'[c] => connected[c] /\ fdOf'[c] = fdOf[c]
      BY <1>4 DEF ReadMessage, CloseConnections, TypeOK
    <2>2. \A c \in Conn : fdOf[c] = NoFd => fdOf'[c] = NoFd
      BY <1>4 DEF ReadMessage, CloseConnections
    <2> QED
      BY <1>1, <1>4, <2>1, <2>2, HandlerStays DEF ReadMessage, tableVars
  <1>5. CASE ReadEnd(e)
    <2> DEFINE c == connections[e.fd]
    <2>1. c \in Conn /\ connected[c]
      BY <1>5 DEF ReadEnd, HasWork, TypeOK
    <2>2. fdOf[c] \in Fd /\ fdTable[fdOf[c]] = c
      BY <2>1 DEF OwnsDescriptor
    <2>3. /\ \A f \in Fd : connections'[f] = IF f = fdOf[c] THEN NoConn ELSE connections[f]
          /\ \A f \in Fd : f # fdOf[c] => protocolHandlers'[f] = protocolHandlers[f]
      BY <1>5 DEF ReadEnd, HandleClose, TypeOK
    <2>4. \A d \in Conn : connected'[d] => connected[d]
      BY <1>5 DEF ReadEnd, ForgetSocket, TypeOK
    <2>5. fdOf' = fdOf
      BY <1>5 DEF ReadEnd, ForgetSocket
    <2> QED
      BY <1>1, <2>3, <2>4, <2>5, HandlerStays
  <1> QED
    BY <1>2, <1>3, <1>4, <1>5

\* No entry names the connection that is accepted, so nothing else comes to life.
LEMMA AcceptHandler ==
  ASSUME TypeOK, TypeOK', FreshInv, HandlerInv, NEW c \in Conn, NEW f \in Fd,
         AcceptConnection(c, f)
  PROVE  HandlerInv'
  <1>1. Fresh(c)
    <2>1. IsPending(c)
      BY DEF AcceptConnection, IsPending, TypeOK
    <2> QED
      BY <2>1 DEF FreshInv
  <1>2. pc' = "insert" /\ newConn' = c /\ connected'[c]
    BY DEF AcceptConnection, TypeOK
  <1>3. ASSUME NEW g \in Fd, (connections[g] \in Live)'
        PROVE  fdOf'[connections'[g]] = g /\ protocolHandlers'[g] = connections'[g]
    <2> DEFINE d == connections[g]
    <2>1. connections' = connections /\ protocolHandlers' = protocolHandlers
      BY DEF AcceptConnection, tableVars
    <2>2. d # NoConn /\ connected'[d] /\ d \in Conn
      BY <1>3, <2>1 DEF Live, Known, TypeOK
    <2>3. d # c
      BY <1>1 DEF Fresh
    <2>4. connected[d] /\ fdOf'[d] = fdOf[d]
      BY <2>2, <2>3 DEF AcceptConnection, TypeOK
    <2>5. connections[g] \in Live
      BY <2>2, <2>4, LiveEntry
    <2>6. fdOf[d] = g /\ protocolHandlers[g] = d
      BY <2>5 DEF HandlerInv, SessionIsolation, AcceptConnection
    <2> QED
      BY <2>1, <2>4, <2>6
  <1> QED
    BY <1>2, <1>3 DEF HandlerInv, SessionIsolation

\* The new entry is under the number the new connection holds.
LEMMA InsertHandler ==
  ASSUME TypeOK, TypeOK', HandlerInv, InsertConnection
  PROVE  HandlerInv'
  <1>1. /\ newConn \in Conn /\ (connected[newConn] \/ fdOf[newConn] = NoFd)
        /\ pc' = "callback"
        /\ UNCHANGED <<newConn, fdOf, connected, protocolHandlers>>
    BY DEF HandlerInv, InsertConnection, connVars
  <1>2. ASSUME NEW f \in Fd, (connections[f] \in Live)'
        PROVE  /\ fdOf'[connections'[f]] = f
               /\ protocolHandlers'[f] = connections'[f] \/ newConn' = connections'[f]
    <2>1. CASE f = fdOf[newConn]
      BY <1>1, <2>1 DEF InsertConnection, TypeOK
    <2>2. CASE f # fdOf[newConn]
      <3>1. connections'[f] = connections[f]
        BY <2>2 DEF InsertConnection, TypeOK
      <3>2. connections[f] # NoConn /\ connected[connections[f]]
        BY <1>1, <1>2, <3>1 DEF Live, Known
      <3>3. connections[f] \in Live
        BY <3>2, LiveEntry
      <3> QED
        BY <1>1, <3>1, <3>3 DEF HandlerInv, SessionIsolation
    <2> QED
      BY <2>1, <2>2
  <1> QED
    BY <1>1, <1>2 DEF HandlerInv, SessionIsolation

\* The handler replaces only what was filed under the new connection's own number.
LEMMA CallbackHandler ==
  ASSUME TypeOK, OwnsDescriptor, HandlerInv, ConnectionCallback
  PROVE  HandlerInv'
  <1>1. /\ newConn \in Conn /\ (connected[newConn] \/ fdOf[newConn] = NoFd)
        /\ pc' = "accept"
        /\ UNCHANGED <<connections, fdOf, connected>>
    BY DEF HandlerInv, ConnectionCallback, connVars
  <1>2. ASSUME NEW f \in Fd, (connections[f] \in Live)'
        PROVE  fdOf'[connections'[f]] = f /\ protocolHandlers'[f] = connections'[f]
    <2> DEFINE c == connections[f]
    <2>1. c \in Live
      BY <1>1, <1>2 DEF Live, Known
    <2>2. c \in Conn /\ connected[c]
      BY <2>1 DEF Live, Known, TypeOK
    <2>3. fdOf[c] = f /\ (protocolHandlers[f] = c \/ newConn = c)
      BY <2>1 DEF HandlerInv, SessionIsolation
    <2>4. protocolHandlers'[f] = IF f = fdOf[newConn] THEN newConn ELSE protocolHandlers[f]
      BY DEF ConnectionCallback, FileHandler, TypeOK
    <2>5. CASE f = fdOf[newConn]
      <3>1. connected[newConn]
        BY <1>1, <2>5, FdAssumption DEF NoFd
      <3>2. newConn = c
        BY <1>1, <2>2, <2>3, <2>5, <3>1 DEF OwnsDescriptor
      <3> QED
        BY <1>1, <2>3, <2>4, <2>5, <3>2
    <2>6. CASE f # fdOf[newConn]
      BY <1>1, <2>3, <2>4, <2>6
    <2> QED
      BY <2>5, <2>6
  <1> QED
    BY <1>1, <1>2 DEF HandlerInv, SessionIsolation

LEMMA NextHandler ==
  TypeOK /\ TypeOK' /\ OwnsDescriptor /\ FreshInv /\ HandlerInv /\ [Next]_vars => HandlerInv'
  <1> SUFFICES ASSUME TypeOK, TypeOK', OwnsDescriptor, FreshInv, HandlerInv, [Next]_vars
               PROVE  HandlerInv'
    OBVIOUS
  <1>1. ASSUME UNCHANGED <<connVars, tableVars>>,
               pc' \in {"insert", "callback"} => pc' = pc /\ newConn' = newConn,
               pc = "callback" => pc' = pc
        PROVE  HandlerInv'
    BY <1>1, HandlerStays DEF connVars, tableVars
  <1>2. CASE Start \/ SignalIgnored \/ Wait \/ LoopExit \/ EndOfBatch \/ DispatchListen
             \/ AcceptDone
    BY <1>1, <1>2
       DEF Start, StartFails, StartListening, SignalIgnored, Wait, LoopExit, EndOfBatch,
           DispatchListen, AcceptDone, loopVars
  <1>3. CASE Peer
    BY <1>1, <1>3 DEF Peer, Connect, PeerSend, PeerFin, PeerReset, PeerEnds, loopVars
  <1>4. CASE SignalStops
    BY <1>4, SignalHandler
  <1>5. CASE Dispatch
    BY <1>5, DispatchHandler DEF Dispatch
  <1>6. ASSUME NEW c \in Conn, NEW f \in Fd, AcceptRefuses(c, f)  PROVE HandlerInv'
    BY <1>1, <1>6 DEF AcceptRefuses
  <1>7. CASE Accept
    BY <1>6, <1>7, AcceptHandler DEF Accept, RejectAtLimit, SetupFails
  <1>8. CASE InsertConnection
    BY <1>8, InsertHandler
  <1>9. CASE ConnectionCallback
    BY <1>9, CallbackHandler
  <1>10. CASE UNCHANGED vars
    BY <1>1, <1>10 DEF vars, loopVars
  <1> QED
    BY <1>2, <1>3, <1>4, <1>5, <1>7, <1>8, <1>9, <1>10 DEF Next, Loop, Signal

\* The handler that parses a connected client's bytes is the one made for that client,
\* however often its descriptor number was used before, and wherever in an accept the
\* signal handler's stop() falls.
THEOREM IsolationSafe == Spec => []SessionIsolation
  <1> DEFINE Inv == TypeOK /\ OwnsDescriptor /\ FreshInv /\ HandlerInv
  <1>1. Init => Inv
    BY InitTypeOK, InitFresh, InitHandler DEF Init, OwnsDescriptor
  <1>2. Inv /\ [Next]_vars => Inv'
    BY NextTypeOK, NextOwns, NextFresh, NextHandler
  <1>3. Inv => SessionIsolation
    BY DEF HandlerInv
  <1> QED
    BY <1>1, <1>2, <1>3, PTL DEF Spec

-----------------------------------------------------------------------------
(* Part 3: events, epoll and stop() *)

IsLive(f) == connections[f] # NoConn /\ connected[connections[f]]

\* Between accept and insertion the new connection is open and in no entry, and its number
\* has no event in the batch.
InsertInv ==
  pc = "insert" =>
    /\ newConn \in Conn /\ connected[newConn]
    /\ \A f \in Fd : connections[f] # newConn
    /\ \A e \in batch : e.fd # fdOf[newConn]

\* Nothing waits to be accepted unless the server runs, and nothing is there before it does.
StoppedInv ==
  /\ ~running => backlog = <<>>
  /\ pc = "starting" =>
       /\ interest = {} /\ batch = {}
       /\ \A f \in Fd : connections[f] = NoConn
       /\ \A c \in Conn : ~connected[c]

\* While the server runs, epoll watches the numbers of the live entries, and the one that
\* is being accepted.
WatchInv ==
  running => \A f \in Fd :
    f \in interest <=> IsLive(f) \/ (pc = "insert" /\ f = fdOf[newConn])

\* While the server runs, an event of the batch is that of the open connection its number
\* has an entry for; after stop() its number has no entry. A number has one event, and an
\* error event comes from a reset.
EventInv ==
  /\ \A e \in batch :
       IF running THEN connections[e.fd] = e.conn /\ e.conn \in Conn /\ connected[e.conn]
       ELSE connections[e.fd] = NoConn
  /\ \A d, e \in batch : d.fd = e.fd => d = e
  /\ \A e \in batch : e.err /\ e.conn \in Conn => peer[e.conn] = "reset"

\* A connection that is open, and not reset.
IsOpen(c) == connected[c] /\ peer[c] # "reset"

\* While the server runs, connections_ has every open connection, or is about to; after
\* stop() at most one is open.
OpenInv ==
  /\ running => \A c \in Conn : IsOpen(c) =>
       (\E f \in Fd : connections[f] = c) \/ (pc = "insert" /\ newConn = c)
  /\ ~running => \A c, d \in Conn : IsOpen(c) /\ IsOpen(d) => c = d

EInv == InsertInv /\ StoppedInv /\ WatchInv /\ EventInv /\ OpenInv /\ StaleEntryIsFree

\* What the other proofs give.
Base == TypeOK /\ OwnsDescriptor /\ FreshInv /\ HandlerInv

-----------------------------------------------------------------------------
LEMMA InitEvents == Init => EInv
  BY ConnAssumption
     DEF Init, EInv, InsertInv, StoppedInv, WatchInv, EventInv, OpenInv, IsOpen,
         StaleEntryIsFree, IsLive

\* The entry of a live connection is under the number it holds, which names its socket, and
\* it has no other.
LEMMA LiveOwns ==
  ASSUME Base, NEW f \in Fd, IsLive(f)
  PROVE  /\ connections[f] \in Conn /\ connected[connections[f]]
         /\ fdOf[connections[f]] = f /\ fdTable[f] = connections[f]
         /\ \A g \in Fd : connections[g] = connections[f] => g = f
  <1>1. connections[f] \in Conn /\ connected[connections[f]]
    BY DEF Base, TypeOK, IsLive
  <1>2. \A g \in Fd : connections[g] = connections[f] => fdOf[connections[f]] = g
    <2> TAKE g \in Fd
    <2> HAVE connections[g] = connections[f]
    <2>1. connections[g] \in Live
      BY <1>1, LiveEntry, ConnAssumption DEF Base
    <2> QED
      BY <2>1 DEF Base, HandlerInv, SessionIsolation
  <1> QED
    BY <1>1, <1>2 DEF Base, OwnsDescriptor

\* Entries that are not live name a connection that is not connected.
LEMMA StaleEntry ==
  ASSUME TypeOK, NEW f \in Fd
  PROVE  connections[f] \in Conn \ Live <=> connections[f] # NoConn /\ ~IsLive(f)
  BY LiveEntry, ConnAssumption DEF TypeOK, IsLive

\* A step that leaves alone what the invariant speaks of, but for a peer's end and an event
\* that has no work.
LEMMA EventsStay ==
  ASSUME Base, EInv, batch' \subseteq batch,
         UNCHANGED <<running, fdTable, interest, fdOf, connected, connections>>,
         \A c \in Conn : peer[c] = "reset" => peer'[c] = "reset",
         running \/ backlog' = backlog,
         pc' = "insert" => pc = "insert" /\ newConn' = newConn,
         pc = "insert" => pc' = "insert",
         pc' = "starting" => pc = "starting"
  PROVE  EInv'
  <1>1. \A f \in Fd : IsLive(f)' <=> IsLive(f)
    BY DEF IsLive
  <1>2. \A c \in Conn : IsOpen(c)' => IsOpen(c)
    BY DEF IsOpen
  <1>3. InsertInv'
    BY DEF EInv, InsertInv
  <1>4. StoppedInv'
    BY DEF EInv, StoppedInv
  <1>5. WatchInv'
    BY <1>1 DEF EInv, WatchInv
  <1>6. EventInv'
    BY DEF EInv, EventInv
  <1>7. OpenInv'
    BY <1>2 DEF EInv, OpenInv
  <1>8. StaleEntryIsFree'
    BY DEF EInv, StaleEntryIsFree, Live, Known
  <1> QED
    BY <1>3, <1>4, <1>5, <1>6, <1>7, <1>8 DEF EInv

LEMMA StartEvents ==
  ASSUME Base, EInv, StartListening
  PROVE  EInv'
  <1>1. /\ pc = "starting" /\ pc' = "wait" /\ running'
        /\ interest' = {} /\ batch' = {} /\ backlog' = backlog
        /\ connections' = connections /\ connected' = connected
        /\ \A f \in Fd : connections[f] = NoConn
        /\ \A c \in Conn : ~connected[c]
    BY DEF StartListening, EInv, StoppedInv, kernelVars, connVars, tableVars
  <1>2. \A f \in Fd : ~IsLive(f)'
    BY <1>1 DEF IsLive
  <1>3. \A c \in Conn : ~IsOpen(c)'
    BY <1>1 DEF IsOpen
  <1>4. StaleEntryIsFree'
    BY <1>1, ConnAssumption DEF StaleEntryIsFree
  <1> QED
    BY <1>1, <1>2, <1>3, <1>4 DEF EInv, InsertInv, StoppedInv, WatchInv, EventInv, OpenInv

\* The events of a new batch are those of live entries, since epoll watches no other number.
LEMMA WaitEvents ==
  ASSUME Base, EInv, Wait
  PROVE  EInv'
  <1>1. /\ running /\ running' = running /\ pc = "wait" /\ pc' \in {"wait", "dispatch"}
        /\ batch' = {Event(f) : f \in {g \in interest : fdTable[g] \in ready
                                                        /\ Readable(fdTable[g])}}
        /\ UNCHANGED <<newConn, backlog, fdTable, interest, peer, fdOf, connected, connections>>
    BY DEF Wait, peerVars, connVars, tableVars
  <1>2. ASSUME NEW e \in batch'
        PROVE  /\ e.fd \in Fd /\ connections[e.fd] = e.conn /\ e.conn \in Conn
               /\ connected[e.conn] /\ e = Event(e.fd)
               /\ e.err => peer[e.conn] = "reset"
    <2>1. PICK f \in interest : e = Event(f)
      BY <1>1
    <2>2. f \in Fd /\ IsLive(f)
      BY <1>1, <2>1 DEF Base, TypeOK, EInv, WatchInv
    <2> QED
      BY <2>1, <2>2, LiveOwns DEF Event, Failed
  <1>3. EventInv'
    BY <1>1, <1>2 DEF EventInv
  <1>4. \A f \in Fd : IsLive(f)' <=> IsLive(f)
    BY <1>1 DEF IsLive
  <1>5. \A c \in Conn : IsOpen(c)' <=> IsOpen(c)
    BY <1>1 DEF IsOpen
  <1>6. InsertInv' /\ StoppedInv' /\ WatchInv' /\ OpenInv'
    BY <1>1, <1>4, <1>5 DEF EInv, InsertInv, StoppedInv, WatchInv, OpenInv
  <1>7. StaleEntryIsFree'
    BY <1>1 DEF EInv, StaleEntryIsFree, Live, Known
  <1> QED
    BY <1>3, <1>6, <1>7 DEF EInv

\* stop() closes what connections_ has, which is every open connection but the one that is
\* being accepted.
LEMMA SignalEvents ==
  ASSUME Base, EInv, SignalStops
  PROVE  EInv'
  <1>1. /\ running /\ ~running' /\ backlog' = <<>> /\ interest' = {}
        /\ \A f \in Fd : connections'[f] = NoConn
        /\ UNCHANGED <<pc, batch, newConn, peer>>
    BY DEF SignalStops, peerVars
  <1>2. \A c \in Conn : /\ connected'[c] <=> connected[c] /\ c \notin Known
                        /\ c \notin Known => fdOf'[c] = fdOf[c]
    BY DEF SignalStops, CloseConnections
  <1>3. InsertInv'
    <2> SUFFICES ASSUME pc = "insert"
                 PROVE  /\ newConn \in Conn /\ connected'[newConn]
                        /\ \A e \in batch : e.fd # fdOf'[newConn]
      BY <1>1, ConnAssumption DEF InsertInv
    <2>1. newConn \in Conn /\ connected[newConn] /\ newConn \notin Known
      BY DEF EInv, InsertInv, Known
    <2> QED
      BY <1>2, <2>1 DEF EInv, InsertInv
  <1>4. StoppedInv'
    BY <1>1, <1>2 DEF EInv, StoppedInv
  <1>5. EventInv'
    BY <1>1 DEF EInv, EventInv, Base, TypeOK
  <1>6. ASSUME NEW c \in Conn, IsOpen(c)'  PROVE c = newConn
    <2>1. IsOpen(c) /\ c \notin Known
      BY <1>1, <1>2, <1>6 DEF IsOpen
    <2>2. \A f \in Fd : connections[f] # c
      BY <2>1, ConnAssumption DEF Known
    <2> QED
      BY <1>1, <2>1, <2>2 DEF EInv, OpenInv
  <1>7. StaleEntryIsFree'
    BY <1>1, ConnAssumption DEF StaleEntryIsFree
  <1> QED
    BY <1>1, <1>3, <1>4, <1>5, <1>6, <1>7 DEF EInv, WatchInv, OpenInv

\* Dispatching an event that has work: the server runs and the entry is live.
LEMMA WorkIsLive ==
  ASSUME Base, EInv, NEW e \in batch, HasWork(e)
  PROVE  running /\ e.fd \in Fd /\ IsLive(e.fd) /\ connections[e.fd] = e.conn
  BY DEF HasWork, EInv, EventInv, Base, TypeOK, IsLive

\* A step that takes the connection of an event out of epoll, and closes it, forgets it, or,
\* if it was reset, only erases its entry.
LEMMA EntryLeaves ==
  ASSUME Base, EInv, NEW e \in batch, HasWork(e), batch' = batch \ {e},
         pc = "dispatch", pc' = pc, interest' = interest \ {e.fd},
         UNCHANGED <<running, backlog, peer, newConn>>,
         \A f \in Fd : f # e.fd => connections'[f] = connections[f],
         \/ connections'[e.fd] = NoConn
         \/ /\ connections'[e.fd] = connections[e.fd] /\ fdTable'[e.fd] = NoConn
            /\ ~connected'[connections[e.fd]],
         \A c \in Conn : c # connections[e.fd] => connected'[c] = connected[c],
         connected'[connections[e.fd]] => connected[connections[e.fd]],
         ~(connected'[connections[e.fd]] /\ peer[connections[e.fd]] # "reset"),
         \A f \in Fd : fdTable[f] = NoConn => fdTable'[f] = NoConn
  PROVE  EInv'
  <1> DEFINE c == connections[e.fd]
  <1>1. running /\ e.fd \in Fd /\ IsLive(e.fd) /\ c = e.conn
    BY WorkIsLive
  <1>2. c \in Conn /\ \A f \in Fd : f # e.fd => connections[f] # c
    BY <1>1, LiveOwns
  <1>3. ~IsLive(e.fd)'
    BY DEF IsLive
  <1>4. \A f \in Fd : f # e.fd => (IsLive(f)' <=> IsLive(f))
    BY <1>2 DEF IsLive, Base, TypeOK
  <1>5. WatchInv'
    BY <1>1, <1>3, <1>4 DEF EInv, WatchInv
  <1>6. EventInv'
    <2>1. \A d \in batch' : d \in batch /\ d.fd \in Fd /\ d.fd # e.fd
      BY DEF EInv, EventInv, Base, TypeOK
    <2>2. \A d \in batch' : /\ connections'[d.fd] = d.conn /\ d.conn \in Conn
                            /\ connected'[d.conn]
      BY <1>1, <1>2, <2>1 DEF EInv, EventInv
    <2> QED
      BY <1>1, <2>1, <2>2 DEF EInv, EventInv
  <1>7. OpenInv'
    <2> SUFFICES ASSUME NEW d \in Conn, IsOpen(d)'
                 PROVE  \E f \in Fd : connections'[f] = d
      BY <1>1 DEF OpenInv
    <2>1. d # c /\ IsOpen(d)
      BY DEF IsOpen
    <2>2. PICK f \in Fd : connections[f] = d
      BY <1>1, <2>1 DEF EInv, OpenInv
    <2> QED
      BY <2>1, <2>2
  <1>8. StaleEntryIsFree'
    <2> SUFFICES ASSUME NEW f \in Fd, connections'[f] \in Conn, ~IsLive(f)'
                 PROVE  fdTable'[f] = NoConn
      BY ConnAssumption DEF StaleEntryIsFree, Live, Known, IsLive
    <2>1. CASE f = e.fd
      BY <2>1, ConnAssumption
    <2>2. CASE f # e.fd
      <3>1. connections[f] \in Conn \ Live
        BY <1>4, <2>2, ConnAssumption, StaleEntry DEF Base
      <3> QED
        BY <3>1 DEF EInv, StaleEntryIsFree
    <2> QED
      BY <2>1, <2>2
  <1> QED
    BY <1>5, <1>6, <1>7, <1>8 DEF EInv, InsertInv, StoppedInv

LEMMA DispatchEvents ==
  ASSUME Base, EInv, NEW e \in batch,
         \/ DispatchNothing(e) \/ DispatchError(e) \/ ReadEnd(e)
         \/ \E keep \in BOOLEAN : ReadMessage(e, keep)
  PROVE  EInv'
  <1> DEFINE c == connections[e.fd]
  <1>1. CASE DispatchNothing(e)
    BY <1>1, EventsStay
       DEF DispatchNothing, Consume, kernelVars, peerVars, connVars, tableVars
  <1>2. CASE DispatchError(e)
    <2>1. HasWork(e) /\ e.err
      BY <1>2 DEF DispatchError
    <2>2. e.fd \in Fd /\ c \in Conn /\ peer[c] = "reset"
      BY <2>1, WorkIsLive, LiveOwns DEF EInv, EventInv
    <2>3. /\ connections'[e.fd] = NoConn
          /\ \A f \in Fd : f # e.fd => connections'[f] = connections[f]
          /\ interest' = interest \ {e.fd}
      BY <1>2, <2>2 DEF DispatchError, HandleClose, Base, TypeOK
    <2>4. /\ pc = "dispatch" /\ pc' = pc /\ batch' = batch \ {e}
          /\ UNCHANGED <<running, backlog, peer, newConn, fdTable, connected>>
      BY <1>2 DEF DispatchError, Consume, peerVars, connVars
    <2>5. ~(connected'[c] /\ peer[c] # "reset")
      BY <2>2, <2>4
    <2> QED
      BY <2>1, <2>3, <2>4, <2>5, EntryLeaves
  <1>3. CASE ReadEnd(e)
    <2>1. HasWork(e)
      BY <1>3 DEF ReadEnd
    <2>2. e.fd \in Fd /\ c \in Conn /\ fdOf[c] = e.fd
      BY <2>1, WorkIsLive, LiveOwns
    <2>3. /\ connections'[e.fd] = NoConn
          /\ \A f \in Fd : f # e.fd => connections'[f] = connections[f]
          /\ interest' = interest \ {e.fd}
      BY <1>3, <2>2 DEF ReadEnd, HandleClose, Base, TypeOK
    <2>4. /\ pc = "dispatch" /\ pc' = pc /\ batch' = batch \ {e}
          /\ UNCHANGED <<running, backlog, peer, newConn, fdTable>>
          /\ ~connected'[c] /\ \A d \in Conn : d # c => connected'[d] = connected[d]
      BY <1>3, <2>2 DEF ReadEnd, Consume, ForgetSocket, peerVars, Base, TypeOK
    <2>5. ~(connected'[c] /\ peer[c] # "reset")
      BY <2>4
    <2> QED
      BY <2>1, <2>3, <2>4, <2>5, EntryLeaves
  <1>4. CASE ReadMessage(e, TRUE)
    <2>1. UNCHANGED <<fdTable, fdOf, connected, interest>>
      BY <1>4 DEF ReadMessage, CloseConnections, Numbers, Base, TypeOK
    <2> QED
      BY <1>4, <2>1, EventsStay DEF ReadMessage, Consume, tableVars
  <1>5. CASE ReadMessage(e, FALSE)
    <2>1. HasWork(e) /\ CloseConnections({c})
      BY <1>5 DEF ReadMessage
    <2>2. /\ e.fd \in Fd /\ c \in Conn /\ connected[c] /\ fdOf[c] = e.fd
      BY <2>1, WorkIsLive, LiveOwns
    <2>3. /\ ~connected'[c] /\ \A d \in Conn : d # c => connected'[d] = connected[d]
          /\ fdTable'[e.fd] = NoConn
          /\ \A f \in Fd : fdTable[f] = NoConn => fdTable'[f] = NoConn
      BY <2>1, <2>2 DEF CloseConnections, Numbers, Base, TypeOK
    <2>4. /\ pc = "dispatch" /\ pc' = pc /\ batch' = batch \ {e}
          /\ interest' = interest \ {e.fd}
          /\ UNCHANGED <<running, backlog, peer, newConn, connections>>
      BY <1>5, <2>2 DEF ReadMessage, Consume, tableVars
    <2>5. ~(connected'[c] /\ peer[c] # "reset")
      BY <2>3
    <2> QED
      BY <2>1, <2>3, <2>4, <2>5, EntryLeaves
  <1> QED
    BY <1>1, <1>2, <1>3, <1>4, <1>5

\* accept(2) gives out a number without an event in the batch: the entry of one that has is
\* live, and a live connection's number is taken.
LEMMA AcceptEvents ==
  ASSUME Base, EInv, NEW c \in Conn, NEW f \in Fd, AcceptConnection(c, f)
  PROVE  EInv'
  <1>1. /\ pc = "accept" /\ pc' = "insert" /\ newConn' = c /\ fdTable[f] = NoConn
        /\ fdTable' = [fdTable EXCEPT ![f] = c] /\ fdOf' = [fdOf EXCEPT ![c] = f]
        /\ connected' = [connected EXCEPT ![c] = TRUE] /\ interest' = interest \cup {f}
        /\ UNCHANGED <<running, batch, peer, connections>>
    BY DEF AcceptConnection, IsLowestFree, peerVars, tableVars
  <1>2. running
    BY DEF AcceptConnection, EInv, StoppedInv
  <1>3. Fresh(c)
    <2>1. IsPending(c)
      BY DEF AcceptConnection, IsPending, Base, TypeOK
    <2> QED
      BY <2>1 DEF Base, FreshInv
  <1>4. \A g \in Fd : connections[g] # c /\ (IsLive(g)' <=> IsLive(g))
    BY <1>1, <1>3 DEF Fresh, IsLive, Base, TypeOK
  <1>5. /\ connected'[c] /\ fdOf'[c] = f
        /\ \A d \in Conn : d # c => connected'[d] = connected[d]
    BY <1>1 DEF Base, TypeOK
  <1>6. \A e \in batch : e.fd \in Fd /\ e.fd # f
    <2> TAKE e \in batch
    <2>1. e.fd \in Fd /\ IsLive(e.fd)
      BY <1>2, ConnAssumption DEF EInv, EventInv, IsLive, Base, TypeOK
    <2>2. fdTable[e.fd] \in Conn
      BY <2>1, LiveOwns
    <2> QED
      BY <1>1, <2>1, <2>2, ConnAssumption
  <1>7. InsertInv'
    BY <1>1, <1>4, <1>5, <1>6 DEF InsertInv
  <1>8. StoppedInv'
    BY <1>1, <1>2 DEF StoppedInv
  <1>9. WatchInv'
    BY <1>1, <1>2, <1>4, <1>5 DEF EInv, WatchInv
  <1>10. EventInv'
    BY <1>1, <1>2, <1>5 DEF EInv, EventInv
  <1>11. OpenInv'
    BY <1>1, <1>2, <1>5 DEF EInv, OpenInv, IsOpen
  <1>12. StaleEntryIsFree'
    <2> SUFFICES ASSUME NEW g \in Fd, connections[g] \in Conn, ~IsLive(g)', g # f
                 PROVE  fdTable'[g] = NoConn
      BY <1>1, <1>5, ConnAssumption DEF StaleEntryIsFree, Live, Known, IsLive
    <2>1. connections[g] \in Conn \ Live
      BY <1>4, ConnAssumption, StaleEntry DEF Base
    <2> QED
      BY <1>1, <2>1 DEF EInv, StaleEntryIsFree, Base, TypeOK
  <1> QED
    BY <1>7, <1>8, <1>9, <1>10, <1>11, <1>12 DEF EInv

\* The entry that is overwritten is not that of a live connection, and has no event.
LEMMA InsertEvents ==
  ASSUME Base, EInv, InsertConnection
  PROVE  EInv'
  <1> DEFINE n == fdOf[newConn]
  <1>1. /\ newConn \in Conn /\ connected[newConn]
        /\ \A f \in Fd : connections[f] # newConn
        /\ \A e \in batch : e.fd # n
    BY DEF InsertConnection, EInv, InsertInv
  <1>2. n \in Fd /\ fdTable[n] = newConn
    BY <1>1 DEF Base, OwnsDescriptor
  <1>3. /\ pc = "insert" /\ pc' = "callback"
        /\ connections'[n] = newConn
        /\ \A f \in Fd : f # n => connections'[f] = connections[f]
        /\ UNCHANGED <<running, batch, newConn, backlog, fdTable, interest, peer, fdOf, connected>>
    BY <1>2 DEF InsertConnection, kernelVars, peerVars, connVars, Base, TypeOK
  <1>4. ~IsLive(n)
    BY <1>1, <1>2, LiveOwns
  <1>5. /\ IsLive(n)'
        /\ \A f \in Fd : f # n => (IsLive(f)' <=> IsLive(f))
    BY <1>1, <1>3, ConnAssumption DEF IsLive
  <1>6. WatchInv'
    BY <1>3, <1>5 DEF EInv, WatchInv
  <1>7. EventInv'
    <2>1. \A e \in batch : e.fd \in Fd /\ connections'[e.fd] = connections[e.fd]
      BY <1>1, <1>3 DEF Base, TypeOK
    <2> QED
      BY <1>3, <2>1 DEF EInv, EventInv
  <1>8. OpenInv'
    <2>1. \A c \in Conn : IsOpen(c)' <=> IsOpen(c)
      BY <1>3 DEF IsOpen
    <2>2. ASSUME running, NEW c \in Conn, IsOpen(c)  PROVE \E f \in Fd : connections'[f] = c
      <3>1. CASE c = newConn
        BY <1>2, <1>3, <3>1
      <3>2. CASE c # newConn
        <4>1. PICK f \in Fd : connections[f] = c
          BY <2>2, <3>2 DEF EInv, OpenInv
        <4>2. f # n
          BY <1>4, <2>2, <4>1, ConnAssumption DEF IsLive, IsOpen
        <4> QED
          BY <1>3, <4>1, <4>2
      <3> QED
        BY <3>1, <3>2
    <2> QED
      BY <1>3, <2>1, <2>2 DEF EInv, OpenInv
  <1>9. StaleEntryIsFree'
    <2> SUFFICES ASSUME NEW f \in Fd, connections'[f] \in Conn, ~IsLive(f)'
                 PROVE  fdTable'[f] = NoConn
      BY ConnAssumption DEF StaleEntryIsFree, Live, Known, IsLive
    <2>1. f # n /\ connections[f] \in Conn \ Live
      BY <1>3, <1>5, ConnAssumption, StaleEntry DEF Base
    <2> QED
      BY <1>3, <2>1 DEF EInv, StaleEntryIsFree
  <1> QED
    BY <1>3, <1>6, <1>7, <1>8, <1>9 DEF EInv, InsertInv, StoppedInv

-----------------------------------------------------------------------------
LEMMA NextEvents == Base /\ EInv /\ [Next]_vars => EInv'
  <1> SUFFICES ASSUME Base, EInv, [Next]_vars  PROVE EInv'
    OBVIOUS
  <1>1. CASE StartFails \/ SignalIgnored \/ LoopExit \/ EndOfBatch \/ DispatchListen
             \/ AcceptDone \/ ConnectionCallback
    BY <1>1, EventsStay
       DEF StartFails, SignalIgnored, LoopExit, EndOfBatch, DispatchListen, AcceptDone,
           ConnectionCallback, kernelVars, peerVars, connVars, tableVars, loopVars
  <1>2. CASE Peer
    <2> SUFFICES ASSUME NEW c \in Conn, Connect(c) \/ PeerSend(c) \/ PeerFin(c) \/ PeerReset(c)
                 PROVE  EInv'
      BY <1>2 DEF Peer
    <2>1. \A d \in Conn : peer[d] = "reset" => peer'[d] = "reset"
      BY DEF Connect, PeerSend, PeerFin, PeerReset, PeerEnds, Base, TypeOK
    <2>2. running \/ backlog' = backlog
      BY DEF Connect, PeerSend, PeerFin, PeerReset, PeerEnds
    <2>3. UNCHANGED <<pc, running, batch, newConn, fdTable, interest, fdOf, connected, connections>>
      BY DEF Connect, PeerSend, PeerFin, PeerReset, PeerEnds, loopVars, connVars, tableVars
    <2> QED
      BY <2>1, <2>2, <2>3, EventsStay
  <1>3. ASSUME NEW c \in Conn, NEW f \in Fd, AcceptRefuses(c, f)  PROVE EInv'
    <2>1. running
      BY <1>3 DEF AcceptRefuses, EInv, StoppedInv
    <2> QED
      BY <1>3, <2>1, EventsStay DEF AcceptRefuses, peerVars, connVars, tableVars
  <1>4. CASE Accept
    BY <1>3, <1>4, AcceptEvents DEF Accept, RejectAtLimit, SetupFails
  <1>5. CASE Dispatch
    BY <1>5, DispatchEvents DEF Dispatch
  <1>6. CASE UNCHANGED vars
    BY <1>6, EventsStay DEF vars, kernelVars, peerVars, connVars, tableVars, loopVars
  <1> QED
    BY <1>1, <1>2, <1>4, <1>5, <1>6, StartEvents, WaitEvents, SignalEvents, InsertEvents
       DEF Next, Start, Loop, Signal

LEMMA EventsAlways == Spec => [](Base /\ EInv)
  <1>1. Init => Base /\ EInv
    BY InitTypeOK, InitFresh, InitHandler, InitEvents DEF Base, Init, OwnsDescriptor
  <1>2. Base /\ EInv /\ [Next]_vars => (Base /\ EInv)'
    BY NextTypeOK, NextOwns, NextFresh, NextHandler, NextEvents DEF Base
  <1> QED
    BY <1>1, <1>2, PTL DEF Spec

\* No connection is handed an event that another one caused, although numbers are freed and
\* taken again while a batch is dispatched.
THEOREM EventsSafe == Spec => []NoStaleEvent
  <1>1. EInv => NoStaleEvent
    BY DEF EInv, EventInv, NoStaleEvent
  <1> QED
    BY <1>1, EventsAlways, PTL

\* While the server runs, epoll watches the connected connections of connections_, the one
\* being accepted, and nothing else.
THEOREM EpollSafe == Spec => []EpollMatchesConnections
  <1>1. ASSUME Base, EInv  PROVE EpollMatchesConnections
    <2> SUFFICES ASSUME running  PROVE interest = {fdOf[c] : c \in Live} \cup Accepting
      BY DEF EpollMatchesConnections
    <2>1. interest \subseteq Fd
      BY <1>1 DEF Base, TypeOK
    <2>2. \A f \in Fd : f \in {fdOf[c] : c \in Live} <=> IsLive(f)
      <3> TAKE f \in Fd
      <3>1. ASSUME IsLive(f)  PROVE f \in {fdOf[c] : c \in Live}
        <4>1. connections[f] \in Live /\ fdOf[connections[f]] = f
          BY <1>1, <3>1, LiveOwns, LiveEntry DEF Base, IsLive
        <4> QED
          BY <4>1
      <3>2. ASSUME NEW c \in Live, fdOf[c] = f  PROVE IsLive(f)
        <4>1. PICK g \in Fd : connections[g] = c /\ c # NoConn /\ connected[c]
          BY DEF Live, Known
        <4>2. IsLive(g)
          BY <4>1 DEF IsLive
        <4> QED
          BY <1>1, <3>2, <4>1, <4>2, LiveOwns
      <3> QED
        BY <3>1, <3>2
    <2>3. {fdOf[c] : c \in Live} \subseteq Fd
      BY <1>1 DEF Live, Base, OwnsDescriptor, TypeOK, Known
    <2>4. Accepting \subseteq Fd /\ \A f \in Fd : f \in Accepting <=> pc = "insert" /\ f = fdOf[newConn]
      BY <1>1 DEF Accepting, EInv, InsertInv, Base, OwnsDescriptor
    <2> QED
      BY <1>1, <2>1, <2>2, <2>3, <2>4 DEF EInv, WatchInv
  <1> QED
    BY <1>1, EventsAlways, PTL

\* An entry whose connection has ended is never under a number that is in use, except while
\* the new connection is about to take it over.
THEOREM StaleEntriesSafe == Spec => []StaleEntryIsFree
  <1>1. EInv => StaleEntryIsFree
    BY DEF EInv
  <1> QED
    BY <1>1, EventsAlways, PTL

\* Once stop() has run, at most one client that has not reset is still connected.
THEOREM StopSafe == Spec => []StopClosesAllButOne
  <1>1. EInv => StopClosesAllButOne
    BY DEF EInv, OpenInv, IsOpen, StopClosesAllButOne, StopRan
  <1> QED
    BY <1>1, EventsAlways, PTL

=============================================================================
