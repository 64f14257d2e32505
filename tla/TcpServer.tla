------------------------------ MODULE TcpServer ------------------------------
(***************************************************************************)
(* Connection lifecycle of the tiny-sql server: Server (server.cpp), the   *)
(* TcpConnection objects it keeps (tcp_connection.cpp), the callbacks that *)
(* main.cpp installs, the edge-triggered epoll loop                        *)
(* (epoll_event_loop.cpp) and the kernel below it.                         *)
(*                                                                         *)
(* One thread runs the event loop. Three kinds of steps interleave with    *)
(* it: the peers (they connect, send, half-close, reset), and the signal   *)
(* handler, which runs Server::stop() on top of whatever the thread was    *)
(* doing. A descriptor number is a member of Fd; the kernel hands out the  *)
(* lowest free one, so numbers are reused, and both of the server's tables *)
(* (connections_, protocol_handlers) are keyed by number.                  *)
(*                                                                         *)
(* What a peer says is abstracted to "some bytes are waiting"; whether the *)
(* protocol handler keeps the connection (true) or asks main.cpp to close  *)
(* it (false: QUIT, failed authentication, unknown command) is a choice    *)
(* that module ProtocolSession resolves.                                   *)
(***************************************************************************)
EXTENDS Integers, FiniteSets, Sequences

CONSTANTS
  Conn,            \* the connections peers make; each is one TcpConnection object
  NoConn,          \* no connection
  Fd,              \* descriptor numbers the process has left for clients
  MaxConnections   \* Server::max_connections_

\* fd_ of a closed TcpConnection, and epoll_fd_/listen_fd_ after stop().
NoFd == -1

ASSUME ConnAssumption == NoConn \notin Conn
ASSUME FdAssumption == Fd \subseteq Nat /\ IsFiniteSet(Fd)
ASSUME MaxConnectionsAssumption == MaxConnections \in Nat \ {0}

VARIABLES
  pc,               \* where the loop thread is
  running,          \* Server::running_ (listening socket and epoll set are open with it)
  backlog,          \* completed connections that accept(2) has not returned yet
  listenReady,      \* the listening socket is on epoll's ready list
  acceptDue,        \* its event is in the batch being dispatched
  ready,            \* client connections on epoll's ready list
  batch,            \* client events of this epoll_wait not yet dispatched
  peer,             \* what the peer has done: "absent", "up", "fin", "reset"
  rx,               \* bytes wait in the connection's receive queue
  fdTable,          \* the process's descriptor table: which socket a number names
  interest,         \* numbers registered with epoll (always for READ)
  fdOf,             \* TcpConnection::fd_
  connected,        \* TcpConnection::connected_
  connections,      \* Server::connections_
  protocolHandlers, \* main.cpp's protocol_handlers: whose handler a number has
  newConn,          \* `conn` of the current iteration of handleAccept
  signalled         \* SIGINT or SIGTERM has been delivered (at most one)

kernelVars == <<backlog, listenReady, ready, fdTable, interest>>
peerVars   == <<peer, rx>>
connVars   == <<fdOf, connected>>
tableVars  == <<connections, protocolHandlers>>
loopVars   == <<pc, running, acceptDue, batch, newConn>>
vars == <<kernelVars, peerVars, connVars, tableVars, loopVars, signalled>>

-----------------------------------------------------------------------------
(* The kernel *)

\* The peer's other end: not accepted yet, or a socket of the process.
IsPending(c) == c \in {backlog[i] : i \in DOMAIN backlog}
HasSocket(c) == \E f \in Fd : fdTable[f] = c
HasEnd(c) == c \in {fdTable[f] : f \in Fd} \cup {backlog[i] : i \in DOMAIN backlog}
IsRegistered(c) == \E f \in interest : fdTable[f] = c

\* accept(2) returns the lowest number that is free.
IsLowestFree(f) ==
  /\ fdTable[f] = NoConn
  /\ \A g \in Fd : fdTable[g] = NoConn => f <= g

\* What poll would report: input to read (EOF counts), or an error after a reset.
Readable(c) == rx[c] \/ peer[c] \in {"fin", "reset"}
Failed(c) == peer[c] = "reset"

\* An event of epoll_wait; conn is whose socket the number named when it was reported.
\* (Mutant: getReadyFd(i) asked for an index past ready_count_.)
EventPastEnd(f) == [fd |-> NoFd, conn |-> fdTable[f], err |-> Failed(fdTable[f])]
Event(f) == [fd |-> f, conn |-> fdTable[f], err |-> Failed(fdTable[f])]

-----------------------------------------------------------------------------
(* The peers *)

Connect(c) ==
  /\ peer[c] = "absent"
  /\ running
  /\ peer' = [peer EXCEPT ![c] = "up"]
  /\ backlog' = Append(backlog, c)
  /\ listenReady' = TRUE
  /\ UNCHANGED <<rx, ready, fdTable, interest, connVars, tableVars, loopVars, signalled>>

\* Every change of a registered socket's input puts it on the ready list: an edge.
Edge(c) == ready' = IF IsRegistered(c) THEN ready \cup {c} ELSE ready

PeerSend(c) ==
  /\ peer[c] = "up"
  /\ HasEnd(c)
  /\ rx' = [rx EXCEPT ![c] = TRUE]
  /\ Edge(c)
  /\ UNCHANGED <<peer, backlog, listenReady, fdTable, interest, connVars, tableVars,
                 loopVars, signalled>>

PeerEnds(c, how) ==
  /\ HasEnd(c)
  /\ peer' = [peer EXCEPT ![c] = how]
  /\ Edge(c)
  /\ UNCHANGED <<rx, backlog, listenReady, fdTable, interest, connVars, tableVars,
                 loopVars, signalled>>

PeerFin(c) == peer[c] = "up" /\ PeerEnds(c, "fin")
PeerReset(c) == peer[c] \in {"up", "fin"} /\ PeerEnds(c, "reset")

-----------------------------------------------------------------------------
(* TcpConnection and Server: the state they share *)

\* The connections in a set cs that still hold a number, and the numbers they hold.
Numbers(cs) == {fdOf[c] : c \in {d \in cs : connected[d]}}

\* TcpConnection::close() (or forceClose()) on every connection of cs: the kernel frees
\* the number; close() leaves Server's and main.cpp's tables alone.
\* (Mutant: connected_ stays true and fd_ keeps the number.)
CloseFlagKept(cs) ==
  /\ fdTable' = [f \in Fd |-> IF f \in Numbers(cs) THEN NoConn ELSE fdTable[f]]
  /\ UNCHANGED <<fdOf, connected>>

CloseConnections(cs) ==
  /\ fdTable' = [f \in Fd |-> IF f \in Numbers(cs) THEN NoConn ELSE fdTable[f]]
  /\ connected' = [c \in Conn |-> connected[c] /\ c \notin cs]
  /\ fdOf' = [c \in Conn |-> IF c \in cs /\ connected[c] THEN NoFd ELSE fdOf[c]]

\* Connections an entry of connections_ names; the connected ones among them.
Known == {connections[f] : f \in Fd} \ {NoConn}
Live == {c \in Known : connected[c]}

\* connections_.size(): the entries, whether their connection is connected or not.
ConnectionCount == Cardinality({f \in Fd : connections[f] # NoConn})
\* (Mutant: > for >=.)
AtLimitOffByOne == ConnectionCount > MaxConnections
AtLimit == ConnectionCount >= MaxConnections

\* Server::handleClose(fd): out of epoll, out of connections_.
\* (Mutants: removeFd forgotten; erase forgotten.)
HandleCloseNoRemoveFd(f) ==
  /\ UNCHANGED <<interest, ready>>
  /\ connections' = [connections EXCEPT ![f] = NoConn]
HandleCloseNoErase(f) ==
  /\ interest' = interest \ {f}
  /\ ready' = ready \ {fdTable[f]}
  /\ UNCHANGED connections
HandleClose(f) ==
  /\ interest' = interest \ {f}
  /\ ready' = ready \ {fdTable[f]}
  /\ connections' = [connections EXCEPT ![f] = NoConn]

-----------------------------------------------------------------------------
(* main() and the signal handler *)

StartFails ==
  /\ pc = "starting"
  /\ pc' = "exited"
  /\ UNCHANGED <<running, acceptDue, batch, newConn, kernelVars, peerVars, connVars,
                 tableVars, signalled>>

StartListening ==
  /\ pc = "starting"
  /\ pc' = "wait"
  /\ running' = TRUE
  /\ UNCHANGED <<acceptDue, batch, newConn, kernelVars, peerVars, connVars, tableVars,
                 signalled>>

\* Server::stop() finds running_ false and returns.
SignalIgnored ==
  /\ ~signalled /\ ~running /\ pc # "exited"
  /\ signalled' = TRUE
  /\ UNCHANGED <<kernelVars, peerVars, connVars, tableVars, loopVars>>

\* Server::stop() runs to its end on top of the loop thread, wherever that is. Closing
\* the listening socket drops what it had not accepted.
SignalStops ==
  /\ ~signalled /\ running
  /\ signalled' = TRUE
  /\ running' = FALSE
  /\ CloseConnections(Known)
  /\ connections' = [f \in Fd |-> NoConn]
  /\ interest' = {}
  /\ ready' = {}
  /\ backlog' = <<>>
  /\ listenReady' = FALSE
  /\ UNCHANGED <<pc, acceptDue, batch, newConn, protocolHandlers, peerVars>>

-----------------------------------------------------------------------------
(* Server::eventLoop() *)

Wait ==
  /\ pc = "wait" /\ running
  /\ ready = {} => listenReady
  /\ batch' = {Event(f) : f \in {g \in interest : fdTable[g] \in ready
                                                  /\ Readable(fdTable[g])}}
  /\ acceptDue' = (listenReady /\ backlog # <<>>)
  /\ ready' = {}
  /\ listenReady' = FALSE
  /\ pc' = IF batch' = {} /\ ~acceptDue' THEN "wait" ELSE "dispatch"
  /\ UNCHANGED <<running, newConn, backlog, fdTable, interest, peerVars, connVars,
                 tableVars, signalled>>

\* (Mutant: the loop waits for connections_ to empty.)
LoopExitWhenEmpty ==
  /\ pc = "wait" /\ ~running /\ Known = {}
  /\ pc' = "exited"
  /\ UNCHANGED <<running, acceptDue, batch, newConn, kernelVars, peerVars, connVars,
                 tableVars, signalled>>

\* while (running_) fails; start() returns to main(), which returns.
LoopExit ==
  /\ pc = "wait" /\ ~running
  /\ pc' = "exited"
  /\ UNCHANGED <<running, acceptDue, batch, newConn, kernelVars, peerVars, connVars,
                 tableVars, signalled>>

EndOfBatch ==
  /\ pc = "dispatch" /\ batch = {} /\ ~acceptDue
  /\ pc' = "wait"
  /\ UNCHANGED <<running, acceptDue, batch, newConn, kernelVars, peerVars, connVars,
                 tableVars, signalled>>

\* After stop() listen_fd_ is -1, and the event's number matches nothing.
DispatchListen ==
  /\ pc = "dispatch" /\ acceptDue
  /\ acceptDue' = FALSE
  /\ pc' = IF running THEN "accept" ELSE "dispatch"
  /\ UNCHANGED <<running, batch, newConn, kernelVars, peerVars, connVars, tableVars,
                 signalled>>

\* The loop has finished with event e. (Mutant: it sees the event again.)
EventKept(e) == batch' = batch
Consume(e) == batch' = batch \ {e}

\* handleClose(fd) and handleRead(fd) find no connection, or it has nothing to read.
HasWork(e) ==
  LET c == connections[e.fd] IN
    c # NoConn /\ (~e.err => connected[c] /\ Readable(c))

DispatchNothing(e) ==
  /\ pc = "dispatch" /\ e \in batch
  /\ ~HasWork(e)
  /\ Consume(e)
  /\ UNCHANGED <<pc, running, acceptDue, newConn, kernelVars, peerVars, connVars,
                 tableVars, signalled>>

\* EPOLLERR or EPOLLHUP: Server::handleClose(fd) alone. It neither tells the
\* TcpConnection nor calls the close callback of main.cpp.
DispatchError(e) ==
  /\ pc = "dispatch" /\ e \in batch
  /\ e.err /\ HasWork(e)
  /\ Consume(e)
  /\ HandleClose(e.fd)
  /\ UNCHANGED <<pc, running, acceptDue, newConn, backlog, listenReady, fdTable,
                 peerVars, connVars, protocolHandlers, signalled>>

\* n > 0: main.cpp's message callback runs the handler filed under conn->getFd(). When
\* handleData() returns false it calls conn->close(), which takes the number out of the
\* descriptor table (and so out of epoll) and leaves both tables as they are.
HandlerVerdicts(c) ==
  IF protocolHandlers[fdOf[c]] = NoConn THEN {TRUE} ELSE BOOLEAN

ReadMessage(e, keep) ==
  LET c == connections[e.fd] IN
    /\ pc = "dispatch" /\ e \in batch
    /\ ~e.err /\ HasWork(e) /\ rx[c]
    /\ Consume(e)
    /\ rx' = [rx EXCEPT ![c] = FALSE]
    /\ keep \in HandlerVerdicts(c)
    /\ CloseConnections(IF keep THEN {} ELSE {c})
    /\ interest' = IF keep THEN interest ELSE interest \ {fdOf[c]}
    /\ ready' = IF keep THEN ready ELSE ready \ {c}
    /\ UNCHANGED <<pc, running, acceptDue, newConn, backlog, listenReady, peer,
                   tableVars, signalled>>

\* n <= 0: TcpConnection::handleClose() clears connected_, runs the close callbacks
\* (Server::handleClose, then main.cpp's erase), and calls close(), which returns at
\* once because connected_ is already false: the number stays open.
ForgetSocket(c) ==
  /\ connected' = [connected EXCEPT ![c] = FALSE]
  /\ UNCHANGED <<fdOf, fdTable>>

ReadEnd(e) ==
  LET c == connections[e.fd] IN
    /\ pc = "dispatch" /\ e \in batch
    /\ ~e.err /\ HasWork(e) /\ ~rx[c]
    /\ Consume(e)
    /\ ForgetSocket(c)
    /\ HandleClose(fdOf[c])
    /\ protocolHandlers' = [protocolHandlers EXCEPT ![fdOf[c]] = NoConn]
    /\ UNCHANGED <<pc, running, acceptDue, newConn, backlog, listenReady, peerVars,
                   signalled>>

-----------------------------------------------------------------------------
(* Server::handleAccept(): one iteration is Accept..., InsertConnection, and    *)
(* ConnectionCallback, with the signal possible between them                    *)

\* (Mutant: no loop, one accept per event.)
AcceptDoneEarly ==
  /\ pc = "accept"
  /\ pc' = "dispatch"
  /\ UNCHANGED <<running, acceptDue, batch, newConn, kernelVars, peerVars, connVars,
                 tableVars, signalled>>

\* accept(2) fails: EAGAIN, no free number (EMFILE), or the socket closed by stop().
AcceptDone ==
  /\ pc = "accept"
  /\ backlog # <<>> => \A f \in Fd : fdTable[f] # NoConn
  /\ pc' = "dispatch"
  /\ UNCHANGED <<running, acceptDue, batch, newConn, kernelVars, peerVars, connVars,
                 tableVars, signalled>>

\* accept(2) returned number f for connection c; the connection is closed at once,
\* because of the limit or because fcntl or epoll_ctl failed.
AcceptRefuses(c, f) ==
  /\ pc = "accept" /\ backlog # <<>>
  /\ c = Head(backlog) /\ IsLowestFree(f)
  /\ backlog' = Tail(backlog)
  /\ UNCHANGED <<pc, running, acceptDue, batch, newConn, listenReady, ready, fdTable,
                 interest, peerVars, connVars, tableVars, signalled>>

RejectAtLimit(c, f) == AcceptRefuses(c, f) /\ AtLimit
SetupFails(c, f) == AcceptRefuses(c, f) /\ ~AtLimit

\* A new TcpConnection, registered with epoll, which reports what is there already.
AcceptConnection(c, f) ==
  /\ pc = "accept" /\ backlog # <<>>
  /\ c = Head(backlog) /\ IsLowestFree(f)
  /\ ~AtLimit
  /\ pc' = "insert"
  /\ newConn' = c
  /\ backlog' = Tail(backlog)
  /\ fdTable' = [fdTable EXCEPT ![f] = c]
  /\ fdOf' = [fdOf EXCEPT ![c] = f]
  /\ connected' = [connected EXCEPT ![c] = TRUE]
  /\ interest' = interest \cup {f}
  /\ ready' = IF Readable(c) THEN ready \cup {c} ELSE ready
  /\ UNCHANGED <<running, acceptDue, batch, listenReady, peerVars, tableVars, signalled>>

\* connections_[conn_fd] = conn.
InsertConnection ==
  /\ pc = "insert"
  /\ pc' = "callback"
  /\ connections' = [connections EXCEPT ![fdOf[newConn]] = newConn]
  /\ UNCHANGED <<running, acceptDue, batch, newConn, kernelVars, peerVars, connVars,
                 protocolHandlers, signalled>>

\* (Mutant: an entry that is already there is kept, as emplace() would.)
FileHandlerOnce(f, c) ==
  protocolHandlers' =
    IF protocolHandlers[f] = NoConn THEN [protocolHandlers EXCEPT ![f] = c]
    ELSE protocolHandlers

FileHandler(f, c) == protocolHandlers' = [protocolHandlers EXCEPT ![f] = c]

\* main.cpp's connection callback: a new ProtocolHandler under conn->getFd(), which is
\* -1 if stop() has closed the connection meanwhile; then the handshake is sent.
ConnectionCallback ==
  /\ pc = "callback"
  /\ pc' = "accept"
  /\ newConn' = NoConn
  /\ FileHandler(fdOf[newConn], newConn)
  /\ UNCHANGED <<running, acceptDue, batch, kernelVars, peerVars, connVars, connections,
                 signalled>>

-----------------------------------------------------------------------------
Init ==
  /\ pc = "starting"
  /\ running = FALSE
  /\ backlog = <<>>
  /\ listenReady = FALSE
  /\ acceptDue = FALSE
  /\ ready = {}
  /\ batch = {}
  /\ peer = [c \in Conn |-> "absent"]
  /\ rx = [c \in Conn |-> FALSE]
  /\ fdTable = [f \in Fd |-> NoConn]
  /\ interest = {}
  /\ fdOf = [c \in Conn |-> NoFd]
  /\ connected = [c \in Conn |-> FALSE]
  /\ connections = [f \in Fd |-> NoConn]
  /\ protocolHandlers = [f \in Fd \cup {NoFd} |-> NoConn]
  /\ newConn = NoConn
  /\ signalled = FALSE

Accept == \E c \in Conn, f \in Fd :
  RejectAtLimit(c, f) \/ SetupFails(c, f) \/ AcceptConnection(c, f)

Dispatch == \E e \in batch :
  DispatchNothing(e) \/ DispatchError(e) \/ ReadEnd(e)
  \/ \E keep \in BOOLEAN : ReadMessage(e, keep)

\* The loop thread.
Loop ==
  \/ Wait \/ LoopExit \/ EndOfBatch \/ DispatchListen \/ Dispatch
  \/ AcceptDone \/ Accept \/ InsertConnection \/ ConnectionCallback

Start == StartFails \/ StartListening

Signal == SignalIgnored \/ SignalStops

Peer == \E c \in Conn : Connect(c) \/ PeerSend(c) \/ PeerFin(c) \/ PeerReset(c)

Next == Start \/ Loop \/ Signal \/ Peer

Spec == Init /\ [][Next]_vars

\* The loop thread is never stuck: every call in it returns, and epoll_wait returns
\* while the ready list is not empty.
FairSpec == Spec /\ WF_vars(Loop)

-----------------------------------------------------------------------------
(* Properties *)

\* Every variable stays in its domain.
TypeOK ==
  /\ pc \in {"starting", "wait", "dispatch", "accept", "insert", "callback", "exited"}
  /\ running \in BOOLEAN
  /\ backlog \in Seq(Conn)
  /\ listenReady \in BOOLEAN
  /\ acceptDue \in BOOLEAN
  /\ ready \subseteq Conn
  /\ batch \subseteq [fd : Fd, conn : Conn \cup {NoConn}, err : BOOLEAN]
  /\ peer \in [Conn -> {"absent", "up", "fin", "reset"}]
  /\ rx \in [Conn -> BOOLEAN]
  /\ fdTable \in [Fd -> Conn \cup {NoConn}]
  /\ interest \subseteq Fd
  /\ fdOf \in [Conn -> Fd \cup {NoFd}]
  /\ connected \in [Conn -> BOOLEAN]
  /\ connections \in [Fd -> Conn \cup {NoConn}]
  /\ protocolHandlers \in [Fd \cup {NoFd} -> Conn \cup {NoConn}]
  /\ newConn \in Conn \cup {NoConn}
  /\ signalled \in BOOLEAN

\* A TcpConnection that believes it is connected holds a number that still names its own
\* socket: close(), read() and write() of one client never reach the socket of another
\* that was given the same number later.
OwnsDescriptor == \A c \in Conn : connected[c] => fdOf[c] \in Fd /\ fdTable[fdOf[c]] = c

\* Numbers are reused within a batch (a QUIT frees one, the accept after it takes it),
\* yet the loop never hands a connection an event that another one caused.
NoStaleEvent == \A e \in batch : connections[e.fd] \in {e.conn, NoConn}

\* A connected client's bytes are always parsed by the handler made for it, never by the
\* (perhaps authenticated) handler its number had before: whoever connections_ names
\* under a number is named by protocol_handlers under the same number, from before its
\* first byte can be read.
SessionIsolation ==
  \A f \in Fd : connections[f] \in Live =>
    /\ fdOf[connections[f]] = f
    /\ \/ protocolHandlers[f] = connections[f]
       \/ pc = "callback" /\ newConn = connections[f]

\* While the server runs, epoll watches exactly the numbers of the connected connections
\* of connections_ (and the one being accepted): none is deaf, none is left behind.
Accepting == IF pc = "insert" THEN {fdOf[newConn]} ELSE {}
EpollMatchesConnections ==
  running => interest = {fdOf[c] : c \in Live} \cup Accepting

\* connections_ never holds more than max_connections_ entries, although an accept checks
\* the size and inserts in separate steps.
AdmissionBound == ConnectionCount <= MaxConnections

\* server.cpp:64, "close all connections": once stop() has run, no client that has not
\* reset is still connected, but for the one it may find between accept and insertion.
\* (A reset connection may have been dropped from connections_ before, unclosed.)
StopRan == signalled /\ ~running /\ pc # "starting"
StopClosesAllButOne ==
  StopRan => \A c, d \in Conn :
    (connected[c] /\ connected[d] /\ peer[c] # "reset" /\ peer[d] # "reset") => c = d

\* A connection that QUIT closed stays in connections_ and counts towards the limit, but
\* never under a number that is in use again: once the kernel gives the number to another
\* client, the entry is that client's before anything else looks at it.
StaleEntryIsFree ==
  \A f \in Fd : connections[f] \in Conn \ Live =>
    fdTable[f] = NoConn \/ (pc = "insert" /\ fdOf[newConn] = f)

\* While the server runs, a client that has reset does not stay in connections_,
\* although epoll tells of the reset only once (edge-triggered) and the reset may come
\* while an earlier event of that connection is still in the batch.
ResetIsNoticed == \A c \in Conn :
  (running /\ c \in Live /\ peer[c] = "reset") ~> (~running \/ c \notin Live)

\* After stop() has run, start() returns: nothing in the rest of the batch, or in an
\* accept loop the signal interrupted, keeps the loop alive.
StopEndsLoop == (signalled /\ ~running /\ pc # "starting") ~> (pc = "exited")

\* Where numbers cannot run out, a client that has connected is taken from the backlog, or
\* stop() closes the listening socket. (Where they do, accept() fails and the backlog waits
\* for the next arrival: server.cpp:123.)
ArrivalIsTaken ==
  Cardinality(Conn) <= Cardinality(Fd) => \A c \in Conn : IsPending(c) ~> ~IsPending(c)

\* main.cpp:77 logs "Connection closed" in the close callback; tcp_connection.cpp:133
\* closes the socket after it. A connection that stops being connected gives its socket
\* back to the kernel.
ClosedGivesSocketBack == \A c \in Conn : ~connected[c] => ~HasSocket(c)

=============================================================================
