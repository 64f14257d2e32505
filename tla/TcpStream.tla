------------------------------ MODULE TcpStream ------------------------------
(***************************************************************************)
(* The bytes of one accepted connection: the kernel's receive queue, the   *)
(* edge-triggered event, the single readv of TcpConnection::handleRead(),  *)
(* the one packet ProtocolHandler::handleData() takes per event, and the   *)
(* direct write of TcpConnection::send() with output_buffer_ behind it.    *)
(*                                                                         *)
(* A request packet is two segments, so that a read can end inside one; a  *)
(* reply is one send() of ReplyLen units (every command handler calls its  *)
(* response callback once), so that a write can be partial. Segments are   *)
(* only counted: module Buffer has the bytes.                              *)
(*                                                                         *)
(* input_buffer_ is reserved once (4096 bytes) and never reset, so a       *)
(* connection's whole input goes into it. The read that takes the input    *)
(* past InputCap spills, and the spill loses what was stored before it     *)
(* (module Buffer, BufferInput.cfg): from then on the length that          *)
(* checkPacketComplete() reads is that of arbitrary bytes.                 *)
(*                                                                         *)
(* TcpConnection::handleWrite() is not an action: addFd() and modifyFd()   *)
(* are only ever called with EventType::READ, so epoll never reports       *)
(* EPOLLOUT and Server::eventLoop() never calls it.                        *)
(***************************************************************************)
EXTENDS Integers, Sequences, SequencesExt

CONSTANTS
  Requests,   \* bound on the packets the peer sends
  ReplyLen,   \* units of a reply
  ReadMax,    \* segments one readv can take (the free capacity and the 64 KB on the stack)
  InputCap,   \* segments that input_buffer_ is reserved for
  TxCap       \* units the socket's send buffer holds

ASSUME StreamAssumption ==
  {Requests, ReplyLen, ReadMax, InputCap, TxCap} \subseteq Nat \ {0}

VARIABLES
  sent,       \* segments the peer has sent
  taken,      \* segments read into input_buffer_
  handled,    \* packets handleData() has consumed
  edge,       \* the socket is on epoll's ready list
  pc,         \* "wait", "event", "reply", "gone" (dropped by the server), "killed"
  produced,   \* units given to send(), in order
  txq,        \* the socket's send buffer
  outbuf,     \* output_buffer_
  received,   \* units the peer has read
  peer,       \* "up", "fin", "reset", or "finreset": a reset after a FIN
  sockErr,    \* what write(2) meets: "none", "ECONNRESET" once, then "EPIPE"
  pipelined   \* the peer has sent a packet before the reply to an earlier one was complete

inputVars  == <<sent, taken, handled, edge>>
outputVars == <<produced, txq, outbuf>>
peerVars   == <<received, peer, pipelined>>
vars == <<inputVars, pc, outputVars, peerVars, sockErr>>

PacketLen == 2
Lesser(a, b) == IF a <= b THEN a ELSE b

\* The reply to packet r, and whether the peer has all of it.
Reply(r) == [i \in 1 .. ReplyLen |-> <<r, i>>]
Answered(r) == ToSet(Reply(r)) \subseteq ToSet(received)

IsReset == peer \in {"reset", "finreset"}

Open == pc \notin {"gone", "killed"}

-----------------------------------------------------------------------------
(* The peer and the kernel *)

PeerSend ==
  /\ peer = "up" /\ Open
  /\ sent < PacketLen * Requests
  /\ sent' = sent + 1
  /\ edge' = TRUE
  /\ pipelined' = (pipelined \/ (sent % PacketLen = 0
                                 /\ \E r \in 1 .. sent \div PacketLen : ~Answered(r)))
  /\ UNCHANGED <<taken, handled, pc, outputVars, received, peer, sockErr>>

PeerRead ==
  /\ ~IsReset /\ txq # <<>>
  /\ received' = Append(received, Head(txq))
  /\ txq' = Tail(txq)
  /\ UNCHANGED <<inputVars, pc, produced, outbuf, peer, sockErr, pipelined>>

PeerFin ==
  /\ peer = "up" /\ Open
  /\ peer' = "fin"
  /\ edge' = TRUE
  /\ UNCHANGED <<sent, taken, handled, pc, outputVars, received, sockErr, pipelined>>

\* A reset after the peer's FIN leaves EPIPE at once, otherwise ECONNRESET comes first.
PeerReset ==
  /\ ~IsReset /\ Open
  /\ peer' = IF peer = "fin" THEN "finreset" ELSE "reset"
  /\ sockErr' = IF peer = "fin" THEN "EPIPE" ELSE "ECONNRESET"
  /\ edge' = TRUE
  /\ txq' = <<>>
  /\ UNCHANGED <<sent, taken, handled, pc, produced, outbuf, received, pipelined>>

-----------------------------------------------------------------------------
(* The loop thread *)

Readable == sent > taken \/ peer # "up"

\* EPOLLERR goes to Server::handleClose(), EPOLLIN to TcpConnection::handleRead().
\* (Mutant: the READ test comes before the ERROR test.)
AfterWaitReadFirst ==
  IF sent > taken THEN "event" ELSE IF IsReset THEN "gone"
  ELSE IF Readable THEN "event" ELSE "wait"
AfterWait == IF IsReset THEN "gone" ELSE IF Readable THEN "event" ELSE "wait"

EpollWait ==
  /\ pc = "wait" /\ edge
  /\ edge' = FALSE
  /\ pc' = AfterWait
  /\ UNCHANGED <<sent, taken, handled, outputVars, peerVars, sockErr>>

\* checkPacketComplete(): is there a whole packet after n more segments?
\* (Mutants: a strict comparison; any bytes at all.)
CompleteStrict(n) == taken + n - PacketLen * handled > PacketLen
CompleteAny(n) == taken + n - PacketLen * handled > 0
Complete(n) == taken + n - PacketLen * handled >= PacketLen

\* readFromFd() has spilled if the input has ever exceeded what was reserved.
Spilled(n) == taken + n > InputCap

\* What checkPacketComplete() may answer: once bytes were lost to a spill, anything.
PacketFound(n) == IF Spilled(n) THEN BOOLEAN ELSE {Complete(n)}

\* One readv, then the message callback: handleData() consumes one packet, if it finds
\* one. (What it makes of the bytes is up to module ProtocolSession: a reply, or none.)
ReadData ==
  LET n == Lesser(ReadMax, sent - taken) IN
    /\ pc = "event" /\ n > 0
    /\ taken' = taken + n
    /\ \E found \in PacketFound(n) :
         /\ handled' = IF found THEN handled + 1 ELSE handled
         /\ pc' = IF found THEN "reply" ELSE "wait"
    /\ UNCHANGED <<sent, edge, outputVars, peerVars, sockErr>>

\* End of file or an error: TcpConnection::handleClose().
ReadEnd ==
  /\ pc = "event" /\ sent = taken
  /\ pc' = "gone"
  /\ UNCHANGED <<inputVars, outputVars, peerVars, sockErr>>

\* TcpConnection::send() on a socket that works: write(2) takes what there is room for;
\* the rest (all of it on EAGAIN) goes to output_buffer_.
\* (Mutants: the whole of data is buffered after a partial write; the rest is dropped.)
WriteBuffersAll(us) ==
  LET n == Lesser(TxCap - Len(txq), Len(us)) IN
    /\ txq' = txq \o SubSeq(us, 1, n)
    /\ outbuf' = IF n < Len(us) THEN outbuf \o us ELSE outbuf
WriteDropsRest(us) ==
  LET n == Lesser(TxCap - Len(txq), Len(us)) IN
    /\ txq' = txq \o SubSeq(us, 1, n)
    /\ outbuf' = outbuf
WriteBuffersFront(us) ==
  LET n == Lesser(TxCap - Len(txq), Len(us)) IN
    /\ txq' = txq \o SubSeq(us, 1, n)
    /\ outbuf' = SubSeq(us, n + 1, Len(us)) \o outbuf
Write(us) ==
  LET n == Lesser(TxCap - Len(txq), Len(us)) IN
    /\ txq' = txq \o SubSeq(us, 1, n)
    /\ outbuf' = outbuf \o SubSeq(us, n + 1, Len(us))

\* sendResponse() ignores what send() returns; handleData() then says whether main.cpp
\* keeps the connection or closes it.
AfterReply == pc' \in {"wait", "gone"}

Send ==
  LET us == Reply(handled) IN
    /\ pc = "reply" /\ sockErr = "none"
    /\ produced' = produced \o us
    /\ Write(us)
    /\ AfterReply
    /\ UNCHANGED <<inputVars, peerVars, sockErr>>

\* write(2) returns -1 with ECONNRESET, once; the socket is then shut down.
SendFails ==
  /\ pc = "reply" /\ sockErr = "ECONNRESET"
  /\ sockErr' = "EPIPE"
  /\ AfterReply
  /\ UNCHANGED <<inputVars, outputVars, peerVars>>

\* write(2) with EPIPE raises SIGPIPE, which main.cpp does not handle.
SendKills ==
  /\ pc = "reply" /\ sockErr = "EPIPE"
  /\ pc' = "killed"
  /\ UNCHANGED <<inputVars, outputVars, peerVars, sockErr>>

\* QUIT: no reply, main.cpp closes the connection.
Quit ==
  /\ pc = "reply"
  /\ pc' = "gone"
  /\ UNCHANGED <<inputVars, outputVars, peerVars, sockErr>>

-----------------------------------------------------------------------------
Init ==
  /\ sent = 0 /\ taken = 0 /\ handled = 0
  /\ edge = FALSE
  /\ pc = "wait"
  /\ produced = <<>> /\ txq = <<>> /\ outbuf = <<>> /\ received = <<>>
  /\ peer = "up"
  /\ sockErr = "none"
  /\ pipelined = FALSE

Loop == EpollWait \/ ReadData \/ ReadEnd \/ Send \/ SendFails \/ SendKills \/ Quit
Peer == PeerSend \/ PeerRead \/ PeerFin \/ PeerReset

Next == Loop \/ Peer
Spec == Init /\ [][Next]_vars

\* The loop thread runs on, and the peer reads what reaches it.
FairSpec == Spec /\ WF_vars(Loop) /\ WF_vars(PeerRead)

-----------------------------------------------------------------------------
(* Properties *)

\* Counters and queues stay in range; before a spill no more packets are handled than
\* have been read.
TypeOK ==
  /\ sent \in 0 .. PacketLen * Requests
  /\ taken \in 0 .. sent
  /\ handled \in 0 .. taken
  /\ taken <= InputCap => handled <= taken \div PacketLen
  /\ edge \in BOOLEAN
  /\ pc \in {"wait", "event", "reply", "gone", "killed"}
  /\ Len(txq) <= TxCap
  /\ peer \in {"up", "fin", "reset", "finreset"}
  /\ sockErr \in {"none", "ECONNRESET", "EPIPE"}
  /\ pipelined \in BOOLEAN

\* Until a reset, every unit given to send() is in exactly one place: with the peer, in
\* the socket's send buffer, or in output_buffer_, even when a write was partial.
NothingLostOrRepeated ==
  ~IsReset =>
    LET all == received \o txq \o outbuf IN
      Len(all) = Len(produced) /\ ToSet(all) = ToSet(produced)

\* What waits in output_buffer_ waits in the order it was produced, so that flushing it
\* would be right if nothing had been written past it.
BufferedInOrder ==
  \A i, j \in DOMAIN outbuf :
    i < j => \E k, l \in DOMAIN produced :
               k < l /\ produced[k] = outbuf[i] /\ produced[l] = outbuf[j]

\* The peer reads replies in the order of its requests for as long as its send buffer
\* has always had room for a reply.
InOrderWhileUnbuffered ==
  (outbuf = <<>> /\ ~IsReset) => received \o txq = produced

\* For as long as a connection's whole input has fitted input_buffer_ (4096 bytes), a
\* peer that waits for each reply before it sends the next request is not left with a
\* request that arrived whole and that nobody looks at: when the loop has nothing to do
\* for it, its last complete packet has been handled. (One read takes a packet.) After
\* that nothing is promised: a short request of such a peer may stay unanswered.
NoStallInLockstep ==
  (~pipelined /\ taken <= InputCap /\ ReadMax >= PacketLen /\ pc = "wait" /\ ~edge) =>
    handled = sent \div PacketLen

\* A client that resets can make one write fail, but SIGPIPE kills the process only if
\* that client had sent a FIN before: after a failed write the error event comes before
\* anything else the client sent is looked at.
KilledOnlyAfterFin == pc = "killed" => peer = "finreset"

\* tcp_connection.cpp:56, "EAGAIN: write to the output buffer", README.md:19, "double
\* buffering (input and output buffers)": what is put in output_buffer_ is sent once the
\* socket has room, to a peer that stays and reads.
OutputBufferDrains == (outbuf # <<>>) ~> (outbuf = <<>> \/ ~Open \/ peer # "up")

=============================================================================
