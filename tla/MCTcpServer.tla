----------------------------- MODULE MCTcpServer -----------------------------
(* Bounds for TLC: clients are numbered, descriptor numbers small ones.     *)
EXTENDS TcpServer

SmallFd == 5 .. 7

\* The clients are alike, so it is enough to look at the behaviours in which they connect
\* in the order of their numbers. (TLC's symmetry would be unsound: the run checks
\* liveness too.)
ConnectInOrder(c) == (\A d \in Conn : d < c => peer[d] # "absent") /\ Connect(c)

OrderedPeer == \E c \in Conn : ConnectInOrder(c) \/ PeerSend(c) \/ PeerFin(c) \/ PeerReset(c)
OrderedNext == Start \/ Loop \/ Signal \/ OrderedPeer
OrderedSpec == Init /\ [][OrderedNext]_vars /\ WF_vars(Loop)
=============================================================================
