----------------------------- MODULE StreamProofs -----------------------------
(***************************************************************************)
(* The invariants of module TcpStream, for every number of requests, every *)
(* length of a reply, every readv, every input and every send buffer.      *)
(*                                                                         *)
(* What travels is told apart by the packet it answers: units of replies   *)
(* to packets that were handled (QueueInv). A peer that waits is never     *)
(* more than one packet ahead of the packets handled, so that a readv of   *)
(* two segments takes all there is (LockstepInv): that much needs the      *)
(* input to have fitted input_buffer_, the rest does not. After a write    *)
(* that failed the loop is not in a handler again before it drops the      *)
(* connection (ErrorInv). Units stay in order because each write appends   *)
(* to what was produced, sent and buffered alike (OrderInv).               *)
(***************************************************************************)
EXTENDS TcpStream, SequenceTheorems, TLAPS

\* Units of the replies to the first h packets.
Units(h) == (1 .. h) \X (1 .. ReplyLen)

QueueInv ==
  /\ produced \in Seq(Units(handled)) /\ txq \in Seq(Units(handled))
  /\ outbuf \in Seq(Units(handled)) /\ received \in Seq(Units(handled))
  /\ pc = "reply" => handled >= 1

\* A second write, with EPIPE, comes only after a FIN.
ErrorInv ==
  /\ ~IsReset => sockErr = "none"
  /\ peer = "reset" /\ sockErr = "EPIPE" => pc \in {"wait", "gone"}
  /\ KilledOnlyAfterFin

\* Before a spill, a peer that waits is at most a packet ahead, and all it sent before the
\* last edge was read.
LockstepInv ==
  (~pipelined /\ taken <= InputCap) =>
    /\ sent <= PacketLen * handled + PacketLen
    /\ taken < PacketLen * handled + PacketLen
    /\ ReadMax >= PacketLen /\ pc \in {"wait", "reply"} /\ ~edge => taken = sent

SInv == TypeOK /\ QueueInv /\ ErrorInv /\ LockstepInv

-----------------------------------------------------------------------------
LEMMA Assumed ==
  /\ Requests \in Nat /\ ReplyLen \in Nat /\ ReplyLen >= 1
  /\ ReadMax \in Nat /\ ReadMax >= 1 /\ InputCap \in Nat /\ TxCap \in Nat
  BY StreamAssumption

LEMMA UnitsGrow ==
  ASSUME NEW h \in Nat, NEW q \in Seq(Units(h))
  PROVE  q \in Seq(Units(h + 1))
  <1>1. Units(h) \subseteq Units(h + 1)
    BY DEF Units
  <1> QED
    BY <1>1, SeqMonotonic

\* The reply that a handler sends.
LEMMA ReplyHasUnits ==
  ASSUME NEW h \in Nat, h >= 1
  PROVE  Reply(h) \in Seq(Units(h)) /\ Len(Reply(h)) = ReplyLen /\ <<h, 1>> \in ToSet(Reply(h))
  <1>1. Reply(h) = [i \in 1 .. ReplyLen |-> <<h, i>>] /\ ReplyLen \in Nat /\ ReplyLen >= 1
    BY Assumed DEF Reply
  <1>2. \A i \in 1 .. ReplyLen : <<h, i>> \in Units(h)
    BY DEF Units
  <1>3. Reply(h) \in Seq(Units(h)) /\ Len(Reply(h)) = ReplyLen
    BY <1>1, <1>2
  <1>4. 1 \in DOMAIN Reply(h) /\ Reply(h)[1] = <<h, 1>>
    BY <1>1
  <1> QED
    BY <1>3, <1>4 DEF ToSet

\* A reply that the peer has is that to a packet that was handled.
LEMMA AnsweredIsHandled ==
  ASSUME QueueInv, handled \in Nat, NEW r \in Nat, r >= 1, Answered(r)
  PROVE  r <= handled
  <1>1. <<r, 1>> \in ToSet(received)
    BY ReplyHasUnits DEF Answered
  <1>2. ToSet(received) \subseteq Units(handled)
    BY DEF QueueInv, ToSet
  <1>3. <<r, 1>> \in Units(handled)
    BY <1>1, <1>2
  <1> QED
    BY <1>3 DEF Units

\* write(2) takes the front of a reply, and output_buffer_ the rest.
LEMMA WriteSplits ==
  ASSUME TypeOK, NEW S, NEW us \in Seq(S), txq \in Seq(S), outbuf \in Seq(S), Write(us)
  PROVE  \E a, b \in Seq(S) :
           /\ us = a \o b /\ txq' = txq \o a /\ outbuf' = outbuf \o b
           /\ Len(a) + Len(txq) <= TxCap
  <1> DEFINE n == Lesser(TxCap - Len(txq), Len(us))
  <1>1. n \in 0 .. Len(us) /\ n + Len(txq) <= TxCap
    BY Assumed DEF TypeOK, Lesser
  <1>2. txq' = txq \o SubSeq(us, 1, n) /\ outbuf' = outbuf \o SubSeq(us, n + 1, Len(us))
    BY DEF Write
  <1> HIDE DEF n
  <1>3. /\ SubSeq(us, 1, n) \in Seq(S) /\ Len(SubSeq(us, 1, n)) = n
    BY <1>1, SubSeqProperties
  <1>4. /\ SubSeq(us, n + 1, Len(us)) \in Seq(S)
        /\ Len(SubSeq(us, n + 1, Len(us))) = Len(us) - n
    BY <1>1, SubSeqProperties
  <1>5. SubSeq(us, 1, n) \o SubSeq(us, n + 1, Len(us)) = us
    <2>1. 1 \in 1 .. Len(us) + 1 /\ n \in 1 - 1 .. Len(us) /\ Len(us) \in n .. Len(us)
      BY <1>1
    <2>2. SubSeq(us, 1, n) \o SubSeq(us, n + 1, Len(us)) = SubSeq(us, 1, Len(us))
      BY <2>1, ConcatAdjacentSubSeq
    <2> QED
      BY <2>2, SubSeqFull
  <1> QED
    BY <1>1, <1>2, <1>3, <1>4, <1>5

-----------------------------------------------------------------------------
(* Types *)

LEMMA InitInv == Init => SInv
  <1> SUFFICES ASSUME Init  PROVE SInv
    OBVIOUS
  <1>1. TypeOK
    <2>1. Len(txq) = 0 /\ sent = 0 /\ taken = 0 /\ handled = 0
      BY DEF Init
    <2>2. sent \in 0 .. 2 * Requests /\ taken \in 0 .. sent /\ handled \in 0 .. taken
          /\ handled <= taken \div 2 /\ Len(txq) <= TxCap
      BY <2>1, Assumed
    <2>3. edge \in BOOLEAN /\ pipelined \in BOOLEAN /\ pc = "wait" /\ peer = "up"
          /\ sockErr = "none"
      BY DEF Init
    <2> QED
      BY <2>2, <2>3 DEF TypeOK, PacketLen
  <1>2. QueueInv
    BY DEF Init, QueueInv
  <1>3. ErrorInv /\ LockstepInv
    BY DEF Init, ErrorInv, KilledOnlyAfterFin, IsReset, LockstepInv, PacketLen
  <1> QED
    BY <1>1, <1>2, <1>3 DEF SInv

\* Handling of what one readv brings.
LEMMA ReadCounts ==
  ASSUME TypeOK, ReadData
  PROVE  /\ taken' \in taken + 1 .. sent /\ handled' \in handled .. handled + 1
         /\ taken' = sent \/ taken' = taken + ReadMax
         /\ handled' \in 0 .. taken'
         /\ taken' <= InputCap => handled' <= taken' \div PacketLen
         /\ \/ handled' = handled + 1 /\ pc' = "reply"
            \/ /\ handled' = handled /\ pc' = "wait"
               /\ taken' <= InputCap => taken' < PacketLen * handled + PacketLen
  <1> DEFINE n == Lesser(ReadMax, sent - taken)
  <1>1. /\ sent \in Nat /\ taken \in 0 .. sent /\ handled \in 0 .. taken
        /\ taken <= InputCap => handled <= taken \div 2
    BY Assumed DEF TypeOK, PacketLen
  <1>2. n \in Nat /\ n > 0 /\ n <= sent - taken /\ (n = ReadMax \/ n = sent - taken)
    BY <1>1, Assumed DEF ReadData, Lesser
  <1>3. /\ taken' = taken + n
        /\ \E found \in PacketFound(n) :
             /\ handled' = IF found THEN handled + 1 ELSE handled
             /\ pc' = IF found THEN "reply" ELSE "wait"
    BY Zenon DEF ReadData
  <1> HIDE DEF n
  <1> DEFINE whole == taken + n - 2 * handled >= 2
  <1>4. PacketFound(n) = IF taken + n <= InputCap THEN {whole} ELSE BOOLEAN
    BY <1>1, <1>2, Assumed DEF PacketFound, Spilled, Complete, PacketLen
  <1> HIDE DEF whole
  <1>5. \/ handled' = handled + 1 /\ pc' = "reply" /\ (taken + n <= InputCap => whole)
        \/ handled' = handled /\ pc' = "wait" /\ (taken + n <= InputCap => ~whole)
    <2>1. PICK found \in PacketFound(n) :
            /\ handled' = IF found THEN handled + 1 ELSE handled
            /\ pc' = IF found THEN "reply" ELSE "wait"
      BY <1>3, Zenon
    <2>2. taken + n <= InputCap => found \in {whole}
      BY <1>4, <2>1, Zenon
    <2>3. taken + n <= InputCap => (found = whole)
      BY <2>2, Zenon
    <2>4. CASE found
      <3>1. handled' = handled + 1 /\ pc' = "reply"
        BY <2>1, <2>4, Zenon
      <3>2. taken + n <= InputCap => whole
        BY <2>3, <2>4, Zenon
      <3> QED
        BY <3>1, <3>2, Zenon
    <2>5. CASE ~found
      <3>1. handled' = handled /\ pc' = "wait"
        BY <2>1, <2>5, Zenon
      <3>2. taken + n <= InputCap => ~whole
        BY <2>3, <2>5, Zenon
      <3> QED
        BY <3>1, <3>2, Zenon
    <2> QED
      BY <2>4, <2>5, Zenon
  <1> USE DEF whole
  <1>6. \A a, h \in Nat : h <= a \div 2 <=> 2 * h <= a
    OBVIOUS
  <1>7. handled' \in 0 .. taken' /\ taken' \in Nat
    BY <1>1, <1>2, <1>3, <1>5
  <1>8. ASSUME taken' <= InputCap  PROVE 2 * handled' <= taken'
    <2>1. 2 * handled <= taken
      BY <1>1, <1>2, <1>3, <1>6, <1>8, Assumed
    <2> QED
      BY <1>1, <1>2, <1>3, <1>5, <1>8, <2>1, Assumed
  <1> QED
    BY <1>1, <1>2, <1>3, <1>5, <1>6, <1>7, <1>8 DEF PacketLen

LEMMA SendQueues ==
  ASSUME SInv, Send
  PROVE  \E a, b \in Seq(Units(handled)) :
           /\ produced' = produced \o (a \o b)
           /\ txq' = txq \o a /\ outbuf' = outbuf \o b
           /\ Len(a) + Len(txq) <= TxCap
  <1>1. handled \in Nat /\ handled >= 1
    BY Assumed DEF SInv, TypeOK, QueueInv, Send, PacketLen
  <1>2. Reply(handled) \in Seq(Units(handled))
    BY <1>1, ReplyHasUnits
  <1>3. produced' = produced \o Reply(handled) /\ Write(Reply(handled))
    BY DEF Send
  <1>4. TypeOK /\ txq \in Seq(Units(handled)) /\ outbuf \in Seq(Units(handled))
    BY DEF SInv, QueueInv
  <1>5. \E a, b \in Seq(Units(handled)) :
          /\ Reply(handled) = a \o b /\ txq' = txq \o a /\ outbuf' = outbuf \o b
          /\ Len(a) + Len(txq) <= TxCap
    BY <1>2, <1>3, <1>4, WriteSplits
  <1> QED
    BY <1>3, <1>5

LEMMA TypeKeeps ==
  ASSUME SInv, Next
  PROVE  TypeOK'
  <1>1. TypeOK /\ txq \in Seq(Units(handled))
    BY DEF SInv, QueueInv
  <1>2. CASE EpollWait \/ ReadEnd \/ SendFails \/ SendKills \/ Quit
    BY <1>1, <1>2 DEF EpollWait, AfterWait, ReadEnd, SendFails, AfterReply, SendKills, Quit,
                      TypeOK, inputVars, outputVars, peerVars
  <1>3. CASE PeerSend
    BY <1>1, <1>3, Assumed DEF PeerSend, TypeOK, outputVars, PacketLen
  <1>4. CASE PeerFin
    BY <1>1, <1>4 DEF PeerFin, TypeOK, outputVars
  <1>5. CASE PeerReset
    BY <1>1, <1>5, Assumed DEF PeerReset, TypeOK
  <1>6. CASE PeerRead
    <2>1. Len(txq') <= TxCap
      BY <1>1, <1>6, Assumed, HeadTailProperties DEF PeerRead, TypeOK
    <2> QED
      BY <1>1, <1>6, <2>1 DEF PeerRead, TypeOK, inputVars
  <1>7. CASE ReadData
    <2>1. /\ taken' \in 0 .. sent /\ handled' \in 0 .. taken'
          /\ taken' <= InputCap => handled' <= taken' \div PacketLen
          /\ pc' \in {"reply", "wait"}
      BY <1>1, <1>7, ReadCounts, Assumed DEF TypeOK, PacketLen
    <2> QED
      BY <1>1, <1>7, <2>1 DEF ReadData, TypeOK, outputVars, peerVars
  <1>8. CASE Send
    <2>1. Len(txq') <= TxCap
      <3>1. PICK a \in Seq(Units(handled)) : txq' = txq \o a /\ Len(a) + Len(txq) <= TxCap
        BY <1>8, SendQueues
      <3> QED
        BY <1>1, <3>1, Assumed, ConcatProperties
    <2> QED
      BY <1>1, <1>8, <2>1 DEF Send, AfterReply, TypeOK, inputVars, peerVars
  <1> QED
    BY <1>2, <1>3, <1>4, <1>5, <1>6, <1>7, <1>8 DEF Next, Loop, Peer

LEMMA QueueKeeps ==
  ASSUME SInv, Next
  PROVE  QueueInv'
  <1>1. QueueInv /\ handled \in Nat
    BY Assumed DEF SInv, TypeOK, PacketLen
  <1>2. CASE EpollWait \/ ReadEnd \/ SendFails \/ SendKills \/ Quit
    BY <1>1, <1>2 DEF EpollWait, AfterWait, ReadEnd, SendFails, AfterReply, SendKills, Quit,
                      QueueInv, inputVars, outputVars, peerVars
  <1>3. CASE PeerSend \/ PeerFin
    BY <1>1, <1>3 DEF PeerSend, PeerFin, QueueInv, outputVars
  <1>4. CASE PeerReset
    BY <1>1, <1>4, EmptySeq DEF PeerReset, QueueInv
  <1>5. CASE PeerRead
    <2>1. txq # <<>> /\ txq' = Tail(txq) /\ received' = Append(received, Head(txq))
          /\ UNCHANGED <<produced, outbuf, handled, pc>>
      BY <1>5 DEF PeerRead, inputVars
    <2>2. Tail(txq) \in Seq(Units(handled)) /\ Head(txq) \in Units(handled)
      BY <1>1, <2>1, HeadTailProperties DEF QueueInv
    <2>3. Append(received, Head(txq)) \in Seq(Units(handled))
      BY <1>1, <2>2, AppendProperties DEF QueueInv
    <2>4. Units(handled)' = Units(handled)
      BY <2>1 DEF Units
    <2> QED
      BY <1>1, <2>1, <2>2, <2>3, <2>4 DEF QueueInv
  <1>6. CASE ReadData
    <2>1. handled' \in {handled, handled + 1} /\ (pc' = "reply" => handled' >= 1)
      BY <1>1, <1>6, ReadCounts DEF SInv
    <2>2. UNCHANGED <<produced, txq, outbuf, received>>
      BY <1>6 DEF ReadData, outputVars, peerVars
    <2> QED
      BY <1>1, <2>1, <2>2, UnitsGrow DEF QueueInv
  <1>7. CASE Send
    <2>1. UNCHANGED <<received, handled>> /\ pc' # "reply"
      BY <1>7 DEF Send, AfterReply, inputVars, peerVars
    <2>2. PICK a \in Seq(Units(handled)), b \in Seq(Units(handled)) :
            produced' = produced \o (a \o b) /\ txq' = txq \o a /\ outbuf' = outbuf \o b
      BY <1>7, SendQueues
    <2>3. Units(handled)' = Units(handled)
      BY <2>1 DEF Units
    <2> QED
      BY <1>1, <2>1, <2>2, <2>3, ConcatProperties DEF QueueInv
  <1> QED
    BY <1>2, <1>3, <1>4, <1>5, <1>6, <1>7 DEF Next, Loop, Peer

LEMMA ErrorKeeps ==
  ASSUME SInv, Next
  PROVE  ErrorInv'
  <1>1. CASE EpollWait \/ ReadData \/ ReadEnd
    BY <1>1 DEF EpollWait, AfterWait, ReadData, ReadEnd, SInv, TypeOK, ErrorInv, IsReset,
                KilledOnlyAfterFin, inputVars, outputVars, peerVars
  <1>2. CASE Send \/ SendFails \/ SendKills \/ Quit
    BY <1>2 DEF Send, SendFails, AfterReply, SendKills, Quit, SInv, TypeOK, ErrorInv, IsReset,
                KilledOnlyAfterFin, inputVars, outputVars, peerVars
  <1>3. CASE PeerSend \/ PeerRead \/ PeerFin \/ PeerReset
    BY <1>3 DEF PeerSend, PeerRead, PeerFin, PeerReset, Open, SInv, TypeOK, ErrorInv, IsReset,
                KilledOnlyAfterFin, inputVars, outputVars
  <1> QED
    BY <1>1, <1>2, <1>3 DEF Next, Loop, Peer

LEMMA LockstepKeeps ==
  ASSUME SInv, Next
  PROVE  LockstepInv'
  <1>1. /\ sent \in Nat /\ taken \in Nat /\ taken <= sent /\ handled \in Nat
        /\ taken <= InputCap => handled <= taken \div 2
    BY Assumed DEF SInv, TypeOK, PacketLen
  <1>2. CASE EpollWait
    BY <1>1, <1>2 DEF EpollWait, AfterWait, Readable, IsReset, SInv, LockstepInv, peerVars
  <1>3. CASE ReadEnd \/ Quit
    BY <1>3 DEF ReadEnd, Quit, SInv, LockstepInv, inputVars, peerVars
  <1>4. CASE Send \/ SendFails \/ SendKills
    BY <1>4 DEF Send, SendFails, SendKills, AfterReply, SInv, LockstepInv, inputVars, peerVars
  <1>5. CASE PeerRead \/ PeerFin \/ PeerReset
    BY <1>5 DEF PeerRead, PeerFin, PeerReset, SInv, LockstepInv, inputVars, outputVars
  <1>6. CASE ReadData
    <2>1. /\ taken' \in Nat /\ taken' <= sent /\ taken < taken'
          /\ \/ handled' = handled + 1
             \/ handled' = handled /\ (taken' <= InputCap => taken' < 2 * handled + 2)
          /\ taken' = sent \/ taken' = taken + ReadMax
      BY <1>1, <1>6, ReadCounts DEF SInv, PacketLen
    <2>2. sent' = sent /\ pipelined' = pipelined
      BY <1>6 DEF ReadData, peerVars
    <2>3. taken' <= InputCap => taken <= InputCap /\ 2 * handled <= taken
      BY <1>1, <2>1, Assumed
    <2>4. handled' >= handled /\ handled' \in Nat
      BY <1>1, <2>1
    <2>5. ASSUME ~pipelined, taken' <= InputCap
          PROVE  /\ sent <= 2 * handled + 2 /\ taken < 2 * handled + 2
      BY <2>3, <2>5 DEF SInv, LockstepInv, PacketLen
    <2>6. ASSUME ~pipelined, taken' <= InputCap
          PROVE  /\ sent' <= 2 * handled' + 2 /\ taken' < 2 * handled' + 2
                 /\ ReadMax >= 2 => taken' = sent'
      <3>1. sent \in Nat /\ taken \in Nat /\ handled \in Nat
        BY <1>1
      <3>2. taken' < 2 * handled' + 2
        BY <2>1, <2>5, <2>6, <3>1
      <3>3. ReadMax >= 2 => taken' = sent
        <4>1. CASE taken' = taken + ReadMax
          <5>1. sent <= 2 * handled + 2 /\ 2 * handled <= taken /\ taken' <= sent
            BY <2>1, <2>3, <2>5, <2>6
          <5> QED
            BY <3>1, <4>1, <5>1, Assumed
        <4> QED
          BY <2>1, <4>1
      <3> QED
        <4>1. \A x, y, z \in Nat : x <= 2 * y + 2 /\ z >= y => x <= 2 * z + 2
          OBVIOUS
        <4>2. sent' <= 2 * handled' + 2
          BY <2>2, <2>4, <2>5, <2>6, <3>1, <4>1
        <4> QED
          BY <2>2, <3>2, <3>3, <4>2
    <2> QED
      BY <2>2, <2>6 DEF LockstepInv, PacketLen
  <1>7. CASE PeerSend
    <2>1. sent' = sent + 1 /\ edge' = TRUE /\ UNCHANGED <<taken, handled, pc>>
      BY <1>7 DEF PeerSend
    <2>2. ~pipelined' => ~pipelined /\ (sent % 2 = 0 => \A r \in 1 .. sent \div 2 : Answered(r))
      BY <1>7 DEF PeerSend, PacketLen
    <2>3. ASSUME ~pipelined', taken <= InputCap  PROVE sent + 1 <= 2 * handled + 2
      <3>1. CASE sent % 2 = 0 /\ sent > 0
        <4>1. sent \div 2 \in 1 .. sent \div 2 /\ sent = 2 * (sent \div 2)
          BY <1>1, <3>1
        <4>2. sent \div 2 <= handled
          BY <1>1, <2>2, <2>3, <3>1, <4>1, AnsweredIsHandled DEF SInv
        <4> QED
          BY <1>1, <4>1, <4>2
      <3>2. CASE sent % 2 # 0 \/ sent = 0
        <4>1. sent <= 2 * handled + 2
          BY <2>2, <2>3 DEF SInv, LockstepInv, PacketLen
        <4> QED
          BY <1>1, <3>2, <4>1
      <3> QED
        BY <1>1, <3>1, <3>2
    <2> QED
      BY <2>1, <2>2, <2>3 DEF SInv, LockstepInv, PacketLen
  <1> QED
    BY <1>2, <1>3, <1>4, <1>5, <1>6, <1>7 DEF Next, Loop, Peer

LEMMA NextKeeps == SInv /\ [Next]_vars => SInv'
  <1> SUFFICES ASSUME SInv, [Next]_vars  PROVE SInv'
    OBVIOUS
  <1>1. CASE Next
    BY <1>1, TypeKeeps, QueueKeeps, ErrorKeeps, LockstepKeeps DEF SInv
  <1>2. CASE UNCHANGED vars
    BY <1>2 DEF vars, inputVars, outputVars, peerVars, SInv, TypeOK, QueueInv, ErrorInv,
                KilledOnlyAfterFin, IsReset, LockstepInv, Units
  <1> QED
    BY <1>1, <1>2

LEMMA Invariant == Spec => []SInv
  BY InitInv, NextKeeps, PTL DEF Spec

(* Every counter and queue of a connection stays in range: the send buffer never holds *)
(* more than it can, and never more packets are handled than have been read.           *)
THEOREM TypeCorrect == Spec => []TypeOK
  <1>1. SInv => TypeOK
    BY DEF SInv
  <1> QED
    BY <1>1, Invariant, PTL

(* SIGPIPE ends the process only for a client that sent a FIN before its reset: after   *)
(* the failed write of TcpConnection::send() the loop sees the error event first.       *)
THEOREM KillSafe == Spec => []KilledOnlyAfterFin
  <1>1. SInv => KilledOnlyAfterFin
    BY DEF SInv, ErrorInv
  <1> QED
    BY <1>1, Invariant, PTL

(* While all that a connection has received fits its input_buffer_, one readv per event *)
(* is enough for a peer that waits for each reply, if the readv can take a packet: no    *)
(* complete packet of its is left unhandled. (Past that bound readFromFd() has lost      *)
(* bytes, and nothing is claimed.)                                                       *)
THEOREM StallSafe == Spec => []NoStallInLockstep
  <1>1. SInv => NoStallInLockstep
    <2> SUFFICES ASSUME SInv, ~pipelined, taken <= InputCap, ReadMax >= PacketLen,
                        pc = "wait", ~edge
                 PROVE  handled = sent \div PacketLen
      BY DEF NoStallInLockstep
    <2>1. taken = sent /\ taken < 2 * handled + 2
      BY DEF SInv, LockstepInv, PacketLen
    <2>2. sent \in Nat /\ handled \in Nat /\ handled <= taken \div 2
      BY Assumed DEF SInv, TypeOK, PacketLen
    <2> QED
      BY <2>1, <2>2 DEF PacketLen
  <1> QED
    BY <1>1, Invariant, PTL

-----------------------------------------------------------------------------
(* Order *)

InOrder(o, p) ==
  \A i, j \in DOMAIN o :
    i < j => \E k, l \in DOMAIN p : k < l /\ p[k] = o[i] /\ p[l] = o[j]

Found(o, p) == \A i \in DOMAIN o : \E k \in DOMAIN p : p[k] = o[i]

OrderInv ==
  /\ NothingLostOrRepeated /\ InOrderWhileUnbuffered
  /\ InOrder(outbuf, produced) /\ Found(outbuf, produced)

LEMMA ToSetConcat ==
  ASSUME NEW S, NEW s \in Seq(S), NEW t \in Seq(S)
  PROVE  ToSet(s \o t) = ToSet(s) \union ToSet(t)
  <1>1. s \o t \in Seq(S) /\ Len(s \o t) = Len(s) + Len(t)
    BY ConcatProperties
  <1>2. \A i \in 1 .. Len(s) + Len(t) :
          (s \o t)[i] = IF i <= Len(s) THEN s[i] ELSE t[i - Len(s)]
    BY ConcatProperties
  <1>3. ToSet(s \o t) \subseteq ToSet(s) \union ToSet(t)
    <2> SUFFICES ASSUME NEW i \in 1 .. Len(s) + Len(t)
                 PROVE  (s \o t)[i] \in ToSet(s) \union ToSet(t)
      BY <1>1 DEF ToSet
    <2>1. CASE i <= Len(s)
      BY <1>2, <2>1 DEF ToSet
    <2>2. CASE ~(i <= Len(s))
      <3>1. i - Len(s) \in 1 .. Len(t)
        BY <2>2
      <3> QED
        BY <1>2, <2>2, <3>1 DEF ToSet
    <2> QED
      BY <2>1, <2>2
  <1>4. ToSet(s) \subseteq ToSet(s \o t)
    BY <1>1, <1>2 DEF ToSet
  <1>5. ToSet(t) \subseteq ToSet(s \o t)
    <2> SUFFICES ASSUME NEW i \in 1 .. Len(t)
                 PROVE  t[i] \in ToSet(s \o t)
      BY DEF ToSet
    <2>1. i + Len(s) \in 1 .. Len(s) + Len(t) /\ ~(i + Len(s) <= Len(s))
          /\ (i + Len(s)) - Len(s) = i
      OBVIOUS
    <2> QED
      BY <1>1, <1>2, <2>1 DEF ToSet
  <1> QED
    BY <1>3, <1>4, <1>5

\* A suffix of what is produced goes on output_buffer_: what is there stays in order.
LEMMA BufferExtends ==
  ASSUME NEW S, NEW p \in Seq(S), NEW o \in Seq(S), NEW a \in Seq(S), NEW b \in Seq(S),
         InOrder(o, p), Found(o, p)
  PROVE  InOrder(o \o b, p \o (a \o b)) /\ Found(o \o b, p \o (a \o b))
  <1> DEFINE q == p \o (a \o b)
             r == o \o b
             At(i) == Len(p) + Len(a) + (i - Len(o))
  <1>1. /\ q \in Seq(S) /\ Len(q) = Len(p) + Len(a) + Len(b)
        /\ r \in Seq(S) /\ Len(r) = Len(o) + Len(b)
    BY ConcatProperties
  <1>2. \A k \in 1 .. Len(p) : k \in DOMAIN q /\ q[k] = p[k]
    BY <1>1, ConcatProperties
  <1>3. \A i \in 1 .. Len(o) : r[i] = o[i]
    BY <1>1, ConcatProperties
  <1>4. \A i \in DOMAIN r :
          ~(i <= Len(o)) => At(i) \in DOMAIN q /\ At(i) > Len(p) /\ q[At(i)] = r[i]
    <2> SUFFICES ASSUME NEW i \in DOMAIN r, ~(i <= Len(o))
                 PROVE  At(i) \in DOMAIN q /\ At(i) > Len(p) /\ q[At(i)] = r[i]
      OBVIOUS
    <2>1. i \in Int /\ i - Len(o) \in 1 .. Len(b)
      BY <1>1
    <2>2. r[i] = b[i - Len(o)]
      BY <1>1, <2>1, ConcatProperties
    <2>3. Len(a) + (i - Len(o)) \in 1 .. Len(a \o b)
          /\ (a \o b)[Len(a) + (i - Len(o))] = b[i - Len(o)]
      BY <2>1, ConcatProperties
    <2>4. q[At(i)] = (a \o b)[Len(a) + (i - Len(o))]
      BY <2>1, <2>3, ConcatProperties
    <2>5. At(i) \in 1 .. Len(q) /\ At(i) > Len(p)
      BY <1>1, <2>1
    <2> QED
      BY <1>1, <2>2, <2>3, <2>4, <2>5
  <1> HIDE DEF q, r, At
  <1>5. DOMAIN o = 1 .. Len(o) /\ DOMAIN p = 1 .. Len(p)
    OBVIOUS
  <1>6. ASSUME NEW i \in DOMAIN r  PROVE \E k \in DOMAIN q : q[k] = r[i]
    <2>1. CASE i <= Len(o)
      <3>1. i \in 1 .. Len(o)
        BY <1>1, <1>6, <2>1
      <3> QED
        BY <1>2, <1>3, <1>5, <3>1 DEF Found
    <2> QED
      BY <1>4, <1>6, <2>1
  <1>7. ASSUME NEW i \in DOMAIN r, NEW j \in DOMAIN r, i < j
        PROVE  \E k, l \in DOMAIN q : k < l /\ q[k] = r[i] /\ q[l] = r[j]
    <2>1. i \in 1 .. Len(r) /\ j \in 1 .. Len(r)
      BY <1>1
    <2>2. CASE j <= Len(o)
      <3>1. i \in 1 .. Len(o) /\ j \in 1 .. Len(o)
        BY <1>1, <1>7, <2>1, <2>2
      <3>2. PICK k \in 1 .. Len(p), l \in 1 .. Len(p) : k < l /\ p[k] = o[i] /\ p[l] = o[j]
        BY <1>5, <1>7, <3>1 DEF InOrder
      <3> QED
        BY <1>2, <1>3, <3>1, <3>2
    <2>3. CASE i <= Len(o) /\ ~(j <= Len(o))
      <3>1. i \in 1 .. Len(o)
        BY <2>1, <2>3
      <3>2. PICK k \in 1 .. Len(p) : p[k] = o[i]
        BY <1>5, <3>1 DEF Found
      <3>3. At(j) \in DOMAIN q /\ q[At(j)] = r[j] /\ k < At(j)
        BY <1>1, <1>4, <2>3, <3>2
      <3> QED
        BY <1>2, <1>3, <3>1, <3>2, <3>3
    <2>4. CASE ~(i <= Len(o))
      <3>1. ~(j <= Len(o)) /\ At(i) < At(j)
        BY <1>7, <2>1, <2>4 DEF At
      <3> QED
        BY <1>4, <2>4, <3>1
    <2> QED
      BY <2>2, <2>3, <2>4
  <1> QED
    BY <1>6, <1>7 DEF InOrder, Found, q, r

\* What write(2) takes of a reply and what is buffered add up to the reply.
LEMMA CountsAdd ==
  ASSUME NEW S, NEW r \in Seq(S), NEW t \in Seq(S), NEW o \in Seq(S), NEW p \in Seq(S),
         NEW a \in Seq(S), NEW b \in Seq(S),
         Len((r \o t) \o o) = Len(p), ToSet((r \o t) \o o) = ToSet(p)
  PROVE  /\ Len((r \o (t \o a)) \o (o \o b)) = Len(p \o (a \o b))
         /\ ToSet((r \o (t \o a)) \o (o \o b)) = ToSet(p \o (a \o b))
  <1>1. /\ t \o a \in Seq(S) /\ r \o (t \o a) \in Seq(S) /\ o \o b \in Seq(S)
        /\ a \o b \in Seq(S) /\ r \o t \in Seq(S)
    BY ConcatProperties
  <1>2. /\ Len((r \o t) \o o) = Len(r) + Len(t) + Len(o)
        /\ Len((r \o (t \o a)) \o (o \o b)) = Len(r) + Len(t) + Len(a) + Len(o) + Len(b)
        /\ Len(p \o (a \o b)) = Len(p) + Len(a) + Len(b)
    BY <1>1, ConcatProperties
  <1>3. ASSUME NEW x \in Seq(S), NEW y \in Seq(S)
        PROVE  ToSet(x \o y) = ToSet(x) \union ToSet(y)
    BY ToSetConcat
  <1> DEFINE rt == r \o t
             ta == t \o a
             rta == r \o ta
             ob == o \o b
             ab == a \o b
  <1>4. rt \in Seq(S) /\ ta \in Seq(S) /\ rta \in Seq(S) /\ ob \in Seq(S) /\ ab \in Seq(S)
    BY <1>1
  <1>5. ToSet(rt) = ToSet(r) \union ToSet(t) /\ ToSet(ta) = ToSet(t) \union ToSet(a)
    BY <1>3
  <1>6. ToSet(ob) = ToSet(o) \union ToSet(b) /\ ToSet(ab) = ToSet(a) \union ToSet(b)
    BY <1>3
  <1> HIDE DEF rt, ta, ob, ab
  <1>7. ToSet(rta) = ToSet(r) \union ToSet(ta) /\ ToSet(rt \o o) = ToSet(rt) \union ToSet(o)
    BY <1>3, <1>4
  <1> HIDE DEF rta
  <1>8. ToSet(rta \o ob) = ToSet(rta) \union ToSet(ob)
        /\ ToSet(p \o ab) = ToSet(p) \union ToSet(ab)
    BY <1>3, <1>4
  <1>9. ToSet(rt \o o) = ToSet(p)
    BY DEF rt
  <1>10. ToSet(rta \o ob) = ToSet(p \o ab)
    BY <1>5, <1>6, <1>7, <1>8, <1>9
  <1>11. ToSet((r \o (t \o a)) \o (o \o b)) = ToSet(p \o (a \o b))
    BY <1>10 DEF rta, ta, ob, ab
  <1> QED
    BY <1>1, <1>2, <1>11

LEMMA OrderInit == Init => OrderInv
  BY DEF Init, OrderInv, NothingLostOrRepeated, InOrderWhileUnbuffered, InOrder, Found, ToSet

LEMMA OrderSame ==
  ASSUME OrderInv, UNCHANGED <<produced, outbuf>>, ~IsReset' => ~IsReset,
         ~IsReset' => (received \o txq)' = received \o txq
  PROVE  OrderInv'
  <1>1. NothingLostOrRepeated'
    <2> SUFFICES ASSUME ~IsReset'
                 PROVE  /\ Len((received \o txq)' \o outbuf') = Len(produced')
                        /\ ToSet((received \o txq)' \o outbuf') = ToSet(produced')
      BY DEF NothingLostOrRepeated
    <2>1. /\ Len((received \o txq) \o outbuf) = Len(produced)
          /\ ToSet((received \o txq) \o outbuf) = ToSet(produced)
      BY DEF OrderInv, NothingLostOrRepeated
    <2>2. (received \o txq)' = received \o txq
      OBVIOUS
    <2> QED
      BY <2>1, <2>2
  <1>2. InOrderWhileUnbuffered'
    BY DEF OrderInv, InOrderWhileUnbuffered
  <1>3. InOrder(outbuf, produced)' /\ Found(outbuf, produced)'
    BY DEF OrderInv, InOrder, Found
  <1> QED
    BY <1>1, <1>2, <1>3 DEF OrderInv

LEMMA OrderSend ==
  ASSUME SInv, OrderInv, Send
  PROVE  OrderInv'
  <1> DEFINE S == Units(handled)
  <1>1. /\ produced \in Seq(S) /\ txq \in Seq(S) /\ outbuf \in Seq(S) /\ received \in Seq(S)
    BY DEF SInv, QueueInv
  <1>2. PICK a \in Seq(S), b \in Seq(S) :
          produced' = produced \o (a \o b) /\ txq' = txq \o a /\ outbuf' = outbuf \o b
    BY SendQueues
  <1>3. received' = received /\ IsReset' = IsReset
    BY DEF Send, peerVars, IsReset
  <1> HIDE DEF S
  <1>4. NothingLostOrRepeated'
    <2> SUFFICES ASSUME ~IsReset
                 PROVE  /\ Len((received \o (txq \o a)) \o (outbuf \o b))
                             = Len(produced \o (a \o b))
                        /\ ToSet((received \o (txq \o a)) \o (outbuf \o b))
                             = ToSet(produced \o (a \o b))
      BY <1>2, <1>3 DEF NothingLostOrRepeated
    <2>1. /\ Len((received \o txq) \o outbuf) = Len(produced)
          /\ ToSet((received \o txq) \o outbuf) = ToSet(produced)
      BY DEF OrderInv, NothingLostOrRepeated
    <2> QED
      BY <1>1, <2>1, CountsAdd
  <1>5. InOrderWhileUnbuffered'
    <2> SUFFICES ASSUME outbuf \o b = <<>>, ~IsReset
                 PROVE  received \o (txq \o a) = produced \o (a \o b)
      BY <1>2, <1>3 DEF InOrderWhileUnbuffered
    <2>1. Len(outbuf) = 0 /\ Len(b) = 0
      BY <1>1, ConcatProperties
    <2>2. outbuf = <<>> /\ b = <<>>
      BY <1>1, <2>1, EmptySeq
    <2>3. a \o b = a
      BY <2>2
    <2>4. received \o txq = produced
      BY <2>2 DEF OrderInv, InOrderWhileUnbuffered
    <2>5. received \o (txq \o a) = (received \o txq) \o a
      BY <1>1
    <2> QED
      BY <2>3, <2>4, <2>5
  <1>6. InOrder(outbuf \o b, produced \o (a \o b)) /\ Found(outbuf \o b, produced \o (a \o b))
    BY <1>1, BufferExtends DEF OrderInv
  <1>7. InOrder(outbuf, produced)' /\ Found(outbuf, produced)'
    <2>1. InOrder(outbuf', produced') /\ Found(outbuf', produced')
      BY <1>2, <1>6
    <2> QED
      BY <2>1 DEF InOrder, Found
  <1> QED
    BY <1>4, <1>5, <1>7 DEF OrderInv

LEMMA OrderKeeps == SInv /\ OrderInv /\ [Next]_vars => OrderInv'
  <1> SUFFICES ASSUME SInv, OrderInv, [Next]_vars  PROVE OrderInv'
    OBVIOUS
  <1>1. CASE Loop /\ ~Send
    <2>1. UNCHANGED <<produced, outbuf, received, txq, peer>>
      BY <1>1 DEF Loop, EpollWait, ReadData, ReadEnd, SendFails, SendKills, Quit,
                  outputVars, peerVars
    <2> QED
      BY <2>1, OrderSame DEF IsReset
  <1>2. CASE PeerSend \/ PeerFin \/ PeerReset
    <2>1. /\ UNCHANGED <<produced, outbuf, received>> /\ (~IsReset' => ~IsReset)
          /\ ~IsReset' => txq' = txq
      BY <1>2 DEF PeerSend, PeerFin, PeerReset, outputVars, IsReset
    <2> QED
      BY <2>1, OrderSame
  <1>3. CASE PeerRead
    <2>1. /\ UNCHANGED <<produced, outbuf, peer>> /\ txq # <<>>
          /\ (received \o txq)' = Append(received, Head(txq)) \o Tail(txq)
      BY <1>3 DEF PeerRead
    <2>2. received \in Seq(Units(handled)) /\ txq \in Seq(Units(handled))
      BY DEF SInv, QueueInv
    <2>3. Append(received, Head(txq)) \o Tail(txq) = received \o txq
      BY <2>1, <2>2
    <2> QED
      BY <2>1, <2>3, OrderSame DEF IsReset
  <1>4. CASE UNCHANGED vars
    BY <1>4, OrderSame DEF vars, outputVars, peerVars, IsReset
  <1> QED
    BY <1>1, <1>2, <1>3, <1>4, OrderSend DEF Next, Loop, Peer

LEMMA Ordered == Spec => []OrderInv
  BY Invariant, OrderInit, OrderKeeps, PTL DEF Spec

(* Until a reset, every unit given to TcpConnection::send() is with the peer, in the     *)
(* send buffer or in output_buffer_, and none is added, wherever a write stops.          *)
THEOREM NothingLost == Spec => []NothingLostOrRepeated
  <1>1. OrderInv => NothingLostOrRepeated
    BY DEF OrderInv
  <1> QED
    BY <1>1, Ordered, PTL

(* Replies reach the peer in the order of its requests until output_buffer_ is used.     *)
THEOREM PeerInOrder == Spec => []InOrderWhileUnbuffered
  <1>1. OrderInv => InOrderWhileUnbuffered
    BY DEF OrderInv
  <1> QED
    BY <1>1, Ordered, PTL

(* What waits in output_buffer_ waits in the order in which it was produced.             *)
THEOREM BufferInOrder == Spec => []BufferedInOrder
  <1>1. OrderInv => BufferedInOrder
    BY DEF OrderInv, InOrder, BufferedInOrder
  <1> QED
    BY <1>1, Ordered, PTL

=============================================================================
