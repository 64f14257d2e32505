---------------------------- MODULE SessionProofs ----------------------------
(***************************************************************************)
(* The properties of module ProtocolSession, for every set of challenges,  *)
(* users, passwords, databases and sequence ids, and any number of         *)
(* packets.                                                                *)
(*                                                                         *)
(* A read event has many outcomes, but three forms (Handled): it ends the  *)
(* session in silence, it answers a login, or it answers a command.        *)
(* EventDoes shows this once, action by action; three invariants follow    *)
(* from the forms alone. SInv: replies go to packets that were consumed,   *)
(* so that a new one is behind the others. LoginInv: what the session's    *)
(* state says of the replies given so far. WaitInv: a client that waits    *)
(* has a reply to all but its last packet, so that the buffer never holds  *)
(* more than the packet that is handled (OneAtATime).                      *)
(***************************************************************************)
EXTENDS ProtocolSession, TLAPS

-----------------------------------------------------------------------------
(* What handleData() does with packet i *)

\* Sequence ids that run on modulo 256.
Consecutive(ids) ==
  \A m \in DOMAIN ids : m > 1 => ids[m] = (ids[m - 1] + 1) % 256
Packets == [to : Nat, code : Nat, ids : Seq(0 .. 255)]
Appended(i, r) ==
  r \in Packets /\ r.to = i /\ Consecutive(r.ids) /\ replies' = Append(replies, r)

Last(i) == ~Beyond(i)

\* It ends the session, or the process.
Silent(i) ==
  /\ replies' = replies /\ fate' \in {"closed", "terminated"} /\ consumed' = i
  /\ framed' = framed
  /\ UNCHANGED <<username, database>> /\ seqId' \in 0 .. 255
  /\ state' = state \/ (state = "AUTHENTICATED" /\ state' = "CLOSING")

\* It answers a login.
Greeted(i, r) ==
  /\ state = "HANDSHAKE_SENT" /\ consumed' = i /\ framed' \in BOOLEAN /\ seqId' = seqId
  /\ (Last(i) /\ fate' = "open" /\ requests[i].form # "attrs") => framed'
  /\ requests[i].kind = "login" =>
       (r.code = 0 <=> requests[i].form # "short" /\ ProvesPassword(requests[i]))
  /\ \/ /\ r.code = 0 /\ requests[i].kind = "login"
        /\ state' = "AUTHENTICATED" /\ fate' = fate
        /\ username' = requests[i].user
        /\ database' = IF requests[i].db = NoDatabase THEN database ELSE requests[i].db
     \/ /\ r.code = 1045
        /\ fate' = "closed" /\ UNCHANGED <<state, username, database>>

\* It answers a command.
Served(i, r) ==
  /\ state = "AUTHENTICATED" /\ requests[i].kind \in {"ping", "unknown", "initdb", "query"}
  /\ fate' \in {fate, "closed"} /\ UNCHANGED <<state, username>> /\ seqId' \in 0 .. 255
  /\ \/ consumed' = i /\ framed' = framed /\ requests[i].kind \in {"ping", "unknown"}
     \/ consumed' = read' /\ framed' \in BOOLEAN /\ requests[i].kind \in {"query", "initdb"}
  /\ Last(i) /\ framed => framed'
  /\ database' \in Databases \cup {NoDatabase, Garbled}
  /\ Last(i) =>
       database' = IF r.code = 0 /\ NamedBy(requests[i]) # NoDatabase
                   THEN NamedBy(requests[i]) ELSE database

Handled(i) ==
  \/ Silent(i)
  \/ \E r : Appended(i, r) /\ (Greeted(i, r) \/ Served(i, r))

-----------------------------------------------------------------------------
LEMMA RequestTypes ==
  ASSUME NEW p \in Logins \cup Commands
  PROVE  /\ p.kind = "login" => /\ p.user \in Users /\ p.db \in Databases \cup {NoDatabase}
                                /\ p.form \in {"good", "attrs", "cut", "short"}
         /\ p.kind # "login" => p.seq \in 0 .. 255
         /\ p.kind = "initdb" => p.db \in Databases
         /\ p.kind = "query" => p.text \in Statements
  BY SessionAssumption DEF Logins, Commands

LEMMA Remainder == \A s \in 0 .. 255, n \in Nat : (s + n) % 256 \in 0 .. 255
  OBVIOUS

LEMMA IdsRunOn ==
  ASSUME NEW s \in 0 .. 255, NEW n \in Nat
  PROVE  SequenceIds(s, n) \in Seq(0 .. 255) /\ Consecutive(SequenceIds(s, n))
  <1> DEFINE ids == SequenceIds(s, n)
  <1>1. ids = [i \in 1 .. n |-> (s + i - 1) % 256]
    BY DEF SequenceIds
  <1>2. \A i \in 1 .. n : ids[i] \in 0 .. 255
    BY <1>1
  <1>3. ids \in Seq(0 .. 255)
    BY <1>1, <1>2
  <1>4. ASSUME NEW m \in 1 .. n, m > 1  PROVE ids[m] = (ids[m - 1] + 1) % 256
    <2>1. m - 1 \in 1 .. n
      BY <1>4
    <2>2. ids[m] = (s + m - 1) % 256 /\ ids[m - 1] = (s + m - 2) % 256
      BY <1>1, <2>1
    <2>3. \A x \in Nat : (x + 1) % 256 = ((x % 256) + 1) % 256
      OBVIOUS
    <2>4. s + m - 2 \in Nat /\ s + m - 1 = (s + m - 2) + 1
      BY <1>4
    <2> QED
      BY <2>2, <2>3, <2>4
  <1> QED
    BY <1>1, <1>3, <1>4 DEF Consecutive

\* authenticate() is right about the challenge that was sent.
LEMMA AuthenticateIsRight ==
  ASSUME authData = offered, NEW p \in Logins
  PROVE  Authenticate(p.user, ResponseIn(p)) <=> p.form # "short" /\ ProvesPassword(p)
  <1>1. CASE p.form = "short"
    BY <1>1 DEF Authenticate, ResponseIn, Matches
  <1>2. CASE p.form # "short" /\ p.secret = ""
    BY <1>2 DEF Authenticate, ResponseIn, AuthResponse, ProvesPassword, IsAccount
  <1>3. CASE p.form # "short" /\ p.secret # ""
    <2>1. /\ ResponseIn(p).size = 20 /\ ResponseIn(p).password = p.secret
          /\ ResponseIn(p).challenge = p.challenge
      BY <1>3 DEF ResponseIn, AuthResponse
    <2>2. Authenticate(p.user, ResponseIn(p)) <=>
            /\ IsAccount(p.user) /\ p.secret = PasswordOf[p.user]
            /\ p.challenge = authData
      <3> HIDE DEF PasswordOf
      <3> QED
        BY <2>1 DEF Authenticate, Matches
    <2> QED
      BY <1>3, <2>2 DEF ProvesPassword, IsAccount
  <1> QED
    BY <1>1, <1>2, <1>3

-----------------------------------------------------------------------------
(* Every outcome of a login or a command is one of the three. *)

LEMMA LoginHandled ==
  ASSUME TypeOK, authData = offered, NEW i \in 1 .. Len(requests), Login(i),
         i = consumed + 1, i <= read', UNCHANGED <<requests, authData, offered>>
  PROVE  Handled(i)
  <1> DEFINE p == requests[i]
  <1>1. p \in Logins \cup Commands
    BY DEF TypeOK
  <1>2. <<2>> \in Seq(0 .. 255) /\ Consecutive(<<2>>)
    BY DEF Consecutive
  <1>3. CASE LoginThrows(i)
    BY <1>3 DEF LoginThrows, Terminate, sessionVars, Handled, Silent, TypeOK
  <1>4. CASE LoginGarbled(i)
    <2> DEFINE r == [to |-> i, code |-> 1045, ids |-> <<2>>]
    <2>1. Appended(i, r)
      BY <1>2, <1>4 DEF LoginGarbled, Reply, Appended, Packets
    <2>2. Greeted(i, r)
      BY <1>4, ZenonT(40) DEF LoginGarbled, Greeted, sessionVars
    <2> QED
      BY <2>1, <2>2 DEF Handled
  <1>5. CASE LoginAccepted(i)
    <2> DEFINE r == [to |-> i, code |-> 0, ids |-> <<2>>]
    <2>1. Appended(i, r)
      BY <1>2, <1>5 DEF LoginAccepted, Reply, Appended, Packets
    <2>2. p \in Logins /\ p.kind = "login"
      BY <1>1, <1>5 DEF LoginAccepted, Decodable, Logins, Commands
    <2>3. p.form # "short" /\ ProvesPassword(p)
      BY <1>5, <2>2, AuthenticateIsRight DEF LoginAccepted
    <2>4. Last(i) /\ p.form # "attrs" => framed'
      BY <1>1, <1>5, <2>2, RequestTypes DEF LoginAccepted, Decodable, Last
    <2>5. framed' \in BOOLEAN
      BY <1>5 DEF LoginAccepted
    <2>6. Greeted(i, r)
      BY <1>5, <2>2, <2>3, <2>4, <2>5 DEF LoginAccepted, Greeted, LoginDatabase
    <2> QED
      BY <2>1, <2>6 DEF Handled
  <1>6. CASE LoginRefused(i)
    <2> DEFINE r == [to |-> i, code |-> 1045, ids |-> <<2>>]
    <2>1. Appended(i, r)
      BY <1>2, <1>6 DEF LoginRefused, Reply, Appended, Packets
    <2>2. p \in Logins /\ p.kind = "login"
      BY <1>1, <1>6 DEF LoginRefused, Decodable, Logins, Commands
    <2>3. ~(p.form # "short" /\ ProvesPassword(p))
      BY <1>6, <2>2, AuthenticateIsRight DEF LoginRefused
    <2>4. Greeted(i, r)
      BY <1>6, <2>2, <2>3 DEF LoginRefused, Greeted, sessionVars
    <2> QED
      BY <2>1, <2>4 DEF Handled
  <1> QED
    BY <1>3, <1>4, <1>5, <1>6 DEF Login

\* Bytes of other packets change a text only if there are such bytes.
LEMMA ParsedTypes ==
  ASSUME NEW i, requests[i].text \in Statements, NEW stmt, stmt \in Parsed(i)
  PROVE  /\ stmt.verb \in {"error", "none", "limit", "other", "use", "select"}
         /\ stmt.verb = "use" => stmt.db \in Databases \cup {Garbled}
         /\ stmt.verb = "select" => stmt.rows \in Nat
         /\ Last(i) => stmt = requests[i].text
  <1> DEFINE text == requests[i].text
  <1>1. CASE stmt \in Statements
    BY <1>1, SessionAssumption DEF Statements, Parsed, Last
  <1>2. CASE stmt \in {[verb |-> "error"], [verb |-> "limit"], [verb |-> "use", db |-> Garbled]}
    BY <1>2 DEF Parsed, Last
  <1>3. CASE text.verb = "use" /\ stmt = [text EXCEPT !.db = Garbled]
    BY <1>3 DEF Statements, Parsed, Last
  <1> QED
    BY <1>1, <1>2, <1>3 DEF Parsed, Joined

LEMMA CommandHandled ==
  ASSUME TypeOK, NEW i \in 1 .. Len(requests), Command(i),
         i = consumed + 1, i <= read', part' \in BOOLEAN, fate = "open",
         UNCHANGED <<requests, authData, offered>>
  PROVE  Handled(i)
  <1> DEFINE p == requests[i]
  <1>1. p \in Logins \cup Commands
    BY DEF TypeOK
  <1>2. Command(i) => state = "AUTHENTICATED"
    BY DEF Command, Ping, Quit, EmptyPacket, UnknownCommand, InitDb, Query, QueryThrows, MayCommand
  <1>3. p.kind # "login" => p.seq \in 0 .. 255 /\ (p.seq + 1) % 256 \in 0 .. 255
                            /\ SequenceIds(p.seq, 1) \in Seq(0 .. 255)
                            /\ Consecutive(SequenceIds(p.seq, 1))
    <2>1. p.kind # "login" => p.seq \in 0 .. 255
      BY <1>1, RequestTypes
    <2> QED
      BY <2>1, IdsRunOn, Remainder, ZenonT(60)
  <1>4. CASE Ping(i)
    <2> DEFINE r == [to |-> i, code |-> 0, ids |-> SequenceIds(p.seq, 1)]
    <2>1. Appended(i, r)
      BY <1>3, <1>4 DEF Ping, Kind, SeqOf, Reply, Appended, Packets
    <2>2. Served(i, r)
      BY <1>2, <1>3, <1>4 DEF Ping, Kind, SeqOf, TakeOneByte, Served, NamedBy, TypeOK
    <2> QED
      BY <2>1, <2>2 DEF Handled
  <1>5. CASE UnknownCommand(i)
    <2> DEFINE r == [to |-> i, code |-> 1047, ids |-> SequenceIds(p.seq, 1)]
    <2>1. Appended(i, r)
      BY <1>3, <1>5, SMTT(40) DEF UnknownCommand, Kind, SeqOf, Reply, Appended, Packets
    <2>2. Served(i, r)
      BY <1>2, <1>3, <1>5 DEF UnknownCommand, Kind, SeqOf, TakeOneByte, Served, NamedBy, TypeOK
    <2> QED
      BY <2>1, <2>2 DEF Handled
  <1>6. CASE Quit(i) \/ EmptyPacket(i)
    BY <1>3, <1>6 DEF Quit, EmptyPacket, Kind, SeqOf, TakeOneByte, MayCommand, Handled, Silent
  <1>7. CASE InitDb(i)
    <2> DEFINE r == [to |-> i, code |-> 0, ids |-> SequenceIds(p.seq, 1)]
    <2>1. Appended(i, r)
      BY <1>3, <1>7 DEF InitDb, Kind, SeqOf, Reply, Appended, Packets
    <2>2. p.db \in Databases
      BY <1>1, <1>7, RequestTypes DEF InitDb, Kind
    <2>3. framed' \in BOOLEAN
      BY <1>7 DEF InitDb, TakeAll
    <2>4. Last(i) => framed'
      BY <1>7 DEF InitDb, TakeAll, Last, Beyond
    <2>5. Served(i, r)
      BY <1>2, <1>3, <1>7, <2>2, <2>3, <2>4, SessionAssumption
      DEF InitDb, Kind, SeqOf, TakeAll, InitDbName, Served, NamedBy, Last
    <2> QED
      BY <2>1, <2>5 DEF Handled
  <1>8. ASSUME NEW stmt, Query(i, stmt)
        PROVE  Handled(i)
    <2> DEFINE n == ReplyLen(stmt)
               ids == SequenceIds(p.seq, n)
    <2>1. p.kind = "query" /\ p.text \in Statements /\ p.seq \in 0 .. 255
      BY <1>1, <1>8, RequestTypes DEF Query, Kind
    <2>2. /\ stmt.verb \in {"error", "none", "limit", "other", "use", "select"}
          /\ stmt.verb = "use" => stmt.db \in Databases \cup {Garbled}
          /\ stmt.verb = "select" => stmt.rows \in Nat
          /\ Last(i) => stmt = p.text
      BY <1>8, <2>1, ParsedTypes, SMTT(60) DEF Query
    <2>3. n \in Nat /\ (p.seq + n) % 256 \in 0 .. 255
      <3>1. n \in Nat
        BY <2>2 DEF ReplyLen, ResultSetLen
      <3> HIDE DEF n
      <3> QED
        BY <2>1, <3>1, Remainder, ZenonT(60)
    <2>4. ids \in Seq(0 .. 255) /\ Consecutive(ids)
      BY <2>1, <2>3, IdsRunOn
    <2>5. PICK code \in ReplyCodes(stmt) : Reply(i, code, ids)
      BY <1>8 DEF Query, SeqOf
    <2>6. code \in Nat /\ (stmt.verb = "use" => code = 0)
      BY <2>5 DEF ReplyCodes
    <2> DEFINE r == [to |-> i, code |-> code, ids |-> ids]
    <2>7. Appended(i, r)
      BY <2>4, <2>5, <2>6 DEF Reply, Appended, Packets
    <2>8. database' = UseDatabase(stmt)
      BY <1>8 DEF Query
    <2>9. database' \in Databases \cup {NoDatabase, Garbled}
      BY <2>2, <2>8 DEF UseDatabase, TypeOK
    <2>10. Last(i) => database' = IF r.code = 0 /\ NamedBy(p) # NoDatabase
                                  THEN NamedBy(p) ELSE database
      <3>1. ASSUME Last(i), stmt.verb = "use"
            PROVE  NamedBy(p) = stmt.db /\ NamedBy(p) # NoDatabase
        BY <2>1, <2>2, <3>1, SessionAssumption DEF NamedBy
      <3>2. ASSUME Last(i), stmt.verb # "use"
            PROVE  NamedBy(p) = NoDatabase
        BY <2>1, <2>2, <3>2 DEF NamedBy
      <3> QED
        BY <2>6, <2>8, <3>1, <3>2 DEF UseDatabase
    <2>11. framed' \in BOOLEAN
      BY <1>8 DEF Query, TakeAll
    <2>12. Last(i) => framed'
      BY <1>8 DEF Query, TakeAll, Last, Beyond
    <2>13. Served(i, r)
      BY <1>2, <1>8, <2>1, <2>3, <2>9, <2>10, <2>11, <2>12 DEF Query, SeqOf, TakeAll, Served
    <2> QED
      BY <2>7, <2>13 DEF Handled
  <1>9. ASSUME NEW stmt, QueryThrows(i, stmt)
        PROVE  Handled(i)
    BY <1>9 DEF QueryThrows, Terminate, sessionVars, Handled, Silent, TypeOK
  <1> QED
    BY <1>4, <1>5, <1>6, <1>7, <1>8, <1>9 DEF Command

-----------------------------------------------------------------------------
(* Every read event *)

Idle ==
  /\ read' = consumed
  /\ UNCHANGED <<state, username, database, seqId, consumed, framed, replies, fate>>

LEMMA EventDoes ==
  ASSUME TypeOK, authData = offered, NEW n \in Nat, NEW more \in BOOLEAN, Event(n, more)
  PROVE  /\ fate = "open" /\ framed /\ state # "INIT"
         /\ UNCHANGED <<requests, ahead, offered, authData>>
         /\ read' \in read .. Len(requests) /\ part' \in BOOLEAN
         /\ part' => read' < Len(requests)
         /\ \/ Idle
            \/ consumed + 1 \in 1 .. read' /\ Handled(consumed + 1)
  <1>1. /\ fate = "open" /\ framed /\ state # "INIT"
        /\ UNCHANGED <<requests, ahead, offered, authData>>
        /\ read' \in read .. Len(requests) /\ part' \in BOOLEAN
        /\ part' => read' < Len(requests)
    BY DEF Event, Arrives, clientVars
  <1>2. CASE NoPacket
    BY <1>1, <1>2 DEF NoPacket, Idle
  <1>3. CASE read' > consumed /\ (Login(consumed + 1) \/ Command(consumed + 1))
    <2> DEFINE i == consumed + 1
    <2>1. i \in 1 .. Len(requests) /\ i \in 1 .. read'
      BY <1>1, <1>3 DEF TypeOK
    <2>2. CASE Login(i)
      <3> HIDE DEF i
      <3>1. i = consumed + 1
        BY DEF i
      <3> QED
        BY <1>1, <2>1, <2>2, <3>1, LoginHandled
    <2>3. CASE Command(i)
      <3> HIDE DEF i
      <3>1. i = consumed + 1
        BY DEF i
      <3> QED
        BY <1>1, <2>1, <2>3, <3>1, CommandHandled
    <2> QED
      BY <1>1, <1>3, <2>1, <2>2, <2>3
  <1> QED
    BY <1>1, <1>2, <1>3 DEF Event, HandleData

-----------------------------------------------------------------------------
(* Types and the order of replies *)

\* Replies go to packets that were consumed, and there is none before the handshake.
\* The challenge that is checked is the one the client has.
ReplyInv ==
  /\ authData = offered
  /\ state = "INIT" => replies = <<>>
  /\ \A k \in DOMAIN replies : replies[k].to \in 1 .. consumed

SInv == TypeOK /\ ReplyInv /\ RepliesInOrder

LEMMA InitInv == Init => SInv
  <1> SUFFICES ASSUME Init  PROVE SInv
    OBVIOUS
  <1>1. TypeOK
    <2>1. /\ requests \in Seq(Logins \cup Commands) /\ Len(requests) = 0
          /\ replies \in Seq([to : Nat, code : Nat, ids : Seq(0 .. 255)])
      BY DEF Init
    <2>2. {part, framed, ahead} \subseteq BOOLEAN
      BY Zenon DEF Init
    <2>3. Len(requests) <= MaxRequests /\ read \in 0 .. Len(requests) /\ consumed \in 0 .. read
      BY <2>1, SessionAssumption DEF Init
    <2>4. username \in Users \cup {NoUser} /\ database \in Databases \cup {NoDatabase, Garbled}
      BY DEF Init
    <2> QED
      BY <2>1, <2>2, <2>3, <2>4 DEF Init, TypeOK
  <1> QED
    BY <1>1 DEF Init, SInv, ReplyInv, RepliesInOrder

LEMMA HandshakeKeeps == SInv /\ SendHandshake => SInv'
  BY DEF SInv, TypeOK, ReplyInv, RepliesInOrder, SendHandshake, KeepAuthData, clientVars,
         bufferVars

LEMMA ClientKeeps ==
  ASSUME SInv, NEW p \in Logins \cup Commands, ClientSend(p)
  PROVE  SInv'
  <1>1. /\ requests' \in Seq(Logins \cup Commands) /\ Len(requests') = Len(requests) + 1
        /\ Len(requests') <= MaxRequests
    BY SessionAssumption DEF SInv, TypeOK, ClientSend
  <1>2. TypeOK'
    BY <1>1 DEF SInv, TypeOK, ClientSend, sessionVars, bufferVars
  <1> QED
    BY <1>2 DEF SInv, ReplyInv, RepliesInOrder, ClientSend, sessionVars, bufferVars

\* A reply goes behind the others.
LEMMA AppendKeeps ==
  ASSUME TypeOK, ReplyInv, RepliesInOrder, NEW r, Appended(consumed + 1, r),
         consumed' >= consumed + 1, consumed' \in Nat
  PROVE  /\ replies' \in Seq([to : Nat, code : Nat, ids : Seq(0 .. 255)])
         /\ \A k \in DOMAIN replies' : replies'[k].to \in 1 .. consumed'
         /\ RepliesInOrder'
  <1>1. /\ replies \in Seq(Packets) /\ r \in Packets /\ replies' = Append(replies, r)
        /\ r.to = consumed + 1 /\ Consecutive(r.ids) /\ consumed \in Nat
    BY DEF TypeOK, Packets, Appended
  <1>2. /\ replies' \in Seq(Packets) /\ DOMAIN replies' = 1 .. Len(replies) + 1
        /\ DOMAIN replies = 1 .. Len(replies) /\ Len(replies) \in Nat
        /\ replies'[Len(replies) + 1] = r
        /\ \A k \in DOMAIN replies : replies'[k] = replies[k]
    BY <1>1
  <1>3. \A k \in DOMAIN replies' : k \in DOMAIN replies \/ k = Len(replies) + 1
    BY <1>2
  <1>4. \A k \in DOMAIN replies : replies[k].to \in 1 .. consumed
    BY DEF ReplyInv
  <1>5. \A k \in DOMAIN replies' : replies'[k].to \in 1 .. consumed'
    BY <1>1, <1>2, <1>3, <1>4
  <1>6. ASSUME NEW j \in DOMAIN replies', NEW k \in DOMAIN replies', j < k
        PROVE  replies'[j].to < replies'[k].to
    <2>1. j \in DOMAIN replies
      BY <1>2, <1>6
    <2>2. CASE k \in DOMAIN replies
      BY <1>2, <1>6, <2>1, <2>2 DEF RepliesInOrder
    <2>3. CASE k = Len(replies) + 1
      BY <1>1, <1>2, <1>4, <2>1, <2>3
    <2> QED
      BY <1>3, <2>2, <2>3
  <1>7. \A k \in DOMAIN replies' : Consecutive(replies'[k].ids)
    BY <1>1, <1>2, <1>3 DEF RepliesInOrder, Consecutive
  <1> QED
    BY <1>2, <1>5, <1>6, <1>7 DEF RepliesInOrder, Consecutive, Packets

LEMMA EventKeeps ==
  ASSUME SInv, NEW n \in Nat, NEW more \in BOOLEAN, Event(n, more)
  PROVE  SInv'
  <1> DEFINE i == consumed + 1
  <1>1. /\ fate = "open" /\ framed /\ state # "INIT"
        /\ UNCHANGED <<requests, ahead, offered, authData>>
        /\ read' \in read .. Len(requests) /\ part' \in BOOLEAN
        /\ Idle \/ (i \in 1 .. read' /\ Handled(i))
    BY EventDoes DEF SInv, ReplyInv
  <1>2. CASE Idle
    BY <1>1, <1>2 DEF Idle, SInv, TypeOK, ReplyInv, RepliesInOrder
  <1>3. CASE i \in 1 .. read' /\ Silent(i)
    <2>1. TypeOK'
      BY <1>1, <1>3 DEF Silent, SInv, TypeOK
    <2>2. ReplyInv'
      BY <1>1, <1>3, SMTT(40) DEF Silent, SInv, TypeOK, ReplyInv
    <2>3. RepliesInOrder'
      BY <1>3 DEF Silent, SInv, RepliesInOrder
    <2> QED
      BY <2>1, <2>2, <2>3 DEF SInv
  <1>4. ASSUME i \in 1 .. read', NEW r, Appended(i, r), Greeted(i, r) \/ Served(i, r)
        PROVE  SInv'
    <2>1. consumed' \in i .. read' /\ consumed' \in Nat /\ consumed' >= consumed + 1
      <3>1. consumed \in Nat /\ read' \in Nat
        BY <1>1 DEF SInv, TypeOK
      <3>2. consumed' = i \/ consumed' = read'
        BY <1>4 DEF Greeted, Served
      <3> QED
        BY <1>4, <3>1, <3>2
    <2>2. /\ replies' \in Seq([to : Nat, code : Nat, ids : Seq(0 .. 255)])
          /\ \A k \in DOMAIN replies' : replies'[k].to \in 1 .. consumed'
          /\ RepliesInOrder'
      BY <1>4, <2>1, AppendKeeps DEF SInv
    <2>3. requests[i] \in Logins \cup Commands
      BY <1>1, <1>4 DEF SInv, TypeOK
    <2>4. CASE Greeted(i, r)
      <3>1. TypeOK'
        BY <1>1, <2>1, <2>2, <2>3, <2>4, RequestTypes DEF Greeted, SInv, TypeOK
      <3> QED
        BY <1>1, <2>2, <2>4, <3>1 DEF Greeted, SInv, ReplyInv
    <2>5. CASE Served(i, r)
      <3>1. /\ state' = state /\ username' = username /\ fate' \in {fate, "closed"}
            /\ framed' \in BOOLEAN /\ seqId' \in 0 .. 255
            /\ database' \in Databases \cup {NoDatabase, Garbled}
        BY <1>1, <2>5 DEF Served
      <3>2. TypeOK'
        BY <1>1, <2>1, <2>2, <3>1 DEF SInv, TypeOK
      <3> QED
        BY <1>1, <2>2, <3>1, <3>2 DEF SInv, ReplyInv
    <2> QED
      BY <1>4, <2>4, <2>5
  <1> QED
    BY <1>1, <1>2, <1>3, <1>4 DEF Handled

LEMMA NextKeeps == SInv /\ [Next]_vars => SInv'
  <1> SUFFICES ASSUME SInv, [Next]_vars  PROVE SInv'
    OBVIOUS
  <1>1. CASE SendHandshake
    BY <1>1, HandshakeKeeps
  <1>2. ASSUME NEW p \in Logins \cup Commands, ClientSend(p)  PROVE SInv'
    BY <1>2, ClientKeeps
  <1>3. ASSUME NEW n \in 0 .. MaxRequests, NEW more \in BOOLEAN, Event(n, more)  PROVE SInv'
    BY <1>3, EventKeeps, SessionAssumption
  <1>4. CASE UNCHANGED vars
    BY <1>4 DEF vars, sessionVars, clientVars, bufferVars, SInv, TypeOK, ReplyInv, RepliesInOrder
  <1> QED
    BY <1>1, <1>2, <1>3, <1>4 DEF Next

LEMMA SessionInvariant == Spec => []SInv
  BY InitInv, NextKeeps, PTL DEF Spec

\* Every variable stays in its domain, and the input buffer's marks are in order.
THEOREM TypeCorrect == Spec => []TypeOK
  BY SessionInvariant, PTL DEF SInv

\* Replies come in the order of the requests, at most one to each, with ids that run on.
THEOREM OrderSafe == Spec => []RepliesInOrder
  BY SessionInvariant, PTL DEF SInv

-----------------------------------------------------------------------------
(* Requests and replies that stay, and those that come *)

LEMMA RequestsStay ==
  ASSUME SInv, NEW p \in Logins \cup Commands, ClientSend(p)
  PROVE  /\ Len(requests') = Len(requests) + 1 /\ DOMAIN requests' = 1 .. Len(requests) + 1
         /\ DOMAIN requests = 1 .. Len(requests) /\ Len(requests) \in Nat
         /\ consumed \in 0 .. Len(requests)
         /\ \A j \in 1 .. Len(requests) : requests'[j] = requests[j]
         /\ \A k \in DOMAIN replies : replies[k].to \in 1 .. Len(requests)
         /\ UNCHANGED <<state, authData, username, database, offered, read, part, consumed,
                        framed, replies, fate>>
  <1>1. requests \in Seq(Logins \cup Commands) /\ requests' = Append(requests, p)
    BY DEF SInv, TypeOK, ClientSend
  <1>2. consumed \in 0 .. Len(requests)
    BY <1>1 DEF SInv, TypeOK
  <1> QED
    BY <1>1, <1>2 DEF SInv, ReplyInv, ClientSend, sessionVars, bufferVars

LEMMA RepliesGrow ==
  ASSUME SInv, NEW i, i = consumed + 1, NEW r, Appended(i, r)
  PROVE  /\ Len(replies) \in Nat /\ DOMAIN replies = 1 .. Len(replies)
         /\ DOMAIN replies' = 1 .. Len(replies) + 1
         /\ replies'[Len(replies) + 1] = r /\ r.to = i
         /\ \A k \in DOMAIN replies : replies'[k] = replies[k] /\ replies[k].to \in 1 .. consumed
         /\ \A j : Answered(j)' <=> Answered(j) \/ j = i
         /\ \A j : Answered(j) => j \in 1 .. consumed
  <1>1. replies \in Seq(Packets) /\ r \in Packets /\ r.to = i /\ replies' = Append(replies, r)
    BY DEF SInv, TypeOK, Packets, Appended
  <1>2. /\ Len(replies) \in Nat /\ DOMAIN replies = 1 .. Len(replies)
        /\ DOMAIN replies' = 1 .. Len(replies) + 1
        /\ replies'[Len(replies) + 1] = r
        /\ \A k \in DOMAIN replies : replies'[k] = replies[k]
    BY <1>1
  <1>3. \A k \in DOMAIN replies : replies[k].to \in 1 .. consumed
    BY DEF SInv, ReplyInv
  <1>4. \A j : Answered(j)' <=> Answered(j) \/ j = i
    <2>1. \A k \in DOMAIN replies' : k \in DOMAIN replies \/ k = Len(replies) + 1
      BY <1>2
    <2> QED
      BY <1>1, <1>2, <2>1 DEF Answered
  <1> QED
    BY <1>1, <1>2, <1>3, <1>4 DEF Answered

-----------------------------------------------------------------------------
(* Logins *)

\* Before a login succeeded there is no user and no database, and there were refusals only;
\* after it there is its reply.
LoginInv ==
  /\ LoginVerdict
  /\ state \in {"INIT", "HANDSHAKE_SENT"} =>
       /\ username = NoUser /\ database = NoDatabase
       /\ \A k \in DOMAIN replies : replies[k].code = 1045
  /\ state \in {"AUTHENTICATED", "CLOSING"} =>
       \E k \in DOMAIN replies :
         requests[replies[k].to].kind = "login" /\ replies[k].code = 0

\* LoginVerdict, reply by reply.
Right(k) ==
  requests[replies[k].to].kind = "login" =>
    (replies[k].code = 0 <=>
       /\ requests[replies[k].to].form # "short"
       /\ ProvesPassword(requests[replies[k].to]))

LEMMA VerdictIsRight == LoginVerdict <=> \A k \in DOMAIN replies : Right(k)
  BY DEF LoginVerdict, Right

LEMMA VerdictIsRightNext == LoginVerdict' <=> \A k \in DOMAIN replies' : Right(k)'
  BY DEF LoginVerdict, Right

LEMMA RightStays ==
  ASSUME NEW k, Right(k), offered' = offered, replies'[k] = replies[k],
         requests'[replies[k].to] = requests[replies[k].to]
  PROVE  Right(k)'
  BY DEF Right, ProvesPassword

\* The invariant stays with the replies.
LEMMA LoginInvStays ==
  ASSUME LoginInv, offered' = offered, replies' = replies,
         UNCHANGED <<username, database>>,
         state' = state \/ (state = "AUTHENTICATED" /\ state' = "CLOSING"),
         \A k \in DOMAIN replies : requests'[replies[k].to] = requests[replies[k].to]
  PROVE  LoginInv'
  <1>1. LoginVerdict'
    BY RightStays, VerdictIsRight, VerdictIsRightNext DEF LoginInv
  <1> QED
    BY <1>1 DEF LoginInv

LEMMA LoginInvSuffices == TypeOK /\ LoginInv => NothingBeforeLogin
  BY DEF TypeOK, LoginInv, NothingBeforeLogin

LEMMA ClientKeepsLogin ==
  ASSUME SInv, LoginInv, NEW p \in Logins \cup Commands, ClientSend(p)
  PROVE  LoginInv'
  <1>1. /\ \A k \in DOMAIN replies : requests'[replies[k].to] = requests[replies[k].to]
        /\ UNCHANGED <<state, username, database, offered, replies>>
    BY RequestsStay
  <1> QED
    BY <1>1, LoginInvStays

LEMMA EventKeepsLogin ==
  ASSUME SInv, LoginInv, NEW n \in Nat, NEW more \in BOOLEAN, Event(n, more)
  PROVE  LoginInv'
  <1> DEFINE i == consumed + 1
  <1>1. /\ state # "INIT" /\ UNCHANGED <<requests, offered, authData>>
        /\ Idle \/ Handled(i)
    BY EventDoes DEF SInv, ReplyInv
  <1>2. CASE Idle
    BY <1>1, <1>2, LoginInvStays DEF Idle
  <1>3. CASE Silent(i)
    BY <1>1, <1>3, LoginInvStays DEF Silent
  <1>4. ASSUME NEW r, Appended(i, r), Greeted(i, r) \/ Served(i, r)
        PROVE  LoginInv'
    <2>1. /\ Len(replies) \in Nat /\ DOMAIN replies = 1 .. Len(replies)
          /\ DOMAIN replies' = 1 .. Len(replies) + 1
          /\ replies'[Len(replies) + 1] = r /\ r.to = i
          /\ \A k \in DOMAIN replies : replies'[k] = replies[k]
      BY <1>4, RepliesGrow
    <2>2. \A k \in DOMAIN replies' : k \in DOMAIN replies \/ k = Len(replies) + 1
      BY <2>1
    <2>3. DOMAIN replies \subseteq DOMAIN replies' /\ Len(replies) + 1 \in DOMAIN replies'
      BY <2>1
    <2>4. requests[i].kind = "login" =>
            (r.code = 0 <=> requests[i].form # "short" /\ ProvesPassword(requests[i]))
      BY <1>4 DEF Greeted, Served
    <2>5. LoginVerdict'
      <3> DEFINE m == Len(replies) + 1
      <3>0. replies'[m] = r /\ r.to = i /\ requests' = requests /\ offered' = offered
        BY <1>1, <2>1
      <3> HIDE DEF m, i
      <3>1. /\ requests'[replies'[m].to].kind = "login" =>
                 (replies'[m].code = 0 <=>
                    /\ requests'[replies'[m].to].form # "short"
                    /\ LET p == requests'[replies'[m].to]
                       IN  /\ p.user \in DOMAIN PasswordOf /\ p.secret = PasswordOf[p.user]
                           /\ p.secret # "" => p.challenge = offered')
        BY <2>4, <3>0 DEF ProvesPassword
      <3>2. \A k \in DOMAIN replies : Right(k)'
        BY <1>1, <2>1, RightStays, VerdictIsRight DEF LoginInv
      <3> QED
        BY <2>2, <3>1, <3>2 DEF LoginVerdict, Right, ProvesPassword, m
    <2>6. state' \in {"INIT", "HANDSHAKE_SENT"} =>
            /\ username' = NoUser /\ database' = NoDatabase
            /\ \A k \in DOMAIN replies' : replies'[k].code = 1045
      BY <1>1, <1>4, <2>1, <2>2 DEF Greeted, Served, LoginInv
    <2>7. state' \in {"AUTHENTICATED", "CLOSING"} =>
            \E k \in DOMAIN replies' :
              requests[replies'[k].to].kind = "login" /\ replies'[k].code = 0
      BY <1>4, <2>1, <2>3 DEF Greeted, Served, LoginInv
    <2> QED
      BY <1>1, <2>5, <2>6, <2>7 DEF LoginInv
  <1> QED
    BY <1>1, <1>2, <1>3, <1>4 DEF Handled

LEMMA NextKeepsLogin == SInv /\ LoginInv /\ [Next]_vars => LoginInv'
  <1> SUFFICES ASSUME SInv, LoginInv, [Next]_vars  PROVE LoginInv'
    OBVIOUS
  <1>1. CASE SendHandshake
    BY <1>1 DEF SInv, ReplyInv, SendHandshake, LoginInv, LoginVerdict
  <1>2. ASSUME NEW p \in Logins \cup Commands, ClientSend(p)  PROVE LoginInv'
    BY <1>2, ClientKeepsLogin
  <1>3. ASSUME NEW n \in 0 .. MaxRequests, NEW more \in BOOLEAN, Event(n, more)
        PROVE  LoginInv'
    BY <1>3, EventKeepsLogin, SessionAssumption
  <1>4. CASE UNCHANGED vars
    BY <1>4, LoginInvStays DEF vars, sessionVars, clientVars
  <1> QED
    BY <1>1, <1>2, <1>3, <1>4 DEF Next

LEMMA LoginInvariant == Spec => []LoginInv
  <1>1. Init => LoginInv
    BY DEF Init, LoginInv, LoginVerdict
  <1> QED
    BY <1>1, NextKeepsLogin, SessionInvariant, PTL DEF Spec

\* A login succeeds exactly with the account's password and the challenge the client was sent.
THEOREM VerdictSafe == Spec => []LoginVerdict
  BY LoginInvariant, PTL DEF LoginInv

\* Nothing a client sends runs as a command before a login has succeeded.
THEOREM LoginSafe == Spec => []NothingBeforeLogin
  BY SessionInvariant, LoginInvariant, LoginInvSuffices, PTL DEF SInv

-----------------------------------------------------------------------------
(* Clients that wait for each reply, and those that send ahead *)

\* A client that waits has had a reply to all but its last packet. What follows a login
\* with connect attributes is not of LockstepAnswered.
WaitInv ==
  /\ ~ahead => \A j \in 1 .. Len(requests) - 1 : Answered(j)
  /\ LockstepAnswered
  /\ SwallowedByTextOnly
  /\ DatabaseAsNamed

\* What a waiting client has sent is one packet, whole, when it is handled.
LEMMA OneAtATime ==
  ASSUME SInv, WaitInv, ~ahead, NEW i, i = consumed + 1, i \in 1 .. read',
         read' \in read .. Len(requests), part' => read' < Len(requests)
  PROVE  i = read' /\ i = Len(requests) /\ Last(i)
  <1>1. consumed \in Nat /\ Len(requests) \in Nat /\ read' \in Nat
    BY DEF SInv, TypeOK
  <1>2. \A j \in 1 .. Len(requests) - 1 : j <= consumed
    BY DEF SInv, ReplyInv, WaitInv, Answered
  <1>3. consumed >= Len(requests) - 1
    <2>1. CASE Len(requests) - 1 \in 1 .. Len(requests) - 1
      BY <1>1, <1>2, <2>1
    <2>2. CASE Len(requests) - 1 <= 0
      BY <1>1, <2>2
    <2> QED
      BY <1>1, <2>1, <2>2
  <1> QED
    BY <1>1, <1>3 DEF Last, Beyond

\* A step that adds no request and no reply, and has the session open as it was.
LEMMA WaitInvStays ==
  ASSUME SInv, WaitInv, UNCHANGED <<requests, ahead, replies, consumed, framed, database>>,
         (fate' = fate /\ read' = read) \/ fate' # "open"
  PROVE  WaitInv'
  <1>1. \A j : Answered(j)' <=> Answered(j)
    BY DEF Answered
  <1>2. LockstepAnswered'
    BY <1>1 DEF WaitInv, LockstepAnswered, NoAttributes
  <1>3. SwallowedByTextOnly'
    BY <1>1 DEF WaitInv, SwallowedByTextOnly
  <1>4. DatabaseAsNamed'
    BY DEF WaitInv, DatabaseAsNamed, Naming, NamedBy
  <1> QED
    BY <1>1, <1>2, <1>3, <1>4 DEF WaitInv

LEMMA ClientKeepsWait ==
  ASSUME SInv, WaitInv, NEW p \in Logins \cup Commands, ClientSend(p)
  PROVE  WaitInv'
  <1>1. /\ Len(requests') = Len(requests) + 1 /\ DOMAIN requests' = 1 .. Len(requests) + 1
        /\ DOMAIN requests = 1 .. Len(requests) /\ Len(requests) \in Nat
        /\ consumed \in 0 .. Len(requests)
        /\ \A j \in 1 .. Len(requests) : requests'[j] = requests[j]
        /\ \A k \in DOMAIN replies : replies[k].to \in 1 .. Len(requests)
        /\ UNCHANGED <<database, read, consumed, framed, replies, fate>>
    BY RequestsStay
  <1>2. \A j : Answered(j)' <=> Answered(j)
    BY <1>1 DEF Answered
  <1>3. ~ahead' => ~ahead /\ \A j \in 1 .. Len(requests) : Answered(j)
    BY <1>1 DEF ClientSend
  <1>4. LockstepAnswered'
    <2>1. NoAttributes' => NoAttributes
      BY <1>1 DEF NoAttributes
    <2> QED
      BY <1>1, <1>2, <1>3, <2>1 DEF WaitInv, LockstepAnswered
  <1>5. SwallowedByTextOnly'
    <2> SUFFICES ASSUME framed, fate = "open", NEW i \in 1 .. consumed, ~Answered(i)
                 PROVE  \E j \in 1 .. i - 1 :
                          /\ Answered(j) /\ requests'[j].kind \in {"query", "initdb"}
                          /\ \A m \in j + 1 .. i : ~Answered(m)
      BY <1>1, <1>2 DEF SwallowedByTextOnly
    <2>1. PICK j \in 1 .. i - 1 : /\ Answered(j) /\ requests[j].kind \in {"query", "initdb"}
                                  /\ \A m \in j + 1 .. i : ~Answered(m)
      BY DEF WaitInv, SwallowedByTextOnly
    <2>2. j \in 1 .. Len(requests)
      BY <1>1
    <2> QED
      BY <1>1, <2>1, <2>2
  <1>6. DatabaseAsNamed'
    <2>1. /\ Naming' = Naming
          /\ \A i \in Naming : i \in 1 .. Len(requests)
                               /\ NamedBy(requests[i])' = NamedBy(requests[i])
      BY <1>1 DEF Naming, NamedBy
    <2> QED
      BY <1>1, <1>3, <2>1 DEF WaitInv, DatabaseAsNamed
  <1> QED
    BY <1>1, <1>2, <1>3, <1>4, <1>5, <1>6 DEF WaitInv

LEMMA EventKeepsWait ==
  ASSUME SInv, WaitInv, NEW n \in Nat, NEW more \in BOOLEAN, Event(n, more)
  PROVE  WaitInv'
  <1> SUFFICES ASSUME NEW i, i = consumed + 1  PROVE WaitInv'
    OBVIOUS
  <1>1. /\ fate = "open" /\ framed /\ UNCHANGED <<requests, ahead, offered, authData>>
        /\ read' \in read .. Len(requests)
        /\ part' => read' < Len(requests)
        /\ Idle \/ (i \in 1 .. read' /\ Handled(i))
    BY EventDoes DEF SInv, ReplyInv
  <1>2. consumed \in 0 .. read /\ read \in Nat /\ read' \in Nat /\ Len(requests) \in Nat
    BY <1>1 DEF SInv, TypeOK
  <1>3. CASE Idle
    <2>1. read' = read
      BY <1>1, <1>2, <1>3 DEF Idle
    <2> QED
      BY <1>1, <1>3, <2>1, WaitInvStays DEF Idle
  <1>4. CASE Silent(i)
    <2>1. /\ fate' # "open" /\ UNCHANGED <<requests, ahead, replies, database>>
      BY <1>1, <1>4 DEF Silent
    <2>2. \A j : Answered(j)' <=> Answered(j)
      BY <2>1 DEF Answered
    <2>3. DatabaseAsNamed'
      BY <2>1 DEF WaitInv, DatabaseAsNamed, Naming, NamedBy
    <2> QED
      BY <2>1, <2>2, <2>3 DEF WaitInv, LockstepAnswered, SwallowedByTextOnly
  <1>5. ASSUME i \in 1 .. read', NEW r, Appended(i, r), Greeted(i, r) \/ Served(i, r)
        PROVE  WaitInv'
    <2>1. /\ Len(replies) \in Nat /\ DOMAIN replies = 1 .. Len(replies)
          /\ DOMAIN replies' = 1 .. Len(replies) + 1
          /\ replies'[Len(replies) + 1] = r /\ r.to = i
          /\ \A k \in DOMAIN replies : replies'[k] = replies[k] /\ replies[k].to \in 1 .. consumed
          /\ \A j : Answered(j)' <=> Answered(j) \/ j = i
          /\ \A j : Answered(j) => j \in 1 .. consumed
      BY <1>5, RepliesGrow
    <2>2. ~ahead => i = read' /\ i = Len(requests) /\ Last(i)
      BY <1>1, <1>5, OneAtATime
    <2>3. \/ consumed' = i
          \/ consumed' = read' /\ requests[i].kind \in {"query", "initdb"}
      BY <1>5 DEF Greeted, Served
    <2>4. ~ahead => \A j \in 1 .. Len(requests) : Answered(j)'
      <3>1. \A j \in 1 .. Len(requests) : j \in 1 .. Len(requests) - 1 \/ j = Len(requests)
        BY <1>2
      <3> QED
        BY <2>1, <2>2, <3>1 DEF WaitInv
    <2>5. LockstepAnswered'
      <3> SUFFICES ASSUME ~ahead, fate' = "open", NoAttributes
                   PROVE  /\ framed' /\ consumed' = read'
                          /\ \A j \in 1 .. read' : Answered(j)'
        BY <1>1 DEF LockstepAnswered, NoAttributes
      <3>1. Last(i) /\ i \in DOMAIN requests
        BY <1>2, <1>5, <2>2 DEF SInv, TypeOK
      <3>2. framed'
        <4>1. CASE Greeted(i, r)
          <5>1. r.code = 0 /\ requests[i].kind = "login"
            BY <4>1 DEF Greeted
          <5> QED
            BY <3>1, <4>1, <5>1 DEF Greeted, NoAttributes
        <4>2. CASE Served(i, r)
          BY <1>1, <3>1, <4>2, Zenon DEF Served
        <4> QED
          BY <1>5, <4>1, <4>2
      <3> QED
        BY <2>2, <2>3, <2>4, <3>2
    <2>6. SwallowedByTextOnly'
      <3> SUFFICES ASSUME NEW l \in 1 .. consumed', ~Answered(l)'
                   PROVE  \E j \in 1 .. l - 1 :
                            /\ Answered(j)' /\ requests[j].kind \in {"query", "initdb"}
                            /\ \A m \in j + 1 .. l : ~Answered(m)'
        BY <1>1 DEF SwallowedByTextOnly
      <3>1. CASE l \in 1 .. consumed
        <4>1. PICK j \in 1 .. l - 1 : /\ Answered(j) /\ requests[j].kind \in {"query", "initdb"}
                                      /\ \A m \in j + 1 .. l : ~Answered(m)
          BY <1>1, <2>1, <3>1 DEF WaitInv, SwallowedByTextOnly
        <4>2. \A m \in j + 1 .. l : m # i
          BY <1>2, <3>1
        <4> QED
          BY <2>1, <4>1, <4>2
      <3>2. CASE l \notin 1 .. consumed
        <4>1. l # i
          BY <2>1
        <4>2. l \in i + 1 .. read' /\ requests[i].kind \in {"query", "initdb"}
          BY <1>2, <1>5, <2>3, <3>2, <4>1
        <4>3. i \in 1 .. l - 1 /\ Answered(i)'
          BY <1>2, <2>1, <4>2
        <4>4. \A m \in i + 1 .. l : m # i /\ m \notin 1 .. consumed
          BY <1>2
        <4>5. \A m \in i + 1 .. l : ~Answered(m)'
          BY <2>1, <4>4
        <4> QED
          BY <4>2, <4>3, <4>5
      <3> QED
        BY <3>1, <3>2
    <2>7. DatabaseAsNamed'
      <3> SUFFICES ASSUME ~ahead  PROVE DatabaseAsNamed'
        BY <1>1 DEF DatabaseAsNamed
      <3> DEFINE names == r.code = 0 /\ NamedBy(requests[i]) # NoDatabase
      <3>1. database' = IF names THEN NamedBy(requests[i]) ELSE database
        BY <1>5, <2>2 DEF Greeted, Served, NamedBy
      <3>2. Naming' = IF names THEN Naming \cup {i} ELSE Naming
        <4>1. i \in DOMAIN requests /\ requests' = requests
          BY <1>1, <1>2, <1>5 DEF SInv, TypeOK
        <4>2. \A k \in DOMAIN replies' : k \in DOMAIN replies \/ k = Len(replies) + 1
          BY <2>1
        <4>3. \A l : (\E k \in DOMAIN replies' : replies'[k].to = l /\ replies'[k].code = 0)
                 <=> \/ \E k \in DOMAIN replies : replies[k].to = l /\ replies[k].code = 0
                     \/ l = i /\ r.code = 0
          BY <2>1, <4>2
        <4> QED
          BY <4>1, <4>3 DEF Naming, NamedBy
      <3>3. \A j \in Naming : j \in 1 .. consumed /\ j <= i
        BY <1>2, <2>1 DEF Naming
      <3>4. \A j : NamedBy(requests[j])' = NamedBy(requests[j])
        BY <1>1 DEF NamedBy
      <3>5. CASE names
        BY <1>2, <3>1, <3>2, <3>3, <3>4, <3>5 DEF DatabaseAsNamed
      <3>6. CASE ~names
        BY <3>1, <3>2, <3>4, <3>6 DEF WaitInv, DatabaseAsNamed
      <3> QED
        BY <3>5, <3>6
    <2> QED
      BY <1>1, <2>4, <2>5, <2>6, <2>7 DEF WaitInv
  <1> QED
    BY <1>1, <1>3, <1>4, <1>5 DEF Handled

LEMMA NextKeepsWait == SInv /\ WaitInv /\ [Next]_vars => WaitInv'
  <1> SUFFICES ASSUME SInv, WaitInv, [Next]_vars  PROVE WaitInv'
    OBVIOUS
  <1>1. CASE SendHandshake
    BY <1>1, WaitInvStays DEF SendHandshake, clientVars, bufferVars
  <1>2. ASSUME NEW p \in Logins \cup Commands, ClientSend(p)  PROVE WaitInv'
    BY <1>2, ClientKeepsWait
  <1>3. ASSUME NEW n \in 0 .. MaxRequests, NEW more \in BOOLEAN, Event(n, more)
        PROVE  WaitInv'
    BY <1>3, EventKeepsWait, SessionAssumption
  <1>4. CASE UNCHANGED vars
    BY <1>4, WaitInvStays DEF vars, sessionVars, clientVars, bufferVars
  <1> QED
    BY <1>1, <1>2, <1>3, <1>4 DEF Next

LEMMA WaitInvariant == Spec => []WaitInv
  <1>1. Init => WaitInv
    <2> SUFFICES ASSUME Init  PROVE WaitInv
      OBVIOUS
    <2>1. Naming = {}
      BY DEF Init, Naming
    <2> QED
      BY <2>1 DEF Init, WaitInv, LockstepAnswered, SwallowedByTextOnly, DatabaseAsNamed
  <1> QED
    BY <1>1, NextKeepsWait, SessionInvariant, PTL DEF Spec

\* A client that waits for each reply and sends no connect attributes gets a reply to each
\* of its requests: of the input its connection's input_buffer_ holds in all.
THEOREM WaitingSafe == Spec => []LockstepAnswered
  BY WaitInvariant, PTL DEF WaitInv

\* Only COM_QUERY and COM_INIT_DB take bytes of the packets behind them.
THEOREM SwallowingSafe == Spec => []SwallowedByTextOnly
  BY WaitInvariant, PTL DEF WaitInv

\* The session's database is the one a waiting client named last.
THEOREM DatabaseSafe == Spec => []DatabaseAsNamed
  BY WaitInvariant, PTL DEF WaitInv

=============================================================================
