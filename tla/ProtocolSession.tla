--------------------------- MODULE ProtocolSession ---------------------------
(***************************************************************************)
(* One session of the MySQL protocol: ProtocolHandler, Session, the        *)
(* packets it decodes and encodes, Authenticator and CommandDispatcher     *)
(* with its four handlers.                                                 *)
(*                                                                         *)
(* The client may wait for each reply or send ahead. A read event brings   *)
(* whole packets and perhaps a part of the next one; handleData() then     *)
(* runs once, and takes one packet. What a handler takes from the input    *)
(* buffer is not always that packet: COM_QUERY and COM_INIT_DB read all    *)
(* the bytes there are, and HandshakeResponse41 reads fields, not          *)
(* payload_length bytes. When that leaves the buffer in the middle of a    *)
(* packet, `framed` becomes FALSE and the model follows it no further.     *)
(* Nor does it follow a connection beyond the 4096 bytes its input_buffer_ *)
(* holds: the buffer is never reset, and what comes later may be lost      *)
(* (modules Buffer and TcpStream). Every claim below is of that input.     *)
(*                                                                         *)
(* SHA1 is external: a response is the password and the challenge it was   *)
(* made from. A statement is what the parser makes of it (module Parser);  *)
(* module Storage has its effect on tables. A result set has any number of *)
(* RowCounts, whatever filled the table.                                   *)
(***************************************************************************)
EXTENDS Integers, Sequences

CONSTANTS
  Challenges,   \* values of auth_plugin_data
  Users,        \* user names clients try
  Secrets,      \* passwords clients try
  Databases,    \* database names clients use
  NoDatabase,   \* the empty name
  Garbled,      \* a name that took in bytes of another packet
  Seqs,         \* sequence ids clients put on commands
  RowCounts,    \* rows of a result set
  MaxRequests   \* bound on the packets a client sends, no more than its input buffer holds

ASSUME SessionAssumption ==
  /\ Challenges # {}
  /\ NoDatabase \notin Databases /\ Garbled \notin Databases \cup {NoDatabase}
  /\ Seqs \subseteq 0 .. 255
  /\ RowCounts \subseteq Nat
  /\ MaxRequests \in Nat

VARIABLES
  state,      \* Session::state_
  authData,   \* Session::auth_plugin_data_
  username,   \* Session::username_
  database,   \* Session::current_database_
  seqId,      \* Session::sequence_id_
  offered,    \* the challenge in the handshake packet the client was sent
  requests,   \* packets the client has sent
  read,       \* how many of them are whole in the input buffer or behind its read index
  part,       \* the buffer ends with a part of the next one
  consumed,   \* how many of them are behind the read index
  framed,     \* the read index is at the first byte of a packet
  replies,    \* what sendResponse() was given, in order
  fate,       \* "open", "closed" by the server, "terminated" (the whole process)
  ahead       \* the client has sent a packet before the reply to the one before

sessionVars == <<state, authData, username, database, seqId>>
clientVars  == <<requests, ahead>>
bufferVars  == <<read, part, consumed, framed>>
vars == <<sessionVars, offered, clientVars, bufferVars, replies, fate>>

NoUser == ""

-----------------------------------------------------------------------------
(* Authenticator *)

\* getPasswordHash(): the accounts are in the code; other names have no hash.
PasswordOf == [root |-> "", tiny |-> "", test |-> "test", admin |-> "admin123"]
IsAccount(user) == user \in DOMAIN PasswordOf

\* computeAuthResponse(): empty for an empty password, else 20 bytes made from both.
AuthResponse(password, challenge) ==
  IF password = "" THEN [size |-> 0]
  ELSE [size |-> 20, password |-> password, challenge |-> challenge]

Matches(user, response) ==
  /\ response.size = 20
  /\ response.password = PasswordOf[user] /\ response.challenge = authData

\* authenticate().
Authenticate(user, response) ==
  /\ IsAccount(user)
  /\ IF response.size = 0 THEN PasswordOf[user] = "" ELSE Matches(user, response)

-----------------------------------------------------------------------------
(* What clients send *)

\* "attrs": connect attributes follow the plugin name. "cut": the terminator of the
\* plugin name is missing. "short": the response has 8 bytes (mysql_old_password).
Logins == [kind : {"login"}, user : Users, secret : Secrets, challenge : Challenges,
           db : Databases \cup {NoDatabase}, form : {"good", "attrs", "cut", "short"}]

ResponseIn(p) ==
  IF p.form = "short" THEN [size |-> 8] ELSE AuthResponse(p.secret, p.challenge)

\* What Parser makes of the text: an error, nothing, USE, SELECT, SELECT with a LIMIT
\* stoi() cannot hold, or another statement.
Statements ==
  [verb : {"error", "none", "limit", "other"}]
    \cup [verb : {"use"}, db : Databases]
    \cup [verb : {"select"}, rows : RowCounts]

Commands ==
  [kind : {"ping", "quit", "empty", "unknown"}, seq : Seqs]
    \cup [kind : {"initdb"}, seq : Seqs, db : Databases]
    \cup [kind : {"query"}, seq : Seqs, text : Statements]

Answered(i) == \E k \in DOMAIN replies : replies[k].to = i

\* Bound: a login is a client's first packet. (A later one is a command nobody knows.)
ClientSend(p) ==
  /\ fate = "open" /\ Len(requests) < MaxRequests
  /\ p.kind = "login" => requests = <<>>
  /\ requests' = Append(requests, p)
  /\ ahead' = (ahead \/ state = "INIT" \/ \E i \in DOMAIN requests : ~Answered(i))
  /\ UNCHANGED <<sessionVars, offered, bufferVars, replies, fate>>

-----------------------------------------------------------------------------
(* Packets of a reply *)

\* Session::nextSequenceId() n times, from id s. (Mutants: the number grows
\* past a byte; one number is skipped.)
SequenceIdsUnwrapped(s, n) == [i \in 1 .. n |-> s + i - 1]
SequenceIdsSkipping(s, n) == [i \in 1 .. n |-> IF i = 1 THEN s ELSE (s + i) % 256]
SequenceIds(s, n) == [i \in 1 .. n |-> (s + i - 1) % 256]

\* A reply to packet i with the given sequence ids; code is an ErrPacket's, 0 for none.
Reply(i, code, ids) == replies' = Append(replies, [to |-> i, code |-> code, ids |-> ids])

\* The packets of a result set: column count, a definition for each of the (here two)
\* columns, EOF, the rows, EOF.
ResultSetLen(rows) == 1 + 2 + 1 + rows + 1

-----------------------------------------------------------------------------
(* ProtocolHandler *)

\* The constructor of HandshakeV10Packet generates authentication data, and so does
\* sendHandshake(), which then keeps it. (Mutant: it keeps it first.)
KeepAuthDataEarly(first, second) == authData' = first /\ offered' = second
KeepAuthData(first, second) == authData' = second /\ offered' = second

SendHandshake ==
  /\ state = "INIT"
  /\ \E first, second \in Challenges : KeepAuthData(first, second)
  /\ state' = "HANDSHAKE_SENT"
  /\ seqId' = 0
  /\ UNCHANGED <<username, database, clientVars, bufferVars, replies, fate>>

\* A read event: packets n whole after it, and perhaps a part of the next (more). Some
\* byte of it must be new. Event(n, more) below goes on with handleData().
Arrives(n, more) ==
  /\ state # "INIT" /\ fate = "open" /\ framed
  /\ n \in read .. Len(requests)
  /\ more => n < Len(requests)
  /\ n > read \/ (more /\ ~part)
  /\ read' = n
  /\ part' = more
  /\ UNCHANGED <<clientVars, offered, authData>>

\* More bytes than packet i are in the buffer.
Beyond(i) == read' > i \/ part'

\* HandshakeResponse41Packet::decode() reads all it wants. It throws when packet i is a
\* command, or lacks its last terminator and nothing follows.
Decodable(i) ==
  requests[i].kind = "login" /\ (requests[i].form = "cut" => Beyond(i))

\* Nobody catches it.
Terminate(i) ==
  /\ fate' = "terminated"
  /\ consumed' = i
  /\ UNCHANGED <<sessionVars, framed, replies>>

LoginThrows(i) ==
  /\ state = "HANDSHAKE_SENT"
  /\ ~Decodable(i)
  /\ Terminate(i)

\* A command among others where a login was due: its bytes are some user's name.
LoginGarbled(i) ==
  /\ state = "HANDSHAKE_SENT"
  /\ requests[i].kind # "login" /\ Beyond(i)
  /\ Reply(i, 1045, <<2>>)
  /\ fate' = "closed"
  /\ consumed' = i
  /\ framed' = FALSE
  /\ UNCHANGED sessionVars

\* The database of the packet, kept unless it is empty.
LoginDatabase(p) == IF p.db = NoDatabase THEN database ELSE p.db

LoginAccepted(i) ==
  LET p == requests[i] IN
    /\ state = "HANDSHAKE_SENT" /\ Decodable(i)
    /\ Authenticate(p.user, ResponseIn(p))
    /\ username' = p.user
    /\ database' = LoginDatabase(p)
    /\ state' = "AUTHENTICATED"
    /\ Reply(i, 0, <<2>>)
    /\ consumed' = i
    /\ framed' = (p.form \in {"good", "short"})
    /\ UNCHANGED <<authData, seqId, fate>>

LoginRefused(i) ==
  LET p == requests[i] IN
    /\ state = "HANDSHAKE_SENT" /\ Decodable(i)
    /\ ~Authenticate(p.user, ResponseIn(p))
    /\ Reply(i, 1045, <<2>>)
    /\ fate' = "closed"
    /\ consumed' = i
    /\ framed' = (p.form \in {"good", "short"})
    /\ UNCHANGED sessionVars

-----------------------------------------------------------------------------
(* CommandDispatcher: packet i is the first in the buffer *)

\* handleCommand() goes on only in a session that is authenticated; handleData() gives
\* it none that is not. (Mutant: commands are dispatched before the login.)
MayCommandAlways == state \in {"HANDSHAKE_SENT", "AUTHENTICATED"}
MayCommand == state = "AUTHENTICATED"

Kind(i) == requests[i].kind
SeqOf(i) == requests[i].seq

\* The header and the command byte are read: that is a packet without arguments.
\* (Mutants: the handler reads what the buffer has; the packet is only peeked at.)
TakeOneBytePeeked(i) == UNCHANGED <<consumed, framed>>
TakeOneByteGreedy(i) == consumed' = read' /\ framed' = ~part'
TakeOneByte(i) == consumed' = i /\ UNCHANGED framed

\* readString(readableBytes()): the argument and all that follows it.
TakeAll == consumed' = read' /\ framed' = ~part'

Ping(i) ==
  /\ MayCommand /\ Kind(i) = "ping"
  /\ TakeOneByte(i)
  /\ seqId' = (SeqOf(i) + 1) % 256
  /\ Reply(i, 0, SequenceIds(SeqOf(i), 1))
  /\ UNCHANGED <<state, authData, username, database, fate>>

Quit(i) ==
  /\ MayCommand /\ Kind(i) = "quit"
  /\ TakeOneByte(i)
  /\ seqId' = SeqOf(i)
  /\ state' = "CLOSING"
  /\ fate' = "closed"
  /\ UNCHANGED <<authData, username, database, replies>>

\* "Empty command packet": dispatch() returns false without a reply.
EmptyPacket(i) ==
  /\ MayCommand /\ Kind(i) = "empty"
  /\ TakeOneByte(i)
  /\ seqId' = SeqOf(i)
  /\ fate' = "closed"
  /\ UNCHANGED <<state, authData, username, database, replies>>

UnknownCommand(i) ==
  /\ MayCommand /\ Kind(i) = "unknown"
  /\ TakeOneByte(i)
  /\ seqId' = (SeqOf(i) + 1) % 256
  /\ Reply(i, 1047, SequenceIds(SeqOf(i), 1))
  /\ fate' = "closed"
  /\ UNCHANGED <<state, authData, username, database>>

\* The name COM_INIT_DB sets, whether such a database exists or not.
InitDbName(i) == IF Beyond(i) THEN Garbled ELSE requests[i].db

InitDb(i) ==
  /\ MayCommand /\ Kind(i) = "initdb"
  /\ TakeAll
  /\ database' = InitDbName(i)
  /\ seqId' = (SeqOf(i) + 1) % 256
  /\ Reply(i, 0, SequenceIds(SeqOf(i), 1))
  /\ UNCHANGED <<state, authData, username, fate>>

\* What a text may parse as with bytes of other packets behind it: the same (the parser
\* stops at the end of a statement), or an error; USE may name another database, the
\* number of a LIMIT may go on until stoi() cannot hold it, and what was an error for
\* want of an end may be whole.
Joined(stmt) ==
  {stmt, [verb |-> "error"]}
    \cup CASE stmt.verb = "use" -> {[stmt EXCEPT !.db = Garbled]}
           [] stmt.verb = "select" -> {[verb |-> "limit"]}
           [] stmt.verb = "error" -> Statements \cup {[verb |-> "use", db |-> Garbled]}
           [] OTHER -> {}

Parsed(i) ==
  LET stmt == requests[i].text IN IF Beyond(i) THEN Joined(stmt) ELSE {stmt}

\* USE sets the name unchecked. (Mutant: it is forgotten.)
UseDatabaseForgotten(stmt) == database
UseDatabase(stmt) == IF stmt.verb = "use" THEN stmt.db ELSE database

\* Packets of the reply and its error code; another statement succeeds or fails.
ReplyLen(stmt) == IF stmt.verb = "select" THEN ResultSetLen(stmt.rows) ELSE 1
ReplyCodes(stmt) ==
  CASE stmt.verb = "error" -> {1064}
    [] stmt.verb = "other" -> {0, 1146}
    [] OTHER -> {0}

Query(i, stmt) ==
  /\ MayCommand /\ Kind(i) = "query"
  /\ stmt \in Parsed(i) /\ stmt.verb # "limit"
  /\ TakeAll
  /\ database' = UseDatabase(stmt)
  /\ seqId' = (SeqOf(i) + ReplyLen(stmt)) % 256
  /\ \E code \in ReplyCodes(stmt) : Reply(i, code, SequenceIds(SeqOf(i), ReplyLen(stmt)))
  /\ UNCHANGED <<state, authData, username, fate>>

\* stoi() throws out of the parser.
QueryThrows(i, stmt) ==
  /\ MayCommand /\ Kind(i) = "query"
  /\ stmt \in Parsed(i) /\ stmt.verb = "limit"
  /\ Terminate(i)

-----------------------------------------------------------------------------
\* checkPacketComplete() finds none.
NoPacket ==
  /\ read' = consumed
  /\ UNCHANGED <<state, username, database, seqId, consumed, framed, replies, fate>>

Login(i) == LoginThrows(i) \/ LoginGarbled(i) \/ LoginAccepted(i) \/ LoginRefused(i)

Command(i) ==
  \/ Ping(i) \/ Quit(i) \/ EmptyPacket(i) \/ UnknownCommand(i) \/ InitDb(i)
  \/ \E stmt \in Statements \cup [verb : {"use"}, db : {Garbled}] :
       Query(i, stmt) \/ QueryThrows(i, stmt)

\* handleData(), on the first packet that is not consumed.
HandleData ==
  \/ NoPacket
  \/ /\ read' > consumed
     /\ Login(consumed + 1) \/ Command(consumed + 1)

Event(n, more) == Arrives(n, more) /\ HandleData

Init ==
  /\ state = "INIT"
  /\ authData \in Challenges
  /\ username = NoUser
  /\ database = NoDatabase
  /\ seqId = 0
  /\ offered = authData
  /\ requests = <<>>
  /\ read = 0 /\ part = FALSE /\ consumed = 0 /\ framed = TRUE
  /\ replies = <<>>
  /\ fate = "open"
  /\ ahead = FALSE

Next ==
  \/ SendHandshake
  \/ \E p \in Logins \cup Commands : ClientSend(p)
  \/ \E n \in 0 .. MaxRequests, more \in BOOLEAN : Event(n, more)

Spec == Init /\ [][Next]_vars

-----------------------------------------------------------------------------
(* Properties *)

\* Every variable stays in its domain; the input buffer's marks are in order.
TypeOK ==
  /\ state \in {"INIT", "HANDSHAKE_SENT", "AUTHENTICATED", "CLOSING"}
  /\ authData \in Challenges /\ offered \in Challenges
  /\ username \in Users \cup {NoUser}
  /\ database \in Databases \cup {NoDatabase, Garbled}
  /\ seqId \in 0 .. 255
  /\ requests \in Seq(Logins \cup Commands) /\ Len(requests) <= MaxRequests
  /\ read \in 0 .. Len(requests)
  /\ consumed \in 0 .. read
  /\ {part, framed, ahead} \subseteq BOOLEAN
  /\ replies \in Seq([to : Nat, code : Nat, ids : Seq(0 .. 255)])
  /\ fate \in {"open", "closed", "terminated"}

\* A login that can be decoded succeeds if, and only if, the client used the account's
\* password and, where the password is not empty, the challenge it was sent.
ProvesPassword(p) ==
  /\ p.user \in DOMAIN PasswordOf /\ p.secret = PasswordOf[p.user]
  /\ p.secret # "" => p.challenge = offered
LoginVerdict ==
  \A k \in DOMAIN replies :
    LET p == requests[replies[k].to] IN
      p.kind = "login" =>
        (replies[k].code = 0 <=> p.form # "short" /\ ProvesPassword(p))

\* Nothing a client sends before a successful login runs as a command: as long as
\* none has succeeded there is no user, no database and no reply but a refusal.
NothingBeforeLogin ==
  (\A k \in DOMAIN replies : requests[replies[k].to].kind = "login" => replies[k].code # 0)
    => /\ username = NoUser /\ database = NoDatabase
       /\ \A k \in DOMAIN replies : replies[k].code = 1045

\* Replies come in the order of the requests, at most one to each, and the ids of their
\* packets run on from one value modulo 256, however long the result set is.
RepliesInOrder ==
  /\ \A j, k \in DOMAIN replies : j < k => replies[j].to < replies[k].to
  /\ \A k \in DOMAIN replies : \A m \in DOMAIN replies[k].ids :
       m > 1 => replies[k].ids[m] = (replies[k].ids[m - 1] + 1) % 256

\* A client that waits for each reply and sends no connect attributes with its login has
\* each of its requests answered as soon as it is read whole, and its packets never run
\* into one another. (Attributes stay in the buffer and pass for the next packet:
\* handshake.cpp:225 reads the fields up to the plugin name and no further.)
NoAttributes == \A i \in DOMAIN requests : requests[i].kind = "login" => requests[i].form # "attrs"
LockstepAnswered ==
  (~ahead /\ fate = "open" /\ NoAttributes) =>
    framed /\ consumed = read /\ \A i \in 1 .. read : Answered(i)

\* A client that sends ahead loses a request only to a COM_QUERY or a COM_INIT_DB before
\* it: no other command takes bytes of the packets behind it.
SwallowedByTextOnly ==
  framed => \A i \in 1 .. consumed :
    (~Answered(i) /\ fate = "open") =>
      \E j \in 1 .. i - 1 :
        /\ Answered(j) /\ requests[j].kind \in {"query", "initdb"}
        /\ \A m \in j + 1 .. i : ~Answered(m)

\* For a client that waits for each reply, the session's database is the one it named last
\* in a request that was carried out: by its login, COM_INIT_DB or USE.
NamedBy(p) ==
  IF p.kind \in {"login", "initdb"} THEN p.db
  ELSE IF p.kind = "query" /\ p.text.verb = "use" THEN p.text.db ELSE NoDatabase
Naming == {i \in DOMAIN requests : NamedBy(requests[i]) # NoDatabase
             /\ \E k \in DOMAIN replies : replies[k].to = i /\ replies[k].code = 0}
DatabaseAsNamed ==
  ~ahead => IF Naming = {} THEN database = NoDatabase
            ELSE \E i \in Naming : /\ database = NamedBy(requests[i])
                                   /\ \A j \in Naming : j <= i

\* protocol_handler.cpp:75-83, "send an error packet": a login that cannot be decoded is
\* answered with error 1043.
BadHandshakeAnswered ==
  \A i \in 1 .. consumed :
    (requests[i].kind = "login" /\ requests[i].form = "cut" /\ fate = "terminated") =>
      \E k \in DOMAIN replies : replies[k].to = i /\ replies[k].code = 1043

=============================================================================
