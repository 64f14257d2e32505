# tiny-sql in TLA+

A model of the tiny-sql server (`src/`): TLA+ modules translated from its C++
source, TLC runs that check them on small instances, and proofs of the most
important properties for all instances. The code is the reference; where a
document or a comment of the repository says something else, a run shows it.

- Run a check: `tlc -config <run>.cfg <module>.tla` (pairs in the table below).
- Check a proof: `tlapm TcpServerProofs.tla`, `tlapm BufferProofs.tla`, `tlapm StreamProofs.tla`,
  `tlapm SessionProofs.tla`, `tlapm LexerProofs.tla`, `tlapm ParserProofs.tla`,
  `tlapm StorageProofs.tla`, `tlapm ReplyProofs.tla`.
- `PROJECT.json` has, for every definition, the source lines it stands for; for
  every property, a mutation of the model that breaks it; and the list of hazards
  the properties are for, each at its line.

## 1. Inventory

tiny-sql speaks the MySQL protocol over TCP, in one process with **one thread**
that runs an edge-triggered event loop (README.md:14, :251-258 of the repository).
Nothing is persisted. What runs concurrently is the clients, the kernel, and the
signal handler, which calls `Server::stop()` on top of whatever the thread was doing.

| Component | State it keeps | Operations | What is hard |
|---|---|---|---|
| `Server`, `main.cpp`, epoll loop | `running_`, `connections_` (by fd), `protocol_handlers` (by fd), interest list, ready list | start, stop, eventLoop, handleAccept, handleRead, handleClose, three callbacks | fd numbers are reused while both tables are keyed by them; events of a batch go stale; a signal at any step; edges are told once |
| `TcpConnection` | `fd_`, `connected_`, input and output buffer | read, send, handleRead, handleClose, close | one readv per edge, partial writes, EAGAIN, EPIPE |
| `Buffer` | vector (size, capacity), read and write index | append, typed writes and reads, readFromFd, writeToFd | bytes are stored past `size()`; growth |
| `ProtocolHandler`, `Session`, packets | session state, challenge, user, database, sequence id | sendHandshake, handleAuthentication, handleCommand | one packet per event; decoders that take more or fewer bytes than the packet has; exceptions |
| `Authenticator` | none (accounts are in the code) | authenticate | empty passwords, the challenge that counts |
| `CommandDispatcher`, handlers | none | PING, QUIT, QUERY, INIT_DB, errors | text commands take all the bytes there are |
| `Lexer` | text, position | nextToken, comments, strings, numbers, words | quotes, escapes and comments cut short; comments behind comments |
| `Parser` (over `Lexer`) | current token | parse, one function per statement, expressions | loops on a text that stops anywhere; precedence |
| `StorageEngine`, `Database`, `Table`, `Value`, `ExpressionEvaluator` | databases, tables, rows, next number | create, drop, insert, select, show, use | shared by sessions; types of values; partial failure |
| Response packets | none | encode, getPayloadLength, headers, length-encoded integers and strings | lengths declared apart from the bytes written; boundaries of the encodings; NULL, EOF and lengths that begin alike |
| kqueue loop, legacy `EpollServer`, `Logger`, examples and tests | | | not modelled (section 7) |

How they interact, for one event: `epoll_wait` → `Server::handleRead(fd)` →
`TcpConnection::handleRead()` (one `readv` into the input `Buffer`) → main.cpp's
message callback → `protocol_handlers[fd]->handleData()` (one packet) → login or
`CommandDispatcher` → `Parser` → executor on the `StorageEngine` → one
`TcpConnection::send()`; `false` on the way back makes main.cpp close the connection.

What makes each part correct:

- *Lifecycle*: a connection only ever touches its own socket, events and handler,
  however numbers are reused; epoll watches exactly the live connections; the limit
  holds; resets are noticed; stop ends the loop; arrivals are taken.
- *Bytes*: nothing given to `send()` is lost or repeated; a client that waits for
  its replies never stalls; a buffer keeps what it was given, inside its allocation.
- *Session*: only the account's password, against the challenge that was sent, opens
  a session; nothing runs before; replies come in order, one to a request.
- *Lexer*: every token is the longest the grammar has there, and nothing else is skipped.
- *Parser*: it returns, with trees of the right shape.
- *Responses*: a client reads from the bytes the reply that was put into them.
- *Storage*: rows fit their schema; what was stored is found; a statement changes
  what it says and nothing else.

## 2. Modules

| Module | Models | Extends / instantiates |
|---|---|---|
| `TcpServer` | server.cpp, tcp_connection.cpp, main.cpp, epoll_event_loop.cpp, the kernel's descriptor table and ready list | |
| `TcpStream` | the bytes of one connection: readv, one packet per event, send, output buffer, socket errors | |
| `Buffer` | buffer.h, buffer.cpp | |
| `ProtocolSession` | protocol_handler.cpp, handshake.cpp, authenticator.cpp, session.h, dispatch in command_handler.cpp | |
| `Parser` | parser.cpp | |
| `Lexer` | lexer.cpp, token.cpp, as functions of the text and a position | |
| `Query` | the parser on the tokens of a text, and the lexical grammar it is checked against | `Parser`, `Lexer` |
| `Storage` | executors in command_handler.cpp, storage_engine.cpp, table.cpp, value.cpp, expression_evaluator.cpp | `Catalog` (refinement) |
| `Response` | response.cpp, response.h, the header of packet.cpp, length-encoded data of buffer.h, and a client that reads them | |
| `StatementReply` | statements with the bytes of their replies | `Storage`, `Response` |
| `Catalog` | what statements promise, without columns and values: the abstract specification | |
| `MC...` | values for CONSTANTS, symmetry; `MCParser` takes queries as texts and as tokens chosen freely | the module it names (`MCParser`: `Query`, `MCStorage`: `StatementReply`) |
| `TcpServerProofs`, `BufferProofs`, `StreamProofs`, `SessionProofs`, `LexerProofs`, `ParserProofs`, `StorageProofs`, `ReplyProofs` | theorems and proofs | `TcpServer`, `Buffer`, `TcpStream`, `ProtocolSession`, `Query`, `Parser`, `Storage`, `StatementReply` |

The modules compose along the calls above by abstracting each other's result:
`TcpServer` says "bytes wait" and chooses the verdict (`keep`) that
`ProtocolSession` computes; `TcpStream` counts segments and replies where `Buffer` has
cells and `ProtocolSession` has packets; `ProtocolSession` chooses what `Parser` makes
of a text and whether `Storage` succeeds. `Query` composes `Lexer` and `Parser` step by step
(a parser step that reads a token reads the text's next), `StatementReply` composes `Storage`
and `Response` (the answer of each statement becomes the packets the encoders write). Where one part
limits another, the module that does not have the limited part takes the larger choice, or says
which bound it stays within: bytes are intact for as long as a connection's whole input has fitted
its `input_buffer_`, which is never reset (finding `buffer_input`). `TcpStream` has that bound as
`InputCap` and lets `checkPacketComplete()` answer anything beyond it; `ProtocolSession` says in its
header that it stays within it.

### State and actions against the code

**TcpServer.** `fdTable` is the kernel's descriptor table (which socket a number
names); `fdOf`, `connected` are `TcpConnection::fd_`, `connected_`; `connections` and
`protocolHandlers` are the two maps keyed by number; `interest` and `ready` are the
epoll sets; `batch` and `acceptDue` are the events of one `epoll_wait` not yet
dispatched; `backlog`, `listenReady` the listening socket; `peer`, `rx` what clients did;
`pc` is where the thread is, `newConn` the local `conn` of `handleAccept`. Actions:
`Wait`, `EndOfBatch`, `LoopExit` (eventLoop), `DispatchListen/Nothing/Error`,
`ReadMessage` and `ReadEnd` (handleRead to its end, with the callbacks it runs),
`AcceptDone`, `RejectAtLimit`, `SetupFails`, `AcceptConnection`, `InsertConnection`,
`ConnectionCallback` (one iteration of handleAccept in the steps a signal can come
between), `SignalStops`, `SignalIgnored`, and the clients' `Connect`, `PeerSend`,
`PeerFin`, `PeerReset`. A step is atomic where no other actor can observe its middle;
a signal inside a map operation is undefined behaviour and is listed as a hazard
instead. Events of a batch are dispatched in any order, which covers the order in
which epoll reports them.

**TcpStream.** `sent`/`taken`/`handled` count segments that arrived, were read, and
packets consumed; a read that takes the input over `InputCap` has spilled (`Spilled`), and whether a
whole packet is found after that is left open (`PacketFound`); `edge`, `pc` the event; `produced`, `txq`, `outbuf`, `received` follow
the units of replies; `sockErr` is what `write(2)` meets after a reset. `Send` is
`TcpConnection::send()` with its partial write and EAGAIN, `SendFails`/`SendKills` its
errors.

**Buffer.** `cells`, `capacity`, `size`, `readIndex`, `writeIndex` are the vector's storage
and the two indexes; `usage` says whether it is an input buffer (filled by readFromFd) or
an output buffer or reply (filled by appends), the two uses the program has.

**ProtocolSession.** `state`, `authData`, `username`, `database`, `seqId` are the fields of
`Session`; `requests`, `read`, `part`, `consumed`, `framed` describe the input buffer as
packets: how many are whole in it, whether a part of the next is, how many are behind the
read index and whether that index is at a packet's first byte; `replies` what
`sendResponse()` was given; `fate` whether the connection is open, closed by the server,
or the process terminated. A text that took in bytes of other packets may parse as any of `Joined`. `Event` is a read event followed by one `handleData()`.

**Parser.** `pc` is the place in a statement function. The six functions are tables
(`SelectStatement`, ...), sets of rows: a place, the tokens consumed there and where they
lead, and what happens at any other. `stack` holds the activations of `parseBinaryExpression()`. `cur`
and `left` are the current token and what the text may still hold.

**Lexer, Query.** A text is a sequence of characters, in which a whole word is one element and
so is a run of digits; `NextTokenAt(text, from)` is `nextToken()` with `ch_` at `from`: white
space, at most one comment of each kind in the code's order, the call to itself behind dashes,
then the longest number, string, word or operator. Loops of the C++ are the first position where
they stop. In `Query`, `text` is `input_` and `token` is `current_token_` with the positions it was
read from; `cur` of `Parser` must be its type.

**Response, StatementReply.** A stream is a sequence of bytes and of texts; a text is an identity
and its true length, its characters are never looked at, so that lengths of 2^24 bytes cost
nothing. Every `encode()` is an operator that gives the payload, beside it what its
`getPayloadLength()` gives. `ReadReply` is the client: the repository's own `decode()`,
`readHeader()`, `readLenencInt()` and `identifyPacketType()` where it has them, the MySQL protocol's
rule for a result set where it has none (those are marked external in the map).

**Storage.** `databases` (tables with columns, rows, next number), `current` (database of
each session), `reply` (the packets of the last answer: OK with its insert id and names, ERR with
its code, or the columns and rows of a result set). One action per executor and outcome. A
condition is the sequence of its nodes, operands first, and `Evaluation` gives every node what
`evaluate()` and `evaluateValue()` make of it, so that the recursion of the C++ is a recursive function. A
statement is an AST: the executors are modelled for all that their interface takes, although
today's parser (finding `parser_insert`) hands out no statement with an expression in it,
so that INSERT, column lists and WHERE reach them from no client. A number of a statement is any
natural; `IntMax` and `LongMax` are where `stoi()` and `stoll()` give up: a literal beyond the second
makes the evaluator throw, and a value beyond it stays text.

## 3. Runs

Every passing run has a mutant per property in `PROJECT.json`.

| Run | Module, cfg | Bounds | Distinct states | Properties |
|---|---|---|---|---|
| `server` | MCTcpServer, TcpServer.cfg | 3 clients that connect in order, 3 numbers, limit 2 | 239 293 | TypeOK, OwnsDescriptor, NoStaleEvent, SessionIsolation, EpollMatchesConnections, AdmissionBound, StopClosesAllButOne, StaleEntryIsFree, ResetIsNoticed, StopEndsLoop, ArrivalIsTaken |
| `stream` | MCTcpStream, TcpStream.cfg | 3 requests of 2 segments, replies of 2 units, readv of 3, input buffer of 4 segments, send buffer of 3 | 5 044 | TypeOK, NothingLostOrRepeated, BufferedInOrder, InOrderWhileUnbuffered, NoStallInLockstep, KilledOnlyAfterFin |
| `buffer` | MCBuffer, Buffer.cfg | capacity 4 at first, spill 3, 11 bytes | 408 | TypeOK, IndexesInBounds, FirstBytesIntact |
| `session` | MCProtocolSession, ProtocolSession.cfg | 3 packets, 2 challenges, 2 databases, 3 users, 2 passwords, request id 255, 0 or 2 rows | 174 454 | TypeOK, LoginVerdict, NothingBeforeLogin, RepliesInOrder, LockstepAnswered, SwallowedByTextOnly, DatabaseAsNamed |
| `parser` | MCParser, Parser.cfg | up to 10 tokens chosen freely; or the tokens of a text: all of up to 3 of 20 kinds of character, up to 6 of the comment characters and of the string characters, SHOW before any 3, and six statements | 694 466 | TypeOK, MaximalMunch, OnlyBlanksSkipped, TreeFollowsPrecedence, ParserEnds |
| `storage` | MCStorage, Storage.cfg | 2 sessions, 1 table name in 3 databases, 3 schemas, 2 rows, `IntMax` 8, `LongMax` 9, 7 INSERTs, 13 SELECTs with 10 conditions, strings of 0, 1 and 8 388 603 bytes, names of 1 to 65 536 bytes, sequence id 254 | 66 635 | TypeOK, RowsFitSchema, FoundByItsLiteral, SelectsAsSql, ReplyReadBack, DeclaredLengths, ImplementsCatalog |
| `socket_leak` | MCTcpServer, TcpServerSocketLeak.cfg | 2 clients | violation | ClosedGivesSocketBack |
| `stream_output` | MCTcpStream, TcpStreamOutput.cfg | 1 request, reply of 5 units, send buffer of 3 | violation | OutputBufferDrains |
| `buffer_input` | MCBuffer, BufferInput.cfg | as `buffer`, input only | violation | UnreadIntact |
| `session_handshake` | MCProtocolSession, ProtocolSessionHandshake.cfg | 1 packet | violation | BadHandshakeAnswered |
| `parser_comments` | MCParser, ParserComments.cfg | four statements behind two comments | violation | CommentsSkipped |
| `parser_insert` | MCParser, ParserInsert.cfg | the three documented INSERTs, of up to 24 elements | violation | InsertAccepted |

### What they show

- `server`: with a QUIT, a reset or a FIN freeing a number and an accept in the same
  batch taking it again, and a signal at any step, **no connection acts on another's
  socket (`OwnsDescriptor`), gets another's event (`NoStaleEvent`) or another's handler
  (`SessionIsolation`)**. Three clients are the least that
  let a number be reused while another connection stays in the batch. There is one
  number more than the limit, so that the limit, not the descriptors, must hold the third back.
  **A `stop()` at the worst place leaves at most the one connection open that
  `handleAccept()` was inserting (`StopClosesAllButOne`)**, and entries of `connections_` whose
  connection has ended never stand in anyone's way: number and handler are free for the next
  (`StaleEntryIsFree`). They do count, though: see below.
  **Edges are enough**: a reset is noticed although epoll tells it once and
  an older event of the same connection may still be in the batch (`ResetIsNoticed`); after `stop()`
  the loop ends from any point (`StopEndsLoop`); queued clients are taken (`ArrivalIsTaken`). The last
  is stated where there are as many numbers as clients, since lost numbers never come back; the run is
  of that kind, so that `accept` failing for want of a number (in `AcceptDone`) is not reached in it.
  The clients are alike, and connect in the order of their names: symmetry would be unsound with liveness.
- `stream`: bytes are conserved through partial writes and EAGAIN; a client in lockstep
  is never left waiting **while its whole input fits the input buffer** (the third packet of the run does
  not, and may stay unanswered); SIGPIPE can kill the process only through a client that sent a
  FIN and then a reset. The request length (2) against the readv (3) makes reads end
  inside packets and packets share a read; the send buffer (3) against replies (2) makes
  writes partial.
- `buffer`: the indexes never leave the allocation, in spite of `size()` and `capacity()`
  drifting apart; output buffers and replies keep their bytes, an input buffer the first
  `Initial` of its connection. Three growths fit in 11 bytes.
- `session`: a login succeeds exactly with the account's password and the challenge that
  went out (the code generates two and keeps the second); a client that waits for each
  reply **and sends no connect attributes** is answered each time, as long as the input buffer holds all
  it sends; attributes stay in the buffer and pass for the next packet (handshake.cpp:225), and the
  model follows such a session no further. What a sender-ahead loses, it loses to a COM_QUERY or
  COM_INIT_DB. Request id 255 makes the byte wrap within a reply.
- `parser`: `parse()` returns on every text, since each loop leaves on a token it does not
  know and the lexer repeats EOF; precedence climbing with `precedence + 1` groups
  operators as their precedences define. Ten tokens hold every statement form with two
  nested operators or a parenthesis in it. On texts, **each token is the longest the lexical
  grammar has at its place (`MaximalMunch`), and only white space and whole comments lie between
  tokens (`OnlyBlanksSkipped`)**, also where a quote, an escape or a comment is cut short by the end
  of the text or by a NUL, which ends the text. Comments in a row are another matter: see finding
  `parser_comments`. An unterminated string is a string. The texts are chosen to have every pair and triple of
  character kinds, and six characters where comments and strings need more: an opening, a body
  that looks like a closing, a closing, and something behind.
- `storage`: two sessions on shared tables. NOT NULL holds on every path a value can come
  from. **Which literals find an inserted row (`FoundByItsLiteral`)**, the literals taken from the statement:
  the string, in any column; the number in an INT that can hold it, and in a BIGINT if no INT could;
  not the number in a BIGINT otherwise, a FLOAT or a DOUBLE, whose stored type is another than the
  literal's (value.cpp:38), not a number in a BOOLEAN or VARCHAR, which keep its text
  (command_handler.cpp:55-56), and not the number of an INT's default, which is kept as text too
  (:533-534). **A SELECT returns the rows
  that the standard's three-valued logic selects (`SelectsAsSql`)**, numbers compared by value, although
  `evaluate()` counts a comparison with NULL as false and skips the right side of AND and OR. This is of
  rows in which all that is compared has one type, or is an integer in its smallest type
  (`AllComparable`): `id = 2` misses a DOUBLE 2, and `id > 100` selects it. Each statement
  is a step of `Catalog`: refused with nothing changed, a read, or one table of the session's own
  database made, dropped or longer by one row. **A client reads from the bytes of every reply
  just what was put into it (`ReplyReadBack`)**: names, types, flags, NULLs, empty strings and
  values, with the lengths at the boundaries of the encodings (0, 250, 251, 65 536, 2^24). The property also
  says when it cannot: a payload of 2^24 - 1 bytes or more is sent with a header that has the low
  24 bits of its length (packet.cpp does not split); a result set without columns (a table
  created with none) is a column count of 0, which means OK; and a client that took up
  CLIENT_DEPRECATE_EOF, which the handshake offers, expects no EOF packet behind the columns.
  `DeclaredLengths` relates `getPayloadLength()` to `encode()`: right, but for columns with a
  name of 251 bytes or more. The sequence id wraps within a reply (`FirstId` 254).

### Disagreements found

1. `socket_leak`: a client that closes leaves its descriptor open for ever
   (`handleClose()` clears `connected_` before `close()` tests it).
2. `stream_output`: what a partial write puts in the output buffer is never sent; WRITE
   is never registered with epoll.
3. `buffer_input`: a read over the capacity of an input buffer loses the bytes read before.
4. `session_handshake`: a login packet cut short ends the process; the error packet the
   code has for it is unreachable.
5. `parser_insert`: INSERT, column lists and WHERE are refused on every text. With -1 in
   place of 0 for "no operator" in `getPrecedence()` the run finds no violation, and `parser`
   still passes.
6. `parser_comments`: of two comments in a row the second may be read as tokens, although
   SQL_PARSER_SUMMARY.md:24 has all three kinds supported: `skipComment()` looks for each kind once,
   so that a `#` or `/*` behind a `#` comment, and a `/*` behind a block comment, are not skipped.

Others are in the hazards list with the reason no run refutes them: what the repository says of
them, if anything, is not contradicted by the model as it stands. One worth naming: after QUIT the
closed connection keeps its entry in `connections_` until its number is reused, so "Max connections reached"
(server.cpp:128-129) can be logged with fewer clients connected. The numbers of such
entries are free but, since the check comes before the new number takes its entry over, once
`MaxConnections` of them are stale and no lower number is free nobody is admitted again.
The OK packet of an INSERT has its 1 as insert id, although the comment above it says
affected_rows=1 (command_handler.cpp:479-480): `Ok(1, {})` in `Storage` has it, and a property that
demanded the comment's value would restate one line.

## 4. Fairness

- `TcpServer!FairSpec`: `WF_vars(Loop)`. The loop thread is never blocked except in
  `epoll_wait`, which returns while the ready list is not empty; `Wait` is enabled only
  then. Clients and the signal are not fair: they may stop at any moment.
- `TcpStream!FairSpec`: the loop, for the same reason, and `PeerRead`: the finding is about
  a client that does read what reaches it.
- `MCParser!MCSpec`: weak fairness of the parser's step (`Parser!FairSpec` has the same): one
  thread runs `parse()`.
- The rest are safety runs. `CHECK_DEADLOCK FALSE` where the system stops: the server
  exits, the process terminates, a client sends nothing more, a buffer's bound is reached,
  `parse()` returns. `storage` is checked for deadlock.

## 5. Bounds

All bounds are CONSTANTS: `MaxConnections` and `Fd` are the code's own limits at a small
size; `Requests`, `MaxRequests`, `MaxBytes`, `MaxRows`, `MaxNext`, `MaxTokens` stop counters
that the code leaves open; `Initial`, `InputCap`, `Extra`, `ReadMax`, `TxCap`, `IntMax`, `LongMax` are sizes of the code
or the kernel (4096, 64 KB, 2^31 - 1, 2^63 - 1) scaled down, keeping their order. `Texts` are the queries, of at most
`MaxTokens` characters; `Lengths`, `NameTexts`, `ErrorTexts` and `FirstId` are the lengths of strings, names and error texts
and the first sequence id, at their true sizes. A single delivery of a
signal is modelled; a second finds `running_` false. In `ProtocolSession` a login is a
client's first packet or none, and `MaxRequests` packets are no more than the 4096 bytes of
`input_buffer_` hold.

## 6. Proofs

All are checked by tlapm with SMT, Zenon and PTL; nothing is assumed but the named ASSUMEs
of the modules (`ConnAssumption`: NoConn is no connection; `FdAssumption`: numbers are
naturals, finitely many; `MaxConnectionsAssumption`: positive; `BufferAssumption`: sizes are
naturals; `StorageAssumption`: no database is named by the empty name, bounds are naturals;
`StatementAssumption`: what the parser and the clients make of a column, a value and a condition;
`NumberAssumption`: the bound on auto-increment numbers stays below `INT32_MAX`;
`SessionAssumption`: there is a challenge, no database has the two special names, sequence ids are bytes;
`StreamAssumption`: lengths, readv and send buffer are positive; `ParserAssumption`: a query has
room for a token; `QueryAssumption`: texts are sequences of characters, of at most `MaxTokens`;
`ReplyAssumption`: a query is one packet, so that no string, name or list of columns in it has 2^24
bytes, names are not empty, and every error has a wording), which TLC evaluates in the runs.

`TcpServerProofs`, for any connections, numbers and limit:

- `TypeCorrect`: `Spec => []TypeOK`.
- `OwnershipSafe`: `Spec => []OwnsDescriptor`. Inductive together with `TypeOK`:
  `CloseConnections` frees exactly the numbers of the connections whose `connected_` it
  clears (lemma `CloseConnectionsOwns`), and `accept` gives out a number that nobody has
  (`AcceptOwns`), so that no two connected connections share one.
- `AdmissionSafe`: `Spec => []AdmissionBound`. Not inductive alone, since the check and the
  insertion are different steps; `AdmissionInv` adds that while `pc = "insert"` there is room
  for one entry. Lemmas relate `ConnectionCount` to the set of entries (`InsertAdmission`,
  `FewerEntries`) with the finite-set theorems.

- `IsolationSafe`: `Spec => []SessionIsolation`. Not inductive alone, for two reasons. An accept
  sets `connected_`, which would bring an entry of `connections_` back to life if it named the
  connection already: `FreshInv` says that what the backlog holds the server has never met, and
  that the backlog holds it once. And the callback files a handler under `conn->getFd()`, which
  must not be another connection's number: `HandlerInv` says that between the accept and the
  callback the new connection still owns its number (by `OwnsDescriptor` nobody else does), or
  `stop()` has interrupted the accept and the number is -1. `HandlerStays` covers the steps that
  only close connections or erase entries.

The rest of `TcpServerProofs` has one invariant, `EInv`, for four theorems:

- `EventsSafe`: `Spec => []NoStaleEvent`. An event names a number, and numbers are reused while
  the batch is being dispatched. `EventInv` says that while the server runs the entry under an
  event's number is that of the open connection that caused it, one event to a number: only the
  event's own dispatch can free the number, and `accept` finds only free ones (`AcceptEvents`).
  `stop()` empties the entries instead, and `StoppedInv` says that nothing is accepted after it.
- `EpollSafe`: `Spec => []EpollMatchesConnections`. `WatchInv` says it number by number, with the
  number being accepted (`InsertInv`); `LiveOwns` turns numbers into connections, since a live
  connection has one entry, under the number it holds.
- `StaleEntriesSafe`: `Spec => []StaleEntryIsFree`. Only the event's own dispatch makes an entry stale,
  and it frees the number in the same step; only `accept` takes the number again, and then the
  insertion is what comes next.
- `StopSafe`: `Spec => []StopClosesAllButOne`. `OpenInv` says that while the server runs every open
  connection that has not reset is in `connections_`, or is the one being accepted: the error
  events, which erase an entry and leave its connection open, come from resets only.

`BufferProofs`, for any initial capacity and spill size:

- `TypeCorrect`, `BoundsSafe` (`[]IndexesInBounds`), `ContentsSafe` (`[]FirstBytesIntact`). `IInv`
  strengthens them: `StoredIntact` speaks of every byte ever stored where the property speaks
  of the unread ones, an output buffer has `size = writeIndex` (so that what reserve() moves is
  all there is), and the capacity never falls below `Initial` (so that an input buffer's first
  `Initial` bytes are never moved).

`StorageProofs`, for any sessions, names, schemas and statements:

- `TypeCorrect` (`[]TypeOK`) and `RowsSafe` (`[]RowsFitSchema`). The invariant is `SInv`: `Shape`
  says what `TypeOK` leaves open, that the databases are maps of maps of records with the three
  fields, and `AllFit` takes `RowsFitSchema` together with the types of the stored values
  (`ValueComesFrom`: whichever of the four ways a value came, a column that is no BIGINT, FLOAT or
  DOUBLE gets NULL, a string or an int32_t). `StoreKeeps` and `StoreFits` carry it through the
  executors that change one table.
- `Implements`: `Spec => ImplementsCatalog`, the refinement. Each action's `...IsCatalogs` lemma
  gives the step of `Catalog` it is, by what it does to the rows of the tables that exist;
  `StepIsCatalogs` combines them, and every other step leaves `Catalog`'s variables alone or is a refusal.

- `SelectionSafe`: `Spec => []SelectsAsSql`, for conditions of any depth on rows whose values are
  `AllComparable` (`ComparisonAgrees` is where that is used: there the code's order is that of the
  numbers). Two recursive functions over
  the nodes of a condition are compared. That they satisfy their own equations
  (`EvaluationUnfolds`, `VerdictUnfolds`), and that they agree wherever nothing is thrown
  (`ConditionAgrees`), is argued by the first node at which it would fail (`FirstExists`, from the
  library's theorem that strict inclusion of finite sets is well-founded): operands come
  before their node. The relation that goes through is that a result is true exactly where the
  verdict is 2, so that false stands for both false and unknown; AND and OR, which take the least
  and the greatest verdict, do not tell these two apart.
- `LookupSafe`: `Spec => FoundByItsLiteral`, an action property. `InsertAppends`: an INSERT's table is longer
  by its row. `ValueSource`: a value of it was given, was numbered, or is the default. `LiteralFinds`:
  `WHERE column = literal` is true of a row exactly where it holds what `evaluateLiteral()` makes of the
  literal; and `GivenIsFound` compares that with what `expressionToValue()` stored, type by type.

`ReplyProofs`, for any statements, names and lengths:

- `LengthsSafe`: `Spec => []DeclaredLengths`. `RInv` adds to `SInv` that every stored value has a
  text (`StoredWell`) and that a reply is one of three kinds whose names, columns and rows have one
  each (`Told`), so that what is sent is in `Replies`. The rest is arithmetic over sequences: a size is a
  recursive sum (`SumsAre`, by induction over positions as `Induct` has it), it adds up over
  concatenation (`TotalConcat`, `SizeConcat`) and over `FlattenSeq` (`SizeOfFlat`); `UintBytes`
  and `LenencIntBytes` say what a number takes, and `OkSize`, `ErrSize`, `EofSize`, `ColumnSize` and
  `RowSize` compare each encoder with its `getPayloadLength()`. `PartsAre` finds the payload of a position
  in the five parts of a result set.
- `ReadBackSafe`: `Spec => []ReplyReadBack`, from the same `RInv`; `SentIsReadable` says that what it allows
  to be sent is in `ReadableReplies`, and `ReplyIsRead` is about these alone. Its lemmas go up from the bytes.
  `Written(s, i, w)` says that as far as s goes w stands at i, so that one lemma speaks of a
  payload that is whole and of one that was cut. Numbers are read digit by digit to base 256 (`UintRead`,
  `LenencIntRead`), then fields (`FieldRead`, `FieldsRead`), rows and columns (`RowRead`, `ColumnRead`: a whole
  column is read as itself, a shorter beginning of one as nothing). `PacketsRead` follows
  `readHeader()` packet by packet: the boundaries stay right up to the first payload of 2^24 - 1 bytes or more; its three
  bytes of length are then those of a shorter one, and what is read there is `Lost`, or
  ends inside of the payload and has more behind it (`CutAt`). `RowSetRead` needs that no row is taken for the
  EOF behind the rows: one that begins with 0xFE declares a text with a length of nine bytes, and
  is longer than an EOF may be (`RowIsNoEof`). `PayloadsCut` and `RowSetCut` show that a cut payload
  is never read as another reply: it leaves a column without an end, a row without its texts, or bytes behind the last packet.

`SessionProofs`, for any challenges, accounts, databases, sequence ids and number of packets:

- A read event (`Event`) has many outcomes but only three forms (`Handled`): it ends the session in
  silence, it answers a login, or it answers a command. `EventDoes` shows this once, outcome by
  outcome, and the invariants follow from the forms alone.
- `TypeCorrect` and `OrderSafe` (`[]RepliesInOrder`) from `SInv`, which adds to the types that every
  reply goes to a packet that was consumed, so that a new one is behind the others.
- `VerdictSafe` (`[]LoginVerdict`) and `LoginSafe` (`[]NothingBeforeLogin`) from `LoginInv`: what the
  session's state says of the replies given so far (refusals only before a login has succeeded, a
  success to a login from then on).
- `WaitingSafe` (`[]LockstepAnswered`, of clients without connect attributes and within the input buffer), `SwallowingSafe` (`[]SwallowedByTextOnly`) and `DatabaseSafe`
  (`[]DatabaseAsNamed`) from `WaitInv`: a client that waits has a reply to all but its last packet,
  so that the input buffer never holds more than the packet that is handled (`OneAtATime`), and a
  handler that takes the whole buffer takes nothing but its own packet.

`StreamProofs`, for any number of packets, reply length, readv and send buffer:

- `TypeCorrect`, `KillSafe` (`[]KilledOnlyAfterFin`) and `StallSafe` (`[]NoStallInLockstep`) from
  `SInv`. `QueueInv`: every unit in the queues answers a packet that was handled, so that a client
  which has its replies has had its packets handled (`AnsweredIsHandled`). `LockstepInv`: it is
  then at most one packet ahead, and one readv of a packet's length takes all there is, while the input
  has not spilled (`InputCap`); beyond that the property, and so the theorem, promises nothing. `ErrorInv`:
  after a write that failed the loop waits, and drops the connection, before it is in a handler again.
- `NothingLost`, `PeerInOrder` and `BufferInOrder` from `OrderInv`. A write splits a reply in two
  (`WriteSplits`), and `CountsAdd` and `BufferExtends` say what appending the halves to the send buffer
  and to `output_buffer_` does to the numbers and the order of the units. `BufferedInOrder` is not
  inductive alone: a unit that is put behind others needs these to be found in `produced` (`Found`).

`ParserProofs`, for queries of any length:

- `TypeCorrect` and `TreeSafe` (`TreeFollowsPrecedence`) from `PInv`. The rows of the tables are looked
  at once (`RowFits`: none leads into the middle of an expression). Of the stack, `Taken` says what an
  activation has found out itself: its operator is at least as tight as its `prec`, its left
  operand at least as tight as the operator. `Nests` says what it tells the activation it begins
  for a right operand: look for tighter operators only. `OperandInv` says what holds of the operand
  that is handed to the innermost: with an operator read it is an atom, else no looser than `prec`
  and no looser than what follows, and what comes back to a waiting operator is tighter than it.
- `ExpressionsNeverEnd`: the finding `parser_insert` for every query. An expression, once begun, is left
  by a syntax error only: its outermost activation has precedence 0, nothing has a lower one,
  so that it takes any token for an operator (`Outer`).

`LexerProofs`, for texts of any length and every place in them:

- `TokensAreLongest` (`[]MaximalMunch`), `GapsAreBlank` (`[]OnlyBlanksSkipped`) and
  `FirstCommentIsSkipped` (`CommentsSkipped`, where only white space lies between the token and the
  one before: without that condition it is finding `parser_comments`), for queries (`QuerySpec`: the run has it, and the
  free choice of tokens, for which they say nothing). The invariant is only that the token is `Read` at some place; the
  rest is about functions of the text. The lexer's loops are firsts (`FindIs`: the first
  position that stops, and nothing before it does) or recursive functions from the right end of the
  text, and so is the grammar's `IsBlank`. `JumpExists` and `ReachExists` show for two schemes of such
  functions that there is one that satisfies its equation: if every candidate failed somewhere, take
  the last place where it does and mend it. `ReadStringIs` relates the C++ loop that jumps over `\` and what follows it to the
  grammar's rule that a quote behind an odd number of backslashes is escaped. `BlanksBefore` gathers comments
  and white space in the order `skipComment()` tries them, and across the call of `nextToken()` to
  itself behind dashes; `TokenMunches` takes the kinds of tokens in turn.
- `QueryIsParsed`: a query's parser is a parser, so what `ParserProofs` shows of free tokens holds of
  the tokens of texts.

Only model-checked: liveness, `ParserEnds` among it (out of the prover's reach), and the runs that show a
property violated.

## 7. Not modelled

- The kqueue loop: the BSD and macOS implementation of the interface whose Linux one is modelled. The legacy `EpollServer`:
  nothing constructs one. The `Logger`: wording; its mutex under the signal handler is a hazard.
  Socket options.
- Of the lexer, `peekToken()` and `tokenize()` (no caller outside the tests), line and column
  numbers, and the spelling of words: characters are told apart by kind.
- Of the packets, the characters of texts and the wording of errors (their lengths are kept). A session that has lost its
  packet boundaries is followed no further (`framed`).
- `TcpConnection::handleWrite()` and `handleError()`, `Database` and `StorageEngine`
  operations without callers.
- Numerals with a decimal point, OFFSET (the parser never sets one).
- Undefined behaviour inside a library call interrupted by the signal.

## 8. Plan

Order of work: lifecycle first (it decides whose bytes are whose), then bytes, session,
storage, parser, and then the two conversions at the ends, texts into tokens and replies into
bytes. Done so far: sections 2, 3 and 6. Next:

1. Models: an abstract channel that `TcpStream` implements for clients in lockstep; the frames
   of `ProtocolSession` as packets that `TcpStream` carries; numerals with a decimal point in `Storage`.
2. Proofs: the refinement of that channel, step by step, from `SInv` of `StreamProofs`.
