------------------------------ MODULE Response -------------------------------
(***************************************************************************)
(* The packets of a reply (response.cpp), their header (packet.cpp), the   *)
(* length-encoded integers and strings they are made of (buffer.h), and a  *)
(* client that reads them.                                                 *)
(*                                                                         *)
(* A stream is a sequence of bytes and of texts: a text is an identity and *)
(* a length, its characters are never looked at. Lengths have their true   *)
(* size, so that the boundaries of the encodings (251, 2^16, 2^24) are     *)
(* where they are in the code. Lengths and counts are less than 2^31.      *)
(*                                                                         *)
(* A reply is [kind |-> "ok", insertId, info], [kind |-> "err", code,      *)
(* message] or [kind |-> "rows", columns, rows]; info and message are      *)
(* sequences of texts, a row is a sequence of texts and NullValue.         *)
(***************************************************************************)
EXTENDS Integers, Sequences, SequencesExt

-----------------------------------------------------------------------------
(* Streams *)

Byte(b) == [id |-> b, len |-> 1]
IsByte(x) == x.id < 256
EmptyText == [id |-> 256, len |-> 0]
\* A text: n is the number it is known by.
TextOf(n, len) == IF len = 0 THEN EmptyText ELSE [id |-> 256 + n, len |-> len]

\* writeString(): an empty string leaves nothing in the stream.
WriteString(t) == IF t.len = 0 THEN <<>> ELSE <<t>>
WriteStrings(ts) == FlattenSeq([k \in DOMAIN ts |-> WriteString(ts[k])])

\* What the first numbers of a sequence add up to, and all of them.
Sums(ns) == LET sum[k \in 0 .. Len(ns)] == IF k = 0 THEN 0 ELSE sum[k - 1] + ns[k] IN sum
Total(ns) == Sums(ns)[Len(ns)]

Lens(stream) == [k \in DOMAIN stream |-> stream[k].len]
Size(stream) == Total(Lens(stream))

\* writeUint16(), writeUint32() and the three bytes of a header: little-endian.
WriteUint(n, width) == [k \in 1 .. width |-> Byte((n \div 256 ^ (k - 1)) % 256)]

\* writeLenencInt(). (Mutant: one byte up to 0xFB, which means NULL.)
WriteLenencIntOffByOne(n) ==
  CASE n <= 251 -> <<Byte(n)>>
    [] n > 251 /\ n < 65536 -> <<Byte(252)>> \o WriteUint(n, 2)
    [] n >= 65536 /\ n < 2 ^ 24 -> <<Byte(253)>> \o WriteUint(n, 3)
    [] OTHER -> <<Byte(254)>> \o WriteUint(n, 4) \o WriteUint(0, 4)
WriteLenencInt(n) ==
  CASE n < 251 -> <<Byte(n)>>
    [] n >= 251 /\ n < 65536 -> <<Byte(252)>> \o WriteUint(n, 2)
    [] n >= 65536 /\ n < 2 ^ 24 -> <<Byte(253)>> \o WriteUint(n, 3)
    [] OTHER -> <<Byte(254)>> \o WriteUint(n, 4) \o WriteUint(0, 4)

\* getLenencIntSize(). (Mutant: three bytes are enough below 2^24.)
LenencIntSizeShort(n) ==
  IF n < 251 THEN 1 ELSE IF n < 2 ^ 24 THEN 3 ELSE 9
LenencIntSize(n) ==
  IF n < 251 THEN 1 ELSE IF n < 65536 THEN 3 ELSE IF n < 2 ^ 24 THEN 4 ELSE 9

WriteLenencString(t) == WriteLenencInt(t.len) \o WriteString(t)

-----------------------------------------------------------------------------
(* Packets: what each encode() writes behind the header, and the length its *)
(* getPayloadLength() gives                                                  *)

Autocommit == 2    \* SERVER_STATUS_AUTOCOMMIT

\* affected_rows_ is 0 in every OK packet the handlers send; so is warnings_.
OkPayload(r) ==
  <<Byte(0)>> \o WriteLenencInt(0) \o WriteLenencInt(r.insertId)
  \o WriteUint(Autocommit, 2) \o WriteUint(0, 2) \o WriteStrings(r.info)
OkLength(r) == 1 + LenencIntSize(0) + LenencIntSize(r.insertId) + 2 + 2 + Size(r.info)

\* The SQLSTATE has five characters, which the code determines.
SqlState(code) == TextOf(code, 5)
ErrPayload(r) ==
  <<Byte(255)>> \o WriteUint(r.code, 2) \o <<Byte(35), SqlState(r.code)>>
  \o WriteStrings(r.message)
ErrLength(r) == 1 + 2 + 1 + 5 + Size(r.message)

EofPayload == <<Byte(254)>> \o WriteUint(0, 2) \o WriteUint(Autocommit, 2)
EofLength == 1 + 2 + 2

\* dataTypeToMySQLType() and getColumnLength().
MySQLType(type) ==
  CASE type = "INT" -> 3 [] type = "BIGINT" -> 8 [] type = "FLOAT" -> 4
    [] type = "DOUBLE" -> 5 [] type = "BOOLEAN" -> 1 [] type \in {"VARCHAR", "TEXT"} -> 254
ColumnLength(type) ==
  CASE type = "INT" -> 11 [] type = "BIGINT" -> 20 [] type = "FLOAT" -> 12
    [] type = "DOUBLE" -> 22 [] type = "BOOLEAN" -> 1 [] type = "VARCHAR" -> 255
    [] type = "TEXT" -> 65535

\* fromColumnDef(): NOT_NULL_FLAG, PRI_KEY_FLAG, AUTO_INCREMENT_FLAG.
ColumnFlags(c) ==
  (IF c.not_null THEN 1 ELSE 0) + (IF c.primary_key THEN 2 ELSE 0)
  + (IF c.auto_increment THEN 512 ELSE 0)

\* Of a column: its name, its table's and its database's, all texts, type and flags.
Catalogue == TextOf(0, 3)    \* "def"
ColumnNames(c) == <<Catalogue, c.db, c.table, c.table, c.name, c.name>>
ColumnPayload(c) ==
  FlattenSeq([i \in 1 .. 6 |-> WriteLenencString(ColumnNames(c)[i])])
  \o <<Byte(12)>> \o WriteUint(33, 2) \o WriteUint(ColumnLength(c.type), 4)
  \o <<Byte(MySQLType(c.type))>> \o WriteUint(ColumnFlags(c), 2) \o <<Byte(0)>> \o WriteUint(0, 2)
ColumnLengthDeclared(c) == Size(ColumnNames(c)) + 6 + 13

\* TextResultRowPacket: NULL is 0xFB, everything else its text.
NullValue == [id |-> -1, len |-> 0]
RowPayload(row) ==
  FlattenSeq([i \in DOMAIN row |->
    IF row[i] = NullValue THEN <<Byte(251)>> ELSE WriteLenencString(row[i])])
RowLength(row) ==
  Total([i \in DOMAIN row |->
    IF row[i] = NullValue THEN 1 ELSE LenencIntSize(row[i].len) + row[i].len])

\* The packets executeSelect() or another handler puts into one response.
Payloads(r) ==
  CASE r.kind = "ok" -> <<OkPayload(r)>>
    [] r.kind = "err" -> <<ErrPayload(r)>>
    [] r.kind = "rows" ->
         <<WriteLenencInt(Len(r.columns))>>
         \o [i \in DOMAIN r.columns |-> ColumnPayload(r.columns[i])] \o <<EofPayload>>
         \o [i \in DOMAIN r.rows |-> RowPayload(r.rows[i])] \o <<EofPayload>>

\* getPayloadLength() of each of them; of a column count executeSelect() takes the size.
PayloadLengths(r) ==
  CASE r.kind = "ok" -> <<OkLength(r)>>
    [] r.kind = "err" -> <<ErrLength(r)>>
    [] r.kind = "rows" ->
         <<Size(WriteLenencInt(Len(r.columns)))>>
         \o [i \in DOMAIN r.columns |-> ColumnLengthDeclared(r.columns[i])] \o <<EofLength>>
         \o [i \in DOMAIN r.rows |-> RowLength(r.rows[i])] \o <<EofLength>>

\* writeHeader(): the low 24 bits of the length, and the sequence id.
Packet(payload, seq) == WriteUint(Size(payload) % 2 ^ 24, 3) \o <<Byte(seq)>> \o payload

Stream(r, first) ==
  LET payloads == Payloads(r) IN
    FlattenSeq([k \in DOMAIN payloads |-> Packet(payloads[k], (first + k - 1) % 256)])

-----------------------------------------------------------------------------
(* Reading: a client, which is not part of the repository where the        *)
(* repository has no reader of a packet                                     *)

ReadUint(s, i, width) == Total([k \in 1 .. width |-> s[i + k - 1].id * 256 ^ (k - 1)])

AreBytes(s, i, n) == i + n - 1 <= Len(s) /\ \A k \in i .. i + n - 1 : IsByte(s[k])

\* readLenencInt() at i, and where it ends; -1 where it throws. (Of three bytes the code
\* leaves the order to the compiler; a client reads them in theirs.)
LenencInt(s, i) ==
  LET first == s[i].id
      width == CASE first = 252 -> 2 [] first = 253 -> 3 [] first = 254 -> 8 [] OTHER -> 0
  IN IF ~AreBytes(s, i, 1) \/ first \in {251, 255} \/ ~AreBytes(s, i, 1 + width)
     THEN [v |-> -1, next |-> i]
     ELSE [v |-> IF width = 0 THEN first ELSE ReadUint(s, i + 1, IF width = 8 THEN 4 ELSE width),
           next |-> i + 1 + width]

\* A field at i: NULL, or a length and a text of exactly that length.
NoField == [id |-> -2, len |-> 0]
FieldAt(s, i) ==
  IF i > Len(s) THEN [v |-> NoField, next |-> i]
  ELSE IF s[i].id = 251 THEN [v |-> NullValue, next |-> i + 1]
  ELSE LET size == LenencInt(s, i) IN
         IF size.v = 0 THEN [v |-> EmptyText, next |-> size.next]
         ELSE IF size.v > 0 /\ size.next <= Len(s) /\ ~IsByte(s[size.next])
                 /\ s[size.next].len = size.v
         THEN [v |-> s[size.next], next |-> size.next + 1]
         ELSE [v |-> NoField, next |-> i]

\* n fields from the beginning of s, and where they end.
Fields(s, n) ==
  LET start[k \in 1 .. n + 1] == IF k = 1 THEN 1 ELSE FieldAt(s, start[k - 1]).next
  IN [values |-> [k \in 1 .. n |-> FieldAt(s, start[k]).v], next |-> start[n + 1]]

Lost == [kind |-> "lost"]

\* How many elements of s, from its first on, take n bytes; -1 if that is inside of a text
\* or behind s.
Taking(s, n) ==
  LET sums == Sums(Lens(s))
  IN IF \E k \in 0 .. Len(s) : sums[k] = n THEN CHOOSE k \in 0 .. Len(s) : sums[k] = n ELSE -1

\* readHeader() and the payload behind it; a full packet goes on in the next one, which
\* no reply means.
PacketAt(s, i) ==
  LET size == ReadUint(s, i, 3)
      behind == SubSeq(s, i + 4, Len(s))
      n == Taking(behind, size)
  IN IF AreBytes(s, i, 4) /\ size < 2 ^ 24 - 1 /\ n >= 0
     THEN [packet |-> [seq |-> s[i + 3].id, payload |-> SubSeq(behind, 1, n)], next |-> i + 4 + n]
     ELSE [packet |-> Lost, next |-> Len(s) + 1]

\* Packet by packet to the end of the stream; a packet has at least the four bytes of its header.
MostPackets(stream) == Len(stream) \div 4 + 1
Packets(stream) ==
  LET read[k \in 0 .. MostPackets(stream)] ==
        IF k = 0 THEN [packets |-> <<>>, next |-> 1]
        ELSE LET done == read[k - 1]
                 p == PacketAt(stream, done.next)
             IN IF done.next > Len(stream) THEN done
                ELSE [packets |-> Append(done.packets, p.packet), next |-> p.next]
  IN read[MostPackets(stream)].packets

\* identifyPacketType(): 0xFE begins an EOF packet or a long row.
PacketType(s) ==
  CASE s = <<>> -> "UNKNOWN"
    [] s # <<>> /\ s[1] = Byte(0) -> "OK"
    [] s # <<>> /\ s[1] = Byte(255) -> "ERR"
    [] s # <<>> /\ s[1] = Byte(254) /\ Size(s) < 9 -> "EOF"
    [] OTHER -> "UNKNOWN"

\* OkPacket::decode() and ErrPacket::decode().
ReadOk(s) ==
  LET affected == LenencInt(s, 2)
      insertId == LenencInt(s, affected.next)
  IN IF Len(s) < 7 \/ affected.v < 0 \/ insertId.v < 0 \/ ~AreBytes(s, insertId.next, 4) THEN Lost
     ELSE [kind |-> "ok", insertId |-> insertId.v,
           info |-> SubSeq(s, insertId.next + 4, Len(s))]
ReadErr(s) ==
  IF ~AreBytes(s, 1, 4) \/ Len(s) < 5 THEN Lost
  ELSE [kind |-> "err", code |-> ReadUint(s, 2, 2), message |-> SubSeq(s, 6, Len(s))]

Types == {"INT", "BIGINT", "FLOAT", "DOUBLE", "BOOLEAN", "VARCHAR", "TEXT"}
ReadColumn(s) ==
  LET names == Fields(s, 6)
      i == names.next    \* the byte 0x0C; type and flags are 7 and 8 bytes behind it
      types == {t \in Types : /\ MySQLType(t) = s[i + 7].id
                              /\ ColumnLength(t) = ReadUint(s, i + 3, 4)}
      flags == ReadUint(s, i + 8, 2)
  IN IF Len(s) # i + 12 \/ ~AreBytes(s, i, 13) \/ NoField \in {names.values[k] : k \in 1 .. 6}
        \/ types = {} THEN Lost
     ELSE [db |-> names.values[2], table |-> names.values[3], name |-> names.values[5],
           type |-> CHOOSE t \in types : TRUE, not_null |-> flags % 2 = 1,
           primary_key |-> (flags \div 2) % 2 = 1, auto_increment |-> flags >= 512]

IsRow(s, row) == row.next = Len(s) + 1 /\ NoField \notin Range(row.values)

\* A result set: the number of columns, the columns, an EOF unless the client negotiated
\* CLIENT_DEPRECATE_EOF, and rows up to a packet that looks like an EOF, the last one.
ReadRows(payloads, deprecate) ==
  LET n == LenencInt(payloads[1], 1).v
      first == IF deprecate THEN n + 2 ELSE n + 3    \* of the rows
      ends == {k \in first .. Len(payloads) : PacketType(payloads[k]) = "EOF"}
      columns == [k \in 1 .. n |-> ReadColumn(payloads[k + 1])]
      rows == [k \in 1 .. Len(payloads) - first |-> Fields(payloads[first + k - 1], n)]
  IN IF \/ n < 1 \/ ends # {Len(payloads)}
        \/ ~deprecate /\ PacketType(payloads[n + 2]) # "EOF"
        \/ \E k \in DOMAIN columns : columns[k] = Lost
        \/ \E k \in DOMAIN rows : ~IsRow(payloads[first + k - 1], rows[k])
     THEN Lost
     ELSE [kind |-> "rows", columns |-> columns,
           rows |-> [k \in DOMAIN rows |-> rows[k].values]]

\* The reply a client makes of a stream whose first packet it expects to have number first.
ReadReply(stream, first, deprecate) ==
  LET packets == Packets(stream)
      payloads == [k \in DOMAIN packets |-> packets[k].payload]
      type == PacketType(payloads[1])
  IN IF \E k \in DOMAIN packets : packets[k] = Lost \/ packets[k].seq # (first + k - 1) % 256
     THEN Lost
     ELSE IF type = "OK" THEN IF Len(payloads) = 1 THEN ReadOk(payloads[1]) ELSE Lost
     ELSE IF type = "ERR" THEN IF Len(payloads) = 1 THEN ReadErr(payloads[1]) ELSE Lost
     ELSE ReadRows(payloads, deprecate)

=============================================================================
