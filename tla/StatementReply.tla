---------------------------- MODULE StatementReply ----------------------------
(***************************************************************************)
(* Statements and the bytes of their replies: module Storage, whose        *)
(* replies are the packets of module Response, read back by a client.      *)
(***************************************************************************)
EXTENDS Storage, Response

CONSTANTS
  Lengths,    \* length of the string of each rank, of numerals the digits
  NameTexts,  \* texts of the names of databases, tables and columns
  ErrorTexts, \* wording of each error, with the names it mentions
  FirstId     \* sequence id of a reply's first packet

\* A query is one packet, so that no string or name, and no list of columns, is of 2^24
\* bytes or more; an error's wording, a name among other words, may be. Names are not empty,
\* and every value that can be stored has a length.
ASSUME ReplyAssumption ==
  /\ FirstId \in 0 .. 255
  /\ DOMAIN Lengths \subseteq Nat \cup {EmptyString} /\ 0 .. IntMax \subseteq DOMAIN Lengths
  /\ \A n \in DOMAIN Lengths :
       Lengths[n] \in 0 .. 2 ^ 24 - 1 /\ (n = EmptyString => Lengths[n] = 0)
  /\ \A x \in DOMAIN NameTexts : NameTexts[x] \in [id : Nat \ 0 .. 255, len : 1 .. 2 ^ 24 - 1]
  /\ Names \cup Predefined \cup Tables \subseteq DOMAIN NameTexts
  /\ \A code \in ErrorCodes : ErrorTexts[code] \in [id : Nat \ 0 .. 255, len : Nat \ {0}]
  /\ \A columns \in Schemas : Len(columns) < 2 ^ 24 /\ \A i \in DOMAIN columns :
       /\ columns[i].name \in DOMAIN NameTexts /\ columns[i].type \in Types
       /\ columns[i].default.v \in DOMAIN Lengths
  /\ \A q \in Inserts : \A i \in DOMAIN q.values :
       q.values[i].kind # "column" => q.values[i].v \in DOMAIN Lengths
  /\ \A q \in Selects :
       q.columns \in Seq(STRING) /\ Len(q.columns) < 2 ^ 24 /\ q.limit \in Int

\* Value::toString(): an integer has the text of its numeral, a float two digits behind the
\* point and a double four.
ToText(x) ==
  CASE x.index = 0 -> NullValue
    [] x.index = 3 -> TextOf(20000 + x.v, Lengths[x.v] + 3)
    [] x.index = 4 -> TextOf(30000 + x.v, Lengths[x.v] + 5)
    [] OTHER -> TextOf(x.v, Lengths[x.v])

Texts(names) == LET s == SetToSeq(names) IN [k \in DOMAIN s |-> NameTexts[s[k]]]

\* One text per code: of any length, since the wording has names in it that clients gave.
MessageOf(code) == <<ErrorTexts[code]>>

\* A column as fromColumnDef() sees it.
ColumnOf(c, from) ==
  [db |-> NameTexts[from[1]], table |-> NameTexts[from[2]], name |-> NameTexts[c.name],
   type |-> c.type, not_null |-> c.not_null, primary_key |-> c.primary_key,
   auto_increment |-> c.auto_increment]

\* The reply to the last statement as its packets have it.
Sent ==
  CASE reply.kind = "ok" ->
         [kind |-> "ok", insertId |-> reply.insertId, info |-> Texts(reply.names)]
    [] reply.kind = "err" ->
         [kind |-> "err", code |-> reply.code, message |-> MessageOf(reply.code)]
    [] reply.kind = "rows" ->
         [kind |-> "rows",
          columns |-> [i \in DOMAIN reply.columns |-> ColumnOf(reply.columns[i], reply.from)],
          rows |-> [i \in DOMAIN reply.rows |->
                      [j \in DOMAIN reply.rows[i] |-> ToText(reply.rows[i][j])]]]

-----------------------------------------------------------------------------
(* Properties *)

\* A result set has a column, and every payload fits one packet: neither is looked at.
Sendable(r) ==
  /\ r.kind = "rows" => r.columns # <<>>
  /\ LET payloads == Payloads(r) IN \A k \in DOMAIN payloads : Size(payloads[k]) < 2 ^ 24 - 1

\* A client reads from the stream exactly the reply that was made, every name, flag, NULL,
\* empty string and value of it, and loses its place in the stream when the reply is one
\* that does not fit packets, or a result set for a client that took the server at its word
\* and negotiated CLIENT_DEPRECATE_EOF (handshake.cpp:12): only then.
ReplyReadBack ==
  LET sent == Sent
      stream == Stream(sent, FirstId)
      sendable == Sendable(sent)
  IN \A deprecate \in BOOLEAN :
       ReadReply(stream, FirstId, deprecate) =
         IF sendable /\ ~(deprecate /\ sent.kind = "rows") THEN sent ELSE Lost

\* getPayloadLength() of each packet is what encode() writes, except of a column one of whose
\* names takes more than one byte of length, where it is short.
LongNamed(r, k) ==
  /\ r.kind = "rows" /\ k - 1 \in DOMAIN r.columns
  /\ \E name \in Range(ColumnNames(r.columns[k - 1])) : name.len >= 251
DeclaredLengths ==
  LET sent == Sent
      payloads == Payloads(sent)
      lengths == PayloadLengths(sent)
  IN \A k \in DOMAIN payloads : lengths[k] = Size(payloads[k]) <=> ~LongNamed(sent, k)

=============================================================================
