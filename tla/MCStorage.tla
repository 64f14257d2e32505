------------------------------ MODULE MCStorage ------------------------------
(* Bounds for TLC: one table name, a schema with a numbered, a NOT NULL and a   *)
(* defaulted column, one of other types and one without columns, statements     *)
(* that take every path of the executor and of the evaluator, and names and     *)
(* strings at the boundaries of the encodings.                                  *)
EXTENDS StatementReply, TLC

SomeNames == {"test", "shop"}
SessionSymmetry == Permutations(Session)
SomeTables == {"t"}

\* (id INT PRIMARY KEY AUTO_INCREMENT, name VARCHAR NOT NULL, qty INT DEFAULT '5')
Column(name, type, key, notNull, auto, default) ==
  [name |-> name, type |-> type, primary_key |-> key, not_null |-> notNull,
   auto_increment |-> auto, default |-> default]
Items == << Column("id", "INT", TRUE, FALSE, TRUE, Null),
            Column("name", "VARCHAR", FALSE, TRUE, FALSE, Null),
            Column("qty", "INT", FALSE, FALSE, FALSE, Text(5)) >>
\* (id BIGINT, name BOOLEAN, qty DOUBLE, t FLOAT)
Measures == << Column("id", "BIGINT", FALSE, FALSE, FALSE, Null),
               Column("name", "BOOLEAN", FALSE, FALSE, FALSE, Null),
               Column("qty", "DOUBLE", FALSE, FALSE, FALSE, Null),
               Column("t", "FLOAT", FALSE, FALSE, FALSE, Null) >>
SomeSchemas == {Items, Measures, <<>>}

Number(n) == [kind |-> "number", v |-> n]
String(n) == [kind |-> "string", v |-> n]
Name(x) == [kind |-> "column", name |-> x]

\* Numbers and strings for columns of every type, numbers no INT (9) or BIGINT (10) holds,
\* and statements with the wrong number of values.
SomeInserts == [table : {"t"}, columns : {<<"name">>, <<"bogus">>}, values : {<<String(EmptyString)>>}]
  \cup [table : {"t"}, columns : {<<"name", "qty">>}, values : {<<Number(2), Number(7)>>, <<Number(2)>>}]
  \cup [table : {"t"}, columns : {<<>>},
        values : {<<Number(9), String(101), Name("id")>>,
                  <<Number(9), Number(1), Number(2), Number(2)>>,
                  <<Number(10), Name("id"), Number(0), Number(10)>>}]

Binary(op, left, right) == [kind |-> "binary", op |-> op, left |-> left, right |-> right]
\* A comparison; and its nodes behind two others, for a condition of two of them.
Compare(x, op, y) == <<x, y, Binary(op, 1, 2)>>
Join(v, op, x, op2, y) == v \o <<x, y, Binary(op2, Len(v) + 1, Len(v) + 2), Binary(op, Len(v), Len(v) + 3)>>
IdIs(n) == Compare(Name("id"), "=", Number(n))
SomeWheres ==
  { <<>>, IdIs(2), <<Name("qty")>>, <<Name("qty"), Number(1), Binary("+", 1, 2)>>,
    Join(IdIs(1), "AND", Name("bogus"), "<", Number(1)),
    Join(IdIs(1), "OR", Name("bogus"), "<", Number(1)),
    Join(Compare(Name("id"), "<", Number(9)), "OR", Name("qty"), "=", Number(7)), IdIs(10),
    Join(IdIs(1), "=", Name("qty"), "=", Number(2)),
    Join(Join(Compare(Name("name"), "=", String(EmptyString)), "OR", Name("qty"), "!=", String(5)),
         "AND", Name("name"), ">=", String(EmptyString)) }
SomeSelects == [table : {"t"}, columns : {<<"*">>}, where : SomeWheres, limit : {-1}]
  \cup [table : {"t"}, columns : {<<"name", "name", "qty">>, <<"bogus", "(expr)">>, <<"(expr)">>},
        where : {<<>>}, limit : {1}]

\* Two of string 101 and a NULL make a payload of 2^24 - 1 bytes, the least that is too long.
SomeLengths == [n \in 0 .. 9 |-> 1] @@ (10 :> 2) @@ (EmptyString :> 0) @@ (101 :> 8388603)
\* One wording is too long for a packet: "Unknown column '...' in 'field list'".
SomeErrorTexts ==
  [code \in ErrorCodes |-> TextOf(10000 + code, IF code = 1054 THEN 2 ^ 24 ELSE 40)]
\* Names of one byte of length, of two and of three.
SomeNameTexts ==
  [id |-> TextOf(5001, 2), name |-> TextOf(5002, 250), qty |-> TextOf(5003, 251),
   t |-> TextOf(5004, 1), test |-> TextOf(5005, 4), shop |-> TextOf(5006, 65536),
   mysql |-> TextOf(5007, 5)]
=============================================================================
