------------------------------- MODULE Storage -------------------------------
(***************************************************************************)
(* Statements on the in-memory store: QueryCommandHandler::execute...,     *)
(* StorageEngine, Database, Table and ExpressionEvaluator. The loop thread *)
(* runs every statement to its end, so the sessions interleave statement   *)
(* by statement.                                                           *)
(*                                                                         *)
(* A statement is an AST that the executor's interface takes, whichever    *)
(* text it came from. (The parser of module Parser hands out none with an  *)
(* expression in it, so that over the wire no row is inserted today.)      *)
(* Numbers are not negative (no literal is), IntMax the largest an int32_t *)
(* holds and LongMax an int64_t; a string is the rank it has in            *)
(* std::string's order, a numeral's rank being its number. Numerals with a *)
(* decimal point and those beyond a float are left out, and so is OFFSET:  *)
(* the parser never sets one.                                              *)
(***************************************************************************)
EXTENDS Integers, Sequences, FiniteSets, FiniteSetsExt

CONSTANTS
  Session,       \* client sessions
  NoDatabase,    \* the empty database name
  Names,         \* database names clients use
  Tables,        \* table names clients use
  IntMax,        \* largest int32_t
  LongMax,       \* largest int64_t
  Schemas,       \* column lists clients create tables with
  Inserts,       \* INSERT statements: [table, columns, values]
  Selects,       \* SELECT statements: [table, columns, where, limit]
  MaxRows,       \* bound on the rows of all tables
  MaxNext        \* bound on next_auto_increment_

\* The databases StorageEngine's constructor creates.
Predefined == {"mysql", "test"}

ASSUME StorageAssumption ==
  /\ NoDatabase \notin Names \cup Predefined
  /\ IntMax \in Nat /\ LongMax \in Nat /\ IntMax <= LongMax
  /\ MaxRows \in Nat /\ MaxNext \in Nat

VARIABLES
  databases,   \* StorageEngine::databases_: tables_ by name, each a Table, by name
  current,     \* Session::current_database_
  reply        \* to the last statement

vars == <<databases, current, reply>>

-----------------------------------------------------------------------------
(* Values *)

\* The index of Value's variant: 0 NULL, 1 int32_t, 2 int64_t, 3 float, 4 double, 5 string,
\* 6 bool.
Null == [index |-> 0, v |-> 0]
Int32(n) == [index |-> 1, v |-> n]
Int64(n) == [index |-> 2, v |-> n]
Float(n) == [index |-> 3, v |-> n]
Double(n) == [index |-> 4, v |-> n]
Text(n) == [index |-> 5, v |-> n]
Bool(b) == [index |-> 6, v |-> IF b THEN 1 ELSE 0]
Values == [index : 0 .. 6, v : Int]
IsNull(x) == x.index = 0
EmptyString == -1    \* its rank

\* In the place of a value: evaluating it throws.
Thrown == [index |-> 7, v |-> 0]

\* operator== and operator<: values of different types are unequal, and ordered by type.
Equal(x, y) == x = y
Less(x, y) == IF x.index # y.index THEN x.index < y.index ELSE x.v < y.v

\* compareValues(): no comparison with NULL holds; of an operator that is none it throws.
\* (Mutant: NULL is unequal to everything.)
Compared(x, op, y) ==
  CASE op = "=" -> Bool(Equal(x, y))
    [] op = "!=" -> Bool(~Equal(x, y))
    [] op = "<" -> Bool(Less(x, y))
    [] op = ">" -> Bool(~(Less(x, y) \/ Equal(x, y)))
    [] op = "<=" -> Bool(Less(x, y) \/ Equal(x, y))
    [] op = ">=" -> Bool(~Less(x, y))
    [] OTHER -> Thrown
CompareValuesNullUnequal(x, op, y) ==
  IF op # "!=" /\ (IsNull(x) \/ IsNull(y)) THEN Bool(FALSE) ELSE Compared(x, op, y)
CompareValues(x, op, y) ==
  IF IsNull(x) \/ IsNull(y) THEN Bool(FALSE) ELSE Compared(x, op, y)

-----------------------------------------------------------------------------
(* ExpressionEvaluator. An expression is the sequence of its nodes, the root  *)
(* last: [kind |-> "column", name], [kind |-> "number" or "string", v] and    *)
(* [kind |-> "binary", op, left, right], its operands the earlier nodes left  *)
(* and right. No WHERE is no node.                                            *)

Comparisons == {"=", "!=", "<", ">", "<=", ">="}
\* An operator is the token's text, which the evaluator knows in one spelling only.
Operators == Comparisons \cup {"AND", "OR", "and", "or", "<>", "+", "-", "*", "/", "%"}
Operands == [kind : {"column"}, name : STRING] \cup [kind : {"number"}, v : Nat]
              \cup [kind : {"string"}, v : Int]
Binaries == [kind : {"binary"}, op : Operators, left : Nat, right : Nat]
IsExpression(w) ==
  /\ w \in Seq(Operands \cup Binaries)
  /\ \A k \in DOMAIN w : w[k].kind = "binary" => {w[k].left, w[k].right} \subseteq 1 .. k - 1

\* evaluateLiteral(): an int32_t if it fits, else an int64_t; stoll() throws for a number
\* that is none. (Mutant: always an int64_t.)
EvaluateLiteralWide(e) == IF e.kind = "number" THEN Int64(e.v) ELSE Text(e.v)
EvaluateLiteral(e) ==
  CASE e.kind = "string" -> Text(e.v)
    [] e.kind = "number" /\ e.v <= IntMax -> Int32(e.v)
    [] e.kind = "number" /\ e.v \in IntMax + 1 .. LongMax -> Int64(e.v)
    [] OTHER -> Thrown

\* The first column of a name.
Named(columns, name) == {i \in DOMAIN columns : columns[i].name = name}
FirstNamed(columns, name) == Min(Named(columns, name))

\* evaluateIdentifier() and evaluateLiteral().
Operand(e, row, columns) ==
  CASE e.kind # "column" -> EvaluateLiteral(e)
    [] e.kind = "column" /\ Named(columns, e.name) # {} -> row[FirstNamed(columns, e.name)]
    [] OTHER -> Thrown

\* evaluate() of an operand: a value other than NULL, 0 and the empty string is true.
Truth(x) ==
  IF x = Thrown THEN Thrown
  ELSE Bool(~IsNull(x) /\ x.v # (IF x.index = 5 THEN EmptyString ELSE 0))

\* evaluate() and evaluateValue() of every node. AND and OR do not look at the right side
\* when the left one decides. Arithmetic throws inside an expression; as the whole of a
\* condition it is compared first, and false if there is a NULL in it.
OperandResult(e, row, columns) ==
  [condition |-> Truth(Operand(e, row, columns)), value |-> Operand(e, row, columns)]
BinaryResult(op, left, right) ==
  LET result ==
        CASE op = "AND" -> IF left.condition = Bool(TRUE) THEN right.condition ELSE left.condition
          [] op = "OR" -> IF left.condition = Bool(FALSE) THEN right.condition ELSE left.condition
          [] OTHER -> IF Thrown \in {left.value, right.value} THEN Thrown
                      ELSE CompareValues(left.value, op, right.value)
  IN [condition |-> result,
      value |-> IF op \in Comparisons \cup {"AND", "OR"} THEN result ELSE Thrown]

Result(e, row, columns, node) ==
  IF e.kind = "binary" THEN BinaryResult(e.op, node[e.left], node[e.right])
  ELSE OperandResult(e, row, columns)
Evaluation(w, row, columns) ==
  LET node[k \in DOMAIN w] == Result(w[k], row, columns, node) IN node

Evaluate(w, row, columns) ==
  IF w = <<>> THEN Bool(TRUE) ELSE Evaluation(w, row, columns)[Len(w)].condition

-----------------------------------------------------------------------------
(* Table *)

\* What the parser and the client make a column and an INSERT of.
ColumnsOf == [name : STRING, type : STRING, primary_key : BOOLEAN, not_null : BOOLEAN,
              auto_increment : BOOLEAN, default : {Null} \cup [index : {5}, v : Int]]
ASSUME StatementAssumption ==
  /\ Schemas \subseteq Seq(ColumnsOf)
  /\ \A q \in Inserts : q.columns \in Seq(STRING) /\ q.values \in Seq(Operands)
  /\ \A q \in Selects : IsExpression(q.where)

\* The bound stays below the numbers that the cast to int32_t changes.
ASSUME NumberAssumption == \A columns \in Schemas : MaxNext + Len(columns) <= IntMax

\* getColumnIndex(): addColumn() overwrote the index of an earlier column of that name.
ColumnIndex(columns, name) == Max(Named(columns, name))

\* insertRow(): the row has a value for every column and keeps NOT NULL.
\* (Mutant: NOT NULL is looked for in the key only.)
AcceptsKeyOnly(table, row) ==
  /\ Len(row) = Len(table.columns)
  /\ \A i \in DOMAIN row : table.columns[i].primary_key => ~IsNull(row[i])
Accepts(table, row) ==
  /\ Len(row) = Len(table.columns)
  /\ \A i \in DOMAIN row : table.columns[i].not_null => ~IsNull(row[i])

\* expressionToValue(): a number that stoi() or stoll() refuses stays a string, and so does
\* one for a column that is no number; a name gives NULL.
ExpressionToValue(e, type) ==
  CASE e.kind = "column" -> Null
    [] e.kind = "string" -> Text(e.v)
    [] e.kind = "number" /\ type = "INT" -> IF e.v <= IntMax THEN Int32(e.v) ELSE Text(e.v)
    [] e.kind = "number" /\ type = "BIGINT" -> IF e.v <= LongMax THEN Int64(e.v) ELSE Text(e.v)
    [] e.kind = "number" /\ type = "FLOAT" -> Float(e.v)
    [] e.kind = "number" /\ type = "DOUBLE" -> Double(e.v)
    [] OTHER -> Text(e.v)

-----------------------------------------------------------------------------
(* Statements *)

\* What getDatabase() and getTable() find, and the error a statement gives without it.
TablesOf(d) == IF d \in DOMAIN databases THEN databases[d] ELSE <<>>
HasTable(s, t) == t \in DOMAIN TablesOf(current[s])
TableOf(s, t) == databases[current[s]][t]

DatabaseError(s) ==
  CASE current[s] = NoDatabase -> 1046
    [] current[s] \notin DOMAIN databases -> 1049
    [] OTHER -> 0
TableError(s, t, code) ==
  IF DatabaseError(s) # 0 THEN DatabaseError(s) ELSE IF HasTable(s, t) THEN 0 ELSE code

\* Rows in the whole store, for the bound.
TableIds == {p \in (Names \cup Predefined) \X Tables : p[2] \in DOMAIN TablesOf(p[1])}
RowCount == MapThenSumSet(LAMBDA p : Len(databases[p[1]][p[2]].rows), TableIds)

\* The packets of a reply: an ERR with its code, an OK with the insert id and the names in
\* its text, or a result set of columns of table from = <<database, table>>.
Ok(insertId, names) ==
  [kind |-> "ok", code |-> 0, insertId |-> insertId, names |-> names,
   from |-> <<>>, columns |-> <<>>, rows |-> <<>>]

\* The codes of the statements' errors.
ErrorCodes == {1046, 1049, 1050, 1051, 1054, 1062, 1064, 1136, 1146}
Err(code) == [Ok(0, {}) EXCEPT !.kind = "err", !.code = code]
ResultSet(from, columns, rows) ==
  [Ok(0, {}) EXCEPT !.kind = "rows", !.from = from, !.columns = columns, !.rows = rows]

Refuse(code) == reply' = Err(code) /\ UNCHANGED <<databases, current>>
Done == reply' = Ok(0, {})

\* Table t of the session's database becomes x.
Store(s, t, x) == databases' = [databases EXCEPT ![current[s]][t] = x]

\* SELECT: the columns, "*" for all of them; "(expr)" stands for what is not a name.
SelectsAll(q) == q.columns = <<"*">>
BadColumns(q, table) ==
  IF SelectsAll(q) THEN {}
  ELSE {i \in DOMAIN q.columns : Named(table.columns, q.columns[i]) = {}}
ColumnError(q, table) ==
  IF BadColumns(q, table) = {} THEN 0
  ELSE IF q.columns[Min(BadColumns(q, table))] = "(expr)" THEN 1064 ELSE 1054

Verdicts(q, table) ==
  {Evaluate(q.where, table.rows[i], table.columns) : i \in DOMAIN table.rows}
SelectError(q, table) ==
  IF ColumnError(q, table) # 0 THEN ColumnError(q, table)
  ELSE IF Thrown \in Verdicts(q, table) THEN 1064 ELSE 0

\* The selected ones of the table's columns, or of a row's values.
Project(q, table, row) ==
  IF SelectsAll(q) THEN row
  ELSE [i \in DOMAIN q.columns |-> row[ColumnIndex(table.columns, q.columns[i])]]

\* The rows that match.
Matching(q, table) ==
  LET matching[i \in 0 .. Len(table.rows)] ==    \* among the first i rows
        IF i = 0 THEN <<>>
        ELSE IF Evaluate(q.where, table.rows[i], table.columns) = Bool(TRUE)
        THEN Append(matching[i - 1], table.rows[i]) ELSE matching[i - 1]
  IN matching[Len(table.rows)]

\* At most limit of them (no limit when negative), as they are selected.
ResultRows(q, table) ==
  LET matching == Matching(q, table)
      n == IF q.limit >= 0 /\ q.limit < Len(matching) THEN q.limit ELSE Len(matching)
  IN [i \in 1 .. n |-> Project(q, table, matching[i])]

SelectRefused(s, q) ==
  LET missing == TableError(s, q.table, 1146) IN
    /\ missing = 0 => SelectError(q, TableOf(s, q.table)) # 0
    /\ Refuse(IF missing # 0 THEN missing ELSE SelectError(q, TableOf(s, q.table)))

Select(s, q) ==
  /\ TableError(s, q.table, 1146) = 0
  /\ SelectError(q, TableOf(s, q.table)) = 0
  /\ LET table == TableOf(s, q.table) IN
       reply' = ResultSet(<<current[s], q.table>>, Project(q, table, table.columns),
                          ResultRows(q, table))
  /\ UNCHANGED <<databases, current>>

\* INSERT: a value for every column listed. An unlisted one takes the next number of the
\* table (as an int32_t), or its default, or NULL. Names that are no column are ignored.
CountsMatch(q, table) ==
  Len(q.values) = IF q.columns = <<>> THEN Len(table.columns) ELSE Len(q.columns)

Listed(q, column) == {i \in DOMAIN q.columns : q.columns[i] = column.name}
Numbered(q, table) ==
  {i \in DOMAIN table.columns : /\ q.columns # <<>> /\ table.columns[i].auto_increment
                                /\ Listed(q, table.columns[i]) = {}}

ValueFor(q, table, i) ==
  LET column == table.columns[i]
      first == Min(Listed(q, column))
      before == Cardinality({j \in Numbered(q, table) : j < i})
  IN CASE q.columns = <<>> -> ExpressionToValue(q.values[i], column.type)
       [] Listed(q, column) # {} -> ExpressionToValue(q.values[first], column.type)
       [] i \in Numbered(q, table) -> Int32(table.next + before)
       [] OTHER -> column.default

RowFor(q, table) == [i \in DOMAIN table.columns |-> ValueFor(q, table, i)]

\* getNextAutoIncrementValue() ran once for each such column, before insertRow().
Advanced(q, table) == [table EXCEPT !.next = @ + Cardinality(Numbered(q, table))]

InsertRefused(s, q) ==
  LET missing == TableError(s, q.table, 1146) IN
    /\ missing = 0 => ~CountsMatch(q, TableOf(s, q.table))
    /\ Refuse(IF missing # 0 THEN missing ELSE 1136)

\* "Failed to insert row": the numbers are used up.
InsertFails(s, q) ==
  LET table == TableOf(s, q.table) IN
    /\ TableError(s, q.table, 1146) = 0 /\ CountsMatch(q, table)
    /\ table.next < MaxNext
    /\ ~Accepts(table, RowFor(q, table))
    /\ Store(s, q.table, Advanced(q, table))
    /\ reply' = Err(1062)
    /\ UNCHANGED current

Insert(s, q) ==
  LET table == TableOf(s, q.table)
      row == RowFor(q, table)
  IN /\ TableError(s, q.table, 1146) = 0 /\ CountsMatch(q, table)
     /\ table.next < MaxNext /\ RowCount < MaxRows
     /\ Accepts(table, row)
     /\ Store(s, q.table, [Advanced(q, table) EXCEPT !.rows = Append(@, row)])
     /\ reply' = Ok(1, {})
     /\ UNCHANGED current

\* CREATE TABLE: getOrCreateDatabase() makes the database on the way.
NewTable(columns) == [columns |-> columns, rows |-> <<>>, next |-> 1]
\* f with x at k, as a map's operator[] leaves it.
With(f, k, x) == [j \in DOMAIN f \cup {k} |-> IF j = k THEN x ELSE f[j]]

CreateRefused(s, t) ==
  /\ current[s] # NoDatabase => HasTable(s, t)
  /\ Refuse(IF current[s] = NoDatabase THEN 1046 ELSE 1050)

\* (Mutant: tables_[name] = table without a look at what is there.)
CreateAnew(s, t, columns) ==
  /\ current[s] # NoDatabase
  /\ databases' = With(databases, current[s], With(TablesOf(current[s]), t, NewTable(columns)))
  /\ Done
  /\ UNCHANGED current
CreateTable(s, t, columns) ==
  /\ current[s] # NoDatabase /\ ~HasTable(s, t)
  /\ databases' = With(databases, current[s], With(TablesOf(current[s]), t, NewTable(columns)))
  /\ Done
  /\ UNCHANGED current

DropRefused(s, t) ==
  /\ TableError(s, t, 1051) # 0
  /\ Refuse(TableError(s, t, 1051))

\* (Mutant: the map of databases is erased from, not the map of tables.)
DropDatabaseOf(s, t) ==
  /\ TableError(s, t, 1051) = 0
  /\ databases' = [d \in DOMAIN databases \ {current[s]} |-> databases[d]]
  /\ Done
  /\ UNCHANGED current
DropTable(s, t) ==
  /\ TableError(s, t, 1051) = 0
  /\ databases' = [databases EXCEPT ![current[s]] =
                     [u \in DOMAIN databases[current[s]] \ {t} |-> @[u]]]
  /\ Done
  /\ UNCHANGED current

\* SHOW TABLES of a database that does not exist shows none, nor its name.
ShowTablesRefused(s) == current[s] = NoDatabase /\ Refuse(1046)
ShowTables(s) ==
  /\ current[s] # NoDatabase
  /\ reply' = Ok(0, IF current[s] \in DOMAIN databases
                    THEN {current[s]} \cup DOMAIN TablesOf(current[s]) ELSE {})
  /\ UNCHANGED <<databases, current>>

ShowDatabases ==
  /\ reply' = Ok(0, DOMAIN databases)
  /\ UNCHANGED <<databases, current>>

\* USE and COM_INIT_DB: any name will do. USE says the name in its answer.
UseDatabase(s, d) ==
  /\ current' = [current EXCEPT ![s] = d]
  /\ reply' \in {Ok(0, {d}), Ok(0, {})}
  /\ UNCHANGED databases

\* A client goes and another comes: its session has the database of its login, or none.
NewSession(s) ==
  /\ \E d \in Names \cup {NoDatabase} : current' = [current EXCEPT ![s] = d]
  /\ Done
  /\ UNCHANGED databases

-----------------------------------------------------------------------------
Init ==
  /\ databases = [d \in Predefined |-> <<>>]
  /\ current = [s \in Session |-> NoDatabase]
  /\ reply = Ok(0, {})

Next == \E s \in Session :
  \/ \E q \in Selects : Select(s, q) \/ SelectRefused(s, q)
  \/ \E q \in Inserts : Insert(s, q) \/ InsertRefused(s, q) \/ InsertFails(s, q)
  \/ \E t \in Tables : CreateRefused(s, t) \/ DropTable(s, t) \/ DropRefused(s, t)
  \/ \E t \in Tables, columns \in Schemas : CreateTable(s, t, columns)
  \/ ShowTables(s) \/ ShowTablesRefused(s) \/ ShowDatabases
  \/ \E d \in Names : UseDatabase(s, d)
  \/ NewSession(s)

Spec == Init /\ [][Next]_vars

-----------------------------------------------------------------------------
(* Properties *)

\* Every variable stays in its domain.
TypeOK ==
  /\ Predefined \subseteq DOMAIN databases /\ DOMAIN databases \subseteq Names \cup Predefined
  /\ \A d \in DOMAIN databases :
       /\ DOMAIN databases[d] \subseteq Tables
       /\ \A t \in DOMAIN databases[d] :
            /\ databases[d][t].columns \in Schemas
            /\ databases[d][t].rows \in Seq(Seq(Values))
            /\ databases[d][t].next \in Nat
  /\ current \in [Session -> Names \cup {NoDatabase}]
  /\ reply.code \in Nat

\* The rows of every table.
Rows == [p \in TableIds |-> databases[p[1]][p[2]].rows]
AllTables == {databases[p[1]][p[2]] : p \in TableIds}

\* Every row has one value for every column of its table, and NOT NULL columns have one
\* that is not NULL, whether it was given, numbered, the default or nothing.
RowsFitSchema ==
  \A table \in AllTables : \A i \in DOMAIN table.rows :
    /\ Len(table.rows[i]) = Len(table.columns)
    /\ \A j \in DOMAIN table.columns :
         table.columns[j].not_null => ~IsNull(table.rows[i][j])

\* The literal that a statement gives for column i, if it gives one.
Given(q, columns, i) ==
  IF q.columns = <<>> THEN {q.values[i]}
  ELSE IF Listed(q, columns[i]) = {} THEN {} ELSE {q.values[Min(Listed(q, columns[i]))]}
NumberLiteral(n) == [kind |-> "number", v |-> n]
StringLiteral(n) == [kind |-> "string", v |-> n]

\* The condition <column> = <literal>, and whether a row satisfies it.
Equality(name, e) == << [kind |-> "column", name |-> name], e,
                        [kind |-> "binary", op |-> "=", left |-> 1, right |-> 2] >>
Finds(e, i, row, columns) == Evaluate(Equality(columns[i].name, e), row, columns) = Bool(TRUE)

\* A row that was inserted is found by the literals of its statement, WHERE column = literal:
\* by a string that was given for whatever column, and by a number that was given for an INT
\* that can hold it, or for a BIGINT if no INT could, but by no other number: a FLOAT or
\* DOUBLE holds another type than the literal has, a BIGINT too as a rule, and the other
\* columns hold the number's text. One of the numbers that the INSERT took from the table
\* finds a numbered column. A default is kept as text (command_handler.cpp:533), whatever
\* the column's type: the string finds it, the number never does.
FindsGiven(e, type) ==
  \/ e.kind = "string"
  \/ type = "INT" /\ e.v <= IntMax
  \/ type = "BIGINT" /\ e.v \in IntMax + 1 .. LongMax
FoundByLiterals(q, before, after) ==
  LET row == after.rows[Len(after.rows)]
      columns == after.columns
      finds(e, i) == Finds(e, i, row, columns)
  IN \A i \in DOMAIN columns : FirstNamed(columns, columns[i].name) = i =>
       /\ \A e \in Given(q, columns, i) :
            e.kind # "column" => (finds(e, i) <=> FindsGiven(e, columns[i].type))
       /\ Given(q, columns, i) = {} =>
            IF columns[i].auto_increment
            THEN \E n \in before.next .. after.next - 1 : finds(NumberLiteral(n), i)
            ELSE ~IsNull(columns[i].default) =>
                   LET n == columns[i].default.v IN
                     finds(StringLiteral(n), i) /\ (n \in Nat => ~finds(NumberLiteral(n), i))
FoundByItsLiteral ==
  [][Rows' # Rows => \A s \in Session, q \in Inserts :
       Insert(s, q) => FoundByLiterals(q, TableOf(s, q.table), TableOf(s, q.table)')]_vars
\* A condition is made of AND, OR and comparisons of operands.
IsCondition(w) ==
  LET binary(k) == w[k].kind = "binary" IN
    /\ w # <<>> /\ binary(Len(w))
    /\ \A k \in DOMAIN w : binary(k) =>
         IF w[k].op \in {"AND", "OR"} THEN binary(w[k].left) /\ binary(w[k].right)
         ELSE w[k].op \in Comparisons /\ ~binary(w[k].left) /\ ~binary(w[k].right)

\* Such a condition by the standard's three values, 0 false, 1 unknown, 2 true. Numbers are
\* compared as numbers, whatever their types are.
Holds(x, op, y) ==
  CASE op = "=" -> x.v = y.v
    [] op = "!=" -> x.v # y.v
    [] op = "<" -> x.v < y.v
    [] op = ">" -> x.v > y.v
    [] op = "<=" -> x.v <= y.v
    [] OTHER -> x.v >= y.v
CompareAsSql(x, op, y) ==
  IF IsNull(x) \/ IsNull(y) \/ Thrown \in {x, y} THEN 1 ELSE IF Holds(x, op, y) THEN 2 ELSE 0
Verdict(w, k, row, columns, verdict) ==
  LET e == w[k] IN
    CASE e.kind # "binary" -> 1
      [] e.kind = "binary" /\ e.op = "AND" -> Min({verdict[e.left], verdict[e.right]})
      [] e.kind = "binary" /\ e.op = "OR" -> Max({verdict[e.left], verdict[e.right]})
      [] OTHER -> CompareAsSql(Operand(w[e.left], row, columns), e.op,
                               Operand(w[e.right], row, columns))
SqlVerdicts(w, row, columns) ==
  LET verdict[k \in DOMAIN w] == Verdict(w, k, row, columns, verdict) IN verdict
ThreeValued(w, row, columns) == SqlVerdicts(w, row, columns)[Len(w)]
\* What the code compares as SQL does: values of one type, and integers each in the smallest
\* type that holds it, as literals and INT columns are. Not so a BIGINT that an INT could
\* hold, a FLOAT or a DOUBLE beside a literal, nor a number beside a string: operator== and
\* operator< then look at the types alone (value.cpp:38), and DOUBLE 2 is not = 2.
Smallest(x) == x.index \in {1, 2} /\ (x.index = 1 <=> x.v <= IntMax)
Comparable(x, y) ==
  \/ IsNull(x) \/ IsNull(y) \/ Thrown \in {x, y}
  \/ x.index = y.index
  \/ Smallest(x) /\ Smallest(y)
AllComparable(w, row, columns) ==
  \A k \in DOMAIN w : w[k].kind = "binary" /\ w[k].op \in Comparisons =>
    Comparable(Operand(w[w[k].left], row, columns), Operand(w[w[k].right], row, columns))

\* A SELECT returns a row for which SQL's three-valued logic has its condition true, and none
\* for which it is false or unknown, if all that the condition compares for that row is
\* Comparable: evaluate() counts a comparison with NULL as false ("simplified to false
\* here", expression_evaluator.cpp:213) and looks at the right side of AND and OR only if it
\* must, and neither changes the answer of a SELECT that gives one.
SelectsAsSql ==
  \A p \in TableIds, q \in Selects :
    LET table == databases[p[1]][p[2]] IN
      (IsCondition(q.where) /\ SelectError(q, table) = 0) =>
        \A i \in DOMAIN table.rows :
          AllComparable(q.where, table.rows[i], table.columns) =>
            (Evaluate(q.where, table.rows[i], table.columns) = Bool(TRUE)
               <=> ThreeValued(q.where, table.rows[i], table.columns) = 2)

\* Every statement is one of module Catalog's: refused with nothing changed, or a read, or
\* one table of the session's own database made, dropped, or longer by one row.
TheCatalog == INSTANCE Catalog WITH store <- Rows, chosen <- current, told <- reply.code
ImplementsCatalog == TheCatalog!Spec

=============================================================================
