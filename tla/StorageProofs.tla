---------------------------- MODULE StorageProofs ----------------------------
(***************************************************************************)
(* TypeOK, RowsFitSchema, the refinement of module Catalog, SelectsAsSql   *)
(* and FoundByItsLiteral, for every set of sessions and names and every    *)
(* list of statements.                                                     *)
(*                                                                         *)
(* Neither invariant is inductive. TypeOK does not say that a table is a   *)
(* record with the three fields, which Shape does, and an INSERT is typed  *)
(* only because of what clients can write (StatementAssumption).           *)
(* SInv is Shape and RowsFitSchema, table by table (Fits). A step of       *)
(* Storage is one of Catalog by what it does to Rows, which maps only the  *)
(* tables that exist. FoundByItsLiteral follows from where a value of the  *)
(* new row comes from (ValueSource), SelectsAsSql node by node.            *)
(***************************************************************************)
EXTENDS Storage, FiniteSetTheorems, TLAPS

TableRecords == [columns : Schemas, rows : Seq(Seq(Values)), next : Nat]

\* What DOMAIN databases[d] is about: maps of maps of tables.
Shape ==
  /\ databases = [d \in DOMAIN databases |-> databases[d]]
  /\ Predefined \subseteq DOMAIN databases /\ DOMAIN databases \subseteq Names \cup Predefined
  /\ \A d \in DOMAIN databases :
       /\ databases[d] = [t \in DOMAIN databases[d] |-> databases[d][t]]
       /\ DOMAIN databases[d] \subseteq Tables
       /\ \A t \in DOMAIN databases[d] : databases[d][t] \in TableRecords
  /\ current \in [Session -> Names \cup {NoDatabase}]
  /\ reply.code \in Nat

LEMMA ShapeIsTypeOK == Shape => TypeOK
  BY DEF Shape, TypeOK, TableRecords

LEMMA InitShape == Init => Shape
  BY DEF Init, Shape, Ok

\* A set of positions has a first one.
LEMMA FirstExists ==
  ASSUME NEW n \in Nat, NEW S \in SUBSET (1 .. n), S # {}
  PROVE  Min(S) \in S /\ \A j \in S : Min(S) <= j
  <1> DEFINE T == {1 .. i : i \in S}
  <1>1. IsWellFoundedOn(StrictSubsetOrdering(1 .. n), FiniteSubsetsOf(1 .. n))
    BY FS_StrictSubsetOrderingWellFounded
  <1>2. T \subseteq FiniteSubsetsOf(1 .. n) /\ T # {}
    <2> SUFFICES ASSUME NEW i \in S  PROVE 1 .. i \in FiniteSubsetsOf(1 .. n)
      OBVIOUS
    <2>1. IsFiniteSet(1 .. i)
      BY FS_Interval
    <2> QED
      BY <2>1 DEF FiniteSubsetsOf
  <1>3. PICK U \in T : \A V \in T : <<V, U>> \notin StrictSubsetOrdering(1 .. n)
    <2> HIDE DEF T
    <2> QED
      BY <1>1, <1>2, WFMin
  <1>4. PICK i \in S : U = 1 .. i
    OBVIOUS
  <1>5. ASSUME NEW j \in S, j < i  PROVE FALSE
    <2>1. 1 .. j \subseteq 1 .. i /\ i \in 1 .. i /\ i \notin 1 .. j
      BY <1>5
    <2>2. <<1 .. j, 1 .. i>> \in StrictSubsetOrdering(1 .. n)
      BY <2>1 DEF StrictSubsetOrdering
    <2> QED
      BY <1>3, <1>4, <2>2
  <1>6. \A j \in S : i <= j
    BY <1>5
  <1> QED
    BY <1>6 DEF Min

-----------------------------------------------------------------------------
\* A statement that finds its table, and stores another record there.
LEMMA StoreKeeps ==
  ASSUME Shape, NEW s \in Session, NEW t, HasTable(s, t), NEW x, Store(s, t, x)
  PROVE  /\ current[s] \in DOMAIN databases /\ t \in DOMAIN databases[current[s]]
         /\ databases' = [d \in DOMAIN databases |-> databases'[d]]
         /\ DOMAIN databases' = DOMAIN databases
         /\ \A d \in DOMAIN databases :
              /\ DOMAIN databases'[d] = DOMAIN databases[d]
              /\ databases'[d] = [u \in DOMAIN databases[d] |-> databases'[d][u]]
              /\ \A u \in DOMAIN databases[d] :
                   databases'[d][u] = IF d = current[s] /\ u = t THEN x ELSE databases[d][u]
  <1>1. current[s] \in DOMAIN databases /\ t \in DOMAIN databases[current[s]]
    BY DEF HasTable, TablesOf
  <1> QED
    BY <1>1 DEF Shape, Store

LEMMA StoreShape ==
  ASSUME Shape, NEW s \in Session, NEW t, HasTable(s, t), NEW x \in TableRecords,
         Store(s, t, x), current' = current, reply'.code \in Nat
  PROVE  Shape'
  <1>1. /\ databases' = [d \in DOMAIN databases |-> databases'[d]]
        /\ DOMAIN databases' = DOMAIN databases
        /\ \A d \in DOMAIN databases :
              /\ DOMAIN databases'[d] = DOMAIN databases[d]
              /\ databases'[d] = [u \in DOMAIN databases[d] |-> databases'[d][u]]
              /\ \A u \in DOMAIN databases[d] :
                   databases'[d][u] = IF d = current[s] /\ u = t THEN x ELSE databases[d][u]
    BY StoreKeeps
  <1>2. \A d \in DOMAIN databases : \A u \in DOMAIN databases[d] : databases'[d][u] \in TableRecords
    BY <1>1 DEF Shape
  <1> QED
    BY <1>1, <1>2 DEF Shape

-----------------------------------------------------------------------------
(* The row of an INSERT. *)

LEMMA ExpressionHasValue ==
  ASSUME NEW e \in Operands, NEW type
  PROVE  ExpressionToValue(e, type) \in Values
  BY DEF Operands, ExpressionToValue, Values, Null, Text, Int32, Int64, Float, Double

LEMMA ColumnsAreTyped ==
  ASSUME NEW table \in TableRecords
  PROVE  /\ table.columns \in Seq(ColumnsOf) /\ table.next \in Nat
         /\ Len(table.columns) \in Nat /\ DOMAIN table.columns = 1 .. Len(table.columns)
         /\ MaxNext + Len(table.columns) <= IntMax
         /\ \A S \in SUBSET DOMAIN table.columns : Cardinality(S) \in Nat
  <1>1. /\ table.columns \in Seq(ColumnsOf) /\ table.next \in Nat
        /\ MaxNext + Len(table.columns) <= IntMax
    BY StatementAssumption, NumberAssumption DEF TableRecords
  <1>2. Len(table.columns) \in Nat /\ DOMAIN table.columns = 1 .. Len(table.columns)
    BY <1>1
  <1>3. ASSUME NEW S \in SUBSET DOMAIN table.columns  PROVE Cardinality(S) \in Nat
    <2>1. IsFiniteSet(1 .. Len(table.columns))
      BY <1>2, FS_Interval
    <2> QED
      BY <1>2, <2>1, FS_Subset, FS_CardinalityType
  <1> QED
    BY <1>1, <1>2, <1>3

\* Where a value of the row comes from: the statement, the table's numbers, the default.
LEMMA ValueComesFrom ==
  ASSUME NEW q \in Inserts, NEW table \in TableRecords, CountsMatch(q, table),
         NEW i \in DOMAIN table.columns
  PROVE  \/ \E k \in DOMAIN q.values :
              ValueFor(q, table, i) = ExpressionToValue(q.values[k], table.columns[i].type)
         \/ \E n \in 0 .. i - 1 : ValueFor(q, table, i) = Int32(table.next + n)
         \/ ValueFor(q, table, i) = table.columns[i].default
  <1> DEFINE columns == table.columns
  <1>1. /\ columns \in Seq(ColumnsOf) /\ Len(columns) \in Nat /\ DOMAIN columns = 1 .. Len(columns)
        /\ q.columns \in Seq(STRING) /\ q.values \in Seq(Operands)
    BY StatementAssumption, ColumnsAreTyped
  <1>2. CASE q.columns = <<>>
    <2>1. Listed(q, columns[i]) = {} /\ i \notin Numbered(q, table)
      BY <1>1, <1>2 DEF Listed, Numbered
    <2>2. ValueFor(q, table, i) = ExpressionToValue(q.values[i], columns[i].type)
      BY <1>2, <2>1 DEF ValueFor
    <2>3. i \in DOMAIN q.values
      BY <1>1, <1>2 DEF CountsMatch
    <2> QED
      BY <2>2, <2>3
  <1>3. CASE q.columns # <<>> /\ Listed(q, columns[i]) # {}
    <2> DEFINE first == Min(Listed(q, columns[i]))
    <2>1. Listed(q, columns[i]) \in SUBSET (1 .. Len(q.columns)) /\ Len(q.columns) \in Nat
      BY <1>1 DEF Listed
    <2>2. first \in Listed(q, columns[i])
      BY <1>3, <2>1, FirstExists
    <2>3. first \in DOMAIN q.values
      BY <1>1, <1>3, <2>1, <2>2 DEF CountsMatch
    <2>4. ValueFor(q, table, i) = ExpressionToValue(q.values[first], columns[i].type)
      BY <1>3 DEF ValueFor, Numbered
    <2> QED
      BY <2>3, <2>4
  <1>4. CASE q.columns # <<>> /\ Listed(q, columns[i]) = {} /\ i \in Numbered(q, table)
    <2> DEFINE before == {j \in Numbered(q, table) : j < i}
    <2>1. before \in SUBSET (1 .. i - 1) /\ IsFiniteSet(1 .. i - 1) /\ Cardinality(1 .. i - 1) = i - 1
      <3>1. before \in SUBSET (1 .. i - 1) /\ i - 1 \in Nat
        BY <1>1 DEF Numbered
      <3>2. IsFiniteSet(1 .. i - 1) /\ Cardinality(1 .. i - 1) = i - 1
        BY <3>1, FS_Interval
      <3> QED
        BY <3>1, <3>2
    <2>2. Cardinality(before) \in 0 .. i - 1
      <3> HIDE DEF before
      <3>1. IsFiniteSet(before) /\ Cardinality(before) <= Cardinality(1 .. i - 1)
        BY <2>1, FS_Subset
      <3> QED
        BY <1>1, <2>1, <3>1, FS_CardinalityType
    <2>3. ValueFor(q, table, i) = Int32(table.next + Cardinality(before))
      BY <1>4 DEF ValueFor
    <2> QED
      BY <2>2, <2>3
  <1>5. CASE q.columns # <<>> /\ Listed(q, columns[i]) = {} /\ i \notin Numbered(q, table)
    BY <1>5 DEF ValueFor
  <1> QED
    BY <1>2, <1>3, <1>4, <1>5

LEMMA RowIsTyped ==
  ASSUME NEW q \in Inserts, NEW table \in TableRecords, CountsMatch(q, table), table.next < MaxNext
  PROVE  /\ RowFor(q, table) \in Seq(Values)
         /\ Len(RowFor(q, table)) = Len(table.columns)
         /\ Advanced(q, table) \in TableRecords
  <1> DEFINE columns == table.columns
  <1>1. /\ columns \in Seq(ColumnsOf) /\ Len(columns) \in Nat /\ DOMAIN columns = 1 .. Len(columns)
        /\ table.next \in Nat /\ MaxNext + Len(columns) <= IntMax
        /\ \A S \in SUBSET DOMAIN columns : Cardinality(S) \in Nat
    BY ColumnsAreTyped
  <1>2. ASSUME NEW i \in DOMAIN columns
        PROVE  ValueFor(q, table, i) \in Values
    <2>1. CASE \E k \in DOMAIN q.values :
                 ValueFor(q, table, i) = ExpressionToValue(q.values[k], columns[i].type)
      <3>1. \A k \in DOMAIN q.values : q.values[k] \in Operands
        BY StatementAssumption
      <3> QED
        BY <2>1, <3>1, ExpressionHasValue
    <2>2. CASE \E n \in 0 .. i - 1 : ValueFor(q, table, i) = Int32(table.next + n)
      <3>1. PICK n \in 0 .. i - 1 : ValueFor(q, table, i) = Int32(table.next + n)
        BY <2>2
      <3>2. table.next + n \in Int
        BY <1>1
      <3> QED
        BY <3>1, <3>2 DEF Int32, Values
    <2>3. CASE ValueFor(q, table, i) = columns[i].default
      <3>1. columns[i] \in ColumnsOf
        BY <1>1
      <3> QED
        BY <2>3, <3>1 DEF ColumnsOf, Null, Values
    <2> QED
      BY <2>1, <2>2, <2>3, ValueComesFrom
  <1>3. RowFor(q, table) \in [1 .. Len(columns) -> Values]
    BY <1>1, <1>2 DEF RowFor
  <1>4. RowFor(q, table) \in Seq(Values) /\ Len(RowFor(q, table)) = Len(columns)
    <2> HIDE DEF columns
    <2> QED
      BY <1>1, <1>3
  <1>5. Numbered(q, table) \in SUBSET DOMAIN columns
    BY DEF Numbered
  <1>6. Advanced(q, table) \in TableRecords
    BY <1>1, <1>5 DEF Advanced, TableRecords
  <1> QED
    BY <1>4, <1>6

-----------------------------------------------------------------------------
(* Every statement keeps the shape, and the rows fit. *)

Fits(table) ==
  \A i \in DOMAIN table.rows :
    /\ Len(table.rows[i]) = Len(table.columns)
    /\ \A j \in DOMAIN table.columns :
         table.columns[j].not_null => ~IsNull(table.rows[i][j])

AllFit == \A d \in DOMAIN databases : \A t \in DOMAIN databases[d] : Fits(databases[d][t])

LEMMA AllFitIsRowsFitSchema == AllFit => RowsFitSchema
  <1> SUFFICES ASSUME AllFit, NEW p \in TableIds  PROVE Fits(databases[p[1]][p[2]])
    BY DEF RowsFitSchema, AllTables, Fits
  <1> QED
    BY DEF TableIds, TablesOf, AllFit

\* A row that a table accepts fits it, and the others stay.
LEMMA AppendFits ==
  ASSUME NEW q \in Inserts, NEW table \in TableRecords, CountsMatch(q, table), Fits(table),
         table.next < MaxNext, Accepts(table, RowFor(q, table))
  PROVE  LET longer == [Advanced(q, table) EXCEPT !.rows = Append(@, RowFor(q, table))]
         IN  longer \in TableRecords /\ Fits(longer)
  <1> DEFINE row == RowFor(q, table)
             longer == [Advanced(q, table) EXCEPT !.rows = Append(@, row)]
  <1>1. /\ row \in Seq(Values) /\ Len(row) = Len(table.columns)
        /\ Advanced(q, table) \in TableRecords
    BY RowIsTyped
  <1>2. /\ Advanced(q, table).rows = table.rows /\ Advanced(q, table).columns = table.columns
        /\ table.rows \in Seq(Seq(Values))
        /\ table.columns \in Seq(ColumnsOf)
    BY StatementAssumption DEF Advanced, TableRecords
  <1>3. longer.rows = Append(table.rows, row) /\ longer.columns = table.columns
    BY <1>1, <1>2 DEF TableRecords
  <1>4. longer \in TableRecords
    <2>1. Append(table.rows, row) \in Seq(Seq(Values))
      BY <1>1, <1>2
    <2> QED
      BY <1>1, <1>2, <2>1 DEF TableRecords
  <1>5. \A j \in DOMAIN table.columns : table.columns[j].not_null => ~IsNull(row[j])
    <2>1. DOMAIN row = DOMAIN table.columns
      BY <1>1, <1>2
    <2> QED
      BY <2>1 DEF Accepts
  <1>6. Fits(longer)
    <2> HIDE DEF longer, row
    <2> SUFFICES ASSUME NEW i \in DOMAIN longer.rows
                 PROVE  /\ Len(longer.rows[i]) = Len(table.columns)
                        /\ \A j \in DOMAIN table.columns :
                             table.columns[j].not_null => ~IsNull(longer.rows[i][j])
      BY <1>3 DEF Fits
    <2>1. CASE i = Len(table.rows) + 1
      BY <1>1, <1>2, <1>3, <1>5, <2>1
    <2>2. CASE i \in DOMAIN table.rows
      BY <1>2, <1>3, <2>2 DEF Fits
    <2> QED
      BY <1>1, <1>2, <1>3, <2>1, <2>2
  <1> QED
    BY <1>4, <1>6

\* The inductive invariant.
SInv == Shape /\ AllFit

LEMMA StoreFits ==
  ASSUME SInv, NEW s \in Session, NEW t, HasTable(s, t), NEW x \in TableRecords, Fits(x),
         Store(s, t, x), current' = current, reply'.code \in Nat
  PROVE  SInv'
  <1>0. /\ DOMAIN databases' = DOMAIN databases
        /\ \A d \in DOMAIN databases :
              /\ DOMAIN databases'[d] = DOMAIN databases[d]
              /\ \A u \in DOMAIN databases[d] :
                   databases'[d][u] = IF d = current[s] /\ u = t THEN x ELSE databases[d][u]
    <2>1. Shape
      BY DEF SInv
    <2>2. /\ current[s] \in DOMAIN databases /\ t \in DOMAIN databases[current[s]]
          /\ databases' = [d \in DOMAIN databases |-> databases'[d]]
          /\ DOMAIN databases' = DOMAIN databases
          /\ \A d \in DOMAIN databases :
               /\ DOMAIN databases'[d] = DOMAIN databases[d]
               /\ databases'[d] = [u \in DOMAIN databases[d] |-> databases'[d][u]]
               /\ \A u \in DOMAIN databases[d] :
                    databases'[d][u] = IF d = current[s] /\ u = t THEN x ELSE databases[d][u]
      BY <2>1, StoreKeeps
    <2> QED
      BY <2>2
  <1>1. Shape'
    BY StoreShape DEF SInv
  <1>2. ASSUME NEW d \in DOMAIN databases', NEW u \in DOMAIN databases'[d]
        PROVE  Fits(databases'[d][u])
    BY <1>0 DEF AllFit, SInv
  <1> QED
    BY <1>1, <1>2 DEF SInv, AllFit

\* Statements that change no table.
LEMMA ReadFits ==
  ASSUME SInv, databases' = databases, current' \in [Session -> Names \cup {NoDatabase}],
         reply'.code \in Nat
  PROVE  SInv'
  BY DEF SInv, Shape, AllFit

-----------------------------------------------------------------------------
LEMMA Codes ==
  /\ \A n, names : Ok(n, names).code = 0
  /\ \A code : Err(code).code = code
  /\ \A from, columns, rows : ResultSet(from, columns, rows).code = 0
  BY DEF Ok, Err, ResultSet

LEMMA CodesAre ==
  /\ 1046 \in ErrorCodes /\ 1049 \in ErrorCodes /\ 1050 \in ErrorCodes /\ 1051 \in ErrorCodes
  /\ 1054 \in ErrorCodes /\ 1062 \in ErrorCodes /\ 1064 \in ErrorCodes /\ 1136 \in ErrorCodes
  /\ 1146 \in ErrorCodes /\ 0 \notin ErrorCodes /\ ErrorCodes \subseteq Nat \ {0}
  BY DEF ErrorCodes

LEMMA TableErrors ==
  ASSUME NEW s, NEW t, NEW code \in ErrorCodes
  PROVE  /\ TableError(s, t, code) \in ErrorCodes \cup {0}
         /\ TableError(s, t, code) = 0 => HasTable(s, t) /\ current[s] # NoDatabase
  BY CodesAre DEF TableError, DatabaseError

LEMMA RefusedNumbers ==
  ASSUME NEW s \in Session, NEW code
  PROVE  /\ \A q : SelectRefused(s, q) => \E c \in ErrorCodes : Refuse(c)
         /\ \A q : InsertRefused(s, q) => \E c \in ErrorCodes : Refuse(c)
         /\ \A t : CreateRefused(s, t) => \E c \in ErrorCodes : Refuse(c)
         /\ \A t : DropRefused(s, t) => \E c \in ErrorCodes : Refuse(c)
         /\ ShowTablesRefused(s) => \E c \in ErrorCodes : Refuse(c)
  <1>1. ASSUME NEW q, SelectRefused(s, q)  PROVE \E c \in ErrorCodes : Refuse(c)
    <2> DEFINE missing == TableError(s, q.table, 1146)
               error == SelectError(q, TableOf(s, q.table))
               c == IF missing # 0 THEN missing ELSE error
    <2>1. missing \in ErrorCodes \cup {0}
      BY TableErrors, CodesAre
    <2>2. error \in ErrorCodes \cup {0}
      BY CodesAre DEF SelectError, ColumnError
    <2>3. Refuse(c) /\ (missing = 0 => error # 0)
      BY <1>1 DEF SelectRefused
    <2> HIDE DEF missing, error
    <2>4. c \in ErrorCodes
      BY <2>1, <2>2, <2>3
    <2> QED
      BY <2>3, <2>4
  <1>2. ASSUME NEW q, InsertRefused(s, q)  PROVE \E c \in ErrorCodes : Refuse(c)
    <2> DEFINE missing == TableError(s, q.table, 1146)
               c == IF missing # 0 THEN missing ELSE 1136
    <2>1. missing \in ErrorCodes \cup {0}
      BY TableErrors, CodesAre
    <2>2. Refuse(c)
      BY <1>2 DEF InsertRefused
    <2> HIDE DEF missing
    <2>3. c \in ErrorCodes
      BY <2>1, CodesAre
    <2> QED
      BY <2>2, <2>3
  <1>3. ASSUME NEW t, CreateRefused(s, t)  PROVE \E c \in ErrorCodes : Refuse(c)
    BY <1>3, CodesAre DEF CreateRefused
  <1>4. ASSUME NEW t, DropRefused(s, t)  PROVE \E c \in ErrorCodes : Refuse(c)
    <2> DEFINE c == TableError(s, t, 1051)
    <2>1. c \in ErrorCodes \cup {0}
      BY TableErrors, CodesAre
    <2>2. c # 0 /\ Refuse(c)
      BY <1>4 DEF DropRefused
    <2> HIDE DEF c
    <2> QED
      BY <2>1, <2>2
  <1>5. ASSUME ShowTablesRefused(s)  PROVE \E c \in ErrorCodes : Refuse(c)
    BY <1>5, CodesAre DEF ShowTablesRefused
  <1> QED
    BY <1>1, <1>2, <1>3, <1>4, <1>5

\* CREATE TABLE, and the database with it.
LEMMA CreateKeeps ==
  ASSUME SInv, NEW s \in Session, NEW t \in Tables, NEW columns \in Schemas,
         CreateTable(s, t, columns)
  PROVE  SInv'
  <1> DEFINE d == current[s]
  <1>1. /\ d \in Names
        /\ databases' = With(databases, d, With(TablesOf(d), t, NewTable(columns)))
        /\ current' = current /\ reply'.code \in Nat
    BY Codes DEF CreateTable, Done, SInv, Shape
  <1>2. /\ databases' = [e \in DOMAIN databases' |-> databases'[e]]
        /\ DOMAIN databases' = DOMAIN databases \cup {d}
        /\ \A e \in DOMAIN databases \ {d} : databases'[e] = databases[e]
        /\ databases'[d] = With(TablesOf(d), t, NewTable(columns))
    BY <1>1 DEF With
  <1>3. /\ databases'[d] = [u \in DOMAIN databases'[d] |-> databases'[d][u]]
        /\ DOMAIN databases'[d] = DOMAIN TablesOf(d) \cup {t}
        /\ \A u \in DOMAIN TablesOf(d) \ {t} : databases'[d][u] = databases[d][u]
        /\ databases'[d][t] = NewTable(columns)
    BY <1>2 DEF With, TablesOf
  <1>4. NewTable(columns) \in TableRecords /\ Fits(NewTable(columns))
    BY DEF NewTable, TableRecords, Fits
  <1>5. DOMAIN TablesOf(d) = IF d \in DOMAIN databases THEN DOMAIN databases[d] ELSE {}
    BY DEF TablesOf
  <1>6. \A e \in DOMAIN databases' : \A u \in DOMAIN databases'[e] :
          /\ u \in Tables
          /\ \/ databases'[e][u] = NewTable(columns)
             \/ e \in DOMAIN databases /\ u \in DOMAIN databases[e] /\ databases'[e][u] = databases[e][u]
    BY <1>2, <1>3, <1>5 DEF SInv, Shape
  <1>7. Shape'
    <2>1. \A e \in DOMAIN databases' : databases'[e] = [u \in DOMAIN databases'[e] |-> databases'[e][u]]
      BY <1>2, <1>3 DEF SInv, Shape
    <2>2. \A e \in DOMAIN databases' : \A u \in DOMAIN databases'[e] :
            u \in Tables /\ databases'[e][u] \in TableRecords
      BY <1>4, <1>6 DEF SInv, Shape
    <2>3. Predefined \subseteq DOMAIN databases' /\ DOMAIN databases' \subseteq Names \cup Predefined
      BY <1>1, <1>2 DEF SInv, Shape
    <2>4. current' \in [Session -> Names \cup {NoDatabase}]
      BY <1>1 DEF SInv, Shape
    <2> QED
      BY <1>1, <1>2, <2>1, <2>2, <2>3, <2>4 DEF Shape
  <1>8. AllFit'
    <2>1. \A e \in DOMAIN databases' : \A u \in DOMAIN databases'[e] : Fits(databases'[e][u])
      BY <1>4, <1>6 DEF SInv, AllFit
    <2> QED
      BY <2>1 DEF AllFit
  <1> QED
    BY <1>7, <1>8 DEF SInv

LEMMA DropKeeps ==
  ASSUME SInv, NEW s \in Session, NEW t \in Tables, DropTable(s, t)
  PROVE  SInv'
  <1> DEFINE d == current[s]
  <1>1. d \in DOMAIN databases /\ t \in DOMAIN databases[d]
    BY TableErrors, CodesAre DEF DropTable, HasTable, TablesOf
  <1>2. /\ databases' = [databases EXCEPT ![d] = [u \in DOMAIN databases[d] \ {t} |-> databases[d][u]]]
        /\ current' = current /\ reply'.code \in Nat
    BY Codes DEF DropTable, Done
  <1>3. /\ databases' = [e \in DOMAIN databases |-> databases'[e]]
        /\ DOMAIN databases' = DOMAIN databases
        /\ \A e \in DOMAIN databases :
             /\ databases'[e] = [u \in DOMAIN databases'[e] |-> databases'[e][u]]
             /\ DOMAIN databases'[e] \subseteq DOMAIN databases[e]
             /\ \A u \in DOMAIN databases'[e] : databases'[e][u] = databases[e][u]
    BY <1>1, <1>2 DEF SInv, Shape
  <1>4. Shape'
    <2>1. \A e \in DOMAIN databases' : \A u \in DOMAIN databases'[e] :
            u \in Tables /\ databases'[e][u] \in TableRecords
      BY <1>3 DEF SInv, Shape
    <2>2. DOMAIN databases' \subseteq Names \cup Predefined /\ Predefined \subseteq DOMAIN databases'
      BY <1>3 DEF SInv, Shape
    <2>3. current' \in [Session -> Names \cup {NoDatabase}]
      BY <1>2 DEF SInv, Shape
    <2>4. /\ databases' = [e \in DOMAIN databases' |-> databases'[e]]
          /\ \A e \in DOMAIN databases' :
               databases'[e] = [u \in DOMAIN databases'[e] |-> databases'[e][u]]
      BY <1>3
    <2> QED
      BY <1>2, <2>1, <2>2, <2>3, <2>4 DEF Shape
  <1>5. \A e \in DOMAIN databases' : \A u \in DOMAIN databases'[e] : Fits(databases'[e][u])
    BY <1>3 DEF SInv, AllFit
  <1> QED
    BY <1>4, <1>5 DEF SInv, AllFit

LEMMA InsertKeeps ==
  ASSUME SInv, NEW s \in Session, NEW q \in Inserts, Insert(s, q) \/ InsertFails(s, q)
  PROVE  SInv'
  <1> DEFINE table == TableOf(s, q.table)
             row == RowFor(q, table)
             longer == [Advanced(q, table) EXCEPT !.rows = Append(@, row)]
  <1>1. HasTable(s, q.table) /\ CountsMatch(q, table)
    BY TableErrors, CodesAre DEF Insert, InsertFails
  <1>2. table \in TableRecords /\ Fits(table)
    BY <1>1 DEF HasTable, TablesOf, TableOf, SInv, Shape, AllFit
  <1>3. current' = current /\ reply'.code \in Nat
    BY Codes DEF Insert, InsertFails
  <1>4. CASE Insert(s, q)
    <2>1. Store(s, q.table, longer) /\ Accepts(table, row) /\ table.next < MaxNext
      BY <1>4 DEF Insert
    <2>2. longer \in TableRecords /\ Fits(longer)
      BY <1>1, <1>2, <2>1, AppendFits
    <2> QED
      BY <1>1, <1>3, <2>1, <2>2, StoreFits
  <1>5. CASE InsertFails(s, q)
    <2>1. Store(s, q.table, Advanced(q, table)) /\ table.next < MaxNext
      BY <1>5 DEF InsertFails
    <2>2. Advanced(q, table) \in TableRecords
      BY <1>1, <1>2, <2>1, RowIsTyped
    <2>3. Fits(Advanced(q, table))
      BY <1>2 DEF Fits, Advanced, TableRecords
    <2> QED
      BY <1>1, <1>3, <2>1, <2>2, <2>3, StoreFits
  <1> QED
    BY <1>4, <1>5

LEMMA NextKeeps == SInv /\ [Next]_vars => SInv'
  <1> SUFFICES ASSUME SInv, [Next]_vars  PROVE SInv'
    OBVIOUS
  <1>1. ASSUME NEW c \in Nat, Refuse(c)  PROVE SInv'
    BY <1>1, Codes, ReadFits DEF Refuse, SInv, Shape
  <1>2. ASSUME NEW s \in Session, NEW q, Select(s, q)  PROVE SInv'
    BY <1>2, Codes, ReadFits DEF Select, SInv, Shape
  <1>3. ASSUME NEW s \in Session, ShowTables(s) \/ ShowDatabases  PROVE SInv'
    BY <1>3, Codes, ReadFits DEF ShowTables, ShowDatabases, SInv, Shape
  <1>4. ASSUME NEW s \in Session, NEW d \in Names, UseDatabase(s, d)  PROVE SInv'
    BY <1>4, Codes, ReadFits DEF UseDatabase, SInv, Shape
  <1>5. ASSUME NEW s \in Session, NewSession(s)  PROVE SInv'
    BY <1>5, Codes, ReadFits DEF NewSession, Done, SInv, Shape
  <1>6. CASE UNCHANGED vars
    BY <1>6, ReadFits DEF vars, SInv, Shape
  <1>7. ASSUME NEW s \in Session,
               \/ \E q \in Selects : SelectRefused(s, q)
               \/ \E q \in Inserts : InsertRefused(s, q)
               \/ \E t \in Tables : CreateRefused(s, t) \/ DropRefused(s, t)
               \/ ShowTablesRefused(s)
        PROVE  SInv'
    BY <1>1, <1>7, RefusedNumbers, CodesAre
  <1> QED
    BY <1>2, <1>3, <1>4, <1>5, <1>6, <1>7, InsertKeeps, CreateKeeps, DropKeeps DEF Next

LEMMA StorageInvariant == Spec => []SInv
  <1>1. Init => SInv
    BY InitShape DEF Init, SInv, AllFit
  <1> QED
    BY <1>1, NextKeeps, PTL DEF Spec

\* Every variable stays in its domain.
THEOREM TypeCorrect == Spec => []TypeOK
  BY StorageInvariant, ShapeIsTypeOK, PTL DEF SInv

\* Every row has a value for every column, and none is NULL where that is forbidden.
THEOREM RowsSafe == Spec => []RowsFitSchema
  BY StorageInvariant, AllFitIsRowsFitSchema, PTL DEF SInv

-----------------------------------------------------------------------------
(* The refinement of module Catalog. *)

LEMMA TableIdsAre ==
  /\ \A p : p \in TableIds <=> /\ p \in (Names \cup Predefined) \X Tables
                               /\ p[1] \in DOMAIN databases /\ p[2] \in DOMAIN databases[p[1]]
  /\ DOMAIN Rows = TableIds
  /\ \A p \in TableIds : Rows[p] = databases[p[1]][p[2]].rows
  BY DEF TableIds, TablesOf, Rows

LEMMA TableIdsBecome ==
  /\ \A p : p \in TableIds' <=> /\ p \in (Names \cup Predefined) \X Tables
                                /\ p[1] \in DOMAIN databases' /\ p[2] \in DOMAIN databases'[p[1]]
  /\ Rows' = [p \in TableIds' |-> databases'[p[1]][p[2]].rows]
  BY DEF TableIds, TablesOf, Rows

\* The name of a table that a session's statement finds.
LEMMA FoundTable ==
  ASSUME Shape, NEW s \in Session, NEW t, HasTable(s, t)
  PROVE  /\ <<current[s], t>> \in TableIds
         /\ Rows[<<current[s], t>>] = TableOf(s, t).rows
         /\ TableOf(s, t) \in TableRecords
  <1>1. current[s] \in DOMAIN databases /\ t \in DOMAIN databases[current[s]]
    BY DEF HasTable, TablesOf
  <1> QED
    BY <1>1, TableIdsAre DEF Shape, TableOf

\* A statement that stores a record changes the rows of one table.
LEMMA StoreRows ==
  ASSUME Shape, NEW s \in Session, NEW t, HasTable(s, t), NEW x, Store(s, t, x)
  PROVE  /\ DOMAIN Rows' = DOMAIN Rows
         /\ Rows'[<<current[s], t>>] = x.rows
         /\ \A p \in DOMAIN Rows \ {<<current[s], t>>} : Rows'[p] = Rows[p]
  <1>1. /\ current[s] \in DOMAIN databases /\ t \in DOMAIN databases[current[s]]
        /\ databases' = [d \in DOMAIN databases |-> databases'[d]]
        /\ DOMAIN databases' = DOMAIN databases
        /\ \A d \in DOMAIN databases :
             /\ DOMAIN databases'[d] = DOMAIN databases[d]
             /\ databases'[d] = [u \in DOMAIN databases[d] |-> databases'[d][u]]
             /\ \A u \in DOMAIN databases[d] :
                  databases'[d][u] = IF d = current[s] /\ u = t THEN x ELSE databases[d][u]
    BY StoreKeeps
  <1>2. \A p : p \in TableIds' <=> p \in TableIds
    BY <1>1, TableIdsAre, TableIdsBecome
  <1>3. DOMAIN Rows' = DOMAIN Rows /\ DOMAIN Rows = TableIds
    BY <1>2, TableIdsAre, TableIdsBecome
  <1>4. \A p \in TableIds : Rows'[p] = databases'[p[1]][p[2]].rows
    BY <1>2, TableIdsBecome
  <1>5. Rows'[<<current[s], t>>] = x.rows
    BY <1>1, <1>4, FoundTable
  <1>6. ASSUME NEW p \in TableIds, p # <<current[s], t>>  PROVE Rows'[p] = Rows[p]
    <2>1. p = <<p[1], p[2]>> /\ p[1] \in DOMAIN databases /\ p[2] \in DOMAIN databases[p[1]]
      BY TableIdsAre
    <2>2. databases'[p[1]][p[2]] = databases[p[1]][p[2]]
      BY <1>1, <1>6, <2>1
    <2> QED
      BY <1>4, <2>2, TableIdsAre
  <1> QED
    BY <1>3, <1>5, <1>6

LEMMA RowsStay == databases' = databases => Rows' = Rows
  BY DEF Rows, TableIds, TablesOf

LEMMA CreateIsCatalogs ==
  ASSUME SInv, NEW s \in Session, NEW t \in Tables, NEW columns \in Schemas,
         CreateTable(s, t, columns)
  PROVE  TheCatalog!Create(s, <<current[s], t>>)
  <1> DEFINE d == current[s]
             p == <<d, t>>
  <1>1. /\ d \in Names /\ d # NoDatabase /\ ~HasTable(s, t)
        /\ databases' = With(databases, d, With(TablesOf(d), t, NewTable(columns)))
        /\ current' = current /\ reply'.code = 0
    BY Codes DEF CreateTable, Done, SInv, Shape
  <1>2. /\ DOMAIN databases' = DOMAIN databases \cup {d}
        /\ \A e \in DOMAIN databases \ {d} : databases'[e] = databases[e]
        /\ databases'[d] = With(TablesOf(d), t, NewTable(columns))
    BY <1>1 DEF With
  <1>3. /\ DOMAIN databases'[d] = DOMAIN TablesOf(d) \cup {t}
        /\ \A u \in DOMAIN TablesOf(d) \ {t} : databases'[d][u] = databases[d][u]
        /\ databases'[d][t] = NewTable(columns)
    BY <1>2 DEF With, TablesOf
  <1>4. DOMAIN TablesOf(d) = IF d \in DOMAIN databases THEN DOMAIN databases[d] ELSE {}
    BY DEF TablesOf
  <1>5. p \notin TableIds
    BY <1>1, <1>4, TableIdsAre DEF HasTable
  <1>6. \A r : r \in TableIds' <=> r \in TableIds \/ r = p
    <2> TAKE r
    <2>1. ASSUME r \in (Names \cup Predefined) \X Tables
          PROVE  r \in TableIds' <=> r \in TableIds \/ r = p
      <3>1. r = <<r[1], r[2]>>
        BY <2>1
      <3>2. CASE r[1] = d
        BY <1>2, <1>3, <1>4, <2>1, <3>1, <3>2, TableIdsAre, TableIdsBecome
      <3>3. CASE r[1] # d
        BY <1>2, <2>1, <3>1, <3>3, TableIdsAre, TableIdsBecome
      <3> QED
        BY <3>2, <3>3
    <2> QED
      BY <1>1, <2>1, TableIdsAre, TableIdsBecome
  <1>7. Rows'[p] = <<>>
    BY <1>3, <1>6, TableIdsBecome DEF NewTable
  <1>8. ASSUME NEW r \in TableIds  PROVE Rows'[r] = Rows[r]
    <2>1. /\ r = <<r[1], r[2]>> /\ r # p
          /\ r[1] \in DOMAIN databases /\ r[2] \in DOMAIN databases[r[1]]
      BY <1>5, TableIdsAre
    <2>2. databases'[r[1]][r[2]] = databases[r[1]][r[2]]
      <3>1. CASE r[1] = d
        BY <1>3, <1>4, <2>1, <3>1
      <3>2. CASE r[1] # d
        BY <1>2, <2>1, <3>2
      <3> QED
        BY <3>1, <3>2
    <2> QED
      BY <1>6, <2>2, TableIdsAre, TableIdsBecome
  <1>9. DOMAIN Rows = TableIds /\ DOMAIN Rows' = TableIds \cup {p}
    BY <1>6, TableIdsAre, TableIdsBecome
  <1> QED
    BY <1>1, <1>5, <1>7, <1>8, <1>9 DEF TheCatalog!Create, TheCatalog!Others

LEMMA DropIsCatalogs ==
  ASSUME SInv, NEW s \in Session, NEW t \in Tables, DropTable(s, t)
  PROVE  TheCatalog!Drop(s, <<current[s], t>>)
  <1> DEFINE d == current[s]
             p == <<d, t>>
  <1>1. HasTable(s, t) /\ d \in DOMAIN databases /\ t \in DOMAIN databases[d]
    BY TableErrors, CodesAre DEF DropTable, HasTable, TablesOf
  <1>2. /\ databases' = [databases EXCEPT ![d] = [u \in DOMAIN databases[d] \ {t} |-> databases[d][u]]]
        /\ current' = current /\ reply'.code = 0
    BY Codes DEF DropTable, Done
  <1>3. /\ DOMAIN databases' = DOMAIN databases
        /\ \A e \in DOMAIN databases \ {d} : databases'[e] = databases[e]
        /\ DOMAIN databases'[d] = DOMAIN databases[d] \ {t}
        /\ \A u \in DOMAIN databases'[d] : databases'[d][u] = databases[d][u]
    BY <1>1, <1>2 DEF SInv, Shape
  <1>4. \A r : r \in TableIds' <=> r \in TableIds /\ r # p
    <2> TAKE r
    <2>1. ASSUME r \in (Names \cup Predefined) \X Tables
          PROVE  r \in TableIds' <=> r \in TableIds /\ r # p
      <3>1. r = <<r[1], r[2]>>
        BY <2>1
      <3> QED
        BY <1>1, <1>3, <2>1, <3>1, TableIdsAre, TableIdsBecome
    <2> QED
      BY <2>1, TableIdsAre, TableIdsBecome
  <1>5. ASSUME NEW r \in TableIds'  PROVE databases'[r[1]][r[2]].rows = Rows[r]
    <2>1. databases'[r[1]][r[2]] = databases[r[1]][r[2]]
      BY <1>3, TableIdsBecome
    <2> QED
      BY <1>4, <2>1, TableIdsAre
  <1>6. Rows' = [r \in DOMAIN Rows \ {p} |-> Rows[r]]
    BY <1>4, <1>5, TableIdsAre, TableIdsBecome
  <1>7. p \in DOMAIN Rows
    BY <1>1, FoundTable, TableIdsAre DEF SInv
  <1> QED
    BY <1>2, <1>6, <1>7 DEF TheCatalog!Drop, TheCatalog!Others

LEMMA InsertIsCatalogs ==
  ASSUME SInv, NEW s \in Session, NEW q \in Inserts, Insert(s, q)
  PROVE  TheCatalog!Insert(s, <<current[s], q.table>>) /\ <<current[s], q.table>> \in DOMAIN Rows
  <1> DEFINE table == TableOf(s, q.table)
             row == RowFor(q, table)
             longer == [Advanced(q, table) EXCEPT !.rows = Append(@, row)]
             p == <<current[s], q.table>>
  <1>1. /\ HasTable(s, q.table) /\ CountsMatch(q, table) /\ table.next < MaxNext
        /\ Store(s, q.table, longer)
        /\ current' = current /\ reply'.code = 0
    BY TableErrors, Codes, CodesAre DEF Insert
  <1>2. /\ table \in TableRecords /\ p \in TableIds /\ Rows[p] = table.rows
    BY <1>1, FoundTable DEF SInv
  <1>3. /\ row \in Seq(Values) /\ Advanced(q, table) \in TableRecords
    BY <1>1, <1>2, RowIsTyped
  <1>4. /\ table.rows \in Seq(Seq(Values)) /\ longer.rows = Append(table.rows, row)
    BY <1>2, <1>3 DEF Advanced, TableRecords
  <1>5. /\ Len(longer.rows) = Len(table.rows) + 1
        /\ SubSeq(longer.rows, 1, Len(table.rows)) = table.rows
    <2> HIDE DEF longer, row
    <2>1. \A rows \in Seq(Seq(Values)) :
            /\ Len(Append(rows, row)) = Len(rows) + 1
            /\ SubSeq(Append(rows, row), 1, Len(rows)) = rows
      BY <1>3
    <2> QED
      BY <1>4, <2>1
  <1>6. /\ DOMAIN Rows' = DOMAIN Rows /\ DOMAIN Rows = TableIds
        /\ Rows'[p] = longer.rows
        /\ \A r \in DOMAIN Rows \ {p} : Rows'[r] = Rows[r]
    <2> HIDE DEF longer
    <2> QED
      BY <1>1, StoreRows, TableIdsAre DEF SInv
  <1> QED
    <2> HIDE DEF longer, table
    <2> QED
      BY <1>1, <1>2, <1>5, <1>6 DEF TheCatalog!Insert, TheCatalog!Others

\* An INSERT that fails uses numbers up; the rows stay.
LEMMA FailureIsCatalogs ==
  ASSUME SInv, NEW s \in Session, NEW q \in Inserts, InsertFails(s, q)
  PROVE  TheCatalog!Refuse
  <1> DEFINE table == TableOf(s, q.table)
             p == <<current[s], q.table>>
  <1>1. /\ HasTable(s, q.table) /\ Store(s, q.table, Advanced(q, table))
        /\ current' = current /\ reply'.code = 1062
    BY TableErrors, Codes, CodesAre DEF InsertFails
  <1>2. table \in TableRecords /\ p \in TableIds /\ Rows[p] = table.rows
    BY <1>1, FoundTable DEF SInv
  <1>3. Advanced(q, table).rows = table.rows
    BY <1>2 DEF Advanced, TableRecords
  <1>4. /\ DOMAIN Rows' = DOMAIN Rows
        /\ Rows'[p] = Advanced(q, table).rows
        /\ \A r \in DOMAIN Rows \ {p} : Rows'[r] = Rows[r]
    <2> HIDE DEF table
    <2> QED
      BY <1>1, StoreRows DEF SInv
  <1>5. Rows' = Rows
    <2>1. \A r \in DOMAIN Rows : Rows'[r] = Rows[r]
      BY <1>2, <1>3, <1>4
    <2>2. Rows = [r \in DOMAIN Rows |-> Rows[r]] /\ Rows' = [r \in DOMAIN Rows' |-> Rows'[r]]
      BY DEF Rows
    <2> QED
      BY <1>4, <2>1, <2>2
  <1> QED
    BY <1>1, <1>5 DEF TheCatalog!Refuse

LEMMA StepIsCatalogs ==
  ASSUME SInv, [Next]_vars
  PROVE  [TheCatalog!Next]_(TheCatalog!vars)
  <1>1. ASSUME NEW c \in Nat \ {0}, Refuse(c)  PROVE TheCatalog!Refuse
    BY <1>1, Codes, RowsStay DEF Refuse, TheCatalog!Refuse
  <1>2. ASSUME NEW s \in Session, NEW q, Select(s, q)  PROVE TheCatalog!Read
    BY <1>2, Codes, RowsStay DEF Select, TheCatalog!Read
  <1>3. ASSUME NEW s \in Session, ShowTables(s) \/ ShowDatabases  PROVE TheCatalog!Read
    BY <1>3, Codes, RowsStay DEF ShowTables, ShowDatabases, TheCatalog!Read
  <1>4. ASSUME NEW s \in Session, NEW d \in Names, UseDatabase(s, d)  PROVE TheCatalog!Choose(s)
    BY <1>4, Codes, RowsStay DEF UseDatabase, TheCatalog!Choose, SInv, Shape
  <1>5. ASSUME NEW s \in Session, NewSession(s)  PROVE TheCatalog!Choose(s)
    BY <1>5, Codes, RowsStay DEF NewSession, Done, TheCatalog!Choose, SInv, Shape
  <1>6. ASSUME NEW s \in Session,
               \/ \E q \in Selects : SelectRefused(s, q)
               \/ \E q \in Inserts : InsertRefused(s, q)
               \/ \E t \in Tables : CreateRefused(s, t) \/ DropRefused(s, t)
               \/ ShowTablesRefused(s)
        PROVE  TheCatalog!Refuse
    BY <1>1, <1>6, RefusedNumbers, CodesAre
  <1>7. ASSUME NEW s \in Session, NEW q \in Inserts, Insert(s, q)  PROVE TheCatalog!Next
    BY <1>7, InsertIsCatalogs DEF TheCatalog!Next
  <1>8. ASSUME NEW s \in Session, NEW t \in Tables, NEW columns \in Schemas,
               CreateTable(s, t, columns)
        PROVE  TheCatalog!Next
    BY <1>8, CreateIsCatalogs DEF TheCatalog!Next, TheCatalog!Create
  <1>9. ASSUME NEW s \in Session, NEW t \in Tables, DropTable(s, t)  PROVE TheCatalog!Next
    BY <1>9, DropIsCatalogs DEF TheCatalog!Next, TheCatalog!Drop
  <1>10. CASE UNCHANGED vars
    BY <1>10, RowsStay DEF vars, TheCatalog!vars
  <1> QED
    BY <1>2, <1>3, <1>4, <1>5, <1>6, <1>7, <1>8, <1>9, <1>10, FailureIsCatalogs
       DEF Next, TheCatalog!Next

LEMMA InitIsCatalogs == Init => TheCatalog!Init
  <1> SUFFICES ASSUME Init  PROVE TheCatalog!Init
    OBVIOUS
  <1>1. TableIds = {}
    BY TableIdsAre DEF Init
  <1> QED
    BY <1>1, Codes DEF Init, Rows, TheCatalog!Init

\* Every statement is one of module Catalog's: it is refused with nothing changed, reads, or
\* makes, drops or lengthens by one row one table of the session's own database.
THEOREM Implements == Spec => ImplementsCatalog
  BY StorageInvariant, StepIsCatalogs, InitIsCatalogs, PTL
     DEF Spec, ImplementsCatalog, TheCatalog!Spec

-----------------------------------------------------------------------------
(* Conditions: SelectsAsSql and FoundByItsLiteral, for every condition, however *)
(* deep. Evaluation and SqlVerdicts are recursive over the nodes of a condition. *)
(* That every node has the result its definition says (EvaluationUnfolds,      *)
(* VerdictUnfolds), and that the two agree at every node whose evaluation does *)
(* not throw (ConditionAgrees), is shown by the first node for which it would  *)
(* fail: a node's operands come before it. What a node evaluates to must be    *)
(* true exactly when the verdict is 2, and thrown or a truth value; false      *)
(* stands for both 0 and 1, which AND and OR keep apart from 2 alike.          *)

LEMMA ResultDepends ==
  ASSUME NEW w, IsExpression(w), NEW row, NEW columns, NEW k \in DOMAIN w, NEW g, NEW h,
         \A j \in 1 .. k - 1 : g[j] = h[j]
  PROVE  Result(w[k], row, columns, g) = Result(w[k], row, columns, h)
  BY DEF Result, IsExpression

LEMMA EvaluationUnfolds ==
  ASSUME NEW w, IsExpression(w), NEW row, NEW columns, NEW k \in DOMAIN w
  PROVE  LET node == Evaluation(w, row, columns)
         IN  node[k] = Result(w[k], row, columns, node)
  <1> DEFINE n == Len(w)
             Partial(m) == \E g : \A i \in 1 .. m : g[i] = Result(w[i], row, columns, g)
             bad == {m \in 1 .. n : ~Partial(m)}
  <1>1. n \in Nat /\ DOMAIN w = 1 .. n
    BY DEF IsExpression
  <1>2. Partial(0)
    OBVIOUS
  <1>3. bad = {}
    <2> SUFFICES ASSUME bad # {}  PROVE FALSE
      OBVIOUS
    <2> DEFINE m == Min(bad)
    <2>1. m \in bad /\ \A i \in bad : m <= i
      <3> HIDE DEF Partial
      <3> QED
        BY <1>1, FirstExists
    <2>2. m \in 1 .. n /\ ~Partial(m) /\ Partial(m - 1)
      <3> HIDE DEF Partial, m
      <3>1. m \in 1 .. n /\ ~Partial(m)
        BY <2>1
      <3>2. m - 1 = 0 \/ m - 1 \in 1 .. n
        BY <1>1, <3>1
      <3>3. m - 1 \notin bad
        BY <1>1, <2>1, <3>1
      <3> QED
        BY <1>2, <3>1, <3>2, <3>3
    <2> HIDE DEF m
    <2>3. PICK g : \A i \in 1 .. m - 1 : g[i] = Result(w[i], row, columns, g)
      BY <2>2
    <2> DEFINE h == [i \in 1 .. m |-> IF i < m THEN g[i] ELSE Result(w[m], row, columns, g)]
    <2>4. /\ \A i \in 1 .. m - 1 : h[i] = g[i]
          /\ h[m] = Result(w[m], row, columns, g)
      BY <2>2
    <2>5. ASSUME NEW i \in 1 .. m  PROVE h[i] = Result(w[i], row, columns, h)
      <3>1. i \in DOMAIN w /\ \A j \in 1 .. i - 1 : h[j] = g[j]
        BY <1>1, <2>2, <2>4
      <3>2. h[i] = Result(w[i], row, columns, g)
        BY <2>2, <2>3, <2>4
      <3> HIDE DEF h
      <3> QED
        BY <3>1, <3>2, ResultDepends
    <2> HIDE DEF h
    <2> QED
      BY <2>2, <2>5
  <1>4. \E g : g = [i \in DOMAIN w |-> Result(w[i], row, columns, g)]
    <2>1. n = 0 \/ n \in 1 .. n
      BY <1>1
    <2>2. Partial(n)
      BY <1>2, <1>3, <2>1
    <2>3. PICK g : \A i \in DOMAIN w : g[i] = Result(w[i], row, columns, g)
      BY <1>1, <2>2
    <2> DEFINE h == [i \in DOMAIN w |-> g[i]]
    <2>4. ASSUME NEW i \in DOMAIN w  PROVE g[i] = Result(w[i], row, columns, h)
      <3>1. \A j \in 1 .. i - 1 : h[j] = g[j]
        BY <1>1
      <3> HIDE DEF h
      <3> QED
        BY <2>3, <3>1, ResultDepends
    <2>5. h = [i \in DOMAIN w |-> Result(w[i], row, columns, h)]
      BY <2>4
    <2> QED
      BY <2>5
  <1>5. Evaluation(w, row, columns)
          = CHOOSE g : g = [i \in DOMAIN w |-> Result(w[i], row, columns, g)]
    BY DEF Evaluation
  <1>6. Evaluation(w, row, columns)
          = [i \in DOMAIN w |-> Result(w[i], row, columns, Evaluation(w, row, columns))]
    BY <1>4, <1>5
  <1> QED
    BY <1>6

-----------------------------------------------------------------------------
LEMMA VerdictDepends ==
  ASSUME NEW w, IsExpression(w), NEW row, NEW columns, NEW k \in DOMAIN w, NEW g, NEW h,
         \A j \in 1 .. k - 1 : g[j] = h[j]
  PROVE  Verdict(w, k, row, columns, g) = Verdict(w, k, row, columns, h)
  BY DEF Verdict, IsExpression

LEMMA VerdictUnfolds ==
  ASSUME NEW w, IsExpression(w), NEW row, NEW columns, NEW k \in DOMAIN w
  PROVE  LET node == SqlVerdicts(w, row, columns)
         IN  node[k] = Verdict(w, k, row, columns, node)
  <1> DEFINE n == Len(w)
             Partial(m) == \E g : \A i \in 1 .. m : g[i] = Verdict(w, i, row, columns, g)
             bad == {m \in 1 .. n : ~Partial(m)}
  <1>1. n \in Nat /\ DOMAIN w = 1 .. n
    BY DEF IsExpression
  <1>2. Partial(0)
    OBVIOUS
  <1>3. bad = {}
    <2> SUFFICES ASSUME bad # {}  PROVE FALSE
      OBVIOUS
    <2> DEFINE m == Min(bad)
    <2>1. m \in bad /\ \A i \in bad : m <= i
      <3> HIDE DEF Partial
      <3> QED
        BY <1>1, FirstExists
    <2>2. m \in 1 .. n /\ ~Partial(m) /\ Partial(m - 1)
      <3> HIDE DEF Partial, m
      <3>1. m \in 1 .. n /\ ~Partial(m)
        BY <2>1
      <3>2. m - 1 = 0 \/ m - 1 \in 1 .. n
        BY <1>1, <3>1
      <3>3. m - 1 \notin bad
        BY <1>1, <2>1, <3>1
      <3> QED
        BY <1>2, <3>1, <3>2, <3>3
    <2> HIDE DEF m
    <2>3. PICK g : \A i \in 1 .. m - 1 : g[i] = Verdict(w, i, row, columns, g)
      BY <2>2
    <2> DEFINE h == [i \in 1 .. m |-> IF i < m THEN g[i] ELSE Verdict(w, m, row, columns, g)]
    <2>4. /\ \A i \in 1 .. m - 1 : h[i] = g[i]
          /\ h[m] = Verdict(w, m, row, columns, g)
      BY <2>2
    <2>5. ASSUME NEW i \in 1 .. m  PROVE h[i] = Verdict(w, i, row, columns, h)
      <3>1. i \in DOMAIN w /\ \A j \in 1 .. i - 1 : h[j] = g[j]
        BY <1>1, <2>2, <2>4
      <3>2. h[i] = Verdict(w, i, row, columns, g)
        BY <2>2, <2>3, <2>4
      <3> HIDE DEF h
      <3> QED
        BY <3>1, <3>2, VerdictDepends
    <2> HIDE DEF h
    <2> QED
      BY <2>2, <2>5
  <1>4. \E g : g = [i \in DOMAIN w |-> Verdict(w, i, row, columns, g)]
    <2>1. n = 0 \/ n \in 1 .. n
      BY <1>1
    <2>2. Partial(n)
      BY <1>2, <1>3, <2>1
    <2>3. PICK g : \A i \in DOMAIN w : g[i] = Verdict(w, i, row, columns, g)
      BY <1>1, <2>2
    <2> DEFINE h == [i \in DOMAIN w |-> g[i]]
    <2>4. ASSUME NEW i \in DOMAIN w  PROVE g[i] = Verdict(w, i, row, columns, h)
      <3>1. \A j \in 1 .. i - 1 : h[j] = g[j]
        BY <1>1
      <3> HIDE DEF h
      <3> QED
        BY <2>3, <3>1, VerdictDepends
    <2>5. h = [i \in DOMAIN w |-> Verdict(w, i, row, columns, h)]
      BY <2>4
    <2> QED
      BY <2>5
  <1>5. SqlVerdicts(w, row, columns)
          = CHOOSE g : g = [i \in DOMAIN w |-> Verdict(w, i, row, columns, g)]
    BY DEF SqlVerdicts
  <1>6. SqlVerdicts(w, row, columns)
          = [i \in DOMAIN w |-> Verdict(w, i, row, columns, SqlVerdicts(w, row, columns))]
    BY <1>4, <1>5
  <1> QED
    BY <1>6

-----------------------------------------------------------------------------
LEMMA OperandIsTyped ==
  ASSUME NEW e \in Operands, NEW columns \in Seq(ColumnsOf), NEW row \in Seq(Values),
         Len(row) = Len(columns)
  PROVE  Operand(e, row, columns) \in Values \cup {Thrown}
  <1>1. CASE e.kind # "column"
    BY <1>1 DEF Operands, Operand, EvaluateLiteral, Values, Int32, Int64, Text
  <1>2. CASE e.kind = "column" /\ Named(columns, e.name) # {}
    <2>1. FirstNamed(columns, e.name) \in DOMAIN row
      <3>1. Named(columns, e.name) \in SUBSET (1 .. Len(columns)) /\ Len(columns) \in Nat
        BY DEF Named
      <3>2. FirstNamed(columns, e.name) \in Named(columns, e.name)
        BY <1>2, <3>1, FirstExists DEF FirstNamed
      <3> QED
        BY <3>1, <3>2
    <2>2. Operand(e, row, columns) = row[FirstNamed(columns, e.name)]
      BY <1>2 DEF Operand
    <2> QED
      BY <2>1, <2>2
  <1>3. CASE e.kind = "column" /\ Named(columns, e.name) = {}
    BY <1>3 DEF Operand
  <1> QED
    BY <1>1, <1>2, <1>3

\* A comparison of what is Comparable: false stands for false and for unknown.
LEMMA ComparisonAgrees ==
  ASSUME NEW x \in Values \cup {Thrown}, NEW y \in Values \cup {Thrown}, NEW op \in Comparisons,
         Comparable(x, y)
  PROVE  /\ CompareAsSql(x, op, y) \in 0 .. 2
         /\ Thrown \notin {x, y} =>
              /\ CompareValues(x, op, y) \in {Bool(TRUE), Bool(FALSE)}
              /\ CompareValues(x, op, y) = Bool(TRUE) <=> CompareAsSql(x, op, y) = 2
  <1>1. CompareAsSql(x, op, y) \in 0 .. 2
    BY DEF CompareAsSql
  <1>2. Bool(TRUE) # Bool(FALSE)
    BY DEF Bool
  <1>3. ASSUME Thrown \notin {x, y}, ~IsNull(x), ~IsNull(y)
        PROVE  /\ Compared(x, op, y) \in {Bool(TRUE), Bool(FALSE)}
               /\ Compared(x, op, y) = Bool(TRUE) <=> Holds(x, op, y)
    <2>1. /\ x \in Values /\ y \in Values
          /\ x.index \in Int /\ y.index \in Int /\ x.v \in Int /\ y.v \in Int
          /\ x = y <=> x.index = y.index /\ x.v = y.v
      BY <1>3 DEF Values
    <2>2. x.index = y.index \/ (Smallest(x) /\ Smallest(y))
      BY <1>3 DEF Comparable
    <2> HIDE DEF Comparable
    <2>3. (Equal(x, y) <=> x.v = y.v) /\ (Less(x, y) <=> x.v < y.v)
      BY <2>1, <2>2, StorageAssumption DEF Less, Equal, Smallest
    <2>4. \A b \in BOOLEAN : Bool(b) \in {Bool(TRUE), Bool(FALSE)} /\ (Bool(b) = Bool(TRUE) <=> b)
      BY <1>2
    <2>5. Compared(x, op, y) = Bool(Holds(x, op, y))
      <3>1. CASE op \in {"=", "!="}
        BY <2>3, <3>1 DEF Bool, Compared, Holds
      <3>2. CASE op \in {"<", ">="}
        BY <2>1, <2>3, <3>2 DEF Bool, Compared, Holds
      <3>3. CASE op \in {">", "<="}
        BY <2>1, <2>3, <3>3 DEF Bool, Compared, Holds
      <3> QED
        BY <3>1, <3>2, <3>3 DEF Comparisons
    <2>6. Holds(x, op, y) \in BOOLEAN
      <3>1. Holds(x, op, y) \in {x.v = y.v, x.v # y.v, x.v < y.v, x.v > y.v,
                                x.v <= y.v, x.v >= y.v}
        BY DEF Holds
      <3>2. /\ (x.v < y.v) \in BOOLEAN /\ (x.v > y.v) \in BOOLEAN
            /\ (x.v <= y.v) \in BOOLEAN /\ (x.v >= y.v) \in BOOLEAN
        BY <2>1
      <3> QED
        BY <3>1, <3>2
    <2> QED
      BY <2>4, <2>5, <2>6
  <1>4. ASSUME Thrown \notin {x, y}
        PROVE  /\ CompareValues(x, op, y) \in {Bool(TRUE), Bool(FALSE)}
               /\ CompareValues(x, op, y) = Bool(TRUE) <=> CompareAsSql(x, op, y) = 2
    <2>1. CASE IsNull(x) \/ IsNull(y)
      BY <1>2, <2>1 DEF Bool, CompareValues, CompareAsSql
    <2>2. CASE ~IsNull(x) /\ ~IsNull(y)
      BY <1>3, <1>4, <2>2 DEF Bool, CompareValues, CompareAsSql
    <2> QED
      BY <2>1, <2>2
  <1> QED
    BY <1>1, <1>4

LEMMA OfTwo ==
  ASSUME NEW a \in Int, NEW b \in Int
  PROVE  /\ Min({a, b}) = IF a <= b THEN a ELSE b
         /\ Max({a, b}) = IF a >= b THEN a ELSE b
  BY DEF Min, Max

\* Node by node: where the evaluator has an answer, it is true exactly if SQL's is.
LEMMA ConditionAgrees ==
  ASSUME NEW w, IsExpression(w), IsCondition(w), NEW columns \in Seq(ColumnsOf),
         NEW row \in Seq(Values), Len(row) = Len(columns), AllComparable(w, row, columns)
  PROVE  Evaluate(w, row, columns) # Thrown =>
           (Evaluate(w, row, columns) = Bool(TRUE) <=> ThreeValued(w, row, columns) = 2)
  <1> DEFINE n == Len(w)
             node == Evaluation(w, row, columns)
             verdict == SqlVerdicts(w, row, columns)
             Answers(k) == node[k].condition \in {Bool(TRUE), Bool(FALSE), Thrown} /\ verdict[k] \in 0 .. 2
             Same(k) == node[k].condition # Thrown => (node[k].condition = Bool(TRUE) <=> verdict[k] = 2)
             Agree(k) == w[k].kind = "binary" => Answers(k) /\ Same(k)
             bad == {k \in 1 .. n : ~Agree(k)}
  <1>1. /\ n \in Nat /\ DOMAIN w = 1 .. n /\ n \in 1 .. n /\ w[n].kind = "binary"
        /\ \A k \in 1 .. n : w[k] \in Operands \cup Binaries
    BY DEF IsExpression, IsCondition
  <1>2. ASSUME NEW k \in 1 .. n, w[k].kind = "binary", \A j \in 1 .. k - 1 : Agree(j)
        PROVE  Answers(k) /\ Same(k)
    <2> DEFINE op == w[k].op
               l == w[k].left
               r == w[k].right
    <2>1. l \in 1 .. k - 1 /\ r \in 1 .. k - 1 /\ l \in 1 .. n /\ r \in 1 .. n
      BY <1>1, <1>2 DEF IsExpression
    <2>2. node[k] = BinaryResult(op, node[l], node[r])
      BY <1>1, <1>2, EvaluationUnfolds DEF Result
    <2>3. verdict[k] = Verdict(w, k, row, columns, verdict)
      BY <1>1, VerdictUnfolds
    <2>4. CASE op \in {"AND", "OR"}
      <3>1. w[l].kind = "binary" /\ w[r].kind = "binary"
        BY <1>1, <1>2, <2>4 DEF IsCondition
      <3>2. Answers(l) /\ Same(l) /\ Answers(r) /\ Same(r)
        BY <1>2, <2>1, <3>1
      <3> HIDE DEF node, verdict
      <3>3. CASE op = "AND"
        <4>1. node[k].condition = IF node[l].condition = Bool(TRUE) THEN node[r].condition
                                  ELSE node[l].condition
          BY <2>2, <3>3 DEF BinaryResult, Bool
        <4>2. verdict[k] = Min({verdict[l], verdict[r]})
          BY <1>2, <2>3, <3>3 DEF Verdict
        <4>3. verdict[k] = IF verdict[l] <= verdict[r] THEN verdict[l] ELSE verdict[r]
          <5>1. verdict[l] \in Int /\ verdict[r] \in Int
            BY <3>2
          <5> QED
            BY <4>2, <5>1, OfTwo
        <4> QED
          BY <3>2, <4>1, <4>3 DEF Bool, Thrown
      <3>4. CASE op = "OR"
        <4>1. node[k].condition = IF node[l].condition = Bool(FALSE) THEN node[r].condition
                                  ELSE node[l].condition
          BY <2>2, <3>4 DEF BinaryResult, Bool
        <4>2. verdict[k] = Max({verdict[l], verdict[r]})
          BY <1>2, <2>3, <3>4 DEF Verdict
        <4>3. verdict[k] = IF verdict[l] >= verdict[r] THEN verdict[l] ELSE verdict[r]
          <5>1. verdict[l] \in Int /\ verdict[r] \in Int
            BY <3>2
          <5> QED
            BY <4>2, <5>1, OfTwo
        <4> QED
          BY <3>2, <4>1, <4>3 DEF Bool, Thrown
      <3> QED
        BY <2>4, <3>3, <3>4
    <2>5. CASE op \notin {"AND", "OR"}
      <3> DEFINE x == Operand(w[l], row, columns)
                 y == Operand(w[r], row, columns)
      <3>1. op \in Comparisons /\ w[l].kind # "binary" /\ w[r].kind # "binary"
        BY <1>1, <1>2, <2>5 DEF IsCondition
      <3>2. x \in Values \cup {Thrown} /\ y \in Values \cup {Thrown}
        <4>1. w[l] \in Operands /\ w[r] \in Operands
          BY <1>1, <2>1, <3>1 DEF Binaries
        <4> QED
          BY <4>1, OperandIsTyped
      <3>3. node[l].value = x /\ node[r].value = y
        <4>1. node[l] = Result(w[l], row, columns, node) /\ node[r] = Result(w[r], row, columns, node)
          BY <1>1, <2>1, EvaluationUnfolds
        <4> HIDE DEF node
        <4>2. node[l] = OperandResult(w[l], row, columns) /\ node[r] = OperandResult(w[r], row, columns)
          BY <3>1, <4>1 DEF Result
        <4> QED
          BY <4>2 DEF OperandResult
      <3>4. verdict[k] = CompareAsSql(x, op, y)
        BY <1>2, <2>3, <2>5 DEF Verdict
      <3>5. node[k].condition = IF Thrown \in {x, y} THEN Thrown ELSE CompareValues(x, op, y)
        <4> HIDE DEF node
        <4> QED
          BY <2>2, <2>5, <3>3 DEF BinaryResult, Bool
      <3>6. Comparable(x, y)
        BY <1>1, <1>2, <3>1 DEF AllComparable
      <3> HIDE DEF node, verdict, x, y, op
      <3>7. Answers(k)
        BY <3>1, <3>2, <3>4, <3>5, <3>6, ComparisonAgrees DEF Bool
      <3>8. Same(k)
        BY <3>1, <3>2, <3>4, <3>5, <3>6, ComparisonAgrees DEF Bool
      <3> QED
        BY <3>7, <3>8
    <2> QED
      BY <2>4, <2>5
  <1>3. bad = {}
    <2> HIDE DEF Answers, Same
    <2> SUFFICES ASSUME bad # {}  PROVE FALSE
      OBVIOUS
    <2> DEFINE k == Min(bad)
    <2>1. k \in bad /\ \A j \in bad : k <= j
      <3> HIDE DEF Agree
      <3> QED
        BY <1>1, FirstExists
    <2> HIDE DEF k
    <2>2. \A j \in 1 .. k - 1 : Agree(j)
      <3> HIDE DEF Agree
      <3> QED
        BY <1>1, <2>1
    <2> QED
      BY <1>2, <2>1, <2>2
  <1>4. Same(n)
    BY <1>1, <1>3
  <1>5. Evaluate(w, row, columns) = node[n].condition /\ ThreeValued(w, row, columns) = verdict[n]
    BY DEF Evaluate, ThreeValued, IsCondition
  <1> QED
    <2> HIDE DEF node, verdict
    <2> QED
      BY <1>4, <1>5 DEF Bool

\* A SELECT returns the rows SQL's three-valued logic selects, for every condition of AND,
\* OR and comparisons, however deep, that compares values of one type, or integers in their
\* smallest types, in the row.
THEOREM SelectionSafe == Spec => []SelectsAsSql
  <1>1. ASSUME SInv  PROVE SelectsAsSql
    <2> SUFFICES ASSUME NEW p \in TableIds, NEW q \in Selects,
                        IsCondition(q.where), SelectError(q, databases[p[1]][p[2]]) = 0,
                        NEW i \in DOMAIN databases[p[1]][p[2]].rows,
                        AllComparable(q.where, databases[p[1]][p[2]].rows[i],
                                      databases[p[1]][p[2]].columns)
                 PROVE  LET table == databases[p[1]][p[2]]
                        IN  Evaluate(q.where, table.rows[i], table.columns) = Bool(TRUE)
                              <=> ThreeValued(q.where, table.rows[i], table.columns) = 2
      BY DEF SelectsAsSql
    <2> DEFINE table == databases[p[1]][p[2]]
    <2>1. table \in TableRecords /\ Fits(table)
      BY <1>1, TableIdsAre DEF SInv, Shape, AllFit
    <2>2. /\ table.columns \in Seq(ColumnsOf) /\ table.rows[i] \in Seq(Values)
          /\ Len(table.rows[i]) = Len(table.columns)
      BY <2>1, StatementAssumption DEF TableRecords, Fits
    <2>3. Evaluate(q.where, table.rows[i], table.columns) # Thrown
      BY DEF SelectError, Verdicts
    <2>4. IsExpression(q.where)
      BY StatementAssumption
    <2> HIDE DEF table
    <2> QED
      BY <2>2, <2>3, <2>4, ConditionAgrees DEF table
  <1> QED
    BY <1>1, StorageInvariant, PTL

-----------------------------------------------------------------------------
\* A row satisfies <column j> = <literal e> if it holds what evaluateLiteral() makes of e.
LEMMA LiteralFinds ==
  ASSUME NEW columns \in Seq(ColumnsOf), NEW row \in Seq(Values), Len(row) = Len(columns),
         NEW j \in DOMAIN columns, FirstNamed(columns, columns[j].name) = j,
         NEW e \in Operands, e.kind # "column"
  PROVE  Finds(e, j, row, columns) <=> row[j] = EvaluateLiteral(e)
  <1> DEFINE w == Equality(columns[j].name, e)
             x == row[j]
             y == EvaluateLiteral(e)
             node == Evaluation(w, row, columns)
  <1>1. x \in Values /\ columns[j].name \in STRING
    <2>1. columns[j] \in ColumnsOf /\ j \in DOMAIN row
      OBVIOUS
    <2>2. row[j] \in Values
      BY <2>1
    <2> QED
      BY <2>1, <2>2 DEF ColumnsOf
  <1>2. /\ w[1] = [kind |-> "column", name |-> columns[j].name] /\ w[2] = e
        /\ w[3] = [kind |-> "binary", op |-> "=", left |-> 1, right |-> 2]
        /\ Len(w) = 3 /\ DOMAIN w = 1 .. 3
    BY DEF Equality
  <1>3. w[1] \in Operands /\ w[3] \in Binaries /\ e.kind # "binary"
    BY <1>1, <1>2 DEF Operands, Binaries, Operators, Comparisons
  <1>4. w \in Seq(Operands \cup Binaries)
    BY <1>2, <1>3 DEF Equality
  <1>5. IsExpression(w)
    <2>1. \A k \in DOMAIN w : w[k].kind = "binary" => k = 3
      BY <1>2, <1>3
    <2> QED
      BY <1>2, <1>4, <2>1 DEF IsExpression
  <1>6. \A k \in 1 .. 3 : node[k] = Result(w[k], row, columns, node)
    BY <1>2, <1>5, EvaluationUnfolds
  <1> HIDE DEF w
  <1>7. node[1].value = x
    <2>1. Named(columns, columns[j].name) # {}
      BY DEF Named
    <2>2. Operand(w[1], row, columns) = x
      BY <1>2, <2>1 DEF Operand
    <2>3. node[1] = OperandResult(w[1], row, columns)
      BY <1>2, <1>6 DEF Result
    <2> HIDE DEF node
    <2> QED
      BY <2>2, <2>3 DEF OperandResult
  <1>8. node[2].value = y
    <2>1. Operand(e, row, columns) = y
      BY DEF Operand
    <2>2. node[2] = OperandResult(e, row, columns)
      BY <1>2, <1>3, <1>6 DEF Result
    <2> HIDE DEF node, y
    <2> QED
      BY <2>1, <2>2 DEF OperandResult
  <1>9. node[3] = BinaryResult("=", node[1], node[2])
    BY <1>2, <1>6 DEF Result
  <1> HIDE DEF node
  <1>10. y # Null /\ ~IsNull(y) /\ x # Thrown
    BY <1>1 DEF EvaluateLiteral, Operands, Null, IsNull, Int32, Int64, Text, Thrown, Values
  <1>11. node[3].condition = Bool(TRUE) <=> x = y
    <2> HIDE DEF x, y
    <2>1. node[3].condition = IF Thrown \in {x, y} THEN Thrown ELSE CompareValues(x, "=", y)
      BY <1>7, <1>8, <1>9 DEF BinaryResult, Bool
    <2>2. CompareValues(x, "=", y) = IF IsNull(x) THEN Bool(FALSE) ELSE Bool(x = y)
      BY <1>10 DEF CompareValues, Compared, Equal
    <2>3. Thrown # Bool(TRUE) /\ Bool(FALSE) # Bool(TRUE)
      BY DEF Thrown, Bool
    <2>4. CASE y = Thrown
      BY <1>10, <2>1, <2>3, <2>4
    <2>5. CASE y # Thrown /\ IsNull(x)
      BY <1>10, <2>1, <2>2, <2>3, <2>5
    <2>6. CASE y # Thrown /\ ~IsNull(x)
      <3>1. node[3].condition = Bool(x = y)
        BY <1>10, <2>1, <2>2, <2>6
      <3>2. (x = y) \in BOOLEAN
        OBVIOUS
      <3>3. \A b \in BOOLEAN : Bool(b) = Bool(TRUE) <=> b
        BY <2>3
      <3> QED
        BY <3>1, <3>2, <3>3
    <2> QED
      BY <2>4, <2>5, <2>6
  <1>12. Finds(e, j, row, columns) <=> node[3].condition = Bool(TRUE)
    <2>1. w # <<>>
      BY DEF w, Equality
    <2>2. Evaluate(w, row, columns) = node[3].condition
      BY <1>2, <2>1 DEF Evaluate, node
    <2>3. Finds(e, j, row, columns) <=> Evaluate(w, row, columns) = Bool(TRUE)
      BY DEF Finds, w
    <2> QED
      BY <2>2, <2>3
  <1> QED
    BY <1>11, <1>12

\* Where a value of the new row comes from, by what the statement gives.
LEMMA ValueSource ==
  ASSUME NEW q \in Inserts, NEW table \in TableRecords, CountsMatch(q, table),
         NEW i \in DOMAIN table.columns
  PROVE  LET columns == table.columns
             value == ValueFor(q, table, i)
         IN /\ \A e \in Given(q, columns, i) :
                 e \in Operands /\ value = ExpressionToValue(e, columns[i].type)
            /\ Given(q, columns, i) = {} =>
                 IF columns[i].auto_increment
                 THEN \E n \in 0 .. Cardinality(Numbered(q, table)) - 1 :
                        n < i /\ value = Int32(table.next + n)
                 ELSE value = columns[i].default
  <1> DEFINE columns == table.columns
             value == ValueFor(q, table, i)
             numbered == Numbered(q, table)
  <1>1. /\ columns \in Seq(ColumnsOf) /\ Len(columns) \in Nat /\ DOMAIN columns = 1 .. Len(columns)
        /\ q.columns \in Seq(STRING) /\ q.values \in Seq(Operands)
    BY StatementAssumption, ColumnsAreTyped
  <1>2. CASE q.columns = <<>>
    <2>1. Listed(q, columns[i]) = {} /\ i \notin numbered
      BY <1>1, <1>2 DEF Listed, Numbered
    <2>2. value = ExpressionToValue(q.values[i], columns[i].type)
      BY <1>2, <2>1 DEF ValueFor
    <2>3. i \in DOMAIN q.values /\ q.values[i] \in Operands
      BY <1>1, <1>2 DEF CountsMatch
    <2>4. Given(q, columns, i) = {q.values[i]}
      BY <1>2 DEF Given
    <2> HIDE DEF columns, value, numbered
    <2> QED
      BY <2>2, <2>3, <2>4 DEF columns, value
  <1>3. CASE q.columns # <<>> /\ Listed(q, columns[i]) # {}
    <2> DEFINE first == Min(Listed(q, columns[i]))
    <2>1. Listed(q, columns[i]) \in SUBSET (1 .. Len(q.columns)) /\ Len(q.columns) \in Nat
      BY <1>1 DEF Listed
    <2>2. first \in Listed(q, columns[i])
      BY <1>3, <2>1, FirstExists
    <2>3. first \in DOMAIN q.values /\ q.values[first] \in Operands
      BY <1>1, <1>3, <2>1, <2>2 DEF CountsMatch
    <2>4. value = ExpressionToValue(q.values[first], columns[i].type)
      BY <1>3 DEF ValueFor, Numbered
    <2>5. Given(q, columns, i) = {q.values[first]}
      BY <1>3 DEF Given
    <2> HIDE DEF columns, value, numbered, first
    <2> QED
      BY <2>3, <2>4, <2>5 DEF columns, value
  <1>4. CASE q.columns # <<>> /\ Listed(q, columns[i]) = {} /\ columns[i].auto_increment
    <2> DEFINE before == {j \in numbered : j < i}
    <2>1. i \in numbered /\ numbered \in SUBSET (1 .. Len(columns))
      BY <1>1, <1>4 DEF Numbered
    <2>2. IsFiniteSet(numbered)
      <3>1. IsFiniteSet(1 .. Len(columns))
        BY <1>1, FS_Interval
      <3> QED
        BY <2>1, <3>1, FS_Subset
    <2>3. Cardinality(before) \in Nat /\ Cardinality(before) <= Cardinality(numbered) - 1
      <3>1. before \subseteq numbered \ {i}
        BY <1>1, <2>1
      <3>2. IsFiniteSet(numbered \ {i}) /\ Cardinality(numbered \ {i}) = Cardinality(numbered) - 1
        BY <2>1, <2>2, FS_RemoveElement
      <3> HIDE DEF before, numbered
      <3>3. IsFiniteSet(before) /\ Cardinality(before) <= Cardinality(numbered \ {i})
        BY <3>1, <3>2, FS_Subset
      <3> QED
        BY <3>2, <3>3, FS_CardinalityType
    <2>4. Cardinality(before) < i
      <3>1. before \in SUBSET (1 .. i - 1) /\ i - 1 \in Nat
        BY <1>1, <2>1
      <3>2. IsFiniteSet(1 .. i - 1) /\ Cardinality(1 .. i - 1) = i - 1
        BY <3>1, FS_Interval
      <3> HIDE DEF before
      <3>3. Cardinality(before) <= Cardinality(1 .. i - 1)
        BY <3>1, <3>2, FS_Subset
      <3> QED
        BY <1>1, <2>3, <3>2, <3>3
    <2>5. value = Int32(table.next + Cardinality(before))
      BY <1>4, <2>1 DEF ValueFor
    <2>6. Cardinality(numbered) \in Nat
      BY <2>2, FS_CardinalityType
    <2>7. Given(q, columns, i) = {}
      BY <1>4 DEF Given
    <2> HIDE DEF columns, value, numbered, before
    <2>8. Cardinality(before) \in 0 .. Cardinality(numbered) - 1
      BY <2>3, <2>6
    <2> QED
      BY <1>4, <2>4, <2>5, <2>7, <2>8 DEF columns, value, numbered
  <1>5. CASE q.columns # <<>> /\ Listed(q, columns[i]) = {} /\ ~columns[i].auto_increment
    <2>1. i \notin numbered
      BY <1>5 DEF Numbered
    <2>2. value = columns[i].default
      BY <1>5, <2>1 DEF ValueFor
    <2>3. Given(q, columns, i) = {}
      BY <1>5 DEF Given
    <2> HIDE DEF columns, value, numbered
    <2> QED
      BY <1>5, <2>2, <2>3 DEF columns, value
  <1> QED
    BY <1>2, <1>3, <1>4, <1>5

\* A given literal finds the value that is stored for it exactly in the columns FindsGiven has.
LEMMA GivenIsFound ==
  ASSUME NEW e \in Operands, e.kind # "column", NEW type
  PROVE  ExpressionToValue(e, type) = EvaluateLiteral(e) <=> FindsGiven(e, type)
  <1>1. CASE e.kind = "string"
    BY <1>1 DEF Operands, ExpressionToValue, EvaluateLiteral, FindsGiven
  <1>2. CASE e.kind = "number"
    <2>1. e.v \in Nat
      BY <1>2 DEF Operands
    <2>2. \/ e.v <= IntMax /\ EvaluateLiteral(e) = Int32(e.v)
          \/ e.v \in IntMax + 1 .. LongMax /\ EvaluateLiteral(e) = Int64(e.v)
          \/ e.v > LongMax /\ EvaluateLiteral(e) = Thrown
      BY <1>2, <2>1, StorageAssumption DEF EvaluateLiteral
    <2>3. CASE type = "INT"
      BY <1>2, <2>1, <2>2, <2>3, StorageAssumption
         DEF ExpressionToValue, FindsGiven, Int32, Int64, Text, Thrown
    <2>4. CASE type = "BIGINT"
      BY <1>2, <2>1, <2>2, <2>4, StorageAssumption
         DEF ExpressionToValue, FindsGiven, Int32, Int64, Text, Thrown
    <2>5. CASE type \notin {"INT", "BIGINT"}
      BY <1>2, <2>1, <2>2, <2>5
         DEF ExpressionToValue, FindsGiven, Int32, Int64, Float, Double, Text, Thrown
    <2> QED
      BY <2>3, <2>4, <2>5
  <1>3. e.kind \in {"string", "number"}
    BY DEF Operands
  <1> QED
    BY <1>1, <1>2, <1>3

LEMMA NumbersAre ==
  ASSUME NEW m \in Nat, m <= IntMax
  PROVE  /\ NumberLiteral(m) \in Operands /\ NumberLiteral(m).kind # "column"
         /\ EvaluateLiteral(NumberLiteral(m)) = Int32(m)
  <1>1. NumberLiteral(m) \in Operands /\ NumberLiteral(m).kind # "column"
    BY DEF NumberLiteral, Operands
  <1>2. EvaluateLiteral(NumberLiteral(m)) = Int32(m)
    BY StorageAssumption DEF NumberLiteral, EvaluateLiteral
  <1> QED
    BY <1>1, <1>2

\* What an INSERT leaves in its table.
LEMMA InsertAppends ==
  ASSUME SInv, NEW s \in Session, NEW q \in Inserts, Insert(s, q)
  PROVE  LET before == TableOf(s, q.table)
             after == TableOf(s, q.table)'
         IN  /\ before \in TableRecords /\ CountsMatch(q, before) /\ before.next < MaxNext
             /\ after.columns = before.columns
             /\ after.rows[Len(after.rows)] = RowFor(q, before)
             /\ after.next = before.next + Cardinality(Numbered(q, before))
  <1> DEFINE before == TableOf(s, q.table)
             row == RowFor(q, before)
             longer == [Advanced(q, before) EXCEPT !.rows = Append(@, row)]
  <1>1. /\ HasTable(s, q.table) /\ CountsMatch(q, before) /\ before.next < MaxNext
        /\ Store(s, q.table, longer) /\ current' = current
    BY TableErrors, CodesAre DEF Insert
  <1>2. /\ Shape /\ current[s] \in DOMAIN databases /\ q.table \in DOMAIN databases[current[s]]
        /\ before \in TableRecords
    <2>1. Shape
      BY DEF SInv
    <2>2. TableOf(s, q.table) \in TableRecords
      BY <1>1, <2>1, FoundTable
    <2>3. current[s] \in DOMAIN databases /\ q.table \in DOMAIN databases[current[s]]
      BY <1>1 DEF HasTable, TablesOf
    <2> QED
      BY <2>1, <2>2, <2>3
  <1>3. TableOf(s, q.table)' = longer
    <2> HIDE DEF longer
    <2>1. databases'[current[s]][q.table] = longer
      BY <1>1, <1>2 DEF Store
    <2>2. TableOf(s, q.table)' = databases'[current[s]][q.table]
      BY <1>1 DEF TableOf
    <2> QED
      BY <1>2, <2>1, <2>2
  <1>4. row \in Seq(Values) /\ Advanced(q, before) \in TableRecords
    BY <1>1, <1>2, RowIsTyped
  <1>5. /\ before.rows \in Seq(Seq(Values)) /\ longer.rows = Append(before.rows, row)
        /\ longer.columns = before.columns
        /\ longer.next = before.next + Cardinality(Numbered(q, before))
    BY <1>2, <1>4 DEF Advanced, TableRecords
  <1>6. longer.rows[Len(longer.rows)] = row
    <2> HIDE DEF longer, row
    <2>1. \A rows \in Seq(Seq(Values)) : Append(rows, row)[Len(Append(rows, row))] = row
      BY <1>4
    <2> QED
      BY <1>5, <2>1
  <1> QED
    <2> HIDE DEF longer, row
    <2> QED
      BY <1>1, <1>2, <1>3, <1>5, <1>6 DEF row

\* A row is found by the literals of the INSERT that added it, except as FindsGiven and the
\* text of a default have it.
THEOREM LookupSafe == Spec => FoundByItsLiteral
  <1>1. ASSUME SInv, NEW s \in Session, NEW q \in Inserts, Insert(s, q)
        PROVE  FoundByLiterals(q, TableOf(s, q.table), TableOf(s, q.table)')
    <2> DEFINE before == TableOf(s, q.table)
               after == TableOf(s, q.table)'
               columns == before.columns
               row == RowFor(q, before)
    <2>1. /\ before \in TableRecords /\ CountsMatch(q, before) /\ before.next < MaxNext
          /\ after.columns = columns
          /\ after.rows[Len(after.rows)] = row
          /\ after.next = before.next + Cardinality(Numbered(q, before))
      BY <1>1, InsertAppends
    <2> HIDE DEF before, after
    <2>2. /\ columns \in Seq(ColumnsOf) /\ before.next \in Nat /\ Len(columns) \in Nat
          /\ DOMAIN columns = 1 .. Len(columns) /\ MaxNext + Len(columns) <= IntMax
          /\ row \in Seq(Values) /\ Len(row) = Len(columns)
      BY <2>1, ColumnsAreTyped, RowIsTyped
    <2>3. Cardinality(Numbered(q, before)) \in Nat
      <3>1. Numbered(q, before) \in SUBSET DOMAIN columns
        BY DEF Numbered
      <3> QED
        BY <2>1, <3>1, ColumnsAreTyped
    <2>4. ASSUME NEW i \in DOMAIN columns, FirstNamed(columns, columns[i].name) = i
          PROVE  /\ \A e \in Given(q, columns, i) :
                      e.kind # "column" =>
                        (Finds(e, i, row, columns) <=> FindsGiven(e, columns[i].type))
                 /\ Given(q, columns, i) = {} =>
                      IF columns[i].auto_increment
                      THEN \E n \in before.next .. after.next - 1 :
                             Finds(NumberLiteral(n), i, row, columns)
                      ELSE ~IsNull(columns[i].default) =>
                             LET n == columns[i].default.v IN
                               /\ Finds(StringLiteral(n), i, row, columns)
                               /\ n \in Nat => ~Finds(NumberLiteral(n), i, row, columns)
      <3> DEFINE x == ValueFor(q, before, i)
      <3>1. row[i] = x
        BY DEF RowFor
      <3>2. \A e \in Operands : e.kind # "column" =>
              (Finds(e, i, row, columns) <=> x = EvaluateLiteral(e))
        <4> HIDE DEF row, x, columns
        <4> QED
          BY <2>2, <2>4, <3>1, LiteralFinds
      <3>3. /\ \A e \in Given(q, columns, i) :
                 e \in Operands /\ x = ExpressionToValue(e, columns[i].type)
            /\ Given(q, columns, i) = {} =>
                 IF columns[i].auto_increment
                 THEN \E n \in 0 .. Cardinality(Numbered(q, before)) - 1 :
                        n < i /\ x = Int32(before.next + n)
                 ELSE x = columns[i].default
        BY <2>1, ValueSource
      <3> HIDE DEF row, x
      <3>4. ASSUME NEW e \in Given(q, columns, i), e.kind # "column"
            PROVE  Finds(e, i, row, columns) <=> FindsGiven(e, columns[i].type)
        BY <3>2, <3>3, <3>4, GivenIsFound
      <3>5. ASSUME Given(q, columns, i) = {}, columns[i].auto_increment
            PROVE  \E n \in before.next .. after.next - 1 :
                     Finds(NumberLiteral(n), i, row, columns)
        <4>1. PICK n \in 0 .. Cardinality(Numbered(q, before)) - 1 :
                n < i /\ x = Int32(before.next + n)
          BY <3>3, <3>5
        <4> DEFINE m == before.next + n
        <4>2. m \in before.next .. after.next - 1 /\ m \in Nat /\ m <= IntMax
          <5>1. i \in 1 .. Len(columns) /\ n \in Nat
            BY <2>2, <2>3
          <5>2. after.next = before.next + Cardinality(Numbered(q, before))
            BY <2>1
          <5> HIDE DEF columns
          <5> QED
            BY <2>1, <2>2, <2>3, <4>1, <5>1, <5>2, StorageAssumption, SMTT(40)
        <4>3. NumberLiteral(m) \in Operands /\ NumberLiteral(m).kind # "column"
              /\ EvaluateLiteral(NumberLiteral(m)) = Int32(m)
          <5> HIDE DEF m
          <5> QED
            BY <4>2, NumbersAre
        <4>4. Finds(NumberLiteral(m), i, row, columns)
          BY <3>2, <4>1, <4>3
        <4> QED
          BY <4>2, <4>4
      <3>6. ASSUME Given(q, columns, i) = {}, ~columns[i].auto_increment,
                   ~IsNull(columns[i].default), NEW n, n = columns[i].default.v
            PROVE  /\ Finds(StringLiteral(n), i, row, columns)
                   /\ n \in Nat => ~Finds(NumberLiteral(n), i, row, columns)
        <4>1. x = Text(n) /\ n \in Int
          <5>1. columns[i] \in ColumnsOf
            BY <2>2
          <5> QED
            BY <3>3, <3>6, <5>1 DEF ColumnsOf, IsNull, Null, Text
        <4>2. StringLiteral(n) \in Operands /\ StringLiteral(n).kind # "column"
              /\ EvaluateLiteral(StringLiteral(n)) = Text(n)
          BY <4>1 DEF StringLiteral, Operands, EvaluateLiteral
        <4>3. ASSUME n \in Nat
              PROVE  /\ NumberLiteral(n) \in Operands /\ NumberLiteral(n).kind # "column"
                     /\ EvaluateLiteral(NumberLiteral(n)) # Text(n)
          BY <4>3 DEF NumberLiteral, Operands, EvaluateLiteral, Int32, Int64, Text, Thrown
        <4> QED
          BY <3>2, <4>1, <4>2, <4>3
      <3> QED
        BY <3>4, <3>5, <3>6
    <2> HIDE DEF row
    <2> QED
      BY <2>1, <2>4 DEF FoundByLiterals, columns, before, after
  <1> DEFINE Found == Rows' # Rows => \A s \in Session, q \in Inserts :
                Insert(s, q) => FoundByLiterals(q, TableOf(s, q.table), TableOf(s, q.table)')
  <1>2. SInv => Found
    BY <1>1
  <1>3. SInv /\ [Next]_vars => [Found]_vars
    BY <1>2
  <1> QED
    BY <1>3, StorageInvariant, PTL DEF Spec, FoundByItsLiteral

=============================================================================
