-------------------------------- MODULE Parser --------------------------------
(***************************************************************************)
(* Parser::parse() (parser.cpp) on one query. The statement functions are  *)
(* tables: where the function stands, the tokens it consumes there and     *)
(* where each leads, and what it does at any other token (consuming        *)
(* nothing). Expressions, which nest, have a stack of activations of       *)
(* parseBinaryExpression().                                                *)
(*                                                                         *)
(* The text is chosen token by token as the lexer reads it. Tokens that no *)
(* branch tells apart share a name: EQ is any comparison, PLUS also MINUS, *)
(* SLASH also PERCENT, HUGE a NUMBER that std::stoi cannot convert, OTHER  *)
(* every other token. The look-ahead token decides nothing and is left out.*)
(*                                                                         *)
(* QueryCommandHandler answers "empty" with OK, "fail" with error 1064,    *)
(* and executes what is accepted; nothing catches "threw".                 *)
(***************************************************************************)
EXTENDS Integers, Sequences

CONSTANT MaxTokens    \* bound on the tokens of the query

ASSUME ParserAssumption == MaxTokens \in Nat \ {0}

VARIABLES
  pc,       \* where the active function stands, or what parse() returned
  cur,      \* current_token_, its type
  left,     \* tokens the text may still hold
  stack,    \* activations of parseBinaryExpression, the innermost last
  operand   \* how tightly the operand just read binds

vars == <<pc, cur, left, stack, operand>>

Tokens ==
  {"EOF", "SEMICOLON", "SELECT", "INSERT", "CREATE", "DROP", "SHOW", "USE",
   "FROM", "WHERE", "LIMIT", "INTO", "VALUES", "TABLE", "TABLES", "DATABASES",
   "PRIMARY", "KEY", "NOT", "NULL", "AUTO_INCREMENT", "DEFAULT",
   "OR", "AND", "EQ", "PLUS", "ASTERISK", "SLASH",
   "COMMA", "LPAREN", "RPAREN", "IDENTIFIER", "NUMBER", "HUGE", "STRING", "OTHER"}

\* getPrecedence(): what is no operator has precedence 0.
GetPrecedence(t) ==
  CASE t = "OR" -> 1 [] t = "AND" -> 2 [] t = "EQ" -> 3 [] t = "PLUS" -> 4
    [] t \in {"ASTERISK", "SLASH"} -> 5 [] OTHER -> 0

Atom == 6       \* the operand of no operator binds tighter than every operator
NoOp == -1

-----------------------------------------------------------------------------
(* The statement functions *)

\* A row of a table: what is consumed at a place and where each token leads, else where
\* the function goes on. Expect: expectAndNext().
At(place, on, other) == [place |-> place, on |-> on, other |-> other]
Expect(place, t, next) == At(place, {<<t, next>>}, "fail")
AnyToken(place, next) == At(place, Tokens \X {next}, "fail")

Dispatch ==
  { At("start",
       { <<"SEMICOLON", "start">>, <<"EOF", "empty">>, <<"SELECT", "select">>,
         <<"INSERT", "insert">>, <<"CREATE", "create">>, <<"DROP", "drop">>,
         <<"SHOW", "show">>, <<"USE", "use">> }, "fail") }

SelectStatement ==
  { At("select", {<<"ASTERISK", "from">>}, "column"),
    At("columnEnd", {<<"COMMA", "column">>}, "from"),
    At("from", {<<"FROM", "fromTable">>}, "whereOpt"),
    Expect("fromTable", "IDENTIFIER", "whereOpt"),
    At("whereOpt", {<<"WHERE", "where">>}, "limitOpt"),
    At("limitOpt", {<<"LIMIT", "limit">>}, "accept"),
    At("limit", {<<"NUMBER", "accept">>, <<"HUGE", "threw">>}, "fail") }

InsertStatement ==
  { Expect("insert", "INTO", "insertTable"),
    Expect("insertTable", "IDENTIFIER", "columnsOpt"),
    At("columnsOpt", {<<"LPAREN", "columnName">>}, "values"),
    Expect("columnName", "IDENTIFIER", "columnNext"),
    At("columnNext", {<<"COMMA", "columnName">>, <<"RPAREN", "values">>}, "fail"),
    Expect("values", "VALUES", "valuesOpen"),
    Expect("valuesOpen", "LPAREN", "value"),
    At("valueEnd", {<<"COMMA", "value">>, <<"RPAREN", "accept">>}, "fail") }

\* What may follow a column's type. (Mutant: a token that is no constraint is skipped.)
ConstraintSkipping ==
  At("constraint",
     {<<"COMMA", "definition">>, <<"RPAREN", "accept">>}
     \cup (Tokens \ {"COMMA", "RPAREN"}) \X {"constraint"}, "fail")
Constraint ==
  At("constraint",
     { <<"PRIMARY", "primaryKey">>, <<"NOT", "notNull">>, <<"AUTO_INCREMENT", "constraint">>,
       <<"DEFAULT", "default">>, <<"COMMA", "definition">>, <<"RPAREN", "accept">> }, "fail")

\* The type of a column and its DEFAULT are whatever token stands there.
CreateTableStatement ==
  { Expect("create", "TABLE", "newTable"),
    Expect("newTable", "IDENTIFIER", "createOpen"),
    Expect("createOpen", "LPAREN", "definition"),
    At("definition", {<<"RPAREN", "accept">>, <<"IDENTIFIER", "type">>}, "fail"),
    AnyToken("type", "constraint"),
    Constraint,
    At("primaryKey", {<<"KEY", "constraint">>}, "constraint"),
    At("notNull", {<<"NULL", "constraint">>}, "constraint"),
    AnyToken("default", "constraint") }

DropTableStatement ==
  {Expect("drop", "TABLE", "dropTable"), Expect("dropTable", "IDENTIFIER", "accept")}

ShowStatement == {At("show", {<<"TABLES", "accept">>, <<"DATABASES", "accept">>}, "fail")}

UseStatement == {Expect("use", "IDENTIFIER", "accept")}

\* After a parenthesised expression, in parsePrimaryExpression().
CloseParen == {Expect("rparen", "RPAREN", "operand")}

Table ==
  Dispatch \cup SelectStatement \cup InsertStatement \cup CreateTableStatement
  \cup DropTableStatement \cup ShowStatement \cup UseStatement \cup CloseParen

\* Where parseExpression() is called, and where its caller goes on.
ExpressionCalls == {<<"column", "columnEnd">>, <<"where", "limitOpt">>, <<"value", "valueEnd">>}

Returned == {"accept", "empty", "fail", "threw"}

Places ==
  {row.place : row \in Table} \cup {call[1] : call \in ExpressionCalls} \cup Returned
  \cup {"primary", "operand", "combine"}

-----------------------------------------------------------------------------
\* The lexer's next token; at the end of the text, EOF for ever.
NextToken ==
  \/ cur' = "EOF" /\ left' = 0
  \/ left > 0 /\ cur' \in Tokens \ {"EOF"} /\ left' = left - 1

\* addError() and return nullptr: every caller returns nullptr in its turn.
Fail == pc' = "fail" /\ stack' = <<>> /\ operand' = Atom /\ UNCHANGED <<cur, left>>

\* A token of the table stands here: consume it.
Consume ==
  \E row \in Table :
    /\ pc = row.place
    /\ \E move \in row.on : cur = move[1] /\ pc' = move[2]
    /\ operand' = Atom
    /\ NextToken
    /\ UNCHANGED stack

\* Another token stands here: the clause is absent, or the statement is malformed.
Otherwise ==
  \E row \in Table :
    /\ pc = row.place /\ \A move \in row.on : cur # move[1]
    /\ IF row.other = "fail" THEN Fail
       ELSE pc' = row.other /\ UNCHANGED <<cur, left, stack, operand>>

-----------------------------------------------------------------------------
(* Expressions. An activation: parseBinaryExpression(prec, left), the operator it has   *)
(* consumed (its precedence, or NoOp), how tightly its left operand binds, and where   *)
(* its result goes.                                                                     *)

Activation(prec, ret) == [prec |-> prec, op |-> NoOp, left |-> Atom, ret |-> ret]
WithOperator(a, op, l) == [a EXCEPT !.op = op, !.left = l]

top == stack[Len(stack)]
Below == SubSeq(stack, 1, Len(stack) - 1)

\* parseExpression(): a primary, then parseBinaryExpression(0, it).
CallExpression ==
  /\ \E call \in ExpressionCalls :
       pc = call[1] /\ stack' = Append(stack, Activation(0, call[2]))
  /\ pc' = "primary"
  /\ UNCHANGED <<cur, left, operand>>

\* parsePrimaryExpression() on an identifier, a literal or *.
SimplePrimary ==
  /\ pc = "primary" /\ cur \in {"IDENTIFIER", "NUMBER", "HUGE", "STRING", "ASTERISK"}
  /\ pc' = "operand"
  /\ operand' = Atom
  /\ NextToken
  /\ UNCHANGED stack

\* parsePrimaryExpression() on a parenthesis: another parseExpression().
ParenPrimary ==
  /\ pc = "primary" /\ cur = "LPAREN"
  /\ stack' = Append(stack, Activation(0, "rparen"))
  /\ NextToken
  /\ UNCHANGED <<pc, operand>>

BadPrimary ==
  /\ pc = "primary"
  /\ cur \notin {"IDENTIFIER", "NUMBER", "HUGE", "STRING", "ASTERISK", "LPAREN"}
  /\ Fail

\* The loop's head: an operator that binds at least as tightly as `prec` is consumed.
TakeOperator ==
  /\ pc = "operand" /\ top.op = NoOp
  /\ GetPrecedence(cur) >= top.prec
  /\ stack' = Append(Below, WithOperator(top, GetPrecedence(cur), operand))
  /\ pc' = "primary"
  /\ NextToken
  /\ UNCHANGED operand

\* The loop's head: any other token ends it.
ReturnLeft ==
  /\ pc = "operand" /\ top.op = NoOp
  /\ GetPrecedence(cur) < top.prec
  /\ pc' = top.ret
  /\ stack' = Below
  /\ UNCHANGED <<cur, left, operand>>

\* The operator after the right operand is tighter: the right operand goes on.
\* (Mutant: at the same precedence.)
ExtendRightSame ==
  /\ pc = "operand" /\ top.op # NoOp
  /\ top.op < GetPrecedence(cur)
  /\ stack' = Append(stack, Activation(top.op, "combine"))
  /\ UNCHANGED <<pc, cur, left, operand>>

ExtendRight ==
  /\ pc = "operand" /\ top.op # NoOp
  /\ top.op < GetPrecedence(cur)
  /\ stack' = Append(stack, Activation(top.op + 1, "combine"))
  /\ UNCHANGED <<pc, cur, left, operand>>

\* left = BinaryExpression(left, op, right). (Mutant: also before an operator is read.)
CombineUnread ==
  /\ pc = "combine" \/ (pc = "operand" /\ top.op >= GetPrecedence(cur) - 1)
  /\ stack' = Append(Below, [top EXCEPT !.op = NoOp])
  /\ operand' = top.op
  /\ pc' = "operand"
  /\ UNCHANGED <<cur, left>>

Combine ==
  /\ pc = "combine" \/ (pc = "operand" /\ top.op # NoOp /\ top.op >= GetPrecedence(cur))
  /\ stack' = Append(Below, [top EXCEPT !.op = NoOp])
  /\ operand' = top.op
  /\ pc' = "operand"
  /\ UNCHANGED <<cur, left>>

-----------------------------------------------------------------------------
\* The constructor has read the first token.
Init ==
  /\ pc = "start"
  /\ \/ cur = "EOF" /\ left = 0
     \/ cur \in Tokens \ {"EOF"} /\ left = MaxTokens - 1
  /\ stack = <<>>
  /\ operand = Atom

Next ==
  \/ Consume \/ Otherwise
  \/ CallExpression \/ SimplePrimary \/ ParenPrimary \/ BadPrimary
  \/ TakeOperator \/ ReturnLeft \/ ExtendRight \/ Combine

Spec == Init /\ [][Next]_vars

\* One thread runs parse() to its return.
FairSpec == Spec /\ WF_vars(Next)

-----------------------------------------------------------------------------
(* Properties *)

\* Every location is one of a table, of the expression functions, or a return value of
\* parse(), and activations hold what getPrecedence() can give.
TypeOK ==
  /\ pc \in Places
  /\ cur \in Tokens
  /\ left \in 0 .. MaxTokens
  /\ operand \in 0 .. Atom
  /\ \A i \in 1 .. Len(stack) :
       /\ stack[i].prec \in 0 .. Atom /\ stack[i].op \in NoOp .. 5
       /\ stack[i].left \in 0 .. Atom
       /\ stack[i].ret \in Places

\* The tree parseBinaryExpression() builds is the one the precedences define: an operator
\* is applied to a left operand that binds at least as tightly (operators of one
\* precedence group to the left) and to a right operand that binds tighter.
TreeFollowsPrecedence ==
  [][Combine => top.left >= top.op /\ operand > top.op]_vars

\* parse() returns on every query: its loops over columns, constraints, values and
\* operators leave on a text that ends in the middle, where the lexer repeats EOF.
ParserEnds == <>(pc \in Returned)

=============================================================================
