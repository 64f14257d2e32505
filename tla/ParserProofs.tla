----------------------------- MODULE ParserProofs -----------------------------
(***************************************************************************)
(* Parser::parse() for a query of any length: its types, that the tree     *)
(* follows the precedences, and that no expression ends.                   *)
(*                                                                         *)
(* That the tree has its shape is a fact about one activation of           *)
(* parseBinaryExpression() and the operand that reaches it, but where the  *)
(* operand comes from is another's business: the invariant (PInv) says     *)
(* what each activation was promised by the one that called it (Nests) and *)
(* what it has found itself (Taken), for all of the stack.                 *)
(***************************************************************************)
EXTENDS Parser, SequenceTheorems, TLAPS

Inner == {"primary", "operand", "combine"}

-----------------------------------------------------------------------------
(* The tables *)

RowFits(row) ==
  /\ row.place \notin Inner \cup Returned \cup {"column", "where", "value"}
  /\ \A move \in row.on : /\ move[2] \in Places \ {"primary", "combine", "rparen"}
                          /\ move[2] = "operand" => row.place = "rparen"
  /\ row.other \in Places \ (Inner \cup {"rparen"})

LEMMA PlacesOfTables ==
  {"empty", "select", "insert", "create", "drop", "show", "use", "start",
   "from", "column", "columnEnd", "fromTable", "whereOpt", "where", "limitOpt", "limit",
   "insertTable", "columnsOpt", "columnName", "columnNext", "values", "valuesOpen", "value",
   "valueEnd", "newTable", "createOpen", "definition", "type", "constraint", "primaryKey",
   "notNull", "default", "dropTable", "rparen", "accept", "fail", "threw"}
  \cup Inner \subseteq Places
  <1> DEFINE P == {row.place : row \in Table}
  <1>1. "start" \in P
    <2>1. {row.place : row \in Dispatch} \subseteq P
      BY DEF Table
    <2> QED
      BY <2>1 DEF Dispatch, At
  <1>2. {"select", "columnEnd", "from", "fromTable", "whereOpt", "limitOpt", "limit"} \subseteq P
    <2>1. {row.place : row \in SelectStatement} \subseteq P
      BY DEF Table
    <2> QED
      BY <2>1 DEF SelectStatement, At, Expect
  <1>3. {"insert", "insertTable", "columnsOpt", "columnName", "columnNext", "values",
         "valuesOpen", "valueEnd"} \subseteq P
    <2>1. {row.place : row \in InsertStatement} \subseteq P
      BY DEF Table
    <2> QED
      BY <2>1 DEF InsertStatement, At, Expect
  <1>4. {"create", "newTable", "createOpen", "definition", "type", "constraint", "primaryKey",
         "notNull", "default"} \subseteq P
    <2>1. {row.place : row \in CreateTableStatement} \subseteq P
      BY DEF Table
    <2> QED
      BY <2>1 DEF CreateTableStatement, At, Expect, AnyToken, Constraint
  <1>5. {"drop", "dropTable", "show", "use", "rparen"} \subseteq P
    <2>1. {row.place : row \in DropTableStatement \cup ShowStatement \cup UseStatement \cup CloseParen}
            \subseteq P
      BY DEF Table
    <2> QED
      BY <2>1 DEF DropTableStatement, ShowStatement, UseStatement, CloseParen, At, Expect
  <1>6. {"column", "where", "value"} \subseteq {call[1] : call \in ExpressionCalls}
    BY DEF ExpressionCalls
  <1> HIDE DEF P
  <1>7. P \cup {call[1] : call \in ExpressionCalls} \cup Returned \cup Inner \subseteq Places
    BY DEF P, Places, Inner
  <1> QED
    BY <1>1, <1>2, <1>3, <1>4, <1>5, <1>6, <1>7 DEF Returned

LEMMA RowsFit == \A row \in Table : RowFits(row)
  <1>1. \A row \in Dispatch : RowFits(row)
    BY PlacesOfTables DEF Dispatch, At, RowFits, Inner, Returned
  <1>2. \A row \in SelectStatement : RowFits(row)
    BY PlacesOfTables DEF SelectStatement, At, Expect, RowFits, Inner, Returned
  <1>3. \A row \in InsertStatement : RowFits(row)
    BY PlacesOfTables DEF InsertStatement, At, Expect, RowFits, Inner, Returned
  <1>4. \A row \in CreateTableStatement : RowFits(row)
    BY PlacesOfTables DEF CreateTableStatement, At, Expect, AnyToken, Constraint, RowFits, Inner, Returned
  <1>5. \A row \in DropTableStatement \cup ShowStatement \cup UseStatement \cup CloseParen : RowFits(row)
    BY PlacesOfTables
    DEF DropTableStatement, ShowStatement, UseStatement, CloseParen, At, Expect, RowFits, Inner, Returned
  <1> QED
    BY <1>1, <1>2, <1>3, <1>4, <1>5 DEF Table

LEMMA CallsFit ==
  \A call \in ExpressionCalls : call[2] \in Places \ (Inner \cup {"rparen"})
  BY PlacesOfTables DEF ExpressionCalls, Inner

-----------------------------------------------------------------------------
(* The invariant *)

Activations == [prec : 0 .. 5, op : NoOp .. 5, left : 0 .. Atom, ret : Places]

\* What the loop knows of its operator: it was allowed to take it, and the left operand
\* binds at least as tightly.
Taken(a) == a.op # NoOp => a.op >= a.prec /\ a.left >= a.op

\* An activation that is begun by no operator is parseExpression()'s.
Outer(a) == a.ret # "combine" => a.prec = 0

\* An activation b that a began for its right operand looks for tighter operators.
Nests(a, b) == b.ret = "combine" => a.op # NoOp /\ b.prec = a.op + 1

StackInv ==
  /\ stack \in Seq(Activations)
  /\ \A i \in 1 .. Len(stack) :
       Taken(stack[i]) /\ Outer(stack[i]) /\ stack[i].ret \notin {"primary", "operand"}
  /\ \A i \in 2 .. Len(stack) : Nests(stack[i - 1], stack[i])
  /\ stack # <<>> => stack[1].ret \notin {"combine", "rparen"}

\* What is known of the operand just read, and of the token behind it.
OperandInv ==
  /\ pc \in Inner \cup {"rparen"} => stack # <<>>
  /\ pc = "operand" /\ top.op = NoOp => operand >= GetPrecedence(cur) /\ operand >= top.prec
  /\ pc = "operand" /\ top.op # NoOp => operand = Atom
  /\ pc = "combine" => /\ top.op # NoOp /\ operand > top.op
                       /\ top.op >= GetPrecedence(cur)

PInv == TypeOK /\ StackInv /\ OperandInv

LEMMA PrecedenceRange == \A t \in Tokens : GetPrecedence(t) \in 0 .. 5
  BY DEF GetPrecedence

LEMMA StackOps ==
  ASSUME StackInv, stack # <<>>
  PROVE  /\ Len(stack) \in Nat /\ Len(stack) >= 1 /\ top \in Activations
         /\ Below \in Seq(Activations) /\ Len(Below) = Len(stack) - 1
         /\ \A i \in 1 .. Len(stack) - 1 : Below[i] = stack[i]
  <1>1. stack \in Seq(Activations) /\ Len(stack) \in Nat /\ Len(stack) >= 1
    BY EmptySeq DEF StackInv
  <1>2. top \in Activations
    BY <1>1 DEF top
  <1>3. Below \in Seq(Activations) /\ Len(Below) = Len(stack) - 1
        /\ \A i \in 1 .. Len(stack) - 1 : Below[i] = stack[i]
    <2> DEFINE m == Len(stack) - 1
    <2>1. m \in Nat /\ 1 \in Int /\ \A i \in 1 .. m : stack[i] \in Activations
      BY <1>1
    <2>2. Below = SubSeq(stack, 1, m)
      BY DEF Below
    <2> HIDE DEF m
    <2>3. /\ SubSeq(stack, 1, m) \in Seq(Activations)
          /\ Len(SubSeq(stack, 1, m)) = IF 1 <= m THEN m - 1 + 1 ELSE 0
          /\ \A i \in 1 .. m - 1 + 1 : SubSeq(stack, 1, m)[i] = stack[1 + i - 1]
      BY <2>1, SubSeqProperties
    <2>4. Below \in Seq(Activations) /\ Len(Below) = m /\ \A i \in 1 .. m : Below[i] = stack[i]
      BY <2>1, <2>2, <2>3
    <2> QED
      BY <2>4 DEF m
  <1> QED
    BY <1>1, <1>2, <1>3

LEMMA TakesIts ==
  ASSUME NEW act \in Activations, NEW p \in 0 .. 5, NEW l \in 0 .. Atom
  PROVE  LET b == WithOperator(act, p, l)
         IN  /\ b \in Activations /\ b.op = p /\ b.left = l
             /\ b.ret = act.ret /\ b.prec = act.prec
  <1> DEFINE c == [act EXCEPT !.op = p]
             b == [c EXCEPT !.left = l]
  <1>1. c \in Activations /\ c.op = p /\ c.ret = act.ret /\ c.prec = act.prec
    BY DEF Activations, NoOp
  <1>2. b = WithOperator(act, p, l)
    BY DEF Activations, WithOperator
  <1> HIDE DEF c
  <1>3. b \in Activations /\ b.op = c.op /\ b.left = l /\ b.ret = c.ret /\ b.prec = c.prec
    BY <1>1 DEF Activations
  <1> HIDE DEF b
  <1> QED
    BY <1>1, <1>2, <1>3

\* A new activation on the stack.
LEMMA PushKeeps ==
  ASSUME StackInv, NEW a \in Activations, stack' = Append(stack, a), Taken(a), Outer(a),
         a.ret \notin {"primary", "operand"},
         stack # <<>> => Nests(top, a),
         stack = <<>> => a.ret \notin {"combine", "rparen"}
  PROVE  StackInv' /\ stack' # <<>> /\ top' = a
  <1> DEFINE n == Len(stack)
  <1>1. stack \in Seq(Activations) /\ n \in Nat
    BY DEF StackInv
  <1>2. /\ stack' \in Seq(Activations) /\ Len(stack') = n + 1 /\ stack'[n + 1] = a
        /\ \A i \in 1 .. n : stack'[i] = stack[i]
    BY <1>1, AppendProperties
  <1>3. stack' # <<>> /\ top' = a
    BY <1>1, <1>2 DEF top
  <1>4. \A i \in 1 .. n + 1 :
          Taken(stack'[i]) /\ Outer(stack'[i]) /\ stack'[i].ret \notin {"primary", "operand"}
    BY <1>1, <1>2 DEF StackInv
  <1>5. \A i \in 2 .. n + 1 : Nests(stack'[i - 1], stack'[i])
    <2> SUFFICES ASSUME NEW i \in 2 .. n + 1  PROVE Nests(stack'[i - 1], stack'[i])
      OBVIOUS
    <2>1. CASE i = n + 1
      <3>1. stack # <<>> /\ stack'[i - 1] = top
        BY <1>1, <1>2, <2>1 DEF top
      <3> QED
        BY <1>2, <2>1, <3>1
    <2>2. CASE i \in 2 .. n
      <3>1. stack'[i - 1] = stack[i - 1] /\ stack'[i] = stack[i]
        BY <1>1, <1>2, <2>2
      <3> QED
        BY <2>2, <3>1 DEF StackInv
    <2> QED
      BY <1>1, <2>1, <2>2
  <1>6. stack'[1].ret \notin {"combine", "rparen"}
    <2>1. CASE n = 0
      BY <1>1, <1>2, <2>1, EmptySeq
    <2>2. CASE n # 0
      BY <1>1, <1>2, <2>2 DEF StackInv
    <2> QED
      BY <2>1, <2>2
  <1> QED
    BY <1>2, <1>3, <1>4, <1>5, <1>6 DEF StackInv, Taken, Outer, Nests

\* Another activation in the place of the innermost.
LEMMA ReplaceKeeps ==
  ASSUME StackInv, stack # <<>>, NEW a \in Activations, stack' = Append(Below, a), Taken(a),
         a.ret = top.ret, a.prec = top.prec
  PROVE  StackInv' /\ stack' # <<>> /\ top' = a
  <1> DEFINE n == Len(stack)
  <1>1. /\ n \in Nat /\ n >= 1 /\ Below \in Seq(Activations) /\ Len(Below) = n - 1
        /\ \A i \in 1 .. n - 1 : Below[i] = stack[i]
    BY StackOps
  <1>2. /\ stack' \in Seq(Activations) /\ Len(stack') = n /\ stack'[n] = a
        /\ \A i \in 1 .. n - 1 : stack'[i] = stack[i]
    BY <1>1, AppendProperties
  <1>3. stack' # <<>> /\ top' = a
    BY <1>1, <1>2 DEF top
  <1>4. \A i \in 1 .. n :
          Taken(stack'[i]) /\ Outer(stack'[i]) /\ stack'[i].ret \notin {"primary", "operand"}
    <2>1. top.ret \notin {"primary", "operand"} /\ Outer(top)
      BY <1>1 DEF StackInv, top
    <2>2. \A i \in 1 .. n - 1 :
            Taken(stack'[i]) /\ Outer(stack'[i]) /\ stack'[i].ret \notin {"primary", "operand"}
      <3> SUFFICES ASSUME NEW i \in 1 .. n - 1
                   PROVE  /\ Taken(stack'[i]) /\ Outer(stack'[i])
                          /\ stack'[i].ret \notin {"primary", "operand"}
        OBVIOUS
      <3>1. stack'[i] = stack[i] /\ i \in 1 .. Len(stack)
        BY <1>1, <1>2
      <3>2. Taken(stack[i]) /\ Outer(stack[i]) /\ stack[i].ret \notin {"primary", "operand"}
        BY <3>1 DEF StackInv
      <3> QED
        BY <3>1, <3>2
    <2>3. Taken(stack'[n]) /\ Outer(stack'[n]) /\ stack'[n].ret \notin {"primary", "operand"}
      BY <1>2, <2>1 DEF Outer
    <2> QED
      BY <1>1, <2>2, <2>3
  <1>5. \A i \in 2 .. n : Nests(stack'[i - 1], stack'[i])
    <2> SUFFICES ASSUME NEW i \in 2 .. n  PROVE Nests(stack'[i - 1], stack'[i])
      OBVIOUS
    <2>1. stack'[i - 1] = stack[i - 1] /\ Nests(stack[i - 1], stack[i])
      BY <1>1, <1>2 DEF StackInv
    <2>2. stack'[i].ret = stack[i].ret /\ stack'[i].prec = stack[i].prec
      BY <1>1, <1>2 DEF top
    <2> QED
      BY <2>1, <2>2 DEF Nests
  <1>6. stack'[1].ret = stack[1].ret
    BY <1>1, <1>2 DEF top
  <1> QED
    BY <1>2, <1>3, <1>4, <1>5, <1>6 DEF StackInv, Taken, Outer, Nests

\* The innermost activation returns.
LEMMA PopKeeps ==
  ASSUME StackInv, stack # <<>>, stack' = Below
  PROVE  /\ StackInv'
         /\ top.ret \in {"combine", "rparen"} => stack' # <<>> /\ Nests(top', top)
  <1> DEFINE n == Len(stack)
  <1>1. /\ n \in Nat /\ n >= 1 /\ Below \in Seq(Activations) /\ Len(Below) = n - 1
        /\ \A i \in 1 .. n - 1 : Below[i] = stack[i]
    BY StackOps
  <1>2. StackInv'
    BY <1>1 DEF StackInv, Taken, Outer, Nests
  <1>3. ASSUME top.ret \in {"combine", "rparen"}  PROVE stack' # <<>> /\ Nests(top', top)
    <2>1. n >= 2
      BY <1>1, <1>3 DEF StackInv, top
    <2>2. top' = stack[n - 1] /\ stack' # <<>>
      BY <1>1, <2>1 DEF top
    <2> QED
      BY <1>1, <2>1, <2>2 DEF StackInv, top
  <1> QED
    BY <1>2, <1>3

-----------------------------------------------------------------------------
(* The steps *)

LEMMA InitInv == Init => PInv
  <1> SUFFICES ASSUME Init  PROVE PInv
    OBVIOUS
  <1>1. MaxTokens \in Nat /\ MaxTokens >= 1
    BY ParserAssumption
  <1>2. cur \in Tokens /\ left \in 0 .. MaxTokens
    BY <1>1 DEF Init, Tokens
  <1>3. pc \in Places /\ pc \notin Inner \cup {"rparen"} /\ operand \in 0 .. Atom /\ stack = <<>>
    BY PlacesOfTables DEF Init, Inner, Atom
  <1>4. TypeOK
    BY <1>2, <1>3 DEF TypeOK
  <1>5. StackInv
    BY <1>3 DEF StackInv
  <1>6. OperandInv
    BY <1>3 DEF OperandInv, Inner
  <1> QED
    BY <1>4, <1>5, <1>6 DEF PInv

\* The types follow from those of the parts.
LEMMA TypesSuffice ==
  ASSUME StackInv', pc' \in Places, cur' \in Tokens, left' \in 0 .. MaxTokens,
         operand' \in 0 .. Atom
  PROVE  TypeOK'
  <1>1. \A i \in 1 .. Len(stack') : stack'[i] \in Activations
    BY DEF StackInv
  <1>2. \A a \in Activations :
          /\ a.prec \in 0 .. Atom /\ a.op \in NoOp .. 5 /\ a.left \in 0 .. Atom /\ a.ret \in Places
    BY DEF Activations, Atom, NoOp
  <1> QED
    BY <1>1, <1>2 DEF TypeOK

LEMMA NextTokenTypes ==
  ASSUME NextToken, left \in 0 .. MaxTokens
  PROVE  cur' \in Tokens /\ left' \in 0 .. MaxTokens
  BY ParserAssumption DEF NextToken, Tokens

LEMMA FailKeeps ==
  ASSUME PInv, Fail
  PROVE  PInv'
  <1>1. pc' = "fail" /\ stack' = <<>> /\ operand' = Atom /\ cur' = cur /\ left' = left
    BY DEF Fail
  <1>2. StackInv'
    BY <1>1 DEF StackInv
  <1>3. OperandInv'
    BY <1>1 DEF OperandInv, Inner
  <1>4. TypeOK'
    BY <1>1, PlacesOfTables DEF PInv, TypeOK, Atom
  <1> QED
    BY <1>2, <1>3, <1>4 DEF PInv

\* A step outside expressions, or into one that is in parentheses, that leaves the stack.
LEMMA SameStack ==
  ASSUME PInv, UNCHANGED stack, pc' \in Places, cur' \in Tokens, left' \in 0 .. MaxTokens,
         operand' \in 0 .. Atom, OperandInv'
  PROVE  PInv'
  <1>1. StackInv'
    BY DEF PInv, StackInv
  <1>2. TypeOK'
    BY <1>1, TypesSuffice
  <1> QED
    BY <1>1, <1>2 DEF PInv

LEMMA TableKeeps ==
  ASSUME PInv, Consume \/ Otherwise
  PROVE  PInv'
  <1>1. CASE Consume
    <2>1. PICK row \in Table : \E move \in row.on :
            /\ pc = row.place /\ pc' = move[2] /\ operand' = Atom
            /\ NextToken /\ stack' = stack
      BY <1>1 DEF Consume
    <2>2. /\ pc' \in Places \ {"primary", "combine", "rparen"}
          /\ pc' = "operand" => pc = "rparen"
      BY <2>1, RowsFit DEF RowFits
    <2>3. cur' \in Tokens /\ left' \in 0 .. MaxTokens
      BY <2>1, NextTokenTypes DEF PInv, TypeOK
    <2>4. OperandInv'
      <3>1. ASSUME pc' = "operand"
            PROVE  /\ stack' # <<>> /\ operand' = 6 /\ top' = top /\ top.prec \in 0 .. 5
                   /\ GetPrecedence(cur)' \in 0 .. 5
        <4>1. stack # <<>>
          BY <2>2, <3>1 DEF PInv, OperandInv
        <4>2. top' = top
          BY <2>1 DEF top
        <4>3. GetPrecedence(cur)' \in 0 .. 5
          BY <2>3, PrecedenceRange
        <4> QED
          BY <2>1, <4>1, <4>2, <4>3, StackOps DEF PInv, Activations, Atom
      <3> QED
        BY <2>2, <3>1 DEF OperandInv, Inner, Atom
    <2> QED
      BY <2>1, <2>2, <2>3, <2>4, SameStack DEF Atom
  <1>2. CASE Otherwise
    <2>1. PICK row \in Table :
            Fail \/ (pc' = row.other /\ UNCHANGED <<cur, left, stack, operand>>)
      BY <1>2 DEF Otherwise
    <2>2. CASE pc' = row.other /\ UNCHANGED <<cur, left, stack, operand>>
      <3>1. pc' \in Places \ (Inner \cup {"rparen"})
        BY <2>2, RowsFit DEF RowFits
      <3>2. OperandInv'
        BY <3>1 DEF OperandInv, Inner
      <3> QED
        BY <2>2, <3>1, <3>2, SameStack DEF PInv, TypeOK
    <2> QED
      BY <2>1, <2>2, FailKeeps
  <1> QED
    BY <1>1, <1>2

\* What a step on the innermost activation needs to show.
LEMMA StackStep ==
  ASSUME PInv, StackInv', stack' # <<>>, pc' \in Inner,
         cur' \in Tokens, left' \in 0 .. MaxTokens, operand' \in 0 .. Atom, OperandInv'
  PROVE  PInv'
  <1>1. pc' \in Places
    BY PlacesOfTables
  <1>2. TypeOK'
    BY <1>1, TypesSuffice
  <1> QED
    BY <1>2 DEF PInv

LEMMA PrimaryKeeps ==
  ASSUME PInv, SimplePrimary \/ ParenPrimary \/ BadPrimary \/ CallExpression
  PROVE  PInv'
  <1>1. CASE SimplePrimary
    <2>1. pc' = "operand" /\ operand' = Atom /\ stack' = stack /\ NextToken
      BY <1>1 DEF SimplePrimary
    <2>2. stack # <<>> /\ top \in Activations
      BY <1>1, StackOps DEF SimplePrimary, PInv, OperandInv, Inner
    <2>3. cur' \in Tokens /\ left' \in 0 .. MaxTokens
      BY <2>1, NextTokenTypes DEF PInv, TypeOK
    <2>4. top' = top /\ GetPrecedence(cur)' \in 0 .. 5 /\ top.prec \in 0 .. 5
      BY <2>1, <2>2, <2>3, PrecedenceRange DEF top, Activations
    <2>5. OperandInv'
      BY <2>1, <2>2, <2>4 DEF OperandInv, Inner, Atom
    <2> QED
      BY <2>1, <2>3, <2>5, PlacesOfTables, SameStack DEF Inner, Atom
  <1>2. CASE ParenPrimary
    <2>1. /\ pc' = "primary" /\ operand' = operand /\ NextToken
          /\ stack' = Append(stack, Activation(0, "rparen")) /\ stack # <<>>
      BY <1>2 DEF ParenPrimary, PInv, OperandInv, Inner
    <2>2. Activation(0, "rparen") \in Activations
      BY PlacesOfTables DEF Activation, Activations, NoOp, Atom
    <2>3. StackInv' /\ stack' # <<>>
      <3>1. /\ Taken(Activation(0, "rparen")) /\ Outer(Activation(0, "rparen"))
            /\ Nests(top, Activation(0, "rparen"))
            /\ Activation(0, "rparen").ret \notin {"primary", "operand"}
        BY DEF Taken, Outer, Nests, Activation
      <3> QED
        BY <2>1, <2>2, <3>1, PushKeeps DEF PInv
    <2>4. cur' \in Tokens /\ left' \in 0 .. MaxTokens
      BY <2>1, NextTokenTypes DEF PInv, TypeOK
    <2>5. OperandInv'
      BY <2>1, <2>3 DEF OperandInv
    <2> QED
      BY <2>1, <2>3, <2>4, <2>5, StackStep DEF PInv, TypeOK, Inner
  <1>3. CASE BadPrimary
    BY <1>3, FailKeeps DEF BadPrimary
  <1>4. CASE CallExpression
    <2>1. PICK call \in ExpressionCalls :
            pc = call[1] /\ stack' = Append(stack, Activation(0, call[2]))
      BY <1>4 DEF CallExpression
    <2>2. pc' = "primary" /\ UNCHANGED <<cur, left, operand>>
      BY <1>4 DEF CallExpression
    <2>3. Activation(0, call[2]) \in Activations
      BY CallsFit DEF Activation, Activations, NoOp, Atom
    <2>4. StackInv' /\ stack' # <<>>
      <3>1. /\ Taken(Activation(0, call[2])) /\ Outer(Activation(0, call[2]))
            /\ Nests(top, Activation(0, call[2]))
            /\ Activation(0, call[2]).ret \notin Inner \cup {"rparen"}
        BY CallsFit DEF Taken, Outer, Nests, Activation, Inner
      <3> QED
        BY <2>1, <2>3, <3>1, PushKeeps DEF PInv, Inner
    <2>5. OperandInv'
      BY <2>2, <2>4 DEF OperandInv
    <2> QED
      BY <2>2, <2>4, <2>5, StackStep DEF PInv, TypeOK, Inner
  <1> QED
    BY <1>1, <1>2, <1>3, <1>4

LEMMA OperatorKeeps ==
  ASSUME PInv, TakeOperator \/ ExtendRight
  PROVE  PInv'
  <1>1. /\ pc = "operand" /\ stack # <<>> /\ StackInv /\ top \in Activations
        /\ cur \in Tokens /\ GetPrecedence(cur) \in 0 .. 5 /\ operand \in 0 .. Atom
        /\ left \in 0 .. MaxTokens
    BY StackOps, PrecedenceRange DEF TakeOperator, ExtendRight, PInv, TypeOK, OperandInv, Inner
  <1>2. CASE TakeOperator
    <2> DEFINE a == WithOperator(top, GetPrecedence(cur), operand)
    <2>1. /\ top.op = NoOp /\ GetPrecedence(cur) >= top.prec /\ stack' = Append(Below, a)
          /\ pc' = "primary" /\ NextToken /\ operand' = operand
      BY <1>2 DEF TakeOperator
    <2>2. operand >= GetPrecedence(cur)
      BY <1>1, <2>1 DEF PInv, OperandInv
    <2>3. /\ a \in Activations /\ a.op = GetPrecedence(cur) /\ a.left = operand
          /\ a.ret = top.ret /\ a.prec = top.prec
      <3>1. GetPrecedence(cur) \in 0 .. 5
        BY <1>1
      <3> QED
        BY <1>1, <3>1, TakesIts
    <2>4. Taken(a)
      BY <2>1, <2>2, <2>3 DEF Taken
    <2> HIDE DEF a
    <2>5. StackInv' /\ stack' # <<>>
      BY <1>1, <2>1, <2>3, <2>4, ReplaceKeeps
    <2>6. cur' \in Tokens /\ left' \in 0 .. MaxTokens
      BY <1>1, <2>1, NextTokenTypes
    <2>7. OperandInv'
      BY <2>1, <2>5 DEF OperandInv
    <2> QED
      BY <1>1, <2>1, <2>5, <2>6, <2>7, StackStep DEF Inner
  <1>3. CASE ExtendRight
    <2> DEFINE a == Activation(top.op + 1, "combine")
    <2>1. /\ top.op # NoOp /\ top.op < GetPrecedence(cur) /\ stack' = Append(stack, a)
          /\ UNCHANGED <<pc, cur, left, operand>>
      BY <1>3 DEF ExtendRight
    <2>2. top.op \in 0 .. 4 /\ operand = Atom
      BY <1>1, <2>1 DEF Activations, NoOp, PInv, OperandInv
    <2>3. /\ a \in Activations /\ Taken(a) /\ Outer(a) /\ Nests(top, a) /\ a.op = NoOp /\ a.prec \in 0 .. 5
          /\ a.ret \notin {"primary", "operand"}
      BY <2>1, <2>2, PlacesOfTables DEF Activation, Activations, Taken, Outer, Nests, NoOp, Atom, Inner
    <2> HIDE DEF a
    <2>4. StackInv' /\ stack' # <<>> /\ top' = a
      BY <1>1, <2>1, <2>3, PushKeeps
    <2>5. OperandInv'
      BY <1>1, <2>1, <2>2, <2>3, <2>4 DEF OperandInv, Atom
    <2> QED
      BY <1>1, <2>1, <2>4, <2>5, StackStep DEF Inner
  <1> QED
    BY <1>2, <1>3

LEMMA ReturnKeeps ==
  ASSUME PInv, ReturnLeft
  PROVE  PInv'
  <1>1. /\ pc = "operand" /\ stack # <<>> /\ StackInv /\ top \in Activations
        /\ cur \in Tokens /\ GetPrecedence(cur) \in 0 .. 5 /\ operand \in 0 .. Atom
        /\ left \in 0 .. MaxTokens
    BY StackOps, PrecedenceRange DEF ReturnLeft, PInv, TypeOK, OperandInv, Inner
  <1>2. /\ top.op = NoOp /\ GetPrecedence(cur) < top.prec /\ pc' = top.ret /\ stack' = Below
        /\ UNCHANGED <<cur, left, operand>>
    BY DEF ReturnLeft
  <1>3. /\ StackInv'
        /\ top.ret \in {"combine", "rparen"} => stack' # <<>> /\ Nests(top', top)
    BY <1>1, <1>2, PopKeeps
  <1>4. top.ret \in Places \ {"primary", "operand"} /\ operand >= top.prec
    BY <1>1, <1>2 DEF StackInv, top, Activations, PInv, OperandInv
  <1>5. OperandInv'
    <2>1. ASSUME pc' = "combine"
          PROVE  top'.op # NoOp /\ operand > top'.op /\ top'.op >= GetPrecedence(cur)
      <3>1. stack' # <<>> /\ top'.op # NoOp /\ top.prec = top'.op + 1
        BY <1>2, <1>3, <2>1 DEF Nests
      <3>2. (top \in Activations)'
        <4>1. \A s \in Seq(Activations) : s # <<>> => s[Len(s)] \in Activations
          OBVIOUS
        <4> QED
          BY <1>3, <3>1, <4>1 DEF StackInv, top
      <3>3. top'.op \in Int /\ operand \in Int /\ top.prec \in Int /\ GetPrecedence(cur) \in Int
        BY <1>1, <3>2 DEF Activations, Atom, NoOp
      <3> QED
        BY <1>2, <1>4, <3>1, <3>3
    <2> QED
      BY <1>2, <1>3, <1>4, <2>1 DEF OperandInv, Inner
  <1>6. pc' \in Places
    BY <1>2, <1>4
  <1>7. TypeOK'
    BY <1>1, <1>2, <1>3, <1>6, TypesSuffice
  <1> QED
    BY <1>3, <1>5, <1>7 DEF PInv

\* What Combine finds.
LEMMA CombineFinds ==
  ASSUME PInv, Combine
  PROVE  /\ stack # <<>> /\ top \in Activations /\ Taken(top) /\ top.op # NoOp
         /\ top.op >= GetPrecedence(cur) /\ operand > top.op
  <1>1. /\ pc \in {"operand", "combine"} /\ stack # <<>> /\ StackInv /\ top \in Activations
        /\ GetPrecedence(cur) \in 0 .. 5
    BY StackOps, PrecedenceRange DEF Combine, PInv, TypeOK, OperandInv, Inner
  <1>2. Taken(top)
    BY <1>1, StackOps DEF StackInv, top
  <1>3. CASE pc = "operand"
    <2>1. top.op # NoOp /\ top.op >= GetPrecedence(cur) /\ operand = Atom
      BY <1>3 DEF Combine, PInv, OperandInv
    <2> QED
      BY <1>1, <1>2, <2>1 DEF Activations, Atom, NoOp
  <1>4. CASE pc = "combine"
    BY <1>1, <1>2, <1>4 DEF PInv, OperandInv
  <1> QED
    BY <1>1, <1>3, <1>4

LEMMA CombineKeeps ==
  ASSUME PInv, Combine
  PROVE  PInv'
  <1> DEFINE a == [top EXCEPT !.op = NoOp]
  <1>1. /\ stack # <<>> /\ top \in Activations /\ Taken(top) /\ top.op # NoOp
        /\ top.op >= GetPrecedence(cur) /\ operand > top.op
    BY CombineFinds
  <1>2. /\ stack' = Append(Below, a) /\ operand' = top.op /\ pc' = "operand"
        /\ cur' = cur /\ left' = left
    BY DEF Combine
  <1>3. top.op \in 0 .. 5 /\ top.op >= top.prec /\ top.op \in 0 .. Atom
    BY <1>1 DEF Taken, Activations, NoOp, Atom
  <1>4. /\ a \in Activations /\ a.op = NoOp /\ Taken(a) /\ a.ret = top.ret /\ a.prec = top.prec
    BY <1>1 DEF Activations, Taken, NoOp
  <1> HIDE DEF a
  <1>5. StackInv' /\ stack' # <<>> /\ top' = a
    BY <1>1, <1>2, <1>4, ReplaceKeeps DEF PInv
  <1>6. OperandInv'
    BY <1>1, <1>2, <1>3, <1>4, <1>5 DEF OperandInv
  <1> QED
    BY <1>2, <1>3, <1>5, <1>6, StackStep DEF PInv, TypeOK, Inner

\* No activation of parseExpression() returns: no token has a precedence below 0.
LEMMA OuterStays ==
  ASSUME PInv, ReturnLeft
  PROVE  stack' # <<>> /\ pc' = "combine"
  <1>1. /\ stack # <<>> /\ StackInv /\ top \in Activations /\ Outer(top)
        /\ GetPrecedence(cur) \in 0 .. 5
    BY StackOps, PrecedenceRange DEF ReturnLeft, PInv, TypeOK, OperandInv, Inner, StackInv, top
  <1>2. GetPrecedence(cur) < top.prec /\ pc' = top.ret /\ stack' = Below
    BY DEF ReturnLeft
  <1>3. top.ret = "combine"
    BY <1>1, <1>2 DEF Outer, Activations
  <1> QED
    BY <1>1, <1>2, <1>3, PopKeeps

LEMMA NextKeeps == PInv /\ [Next]_vars => PInv'
  <1> SUFFICES ASSUME PInv, [Next]_vars  PROVE PInv'
    OBVIOUS
  <1>1. CASE Next
    BY <1>1, TableKeeps, PrimaryKeeps, OperatorKeeps, ReturnKeeps, CombineKeeps DEF Next
  <1>2. CASE UNCHANGED vars
    <2>1. OperandInv'
      BY <1>2 DEF PInv, OperandInv, vars, top
    <2> QED
      BY <1>2, <2>1, SameStack DEF PInv, TypeOK, vars
  <1> QED
    BY <1>1, <1>2

LEMMA Invariant == Spec => []PInv
  BY InitInv, NextKeeps, PTL DEF Spec

(* parse() is always at a place of a statement function or of the expression functions,   *)
(* with activations whose numbers getPrecedence() can give, on every query.               *)
THEOREM TypeCorrect == Spec => []TypeOK
  <1>1. PInv => TypeOK
    BY DEF PInv
  <1> QED
    BY <1>1, Invariant, PTL

(* Every operator of a tree that parseBinaryExpression() builds has a left operand that   *)
(* binds at least as tightly and a right operand that binds tighter, however deep the     *)
(* expression nests.                                                                      *)
THEOREM TreeSafe == Spec => TreeFollowsPrecedence
  <1>1. PInv /\ [Next]_vars => [Combine => top.left >= top.op /\ operand > top.op]_vars
    <2> SUFFICES ASSUME PInv, Combine  PROVE top.left >= top.op /\ operand > top.op
      OBVIOUS
    <2> QED
      BY CombineFinds DEF Taken
  <1> QED
    BY <1>1, Invariant, PTL DEF Spec, TreeFollowsPrecedence

\* An expression that parse() begins does not end but in failure: parseExpression() never
\* returns a tree, so a SELECT of named columns, a WHERE and a VALUES list all end in an
\* error.
NoExpressionEnds ==
  [][stack # <<>> => (stack' # <<>> /\ pc' \in Inner) \/ pc' = "fail"]_vars

InExpression == stack # <<>> => pc \in Inner

LEMMA StaysInExpression ==
  ASSUME PInv, InExpression, Next, stack # <<>>
  PROVE  (stack' # <<>> /\ pc' \in Inner) \/ (pc' = "fail" /\ stack' = <<>>)
  <1>1. stack \in Seq(Activations) /\ Below \in Seq(Activations)
    BY StackOps DEF PInv, StackInv
  <1>2. \A s \in Seq(Activations) : \A e : Append(s, e) # <<>>
    BY AppendProperties
  <1>3. \A row \in Table : pc # row.place
    BY RowsFit DEF InExpression, RowFits
  <1>4. \A call \in ExpressionCalls : pc # call[1]
    BY DEF InExpression, ExpressionCalls, Inner
  <1>5. ~ Consume /\ ~ Otherwise /\ ~ CallExpression
    BY <1>3, <1>4 DEF Consume, Otherwise, CallExpression
  <1>6. CASE SimplePrimary
    BY <1>6 DEF SimplePrimary, Inner
  <1>7. CASE ParenPrimary \/ ExtendRight
    BY <1>1, <1>2, <1>7 DEF ParenPrimary, ExtendRight, InExpression
  <1>8. CASE TakeOperator \/ Combine
    BY <1>1, <1>2, <1>8 DEF TakeOperator, Combine, Inner
  <1>9. CASE BadPrimary
    BY <1>9 DEF BadPrimary, Fail
  <1>10. CASE ReturnLeft
    BY <1>10, OuterStays DEF Inner
  <1> QED
    BY <1>5, <1>6, <1>7, <1>8, <1>9, <1>10 DEF Next

(* A statement with an expression is never accepted, whatever the expression is and      *)
(* however long the text: the activation parseExpression() begins takes every token for   *)
(* an operator, because no precedence is below its 0.                                     *)
THEOREM ExpressionsNeverEnd == Spec => NoExpressionEnds
  <1>1. Init => InExpression
    BY DEF Init, InExpression
  <1>2. PInv /\ InExpression /\ [Next]_vars => InExpression'
    <2> SUFFICES ASSUME PInv, InExpression, [Next]_vars, stack' # <<>>  PROVE pc' \in Inner
      BY DEF InExpression
    <2>1. CASE UNCHANGED vars
      BY <2>1 DEF InExpression, vars
    <2>2. CASE Next /\ stack # <<>>
      BY <2>2, StaysInExpression
    <2>3. CASE Next /\ stack = <<>>
      <3>1. pc \notin Inner
        BY <2>3 DEF PInv, OperandInv
      <3>2. CallExpression
        BY <2>3, <3>1 DEF Next, Consume, Otherwise, Fail, SimplePrimary, ParenPrimary, BadPrimary,
              TakeOperator, ReturnLeft, ExtendRight, Combine, Inner
      <3> QED
        BY <3>2 DEF CallExpression, Inner
    <2> QED
      BY <2>1, <2>2, <2>3
  <1>3. PInv /\ InExpression /\ [Next]_vars
          => [stack # <<>> => (stack' # <<>> /\ pc' \in Inner) \/ pc' = "fail"]_vars
    BY StaysInExpression
  <1> QED
    BY <1>1, <1>2, <1>3, Invariant, PTL DEF Spec, NoExpressionEnds

=============================================================================
