-------------------------------- MODULE Query ---------------------------------
(***************************************************************************)
(* A query's text through the lexer into the parser: module Parser, whose  *)
(* tokens are those that module Lexer finds in the text.                   *)
(***************************************************************************)
EXTENDS Parser, Lexer

CONSTANT Texts    \* the queries, of MaxTokens characters at most

ASSUME QueryAssumption == \A t \in Texts : t \in Seq(STRING) /\ Len(t) <= MaxTokens

VARIABLES
  text,     \* Lexer::input_
  token     \* current_token_: its type, where the lexer began to look for it, start and stop

queryVars == <<vars, text, token>>

\* The parser tells fewer tokens apart. (OTHER: what no rule of the grammar mentions.)
ParserToken(type) ==
  CASE type \in {"EQ", "NE", "LT", "GT", "LE", "GE"} -> "EQ"
    [] type \in {"PLUS", "MINUS"} -> "PLUS"
    [] type \in {"SLASH", "PERCENT"} -> "SLASH"
    [] type \in {"ILLEGAL", "DOT", "INT"} -> "OTHER"
    [] OTHER -> type

Read(from) ==
  LET t == NextTokenAt(text, from) IN
    [type |-> t.type, from |-> from, start |-> t.start, stop |-> t.stop]

QueryInit ==
  /\ text \in Texts
  /\ token = Read(1)
  /\ cur = ParserToken(token.type)
  /\ Init

\* A step of the parser that reads a token reads the text's next one.
QueryNext ==
  /\ Next
  /\ IF <<cur, left>>' = <<cur, left>> THEN UNCHANGED token
     ELSE token' = Read(token.stop) /\ cur' = ParserToken(token'.type)
  /\ UNCHANGED text

QuerySpec == QueryInit /\ [][QueryNext]_queryVars

-----------------------------------------------------------------------------
(* Properties. The lexical grammar, as predicates on pieces of a text.      *)

\* text[i .. j - 1] is one comment: to the end of the line, or to the first "*/" behind
\* the opening, or to the end of the text.
IsComment(i, j) ==
  LET ends == Ch(text, j) = "NUL"
      line == /\ Opens(text, i, "-", "-") \/ Ch(text, i) = "#"
              /\ \A k \in i .. j - 1 : text[k] \notin {"\n", "NUL"}
              /\ ends \/ Ch(text, j) = "\n"
      closed(k) == k >= i + 4 /\ Opens(text, k - 2, "*", "/")
      block == /\ Opens(text, i, "/", "*") /\ j >= i + 2
               /\ \A k \in i .. j - 1 : text[k] # "NUL" /\ ~closed(k)
               /\ ends \/ closed(j)
  IN line \/ block

\* text[i .. j - 1] is white space and comments.
IsPiece(i, j) == (j = i + 1 /\ IsWhitespace(text[i])) \/ IsComment(i, j)
IsBlank(i, j) ==
  LET blank[k \in i .. j] == k = j \/ \E m \in k + 1 .. j : IsPiece(k, m) /\ blank[m]
  IN blank[i]

\* A character of a string is escaped by an odd number of backslashes right before it.
Escaped(i, k) ==
  LET others == {m \in i .. k - 1 : text[m] # "\\" \/ m = i} IN (k - 1 - Max(others)) % 2 = 1

Operators ==
  {<<c>> : c \in {"+", "-", "*", "/", "%", "=", "<", ">", ",", ";", ".", "(", ")"}}
  \cup {<<"!", "=">>, <<"<", "=">>, <<"<", ">">>, <<">", "=">>}

\* text[i .. j - 1] is a token: a word, a number, a string with its quotes or to the end
\* of the text, or an operator.
IsWord(i, j) == IsLetter(text[i]) /\ \A k \in i .. j - 1 : IsLetter(text[k]) \/ IsDigit(text[k])
IsNumber(i, j) ==
  /\ IsDigit(text[i]) /\ \A k \in i .. j - 1 : IsDigit(text[k]) \/ text[k] = "."
  /\ \A k, m \in i .. j - 1 : text[k] = "." /\ text[m] = "." => k = m
IsString(i, j) ==
  LET ends(k) == text[k] \in {text[i], "NUL"} /\ ~Escaped(i, k) IN
    /\ text[i] \in Quotes
    /\ \A k \in i + 1 .. j - 2 : ~ends(k)
    /\ (j >= i + 2 /\ ends(j - 1)) \/ (j = Len(text) + 1 /\ \A k \in i + 1 .. j - 1 : ~ends(k))
IsToken(i, j) ==
  IsWord(i, j) \/ IsNumber(i, j) \/ IsString(i, j) \/ SubSeq(text, i, j - 1) \in Operators

\* Every token is a token of the grammar and no longer one begins where it does; an ILLEGAL
\* one is one character that begins none, and EOF is at the end or at a NUL.
MaximalMunch ==
  LET i == token.start
      longer == {j \in token.stop + 1 .. Len(text) + 1 : IsToken(i, j)}
  IN CASE token.type = "EOF" -> Ch(text, i) = "NUL" /\ token.stop = i
       [] token.type = "ILLEGAL" -> token.stop = i + 1 /\ longer = {} /\ ~IsToken(i, i + 1)
       [] OTHER -> IsToken(i, token.stop) /\ longer = {}

\* What lies between two tokens is white space and whole comments, nothing else.
OnlyBlanksSkipped == IsBlank(token.from, token.start)

\* SQL_PARSER_SUMMARY.md:24 has comments of three kinds supported, "--", "/* */" and "#": no
\* token begins where a comment does. (skipComment() looks for each kind once, and for "#"
\* last: behind another comment one is read as "/" "*" or an illegal "#".)
CommentsSkipped ==
  token.type = "EOF" \/ \A j \in token.start + 1 .. Len(text) + 1 : ~IsComment(token.start, j)

\* README.md:46 and :57, SQL_PARSER_SUMMARY.md:74-75 and test_select_raw.py:127 use INSERT
\* with a list of literals: parse() does not refuse one.
InsertAccepted == pc # "fail"

=============================================================================
