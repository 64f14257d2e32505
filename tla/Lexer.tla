-------------------------------- MODULE Lexer ---------------------------------
(***************************************************************************)
(* Lexer::nextToken() (lexer.cpp) as a function of the text and of the     *)
(* position of ch_.                                                        *)
(*                                                                         *)
(* A text is a sequence of characters, except that a word of letters that  *)
(* stands alone is one element (its keyword, or "a" for a name), "1" a run *)
(* of digits and "9" one that no int holds. Elements side by side join as  *)
(* the characters do: "a" "1" is one identifier. Positions beyond the text *)
(* are all one, where readChar() sets ch_ to NUL.                          *)
(***************************************************************************)
EXTENDS Integers, Sequences, FiniteSetsExt

Keywords ==
  {"SELECT", "INSERT", "CREATE", "DROP", "SHOW", "USE", "FROM", "WHERE", "LIMIT", "INTO",
   "VALUES", "TABLE", "TABLES", "DATABASES", "PRIMARY", "KEY", "NOT", "NULL",
   "AUTO_INCREMENT", "DEFAULT", "OR", "AND", "INT"}

IsLetter(c) == c = "a" \/ c \in Keywords
IsDigit(c) == c \in {"1", "9"}
IsWhitespace(c) == c \in {" ", "\n"}
Quotes == {"'", "\""}

\* ch_ at a position, and the end of the text for readChar().
Ch(text, i) == IF i <= Len(text) THEN text[i] ELSE "NUL"
Positions(text) == 1 .. Len(text) + 1
Clamp(text, i) == IF i <= Len(text) THEN i ELSE Len(text) + 1

\* The first position from i on where one of the characters stands.
Find(text, i, chars) == Min({j \in i .. Len(text) + 1 : Ch(text, j) \in chars})
\* The first position from i on that is not in S.
FirstNotIn(text, i, S) == Min({j \in i .. Len(text) + 1 : j \notin S})

-----------------------------------------------------------------------------
(* skipWhitespace() and skipComment() *)

SkipWhitespace(text, i) ==
  FirstNotIn(text, i, {j \in DOMAIN text : IsWhitespace(text[j])})

\* "--" and "#" go to the end of the line.
LineComment(text, i) == SkipWhitespace(text, Find(text, i, {"\n", "NUL"}))

\* "/*" goes to the first "*/" behind it, or to NUL.
\* (Mutant: the star of the opening begins a closing.)
BlockCommentFrom(text, i) ==
  LET closings == {j \in i .. Len(text) : Ch(text, j) = "*" /\ Ch(text, j + 1) = "/"}
      nul == Find(text, i, {"NUL"})
  IN IF closings # {} /\ Min(closings) < nul THEN Min(closings) + 2 ELSE nul
BlockCommentLoose(text, i) == SkipWhitespace(text, BlockCommentFrom(text, i + 1))
BlockComment(text, i) == SkipWhitespace(text, BlockCommentFrom(text, i + 2))

Opens(text, i, a, b) == Ch(text, i) = a /\ Ch(text, i + 1) = b

\* One comment of each kind at most, in this order.
SkipDashes(text, i) == IF Opens(text, i, "-", "-") THEN LineComment(text, i) ELSE i
SkipBlock(text, i) == IF Opens(text, i, "/", "*") THEN BlockComment(text, i) ELSE i
SkipHash(text, i) == IF Ch(text, i) = "#" THEN LineComment(text, i) ELSE i
SkipComment(text, i) ==
  LET block == [k \in Positions(text) |-> SkipBlock(text, k)]
      hash == [k \in Positions(text) |-> SkipHash(text, k)]
  IN hash[block[SkipDashes(text, i)]]

\* Where the next token begins: nextToken() calls itself behind dashes that the comments
\* before them have left.
TokenStart(text, i) ==
  LET behind == [k \in Positions(text) |-> SkipComment(text, k)]
      start[k \in Positions(text)] ==
        LET j == behind[SkipWhitespace(text, k)] IN
          IF Opens(text, j, "-", "-") THEN start[behind[j]] ELSE j
  IN start[i]

-----------------------------------------------------------------------------
(* The tokens: [type, start, stop], stop the position behind *)

\* readIdentifier() and lookupKeyword().
ReadIdentifier(text, i) ==
  FirstNotIn(text, i, {j \in DOMAIN text : IsLetter(text[j]) \/ IsDigit(text[j])})
LookupKeyword(text, i, stop) ==
  IF stop = i + 1 /\ text[i] \in Keywords THEN text[i] ELSE "IDENTIFIER"

\* readNumber(): digits with one dot. (Mutant: with any dots.)
Dots(text, i, j) == {k \in i .. j : Ch(text, k) = "."}
ReadNumberDots(text, i) ==
  FirstNotIn(text, i, {j \in DOMAIN text : IsDigit(text[j]) \/ text[j] = "."})
ReadNumber(text, i) ==
  FirstNotIn(text, i, {j \in DOMAIN text :
    IsDigit(text[j]) \/ (text[j] = "." /\ Dots(text, i, j - 1) = {})})
\* What std::stoi() would read of it has "9" in it, or not.
NumberType(text, i, stop) ==
  IF \E j \in i .. stop - 1 : text[j] = "9" /\ Dots(text, i, j) = {} THEN "HUGE" ELSE "NUMBER"

\* readString(): from the quote at i to the next that no backslash escapes, or to NUL, which
\* a backslash escapes too. No quote is an error.
ReadString(text, i) ==
  LET end[k \in Positions(text)] ==
        IF Ch(text, k) \in {text[i], "NUL"} THEN k
        ELSE IF Ch(text, k) = "\\" THEN end[Clamp(text, k + 2)]
        ELSE end[Clamp(text, k + 1)]
  IN Clamp(text, end[Clamp(text, i + 1)] + 1)

\* The switch's single characters and pairs.
SingleType(c) ==
  CASE c = "+" -> "PLUS" [] c = "-" -> "MINUS" [] c = "*" -> "ASTERISK" [] c = "/" -> "SLASH"
    [] c = "%" -> "PERCENT" [] c = "=" -> "EQ" [] c = "<" -> "LT" [] c = ">" -> "GT"
    [] c = "," -> "COMMA" [] c = ";" -> "SEMICOLON" [] c = "." -> "DOT"
    [] c = "(" -> "LPAREN" [] c = ")" -> "RPAREN" [] OTHER -> "ILLEGAL"
PairTypes == [c \in {"!=", "<=", "<>", ">="} |->
  CASE c \in {"!=", "<>"} -> "NE" [] c = "<=" -> "LE" [] c = ">=" -> "GE"]
PairAt(text, i) ==
  CASE Opens(text, i, "!", "=") -> "!=" [] Opens(text, i, "<", "=") -> "<="
    [] Opens(text, i, "<", ">") -> "<>" [] Opens(text, i, ">", "=") -> ">=" [] OTHER -> ""

TokenAt(text, i) ==
  LET c == Ch(text, i)
      Token(type, stop) == [type |-> type, start |-> i, stop |-> stop]
  IN CASE c = "NUL" -> Token("EOF", i)
       [] c \in Quotes -> Token("STRING", ReadString(text, i))
       [] IsLetter(c) ->
            Token(LookupKeyword(text, i, ReadIdentifier(text, i)), ReadIdentifier(text, i))
       [] IsDigit(c) -> Token(NumberType(text, i, ReadNumber(text, i)), ReadNumber(text, i))
       [] PairAt(text, i) # "" -> Token(PairTypes[PairAt(text, i)], i + 2)
       [] OTHER -> Token(SingleType(c), i + 1)

NextTokenAt(text, from) ==
  LET token == [i \in Positions(text) |-> TokenAt(text, i)] IN token[TokenStart(text, from)]

=============================================================================
