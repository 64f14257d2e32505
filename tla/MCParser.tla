------------------------------- MODULE MCParser -------------------------------
(* Bounds for TLC: queries whose tokens are chosen freely, as module Parser *)
(* has them, and queries whose tokens the lexer finds in a text.            *)
EXTENDS Query

\* All texts of up to n of the elements.
Over(elements, n) == UNION {[1 .. k -> elements] : k \in 0 .. n}

AllKinds ==
  {" ", "\n", "a", "1", "9", ".", "'", "\"", "\\", "-", "/", "*", "#", "<", "=", ">", "!", ";", "@", "NUL"}
Comments == {"-", "/", "*", "#", "\n", "a"}
Strings == {"'", "\"", "\\", "a", "NUL"}

Statements ==
  { <<"SHOW", " ", "TABLES", ";">>,
    <<"/", "*", "a", "*", "/", "SHOW", "\n", "DATABASES">>,
    <<"SELECT", "*", "FROM", " ", "a", " ", "LIMIT", " ", "9">>,
    <<"SELECT", " ", "a", "-", "1", " ", "-", "-", "a">>,
    <<"DROP", " ", "TABLE", " ", "a", "#", "a">>,
    <<"CREATE", " ", "TABLE", " ", "a", "(", "a", " ", "INT", ")">> }

SomeTexts ==
  Over(AllKinds, 3) \cup Over(Comments, 6) \cup Over(Strings, 6) \cup Statements
  \cup {<<"SHOW">> \o t : t \in Over(AllKinds, 3)}

\* Stands for a text chosen freely; none of SomeTexts is as long.
NoText == [k \in 1 .. MaxTokens |-> "NUL"]
NoToken == [type |-> "EOF", from |-> 1, start |-> 1, stop |-> 1]

MCInit == QueryInit \/ (Init /\ text = NoText /\ token = NoToken)
MCNext == IF text = NoText THEN Next /\ UNCHANGED <<text, token>> ELSE QueryNext
MCSpec == MCInit /\ [][MCNext]_queryVars /\ WF_queryVars(MCNext)

\* The INSERTs of SQL_PARSER_SUMMARY.md:74-75 and test_select_raw.py:127.
Inserts ==
  { <<"INSERT", " ", "INTO", " ", "a", " ", "(", "a", ",", " ", "a", ")", " ", "VALUES", " ",
      "(", "'", "a", "'", ",", " ", "1", ")", ";">>,
    <<"INSERT", " ", "INTO", " ", "a", " ", "VALUES", " ", "(", "'", "a", "'", ",", " ", "1", ")", ";">>,
    <<"INSERT", " ", "INTO", " ", "a", " ", "VALUES", " ", "(", "1", ",", " ", "1", ",", " ", "1", ")">> }

\* Statements behind two comments.
Commented ==
  { <<"-", "-", "a", "\n", "-", "-", "a", "\n", "SHOW", " ", "TABLES", ";">>,
    <<"-", "-", "a", "\n", "/", "*", "a", "*", "/", "SHOW", " ", "TABLES">>,
    <<"#", "a", "\n", "#", "a", "\n", "SHOW", " ", "TABLES", ";">>,
    <<"/", "*", "a", "*", "/", "/", "*", "a", "*", "/", "SHOW", " ", "TABLES">> }
=============================================================================
