----------------------------- MODULE LexerProofs ------------------------------
(***************************************************************************)
(* Lexer::nextToken() for texts of any length, and the queries of module   *)
(* Query: a token is the longest the lexical grammar has at its place, and *)
(* what is skipped before it is white space and comments.                  *)
(*                                                                         *)
(* The invariant (TokenInv) is only that the current token is what the     *)
(* lexer reads at some place of the text. The work is to show what that    *)
(* is. The lexer's loops are either the first position at which they stop  *)
(* (Find), and then the grammar's "no such character before" is what it    *)
(* means to be the first, or functions defined from the right end of the   *)
(* text. That such a function satisfies its own equation is shown by the   *)
(* last position at which it would not (LastExists); there is no induction *)
(* over texts. TokenMunches then goes through the kinds of token in the    *)
(* order in which nextToken() tries them.                                  *)
(***************************************************************************)
EXTENDS Query, FiniteSetTheorems, SequenceTheorems, TLAPS

-----------------------------------------------------------------------------
(* First and last elements, and functions that are defined from the right *)

LEMMA FirstExists ==
  ASSUME NEW n \in Nat, NEW S \in SUBSET (1 .. n), S # {}
  PROVE  Min(S) \in S /\ \A j \in S : Min(S) <= j
  <1> DEFINE T == {1 .. i : i \in S}
  <1>1. IsWellFoundedOn(StrictSubsetOrdering(1 .. n), FiniteSubsetsOf(1 .. n))
    BY FS_StrictSubsetOrderingWellFounded
  <1>2. T \subseteq FiniteSubsetsOf(1 .. n) /\ T # {}
    <2> SUFFICES ASSUME NEW i \in S  PROVE 1 .. i \in FiniteSubsetsOf(1 .. n)
      OBVIOUS
    <2>1. IsFiniteSet(1 .. i)
      BY FS_Interval
    <2> QED
      BY <2>1 DEF FiniteSubsetsOf
  <1>3. PICK U \in T : \A V \in T : <<V, U>> \notin StrictSubsetOrdering(1 .. n)
    <2> HIDE DEF T
    <2> QED
      BY <1>1, <1>2, WFMin
  <1>4. PICK i \in S : U = 1 .. i
    OBVIOUS
  <1>5. ASSUME NEW j \in S, j < i  PROVE FALSE
    <2>1. 1 .. j \subseteq 1 .. i /\ i \in 1 .. i /\ i \notin 1 .. j
      BY <1>5
    <2>2. <<1 .. j, 1 .. i>> \in StrictSubsetOrdering(1 .. n)
      BY <2>1 DEF StrictSubsetOrdering
    <2> QED
      BY <1>3, <1>4, <2>2
  <1>6. \A j \in S : i <= j
    BY <1>5
  <1> QED
    BY <1>6 DEF Min

LEMMA LastExists ==
  ASSUME NEW n \in Nat, NEW S \in SUBSET (1 .. n), S # {}
  PROVE  \E i \in S : \A j \in S : j <= i
  <1> DEFINE T == {n + 1 - j : j \in S}
             m == Min(T)
  <1>1. T \in SUBSET (1 .. n) /\ T # {}
    OBVIOUS
  <1>2. m \in T /\ \A j \in T : m <= j
    <2> HIDE DEF T
    <2> QED
      BY <1>1, FirstExists
  <1> HIDE DEF m
  <1>3. PICK i \in S : m = n + 1 - i
    BY <1>2
  <1>4. \A j \in S : j <= i
    BY <1>2, <1>3
  <1> QED
    BY <1>4

\* A function whose value at k is its value at a later place, except at Stop.
Jumps(f, n, Stop, val, next) ==
  f = [k \in 1 .. n |-> IF k \in Stop THEN val[k] ELSE f[next[k]]]

LEMMA JumpExists ==
  ASSUME NEW n \in Nat, NEW Stop, NEW val, NEW next,
         \A k \in (1 .. n) \ Stop : next[k] \in k + 1 .. n
  PROVE  \E f : Jumps(f, n, Stop, val, next)
  <1> DEFINE Fits(f, m) == \A k \in m .. n : f[k] = IF k \in Stop THEN val[k] ELSE f[next[k]]
             bad == {m \in 1 .. n : ~ \E f : Fits(f, m)}
  <1>1. bad = {}
    <2> SUFFICES ASSUME bad # {}  PROVE FALSE
      OBVIOUS
    <2>1. PICK m \in bad : \A j \in bad : j <= m
      <3>1. bad \in SUBSET (1 .. n)
        OBVIOUS
      <3> HIDE DEF bad
      <3> QED
        BY <3>1, LastExists
    <2>2. PICK g : Fits(g, m + 1)
      <3>1. CASE m = n
        BY <3>1
      <3>2. CASE m < n
        <4> HIDE DEF Fits
        <4>1. m + 1 \in 1 .. n /\ m + 1 \notin bad
          BY <2>1, <3>2
        <4> QED
          BY <4>1
      <3> QED
        BY <2>1, <3>1, <3>2
    <2> DEFINE h == [k \in m .. n |-> IF k > m THEN g[k]
                                      ELSE IF k \in Stop THEN val[k] ELSE g[next[k]]]
    <2>3. m \in 1 .. n /\ \A k \in m + 1 .. n : h[k] = g[k]
      BY <2>1
    <2>4. h[m] = IF m \in Stop THEN val[m] ELSE g[next[m]]
      BY <2>3
    <2> HIDE DEF h
    <2>5. ASSUME NEW k \in m .. n  PROVE h[k] = IF k \in Stop THEN val[k] ELSE h[next[k]]
      <3>1. k \in 1 .. n /\ (k \notin Stop => next[k] \in m + 1 .. n)
        BY <2>3
      <3>2. k \notin Stop => h[next[k]] = g[next[k]]
        BY <2>3, <3>1
      <3>3. CASE k = m
        BY <2>4, <3>2, <3>3
      <3>4. CASE k # m
        <4>1. k \in m + 1 .. n
          BY <2>3, <3>4
        <4> QED
          BY <2>2, <2>3, <3>2, <4>1
      <3> QED
        BY <3>3, <3>4
    <2> QED
      BY <2>1, <2>5
  <1>2. PICK g : Fits(g, 1)
    <2>1. CASE n = 0
      BY <2>1
    <2>2. CASE n # 0
      BY <1>1, <2>2
    <2> QED
      BY <2>1, <2>2
  <1> DEFINE h == [k \in 1 .. n |-> g[k]]
  <1>3. ASSUME NEW k \in 1 .. n  PROVE h[k] = IF k \in Stop THEN val[k] ELSE h[next[k]]
    <2>1. k \notin Stop => next[k] \in 1 .. n
      OBVIOUS
    <2>2. \A j \in 1 .. n : h[j] = g[j]
      OBVIOUS
    <2> HIDE DEF h
    <2> QED
      BY <1>2, <2>1, <2>2
  <1>4. Jumps(h, n, Stop, val, next)
    <2>1. h = [k \in 1 .. n |-> h[k]]
      OBVIOUS
    <2> HIDE DEF h
    <2> QED
      BY <1>3, <2>1 DEF Jumps
  <1> QED
    BY <1>4

\* A predicate that holds at j and wherever a pair of R leads to a place where it holds.
Reaches(f, i, j, R) ==
  f = [k \in i .. j |-> k = j \/ \E m \in k + 1 .. j : <<k, m>> \in R /\ f[m]]

LEMMA ReachExists ==
  ASSUME NEW i \in Int, NEW j \in Int, NEW R
  PROVE  \E f : Reaches(f, i, j, R)
  <1> DEFINE Closed(S) == /\ j \in S
                          /\ \A k \in i .. j : \A m \in k + 1 .. j :
                               <<k, m>> \in R /\ m \in S => k \in S
             reach == {k \in i .. j : \A S \in SUBSET (i .. j) : Closed(S) => k \in S}
             f == [k \in i .. j |-> k \in reach]
  <1>1. ASSUME NEW k \in i .. j, k = j \/ \E m \in k + 1 .. j : <<k, m>> \in R /\ m \in reach
        PROVE  k \in reach
    BY <1>1
  <1>2. ASSUME NEW k \in reach  PROVE k = j \/ \E m \in k + 1 .. j : <<k, m>> \in R /\ m \in reach
    <2> DEFINE S == {a \in i .. j : a = j \/ \E m \in a + 1 .. j : <<a, m>> \in R /\ m \in reach}
    <2>1. \A a \in S : a \in reach
      <3> HIDE DEF reach
      <3> QED
        BY <1>1
    <2>2. S \in SUBSET (i .. j)
      OBVIOUS
    <2>3. k \in i .. j
      OBVIOUS
    <2>4. Closed(S)
      <3>1. j \in S
        BY <2>3
      <3>2. ASSUME NEW a \in i .. j, NEW m \in a + 1 .. j, <<a, m>> \in R, m \in S  PROVE a \in S
        <4>1. m \in reach
          BY <2>1, <3>2
        <4> HIDE DEF reach
        <4> QED
          BY <3>2, <4>1
      <3> HIDE DEF S
      <3> QED
        BY <3>1, <3>2
    <2>5. k \in S
      <3> HIDE DEF S
      <3> QED
        BY <2>2, <2>4
    <2> HIDE DEF reach
    <2> QED
      BY <2>5
  <1>3. ASSUME NEW k \in i .. j
        PROVE  f[k] = (k = j \/ \E m \in k + 1 .. j : <<k, m>> \in R /\ f[m])
    <2>1. \A m \in i .. j : f[m] = (m \in reach)
      OBVIOUS
    <2>2. \A m \in k + 1 .. j : m \in i .. j
      OBVIOUS
    <2>3. (k \in reach) = (k = j \/ \E m \in k + 1 .. j : <<k, m>> \in R /\ m \in reach)
      <3> HIDE DEF reach
      <3> QED
        BY <1>1, <1>2
    <2> HIDE DEF f, reach
    <2> QED
      BY <2>1, <2>2, <2>3, Zenon
  <1>4. Reaches(f, i, j, R)
    <2>1. f = [k \in i .. j |-> f[k]]
      OBVIOUS
    <2> HIDE DEF f
    <2> QED
      BY <1>3, <2>1, Zenon DEF Reaches
  <1> QED
    BY <1>4

-----------------------------------------------------------------------------
(* Scanning *)

LEMMA TextFacts ==
  ASSUME text \in Seq(STRING)
  PROVE  /\ Len(text) \in Nat /\ DOMAIN text = 1 .. Len(text)
         /\ Positions(text) = 1 .. Len(text) + 1
         /\ Ch(text, Len(text) + 1) = "NUL"
         /\ \A i \in 1 .. Len(text) : Ch(text, i) = text[i]
         /\ \A i \in Int : i > Len(text) => Ch(text, i) = "NUL"
  BY DEF Positions, Ch

\* Two characters that are not NUL stand in the text.
LEMMA OpensInside ==
  ASSUME text \in Seq(STRING), NEW i \in 1 .. Len(text) + 1, NEW a, NEW b,
         Opens(text, i, a, b), b # "NUL"
  PROVE  i + 1 \in 1 .. Len(text) /\ text[i] = a /\ text[i + 1] = b
  <1>1. Ch(text, i + 1) # "NUL" /\ Ch(text, i) = a /\ Ch(text, i + 1) = b
    BY DEF Opens
  <1>2. i + 1 \in 1 .. Len(text) /\ i \in 1 .. Len(text)
    BY <1>1, TextFacts
  <1> QED
    BY <1>1, <1>2, TextFacts

LEMMA FindIs ==
  ASSUME text \in Seq(STRING), NEW i \in 1 .. Len(text) + 1, NEW chars, "NUL" \in chars
  PROVE  LET f == Find(text, i, chars)
         IN  /\ f \in i .. Len(text) + 1 /\ Ch(text, f) \in chars
             /\ \A k \in i .. f - 1 : k \in 1 .. Len(text) /\ text[k] \notin chars
  <1> DEFINE S == {j \in i .. Len(text) + 1 : Ch(text, j) \in chars}
             f == Find(text, i, chars)
  <1>1. S \in SUBSET (1 .. Len(text) + 1) /\ Len(text) + 1 \in S
    BY TextFacts
  <1>2. f = Min(S)
    BY DEF Find
  <1>3. f \in S /\ \A j \in S : f <= j
    <2>1. Len(text) + 1 \in Nat /\ S # {}
      BY <1>1, TextFacts
    <2> HIDE DEF S, f
    <2> QED
      BY <1>1, <1>2, <2>1, FirstExists
  <1> HIDE DEF f
  <1>4. ASSUME NEW k \in i .. f - 1  PROVE k \in 1 .. Len(text) /\ text[k] \notin chars
    <2>1. k \in 1 .. Len(text) /\ k \notin S
      BY <1>3, TextFacts
    <2> QED
      BY <2>1, TextFacts
  <1> QED
    BY <1>3, <1>4 DEF f

LEMMA FirstNotInIs ==
  ASSUME text \in Seq(STRING), NEW i \in 1 .. Len(text) + 1, NEW S \in SUBSET DOMAIN text
  PROVE  LET f == FirstNotIn(text, i, S)
         IN  f \in i .. Len(text) + 1 /\ f \notin S /\ \A k \in i .. f - 1 : k \in S
  <1> DEFINE U == {j \in i .. Len(text) + 1 : j \notin S}
             f == FirstNotIn(text, i, S)
  <1>1. U \in SUBSET (1 .. Len(text) + 1) /\ Len(text) + 1 \in U
    BY TextFacts
  <1>2. f = Min(U)
    BY DEF FirstNotIn
  <1>3. f \in U /\ \A j \in U : f <= j
    <2>1. Len(text) + 1 \in Nat /\ U # {}
      BY <1>1, TextFacts
    <2> HIDE DEF U, f
    <2> QED
      BY <1>1, <1>2, <2>1, FirstExists
  <1> HIDE DEF f
  <1>4. ASSUME NEW k \in i .. f - 1  PROVE k \in S
    <2>1. k \in i .. Len(text) + 1 /\ k \notin U
      BY <1>3, TextFacts
    <2> QED
      BY <2>1
  <1> QED
    BY <1>3, <1>4 DEF f

LEMMA SkipWhitespaceIs ==
  ASSUME text \in Seq(STRING), NEW i \in 1 .. Len(text) + 1
  PROVE  LET f == SkipWhitespace(text, i)
         IN  /\ f \in i .. Len(text) + 1
             /\ f <= Len(text) => ~IsWhitespace(text[f])
             /\ \A k \in i .. f - 1 : IsWhitespace(text[k])
  <1> DEFINE S == {j \in DOMAIN text : IsWhitespace(text[j])}
             f == FirstNotIn(text, i, S)
  <1>1. S \in SUBSET DOMAIN text
    OBVIOUS
  <1>2. f \in i .. Len(text) + 1 /\ f \notin S /\ \A k \in i .. f - 1 : k \in S
    <2> HIDE DEF S
    <2> QED
      BY <1>1, FirstNotInIs
  <1>3. f <= Len(text) => f \in DOMAIN text
    BY <1>2, TextFacts
  <1> HIDE DEF f
  <1>4. f = SkipWhitespace(text, i)
    BY DEF f, SkipWhitespace
  <1> QED
    BY <1>2, <1>3, <1>4

-----------------------------------------------------------------------------
(* Comments *)

LineOpens(i) == Opens(text, i, "-", "-") \/ Ch(text, i) = "#"
BlockOpens(i) == Opens(text, i, "/", "*")

\* A comment is skipped whole, and the white space behind it.
SkipsOne(i, stop) ==
  \E c \in i + 1 .. Len(text) + 1 : IsComment(i, c) /\ stop = SkipWhitespace(text, c)

LEMMA LineCommentSkips ==
  ASSUME text \in Seq(STRING), NEW i \in 1 .. Len(text) + 1, LineOpens(i)
  PROVE  SkipsOne(i, LineComment(text, i))
  <1> DEFINE chars == {"\n", "NUL"}
             f == Find(text, i, chars)
  <1>1. i \in 1 .. Len(text) /\ text[i] \in {"-", "#"}
    <2>1. CASE Opens(text, i, "-", "-")
      BY <2>1, OpensInside
    <2>2. CASE Ch(text, i) = "#"
      BY <2>2, TextFacts
    <2> QED
      BY <2>1, <2>2 DEF LineOpens
  <1>2. /\ f \in i .. Len(text) + 1 /\ Ch(text, f) \in chars
        /\ \A k \in i .. f - 1 : k \in 1 .. Len(text) /\ text[k] \notin chars
    BY FindIs
  <1> HIDE DEF f
  <1>3. f # i
    BY <1>1, <1>2, TextFacts
  <1>4. f \in i + 1 .. Len(text) + 1
    BY <1>2, <1>3, TextFacts
  <1>5. IsComment(i, f)
    BY <1>2 DEF IsComment, LineOpens
  <1>6. LineComment(text, i) = SkipWhitespace(text, f)
    BY DEF LineComment, f
  <1> QED
    BY <1>4, <1>5, <1>6 DEF SkipsOne

LEMMA BlockCommentSkips ==
  ASSUME text \in Seq(STRING), NEW i \in 1 .. Len(text) + 1, BlockOpens(i)
  PROVE  SkipsOne(i, BlockComment(text, i))
  <1> DEFINE n == Len(text)
             closings == {j \in i + 2 .. n : Ch(text, j) = "*" /\ Ch(text, j + 1) = "/"}
             nul == Find(text, i + 2, {"NUL"})
             stop == BlockCommentFrom(text, i + 2)
             closed(k) == k >= i + 4 /\ Opens(text, k - 2, "*", "/")
  <1>1. n \in Nat /\ i + 1 \in 1 .. n /\ text[i] = "/" /\ text[i + 1] = "*"
    BY OpensInside, TextFacts DEF BlockOpens
  <1>2. /\ nul \in i + 2 .. n + 1 /\ Ch(text, nul) = "NUL"
        /\ \A k \in i + 2 .. nul - 1 : k \in 1 .. n /\ text[k] # "NUL"
    <2>1. i + 2 \in 1 .. Len(text) + 1
      BY <1>1
    <2> QED
      BY <2>1, FindIs
  <1>3. stop = IF closings # {} /\ Min(closings) < nul THEN Min(closings) + 2 ELSE nul
    BY DEF BlockCommentFrom
  <1>4. closings # {} => Min(closings) \in closings /\ \A j \in closings : Min(closings) <= j
    <2>1. closings \in SUBSET (1 .. n)
      BY <1>1
    <2> HIDE DEF closings
    <2> QED
      BY <1>1, <2>1, FirstExists
  <1>5. \A k \in i .. n + 1 : closed(k) => k - 2 \in closings
    BY <1>1 DEF Opens
  <1> HIDE DEF nul, stop
  <1>6. /\ stop \in i + 2 .. n + 1
        /\ \A k \in i .. stop - 1 : text[k] # "NUL" /\ ~closed(k)
        /\ Ch(text, stop) = "NUL" \/ closed(stop)
    <2>1. CASE closings # {} /\ Min(closings) < nul
      <3> DEFINE c == Min(closings)
      <3>1. /\ c \in i + 2 .. n /\ Ch(text, c) = "*" /\ Ch(text, c + 1) = "/" /\ stop = c + 2
            /\ c < nul /\ \A j \in closings : c <= j
        BY <1>3, <1>4, <2>1
      <3> HIDE DEF c
      <3>2. c + 1 \in 1 .. n /\ text[c] = "*" /\ text[c + 1] = "/"
        <4>1. c + 1 \in 1 .. n
          BY <1>1, <3>1, TextFacts
        <4> QED
          BY <1>1, <3>1, <4>1, TextFacts
      <3>3. ASSUME NEW k \in i .. stop - 1  PROVE text[k] # "NUL" /\ ~closed(k)
        <4>1. k = i \/ k = i + 1 \/ k = c \/ k = c + 1 \/ k \in i + 2 .. nul - 1
          BY <1>1, <1>2, <3>1
        <4>2. text[k] # "NUL"
          BY <1>1, <1>2, <3>2, <4>1
        <4>3. k \in i .. n + 1 /\ k - 2 < c
          BY <1>1, <3>1, <3>2
        <4>4. ~closed(k)
          <5> HIDE DEF closed
          <5> QED
            BY <1>1, <1>5, <3>1, <4>3
        <4> QED
          BY <4>2, <4>4
      <3>4. closed(stop)
        BY <1>1, <3>1 DEF Opens
      <3> QED
        BY <1>1, <3>1, <3>2, <3>3, <3>4
    <2>2. CASE ~(closings # {} /\ Min(closings) < nul)
      <3>1. stop = nul
        BY <1>3, <2>2
      <3>2. ASSUME NEW k \in i .. stop - 1  PROVE text[k] # "NUL" /\ ~closed(k)
        <4>1. k = i \/ k = i + 1 \/ k \in i + 2 .. nul - 1
          BY <1>1, <1>2, <3>1
        <4>2. text[k] # "NUL"
          BY <1>1, <1>2, <4>1
        <4>3. k \in i .. n + 1 /\ k - 2 < nul
          BY <1>1, <1>2, <3>1
        <4>4. closed(k) => k - 2 \in closings
          BY <1>5, <4>3
        <4>5. ~closed(k)
          <5>1. closings # {} => Min(closings) \in Int
            BY <1>4
          <5> HIDE DEF closed, closings
          <5> QED
            BY <1>1, <1>2, <1>4, <2>2, <4>3, <4>4, <5>1
        <4> QED
          BY <4>2, <4>5
      <3> QED
        BY <1>2, <3>1, <3>2
    <2> QED
      BY <2>1, <2>2
  <1>7. IsComment(i, stop)
    BY <1>6 DEF IsComment, BlockOpens
  <1>8. BlockComment(text, i) = SkipWhitespace(text, stop)
    BY DEF BlockComment, stop
  <1>9. stop \in i + 1 .. Len(text) + 1
    BY <1>1, <1>6
  <1> QED
    BY <1>7, <1>8, <1>9 DEF SkipsOne

Skips(i, stop) == stop = i \/ SkipsOne(i, stop)

LEMMA SkipsOneForward ==
  ASSUME text \in Seq(STRING), NEW i \in 1 .. Len(text) + 1, NEW stop, SkipsOne(i, stop)
  PROVE  stop \in i + 1 .. Len(text) + 1
  <1>1. PICK c \in i + 1 .. Len(text) + 1 : stop = SkipWhitespace(text, c)
    BY DEF SkipsOne
  <1>2. c \in 1 .. Len(text) + 1 /\ Len(text) \in Nat
    BY TextFacts
  <1>3. stop \in c .. Len(text) + 1
    BY <1>1, <1>2, SkipWhitespaceIs
  <1> QED
    BY <1>2, <1>3

\* Each kind of comment is skipped where it begins, and nothing elsewhere.
LEMMA SkipKinds ==
  ASSUME text \in Seq(STRING), NEW i \in 1 .. Len(text) + 1
  PROVE  /\ Skips(i, SkipDashes(text, i)) /\ Skips(i, SkipBlock(text, i))
         /\ Skips(i, SkipHash(text, i))
         /\ SkipDashes(text, i) = i => ~Opens(text, i, "-", "-")
         /\ SkipBlock(text, i) = i => ~BlockOpens(i)
         /\ SkipHash(text, i) = i => Ch(text, i) # "#"
  <1>1. LineOpens(i) => SkipsOne(i, LineComment(text, i)) /\ LineComment(text, i) # i
    BY LineCommentSkips, SkipsOneForward
  <1>2. BlockOpens(i) => SkipsOne(i, BlockComment(text, i)) /\ BlockComment(text, i) # i
    BY BlockCommentSkips, SkipsOneForward
  <1> QED
    BY <1>1, <1>2 DEF Skips, SkipDashes, SkipBlock, SkipHash, LineOpens, BlockOpens

LEMMA SkipsForward ==
  ASSUME text \in Seq(STRING), NEW i \in 1 .. Len(text) + 1, NEW stop, Skips(i, stop)
  PROVE  stop \in i .. Len(text) + 1
  BY SkipsOneForward, TextFacts DEF Skips

LEMMA SkipCommentIs ==
  ASSUME text \in Seq(STRING), NEW i \in 1 .. Len(text) + 1
  PROVE  LET c == SkipComment(text, i)
         IN  /\ \E a, b : Skips(i, a) /\ Skips(a, b) /\ Skips(b, c)
             /\ c \in i .. Len(text) + 1
             /\ c = i => ~LineOpens(i) /\ ~BlockOpens(i)
  <1> DEFINE a == SkipDashes(text, i)
             b == SkipBlock(text, a)
             c == SkipHash(text, b)
             n == Len(text)
  <1>1. n \in Nat /\ Positions(text) = 1 .. n + 1
    BY TextFacts
  <1>2. Skips(i, a) /\ a \in i .. n + 1 /\ (a = i => ~Opens(text, i, "-", "-"))
    BY SkipKinds, SkipsForward
  <1> HIDE DEF a
  <1>3. a \in 1 .. n + 1
    BY <1>1, <1>2
  <1>4. Skips(a, b) /\ b \in a .. n + 1 /\ (b = a => ~BlockOpens(a))
    BY <1>3, SkipKinds, SkipsForward
  <1> HIDE DEF b
  <1>5. b \in 1 .. n + 1
    BY <1>1, <1>3, <1>4
  <1>6. Skips(b, c) /\ c \in b .. n + 1 /\ (c = b => Ch(text, b) # "#")
    BY <1>5, SkipKinds, SkipsForward
  <1>7. c = SkipComment(text, i)
    BY <1>1, <1>3, <1>5 DEF a, b, SkipComment
  <1> HIDE DEF c
  <1>8. c \in i .. n + 1 /\ (c = i => a = i /\ b = i)
    BY <1>1, <1>2, <1>3, <1>4, <1>5, <1>6
  <1>9. c = i => ~LineOpens(i) /\ ~BlockOpens(i)
    BY <1>2, <1>4, <1>6, <1>8 DEF LineOpens
  <1> QED
    BY <1>2, <1>4, <1>6, <1>7, <1>8, <1>9

-----------------------------------------------------------------------------
(* Where the next token begins *)

\* Behind the white space and the comments that nextToken() skips first.
Behind(k) == SkipComment(text, SkipWhitespace(text, k))

LEMMA BehindIs ==
  ASSUME text \in Seq(STRING), NEW k \in 1 .. Len(text) + 1
  PROVE  /\ SkipWhitespace(text, k) \in k .. Len(text) + 1
         /\ Behind(k) \in SkipWhitespace(text, k) .. Len(text) + 1
         /\ Behind(k) \in k .. Len(text) + 1
         /\ Opens(text, Behind(k), "-", "-")
              => SkipComment(text, Behind(k)) \in Behind(k) + 1 .. Len(text) + 1
  <1> DEFINE w == SkipWhitespace(text, k)
  <1>1. Len(text) \in Nat /\ w \in k .. Len(text) + 1
    BY TextFacts, SkipWhitespaceIs
  <1>2. w \in 1 .. Len(text) + 1
    BY <1>1
  <1> HIDE DEF w
  <1>3. Behind(k) \in w .. Len(text) + 1
    BY <1>2, SkipCommentIs DEF Behind, w
  <1>4. Behind(k) \in 1 .. Len(text) + 1
    BY <1>2, <1>3
  <1>5. Opens(text, Behind(k), "-", "-")
          => SkipComment(text, Behind(k)) \in Behind(k) + 1 .. Len(text) + 1
    <2> DEFINE d == Behind(k)
    <2>1. d \in 1 .. Len(text) + 1
      BY <1>4
    <2> HIDE DEF d
    <2>2. /\ SkipComment(text, d) \in d .. Len(text) + 1
          /\ SkipComment(text, d) = d => ~LineOpens(d)
      BY <2>1, SkipCommentIs
    <2>3. Opens(text, d, "-", "-") => SkipComment(text, d) \in d + 1 .. Len(text) + 1
      BY <1>1, <2>1, <2>2 DEF LineOpens
    <2> QED
      BY <2>3 DEF d
  <1> QED
    BY <1>1, <1>2, <1>3, <1>5 DEF w

LEMMA StartUnfolds ==
  ASSUME text \in Seq(STRING), NEW k \in 1 .. Len(text) + 1
  PROVE  TokenStart(text, k) = IF Opens(text, Behind(k), "-", "-")
                               THEN TokenStart(text, SkipComment(text, Behind(k)))
                               ELSE Behind(k)
  <1> DEFINE N == Len(text) + 1
             behind == [j \in Positions(text) |-> SkipComment(text, j)]
             dashes(j) == Opens(text, Behind(j), "-", "-")
             Stop == {j \in 1 .. N : ~dashes(j)}
             val == [j \in 1 .. N |-> Behind(j)]
             next == [j \in 1 .. N |-> SkipComment(text, Behind(j))]
             Is(f) == f = [j \in Positions(text) |->
                             LET d == behind[SkipWhitespace(text, j)] IN
                               IF Opens(text, d, "-", "-") THEN f[behind[d]] ELSE d]
  <1>1. N \in Nat /\ Positions(text) = 1 .. N
    BY TextFacts
  <1>2. ASSUME NEW j \in 1 .. N
        PROVE  /\ behind[SkipWhitespace(text, j)] = Behind(j)
               /\ behind[Behind(j)] = SkipComment(text, Behind(j))
               /\ dashes(j) => SkipComment(text, Behind(j)) \in j + 1 .. N
    <2>1. /\ SkipWhitespace(text, j) \in 1 .. N /\ Behind(j) \in j .. N
          /\ dashes(j) => SkipComment(text, Behind(j)) \in Behind(j) + 1 .. N
      BY <1>1, BehindIs
    <2> QED
      BY <1>1, <2>1 DEF Behind
  <1>3. PICK f : Jumps(f, N, Stop, val, next)
    <2>1. \A j \in (1 .. N) \ Stop : next[j] \in j + 1 .. N
      BY <1>2
    <2> HIDE DEF Stop, val, next, N
    <2> QED
      BY <1>1, <2>1, JumpExists
  <1>4. \E g : Is(g)
    <2>1. \A j \in 1 .. N : f[j] = IF dashes(j) THEN f[SkipComment(text, Behind(j))] ELSE Behind(j)
      BY <1>3 DEF Jumps
    <2>2. f = [j \in 1 .. N |-> f[j]]
      BY <1>3 DEF Jumps
    <2> HIDE DEF behind
    <2>3. Is(f)
      BY <1>1, <1>2, <2>1, <2>2
    <2> QED
      BY <2>3
  <1> DEFINE start == CHOOSE g : Is(g)
  <1>5. Is(start)
    <2> HIDE DEF Is
    <2> QED
      BY <1>4
  <1>6. \A j : TokenStart(text, j) = start[j]
    BY DEF TokenStart
  <1> HIDE DEF start
  <1>7. \A j \in 1 .. N : start[j] = IF dashes(j) THEN start[SkipComment(text, Behind(j))] ELSE Behind(j)
    <2> HIDE DEF behind
    <2> QED
      BY <1>1, <1>2, <1>5
  <1> QED
    BY <1>6, <1>7

LEMMA StartForward ==
  ASSUME text \in Seq(STRING), NEW k \in 1 .. Len(text) + 1
  PROVE  TokenStart(text, k) \in Behind(k) .. Len(text) + 1
  <1> DEFINE N == Len(text) + 1
             bad == {j \in 1 .. N : TokenStart(text, j) \notin Behind(j) .. N}
  <1>1. N \in Nat
    BY TextFacts
  <1>2. ASSUME bad # {}  PROVE FALSE
    <2>1. PICK j \in bad : \A m \in bad : m <= j
      <3>1. bad \in SUBSET (1 .. N)
        OBVIOUS
      <3> HIDE DEF bad
      <3> QED
        BY <1>1, <1>2, <3>1, LastExists
    <2>2. j \in 1 .. N /\ Behind(j) \in j .. N
      BY <1>1, BehindIs
    <2>3. Opens(text, Behind(j), "-", "-")
      BY <1>1, <2>2, StartUnfolds
    <2> DEFINE m == SkipComment(text, Behind(j))
    <2>4. m \in Behind(j) + 1 .. N /\ TokenStart(text, j) = TokenStart(text, m)
      BY <2>2, <2>3, BehindIs, StartUnfolds
    <2> HIDE DEF m
    <2>5. m \in 1 .. N /\ m > j
      BY <2>2, <2>4
    <2>6. m \notin bad
      BY <2>1, <2>5
    <2>7. Behind(m) \in m .. N
      BY <2>5, BehindIs
    <2>8. TokenStart(text, j) \in Behind(j) .. N
      BY <1>1, <2>2, <2>4, <2>5, <2>6, <2>7
    <2> QED
      BY <2>1, <2>8
  <1> QED
    BY <1>2

\* The places from which pieces lead to j.
Closed(S, i, j) ==
  j \in S /\ \A k \in i .. j : \A m \in k + 1 .. j : IsPiece(k, m) /\ m \in S => k \in S

LEMMA BlankSet ==
  ASSUME NEW i \in Int, NEW j \in Int, i <= j
  PROVE  \E S \in SUBSET (i .. j) : Closed(S, i, j) /\ (i \in S => IsBlank(i, j))
  <1> DEFINE R == {p \in (i .. j) \X (i .. j) : IsPiece(p[1], p[2])}
             Is(f) == f = [k \in i .. j |-> k = j \/ \E m \in k + 1 .. j : IsPiece(k, m) /\ f[m]]
  <1>1. PICK f : Reaches(f, i, j, R)
    BY ReachExists
  <1>2. Is(f)
    <2>1. \A k \in i .. j : \A m \in k + 1 .. j : <<k, m>> \in R <=> IsPiece(k, m)
      OBVIOUS
    <2> HIDE DEF R
    <2> QED
      BY <1>1, <2>1, Zenon DEF Reaches
  <1> DEFINE blank == CHOOSE g : Is(g)
  <1>3. Is(blank)
    <2> HIDE DEF Is
    <2> QED
      BY <1>2
  <1>4. IsBlank(i, j) = blank[i]
    BY DEF IsBlank
  <1> HIDE DEF blank
  <1>5. \A k \in i .. j : blank[k] = (k = j \/ \E m \in k + 1 .. j : IsPiece(k, m) /\ blank[m])
    BY <1>3, Zenon
  <1> DEFINE S == {k \in i .. j : blank[k]}
  <1>6. Closed(S, i, j)
    <2>1. \A k \in i .. j : k \in S <=> k = j \/ \E m \in k + 1 .. j : IsPiece(k, m) /\ blank[m]
      BY <1>5
    <2>2. \A k \in i .. j : \A m \in k + 1 .. j : m \in S => blank[m]
      OBVIOUS
    <2>3. j \in i .. j
      OBVIOUS
    <2> HIDE DEF S
    <2> QED
      BY <2>1, <2>2, <2>3 DEF Closed
  <1>7. i \in S => IsBlank(i, j)
    BY <1>4
  <1> HIDE DEF S
  <1>8. S \in SUBSET (i .. j)
    BY DEF S
  <1> QED
    BY <1>6, <1>7, <1>8

LEMMA RunBack ==
  ASSUME NEW i \in Nat \ {0}, NEW j \in Nat, NEW S, Closed(S, i, j),
         NEW k \in i .. j, NEW w \in k .. j, w \in S, \A x \in k .. w - 1 : IsWhitespace(text[x])
  PROVE  k \in S
  <1> DEFINE bad == {x \in k .. w : x \notin S}
  <1>1. ASSUME bad # {}  PROVE FALSE
    <2>1. PICK x \in bad : \A y \in bad : y <= x
      <3>1. bad \in SUBSET (1 .. j)
        OBVIOUS
      <3> HIDE DEF bad
      <3> QED
        BY <1>1, <3>1, LastExists
    <2>2. x \in k .. w - 1 /\ x \notin S
      BY <2>1
    <2>3. x + 1 \in k .. w /\ x + 1 \notin bad
      BY <2>1, <2>2
    <2>4. x + 1 \in S /\ x \in i .. j /\ x + 1 \in x + 1 .. j
      BY <2>2, <2>3
    <2>5. IsPiece(x, x + 1)
      BY <2>2 DEF IsPiece
    <2> QED
      BY <2>2, <2>4, <2>5 DEF Closed
  <1>2. k \in k .. w
    OBVIOUS
  <1> QED
    BY <1>1, <1>2

LEMMA SkipBack ==
  ASSUME text \in Seq(STRING), NEW i \in Nat \ {0}, NEW j \in 1 .. Len(text) + 1,
         NEW S, Closed(S, i, j),
         NEW k \in i .. j, NEW c \in k .. j, c \in S, Skips(k, c)
  PROVE  k \in S
  <1>1. CASE c = k
    BY <1>1
  <1>2. CASE SkipsOne(k, c)
    <2>1. PICK e \in k + 1 .. Len(text) + 1 : IsComment(k, e) /\ c = SkipWhitespace(text, e)
      BY <1>2 DEF SkipsOne
    <2>2. Len(text) \in Nat /\ e \in 1 .. Len(text) + 1
      BY <2>1, TextFacts
    <2>3. c \in e .. Len(text) + 1 /\ \A x \in e .. c - 1 : IsWhitespace(text[x])
      BY <2>1, <2>2, SkipWhitespaceIs
    <2>4. e \in i .. j /\ c \in e .. j /\ e \in k + 1 .. j
      BY <2>1, <2>2, <2>3
    <2>5. e \in S
      BY <2>2, <2>3, <2>4, RunBack
    <2>6. IsPiece(k, e)
      BY <2>1 DEF IsPiece
    <2> QED
      BY <2>4, <2>5, <2>6 DEF Closed
  <1> QED
    BY <1>1, <1>2 DEF Skips

LEMMA CommentBack ==
  ASSUME text \in Seq(STRING), NEW i \in Nat \ {0}, NEW j \in 1 .. Len(text) + 1,
         NEW S, Closed(S, i, j), NEW k \in i .. j,
         SkipComment(text, k) \in S, SkipComment(text, k) <= j
  PROVE  k \in S
  <1> DEFINE c == SkipComment(text, k)
  <1>1. k \in 1 .. Len(text) + 1 /\ Len(text) \in Nat
    BY TextFacts
  <1>2. PICK a, b : Skips(k, a) /\ Skips(a, b) /\ Skips(b, c)
    BY <1>1, SkipCommentIs
  <1> HIDE DEF c
  <1>3. a \in k .. Len(text) + 1
    BY <1>1, <1>2, SkipsForward
  <1>4. b \in a .. Len(text) + 1
    BY <1>1, <1>2, <1>3, SkipsForward
  <1>5. c \in b .. Len(text) + 1
    BY <1>1, <1>2, <1>3, <1>4, SkipsForward
  <1>6. c \in S /\ c <= j
    BY DEF c
  <1>7. a \in i .. j /\ b \in i .. j /\ b \in a .. j /\ c \in b .. j /\ a \in k .. j
    BY <1>1, <1>3, <1>4, <1>5, <1>6
  <1>8. b \in S
    BY <1>2, <1>6, <1>7, SkipBack
  <1>9. a \in S
    BY <1>2, <1>7, <1>8, SkipBack
  <1> QED
    BY <1>2, <1>7, <1>9, SkipBack

LEMMA BlanksBefore ==
  ASSUME text \in Seq(STRING), NEW from \in 1 .. Len(text) + 1
  PROVE  IsBlank(from, TokenStart(text, from))
  <1> DEFINE N == Len(text) + 1
             s == TokenStart(text, from)
  <1>1. N \in Nat
    BY TextFacts
  <1>2. ASSUME NEW k \in 1 .. N
        PROVE  TokenStart(text, k) \in k .. N /\ Behind(k) \in k .. N
               /\ TokenStart(text, k) >= Behind(k)
    BY <1>1, StartForward, BehindIs
  <1>3. s \in from .. N
    BY <1>2
  <1> HIDE DEF s
  <1>4. from \in Nat \ {0} /\ s \in Nat /\ from <= s /\ s \in 1 .. N
    BY <1>1, <1>3
  <1>5. PICK S \in SUBSET (from .. s) : Closed(S, from, s) /\ (from \in S => IsBlank(from, s))
    BY <1>4, BlankSet
  <1> DEFINE bad == {k \in from .. s : TokenStart(text, k) = s /\ k \notin S}
  <1>6. ASSUME bad # {}  PROVE FALSE
    <2>1. PICK k \in bad : \A m \in bad : m <= k
      <3>1. bad \in SUBSET (1 .. N)
        BY <1>4
      <3> HIDE DEF bad
      <3> QED
        BY <1>1, <1>6, <3>1, LastExists
    <2>2. k \in from .. s /\ k \in 1 .. N /\ TokenStart(text, k) = s /\ k \notin S
      BY <1>4, <2>1
    <2> DEFINE w == SkipWhitespace(text, k)
               d == Behind(k)
    <2>3. /\ w \in k .. N /\ \A x \in k .. w - 1 : IsWhitespace(text[x])
          /\ d \in w .. N /\ d \in k .. N /\ d <= s
      BY <1>1, <1>2, <2>2, SkipWhitespaceIs, BehindIs
    <2>4. d = SkipComment(text, w)
      BY DEF Behind
    <2> HIDE DEF w, d
    <2>5. d \in S
      <3>1. CASE Opens(text, d, "-", "-")
        <4> DEFINE m == SkipComment(text, d)
        <4>1. m \in d + 1 .. N /\ TokenStart(text, m) = s
          BY <2>2, <3>1, BehindIs, StartUnfolds DEF d
        <4> HIDE DEF m
        <4>2. m \in from .. s /\ m > k
          <5>1. m \in 1 .. N /\ m > k /\ m >= from
            BY <1>1, <1>4, <2>2, <2>3, <4>1
          <5>2. s \in m .. N
            BY <1>2, <4>1, <5>1
          <5> QED
            BY <1>1, <1>4, <5>1, <5>2
        <4>3. m \in S
          BY <2>1, <2>2, <4>1, <4>2
        <4>4. d \in from .. s
          BY <1>4, <2>2, <2>3
        <4> QED
          BY <1>4, <1>5, <4>2, <4>3, <4>4, CommentBack DEF m
      <3>2. CASE ~Opens(text, d, "-", "-")
        <4>1. s = d
          BY <2>2, <3>2, StartUnfolds DEF d
        <4> QED
          BY <1>5, <4>1 DEF Closed
      <3> QED
        BY <3>1, <3>2
    <2>6. w \in from .. s /\ d <= s /\ w \in k .. s
      BY <1>4, <2>2, <2>3
    <2>7. w \in S
      BY <1>4, <1>5, <2>4, <2>5, <2>6, CommentBack
    <2>8. k \in S
      BY <1>4, <1>5, <2>2, <2>3, <2>6, <2>7, RunBack
    <2> QED
      BY <2>2, <2>8
  <1>7. from \in from .. s /\ TokenStart(text, from) = s
    BY <1>4 DEF s
  <1>8. from \in S
    BY <1>6, <1>7
  <1> QED
    BY <1>5, <1>8 DEF s

\* Behind white space alone no comment is left.
LEMMA FirstCommentSkipped ==
  ASSUME text \in Seq(STRING), NEW from \in 1 .. Len(text) + 1,
         \A i \in from .. TokenStart(text, from) - 1 : IsWhitespace(text[i])
  PROVE  ~LineOpens(TokenStart(text, from)) /\ ~BlockOpens(TokenStart(text, from))
  <1> DEFINE N == Len(text) + 1
             s == TokenStart(text, from)
             w == SkipWhitespace(text, from)
             d == Behind(from)
  <1>1. N \in Nat /\ s \in d .. N /\ d \in w .. N /\ w \in from .. N
        /\ (w <= Len(text) => ~IsWhitespace(text[w]))
    <2>1. N \in Nat /\ s \in d .. N
      BY TextFacts, StartForward
    <2>2. d \in w .. N /\ w \in from .. N
      BY BehindIs
    <2>3. w <= Len(text) => ~IsWhitespace(text[w])
      BY SkipWhitespaceIs
    <2> QED
      BY <2>1, <2>2, <2>3
  <1>2. d = SkipComment(text, w)
    BY DEF Behind
  <1>3. ~Opens(text, d, "-", "-") => s = d
    BY StartUnfolds
  <1> HIDE DEF s, w, d
  <1>4. s = w
    <2>1. CASE w <= Len(text)
      <3>1. ~ w \in from .. s - 1
        BY <1>1, <2>1 DEF s
      <3> QED
        BY <1>1, <3>1
    <2>2. CASE w > Len(text)
      BY <1>1, <2>2, TextFacts
    <2> QED
      BY <1>1, <2>1, <2>2, TextFacts
  <1>5. d = w
    BY <1>1, <1>4
  <1>6. w \in 1 .. Len(text) + 1
    BY <1>1
  <1>7. ~LineOpens(w) /\ ~BlockOpens(w)
    BY <1>2, <1>5, <1>6, SkipCommentIs
  <1> QED
    BY <1>4, <1>7 DEF s

-----------------------------------------------------------------------------
(* The tokens *)

\* What MaximalMunch asks of a token of this type that stands at i .. stop - 1.
MunchAt(type, i, stop) ==
  LET longer == {j \in stop + 1 .. Len(text) + 1 : IsToken(i, j)}
  IN CASE type = "EOF" -> Ch(text, i) = "NUL" /\ stop = i
       [] type = "ILLEGAL" -> stop = i + 1 /\ longer = {} /\ ~IsToken(i, i + 1)
       [] OTHER -> IsToken(i, stop) /\ longer = {}

Munches(i) ==
  LET t == TokenAt(text, i)
  IN t.start = i /\ t.stop \in i .. Len(text) + 1 /\ MunchAt(t.type, i, t.stop)

Singles == {"+", "-", "*", "/", "%", "=", "<", ">", ",", ";", ".", "(", ")"}
IsPair(c, d) == (c = "!" /\ d = "=") \/ (c = "<" /\ d \in {"=", ">"}) \/ (c = ">" /\ d = "=")

LEMMA OperatorIs ==
  ASSUME text \in Seq(STRING), NEW i \in 1 .. Len(text), NEW j \in i + 1 .. Len(text) + 1
  PROVE  SubSeq(text, i, j - 1) \in Operators
           <=> \/ j = i + 1 /\ text[i] \in Singles
               \/ j = i + 2 /\ IsPair(text[i], text[i + 1])
  <1> DEFINE s == SubSeq(text, i, j - 1)
  <1>1. Len(text) \in Nat /\ i \in Int /\ j - 1 \in Int
    BY TextFacts
  <1>2. /\ s \in Seq(STRING) /\ Len(s) = j - i
        /\ \A x \in 1 .. j - i : s[x] = text[i + x - 1]
    <2> DEFINE m == j - 1
    <2>1. m \in Int /\ \A x \in i .. m : text[x] \in STRING
      BY <1>1
    <2> HIDE DEF m
    <2>2. /\ SubSeq(text, i, m) \in Seq(STRING)
          /\ Len(SubSeq(text, i, m)) = IF i <= m THEN m - i + 1 ELSE 0
          /\ \A x \in 1 .. m - i + 1 : SubSeq(text, i, m)[x] = text[i + x - 1]
      BY <1>1, <2>1, SubSeqProperties
    <2> QED
      BY <1>1, <2>2 DEF m
  <1> HIDE DEF s
  <1>3. s[1] = text[i] /\ (j = i + 2 => s[2] = text[i + 1])
    BY <1>1, <1>2
  <1>4. Operators = {<<c>> : c \in Singles}
                    \cup {<<"!", "=">>, <<"<", "=">>, <<"<", ">">>, <<">", "=">>}
    BY DEF Operators, Singles
  <1>5. ASSUME s \in Operators
        PROVE  (j = i + 1 /\ text[i] \in Singles) \/ (j = i + 2 /\ IsPair(text[i], text[i + 1]))
    <2>1. CASE \E c \in Singles : s = <<c>>
      BY <1>1, <1>2, <1>3, <2>1
    <2>2. CASE s \in {<<"!", "=">>, <<"<", "=">>, <<"<", ">">>, <<">", "=">>}
      <3>1. Len(s) = 2
        BY <2>2
      <3>2. \/ s[1] = "!" /\ s[2] = "="
            \/ s[1] = "<" /\ s[2] = "="
            \/ s[1] = "<" /\ s[2] = ">"
            \/ s[1] = ">" /\ s[2] = "="
        BY <2>2
      <3>3. j - i = 2
        BY <1>1, <1>2, <3>1
      <3>4. j = i + 2
        BY <1>1, <3>3
      <3> QED
        BY <1>3, <3>2, <3>4 DEF IsPair
    <2> QED
      BY <1>4, <1>5, <2>1, <2>2
  <1>6. ASSUME j = i + 1, text[i] \in Singles  PROVE s \in Operators
    <2>1. Len(s) = 1
      BY <1>1, <1>2, <1>6
    <2>2. s = <<text[i]>>
      BY <1>2, <1>3, <2>1
    <2> QED
      BY <1>4, <1>6, <2>2
  <1>7. ASSUME j = i + 2, IsPair(text[i], text[i + 1])  PROVE s \in Operators
    <2>1. Len(s) = 2
      BY <1>1, <1>2, <1>7
    <2>2. s = <<text[i], text[i + 1]>>
      BY <1>2, <1>3, <1>7, <2>1
    <2> QED
      BY <1>4, <1>7, <2>2 DEF IsPair
  <1> QED
    BY <1>5, <1>6, <1>7 DEF s

\* The kinds of characters a token begins with exclude one another.
LEMMA Kinds ==
  ASSUME NEW c
  PROVE  /\ IsLetter(c) => ~IsDigit(c) /\ c \notin Quotes \cup Singles \cup {"!", "NUL", "\\"}
         /\ IsDigit(c) => c \notin Quotes \cup Singles \cup {"!", "NUL", "\\"}
         /\ c \in Quotes => c \notin Singles \cup {"!", "NUL", "\\"}
  BY DEF IsLetter, IsDigit, Keywords, Quotes, Singles

LEMMA WordMunches ==
  ASSUME text \in Seq(STRING), NEW i \in 1 .. Len(text), IsLetter(text[i])
  PROVE  LET stop == ReadIdentifier(text, i)
         IN  /\ stop \in i + 1 .. Len(text) + 1 /\ IsToken(i, stop)
             /\ \A j \in stop + 1 .. Len(text) + 1 : ~IsToken(i, j)
  <1> DEFINE S == {j \in DOMAIN text : IsLetter(text[j]) \/ IsDigit(text[j])}
             stop == FirstNotIn(text, i, S)
  <1>1. Len(text) \in Nat /\ DOMAIN text = 1 .. Len(text) /\ i \in 1 .. Len(text) + 1
    BY TextFacts
  <1>2. stop \in i .. Len(text) + 1 /\ stop \notin S /\ \A k \in i .. stop - 1 : k \in S
    <2>1. S \in SUBSET DOMAIN text
      OBVIOUS
    <2> HIDE DEF S
    <2> QED
      BY <1>1, <2>1, FirstNotInIs
  <1>3. stop = ReadIdentifier(text, i)
    BY DEF ReadIdentifier
  <1> HIDE DEF stop
  <1>4. i \in S
    BY <1>1
  <1>5. stop \in i + 1 .. Len(text) + 1
    BY <1>1, <1>2, <1>4
  <1>6. IsToken(i, stop)
    BY <1>2 DEF IsToken, IsWord
  <1>7. ASSUME NEW j \in stop + 1 .. Len(text) + 1  PROVE ~IsToken(i, j)
    <2>1. stop \in i .. j - 1 /\ ~(IsLetter(text[stop]) \/ IsDigit(text[stop]))
      BY <1>1, <1>2, <1>5
    <2>2. SubSeq(text, i, j - 1) \notin Operators
      <3>1. j \in i + 1 .. Len(text) + 1
        BY <1>1, <1>5
      <3> QED
        BY <3>1, OperatorIs, Kinds DEF IsPair, Singles
    <2> QED
      BY <2>1, <2>2, Kinds DEF IsToken, IsWord, IsNumber, IsString
  <1> QED
    BY <1>3, <1>5, <1>6, <1>7

LEMMA NumberMunches ==
  ASSUME text \in Seq(STRING), NEW i \in 1 .. Len(text), IsDigit(text[i])
  PROVE  LET stop == ReadNumber(text, i)
         IN  /\ stop \in i + 1 .. Len(text) + 1 /\ IsToken(i, stop)
             /\ \A j \in stop + 1 .. Len(text) + 1 : ~IsToken(i, j)
  <1> DEFINE S == {j \in DOMAIN text :
                     IsDigit(text[j]) \/ (text[j] = "." /\ Dots(text, i, j - 1) = {})}
             stop == FirstNotIn(text, i, S)
  <1>1. Len(text) \in Nat /\ DOMAIN text = 1 .. Len(text) /\ i \in 1 .. Len(text) + 1
    BY TextFacts
  <1>2. stop \in i .. Len(text) + 1 /\ stop \notin S /\ \A k \in i .. stop - 1 : k \in S
    <2>1. S \in SUBSET DOMAIN text
      OBVIOUS
    <2> HIDE DEF S
    <2> QED
      BY <1>1, <2>1, FirstNotInIs
  <1>3. stop = ReadNumber(text, i)
    BY DEF ReadNumber
  <1> HIDE DEF stop
  <1>4. i \in S
    BY <1>1
  <1>5. stop \in i + 1 .. Len(text) + 1
    BY <1>1, <1>2, <1>4
  <1>6. \A k \in 1 .. Len(text) : \A m \in i .. k - 1 : Dots(text, i, k - 1) = {} => text[m] # "."
    BY <1>1, TextFacts DEF Dots
  <1>7. \A k \in 1 .. Len(text) : Dots(text, i, k - 1) # {} => \E m \in i .. k - 1 : text[m] = "."
    BY <1>1, TextFacts DEF Dots
  <1>8. ~IsDigit(".")
    BY DEF IsDigit
  <1>9. IsToken(i, stop)
    <2>1. \A k \in i .. stop - 1 : IsDigit(text[k]) \/ text[k] = "."
      BY <1>2
    <2>2. ASSUME NEW k \in i .. stop - 1, NEW m \in i .. stop - 1,
                 text[k] = ".", text[m] = ".", k < m
          PROVE  FALSE
      <3>1. Dots(text, i, m - 1) = {} /\ m \in 1 .. Len(text) /\ k \in i .. m - 1
        BY <1>1, <1>2, <1>8, <2>2
      <3> QED
        BY <1>6, <2>2, <3>1
    <2>3. \A k, m \in i .. stop - 1 : text[k] = "." /\ text[m] = "." => k = m
      BY <1>1, <1>5, <2>2
    <2> QED
      BY <2>1, <2>3 DEF IsToken, IsNumber
  <1>10. ASSUME NEW j \in stop + 1 .. Len(text) + 1  PROVE ~IsToken(i, j)
    <2>1. stop \in i .. j - 1 /\ stop \in 1 .. Len(text)
      BY <1>1, <1>5
    <2>2. ~IsNumber(i, j)
      <3>1. CASE text[stop] # "."
        BY <1>1, <1>2, <2>1, <3>1 DEF IsNumber
      <3>2. CASE text[stop] = "."
        <4>1. Dots(text, i, stop - 1) # {}
          BY <1>1, <1>2, <2>1, <3>2
        <4>2. PICK m \in i .. stop - 1 : text[m] = "."
          BY <1>7, <2>1, <4>1
        <4>3. m \in i .. j - 1 /\ m # stop
          BY <1>1, <1>5
        <4> QED
          BY <2>1, <3>2, <4>2, <4>3 DEF IsNumber
      <3> QED
        BY <3>1, <3>2
    <2>3. SubSeq(text, i, j - 1) \notin Operators
      <3>1. j \in i + 1 .. Len(text) + 1
        BY <1>1, <1>5
      <3> QED
        BY <3>1, OperatorIs, Kinds DEF IsPair, Singles
    <2> QED
      BY <2>2, <2>3, Kinds DEF IsToken, IsWord, IsString
  <1> QED
    BY <1>3, <1>5, <1>9, <1>10

\* A pair, a single character, or one that begins no token.
LEMMA OperatorMunches ==
  ASSUME text \in Seq(STRING), NEW i \in 1 .. Len(text),
         ~IsLetter(text[i]), ~IsDigit(text[i]), text[i] \notin Quotes, text[i] # "NUL"
  PROVE  Munches(i)
  <1> DEFINE n == Len(text)
             p == PairAt(text, i)
  <1>1. n \in Nat /\ Ch(text, i) = text[i] /\ i + 1 \in 1 .. n + 1
    BY TextFacts
  <1>2. \A j \in i + 1 .. n + 1 :
          IsToken(i, j) <=> \/ j = i + 1 /\ text[i] \in Singles
                            \/ j = i + 2 /\ IsPair(text[i], text[i + 1])
    BY OperatorIs DEF IsToken, IsWord, IsNumber, IsString
  <1>3. p # "" <=> i + 1 \in 1 .. n /\ IsPair(text[i], text[i + 1])
    <2>1. \A a, b : Opens(text, i, a, b) /\ b # "NUL" <=>
                      i + 1 \in 1 .. n /\ text[i] = a /\ text[i + 1] = b /\ b # "NUL"
      <3>1. i + 1 \in 1 .. n => Ch(text, i + 1) = text[i + 1]
        BY TextFacts
      <3>2. i + 1 \notin 1 .. n => Ch(text, i + 1) = "NUL"
        BY <1>1, TextFacts
      <3> QED
        BY <1>1, <3>1, <3>2 DEF Opens
    <2> QED
      BY <2>1 DEF PairAt, IsPair
  <1>4. p # "" => PairTypes[p] \in {"NE", "LE", "GE"}
    <2>1. p # "" => p \in {"!=", "<=", "<>", ">="}
      BY DEF PairAt
    <2> QED
      BY <2>1 DEF PairTypes
  <1>5. TokenAt(text, i) = IF p # "" THEN [type |-> PairTypes[p], start |-> i, stop |-> i + 2]
                           ELSE [type |-> SingleType(text[i]), start |-> i, stop |-> i + 1]
    BY <1>1 DEF TokenAt
  <1>6. /\ SingleType(text[i]) # "EOF"
        /\ SingleType(text[i]) = "ILLEGAL" <=> text[i] \notin Singles
    BY DEF SingleType, Singles
  <1> HIDE DEF p
  <1>7. CASE p # ""
    <2>1. /\ TokenAt(text, i).start = i /\ TokenAt(text, i).stop = i + 2
          /\ TokenAt(text, i).type \in {"NE", "LE", "GE"}
      <3>1. TokenAt(text, i) = [type |-> PairTypes[p], start |-> i, stop |-> i + 2]
        BY <1>5, <1>7
      <3>2. TokenAt(text, i).start = i
        BY <3>1
      <3>3. TokenAt(text, i).stop = i + 2
        BY <3>1
      <3>4. TokenAt(text, i).type = PairTypes[p]
        BY <3>1
      <3>5. PairTypes[p] \in {"NE", "LE", "GE"}
        BY <1>4, <1>7
      <3> QED
        BY <3>2, <3>3, <3>4, <3>5
    <2>2. i + 2 \in i + 1 .. n + 1 /\ IsToken(i, i + 2)
      <3>1. i + 1 \in 1 .. n
        BY <1>3, <1>7
      <3>2. IsPair(text[i], text[i + 1])
        BY <1>3, <1>7
      <3>3. i + 2 \in i + 1 .. n + 1
        BY <1>1, <3>1
      <3> QED
        BY <1>1, <1>2, <3>2, <3>3
    <2>3. \A j \in i + 2 + 1 .. n + 1 : ~IsToken(i, j)
      BY <1>1, <1>2
    <2> QED
      BY <1>1, <2>1, <2>2, <2>3 DEF Munches, MunchAt
  <1>8. CASE p = ""
    <2>1. /\ TokenAt(text, i).start = i /\ TokenAt(text, i).stop = i + 1
          /\ TokenAt(text, i).type = SingleType(text[i])
      <3>1. TokenAt(text, i) = [type |-> SingleType(text[i]), start |-> i, stop |-> i + 1]
        BY <1>5, <1>8
      <3> QED
        BY <3>1
    <2>2. ASSUME NEW j \in i + 1 + 1 .. n + 1  PROVE ~IsToken(i, j)
      <3>1. j \in i + 1 .. n + 1 /\ j # i + 1
        BY <1>1
      <3>2. j = i + 2 => i + 1 \in 1 .. n
        BY <1>1, <3>1
      <3> QED
        BY <1>2, <1>3, <1>8, <3>1, <3>2
    <2>3. IsToken(i, i + 1) <=> text[i] \in Singles
      BY <1>1, <1>2
    <2> QED
      BY <1>1, <1>6, <2>1, <2>2, <2>3 DEF Munches, MunchAt
  <1> QED
    BY <1>7, <1>8

-----------------------------------------------------------------------------
(* Strings *)

\* What ends the string that begins at i.
IsEnd(i, k) == text[k] \in {text[i], "NUL"} /\ ~Escaped(i, k)

\* A backslash escapes the next character, unless it is escaped itself.
LEMMA EscapedSteps ==
  ASSUME text \in Seq(STRING), NEW i \in 1 .. Len(text)
  PROVE  /\ ~Escaped(i, i + 1)
         /\ \A k \in i + 1 .. Len(text) :
              /\ text[k] # "\\" => ~Escaped(i, k + 1)
              /\ text[k] = "\\" => (Escaped(i, k + 1) <=> ~Escaped(i, k))
  <1> DEFINE Plain(k) == {m \in i .. k - 1 : text[m] # "\\" \/ m = i}
             run(k) == k - 1 - Max(Plain(k))
  <1>1. Len(text) \in Nat
    BY TextFacts
  <1>2. \A S : \A x \in S : S \subseteq Int /\ (\A y \in S : y <= x) => Max(S) = x
    <2> SUFFICES ASSUME NEW S, NEW x \in S, S \subseteq Int, \A y \in S : y <= x
                 PROVE  Max(S) = x
      OBVIOUS
    <2>1. \A z \in S : (\A y \in S : z >= y) => z = x
      OBVIOUS
    <2> QED
      BY <2>1 DEF Max
  <1>3. \A k \in i + 1 .. Len(text) + 1 :
          /\ i \in Plain(k) /\ Plain(k) \in SUBSET (1 .. Len(text)) /\ Plain(k) \subseteq Int
          /\ \A y \in Plain(k) : y <= k - 1
    BY <1>1
  <1>4. \A k \in i + 1 .. Len(text) + 1 : Max(Plain(k)) \in Plain(k) /\ Max(Plain(k)) \in i .. k - 1
    <2> SUFFICES ASSUME NEW k \in i + 1 .. Len(text) + 1
                 PROVE  Max(Plain(k)) \in Plain(k) /\ Max(Plain(k)) \in i .. k - 1
      OBVIOUS
    <2>1. PICK x \in Plain(k) : \A y \in Plain(k) : y <= x
      <3> HIDE DEF Plain
      <3> QED
        BY <1>1, <1>3, LastExists
    <2>2. Max(Plain(k)) = x
      <3> HIDE DEF Plain
      <3> QED
        BY <1>2, <1>3, <2>1
    <2> QED
      BY <2>1, <2>2
  <1>5. \A k : Escaped(i, k) <=> run(k) % 2 = 1
    BY DEF Escaped
  <1>6. ~Escaped(i, i + 1)
    <2>1. Max(Plain(i + 1)) = i
      <3>1. i + 1 \in i + 1 .. Len(text) + 1
        BY <1>1
      <3>2. Max(Plain(i + 1)) \in i .. i + 1 - 1
        BY <1>4, <3>1
      <3> HIDE DEF Plain
      <3> QED
        BY <3>2
    <2>2. run(i + 1) = 0
      <3> HIDE DEF Plain
      <3> QED
        BY <2>1
    <2> HIDE DEF run
    <2> QED
      BY <1>5, <2>2
  <1>7. ASSUME NEW k \in i + 1 .. Len(text), text[k] # "\\"  PROVE ~Escaped(i, k + 1)
    <2>1. k \in Plain(k + 1) /\ \A y \in Plain(k + 1) : y <= k
      BY <1>1, <1>7
    <2>2. Max(Plain(k + 1)) = k
      <3>1. Plain(k + 1) \subseteq Int
        OBVIOUS
      <3> HIDE DEF Plain
      <3> QED
        BY <1>2, <2>1, <3>1
    <2>3. run(k + 1) = 0
      <3> HIDE DEF Plain
      <3> QED
        BY <2>2
    <2> HIDE DEF run
    <2> QED
      BY <1>5, <2>3
  <1>8. ASSUME NEW k \in i + 1 .. Len(text), text[k] = "\\"
        PROVE  Escaped(i, k + 1) <=> ~Escaped(i, k)
    <2>1. Plain(k + 1) = Plain(k)
      BY <1>1, <1>8
    <2>2. run(k + 1) = run(k) + 1 /\ run(k) \in Nat
      <3>1. Max(Plain(k)) \in i .. k - 1
        BY <1>1, <1>4
      <3> HIDE DEF Plain
      <3> QED
        BY <2>1, <3>1
    <2> HIDE DEF run
    <2>3. \A r \in Nat : (r + 1) % 2 = 1 <=> ~(r % 2 = 1)
      OBVIOUS
    <2> QED
      BY <1>5, <2>2, <2>3
  <1> QED
    BY <1>6, <1>7, <1>8

\* readString() stands at k: no character before k ends the string, and k is not escaped.
Reading(i, k) ==
  /\ k <= Len(text) => ~Escaped(i, k)
  /\ \A m \in i + 1 .. k - 1 : m <= Len(text) => ~IsEnd(i, m)

StringNext(i, k) == IF Ch(text, k) = "\\" THEN Clamp(text, k + 2) ELSE Clamp(text, k + 1)

LEMMA ReadingSteps ==
  ASSUME text \in Seq(STRING), NEW i \in 1 .. Len(text), text[i] \in Quotes,
         NEW k \in i + 1 .. Len(text) + 1, Reading(i, k), Ch(text, k) \notin {text[i], "NUL"}
  PROVE  StringNext(i, k) \in k + 1 .. Len(text) + 1 /\ Reading(i, StringNext(i, k))
  <1> DEFINE n == Len(text)
  <1>1. n \in Nat /\ k \in i + 1 .. n /\ Ch(text, k) = text[k] /\ text[i] # "\\"
    <2>1. n \in Nat /\ k # n + 1
      BY TextFacts
    <2>2. k \in 1 .. n
      BY <2>1
    <2> QED
      BY <2>1, <2>2, TextFacts, Kinds
  <1>2. ~IsEnd(i, k) /\ ~Escaped(i, k)
    BY <1>1 DEF IsEnd, Reading
  <1>3. \A m \in i + 1 .. k : ~IsEnd(i, m)
    BY <1>1, <1>2 DEF Reading
  <1>4. CASE text[k] = "\\"
    <2> DEFINE s == StringNext(i, k)
    <2>1. s = Clamp(text, k + 2)
      BY <1>1, <1>4 DEF StringNext
    <2>2. s = (IF k + 2 <= n THEN k + 2 ELSE n + 1) /\ s \in k + 1 .. n + 1
      BY <1>1, <2>1 DEF Clamp
    <2> HIDE DEF s
    <2>3. Escaped(i, k + 1)
      BY <1>1, <1>2, <1>4, EscapedSteps
    <2>4. ~IsEnd(i, k + 1)
      BY <2>3 DEF IsEnd
    <2>5. k + 2 <= n => ~Escaped(i, k + 2)
      <3>1. k + 2 <= n => k + 1 \in i + 1 .. n /\ (k + 1) + 1 = k + 2
        BY <1>1
      <3>2. k + 1 \in i + 1 .. n => ~Escaped(i, (k + 1) + 1)
        BY <2>3, EscapedSteps
      <3> QED
        BY <3>1, <3>2
    <2>6. ASSUME NEW m \in i + 1 .. s - 1, m <= n  PROVE ~IsEnd(i, m)
      <3>1. m \in i + 1 .. k \/ m = k + 1
        BY <1>1, <2>2, <2>6
      <3> QED
        BY <1>3, <2>4, <3>1
    <2>7. s <= n => ~Escaped(i, s)
      <3>1. s <= n => s = k + 2 /\ k + 2 <= n
        BY <1>1, <2>2
      <3> QED
        BY <2>5, <3>1
    <2> QED
      BY <2>2, <2>6, <2>7 DEF Reading, s
  <1>5. CASE text[k] # "\\"
    <2> DEFINE s == StringNext(i, k)
    <2>1. s = Clamp(text, k + 1)
      BY <1>1, <1>5 DEF StringNext
    <2>2. s = k + 1 /\ s \in k + 1 .. n + 1
      BY <1>1, <2>1 DEF Clamp
    <2> HIDE DEF s
    <2>3. ~Escaped(i, s)
      BY <1>1, <1>5, <2>2, EscapedSteps
    <2>4. \A m \in i + 1 .. s - 1 : ~IsEnd(i, m)
      BY <1>1, <1>3, <2>2
    <2> QED
      BY <2>2, <2>3, <2>4 DEF Reading, s
  <1> QED
    BY <1>4, <1>5

LEMMA ReadStringIs ==
  ASSUME text \in Seq(STRING), NEW i \in 1 .. Len(text), text[i] \in Quotes
  PROVE  \E k \in i + 1 .. Len(text) + 1 :
           /\ ReadString(text, i) = Clamp(text, k + 1)
           /\ Reading(i, k) /\ Ch(text, k) \in {text[i], "NUL"}
  <1> DEFINE N == Len(text) + 1
             Stop == {k \in 1 .. N : Ch(text, k) \in {text[i], "NUL"}}
             val == [k \in 1 .. N |-> k]
             next == [k \in 1 .. N |-> StringNext(i, k)]
             Is(f) == f = [k \in Positions(text) |->
                             IF Ch(text, k) \in {text[i], "NUL"} THEN k
                             ELSE IF Ch(text, k) = "\\" THEN f[Clamp(text, k + 2)]
                             ELSE f[Clamp(text, k + 1)]]
  <1>1. N \in Nat /\ Positions(text) = 1 .. N /\ Ch(text, N) = "NUL"
    BY TextFacts
  <1>2. PICK f : Jumps(f, N, Stop, val, next)
    <2>1. ASSUME NEW k \in (1 .. N) \ Stop  PROVE next[k] \in k + 1 .. N
      <3>1. k # N /\ k \in 1 .. N
        BY <1>1
      <3> QED
        BY <1>1, <3>1 DEF StringNext, Clamp
    <2> HIDE DEF Stop, val, next, N
    <2> QED
      BY <1>1, <2>1, JumpExists
  <1>3. \E g : Is(g)
    <2>1. \A k \in 1 .. N : f[k] = IF Ch(text, k) \in {text[i], "NUL"} THEN k
                                   ELSE f[StringNext(i, k)]
      BY <1>2 DEF Jumps
    <2>2. f = [k \in 1 .. N |-> f[k]]
      BY <1>2 DEF Jumps
    <2>3. Is(f)
      BY <1>1, <2>1, <2>2 DEF StringNext
    <2> QED
      BY <2>3
  <1> DEFINE end == CHOOSE g : Is(g)
  <1>4. Is(end)
    <2> HIDE DEF Is
    <2> QED
      BY <1>3
  <1>5. ReadString(text, i) = Clamp(text, end[Clamp(text, i + 1)] + 1)
    BY DEF ReadString
  <1> HIDE DEF end
  <1>6. \A k \in 1 .. N : end[k] = IF Ch(text, k) \in {text[i], "NUL"} THEN k
                                   ELSE end[StringNext(i, k)]
    BY <1>1, <1>4 DEF StringNext
  <1> DEFINE Ends(k) == /\ end[k] \in i + 1 .. N /\ Reading(i, end[k])
                        /\ Ch(text, end[k]) \in {text[i], "NUL"}
             bad == {k \in i + 1 .. N : Reading(i, k) /\ ~Ends(k)}
  <1>7. ASSUME bad # {}  PROVE FALSE
    <2>1. PICK k \in bad : \A m \in bad : m <= k
      <3>1. bad \in SUBSET (1 .. N)
        BY <1>1
      <3> HIDE DEF bad
      <3> QED
        BY <1>1, <1>7, <3>1, LastExists
    <2>2. k \in i + 1 .. N /\ k \in 1 .. N /\ Reading(i, k) /\ ~Ends(k)
      <3> HIDE DEF Ends
      <3> QED
        BY <1>1, <2>1
    <2>3. Ch(text, k) \notin {text[i], "NUL"}
      BY <1>6, <2>2
    <2> DEFINE m == StringNext(i, k)
    <2>4. m \in k + 1 .. N /\ Reading(i, m) /\ end[k] = end[m]
      BY <1>6, <2>2, <2>3, ReadingSteps
    <2> HIDE DEF m
    <2>5. m \in i + 1 .. N /\ m > k
      BY <1>1, <2>2, <2>4
    <2>6. Ends(m)
      <3> HIDE DEF Ends
      <3> QED
        BY <2>1, <2>2, <2>4, <2>5
    <2> QED
      BY <2>2, <2>4, <2>6
  <1>8. Clamp(text, i + 1) = i + 1 /\ i + 1 \in i + 1 .. N
    BY <1>1 DEF Clamp
  <1>9. Reading(i, i + 1)
    BY <1>1, EscapedSteps DEF Reading
  <1>10. Ends(i + 1)
    <2> HIDE DEF Ends
    <2> QED
      BY <1>7, <1>8, <1>9
  <1> QED
    BY <1>5, <1>8, <1>10

LEMMA StringMunches ==
  ASSUME text \in Seq(STRING), NEW i \in 1 .. Len(text), text[i] \in Quotes
  PROVE  LET stop == ReadString(text, i)
         IN  /\ stop \in i + 1 .. Len(text) + 1 /\ IsToken(i, stop)
             /\ \A j \in stop + 1 .. Len(text) + 1 : ~IsToken(i, j)
  <1> DEFINE n == Len(text)
             stop == ReadString(text, i)
  <1>1. n \in Nat /\ i \in 1 .. n
    BY TextFacts
  <1>2. PICK k \in i + 1 .. n + 1 :
          stop = Clamp(text, k + 1) /\ Reading(i, k) /\ Ch(text, k) \in {text[i], "NUL"}
    BY ReadStringIs
  <1> HIDE DEF stop
  <1>3. \A j : IsString(i, j) <=>
          /\ \A m \in i + 1 .. j - 2 : ~IsEnd(i, m)
          /\ \/ j >= i + 2 /\ IsEnd(i, j - 1)
             \/ j = n + 1 /\ \A m \in i + 1 .. j - 1 : ~IsEnd(i, m)
    BY DEF IsString, IsEnd
  <1>4. CASE k <= n
    <2>1. stop = k + 1 /\ stop \in i + 1 .. n + 1
      BY <1>1, <1>2, <1>4 DEF Clamp
    <2>2. IsEnd(i, k)
      <3>1. Ch(text, k) = text[k]
        BY <1>1, <1>4, TextFacts
      <3> QED
        BY <1>2, <1>4, <3>1 DEF Reading, IsEnd
    <2>3. \A m \in i + 1 .. k - 1 : ~IsEnd(i, m)
      BY <1>1, <1>2, <1>4 DEF Reading
    <2>4. IsString(i, stop)
      <3>1. stop - 2 = k - 1 /\ stop - 1 = k /\ stop >= i + 2
        BY <1>1, <2>1
      <3> QED
        BY <1>3, <2>2, <2>3, <3>1
    <2>5. ASSUME NEW j \in stop + 1 .. n + 1  PROVE ~IsToken(i, j)
      <3>1. k \in i + 1 .. j - 2 /\ j \in i + 1 .. n + 1
        BY <1>1, <2>1
      <3>2. ~IsString(i, j)
        BY <1>3, <2>2, <3>1
      <3>3. SubSeq(text, i, j - 1) \notin Operators
        BY <3>1, OperatorIs, Kinds DEF IsPair, Singles
      <3> QED
        BY <3>2, <3>3, Kinds DEF IsToken, IsWord, IsNumber
    <2> QED
      BY <2>1, <2>4, <2>5 DEF IsToken, stop
  <1>5. CASE k > n
    <2>1. k = n + 1 /\ stop = n + 1
      BY <1>1, <1>2, <1>5 DEF Clamp
    <2>2. \A m \in i + 1 .. n : ~IsEnd(i, m)
      BY <1>1, <1>2, <2>1 DEF Reading
    <2>3. IsString(i, stop)
      <3>1. \A m \in i + 1 .. stop - 1 : ~IsEnd(i, m)
        BY <1>1, <2>1, <2>2
      <3>2. \A m \in i + 1 .. stop - 2 : ~IsEnd(i, m)
        BY <1>1, <2>1, <2>2
      <3> QED
        BY <1>3, <2>1, <3>1, <3>2
    <2>4. \A j \in stop + 1 .. n + 1 : FALSE
      BY <1>1, <2>1
    <2> QED
      BY <1>1, <2>1, <2>3, <2>4 DEF IsToken, stop
  <1> QED
    BY <1>4, <1>5

-----------------------------------------------------------------------------
(* The queries *)

LEMMA NoPair ==
  ASSUME NEW i, Ch(text, i) \in Quotes \cup {"NUL"} \/ IsLetter(Ch(text, i)) \/ IsDigit(Ch(text, i))
  PROVE  PairAt(text, i) = ""
  <1>1. Ch(text, i) \notin {"!", "<", ">"}
    BY Kinds DEF Quotes, Singles
  <1> QED
    BY <1>1 DEF PairAt, Opens

LEMMA TokenMunches ==
  ASSUME text \in Seq(STRING), NEW i \in 1 .. Len(text) + 1
  PROVE  Munches(i)
  <1> DEFINE n == Len(text)
             c == Ch(text, i)
             t == TokenAt(text, i)
  <1>1. n \in Nat
    BY TextFacts
  <1>2. CASE c = "NUL"
    <2>1. t = [type |-> "EOF", start |-> i, stop |-> i]
      BY <1>2, Kinds, NoPair DEF TokenAt
    <2>2. t.type = "EOF" /\ t.start = i /\ t.stop = i
      BY <2>1
    <2> HIDE DEF t
    <2> QED
      BY <1>1, <1>2, <2>2 DEF Munches, MunchAt, t
  <1>3. CASE c # "NUL"
    <2>1. i \in 1 .. n /\ c = text[i]
      <3>1. i # n + 1
        BY <1>3, TextFacts
      <3>2. i \in 1 .. n
        BY <1>1, <3>1
      <3> QED
        BY <3>2, TextFacts
    <2>2. ASSUME NEW stop, t.start = i, t.stop = stop, t.type \notin {"EOF", "ILLEGAL"},
                 stop \in i + 1 .. n + 1, IsToken(i, stop),
                 \A j \in stop + 1 .. n + 1 : ~IsToken(i, j)
          PROVE  Munches(i)
      <3> HIDE DEF t
      <3> QED
        BY <1>1, <2>1, <2>2 DEF Munches, MunchAt, t
    <2>3. CASE text[i] \in Quotes
      <3>1. t = [type |-> "STRING", start |-> i, stop |-> ReadString(text, i)]
        BY <1>3, <2>1, <2>3, Kinds, NoPair DEF TokenAt
      <3>2. t.type = "STRING" /\ t.start = i /\ t.stop = ReadString(text, i)
        BY <3>1
      <3> HIDE DEF t
      <3> QED
        BY <2>1, <2>2, <2>3, <3>2, StringMunches
    <2>4. CASE IsLetter(text[i])
      <3> DEFINE stop == ReadIdentifier(text, i)
                 type == LookupKeyword(text, i, stop)
      <3>1. text[i] \notin Quotes /\ ~IsDigit(text[i])
        BY <2>4, Kinds
      <3>2. type \notin {"EOF", "ILLEGAL"}
        BY DEF LookupKeyword, Keywords
      <3> HIDE DEF stop, type
      <3>3. t = [type |-> type, start |-> i, stop |-> stop]
        BY <1>3, <2>1, <2>4, <3>1, NoPair DEF TokenAt, stop, type
      <3>4. t.type = type /\ t.start = i /\ t.stop = stop
        BY <3>3
      <3> HIDE DEF t
      <3> QED
        BY <2>1, <2>2, <2>4, <3>2, <3>4, WordMunches DEF stop
    <2>5. CASE IsDigit(text[i])
      <3> DEFINE stop == ReadNumber(text, i)
                 type == NumberType(text, i, stop)
      <3>1. text[i] \notin Quotes /\ ~IsLetter(text[i])
        BY <2>5, Kinds
      <3>2. type \notin {"EOF", "ILLEGAL"}
        BY DEF NumberType
      <3> HIDE DEF stop, type
      <3>3. t = [type |-> type, start |-> i, stop |-> stop]
        BY <1>3, <2>1, <2>5, <3>1, NoPair DEF TokenAt, stop, type
      <3>4. t.type = type /\ t.start = i /\ t.stop = stop
        BY <3>3
      <3> HIDE DEF t
      <3> QED
        BY <2>1, <2>2, <2>5, <3>2, <3>4, NumberMunches DEF stop
    <2>6. CASE text[i] \notin Quotes /\ ~IsLetter(text[i]) /\ ~IsDigit(text[i])
      BY <1>3, <2>1, <2>6, OperatorMunches
    <2> QED
      BY <2>3, <2>4, <2>5, <2>6
  <1> QED
    BY <1>2, <1>3

\* The current token is what nextToken() finds from some place of the text on.
TokenInv ==
  text \in Texts /\ \E from \in 1 .. Len(text) + 1 : token = Read(from)

LEMMA ReadIs ==
  ASSUME text \in Seq(STRING), NEW from \in 1 .. Len(text) + 1
  PROVE  LET s == TokenStart(text, from)
             t == TokenAt(text, s)
         IN  /\ s \in from .. Len(text) + 1
             /\ Read(from) = [type |-> t.type, from |-> from, start |-> t.start, stop |-> t.stop]
             /\ t.start = s /\ t.stop \in s .. Len(text) + 1 /\ MunchAt(t.type, s, t.stop)
  <1> DEFINE s == TokenStart(text, from)
  <1>1. Len(text) \in Nat /\ Positions(text) = 1 .. Len(text) + 1
    BY TextFacts
  <1>2. s \in from .. Len(text) + 1
    BY <1>1, StartForward, BehindIs
  <1>3. s \in 1 .. Len(text) + 1
    BY <1>1, <1>2
  <1>4. NextTokenAt(text, from) = TokenAt(text, s)
    BY <1>1, <1>3 DEF NextTokenAt
  <1> HIDE DEF s
  <1>5. Munches(s)
    BY <1>3, TokenMunches
  <1> QED
    BY <1>2, <1>4, <1>5 DEF s, Read, Munches

LEMMA TextIsSeq == TokenInv => text \in Seq(STRING)
  BY QueryAssumption DEF TokenInv

LEMMA QueryInvariant == QuerySpec => []TokenInv
  <1>1. QueryInit => TokenInv
    <2> SUFFICES ASSUME QueryInit  PROVE TokenInv
      OBVIOUS
    <2>1. text \in Texts /\ token = Read(1)
      BY DEF QueryInit
    <2>2. 1 \in 1 .. Len(text) + 1
      BY <2>1, QueryAssumption, TextFacts
    <2> QED
      BY <2>1, <2>2 DEF TokenInv
  <1>2. TokenInv /\ [QueryNext]_queryVars => TokenInv'
    <2> SUFFICES ASSUME TokenInv, [QueryNext]_queryVars  PROVE TokenInv'
      OBVIOUS
    <2>1. text' = text /\ (token' = token \/ token' = Read(token.stop))
      BY DEF QueryNext, queryVars
    <2>2. PICK from \in 1 .. Len(text) + 1 : token = Read(from)
      BY DEF TokenInv
    <2>3. text \in Seq(STRING) /\ Len(text) \in Nat
      BY TextIsSeq, TextFacts
    <2> DEFINE s == TokenStart(text, from)
               t == TokenAt(text, s)
    <2>4. /\ s \in from .. Len(text) + 1 /\ t.stop \in s .. Len(text) + 1
          /\ Read(from) = [type |-> t.type, from |-> from, start |-> t.start, stop |-> t.stop]
      BY <2>3, ReadIs
    <2> HIDE DEF s, t
    <2>5. token.stop \in 1 .. Len(text) + 1
      <3>1. token.stop = t.stop
        BY <2>2, <2>4
      <3> QED
        BY <2>3, <2>4, <3>1
    <2>6. PICK again \in 1 .. Len(text) + 1 : token' = Read(again)
      BY <2>1, <2>2, <2>5
    <2>7. again \in 1 .. Len(text') + 1 /\ token' = Read(again)'
      BY <2>1, <2>6 DEF Read
    <2> QED
      BY <2>1, <2>7 DEF TokenInv
  <1> QED
    BY <1>1, <1>2, PTL DEF QuerySpec

\* A query takes the steps of the parser.
LEMMA QueryIsParsed == QuerySpec => Spec
  <1>1. QueryInit => Init
    BY DEF QueryInit
  <1>2. [QueryNext]_queryVars => [Next]_vars
    BY DEF QueryNext, queryVars
  <1> QED
    BY <1>1, <1>2, PTL DEF QuerySpec, Spec

(* Lexer::nextToken() finds tokens of the lexical grammar, and the longest that begin     *)
(* where they do, in every text and wherever the parser is in it.                         *)
THEOREM TokensAreLongest == QuerySpec => []MaximalMunch
  <1>1. TokenInv => MaximalMunch
    <2> SUFFICES ASSUME TokenInv  PROVE MaximalMunch
      OBVIOUS
    <2>1. text \in Seq(STRING)
      BY TextIsSeq
    <2>2. PICK from \in 1 .. Len(text) + 1 : token = Read(from)
      BY DEF TokenInv
    <2> DEFINE s == TokenStart(text, from)
               t == TokenAt(text, s)
    <2>3. /\ Read(from) = [type |-> t.type, from |-> from, start |-> t.start, stop |-> t.stop]
          /\ t.start = s /\ MunchAt(t.type, s, t.stop)
      BY <2>1, ReadIs
    <2> HIDE DEF s, t
    <2>4. token.type = t.type /\ token.start = s /\ token.stop = t.stop
      BY <2>2, <2>3
    <2>5. MunchAt(token.type, token.start, token.stop)
      BY <2>3, <2>4
    <2> QED
      BY <2>5 DEF MunchAt, MaximalMunch
  <1> QED
    BY <1>1, QueryInvariant, PTL

(* Between two tokens skipWhitespace() and skipComment() skip white space and whole       *)
(* comments, and nothing else, in every text.                                             *)
THEOREM GapsAreBlank == QuerySpec => []OnlyBlanksSkipped
  <1>1. TokenInv => OnlyBlanksSkipped
    <2> SUFFICES ASSUME TokenInv  PROVE OnlyBlanksSkipped
      OBVIOUS
    <2>1. text \in Seq(STRING)
      BY TextIsSeq
    <2>2. PICK from \in 1 .. Len(text) + 1 : token = Read(from)
      BY DEF TokenInv
    <2> DEFINE s == TokenStart(text, from)
               t == TokenAt(text, s)
    <2>3. /\ Read(from) = [type |-> t.type, from |-> from, start |-> t.start, stop |-> t.stop]
          /\ t.start = s
      BY <2>1, ReadIs
    <2>4. IsBlank(from, s)
      BY <2>1, BlanksBefore
    <2> HIDE DEF s, t
    <2>5. token.from = from /\ token.start = s
      BY <2>2, <2>3
    <2> QED
      BY <2>4, <2>5 DEF OnlyBlanksSkipped
  <1> QED
    BY <1>1, QueryInvariant, PTL

\* The first comment behind a token, of whatever kind, is skipped: one is read as tokens
\* only where something else than white space lies between it and the token before, and
\* that is another comment (GapsAreBlank).
OnlySpacesBefore == \A i \in token.from .. token.start - 1 : IsWhitespace(text[i])

THEOREM FirstCommentIsSkipped == QuerySpec => [](OnlySpacesBefore => CommentsSkipped)
  <1>1. TokenInv => (OnlySpacesBefore => CommentsSkipped)
    <2> SUFFICES ASSUME TokenInv, OnlySpacesBefore  PROVE CommentsSkipped
      OBVIOUS
    <2>1. text \in Seq(STRING)
      BY TextIsSeq
    <2>2. PICK from \in 1 .. Len(text) + 1 : token = Read(from)
      BY DEF TokenInv
    <2> DEFINE s == TokenStart(text, from)
               t == TokenAt(text, s)
    <2>3. /\ Read(from) = [type |-> t.type, from |-> from, start |-> t.start, stop |-> t.stop]
          /\ t.start = s
      BY <2>1, ReadIs
    <2>4. (\A i \in from .. s - 1 : IsWhitespace(text[i])) => ~LineOpens(s) /\ ~BlockOpens(s)
      BY <2>1, FirstCommentSkipped
    <2> HIDE DEF s, t
    <2>5. token.from = from /\ token.start = s
      BY <2>2, <2>3
    <2>6. \A j : IsComment(s, j) => LineOpens(s) \/ BlockOpens(s)
      BY DEF IsComment, LineOpens, BlockOpens
    <2> QED
      BY <2>4, <2>5, <2>6 DEF CommentsSkipped, OnlySpacesBefore
  <1> QED
    BY <1>1, QueryInvariant, PTL

=============================================================================
