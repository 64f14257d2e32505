------------------------------ MODULE ReplyProofs ------------------------------
(***************************************************************************)
(* What a client reads from the bytes of a reply, and the lengths declared.*)
(***************************************************************************)
EXTENDS StatementReply, StorageProofs, SequenceTheorems

-----------------------------------------------------------------------------
(* Numbers from 0 to n, and functions defined from the left *)

LEMMA Induct ==
  ASSUME NEW n \in Nat, NEW S \in SUBSET (0 .. n), 0 \in S,
         \A k \in 1 .. n : k - 1 \in S => k \in S
  PROVE  \A k \in 0 .. n : k \in S
  <1> DEFINE bad == {k \in 1 .. n : k \notin S}
  <1> SUFFICES ASSUME bad # {}  PROVE FALSE
    OBVIOUS
  <1>1. bad \in SUBSET (1 .. n)
    OBVIOUS
  <1> DEFINE m == Min(bad)
  <1>2. m \in bad /\ \A j \in bad : m <= j
    <2> HIDE DEF bad
    <2> QED
      BY <1>1, FirstExists
  <1> HIDE DEF m
  <1>3. m \in 1 .. n /\ m \notin S /\ m - 1 \notin bad
    BY <1>2
  <1> QED
    BY <1>3

\* A function whose value at k is made from that at k - 1.
Steps(f, n, base, step) == f[0] = base /\ \A k \in 1 .. n : f[k] = step[<<k, f[k - 1]>>]

LEMMA StepsExist ==
  ASSUME NEW n \in Nat, NEW T, NEW base \in T, NEW step,
         \A k \in 1 .. n, x \in T : step[<<k, x>>] \in T
  PROVE  \E f \in [0 .. n -> T] : Steps(f, n, base, step)
  <1> DEFINE Upto(f, m) == f \in [0 .. m -> T] /\ Steps(f, m, base, step)
             S == {m \in 0 .. n : \E f : Upto(f, m)}
  <1>1. 0 \in S
    <2>1. Upto([k \in 0 .. 0 |-> base], 0)
      BY DEF Steps
    <2> HIDE DEF Upto
    <2> QED
      BY <2>1
  <1>2. ASSUME NEW m \in 1 .. n, m - 1 \in S  PROVE m \in S
    <2>1. PICK f : Upto(f, m - 1)
      BY <1>2
    <2> DEFINE g == [k \in 0 .. m |-> IF k = m THEN step[<<m, f[m - 1]>>] ELSE f[k]]
    <2>2. \A k \in 0 .. m - 1 : g[k] = f[k]
      OBVIOUS
    <2>3. g[m] = step[<<m, g[m - 1]>>] /\ g[m] \in T
      <3>1. m - 1 \in 0 .. m - 1 /\ f[m - 1] \in T /\ g[m] = step[<<m, f[m - 1]>>]
        BY <2>1
      <3> HIDE DEF g
      <3> QED
        BY <2>2, <3>1
    <2>4. g \in [0 .. m -> T]
      BY <2>1, <2>3
    <2>5. \A k \in 1 .. m : g[k] = step[<<k, g[k - 1]>>]
      <3> HIDE DEF g
      <3> TAKE k \in 1 .. m
      <3>1. CASE k = m
        BY <2>3, <3>1
      <3>2. CASE k # m
        <4>1. k \in 0 .. m - 1 /\ k - 1 \in 0 .. m - 1 /\ k \in 1 .. m - 1
          BY <3>2
        <4> QED
          BY <2>1, <2>2, <4>1 DEF Steps
      <3> QED
        BY <3>1, <3>2
    <2>6. g[0] = base
      BY <2>1, <2>2 DEF Steps
    <2>7. Upto(g, m)
      BY <2>4, <2>5, <2>6 DEF Steps
    <2> HIDE DEF Upto
    <2> QED
      BY <2>7
  <1>3. n \in S
    <2> HIDE DEF S
    <2>1. S \in SUBSET (0 .. n)
      BY DEF S
    <2> QED
      BY <1>1, <1>2, <2>1, Induct
  <1> QED
    BY <1>3

\* Such a function has its values in a set that the steps do not leave.
LEMMA StepsStay ==
  ASSUME NEW n \in Nat, NEW T, NEW f, f[0] \in T,
         \A k \in 1 .. n : f[k - 1] \in T => f[k] \in T
  PROVE  \A k \in 0 .. n : f[k] \in T
  <1> DEFINE S == {k \in 0 .. n : f[k] \in T}
  <1>1. S \in SUBSET (0 .. n) /\ 0 \in S /\ \A k \in 1 .. n : k - 1 \in S => k \in S
    OBVIOUS
  <1>2. \A k \in 0 .. n : k \in S
    <2> HIDE DEF S
    <2> QED
      BY <1>1, Induct
  <1> QED
    BY <1>2

-----------------------------------------------------------------------------
(* Sums *)

SumsOf(f, ns) == f = [k \in 0 .. Len(ns) |-> IF k = 0 THEN 0 ELSE f[k - 1] + ns[k]]

LEMMA SumsAre ==
  ASSUME NEW ns \in Seq(Nat)
  PROVE  /\ Sums(ns) \in [0 .. Len(ns) -> Nat]
         /\ Sums(ns)[0] = 0
         /\ \A k \in 1 .. Len(ns) : Sums(ns)[k] = Sums(ns)[k - 1] + ns[k]
  <1> DEFINE n == Len(ns)
             step == [p \in (1 .. n) \X Nat |-> p[2] + ns[p[1]]]
  <1>1. n \in Nat /\ \A k \in 1 .. n : ns[k] \in Nat
    OBVIOUS
  <1>2. ASSUME NEW k \in 1 .. n, NEW x \in Nat
        PROVE  step[<<k, x>>] = x + ns[k] /\ step[<<k, x>>] \in Nat
    <2>1. <<k, x>> \in (1 .. n) \X Nat
      OBVIOUS
    <2> QED
      BY <1>1, <2>1
  <1>3. PICK f \in [0 .. n -> Nat] : Steps(f, n, 0, step)
    <2> HIDE DEF step, n
    <2> QED
      BY <1>1, <1>2, StepsExist
  <1>4. SumsOf(f, ns)
    <2> HIDE DEF step
    <2>1. ASSUME NEW k \in 0 .. n  PROVE f[k] = IF k = 0 THEN 0 ELSE f[k - 1] + ns[k]
      <3>1. CASE k = 0
        BY <1>3, <3>1 DEF Steps
      <3>2. CASE k # 0
        <4>1. k \in 1 .. n /\ k - 1 \in 0 .. n
          BY <1>1, <3>2
        <4>2. f[k - 1] \in Nat /\ f[k] = step[<<k, f[k - 1]>>]
          BY <1>3, <4>1 DEF Steps
        <4> QED
          BY <1>2, <3>2, <4>1, <4>2
      <3> QED
        BY <3>1, <3>2
    <2> QED
      BY <2>1 DEF SumsOf
  <1>5. SumsOf(Sums(ns), ns)
    <2>1. \E g : SumsOf(g, ns)
      BY <1>4
    <2> QED
      BY <2>1 DEF Sums, SumsOf
  <1> DEFINE g == Sums(ns)
  <1> HIDE DEF g
  <1>6. g = [k \in 0 .. n |-> IF k = 0 THEN 0 ELSE g[k - 1] + ns[k]]
    BY <1>5 DEF SumsOf, g
  <1>7. g[0] = 0 /\ \A k \in 1 .. n : g[k] = g[k - 1] + ns[k]
    BY <1>1, <1>6
  <1>8. \A k \in 0 .. n : g[k] \in Nat
    <2>1. g[0] \in Nat /\ \A k \in 1 .. n : g[k - 1] \in Nat => g[k] \in Nat
      BY <1>1, <1>7, SMTT(40)
    <2> QED
      BY <1>1, <2>1, StepsStay
  <1> QED
    BY <1>6, <1>7, <1>8 DEF g

LEMMA TotalConcat ==
  ASSUME NEW s \in Seq(Nat), NEW t \in Seq(Nat)
  PROVE  Total(s \o t) = Total(s) + Total(t)
  <1> DEFINE c == s \o t
             f == Sums(s)
             g == Sums(t)
             h == Sums(c)
             S == {k \in 0 .. Len(s) : h[k] = f[k]}
             U == {k \in 0 .. Len(t) : h[Len(s) + k] = f[Len(s)] + g[k]}
  <1>1. /\ c \in Seq(Nat) /\ Len(c) = Len(s) + Len(t) /\ Len(s) \in Nat /\ Len(t) \in Nat
        /\ \A k \in 1 .. Len(s) : c[k] = s[k]
        /\ \A k \in 1 .. Len(t) : c[Len(s) + k] = t[k]
    OBVIOUS
  <1> HIDE DEF c
  <1>2. /\ f \in [0 .. Len(s) -> Nat] /\ f[0] = 0
        /\ \A k \in 1 .. Len(s) : f[k] = f[k - 1] + s[k]
    BY SumsAre
  <1>3. /\ g \in [0 .. Len(t) -> Nat] /\ g[0] = 0
        /\ \A k \in 1 .. Len(t) : g[k] = g[k - 1] + t[k]
    BY SumsAre
  <1>4. /\ h \in [0 .. Len(c) -> Nat] /\ h[0] = 0
        /\ \A k \in 1 .. Len(c) : h[k] = h[k - 1] + c[k]
    BY <1>1, SumsAre
  <1> HIDE DEF f, g, h
  <1>5. \A k \in 0 .. Len(s) : k \in S
    <2>1. 0 \in S
      BY <1>1, <1>2, <1>4
    <2>2. ASSUME NEW k \in 1 .. Len(s), k - 1 \in S  PROVE k \in S
      BY <1>1, <1>2, <1>4, <2>2
    <2>3. S \in SUBSET (0 .. Len(s))
      OBVIOUS
    <2> HIDE DEF S
    <2> QED
      BY <1>1, <2>1, <2>2, <2>3, Induct
  <1>6. \A k \in 0 .. Len(t) : k \in U
    <2>1. 0 \in U
      <3>0. Len(s) \in 0 .. Len(s)
        BY <1>1
      <3>1. f[Len(s)] \in Nat
        BY <1>2, <3>0
      <3>2. h[Len(s)] = f[Len(s)]
        BY <1>5, <3>0
      <3>3. h[Len(s) + 0] = f[Len(s)] + g[0] /\ 0 \in 0 .. Len(t)
        BY <1>1, <1>3, <3>0, <3>1, <3>2
      <3> QED
        BY <3>3
    <2>2. ASSUME NEW k \in 1 .. Len(t), k - 1 \in U  PROVE k \in U
      <3>1. h[Len(s) + (k - 1)] = f[Len(s)] + g[k - 1]
        BY <2>2
      <3>2. Len(s) + k \in 1 .. Len(c) /\ (Len(s) + k) - 1 = Len(s) + (k - 1)
        BY <1>1
      <3>3. h[Len(s) + k] = h[Len(s) + (k - 1)] + c[Len(s) + k]
        BY <1>4, <3>2
      <3>4. c[Len(s) + k] = t[k] /\ g[k] = g[k - 1] + t[k]
        BY <1>1, <1>3
      <3>5. f[Len(s)] \in Nat /\ g[k - 1] \in Nat /\ t[k] \in Nat
        <4>1. Len(s) \in 0 .. Len(s)
          BY <1>1
        <4>2. k - 1 \in 0 .. Len(t)
          BY <1>1
        <4>3. f[Len(s)] \in Nat
          BY <1>2, <4>1
        <4>4. g[k - 1] \in Nat
          BY <1>3, <4>2
        <4> QED
          BY <4>3, <4>4
      <3> QED
        BY <3>1, <3>3, <3>4, <3>5
    <2>3. U \in SUBSET (0 .. Len(t))
      OBVIOUS
    <2> HIDE DEF U
    <2> QED
      BY <1>1, <2>1, <2>2, <2>3, Induct
  <1>7. h[Len(c)] = f[Len(s)] + g[Len(t)]
    BY <1>1, <1>6
  <1> QED
    BY <1>7 DEF Total, c, f, g, h

LEMMA TotalOfOne ==
  ASSUME NEW n \in Nat  PROVE Total(<<n>>) = n
  <1>1. <<n>> \in Seq(Nat) /\ Len(<<n>>) = 1 /\ <<n>>[1] = n
    OBVIOUS
  <1> DEFINE s == <<n>>
  <1> HIDE DEF s
  <1>2. Sums(s)[0] = 0 /\ Sums(s)[1] = Sums(s)[0] + n
    <2>1. s \in Seq(Nat) /\ Len(s) = 1 /\ s[1] = n
      BY <1>1 DEF s
    <2>2. \A k \in 1 .. Len(s) : Sums(s)[k] = Sums(s)[k - 1] + s[k]
      BY <2>1, SumsAre
    <2> QED
      BY <2>1, <2>2, SumsAre
  <1> QED
    BY <1>1, <1>2 DEF Total, s

LEMMA TotalType == ASSUME NEW s \in Seq(Nat)  PROVE Total(s) \in Nat
  BY SumsAre DEF Total

LEMMA TotalOfNone == Total(<<>>) = 0
  <1>1. <<>> \in Seq(Nat) /\ Len(<<>>) = 0
    OBVIOUS
  <1> QED
    BY <1>1, SumsAre DEF Total

-----------------------------------------------------------------------------
(* Sizes *)

\* What streams are made of.
Pieces == [id : Nat, len : Nat \ {0}]

LEMMA LensAre ==
  ASSUME NEW s \in Seq(Pieces)
  PROVE  /\ Lens(s) \in Seq(Nat) /\ Len(Lens(s)) = Len(s)
         /\ \A k \in 1 .. Len(s) : Lens(s)[k] = s[k].len
  <1>0. Len(s) \in Nat /\ \A k \in 1 .. Len(s) : s[k] \in Pieces
    OBVIOUS
  <1>1. Len(s) \in Nat /\ \A k \in 1 .. Len(s) : s[k].len \in Nat
    BY <1>0 DEF Pieces
  <1>2. Lens(s) = [k \in 1 .. Len(s) |-> s[k].len]
    BY DEF Lens
  <1>3. Lens(s) \in [1 .. Len(s) -> Nat]
    BY <1>1, <1>2
  <1> QED
    BY <1>1, <1>2, <1>3, IsASeq

LEMMA SizeType == ASSUME NEW s \in Seq(Pieces)  PROVE Size(s) \in Nat
  BY LensAre, TotalType DEF Size

LEMMA SizeConcat ==
  ASSUME NEW s \in Seq(Pieces), NEW t \in Seq(Pieces)
  PROVE  s \o t \in Seq(Pieces) /\ Size(s \o t) = Size(s) + Size(t)
  <1>1. /\ s \o t \in Seq(Pieces) /\ Len(s \o t) = Len(s) + Len(t)
        /\ \A k \in 1 .. Len(s \o t) :
             (s \o t)[k] = IF k <= Len(s) THEN s[k] ELSE t[k - Len(s)]
    BY ConcatProperties
  <1>2. Lens(s \o t) = Lens(s) \o Lens(t)
    <2> DEFINE c == s \o t
               a == Lens(s)
               b == Lens(t)
    <2>1. /\ Lens(c) \in Seq(Nat) /\ Len(Lens(c)) = Len(c)
          /\ \A k \in 1 .. Len(c) : Lens(c)[k] = c[k].len
      BY <1>1, LensAre
    <2>2. a \in Seq(Nat) /\ Len(a) = Len(s) /\ \A k \in 1 .. Len(s) : a[k] = s[k].len
      BY LensAre
    <2>3. b \in Seq(Nat) /\ Len(b) = Len(t) /\ \A k \in 1 .. Len(t) : b[k] = t[k].len
      BY LensAre
    <2> HIDE DEF a, b
    <2>4. /\ a \o b \in Seq(Nat) /\ Len(a \o b) = Len(a) + Len(b)
          /\ \A k \in 1 .. Len(a \o b) :
               (a \o b)[k] = IF k <= Len(a) THEN a[k] ELSE b[k - Len(a)]
      <3>1. a \in Seq(Nat) /\ b \in Seq(Nat)
        BY <2>2, <2>3
      <3> QED
        BY <3>1, ConcatProperties
    <2>5. ASSUME NEW k \in 1 .. Len(c)  PROVE Lens(c)[k] = (a \o b)[k]
      <3>1. c[k] = IF k <= Len(s) THEN s[k] ELSE t[k - Len(s)]
        BY <1>1
      <3>2. Len(s) \in Nat /\ Len(t) \in Nat /\ Len(c) = Len(s) + Len(t)
        BY <1>1
      <3>3. (a \o b)[k] = IF k <= Len(s) THEN a[k] ELSE b[k - Len(s)]
        BY <2>2, <2>3, <2>4, <3>2
      <3> HIDE DEF c
      <3>4. CASE k <= Len(s)
        <4>1. k \in 1 .. Len(s)
          BY <3>2, <3>4
        <4> QED
          BY <2>1, <2>2, <3>1, <3>3, <3>4, <4>1
      <3>5. CASE ~(k <= Len(s))
        <4>1. k - Len(s) \in 1 .. Len(t)
          BY <3>2, <3>5
        <4> QED
          BY <2>1, <2>3, <3>1, <3>2, <3>3, <3>5, <4>1
      <3> QED
        BY <3>4, <3>5
    <2> QED
      BY <1>1, <2>1, <2>2, <2>3, <2>4, <2>5, SeqEqual, ZenonT(40) DEF a, b
  <1>3. Lens(s) \in Seq(Nat) /\ Lens(t) \in Seq(Nat)
    BY LensAre
  <1> QED
    BY <1>1, <1>2, <1>3, TotalConcat DEF Size

LEMMA SizeOfOne ==
  ASSUME NEW x \in Pieces
  PROVE  <<x>> \in Seq(Pieces) /\ Size(<<x>>) = x.len
  <1>1. Lens(<<x>>) = <<x.len>>
    BY DEF Lens
  <1> QED
    BY <1>1, TotalOfOne DEF Size, Pieces

LEMMA SizeOfNone == <<>> \in Seq(Pieces) /\ Size(<<>>) = 0
  <1>1. Lens(<<>>) = <<>>
    BY DEF Lens
  <1> QED
    BY <1>1, TotalOfNone DEF Size

-----------------------------------------------------------------------------
(* Sequences one behind the other *)

FlattenOf(g, seqs) ==
  g = [i \in 1 .. Len(seqs) |-> IF i = 1 THEN seqs[i] ELSE g[i - 1] \o seqs[i]]
Flattens(f, seqs) ==
  /\ f[0] = <<>>
  /\ \A k \in 1 .. Len(seqs) : f[k] = f[k - 1] \o seqs[k]
  /\ f[Len(seqs)] = FlattenSeq(seqs)

LEMMA FlattenSteps ==
  ASSUME NEW X, NEW seqs \in Seq(Seq(X))
  PROVE  \E f \in [0 .. Len(seqs) -> Seq(X)] : Flattens(f, seqs)
  <1> DEFINE n == Len(seqs)
             step == [p \in (1 .. n) \X Seq(X) |-> p[2] \o seqs[p[1]]]
  <1>1. n \in Nat /\ \A k \in 1 .. n : seqs[k] \in Seq(X)
    OBVIOUS
  <1>2. ASSUME NEW k \in 1 .. n, NEW x \in Seq(X)
        PROVE  step[<<k, x>>] = x \o seqs[k] /\ step[<<k, x>>] \in Seq(X)
    <2>1. <<k, x>> \in (1 .. n) \X Seq(X) /\ seqs[k] \in Seq(X)
      BY <1>1
    <2>2. x \o seqs[k] \in Seq(X)
      BY <2>1, ConcatProperties
    <2> QED
      BY <2>1, <2>2
  <1>3. <<>> \in Seq(X)
    OBVIOUS
  <1>4. PICK f \in [0 .. n -> Seq(X)] : Steps(f, n, <<>>, step)
    <2> HIDE DEF step, n
    <2> QED
      BY <1>1, <1>2, <1>3, StepsExist
  <1>5. f[0] = <<>> /\ \A k \in 1 .. n : f[k] = f[k - 1] \o seqs[k]
    <2> HIDE DEF step
    <2> SUFFICES ASSUME NEW k \in 1 .. n  PROVE f[k] = f[k - 1] \o seqs[k]
      BY <1>4 DEF Steps
    <2>1. k - 1 \in 0 .. n
      BY <1>1
    <2>2. f[k - 1] \in Seq(X) /\ f[k] = step[<<k, f[k - 1]>>]
      BY <1>4, <2>1 DEF Steps
    <2> QED
      BY <1>2, <2>2
  <1>6. f[n] = FlattenSeq(seqs)
    <2>1. CASE n = 0
      BY <1>5, <2>1 DEF FlattenSeq
    <2>2. CASE n # 0
      <3> DEFINE h == [i \in 1 .. n |-> f[i]]
      <3>1. FlattenOf(h, seqs)
        <4>1. ASSUME NEW i \in 1 .. n
              PROVE  h[i] = IF i = 1 THEN seqs[i] ELSE h[i - 1] \o seqs[i]
          <5>1. CASE i = 1
            <6>0. i - 1 = 0
              BY <5>1
            <6>1. f[i] = f[i - 1] \o seqs[i] /\ seqs[i] \in Seq(X)
              BY <1>1, <1>5
            <6>2. <<>> \o seqs[i] = seqs[i]
              BY <6>1, ConcatEmptySeq
            <6> QED
              BY <1>5, <5>1, <6>0, <6>1, <6>2
          <5>2. CASE i # 1
            <6>1. i - 1 \in 1 .. n
              BY <1>1, <5>2
            <6> QED
              BY <1>5, <5>2, <6>1
          <5> QED
            BY <5>1, <5>2
        <4> QED
          BY <4>1 DEF FlattenOf
      <3>2. PICK g : FlattenOf(g, seqs) /\ FlattenSeq(seqs) = g[n]
        <4>1. \E g : FlattenOf(g, seqs)
          BY <3>1
        <4>2. Len(seqs) # 0
          BY <2>2
        <4> QED
          BY <4>1, <4>2 DEF FlattenOf, FlattenSeq
      <3> DEFINE S == {0} \cup {k \in 1 .. n : g[k] = f[k]}
      <3>3. ASSUME NEW k \in 1 .. n, k - 1 \in S  PROVE k \in S
        <4>1. g[k] = IF k = 1 THEN seqs[k] ELSE g[k - 1] \o seqs[k]
          BY <3>2 DEF FlattenOf
        <4>2. CASE k = 1
          <5>0. k - 1 = 0
            BY <4>2
          <5>1. f[k] = f[k - 1] \o seqs[k] /\ seqs[k] \in Seq(X)
            BY <1>1, <1>5
          <5>2. <<>> \o seqs[k] = seqs[k]
            BY <5>1, ConcatEmptySeq
          <5> QED
            BY <1>5, <4>1, <4>2, <5>0, <5>1, <5>2
        <4>3. CASE k # 1
          <5>1. g[k - 1] = f[k - 1]
            BY <3>3, <4>3
          <5> QED
            BY <1>5, <4>1, <4>3, <5>1
        <4> QED
          BY <4>2, <4>3
      <3>4. \A k \in 0 .. n : k \in S
        <4>1. S \in SUBSET (0 .. n) /\ 0 \in S
          BY <1>1
        <4> HIDE DEF S, n
        <4> QED
          BY <1>1, <3>3, <4>1, Induct
      <3> QED
        BY <1>1, <2>2, <3>2, <3>4
    <2> QED
      BY <2>1, <2>2
  <1> QED
    BY <1>4, <1>5, <1>6 DEF Flattens

LEMMA SizeOfFlat ==
  ASSUME NEW seqs \in Seq(Seq(Pieces)),
         NEW sizes \in Seq(Nat), Len(sizes) = Len(seqs),
         \A k \in 1 .. Len(seqs) : sizes[k] = Size(seqs[k])
  PROVE  /\ FlattenSeq(seqs) \in Seq(Pieces)
         /\ Size(FlattenSeq(seqs)) = Total(sizes)
  <1> DEFINE n == Len(seqs)
             g == Sums(sizes)
  <1>1. n \in Nat /\ \A k \in 1 .. n : seqs[k] \in Seq(Pieces)
    OBVIOUS
  <1>2. PICK f \in [0 .. n -> Seq(Pieces)] : Flattens(f, seqs)
    BY FlattenSteps
  <1>3. g[0] = 0 /\ \A k \in 1 .. n : g[k] = g[k - 1] + sizes[k]
    BY SumsAre
  <1> DEFINE S == {k \in 0 .. n : Size(f[k]) = g[k]}
  <1>4. \A k \in 0 .. n : k \in S
    <2>1. 0 \in S
      BY <1>1, <1>2, <1>3, SizeOfNone DEF Flattens
    <2>2. ASSUME NEW k \in 1 .. n, k - 1 \in S  PROVE k \in S
      <3>1. k - 1 \in 0 .. n /\ k \in 0 .. n
        BY <1>1
      <3>2. f[k - 1] \in Seq(Pieces) /\ seqs[k] \in Seq(Pieces) /\ f[k] = f[k - 1] \o seqs[k]
        BY <1>1, <1>2, <3>1 DEF Flattens
      <3>3. Size(f[k]) = Size(f[k - 1]) + Size(seqs[k])
        BY <3>2, SizeConcat
      <3>4. Size(f[k - 1]) = g[k - 1] /\ sizes[k] = Size(seqs[k]) /\ g[k] = g[k - 1] + sizes[k]
        BY <1>3, <2>2
      <3> QED
        BY <3>1, <3>3, <3>4
    <2>3. S \in SUBSET (0 .. n)
      OBVIOUS
    <2> HIDE DEF S, n
    <2> QED
      BY <1>1, <2>1, <2>2, <2>3, Induct
  <1>5. n \in 0 .. n
    BY <1>1
  <1> QED
    BY <1>2, <1>4, <1>5 DEF Flattens, Total

-----------------------------------------------------------------------------
(* What the encodings write *)

LEMMA BytesArePieces ==
  ASSUME NEW b \in 0 .. 255
  PROVE  Byte(b) \in Pieces /\ IsByte(Byte(b)) /\ Byte(b).len = 1 /\ Byte(b).id = b
  BY DEF Byte, Pieces, IsByte

LEMMA SizeOfBytes ==
  ASSUME NEW s \in Seq(Pieces), \A k \in 1 .. Len(s) : s[k].len = 1
  PROVE  Size(s) = Len(s)
  <1> DEFINE g == Sums(Lens(s))
             S == {k \in 0 .. Len(s) : g[k] = k}
  <1>1. /\ Lens(s) \in Seq(Nat) /\ Len(Lens(s)) = Len(s) /\ Len(s) \in Nat
        /\ \A k \in 1 .. Len(s) : Lens(s)[k] = 1
    BY LensAre
  <1>2. g[0] = 0 /\ \A k \in 1 .. Len(s) : g[k] = g[k - 1] + Lens(s)[k]
    BY <1>1, SumsAre
  <1> HIDE DEF g
  <1>3. \A k \in 0 .. Len(s) : k \in S
    <2>1. 0 \in S /\ S \in SUBSET (0 .. Len(s))
      BY <1>1, <1>2
    <2>2. ASSUME NEW k \in 1 .. Len(s), k - 1 \in S  PROVE k \in S
      <3>1. g[k - 1] = k - 1 /\ g[k] = g[k - 1] + 1 /\ k \in 0 .. Len(s)
        BY <1>1, <1>2, <2>2
      <3> QED
        BY <3>1
    <2> HIDE DEF S
    <2> QED
      BY <1>1, <2>1, <2>2, Induct
  <1>4. Len(s) \in 0 .. Len(s)
    BY <1>1
  <1> QED
    BY <1>1, <1>3, <1>4 DEF Size, Total, g

\* The powers of 256 that a number of up to four bytes needs.
LEMMA Powers ==
  ASSUME NEW n \in Nat, NEW k \in 1 .. 4
  PROVE  /\ 256 ^ (k - 1) \in Nat \ {0}
         /\ (n \div 256 ^ (k - 1)) % 256 \in 0 .. 255
  <1>1. /\ 256 ^ 0 \in Nat \ {0} /\ 256 ^ 1 \in Nat \ {0}
        /\ 256 ^ 2 \in Nat \ {0} /\ 256 ^ 3 \in Nat \ {0}
    BY SMT
  <1>2. k - 1 \in {0, 1, 2, 3}
    OBVIOUS
  <1>3. 256 ^ (k - 1) \in Nat \ {0}
    <2>1. PICK j \in {0, 1, 2, 3} : j = k - 1
      BY <1>2
    <2>2. 256 ^ j \in Nat \ {0}
      BY <1>1, ZenonT(60)
    <2> QED
      BY <2>1, <2>2, Zenon
  <1> DEFINE p == 256 ^ (k - 1)
  <1> HIDE DEF p
  <1>4. \A q \in Nat \ {0} : (n \div q) % 256 \in 0 .. 255
    BY SMT
  <1> QED
    BY <1>3, <1>4 DEF p

LEMMA UintBytes ==
  ASSUME NEW n \in Nat, NEW width \in 2 .. 4
  PROVE  /\ WriteUint(n, width) \in Seq(Pieces) /\ Len(WriteUint(n, width)) = width
         /\ \A k \in 1 .. width :
              /\ WriteUint(n, width)[k] = Byte((n \div 256 ^ (k - 1)) % 256)
              /\ (n \div 256 ^ (k - 1)) % 256 \in 0 .. 255
         /\ Size(WriteUint(n, width)) = width
  <1> DEFINE s == WriteUint(n, width)
  <1>1. ASSUME NEW k \in 1 .. width
        PROVE  /\ (n \div 256 ^ (k - 1)) % 256 \in 0 .. 255
               /\ s[k] = Byte((n \div 256 ^ (k - 1)) % 256)
               /\ s[k] \in Pieces /\ s[k].len = 1
    <2>1. k \in 1 .. 4
      OBVIOUS
    <2>2. (n \div 256 ^ (k - 1)) % 256 \in 0 .. 255
      BY <2>1, Powers
    <2>3. s[k] = Byte((n \div 256 ^ (k - 1)) % 256)
      BY DEF WriteUint
    <2>4. \A d \in 0 .. 255 : s[k] = Byte(d) => s[k] \in Pieces /\ s[k].len = 1
      <3> HIDE DEF s
      <3> QED
        BY BytesArePieces, ZenonT(40)
    <2> HIDE DEF s
    <2> QED
      BY <2>2, <2>3, <2>4, Zenon
  <1>2. s \in Seq(Pieces) /\ Len(s) = width
    <2>1. s = [k \in 1 .. width |-> s[k]]
      BY DEF WriteUint
    <2>2. s \in [1 .. width -> Pieces]
      <3> HIDE DEF s
      <3> QED
        BY <1>1, <2>1
    <2> HIDE DEF s
    <2> QED
      BY <2>2, IsASeq
  <1>3. Size(s) = width
    <2> HIDE DEF s
    <2> QED
      BY <1>1, <1>2, SizeOfBytes
  <1> QED
    BY <1>1, <1>2, <1>3

LEMMA NotEmpty == ASSUME NEW s, Len(s) # 0  PROVE s # <<>>
  OBVIOUS

\* A byte and what is behind it.
LEMMA ByteAndRest ==
  ASSUME NEW b \in 0 .. 255, NEW s \in Seq(Pieces)
  PROVE  /\ <<Byte(b)>> \o s \in Seq(Pieces) /\ Len(<<Byte(b)>> \o s) = 1 + Len(s)
         /\ Size(<<Byte(b)>> \o s) = 1 + Size(s)
         /\ (<<Byte(b)>> \o s)[1] = Byte(b)
         /\ \A k \in 1 .. Len(s) : (<<Byte(b)>> \o s)[k + 1] = s[k]
  <1>1. Byte(b) \in Pieces /\ Byte(b).len = 1
    BY BytesArePieces
  <1> DEFINE x == Byte(b)
  <1> HIDE DEF x
  <1>2. /\ <<x>> \in Seq(Pieces) /\ Size(<<x>>) = 1 /\ Len(<<x>>) = 1 /\ <<x>>[1] = x
        /\ Len(s) \in Nat
    BY <1>1, SizeOfOne DEF x
  <1>3. Size(<<x>> \o s) = 1 + Size(s)
    BY <1>2, SizeConcat
  <1>4. /\ <<x>> \o s \in Seq(Pieces) /\ Len(<<x>> \o s) = 1 + Len(s)
        /\ (<<x>> \o s)[1] = x
        /\ \A k \in 1 .. Len(s) : (<<x>> \o s)[k + 1] = s[k]
    BY <1>1, <1>2 DEF x
  <1> QED
    BY <1>3, <1>4 DEF x

LEMMA ByteAndNumber ==
  ASSUME NEW b \in 0 .. 255, NEW n \in Nat, NEW width \in 2 .. 4, NEW s,
         s = <<Byte(b)>> \o WriteUint(n, width)
  PROVE  s \in Seq(Pieces) /\ Len(s) = width + 1 /\ Size(s) = width + 1
  <1> DEFINE u == WriteUint(n, width)
  <1>0. width \in Int
    OBVIOUS
  <1>1. u \in Seq(Pieces) /\ Len(u) = width /\ Size(u) = width
    BY UintBytes, ZenonT(60)
  <1> HIDE DEF u
  <1>2. /\ <<Byte(b)>> \o u \in Seq(Pieces) /\ Len(<<Byte(b)>> \o u) = 1 + Len(u)
        /\ Size(<<Byte(b)>> \o u) = 1 + Size(u)
    BY <1>1, ByteAndRest
  <1> DEFINE r == <<Byte(b)>> \o u
  <1>3. s = r
    BY DEF u
  <1> HIDE DEF r
  <1>4. r \in Seq(Pieces) /\ Len(r) = width + 1 /\ Size(r) = width + 1
    BY <1>0, <1>1, <1>2 DEF r
  <1> QED
    BY <1>3, <1>4, Zenon

LEMMA LenencIntBytes ==
  ASSUME NEW n \in Nat
  PROVE  /\ WriteLenencInt(n) \in Seq(Pieces) /\ Len(WriteLenencInt(n)) \in Nat \ {0}
         /\ Size(WriteLenencInt(n)) = LenencIntSize(n)
  <1> DEFINE s == WriteLenencInt(n)
  <1>1. CASE n < 251
    <2>1. s = <<Byte(n)>> /\ LenencIntSize(n) = 1
      BY <1>1, SMT DEF WriteLenencInt, LenencIntSize
    <2>2. n \in 0 .. 255
      BY <1>1
    <2>3. Byte(n) \in Pieces /\ Byte(n).len = 1
      BY <2>2, BytesArePieces
    <2> QED
      BY <2>1, <2>3, SizeOfOne
  <1>2. CASE n >= 251 /\ n < 65536
    <2>1. s = <<Byte(252)>> \o WriteUint(n, 2) /\ LenencIntSize(n) = 3
      BY <1>2, SMT DEF WriteLenencInt, LenencIntSize
    <2> HIDE DEF s
    <2>2. s \in Seq(Pieces) /\ Len(s) = 3 /\ Size(s) = 3
      <3>1. PICK b \in 0 .. 255, width \in 2 .. 4 : b = 252 /\ width = 2
        OBVIOUS
      <3>2. s = <<Byte(b)>> \o WriteUint(n, width)
        BY <2>1, <3>1, Zenon
      <3>3. s \in Seq(Pieces) /\ Len(s) = width + 1 /\ Size(s) = width + 1
        BY <3>2, ByteAndNumber, ZenonT(60)
      <3> QED
        BY <3>1, <3>3
    <2> QED
      BY <2>1, <2>2 DEF s
  <1>3. CASE n >= 65536 /\ n < 2 ^ 24
    <2>1. s = <<Byte(253)>> \o WriteUint(n, 3) /\ LenencIntSize(n) = 4
      BY <1>3, SMT DEF WriteLenencInt, LenencIntSize
    <2> HIDE DEF s
    <2>2. s \in Seq(Pieces) /\ Len(s) = 4 /\ Size(s) = 4
      <3>1. PICK b \in 0 .. 255, width \in 2 .. 4 : b = 253 /\ width = 3
        OBVIOUS
      <3>2. s = <<Byte(b)>> \o WriteUint(n, width)
        BY <2>1, <3>1, Zenon
      <3>3. s \in Seq(Pieces) /\ Len(s) = width + 1 /\ Size(s) = width + 1
        BY <3>2, ByteAndNumber
      <3> QED
        BY <3>1, <3>3
    <2> QED
      BY <2>1, <2>2 DEF s
  <1>4. CASE ~(n < 2 ^ 24)
    <2> DEFINE v == <<Byte(254)>> \o WriteUint(n, 4)
               z == WriteUint(0, 4)
    <2>1. s = v \o z /\ LenencIntSize(n) = 9
      BY <1>4, SMT DEF WriteLenencInt, LenencIntSize
    <2>2. z \in Seq(Pieces) /\ Len(z) = 4 /\ Size(z) = 4
      BY UintBytes
    <2>3. v = <<Byte(254)>> \o WriteUint(n, 4)
      OBVIOUS
    <2> HIDE DEF s, v, z
    <2>4. v \in Seq(Pieces) /\ Len(v) = 5 /\ Size(v) = 5
      <3>1. PICK b \in 0 .. 255, width \in 2 .. 4 : b = 254 /\ width = 4
        OBVIOUS
      <3>2. v = <<Byte(b)>> \o WriteUint(n, width)
        BY <2>3, <3>1, Zenon
      <3>3. v \in Seq(Pieces) /\ Len(v) = width + 1 /\ Size(v) = width + 1
        BY <3>2, ByteAndNumber
      <3> QED
        BY <3>1, <3>3
    <2>5. s \in Seq(Pieces) /\ Size(s) = 9
      BY <2>1, <2>2, <2>4, SizeConcat
    <2>6. Len(s) = 9
      <3>1. Len(v \o z) = Len(v) + Len(z)
        BY <2>2, <2>4, ConcatProperties
      <3> QED
        BY <2>1, <2>2, <2>4, <3>1
    <2> QED
      BY <2>1, <2>5, <2>6 DEF s
  <1> QED
    BY <1>1, <1>2, <1>3, <1>4, SMT

\* Texts that can be written: those of the stream, and the empty one.
Strings == Pieces \cup {EmptyText}

LEMMA TextsAre ==
  ASSUME NEW n \in Nat, NEW len \in Nat
  PROVE  TextOf(n, len) \in Strings /\ TextOf(n, len).len = len /\ ~IsByte(TextOf(n, len))
  BY DEF TextOf, Strings, Pieces, EmptyText, IsByte

LEMMA StringBytes ==
  ASSUME NEW t \in Strings
  PROVE  /\ t.len \in Nat
         /\ WriteString(t) \in Seq(Pieces) /\ Size(WriteString(t)) = t.len
         /\ WriteLenencString(t) \in Seq(Pieces)
         /\ Size(WriteLenencString(t)) = LenencIntSize(t.len) + t.len
  <1>1. t.len \in Nat /\ (t.len # 0 => t \in Pieces)
    BY DEF Strings, Pieces, EmptyText
  <1>2. WriteString(t) \in Seq(Pieces) /\ Size(WriteString(t)) = t.len
    BY <1>1, SizeOfOne, SizeOfNone DEF WriteString
  <1> QED
    BY <1>1, <1>2, LenencIntBytes, SizeConcat DEF WriteLenencString

LEMMA StringsBytes ==
  ASSUME NEW ts \in Seq(Pieces)
  PROVE  WriteStrings(ts) \in Seq(Pieces) /\ Size(WriteStrings(ts)) = Size(ts)
  <1> DEFINE seqs == [k \in DOMAIN ts |-> WriteString(ts[k])]
  <1>1. seqs \in Seq(Seq(Pieces)) /\ Len(seqs) = Len(ts)
    <2>0. \A k \in 1 .. Len(ts) : ts[k] \in Strings /\ seqs[k] = WriteString(ts[k])
      BY DEF Strings
    <2>1. \A k \in 1 .. Len(ts) : seqs[k] \in Seq(Pieces)
      BY <2>0, StringBytes
    <2>2. seqs = [k \in 1 .. Len(ts) |-> seqs[k]] /\ Len(ts) \in Nat
      OBVIOUS
    <2> HIDE DEF seqs
    <2>3. seqs \in [1 .. Len(ts) -> Seq(Pieces)]
      BY <2>1, <2>2
    <2> QED
      BY <2>2, <2>3, IsASeq
  <1>2. ASSUME NEW k \in 1 .. Len(seqs)  PROVE Lens(ts)[k] = Size(seqs[k])
    <2>1. ts[k] \in Strings /\ seqs[k] = WriteString(ts[k]) /\ k \in 1 .. Len(ts)
      BY <1>1 DEF Strings
    <2> HIDE DEF seqs
    <2> QED
      BY <2>1, StringBytes, LensAre
  <1>3. Lens(ts) \in Seq(Nat) /\ Len(Lens(ts)) = Len(seqs)
    BY <1>1, LensAre
  <1> HIDE DEF seqs
  <1>4. FlattenSeq(seqs) \in Seq(Pieces) /\ Size(FlattenSeq(seqs)) = Total(Lens(ts))
    BY <1>1, <1>2, <1>3, SizeOfFlat
  <1> QED
    BY <1>4 DEF seqs, WriteStrings, Size

-----------------------------------------------------------------------------
(* The payloads of a reply are as long as getPayloadLength() says            *)

LEMMA SizeOfThree ==
  ASSUME NEW a \in Seq(Pieces), NEW b \in Seq(Pieces), NEW c \in Seq(Pieces)
  PROVE  /\ a \o b \o c \in Seq(Pieces)
         /\ Size(a \o b \o c) = Size(a) + Size(b) + Size(c)
  <1> DEFINE d == a \o b
  <1>1. d \in Seq(Pieces) /\ Size(d) = Size(a) + Size(b)
    BY SizeConcat
  <1> HIDE DEF d
  <1>2. d \o c \in Seq(Pieces) /\ Size(d \o c) = Size(d) + Size(c)
    BY <1>1, SizeConcat
  <1> QED
    BY <1>1, <1>2 DEF d

LEMMA SizeOfFour ==
  ASSUME NEW a \in Seq(Pieces), NEW b \in Seq(Pieces), NEW c \in Seq(Pieces), NEW d \in Seq(Pieces)
  PROVE  /\ a \o b \o c \o d \in Seq(Pieces)
         /\ Size(a \o b \o c \o d) = Size(a) + Size(b) + Size(c) + Size(d)
  <1> DEFINE e == a \o b \o c
  <1>1. e \in Seq(Pieces) /\ Size(e) = Size(a) + Size(b) + Size(c)
    BY SizeOfThree
  <1> HIDE DEF e
  <1>2. e \o d \in Seq(Pieces) /\ Size(e \o d) = Size(e) + Size(d)
    BY <1>1, SizeConcat
  <1> QED
    BY <1>1, <1>2 DEF e

LEMMA ByteAlone ==
  ASSUME NEW b \in 0 .. 255
  PROVE  <<Byte(b)>> \in Seq(Pieces) /\ Size(<<Byte(b)>>) = 1
  BY BytesArePieces, SizeOfOne

LEMMA TwoBytes ==
  ASSUME NEW n \in Nat
  PROVE  WriteUint(n, 2) \in Seq(Pieces) /\ Size(WriteUint(n, 2)) = 2
  BY UintBytes

OkReplies == [kind : {"ok"}, insertId : Nat, info : Seq(Pieces)]
ErrReplies == [kind : {"err"}, code : Nat, message : Seq(Pieces)]
ShortTexts == {t \in Pieces : t.len < 2 ^ 24 /\ ~IsByte(t)}
ColumnRecords ==
  [db : ShortTexts, table : ShortTexts, name : ShortTexts, type : Types,
   not_null : BOOLEAN, primary_key : BOOLEAN, auto_increment : BOOLEAN]
RowReplies ==
  [kind : {"rows"}, columns : Seq(ColumnRecords), rows : Seq(Seq(Strings \cup {NullValue}))]

LEMMA OkSize ==
  ASSUME NEW r \in OkReplies
  PROVE  OkPayload(r) \in Seq(Pieces) /\ OkLength(r) = Size(OkPayload(r))
  <1> DEFINE a == <<Byte(0)>>
             b == WriteLenencInt(0)
             c == WriteLenencInt(r.insertId)
             d == WriteUint(Autocommit, 2)
             e == WriteUint(0, 2)
             f == WriteStrings(r.info)
             s == a \o b \o c \o d
  <1>1. r.insertId \in Nat /\ r.info \in Seq(Pieces)
    BY DEF OkReplies
  <1>2. a \in Seq(Pieces) /\ Size(a) = 1
    BY ByteAlone
  <1>3. b \in Seq(Pieces) /\ Size(b) = LenencIntSize(0)
    BY LenencIntBytes
  <1>4. c \in Seq(Pieces) /\ Size(c) = LenencIntSize(r.insertId)
    BY <1>1, LenencIntBytes
  <1>5. d \in Seq(Pieces) /\ Size(d) = 2
    BY TwoBytes DEF Autocommit
  <1>6. e \in Seq(Pieces) /\ Size(e) = 2
    BY TwoBytes
  <1>7. f \in Seq(Pieces) /\ Size(f) = Size(r.info)
    BY <1>1, StringsBytes
  <1>8. OkPayload(r) = s \o e \o f
    BY DEF OkPayload
  <1>9. OkLength(r) = 1 + LenencIntSize(0) + LenencIntSize(r.insertId) + 2 + 2 + Size(r.info)
    BY DEF OkLength
  <1>10. Size(r.info) \in Nat
    BY <1>1, SizeType
  <1> HIDE DEF a, b, c, d, e, f
  <1>11. s \in Seq(Pieces) /\ Size(s) = Size(a) + Size(b) + Size(c) + Size(d)
    BY <1>2, <1>3, <1>4, <1>5, SizeOfFour
  <1> HIDE DEF s
  <1>12. s \o e \o f \in Seq(Pieces) /\ Size(s \o e \o f) = Size(s) + Size(e) + Size(f)
    BY <1>6, <1>7, <1>11, SizeOfThree
  <1>13. Size(b) \in Nat /\ Size(c) \in Nat
    BY <1>3, <1>4, SizeType
  <1> QED
    BY <1>2, <1>3, <1>4, <1>5, <1>6, <1>7, <1>8, <1>9, <1>10, <1>11, <1>12, <1>13

LEMMA ErrSize ==
  ASSUME NEW r \in ErrReplies
  PROVE  ErrPayload(r) \in Seq(Pieces) /\ ErrLength(r) = Size(ErrPayload(r))
  <1> DEFINE a == <<Byte(255)>>
             b == WriteUint(r.code, 2)
             c == <<Byte(35), SqlState(r.code)>>
             d == WriteStrings(r.message)
  <1>1. r.code \in Nat /\ r.message \in Seq(Pieces)
    BY DEF ErrReplies
  <1>2. a \in Seq(Pieces) /\ Size(a) = 1
    BY ByteAlone
  <1>3. b \in Seq(Pieces) /\ Size(b) = 2
    BY <1>1, TwoBytes
  <1>4. c \in Seq(Pieces) /\ Size(c) = 6
    <2> DEFINE t == SqlState(r.code)
    <2>1. t \in Pieces /\ t.len = 5
      BY <1>1 DEF SqlState, TextOf, Pieces
    <2>2. <<Byte(35)>> \in Seq(Pieces) /\ Size(<<Byte(35)>>) = 1
      BY ByteAlone
    <2> HIDE DEF t
    <2>3. <<t>> \in Seq(Pieces) /\ Size(<<t>>) = 5
      BY <2>1, SizeOfOne
    <2>4. c = <<Byte(35)>> \o <<t>>
      BY DEF t
    <2> HIDE DEF c
    <2> QED
      BY <2>2, <2>3, <2>4, SizeConcat
  <1>5. d \in Seq(Pieces) /\ Size(d) = Size(r.message) /\ Size(r.message) \in Nat
    BY <1>1, StringsBytes, SizeType
  <1>6. ErrPayload(r) = a \o b \o c \o d /\ ErrLength(r) = 1 + 2 + 1 + 5 + Size(r.message)
    BY DEF ErrPayload, ErrLength
  <1> HIDE DEF a, b, c, d
  <1>7. /\ a \o b \o c \o d \in Seq(Pieces)
        /\ Size(a \o b \o c \o d) = Size(a) + Size(b) + Size(c) + Size(d)
    BY <1>2, <1>3, <1>4, <1>5, SizeOfFour
  <1> QED
    BY <1>2, <1>3, <1>4, <1>5, <1>6, <1>7

LEMMA EofSize == EofPayload \in Seq(Pieces) /\ EofLength = Size(EofPayload)
  <1> DEFINE a == <<Byte(254)>>
             b == WriteUint(0, 2)
             c == WriteUint(Autocommit, 2)
  <1>1. a \in Seq(Pieces) /\ Size(a) = 1
    BY ByteAlone
  <1>2. b \in Seq(Pieces) /\ Size(b) = 2
    BY TwoBytes
  <1>3. c \in Seq(Pieces) /\ Size(c) = 2
    BY TwoBytes DEF Autocommit
  <1>4. EofPayload = a \o b \o c
    BY DEF EofPayload
  <1> HIDE DEF a, b, c
  <1> QED
    BY <1>1, <1>2, <1>3, <1>4, SizeOfThree DEF EofLength

LEMMA SixAreASeq ==
  ASSUME NEW T, NEW f \in [1 .. 6 -> T]
  PROVE  f \in Seq(T) /\ Len(f) = 6
  <1>1. PICK n \in Nat : n = 6
    OBVIOUS
  <1>2. f \in [1 .. n -> T]
    BY <1>1
  <1>3. f \in Seq(T) /\ Len(f) = n
    BY <1>2, IsASeq
  <1> QED
    BY <1>1, <1>3

LEMMA TotalOfSix ==
  ASSUME NEW ns \in Seq(Nat), Len(ns) = 6
  PROVE  Total(ns) = ns[1] + ns[2] + ns[3] + ns[4] + ns[5] + ns[6]
  <1> DEFINE f == Sums(ns)
  <1>1. f[0] = 0 /\ \A k \in 1 .. 6 : f[k] = f[k - 1] + ns[k]
    BY SumsAre
  <1> HIDE DEF f
  <1>2. \A k \in 1 .. 6 : ns[k] \in Nat
    <2>1. \A k \in 1 .. Len(ns) : ns[k] \in Nat
      BY ElementOfSeq
    <2> QED
      BY <2>1
  <1>3. f[1] = ns[1]
    BY <1>1, <1>2
  <1>4. f[2] = f[1] + ns[2] /\ f[3] = f[2] + ns[3] /\ f[4] = f[3] + ns[4]
    BY <1>1
  <1>5. f[5] = f[4] + ns[5] /\ f[6] = f[5] + ns[6]
    BY <1>1
  <1> QED
    BY <1>2, <1>3, <1>4, <1>5 DEF Total, f

\* What a number and a text of a payload take.
FieldSize(t) == LenencIntSize(t.len) + t.len

LEMMA FieldSizes ==
  ASSUME NEW len \in Nat
  PROVE  /\ LenencIntSize(len) \in Nat \ {0}
         /\ LenencIntSize(len) = 1 <=> len < 251
  BY SMT DEF LenencIntSize

LEMMA ColumnNamesAre ==
  ASSUME NEW c \in ColumnRecords
  PROVE  /\ ColumnNames(c) \in Seq(Pieces) /\ Len(ColumnNames(c)) = 6
         /\ DOMAIN ColumnNames(c) = 1 .. 6
         /\ \A i \in 1 .. 6 : ColumnNames(c)[i] \in Pieces
  <1>1. c.db \in Pieces /\ c.table \in Pieces /\ c.name \in Pieces
    BY DEF ColumnRecords, ShortTexts
  <1>2. Catalogue \in Pieces
    BY DEF Catalogue, TextOf, Pieces
  <1>3. ColumnNames(c) = <<Catalogue, c.db, c.table, c.table, c.name, c.name>>
    BY DEF ColumnNames
  <1> DEFINE x == Catalogue
             d == c.db
             u == c.table
             v == c.name
             s == <<x, d, u, u, v, v>>
  <1> HIDE DEF x, d, u, v
  <1>4. s \in Seq(Pieces) /\ Len(s) = 6 /\ DOMAIN s = 1 .. 6 /\ \A i \in 1 .. 6 : s[i] \in Pieces
    BY <1>1, <1>2 DEF x, d, u, v
  <1> QED
    BY <1>3, <1>4 DEF x, d, u, v

LEMMA ColumnSize ==
  ASSUME NEW c \in ColumnRecords
  PROVE  /\ ColumnPayload(c) \in Seq(Pieces)
         /\ ColumnLengthDeclared(c) = Size(ColumnPayload(c))
              <=> \A i \in 1 .. 6 : ColumnNames(c)[i].len < 251
  <1> DEFINE names == ColumnNames(c)
             seqs == [i \in 1 .. 6 |-> WriteLenencString(names[i])]
             sizes == [i \in 1 .. 6 |-> FieldSize(names[i])]
             a == FlattenSeq(seqs)
             b == <<Byte(12)>>
             d == WriteUint(33, 2)
             e == WriteUint(ColumnLength(c.type), 4)
             f == <<Byte(MySQLType(c.type))>>
             g == WriteUint(ColumnFlags(c), 2)
             h == <<Byte(0)>>
             z == WriteUint(0, 2)
             s == a \o b \o d \o e
             t == s \o f \o g \o h
  <1>0. c.type \in Types /\ {c.not_null, c.primary_key, c.auto_increment} \subseteq BOOLEAN
    BY DEF ColumnRecords
  <1>1. /\ names \in Seq(Pieces) /\ Len(names) = 6 /\ \A i \in 1 .. 6 : names[i] \in Pieces
    BY ColumnNamesAre
  <1> HIDE DEF names
  <1>2. ASSUME NEW i \in 1 .. 6
        PROVE  /\ names[i].len \in Nat
               /\ seqs[i] \in Seq(Pieces) /\ Size(seqs[i]) = FieldSize(names[i])
               /\ sizes[i] \in Nat /\ sizes[i] = Size(seqs[i])
    <2>1. names[i] \in Strings /\ names[i].len \in Nat
      BY <1>1 DEF Strings, Pieces
    <2>2. seqs[i] = WriteLenencString(names[i]) /\ sizes[i] = FieldSize(names[i])
      OBVIOUS
    <2>3. FieldSize(names[i]) \in Nat
      BY <2>1, FieldSizes DEF FieldSize
    <2> HIDE DEF seqs, sizes
    <2> QED
      BY <2>1, <2>2, <2>3, StringBytes DEF FieldSize
  <1>3. seqs \in Seq(Seq(Pieces)) /\ Len(seqs) = 6
    <2>1. seqs = [i \in 1 .. 6 |-> seqs[i]]
      OBVIOUS
    <2> HIDE DEF seqs
    <2>2. seqs \in [1 .. 6 -> Seq(Pieces)]
      BY <1>2, <2>1
    <2> QED
      BY <2>2, SixAreASeq
  <1>4. sizes \in Seq(Nat) /\ Len(sizes) = 6
    <2>1. sizes = [i \in 1 .. 6 |-> sizes[i]]
      OBVIOUS
    <2> HIDE DEF sizes
    <2>2. sizes \in [1 .. 6 -> Nat]
      BY <1>2, <2>1
    <2> QED
      BY <2>2, SixAreASeq
  <1>5. a \in Seq(Pieces) /\ Size(a) = Total(sizes)
    <2> HIDE DEF seqs, sizes
    <2>1. \A k \in 1 .. Len(seqs) : sizes[k] = Size(seqs[k])
      BY <1>2, <1>3
    <2> QED
      BY <1>3, <1>4, <2>1, SizeOfFlat
  <1>6. b \in Seq(Pieces) /\ Size(b) = 1 /\ h \in Seq(Pieces) /\ Size(h) = 1
    BY ByteAlone
  <1>7. d \in Seq(Pieces) /\ Size(d) = 2 /\ z \in Seq(Pieces) /\ Size(z) = 2
    BY TwoBytes
  <1>8. e \in Seq(Pieces) /\ Size(e) = 4
    <2>1. ColumnLength(c.type) \in Nat
      BY <1>0 DEF ColumnLength, Types
    <2> QED
      BY <2>1, UintBytes
  <1>9. f \in Seq(Pieces) /\ Size(f) = 1
    <2>1. MySQLType(c.type) \in 0 .. 255
      BY <1>0 DEF MySQLType, Types
    <2> QED
      BY <2>1, ByteAlone
  <1>10. g \in Seq(Pieces) /\ Size(g) = 2
    <2>1. ColumnFlags(c) \in Nat
      BY <1>0 DEF ColumnFlags
    <2> QED
      BY <2>1, TwoBytes
  <1>11. ColumnPayload(c) = t \o z
    BY DEF ColumnPayload, names
  <1> HIDE DEF a, b, d, e, f, g, h, z
  <1>12. s \in Seq(Pieces) /\ Size(s) = Size(a) + Size(b) + Size(d) + Size(e)
    BY <1>5, <1>6, <1>7, <1>8, SizeOfFour
  <1> HIDE DEF s
  <1>13. t \in Seq(Pieces) /\ Size(t) = Size(s) + Size(f) + Size(g) + Size(h)
    BY <1>6, <1>9, <1>10, <1>12, SizeOfFour
  <1> HIDE DEF t
  <1>14. t \o z \in Seq(Pieces) /\ Size(t \o z) = Size(t) + Size(z)
    BY <1>7, <1>13, SizeConcat
  <1>15. Size(a) \in Nat
    BY <1>5, SizeType
  <1>16. Size(ColumnPayload(c)) = Total(sizes) + 13
    <2> HIDE DEF sizes
    <2> QED
      BY <1>5, <1>6, <1>7, <1>8, <1>9, <1>10, <1>11, <1>12, <1>13, <1>14, <1>15, SMTT(60)
  <1>17. ColumnLengthDeclared(c) = Total(Lens(names)) + 19 /\ Total(Lens(names)) \in Nat
    <2>1. ColumnLengthDeclared(c) = Size(names) + 6 + 13
      BY DEF ColumnLengthDeclared, names
    <2>2. Size(names) = Total(Lens(names)) /\ Size(names) \in Nat
      BY <1>1, SizeType DEF Size
    <2> QED
      BY <2>1, <2>2
  <1> DEFINE l(i) == names[i].len
             w(i) == LenencIntSize(names[i].len)
  <1>18. Total(Lens(names)) = l(1) + l(2) + l(3) + l(4) + l(5) + l(6)
    <2>1. /\ Lens(names) \in Seq(Nat) /\ Len(Lens(names)) = 6
          /\ \A i \in 1 .. 6 : Lens(names)[i] = l(i)
      BY <1>1, LensAre
    <2> QED
      BY <2>1, TotalOfSix
  <1>19. /\ Total(sizes) = sizes[1] + sizes[2] + sizes[3] + sizes[4] + sizes[5] + sizes[6]
         /\ \A i \in 1 .. 6 : sizes[i] = w(i) + l(i)
    <2>1. \A i \in 1 .. 6 : sizes[i] = w(i) + l(i)
      BY DEF FieldSize
    <2> HIDE DEF sizes
    <2> QED
      BY <1>4, <2>1, TotalOfSix
  <1>20. ASSUME NEW i \in 1 .. 6
         PROVE  l(i) \in Nat /\ w(i) \in Nat \ {0} /\ (w(i) = 1 <=> l(i) < 251)
    BY <1>2, FieldSizes
  <1> HIDE DEF sizes, l, w
  <1>21. ColumnLengthDeclared(c) = Size(ColumnPayload(c))
           <=> w(1) + w(2) + w(3) + w(4) + w(5) + w(6) = 6
    <2>1. /\ w(1) \in Nat /\ w(2) \in Nat /\ w(3) \in Nat
          /\ w(4) \in Nat /\ w(5) \in Nat /\ w(6) \in Nat
      BY <1>20
    <2>2. /\ l(1) \in Nat /\ l(2) \in Nat /\ l(3) \in Nat
          /\ l(4) \in Nat /\ l(5) \in Nat /\ l(6) \in Nat
      BY <1>20
    <2>3. /\ sizes[1] = w(1) + l(1) /\ sizes[2] = w(2) + l(2) /\ sizes[3] = w(3) + l(3)
          /\ sizes[4] = w(4) + l(4) /\ sizes[5] = w(5) + l(5) /\ sizes[6] = w(6) + l(6)
      BY <1>19
    <2>4. Total(sizes) = (w(1) + w(2) + w(3) + w(4) + w(5) + w(6)) + Total(Lens(names))
      BY <1>18, <1>19, <2>1, <2>2, <2>3
    <2> QED
      BY <1>16, <1>17, <2>1, <2>4
  <1>22. w(1) + w(2) + w(3) + w(4) + w(5) + w(6) = 6 <=> \A i \in 1 .. 6 : w(i) = 1
    BY <1>20
  <1> QED
    BY <1>11, <1>14, <1>20, <1>21, <1>22 DEF l, names

LEMMA RowSize ==
  ASSUME NEW row \in Seq(Strings \cup {NullValue})
  PROVE  RowPayload(row) \in Seq(Pieces) /\ RowLength(row) = Size(RowPayload(row))
  <1> DEFINE n == Len(row)
             seqs == [i \in DOMAIN row |->
                        IF row[i] = NullValue THEN <<Byte(251)>> ELSE WriteLenencString(row[i])]
             sizes == [i \in DOMAIN row |->
                         IF row[i] = NullValue THEN 1 ELSE LenencIntSize(row[i].len) + row[i].len]
  <1>1. n \in Nat /\ DOMAIN row = 1 .. n
    OBVIOUS
  <1>2. ASSUME NEW i \in 1 .. n
        PROVE  /\ seqs[i] \in Seq(Pieces) /\ sizes[i] \in Nat /\ sizes[i] = Size(seqs[i])
    <2>1. CASE row[i] = NullValue
      <3>1. seqs[i] = <<Byte(251)>> /\ sizes[i] = 1
        BY <1>1, <2>1
      <3> HIDE DEF seqs, sizes
      <3> QED
        BY <3>1, ByteAlone
    <2>2. CASE row[i] # NullValue
      <3>1. /\ seqs[i] = WriteLenencString(row[i])
            /\ sizes[i] = LenencIntSize(row[i].len) + row[i].len
        BY <1>1, <2>2
      <3>2. row[i] \in Strings
        BY <1>1, <2>2
      <3> HIDE DEF seqs, sizes
      <3>3. row[i].len \in Nat /\ LenencIntSize(row[i].len) \in Nat
        BY <3>2, StringBytes, FieldSizes
      <3> QED
        BY <3>1, <3>2, <3>3, StringBytes
    <2> QED
      BY <2>1, <2>2
  <1>3. seqs = [i \in 1 .. n |-> seqs[i]] /\ sizes = [i \in 1 .. n |-> sizes[i]]
    BY <1>1
  <1>4. RowPayload(row) = FlattenSeq(seqs) /\ RowLength(row) = Total(sizes)
    BY DEF RowPayload, RowLength
  <1> HIDE DEF seqs, sizes, n
  <1>5. seqs \in [1 .. n -> Seq(Pieces)] /\ sizes \in [1 .. n -> Nat]
    BY <1>2, <1>3
  <1>6. seqs \in Seq(Seq(Pieces)) /\ Len(seqs) = n /\ sizes \in Seq(Nat) /\ Len(sizes) = n
    BY <1>1, <1>5, IsASeq
  <1>7. \A k \in 1 .. Len(seqs) : sizes[k] = Size(seqs[k])
    BY <1>2, <1>6
  <1> QED
    BY <1>4, <1>6, <1>7, SizeOfFlat

\* s is the k elements of q and behind them the m elements of g.
Behind(s, q, g, k, m) ==
  /\ Len(s) = k + m
  /\ \A i \in 1 .. k : s[i] = q[i]
  /\ \A i \in 1 .. m : s[k + i] = g[i]

LEMMA ConcatParts ==
  ASSUME NEW T, NEW q \in Seq(T), NEW g \in Seq(T),
         NEW k \in Nat, Len(q) = k, NEW m \in Nat, Len(g) = m
  PROVE  q \o g \in Seq(T) /\ Behind(q \o g, q, g, k, m)
  <1> DEFINE c == q \o g
  <1>1. /\ c \in Seq(T) /\ Len(c) = k + m
        /\ \A i \in 1 .. k + m : c[i] = IF i <= k THEN q[i] ELSE g[i - k]
    BY ConcatProperties
  <1> HIDE DEF c
  <1>2. ASSUME NEW i \in 1 .. m  PROVE c[k + i] = g[i]
    <2>1. k + i \in 1 .. k + m /\ ~(k + i <= k) /\ (k + i) - k = i
      OBVIOUS
    <2> QED
      BY <1>1, <2>1
  <1>3. ASSUME NEW i \in 1 .. k  PROVE c[i] = q[i]
    <2>1. i \in 1 .. k + m /\ i <= k
      OBVIOUS
    <2> QED
      BY <1>1, <2>1
  <1> QED
    BY <1>1, <1>2, <1>3 DEF c, Behind

\* The parts of a result set, whether they are packets or their lengths.
Parts(s, a, f, b, g, c, n, m) ==
  /\ Len(s) = n + m + 3 /\ DOMAIN s = 1 .. n + m + 3
  /\ s[1] = a /\ s[n + 2] = b /\ s[n + m + 3] = c
  /\ \A i \in 1 .. n : s[i + 1] = f[i]
  /\ \A i \in 1 .. m : s[n + 2 + i] = g[i]

LEMMA PartsAre ==
  ASSUME NEW T, NEW a \in T, NEW f \in Seq(T), NEW b \in T, NEW g \in Seq(T), NEW c \in T,
         NEW n \in Nat, Len(f) = n, NEW m \in Nat, Len(g) = m
  PROVE  LET s == <<a>> \o f \o <<b>> \o g \o <<c>>
         IN  s \in Seq(T) /\ Parts(s, a, f, b, g, c, n, m)
  <1> DEFINE p == <<a>> \o f
             q == p \o <<b>>
             r == q \o g
             one == <<c>>
             s == r \o one
  <1>1. /\ p \in Seq(T) /\ Len(p) = n + 1 /\ p[1] = a
        /\ \A i \in 1 .. n : p[i + 1] = f[i]
    OBVIOUS
  <1>2. one \in Seq(T) /\ Len(one) = 1 /\ one[1] = c
    OBVIOUS
  <1> HIDE DEF p, one
  <1>3. /\ q \in Seq(T) /\ Len(q) = n + 2 /\ q[n + 2] = b
        /\ \A i \in 1 .. n + 1 : q[i] = p[i]
    BY <1>1
  <1> HIDE DEF q
  <1>4. PICK k \in Nat, l \in Nat, w \in Nat : k = n + 2 /\ l = n + m + 2 /\ w = 1
    OBVIOUS
  <1>5. /\ r \in Seq(T) /\ Len(r) = k + m
        /\ \A i \in 1 .. k : r[i] = q[i]
        /\ \A i \in 1 .. m : r[k + i] = g[i]
    <2>1. q \in Seq(T) /\ Len(q) = k
      BY <1>3, <1>4
    <2>2. r \in Seq(T) /\ Behind(r, q, g, k, m)
      BY <2>1, ConcatParts
    <2> QED
      BY <2>2 DEF Behind
  <1> HIDE DEF r
  <1>6. /\ s \in Seq(T) /\ Len(s) = l + w
        /\ \A i \in 1 .. l : s[i] = r[i]
        /\ \A i \in 1 .. w : s[l + i] = one[i]
    <2>1. r \in Seq(T) /\ Len(r) = l /\ one \in Seq(T) /\ Len(one) = w
      BY <1>2, <1>4, <1>5
    <2>2. s \in Seq(T) /\ Behind(s, r, one, l, w)
      BY <2>1, ConcatParts
    <2> QED
      BY <2>2 DEF Behind
  <1> HIDE DEF s
  <1>7. s[1] = a /\ s[n + 2] = b
    <2>1. 1 \in 1 .. l /\ 1 \in 1 .. k /\ 1 \in 1 .. n + 1
      BY <1>4
    <2>2. n + 2 \in 1 .. l /\ n + 2 \in 1 .. k
      BY <1>4
    <2> QED
      BY <1>1, <1>3, <1>5, <1>6, <2>1, <2>2
  <1>8. ASSUME NEW i \in 1 .. n  PROVE s[i + 1] = f[i]
    <2>1. i + 1 \in 1 .. l /\ i + 1 \in 1 .. k /\ i + 1 \in 1 .. n + 1
      BY <1>4
    <2> QED
      BY <1>1, <1>3, <1>5, <1>6, <2>1
  <1>9. ASSUME NEW i \in 1 .. m  PROVE s[n + 2 + i] = g[i]
    <2>1. n + 2 + i \in 1 .. l /\ n + 2 + i = k + i
      BY <1>4
    <2> QED
      BY <1>5, <1>6, <2>1
  <1>10. s[n + m + 3] = c
    <2>1. n + m + 3 = l + 1 /\ 1 \in 1 .. w
      BY <1>4
    <2> QED
      BY <1>2, <1>6, <2>1
  <1>11. Len(s) = n + m + 3 /\ DOMAIN s = 1 .. n + m + 3
    BY <1>4, <1>6
  <1>12. s \in Seq(T) /\ Parts(s, a, f, b, g, c, n, m)
    BY <1>6, <1>7, <1>8, <1>9, <1>10, <1>11 DEF Parts
  <1> QED
    BY <1>12 DEF s, r, q, p, one

\* The packets of a result set and their lengths, by position.
LEMMA RowPayloadsAre ==
  ASSUME NEW r \in RowReplies
  PROVE  LET n == Len(r.columns)
             m == Len(r.rows)
             payloads == Payloads(r)
             lengths == PayloadLengths(r)
         IN  /\ n \in Nat /\ m \in Nat
             /\ payloads \in Seq(Seq(Pieces)) /\ lengths \in Seq(Nat)
             /\ Len(payloads) = n + m + 3 /\ DOMAIN payloads = 1 .. n + m + 3
             /\ payloads[1] = WriteLenencInt(n) /\ lengths[1] = Size(WriteLenencInt(n))
             /\ \A i \in 1 .. n : /\ payloads[i + 1] = ColumnPayload(r.columns[i])
                                  /\ lengths[i + 1] = ColumnLengthDeclared(r.columns[i])
             /\ payloads[n + 2] = EofPayload /\ lengths[n + 2] = EofLength
             /\ \A i \in 1 .. m : /\ payloads[n + 2 + i] = RowPayload(r.rows[i])
                                  /\ lengths[n + 2 + i] = RowLength(r.rows[i])
             /\ payloads[n + m + 3] = EofPayload /\ lengths[n + m + 3] = EofLength
  <1> DEFINE n == Len(r.columns)
             m == Len(r.rows)
             f == [i \in DOMAIN r.columns |-> ColumnPayload(r.columns[i])]
             g == [i \in DOMAIN r.rows |-> RowPayload(r.rows[i])]
             fl == [i \in DOMAIN r.columns |-> ColumnLengthDeclared(r.columns[i])]
             gl == [i \in DOMAIN r.rows |-> RowLength(r.rows[i])]
             a == WriteLenencInt(n)
             al == Size(WriteLenencInt(n))
             p == Payloads(r)
             l == PayloadLengths(r)
  <1>1. /\ r.kind = "rows" /\ r.columns \in Seq(ColumnRecords)
        /\ r.rows \in Seq(Seq(Strings \cup {NullValue}))
    BY DEF RowReplies
  <1>2. /\ n \in Nat /\ DOMAIN r.columns = 1 .. n /\ \A i \in 1 .. n : r.columns[i] \in ColumnRecords
        /\ m \in Nat /\ DOMAIN r.rows = 1 .. m
        /\ \A i \in 1 .. m : r.rows[i] \in Seq(Strings \cup {NullValue})
    BY <1>1
  <1>3. ASSUME NEW i \in 1 .. n
        PROVE  /\ f[i] \in Seq(Pieces) /\ f[i] = ColumnPayload(r.columns[i])
               /\ fl[i] \in Nat /\ fl[i] = ColumnLengthDeclared(r.columns[i])
    <2>1. f[i] = ColumnPayload(r.columns[i]) /\ fl[i] = ColumnLengthDeclared(r.columns[i])
      BY <1>2
    <2>2. r.columns[i] \in ColumnRecords
      BY <1>2
    <2> HIDE DEF f, fl
    <2>3. Size(ColumnNames(r.columns[i])) \in Nat
      BY <2>2, ColumnNamesAre, SizeType
    <2> QED
      BY <2>1, <2>2, <2>3, ColumnSize DEF ColumnLengthDeclared
  <1>4. ASSUME NEW i \in 1 .. m
        PROVE  /\ g[i] \in Seq(Pieces) /\ g[i] = RowPayload(r.rows[i])
               /\ gl[i] \in Nat /\ gl[i] = RowLength(r.rows[i])
    <2>1. g[i] = RowPayload(r.rows[i]) /\ gl[i] = RowLength(r.rows[i])
      BY <1>2
    <2>2. r.rows[i] \in Seq(Strings \cup {NullValue})
      BY <1>2
    <2> HIDE DEF g, gl
    <2> QED
      BY <2>1, <2>2, RowSize, SizeType
  <1>5. /\ f = [i \in 1 .. n |-> f[i]] /\ fl = [i \in 1 .. n |-> fl[i]]
        /\ g = [i \in 1 .. m |-> g[i]] /\ gl = [i \in 1 .. m |-> gl[i]]
    BY <1>2
  <1>6. /\ p = <<a>> \o f \o <<EofPayload>> \o g \o <<EofPayload>>
        /\ l = <<al>> \o fl \o <<EofLength>> \o gl \o <<EofLength>>
    BY <1>1 DEF Payloads, PayloadLengths
  <1> HIDE DEF f, g, fl, gl, p, l
  <1>7. /\ f \in [1 .. n -> Seq(Pieces)] /\ fl \in [1 .. n -> Nat]
        /\ g \in [1 .. m -> Seq(Pieces)] /\ gl \in [1 .. m -> Nat]
    BY <1>3, <1>4, <1>5
  <1> HIDE DEF n, m
  <1> DEFINE T == Seq(Pieces)
  <1> HIDE DEF T
  <1>8. /\ f \in Seq(T) /\ Len(f) = n /\ fl \in Seq(Nat) /\ Len(fl) = n
        /\ g \in Seq(T) /\ Len(g) = m /\ gl \in Seq(Nat) /\ Len(gl) = m
    <2>1. /\ f \in [1 .. n -> T] /\ fl \in [1 .. n -> Nat] /\ n \in Nat
          /\ g \in [1 .. m -> T] /\ gl \in [1 .. m -> Nat] /\ m \in Nat
      BY <1>2, <1>7 DEF T
    <2>2. f \in Seq(T) /\ Len(f) = n
      BY <2>1, IsASeq
    <2>3. fl \in Seq(Nat) /\ Len(fl) = n
      BY <2>1, IsASeq
    <2>4. g \in Seq(T) /\ Len(g) = m
      BY <2>1, IsASeq
    <2>5. gl \in Seq(Nat) /\ Len(gl) = m
      BY <2>1, IsASeq
    <2> QED
      BY <2>2, <2>3, <2>4, <2>5
  <1>9. a \in T /\ al \in Nat /\ EofPayload \in T /\ EofLength \in Nat
    BY <1>2, LenencIntBytes, EofSize, SizeType DEF T
  <1>n. n \in Nat /\ m \in Nat
    BY <1>2
  <1> HIDE DEF a, al
  <1>10. p \in Seq(T) /\ Parts(p, a, f, EofPayload, g, EofPayload, n, m)
    BY <1>6, <1>8, <1>9, <1>n, PartsAre
  <1>11. l \in Seq(Nat) /\ Parts(l, al, fl, EofLength, gl, EofLength, n, m)
    BY <1>6, <1>8, <1>9, <1>n, PartsAre
  <1>12. /\ p \in Seq(T) /\ Len(p) = n + m + 3 /\ DOMAIN p = 1 .. n + m + 3
         /\ p[1] = a /\ p[n + 2] = EofPayload /\ p[n + m + 3] = EofPayload
         /\ \A i \in 1 .. n : p[i + 1] = f[i]
         /\ \A i \in 1 .. m : p[n + 2 + i] = g[i]
    BY <1>10 DEF Parts
  <1>13. /\ l \in Seq(Nat)
         /\ l[1] = al /\ l[n + 2] = EofLength /\ l[n + m + 3] = EofLength
         /\ \A i \in 1 .. n : l[i + 1] = fl[i]
         /\ \A i \in 1 .. m : l[n + 2 + i] = gl[i]
    BY <1>11 DEF Parts
  <1> QED
    BY <1>2, <1>3, <1>4, <1>12, <1>13 DEF p, l, a, al, n, m, T

Replies == OkReplies \cup ErrReplies \cup RowReplies

LEMMA LengthsDeclared ==
  ASSUME NEW r \in Replies, NEW k \in DOMAIN Payloads(r)
  PROVE  PayloadLengths(r)[k] = Size(Payloads(r)[k]) <=> ~LongNamed(r, k)
  <1>1. CASE r \in OkReplies
    <2>1. r.kind = "ok"
      BY <1>1 DEF OkReplies
    <2>2. Payloads(r) = <<OkPayload(r)>> /\ PayloadLengths(r) = <<OkLength(r)>> /\ k = 1
      BY <2>1 DEF Payloads, PayloadLengths
    <2>3. OkLength(r) = Size(OkPayload(r))
      BY <1>1, OkSize
    <2> QED
      BY <2>1, <2>2, <2>3 DEF LongNamed
  <1>2. CASE r \in ErrReplies
    <2>1. r.kind = "err"
      BY <1>2 DEF ErrReplies
    <2>2. Payloads(r) = <<ErrPayload(r)>> /\ PayloadLengths(r) = <<ErrLength(r)>> /\ k = 1
      BY <2>1 DEF Payloads, PayloadLengths
    <2>3. ErrLength(r) = Size(ErrPayload(r))
      BY <1>2, ErrSize
    <2> QED
      BY <2>1, <2>2, <2>3 DEF LongNamed
  <1>3. CASE r \in RowReplies
    <2> DEFINE n == Len(r.columns)
               m == Len(r.rows)
               p == Payloads(r)
               l == PayloadLengths(r)
    <2>1. /\ n \in Nat /\ m \in Nat /\ DOMAIN p = 1 .. n + m + 3
          /\ p[1] = WriteLenencInt(n) /\ l[1] = Size(WriteLenencInt(n))
          /\ p[n + 2] = EofPayload /\ l[n + 2] = EofLength
          /\ p[n + m + 3] = EofPayload /\ l[n + m + 3] = EofLength
      BY <1>3, RowPayloadsAre
    <2>2. /\ \A i \in 1 .. n : /\ p[i + 1] = ColumnPayload(r.columns[i])
                               /\ l[i + 1] = ColumnLengthDeclared(r.columns[i])
          /\ \A i \in 1 .. m : /\ p[n + 2 + i] = RowPayload(r.rows[i])
                               /\ l[n + 2 + i] = RowLength(r.rows[i])
      BY <1>3, RowPayloadsAre
    <2>3. /\ r.kind = "rows" /\ DOMAIN r.columns = 1 .. n
          /\ \A i \in 1 .. n : r.columns[i] \in ColumnRecords
          /\ \A i \in 1 .. m : r.rows[i] \in Seq(Strings \cup {NullValue})
      BY <1>3 DEF RowReplies
    <2>4. k \in 1 .. n + m + 3
      BY <2>1
    <2> HIDE DEF n, m, p, l
    <2>5. CASE k = 1
      BY <2>1, <2>3, <2>5 DEF LongNamed, p, l
    <2>6. CASE k \in 2 .. n + 1
      <3> DEFINE c == r.columns[k - 1]
                 names == ColumnNames(c)
      <3>1. k - 1 \in 1 .. n /\ (k - 1) + 1 = k
        BY <2>1, <2>6
      <3>2. p[k] = ColumnPayload(c) /\ l[k] = ColumnLengthDeclared(c) /\ c \in ColumnRecords
        BY <2>2, <2>3, <3>1
      <3>3. /\ l[k] = Size(p[k]) <=> \A i \in 1 .. 6 : names[i].len < 251
            /\ DOMAIN names = 1 .. 6 /\ \A i \in 1 .. 6 : names[i].len \in Nat
        BY <3>2, ColumnSize, ColumnNamesAre DEF Pieces
      <3>4. LongNamed(r, k) <=> \E i \in 1 .. 6 : names[i].len >= 251
        <4>1. LongNamed(r, k) <=> \E name \in Range(names) : name.len >= 251
          BY <2>3, <3>1 DEF LongNamed
        <4> HIDE DEF names
        <4> QED
          BY <3>3, <4>1 DEF Range
      <3> HIDE DEF names
      <3> QED
        BY <3>3, <3>4 DEF p, l
    <2>7. CASE k = n + 2 \/ k = n + m + 3
      <3>1. k - 1 \notin 1 .. n
        BY <2>1, <2>7
      <3>2. l[k] = Size(p[k])
        BY <2>1, <2>7, EofSize
      <3> QED
        BY <2>3, <3>1, <3>2 DEF LongNamed, p, l
    <2>8. CASE k \in n + 3 .. n + m + 2
      <3>1. /\ k - 1 \notin 1 .. n
            /\ k - (n + 2) \in 1 .. m /\ n + 2 + (k - (n + 2)) = k
        BY <2>1, <2>8
      <3>2. l[k] = Size(p[k])
        BY <2>2, <2>3, <3>1, RowSize
      <3> QED
        BY <2>3, <3>1, <3>2 DEF LongNamed, p, l
    <2> QED
      BY <2>1, <2>4, <2>5, <2>6, <2>7, <2>8
  <1> QED
    BY <1>1, <1>2, <1>3 DEF Replies

-----------------------------------------------------------------------------
(* What a client reads is what was written: numbers *)

\* As far as s goes, w is in it at i.
Written(s, i, w) == \A j \in 1 .. Len(w) : i + j - 1 <= Len(s) => s[i + j - 1] = w[j]

LEMMA FirstSums ==
  ASSUME NEW ns \in Seq(Nat)
  PROVE  /\ Len(ns) = 2 => Total(ns) = ns[1] + ns[2]
         /\ Len(ns) = 3 => Total(ns) = ns[1] + ns[2] + ns[3]
         /\ Len(ns) = 4 => Total(ns) = ns[1] + ns[2] + ns[3] + ns[4]
  <1> DEFINE g == Sums(ns)
             n == Len(ns)
  <1>1. /\ g[0] = 0 /\ n \in Nat
        /\ \A k \in 1 .. n : g[k] = g[k - 1] + ns[k]
        /\ Total(ns) = g[n]
    BY SumsAre DEF Total
  <1>2. \A k \in 1 .. n : ns[k] \in Nat
    BY ElementOfSeq
  <1> HIDE DEF g, n
  <1>3. ASSUME n \in 2 .. 4  PROVE g[1] = ns[1] /\ g[2] = ns[1] + ns[2] /\ ns[1] \in Nat /\ ns[2] \in Nat
    <2>1. 1 \in 1 .. n /\ 2 \in 1 .. n
      BY <1>3
    <2>2. g[1] = g[1 - 1] + ns[1] /\ g[2] = g[2 - 1] + ns[2]
      BY <1>1, <2>1
    <2>3. 1 - 1 = 0 /\ 2 - 1 = 1
      OBVIOUS
    <2> QED
      BY <1>1, <1>2, <2>1, <2>2, <2>3
  <1>4. ASSUME n \in 3 .. 4  PROVE g[3] = g[2] + ns[3] /\ ns[3] \in Nat
    <2>1. 3 \in 1 .. n /\ 3 - 1 = 2
      BY <1>4
    <2> QED
      BY <1>1, <1>2, <2>1
  <1>5. ASSUME n = 4  PROVE g[4] = g[3] + ns[4] /\ ns[4] \in Nat
    <2>1. 4 \in 1 .. n /\ 4 - 1 = 3
      BY <1>5
    <2> QED
      BY <1>1, <1>2, <2>1
  <1>6. n = 2 => Total(ns) = ns[1] + ns[2]
    BY <1>1, <1>3
  <1>7. n = 3 => Total(ns) = ns[1] + ns[2] + ns[3]
    BY <1>1, <1>3, <1>4
  <1>8. n = 4 => Total(ns) = ns[1] + ns[2] + ns[3] + ns[4]
    BY <1>1, <1>3, <1>4, <1>5
  <1> QED
    BY <1>6, <1>7, <1>8 DEF n

LEMMA Digits ==
  ASSUME NEW n \in Nat
  PROVE  /\ n < 65536 => (n % 256) + ((n \div 256) % 256) * 256 = n
         /\ n < 16777216 => (n % 256) + ((n \div 256) % 256) * 256 + ((n \div 65536) % 256) * 65536 = n
         /\ n < 4294967296 =>
              (n % 256) + ((n \div 256) % 256) * 256 + ((n \div 65536) % 256) * 65536
                + ((n \div 16777216) % 256) * 16777216 = n
  BY SMT

\* The bytes of a number, what they count for, and a number that a width is enough for.
Digit(n, k) == (n \div 256 ^ (k - 1)) % 256
Weight(k) == 256 ^ (k - 1)
HasWidth(n, width) ==
  /\ width = 2 => n < 65536
  /\ width = 3 => n < 16777216
  /\ width = 4 => n < 4294967296

LEMMA WeightsAre ==
  Weight(1) = 1 /\ Weight(2) = 256 /\ Weight(3) = 65536 /\ Weight(4) = 16777216
  <1>1. 1 - 1 = 0 /\ 2 - 1 = 1 /\ 3 - 1 = 2 /\ 4 - 1 = 3
    BY SMT
  <1>2. Weight(1) = 256 ^ 0 /\ Weight(2) = 256 ^ 1 /\ Weight(3) = 256 ^ 2 /\ Weight(4) = 256 ^ 3
    BY <1>1, Zenon DEF Weight
  <1>3. 256 ^ 0 = 1 /\ 256 ^ 1 = 256 /\ 256 ^ 2 = 65536 /\ 256 ^ 3 = 16777216
    BY SMT
  <1> QED
    BY <1>2, <1>3, SMT

LEMMA WeightsAreNat == \A k \in 1 .. 4 : Weight(k) \in Nat
  BY WeightsAre, SMT

LEMMA DigitsAreBytes ==
  ASSUME NEW n \in Nat, NEW k \in 1 .. 4
  PROVE  Digit(n, k) \in 0 .. 255
  BY Powers, SMT DEF Digit

LEMMA DigitsAddUp ==
  ASSUME NEW n \in Nat
  PROVE  /\ HasWidth(n, 2) => Digit(n, 1) * Weight(1) + Digit(n, 2) * Weight(2) = n
         /\ HasWidth(n, 3) => Digit(n, 1) * Weight(1) + Digit(n, 2) * Weight(2)
                                + Digit(n, 3) * Weight(3) = n
         /\ HasWidth(n, 4) => Digit(n, 1) * Weight(1) + Digit(n, 2) * Weight(2)
                                + Digit(n, 3) * Weight(3) + Digit(n, 4) * Weight(4) = n
  <1>1. \A k : Digit(n, k) = (n \div Weight(k)) % 256
    BY Zenon DEF Digit, Weight
  <1>2. /\ Digit(n, 1) = (n \div Weight(1)) % 256 /\ Digit(n, 2) = (n \div Weight(2)) % 256
        /\ Digit(n, 3) = (n \div Weight(3)) % 256 /\ Digit(n, 4) = (n \div Weight(4)) % 256
    BY <1>1, ZenonT(40)
  <1>3. /\ Digit(n, 1) * Weight(1) = n % 256
        /\ Digit(n, 2) * Weight(2) = ((n \div 256) % 256) * 256
        /\ Digit(n, 3) * Weight(3) = ((n \div 65536) % 256) * 65536
        /\ Digit(n, 4) * Weight(4) = ((n \div 16777216) % 256) * 16777216
    BY <1>2, WeightsAre, SMT
  <1> QED
    BY <1>3, Digits, SMT DEF HasWidth

\* A number of width bytes, which are all there.
LEMMA UintRead ==
  ASSUME NEW width \in 2 .. 4, NEW n \in Nat, HasWidth(n, width), NEW s \in Seq(Pieces),
         NEW i \in Nat \ {0}, \A k \in 1 .. width : s[i + k - 1] = Byte(Digit(n, k))
  PROVE  ReadUint(s, i, width) = n
  <1> DEFINE ns == [k \in 1 .. width |-> s[i + k - 1].id * Weight(k)]
  <1>1. ASSUME NEW k \in 1 .. width
        PROVE  ns[k] = Digit(n, k) * Weight(k) /\ ns[k] \in Nat
    <2>1. k \in 1 .. 4
      OBVIOUS
    <2>2. Digit(n, k) \in 0 .. 255 /\ Weight(k) \in Nat
      BY <2>1, DigitsAreBytes, WeightsAreNat
    <2>3. s[i + k - 1].id = Digit(n, k)
      BY <2>2, BytesArePieces
    <2>4. ns[k] = Digit(n, k) * Weight(k)
      BY <2>3
    <2> HIDE DEF ns
    <2>5. \A a \in Nat, b \in Nat : a * b \in Nat
      OBVIOUS
    <2>6. Digit(n, k) \in Nat
      <3>1. 0 .. 255 \subseteq Nat
        OBVIOUS
      <3> QED
        BY <2>2, <3>1, Zenon
    <2>7. Digit(n, k) * Weight(k) \in Nat
      BY <2>2, <2>5, <2>6, Zenon
    <2> QED
      BY <2>4, <2>7, Zenon
  <1>2. ns \in Seq(Nat) /\ Len(ns) = width
    <2>1. ns = [k \in 1 .. width |-> ns[k]]
      OBVIOUS
    <2> HIDE DEF ns
    <2>2. ns \in [1 .. width -> Nat]
      BY <1>1, <2>1
    <2> QED
      BY <2>2, IsASeq
  <1>3. ReadUint(s, i, width) = Total(ns)
    BY Zenon DEF ReadUint, Weight
  <1> HIDE DEF ns
  <1>4. /\ ns[1] = Digit(n, 1) * Weight(1) /\ ns[2] = Digit(n, 2) * Weight(2)
        /\ width >= 3 => ns[3] = Digit(n, 3) * Weight(3)
        /\ width = 4 => ns[4] = Digit(n, 4) * Weight(4)
    <2>1. ns[1] = Digit(n, 1) * Weight(1) /\ ns[2] = Digit(n, 2) * Weight(2)
      <3>1. 1 \in 1 .. width /\ 2 \in 1 .. width
        OBVIOUS
      <3> QED
        BY <1>1, <3>1
    <2>2. ASSUME width >= 3  PROVE ns[3] = Digit(n, 3) * Weight(3)
      <3>1. 3 \in 1 .. width
        BY <2>2
      <3> QED
        BY <1>1, <3>1
    <2>3. ASSUME width = 4  PROVE ns[4] = Digit(n, 4) * Weight(4)
      <3>1. 4 \in 1 .. width
        BY <2>3
      <3> QED
        BY <1>1, <3>1
    <2> QED
      BY <2>1, <2>2, <2>3
  <1>5. CASE width = 2
    <2>1. Total(ns) = ns[1] + ns[2]
      BY <1>2, <1>5, FirstSums
    <2>2. Digit(n, 1) * Weight(1) + Digit(n, 2) * Weight(2) = n
      BY <1>5, DigitsAddUp
    <2> QED
      BY <1>3, <1>4, <2>1, <2>2
  <1>6. CASE width = 3
    <2>1. Total(ns) = ns[1] + ns[2] + ns[3] /\ width >= 3
      BY <1>2, <1>6, FirstSums
    <2>2. Digit(n, 1) * Weight(1) + Digit(n, 2) * Weight(2) + Digit(n, 3) * Weight(3) = n
      BY <1>6, DigitsAddUp
    <2> QED
      BY <1>3, <1>4, <2>1, <2>2
  <1>7. CASE width = 4
    <2>1. Total(ns) = ns[1] + ns[2] + ns[3] + ns[4] /\ width >= 3
      BY <1>2, <1>7, FirstSums
    <2>2. Digit(n, 1) * Weight(1) + Digit(n, 2) * Weight(2) + Digit(n, 3) * Weight(3)
            + Digit(n, 4) * Weight(4) = n
      BY <1>7, DigitsAddUp
    <2> QED
      BY <1>3, <1>4, <1>7, <2>1, <2>2
  <1> QED
    BY <1>5, <1>6, <1>7

LEMMA UintIs ==
  ASSUME NEW n \in Nat, NEW width \in 2 .. 4
  PROVE  /\ WriteUint(n, width) \in Seq(Pieces) /\ Len(WriteUint(n, width)) = width
         /\ \A k \in 1 .. width :
              WriteUint(n, width)[k] = Byte(Digit(n, k)) /\ IsByte(Byte(Digit(n, k)))
  <1>2. ASSUME NEW k \in 1 .. width  PROVE IsByte(Byte(Digit(n, k)))
    <2>1. k \in 1 .. 4
      OBVIOUS
    <2>2. Digit(n, k) \in 0 .. 255
      BY <2>1, DigitsAreBytes
    <2> QED
      BY <2>2, BytesArePieces
  <1>3. \A k \in 1 .. width : WriteUint(n, width)[k] = Byte(Digit(n, k))
    BY Zenon DEF WriteUint, Digit
  <1> QED
    BY <1>2, <1>3, UintBytes, ZenonT(60)

\* The same where WriteUint's bytes are at i.
LEMMA NumberRead ==
  ASSUME NEW width \in 2 .. 4, NEW n \in Nat, HasWidth(n, width), NEW s \in Seq(Pieces),
         NEW i \in Nat \ {0}, i + width - 1 <= Len(s), Written(s, i, WriteUint(n, width))
  PROVE  ReadUint(s, i, width) = n /\ AreBytes(s, i, width)
  <1> DEFINE w == WriteUint(n, width)
  <1>1. /\ Len(w) = width
        /\ \A k \in 1 .. width : w[k] = Byte(Digit(n, k)) /\ IsByte(w[k])
    BY UintIs
  <1>2. \A k \in 1 .. width : s[i + k - 1] = w[k]
    <2> HIDE DEF w
    <2>1. Len(s) \in Nat
      OBVIOUS
    <2>2. \A k \in 1 .. width : i + k - 1 <= Len(s)
      BY <2>1
    <2> QED
      BY <1>1, <2>2 DEF Written, w
  <1> HIDE DEF w
  <1>3. \A m \in i .. i + width - 1 : IsByte(s[m])
    <2> TAKE m \in i .. i + width - 1
    <2>1. m - i + 1 \in 1 .. width /\ i + (m - i + 1) - 1 = m
      OBVIOUS
    <2> QED
      BY <1>1, <1>2, <2>1
  <1>4. \A k \in 1 .. width : s[i + k - 1] = Byte(Digit(n, k))
    BY <1>1, <1>2
  <1>5. ReadUint(s, i, width) = n
    BY <1>4, UintRead
  <1> QED
    BY <1>3, <1>5 DEF AreBytes

-----------------------------------------------------------------------------
(* Length-encoded integers *)

LEMMA WrittenConcat ==
  ASSUME NEW s \in Seq(Pieces), NEW i \in Nat \ {0}, NEW a \in Seq(Pieces), NEW b \in Seq(Pieces),
         Written(s, i, a \o b)
  PROVE  Written(s, i, a) /\ Written(s, i + Len(a), b)
  <1> DEFINE k == Len(a)
             m == Len(b)
             w == a \o b
  <1>1. k \in Nat /\ m \in Nat
    OBVIOUS
  <1>2. Behind(w, a, b, k, m)
    BY <1>1, ConcatParts
  <1> HIDE DEF w
  <1>3. Len(w) = k + m /\ (\A j \in 1 .. k : w[j] = a[j]) /\ (\A j \in 1 .. m : w[k + j] = b[j])
    BY <1>2 DEF Behind
  <1>4. \A j \in 1 .. Len(w) : i + j - 1 <= Len(s) => s[i + j - 1] = w[j]
    BY DEF Written, w
  <1>5. Written(s, i, a)
    <2>1. \A j \in 1 .. k : j \in 1 .. Len(w)
      BY <1>1, <1>3
    <2> QED
      BY <1>3, <1>4, <2>1 DEF Written
  <1>6. Written(s, i + k, b)
    <2>1. \A j \in 1 .. m : k + j \in 1 .. Len(w) /\ i + (k + j) - 1 = i + k + j - 1
      BY <1>1, <1>3
    <2> QED
      BY <1>3, <1>4, <2>1 DEF Written
  <1> QED
    BY <1>5, <1>6

\* Bytes of which all are there.
LEMMA WrittenBytes ==
  ASSUME NEW s \in Seq(Pieces), NEW i \in Nat \ {0}, NEW w \in Seq(Pieces), Written(s, i, w),
         \A j \in 1 .. Len(w) : IsByte(w[j])
  PROVE  AreBytes(s, i, Len(w)) <=> i + Len(w) - 1 <= Len(s)
  <1> DEFINE m == Len(w)
  <1>1. m \in Nat /\ Len(s) \in Nat
    OBVIOUS
  <1>2. ASSUME i + m - 1 <= Len(s), NEW k \in i .. i + m - 1  PROVE IsByte(s[k])
    <2>1. k - i + 1 \in 1 .. m /\ i + (k - i + 1) - 1 = k
      BY <1>1
    <2>2. k <= Len(s)
      BY <1>1, <1>2
    <2> HIDE DEF m
    <2>3. s[k] = w[k - i + 1]
      BY <2>1, <2>2 DEF Written, m
    <2> QED
      BY <2>1, <2>3 DEF m
  <1> QED
    BY <1>2 DEF AreBytes

\* The bytes behind the first, and how many of them count.
Width(b) == CASE b = 252 -> 2 [] b = 253 -> 3 [] b = 254 -> 8 [] OTHER -> 0
Counting(b) == IF Width(b) = 8 THEN 4 ELSE Width(b)
LenencOf(n, w, b) ==
  /\ w \in Seq(Pieces) /\ Len(w) = 1 + Width(b)
  /\ \A j \in 1 .. Len(w) : IsByte(w[j])
  /\ b \in 0 .. 254 /\ b # 251 /\ w[1] = Byte(b)
  /\ Width(b) = 0 => b = n
  /\ Width(b) # 0 => /\ HasWidth(n, Counting(b)) /\ Counting(b) \in 2 .. 4
                     /\ \A k \in 1 .. Counting(b) : w[k + 1] = Byte(Digit(n, k))

LEMMA ByteThenUint ==
  ASSUME NEW n \in Nat, NEW width \in 2 .. 4, NEW b \in 0 .. 255
  PROVE  LET w == <<Byte(b)>> \o WriteUint(n, width)
         IN  /\ w \in Seq(Pieces) /\ Len(w) = 1 + width /\ w[1] = Byte(b)
             /\ \A j \in 1 .. 1 + width : IsByte(w[j])
             /\ \A k \in 1 .. width : w[k + 1] = Byte(Digit(n, k))
  <1> DEFINE u == WriteUint(n, width)
             w == <<Byte(b)>> \o u
  <1>1. /\ u \in Seq(Pieces) /\ Len(u) = width
        /\ \A k \in 1 .. width : u[k] = Byte(Digit(n, k)) /\ IsByte(Byte(Digit(n, k)))
    BY UintIs
  <1> HIDE DEF u
  <1>2. /\ w \in Seq(Pieces) /\ Len(w) = 1 + Len(u) /\ w[1] = Byte(b)
        /\ \A k \in 1 .. Len(u) : w[k + 1] = u[k]
    BY <1>1, ByteAndRest
  <1> HIDE DEF w
  <1>3. ASSUME NEW j \in 1 .. 1 + width  PROVE IsByte(w[j])
    <2>1. CASE j = 1
      BY <1>2, <2>1, BytesArePieces
    <2>2. CASE j # 1
      <3>1. j - 1 \in 1 .. width /\ j - 1 + 1 = j
        BY <2>2
      <3> QED
        BY <1>1, <1>2, <3>1
    <2> QED
      BY <2>1, <2>2
  <1>4. \A k \in 1 .. width : w[k + 1] = Byte(Digit(n, k))
    BY <1>1, <1>2
  <1> QED
    BY <1>1, <1>2, <1>3, <1>4 DEF w, u

LEMMA LenencIntIs ==
  ASSUME NEW n \in Nat, HasWidth(n, 4)
  PROVE  \E b : LenencOf(n, WriteLenencInt(n), b)
  <1> DEFINE w == WriteLenencInt(n)
  <1>1. CASE n < 251
    <2>1. Width(n) = 0 /\ n \in 0 .. 255 /\ n \in 0 .. 254 /\ n # 251
      BY <1>1, SMT DEF Width
    <2>2. Byte(n) \in Pieces /\ IsByte(Byte(n))
      BY <2>1, BytesArePieces
    <2>3. w = <<Byte(n)>>
      BY <1>1, SMT DEF WriteLenencInt
    <2> HIDE DEF w
    <2>4. w \in Seq(Pieces) /\ Len(w) = 1 /\ w[1] = Byte(n)
      BY <2>2, <2>3
    <2>5. LenencOf(n, w, n)
      BY <2>1, <2>2, <2>4 DEF LenencOf
    <2> QED
      BY <2>5 DEF w
  <1>2. CASE n >= 251 /\ n < 65536
    <2>1. w = <<Byte(252)>> \o WriteUint(n, 2) /\ HasWidth(n, 2) /\ Width(252) = 2 /\ Counting(252) = 2
      BY <1>2, SMT DEF WriteLenencInt, HasWidth, Width, Counting
    <2> HIDE DEF w
    <2>2. PICK b \in 0 .. 255, width \in 2 .. 4 : b = 252 /\ width = 2
      OBVIOUS
    <2>3. w = <<Byte(b)>> \o WriteUint(n, width)
      BY <2>1, <2>2, ZenonT(60)
    <2>4. /\ w \in Seq(Pieces) /\ Len(w) = 1 + width /\ w[1] = Byte(b)
          /\ \A j \in 1 .. 1 + width : IsByte(w[j])
          /\ \A k \in 1 .. width : w[k + 1] = Byte(Digit(n, k))
      BY <2>3, ByteThenUint, ZenonT(60)
    <2>5. Width(b) = width /\ Counting(b) = width /\ HasWidth(n, width) /\ b \in 0 .. 254 /\ b # 251 /\ width # 0
      BY <2>1, <2>2
    <2> QED
      BY <2>4, <2>5, ZenonT(40) DEF LenencOf, w
  <1>3. CASE n >= 65536 /\ n < 2 ^ 24
    <2>1. w = <<Byte(253)>> \o WriteUint(n, 3) /\ HasWidth(n, 3) /\ Width(253) = 3 /\ Counting(253) = 3
      BY <1>3, SMT DEF WriteLenencInt, HasWidth, Width, Counting
    <2> HIDE DEF w
    <2>2. PICK b \in 0 .. 255, width \in 2 .. 4 : b = 253 /\ width = 3
      OBVIOUS
    <2>3. w = <<Byte(b)>> \o WriteUint(n, width)
      BY <2>1, <2>2, Zenon
    <2>4. /\ w \in Seq(Pieces) /\ Len(w) = 1 + width /\ w[1] = Byte(b)
          /\ \A j \in 1 .. 1 + width : IsByte(w[j])
          /\ \A k \in 1 .. width : w[k + 1] = Byte(Digit(n, k))
      BY <2>3, ByteThenUint
    <2>5. Width(b) = width /\ Counting(b) = width /\ HasWidth(n, width) /\ b \in 0 .. 254 /\ b # 251 /\ width # 0
      BY <2>1, <2>2
    <2> QED
      BY <2>4, <2>5 DEF LenencOf, w
  <1>4. CASE ~(n < 2 ^ 24)
    <2> DEFINE v == <<Byte(254)>> \o WriteUint(n, 4)
               z == WriteUint(0, 4)
    <2>1. w = v \o z /\ Width(254) = 8 /\ Counting(254) = 4
      BY <1>4, SMT DEF WriteLenencInt, Width, Counting
    <2>2. PICK b \in 0 .. 255, width \in 2 .. 4 : b = 254 /\ width = 4
      OBVIOUS
    <2>3. v = <<Byte(b)>> \o WriteUint(n, width)
      BY <2>2, Zenon
    <2>4. z \in Seq(Pieces) /\ Len(z) = 4 /\ \A k \in 1 .. 4 : IsByte(z[k])
      <3>1. PICK zero \in Nat, four \in 2 .. 4 : zero = 0 /\ four = 4
        OBVIOUS
      <3>2. /\ WriteUint(zero, four) \in Seq(Pieces) /\ Len(WriteUint(zero, four)) = four
            /\ \A k \in 1 .. four : IsByte(WriteUint(zero, four)[k])
        BY UintIs
      <3> QED
        BY <3>1, <3>2
    <2> HIDE DEF w, v, z
    <2>5. /\ v \in Seq(Pieces) /\ Len(v) = 1 + width /\ v[1] = Byte(b)
          /\ \A j \in 1 .. 1 + width : IsByte(v[j])
          /\ \A k \in 1 .. width : v[k + 1] = Byte(Digit(n, k))
      BY <2>3, ByteThenUint
    <2>6. w \in Seq(Pieces) /\ Behind(w, v, z, 5, 4)
      <3>1. PICK five \in Nat, four \in Nat : five = 5 /\ four = 4
        OBVIOUS
      <3>2. Len(v) = five /\ Len(z) = four
        BY <2>2, <2>4, <2>5, <3>1
      <3>3. v \o z \in Seq(Pieces) /\ Behind(v \o z, v, z, five, four)
        BY <2>4, <2>5, <3>2, ConcatParts
      <3> QED
        BY <2>1, <3>1, <3>3
    <2>7. Len(w) = 9 /\ (\A j \in 1 .. 5 : w[j] = v[j]) /\ (\A j \in 1 .. 4 : w[5 + j] = z[j])
      BY <2>6 DEF Behind
    <2>8. ASSUME NEW j \in 1 .. 9  PROVE IsByte(w[j])
      <3>1. CASE j \in 1 .. 5
        BY <2>2, <2>5, <2>7, <3>1
      <3>2. CASE j \notin 1 .. 5
        <4>1. j - 5 \in 1 .. 4 /\ 5 + (j - 5) = j
          BY <3>2
        <4> QED
          BY <2>4, <2>7, <4>1
      <3> QED
        BY <3>1, <3>2
    <2>9. \A k \in 1 .. 4 : w[k + 1] = Byte(Digit(n, k))
      <3> TAKE k \in 1 .. 4
      <3>1. k + 1 \in 1 .. 5 /\ k \in 1 .. width
        BY <2>2
      <3> QED
        BY <2>5, <2>7, <3>1
    <2>10. 1 \in 1 .. 5 /\ w[1] = Byte(b)
      BY <2>5, <2>7
    <2>11. /\ Width(b) = 8 /\ Counting(b) = 4 /\ b \in 0 .. 254 /\ b # 251 /\ Len(w) = 1 + Width(b)
           /\ Counting(b) \in 2 .. 4 /\ Width(b) # 0
      BY <2>1, <2>2, <2>7
    <2>12. HasWidth(n, Counting(b)) /\ \A k \in 1 .. Counting(b) : w[k + 1] = Byte(Digit(n, k))
      BY <2>9, <2>11
    <2>13. \A j \in 1 .. Len(w) : IsByte(w[j])
      BY <2>7, <2>8
    <2>14. LenencOf(n, w, b)
      BY <2>6, <2>10, <2>11, <2>12, <2>13 DEF LenencOf
    <2> QED
      BY <2>14 DEF w
  <1> QED
    BY <1>1, <1>2, <1>3, <1>4, SMT

\* What readLenencInt() makes of it, and of one that is cut off.
LEMMA LenencIntRead ==
  ASSUME NEW n \in Nat, HasWidth(n, 4), NEW s \in Seq(Pieces), NEW i \in Nat \ {0},
         Written(s, i, WriteLenencInt(n))
  PROVE  LET next == i + Len(WriteLenencInt(n))
         IN  /\ next \in Nat /\ next > i
             /\ next - 1 <= Len(s) => LenencInt(s, i) = [v |-> n, next |-> next]
             /\ next - 1 > Len(s) => LenencInt(s, i).v = -1
             /\ i <= Len(s) => s[i].id # 251
  <1> DEFINE w == WriteLenencInt(n)
             first == s[i].id
  <1>1. PICK b : LenencOf(n, w, b)
    BY LenencIntIs
  <1> HIDE DEF w
  <1>2. Width(b) \in {0, 2, 3, 8} /\ Len(w) = 1 + Width(b) /\ w \in Seq(Pieces)
    BY <1>1 DEF LenencOf, Width
  <1>3. Written(s, i, w) /\ \A j \in 1 .. Len(w) : IsByte(w[j])
    BY <1>1 DEF LenencOf, w
  <1>4. AreBytes(s, i, 1 + Width(b)) <=> i + Width(b) <= Len(s)
    <2>1. AreBytes(s, i, Len(w)) <=> i + Len(w) - 1 <= Len(s)
      BY <1>2, <1>3, WrittenBytes
    <2> QED
      BY <1>2, <2>1
  <1>5. ASSUME i <= Len(s)  PROVE first = b /\ IsByte(s[i]) /\ AreBytes(s, i, 1)
    <2>1. s[i] = w[1]
      <3>1. 1 \in 1 .. Len(w) /\ i + 1 - 1 = i
        BY <1>2
      <3> QED
        BY <1>3, <1>5, <3>1 DEF Written
    <2>2. s[i] = Byte(b) /\ b \in 0 .. 255
      BY <1>1, <2>1 DEF LenencOf
    <2>3. first = b /\ IsByte(s[i])
      BY <2>2, BytesArePieces
    <2> QED
      BY <1>5, <2>3 DEF AreBytes
  <1>6. ASSUME i > Len(s)  PROVE ~AreBytes(s, i, 1)
    BY <1>6 DEF AreBytes
  <1>7. ASSUME i + Width(b) > Len(s)  PROVE LenencInt(s, i).v = -1
    <2>1. CASE i > Len(s)
      BY <1>6, <2>1 DEF LenencInt
    <2>2. CASE i <= Len(s)
      <3>1. ~AreBytes(s, i, 1 + Width(first))
        BY <1>4, <1>5, <1>7, <2>2, <1>2
      <3> QED
        BY <3>1 DEF LenencInt, Width
    <2> QED
      BY <2>1, <2>2
  <1>8. ASSUME i + Width(b) <= Len(s)
        PROVE  LenencInt(s, i) = [v |-> n, next |-> i + 1 + Width(b)]
    <2>1. i <= Len(s)
      BY <1>2, <1>8
    <2>2. first = b /\ AreBytes(s, i, 1) /\ AreBytes(s, i, 1 + Width(b)) /\ b \notin {251, 255}
      BY <1>1, <1>4, <1>5, <1>8, <2>1 DEF LenencOf
    <2>3. LenencInt(s, i) = [v |-> IF Width(b) = 0 THEN b ELSE ReadUint(s, i + 1, Counting(b)),
                             next |-> i + 1 + Width(b)]
      <3> DEFINE v == LenencInt(s, i)
      <3>1. ~(~AreBytes(s, i, 1) \/ first \in {251, 255} \/ ~AreBytes(s, i, 1 + Width(first)))
        BY <2>2
      <3>2. v = [v |-> IF Width(first) = 0 THEN first
                       ELSE ReadUint(s, i + 1, IF Width(first) = 8 THEN 4 ELSE Width(first)),
                 next |-> i + 1 + Width(first)]
        BY <3>1, Zenon DEF LenencInt, Width
      <3> QED
        BY <2>2, <3>2, Zenon DEF Counting
    <2>4. ASSUME Width(b) # 0  PROVE ReadUint(s, i + 1, Counting(b)) = n
      <3>1. /\ HasWidth(n, Counting(b)) /\ Counting(b) \in 2 .. 4
            /\ \A k \in 1 .. Counting(b) : w[k + 1] = Byte(Digit(n, k))
        BY <1>1, <2>4 DEF LenencOf
      <3>2. Counting(b) <= Width(b)
        BY <1>2, <2>4 DEF Counting
      <3>3. \A k \in 1 .. Counting(b) : s[i + 1 + k - 1] = w[k + 1]
        <4> TAKE k \in 1 .. Counting(b)
        <4>1. k + 1 \in 1 .. Len(w) /\ i + (k + 1) - 1 = i + 1 + k - 1 /\ i + (k + 1) - 1 <= Len(s)
          BY <1>2, <1>8, <3>1, <3>2
        <4> QED
          BY <1>3, <4>1 DEF Written
      <3>4. \A k \in 1 .. Counting(b) : s[i + 1 + k - 1] = Byte(Digit(n, k))
        BY <3>1, <3>3
      <3>5. i + 1 \in Nat \ {0}
        OBVIOUS
      <3> QED
        BY <3>1, <3>4, <3>5, UintRead
    <2>5. Width(b) = 0 => b = n
      BY <1>1 DEF LenencOf
    <2> QED
      BY <2>3, <2>4, <2>5
  <1>9. i <= Len(s) => first # 251
    BY <1>1, <1>5 DEF LenencOf
  <1> QED
    BY <1>2, <1>7, <1>8, <1>9, SMTT(40) DEF w

-----------------------------------------------------------------------------
(* Fields: NULL, or a length and a text *)

FieldOf(t) == IF t = NullValue THEN <<Byte(251)>> ELSE WriteLenencString(t)
Readable == {t \in Strings \cup {NullValue} : t = NullValue \/ (~IsByte(t) /\ HasWidth(t.len, 4))}
FieldReadAt(s, i, t) ==
  /\ FieldOf(t) \in Seq(Pieces) /\ Len(FieldOf(t)) \in Nat \ {0}
  /\ i + Len(FieldOf(t)) - 1 <= Len(s) => FieldAt(s, i) = [v |-> t, next |-> i + Len(FieldOf(t))]
  /\ i + Len(FieldOf(t)) - 1 > Len(s) => FieldAt(s, i).v = NoField

LEMMA FieldBehind == ASSUME NEW s, NEW i, i > Len(s)  PROVE FieldAt(s, i).v = NoField
  BY DEF FieldAt

LEMMA NullRead ==
  ASSUME NEW s \in Seq(Pieces), NEW i \in Nat \ {0}, Written(s, i, FieldOf(NullValue))
  PROVE  FieldReadAt(s, i, NullValue)
  <1>1. PICK b \in 0 .. 255 : b = 251
    OBVIOUS
  <1>2. FieldOf(NullValue) = <<Byte(b)>>
    BY <1>1, Zenon DEF FieldOf
  <1>3. Byte(b) \in Pieces /\ Byte(b).id = b
    BY BytesArePieces
  <1>4. /\ FieldOf(NullValue) \in Seq(Pieces) /\ Len(FieldOf(NullValue)) = 1
        /\ FieldOf(NullValue)[1] = Byte(b)
    BY <1>2, <1>3
  <1>5. ASSUME i <= Len(s)  PROVE FieldAt(s, i) = [v |-> NullValue, next |-> i + 1]
    <2>1. s[i] = Byte(b)
      <3>1. 1 \in 1 .. Len(FieldOf(NullValue)) /\ i + 1 - 1 = i
        BY <1>4
      <3> QED
        BY <1>4, <1>5, <3>1 DEF Written
    <2>2. s[i].id = 251
      BY <1>1, <1>3, <2>1
    <2>3. ~(i > Len(s))
      BY <1>5
    <2> QED
      BY <2>2, <2>3 DEF FieldAt
  <1> QED
    BY <1>4, <1>5, FieldBehind DEF FieldReadAt

LEMMA FieldRead ==
  ASSUME NEW t \in Readable, NEW s \in Seq(Pieces), NEW i \in Nat \ {0}, Written(s, i, FieldOf(t))
  PROVE  FieldReadAt(s, i, t)
  <1>1. CASE t = NullValue
    BY <1>1, NullRead
  <1>2. CASE t # NullValue
    <2> DEFINE n == WriteLenencInt(t.len)
               k == Len(n)
               size == LenencInt(s, i)
    <2>1. t \in Strings /\ ~IsByte(t) /\ HasWidth(t.len, 4) /\ t.len \in Nat
      BY <1>2, StringBytes DEF Readable
    <2>2. FieldOf(t) = n \o WriteString(t)
      BY <1>2, Zenon DEF FieldOf, WriteLenencString
    <2>3. n \in Seq(Pieces) /\ k \in Nat \ {0} /\ WriteString(t) \in Seq(Pieces)
      BY <2>1, LenencIntBytes, StringBytes
    <2>4. Written(s, i, n) /\ Written(s, i + k, WriteString(t))
      <3> HIDE DEF n
      <3> QED
        BY <2>2, <2>3, WrittenConcat
    <2>5. /\ i + k - 1 <= Len(s) => size = [v |-> t.len, next |-> i + k]
          /\ i + k - 1 > Len(s) => size.v = -1
          /\ i <= Len(s) => s[i].id # 251
      BY <2>1, <2>4, LenencIntRead
    <2>6. Len(s) \in Nat
      OBVIOUS
    <2> HIDE DEF n, k, size
    <2>7. CASE t.len = 0
      <3>1. t = EmptyText /\ WriteString(t) = <<>>
        BY <2>1, <2>7 DEF Strings, Pieces, WriteString
      <3>2. FieldOf(t) = n
        BY <2>2, <2>3, <3>1
      <3>3. ASSUME i + k - 1 <= Len(s)  PROVE FieldAt(s, i) = [v |-> t, next |-> i + k]
        <4>1. size.v = 0 /\ size.next = i + k /\ ~(i > Len(s)) /\ s[i].id # 251
          BY <2>3, <2>5, <2>6, <2>7, <3>3
        <4> QED
          BY <3>1, <4>1 DEF FieldAt, size
      <3>4. ASSUME i + k - 1 > Len(s)  PROVE FieldAt(s, i).v = NoField
        <4>1. CASE i > Len(s)
          BY <4>1, FieldBehind
        <4>2. CASE ~(i > Len(s))
          <5>1. s[i].id # 251 /\ size.v = -1
            BY <2>5, <2>6, <3>4, <4>2
          <5> QED
            BY <4>2, <5>1 DEF FieldAt, size
        <4> QED
          BY <4>1, <4>2
      <3> QED
        BY <2>3, <3>2, <3>3, <3>4 DEF FieldReadAt, k
    <2>8. CASE t.len # 0
      <3>1. t \in Pieces /\ WriteString(t) = <<t>>
        BY <2>1, <2>8 DEF Strings, EmptyText, WriteString
      <3>2. FieldOf(t) \in Seq(Pieces) /\ Len(FieldOf(t)) = k + 1
        BY <2>2, <2>3, <3>1 DEF k
      <3>3. i + k <= Len(s) => s[i + k] = t
        <4>1. Len(<<t>>) = 1 /\ <<t>>[1] = t /\ 1 \in 1 .. 1 /\ i + k + 1 - 1 = i + k
          BY <2>3
        <4> QED
          BY <2>4, <3>1, <4>1 DEF Written
      <3>4. ASSUME i + k <= Len(s)  PROVE FieldAt(s, i) = [v |-> t, next |-> i + (k + 1)]
        <4>1. /\ size.v = t.len /\ size.next = i + k /\ ~(i > Len(s)) /\ s[i].id # 251
              /\ size.v # 0 /\ size.v > 0 /\ s[size.next] = t /\ size.next <= Len(s)
          BY <2>1, <2>3, <2>5, <2>6, <2>8, <3>3, <3>4
        <4>2. FieldAt(s, i) = [v |-> s[size.next], next |-> size.next + 1]
          BY <2>1, <4>1 DEF FieldAt, size
        <4>3. size.next + 1 = i + (k + 1)
          BY <2>3, <4>1
        <4> QED
          BY <4>1, <4>2, <4>3
      <3>5. ASSUME i + k > Len(s)  PROVE FieldAt(s, i).v = NoField
        <4>1. CASE i > Len(s)
          BY <4>1, FieldBehind
        <4>2. CASE ~(i > Len(s))
          <5>1. s[i].id # 251 /\ size.v # 0 /\ (size.v > 0 => ~(size.next <= Len(s)))
            BY <2>1, <2>3, <2>5, <2>6, <2>8, <3>5, <4>2
          <5> QED
            BY <4>2, <5>1 DEF FieldAt, size
        <4> QED
          BY <4>1, <4>2
      <3>6. i + (k + 1) - 1 = i + k /\ k + 1 \in Nat \ {0}
        BY <2>3
      <3> QED
        BY <3>2, <3>4, <3>5, <3>6 DEF FieldReadAt
    <2> QED
      BY <2>7, <2>8
  <1> QED
    BY <1>1, <1>2

-----------------------------------------------------------------------------
(* What is written one behind the other *)

\* v is in w at i; at are the numbers of elements before each of seqs, and at last of all.
Within(w, i, v) == i + Len(v) - 1 <= Len(w) /\ \A j \in 1 .. Len(v) : w[i + j - 1] = v[j]
Offsets(at, seqs) ==
  /\ at \in [0 .. Len(seqs) -> Nat] /\ at[0] = 0
  /\ \A k \in 1 .. Len(seqs) :
       /\ at[k] = at[k - 1] + Len(seqs[k])
       /\ Within(FlattenSeq(seqs), at[k - 1] + 1, seqs[k])
  /\ at[Len(seqs)] = Len(FlattenSeq(seqs))

LEMMA WithinLonger ==
  ASSUME NEW X, NEW s \in Seq(X), NEW t \in Seq(X), NEW i \in Nat \ {0}, NEW v,
         Len(v) \in Nat, Within(s, i, v)
  PROVE  Within(s \o t, i, v)
  <1> DEFINE w == s \o t
             k == Len(s)
             m == Len(t)
  <1>1. k \in Nat /\ m \in Nat /\ Behind(w, s, t, k, m)
    BY ConcatParts
  <1> HIDE DEF w, k, m
  <1>2. Len(w) = k + m /\ \A j \in 1 .. k : w[j] = s[j]
    BY <1>1 DEF Behind
  <1>3. i + Len(v) - 1 <= k /\ \A j \in 1 .. Len(v) : s[i + j - 1] = v[j]
    BY DEF Within, k
  <1>4. \A j \in 1 .. Len(v) : i + j - 1 \in 1 .. k
    BY <1>1, <1>3
  <1>5. i + Len(v) - 1 <= Len(w)
    BY <1>1, <1>2, <1>3
  <1> QED
    BY <1>2, <1>3, <1>4, <1>5 DEF Within, w

LEMMA WithinLast ==
  ASSUME NEW X, NEW s \in Seq(X), NEW t \in Seq(X)
  PROVE  Within(s \o t, Len(s) + 1, t) /\ Len(s \o t) = Len(s) + Len(t)
  <1> DEFINE w == s \o t
             k == Len(s)
             m == Len(t)
  <1>1. k \in Nat /\ m \in Nat /\ Behind(w, s, t, k, m)
    BY ConcatParts
  <1> HIDE DEF w, k, m
  <1>2. Len(w) = k + m /\ \A j \in 1 .. m : w[k + j] = t[j]
    BY <1>1 DEF Behind
  <1>3. \A j \in 1 .. m : k + 1 + j - 1 = k + j
    BY <1>1
  <1>4. k + 1 + m - 1 = k + m /\ k + m <= k + m
    BY <1>1
  <1> QED
    BY <1>2, <1>3, <1>4 DEF Within, w, k, m

LEMMA FlatIs ==
  ASSUME NEW X, NEW seqs \in Seq(Seq(X))
  PROVE  FlattenSeq(seqs) \in Seq(X) /\ \E at : Offsets(at, seqs)
  <1> DEFINE n == Len(seqs)
  <1>1. PICK f \in [0 .. n -> Seq(X)] : Flattens(f, seqs)
    BY FlattenSteps
  <1>2. n \in Nat /\ \A k \in 1 .. n : seqs[k] \in Seq(X) /\ f[k] \in Seq(X) /\ f[k - 1] \in Seq(X)
    <2>1. n \in Nat /\ \A k \in 1 .. n : seqs[k] \in Seq(X)
      OBVIOUS
    <2> HIDE DEF n
    <2>2. \A k \in 1 .. n : k \in 0 .. n /\ k - 1 \in 0 .. n
      BY <2>1
    <2> QED
      BY <1>1, <2>1, <2>2
  <1> HIDE DEF n
  <1>3. /\ f[0] = <<>> /\ f[n] = FlattenSeq(seqs)
        /\ \A k \in 1 .. n : f[k] = f[k - 1] \o seqs[k]
    BY <1>1 DEF Flattens, n
  <1> DEFINE at == [k \in 0 .. n |-> Len(f[k])]
             S == {m \in 0 .. n : \A k \in 1 .. m : Within(f[m], at[k - 1] + 1, seqs[k])}
  <1>4. at \in [0 .. n -> Nat] /\ at[0] = 0 /\ at[n] = Len(f[n])
    <2>1. \A k \in 0 .. n : Len(f[k]) \in Nat
      BY <1>1
    <2>2. 0 \in 0 .. n /\ n \in 0 .. n
      BY <1>2
    <2>3. Len(f[0]) = 0
      BY <1>3
    <2> QED
      BY <2>1, <2>2, <2>3
  <1>5. \A k \in 1 .. n : at[k] = Len(f[k]) /\ at[k - 1] = Len(f[k - 1]) /\ at[k - 1] \in Nat
    <2>1. \A k \in 1 .. n : k \in 0 .. n /\ k - 1 \in 0 .. n
      BY <1>2
    <2> QED
      BY <1>4, <2>1
  <1> HIDE DEF at
  <1>6. ASSUME NEW k \in 1 .. n  PROVE at[k] = at[k - 1] + Len(seqs[k])
    <2>1. f[k] = f[k - 1] \o seqs[k] /\ f[k - 1] \in Seq(X) /\ seqs[k] \in Seq(X)
      BY <1>2, <1>3
    <2>2. Len(f[k]) = Len(f[k - 1]) + Len(seqs[k])
      BY <2>1, WithinLast
    <2> QED
      BY <1>5, <2>2
  <1>7. 0 \in S
    BY <1>2
  <1>8. ASSUME NEW m \in 1 .. n, m - 1 \in S  PROVE m \in S
    <2>1. \A k \in 1 .. m - 1 : Within(f[m - 1], at[k - 1] + 1, seqs[k])
      BY <1>8
    <2>2. ASSUME NEW k \in 1 .. m  PROVE Within(f[m], at[k - 1] + 1, seqs[k])
      <3>1. CASE k = m
        BY <1>2, <1>3, <1>5, <3>1, WithinLast
      <3>2. CASE k # m
        <4>1. k \in 1 .. m - 1 /\ k \in 1 .. n
          BY <3>2, <1>2
        <4>2. Within(f[m - 1], at[k - 1] + 1, seqs[k])
          BY <2>1, <4>1
        <4>3. at[k - 1] + 1 \in Nat \ {0} /\ Len(seqs[k]) \in Nat
          BY <1>2, <1>5, <4>1
        <4>4. f[m] = f[m - 1] \o seqs[m] /\ f[m - 1] \in Seq(X) /\ seqs[m] \in Seq(X)
          BY <1>2, <1>3
        <4> QED
          BY <4>2, <4>3, <4>4, WithinLonger, ZenonT(40)
      <3> QED
        BY <3>1, <3>2
    <2>3. m \in 0 .. n
      BY <1>2
    <2> QED
      BY <2>2, <2>3
  <1>9. n \in S
    <2>1. S \in SUBSET (0 .. n) /\ n \in 0 .. n
      BY <1>2
    <2> HIDE DEF S
    <2> QED
      BY <1>2, <1>7, <1>8, <2>1, Induct
  <1>10. Offsets(at, seqs)
    BY <1>3, <1>4, <1>6, <1>9 DEF Offsets, n
  <1>11. FlattenSeq(seqs) \in Seq(X)
    <2>1. n \in 0 .. n
      BY <1>2
    <2> QED
      BY <1>1, <1>3, <2>1
  <1> QED
    BY <1>10, <1>11

LEMMA WrittenWithin ==
  ASSUME NEW s, NEW w, NEW i \in Nat \ {0}, NEW v, Len(v) \in Nat, Len(w) \in Nat,
         Written(s, 1, w), Within(w, i, v)
  PROVE  Written(s, i, v)
  <1>1. \A j \in 1 .. Len(w) : j <= Len(s) => s[j] = w[j]
    <2>1. \A j \in 1 .. Len(w) : 1 + j - 1 = j
      OBVIOUS
    <2> QED
      BY <2>1 DEF Written
  <1>2. ASSUME NEW j \in 1 .. Len(v)  PROVE i + j - 1 \in 1 .. Len(w) /\ w[i + j - 1] = v[j]
    BY DEF Within
  <1> QED
    BY <1>1, <1>2 DEF Written

-----------------------------------------------------------------------------
(* Fields one behind the other *)

LEMMA FieldsArePieces == ASSUME NEW t \in Readable  PROVE FieldOf(t) \in Seq(Pieces)
  <1>1. <<>> \in Seq(Pieces) /\ 1 \in Nat \ {0} /\ Len(<<>>) = 0
    OBVIOUS
  <1>2. FieldOf(t) \in Seq(Pieces) \/ t # NullValue
    <2>1. 251 \in 0 .. 255
      OBVIOUS
    <2>2. Byte(251) \in Pieces
      BY <2>1, BytesArePieces, Zenon
    <2>3. <<Byte(251)>> \in Seq(Pieces)
      BY <2>2
    <2> QED
      BY <2>3 DEF FieldOf
  <1>3. t # NullValue => FieldOf(t) \in Seq(Pieces)
    <2>1. t # NullValue => t \in Strings /\ FieldOf(t) = WriteLenencString(t)
      BY DEF Readable, FieldOf
    <2> QED
      BY <2>1, StringBytes
  <1> QED
    BY <1>2, <1>3

LEMMA LenencIntEnds ==
  ASSUME NEW s, NEW i \in Nat \ {0}
  PROVE  LenencInt(s, i).next \in Nat \ {0}
  <1> DEFINE first == s[i].id
             width == CASE first = 252 -> 2 [] first = 253 -> 3 [] first = 254 -> 8 [] OTHER -> 0
             bad == ~AreBytes(s, i, 1) \/ first \in {251, 255} \/ ~AreBytes(s, i, 1 + width)
  <1>1. width \in Nat
    OBVIOUS
  <1>2. CASE bad
    BY <1>2, Zenon DEF LenencInt
  <1>3. CASE ~bad
    <2>1. LenencInt(s, i).next = i + 1 + width
      BY <1>3, Zenon DEF LenencInt
    <2> HIDE DEF width
    <2> QED
      BY <1>1, <2>1
  <1> QED
    BY <1>2, <1>3

LEMMA FieldEnds ==
  ASSUME NEW s, NEW i \in Nat \ {0}
  PROVE  FieldAt(s, i).next \in Nat \ {0}
  <1> DEFINE size == LenencInt(s, i)
  <1>1. size.next \in Nat \ {0}
    BY LenencIntEnds
  <1>2. FieldAt(s, i).next \in {i, i + 1, size.next, size.next + 1}
    BY DEF FieldAt
  <1> HIDE DEF size
  <1> QED
    BY <1>1, <1>2

StartsOf(g, s, n) ==
  g = [k \in 1 .. n + 1 |-> IF k = 1 THEN 1 ELSE FieldAt(s, g[k - 1]).next]

LEMMA FieldsAre ==
  ASSUME NEW s, NEW n \in Nat
  PROVE  \E g : /\ g[1] = 1 /\ \A k \in 1 .. n : g[k + 1] = FieldAt(s, g[k]).next
                /\ Fields(s, n) = [values |-> [k \in 1 .. n |-> FieldAt(s, g[k]).v],
                                   next |-> g[n + 1]]
  <1> DEFINE T == Nat \ {0}
             step == [p \in (1 .. n) \X T |-> FieldAt(s, p[2]).next]
  <1>1. ASSUME NEW k \in 1 .. n, NEW x \in T
        PROVE  step[<<k, x>>] = FieldAt(s, x).next /\ step[<<k, x>>] \in T
    <2>1. <<k, x>> \in (1 .. n) \X T
      OBVIOUS
    <2>2. step[<<k, x>>] = FieldAt(s, x).next
      BY <2>1
    <2> HIDE DEF step
    <2> QED
      BY <2>2, FieldEnds
  <1>2. PICK f \in [0 .. n -> T] : Steps(f, n, 1, step)
    <2>1. 1 \in T
      OBVIOUS
    <2> HIDE DEF step, T
    <2> QED
      BY <1>1, <2>1, StepsExist
  <1> HIDE DEF step
  <1>3. \E g : StartsOf(g, s, n)
    <2> DEFINE h == [k \in 1 .. n + 1 |-> f[k - 1]]
    <2>1. ASSUME NEW k \in 1 .. n + 1
          PROVE  f[k - 1] = IF k = 1 THEN 1 ELSE FieldAt(s, h[k - 1]).next
      <3>1. CASE k = 1
        <4>1. f[0] = 1 /\ 1 - 1 = 0
          BY <1>2 DEF Steps
        <4> QED
          BY <3>1, <4>1
      <3>2. CASE k # 1
        <4>1. k - 1 \in 1 .. n /\ k - 1 \in 1 .. n + 1 /\ k - 2 \in 0 .. n /\ k - 1 - 1 = k - 2
          BY <3>2
        <4>2. f[k - 1] = step[<<k - 1, f[k - 1 - 1]>>] /\ f[k - 2] \in T
          BY <1>2, <4>1 DEF Steps
        <4>3. h[k - 1] = f[k - 2]
          BY <4>1
        <4> HIDE DEF h, T
        <4>4. step[<<k - 1, f[k - 2]>>] = FieldAt(s, f[k - 2]).next
          BY <1>1, <4>1, <4>2
        <4> QED
          BY <3>2, <4>1, <4>2, <4>3, <4>4
      <3> QED
        BY <3>1, <3>2
    <2>2. h = [k \in 1 .. n + 1 |-> IF k = 1 THEN 1 ELSE FieldAt(s, h[k - 1]).next]
      BY <2>1
    <2>3. StartsOf(h, s, n)
      BY <2>2, Zenon DEF StartsOf
    <2> HIDE DEF h
    <2> QED
      BY <2>3
  <1> DEFINE g == CHOOSE g : StartsOf(g, s, n)
  <1>4. StartsOf(g, s, n)
    BY <1>3
  <1>5. Fields(s, n) = [values |-> [k \in 1 .. n |-> FieldAt(s, g[k]).v], next |-> g[n + 1]]
    BY Zenon DEF Fields, StartsOf
  <1> HIDE DEF g
  <1>6. g = [k \in 1 .. n + 1 |-> IF k = 1 THEN 1 ELSE FieldAt(s, g[k - 1]).next]
    BY <1>4, Zenon DEF StartsOf
  <1>7. g[1] = 1
    <2>1. 1 \in 1 .. n + 1
      OBVIOUS
    <2> QED
      BY <1>6, <2>1, Zenon
  <1>8. ASSUME NEW k \in 1 .. n  PROVE g[k + 1] = FieldAt(s, g[k]).next
    <2>1. k + 1 \in 1 .. n + 1 /\ k + 1 # 1 /\ k + 1 - 1 = k
      OBVIOUS
    <2>2. g[k + 1] = IF k + 1 = 1 THEN 1 ELSE FieldAt(s, g[k + 1 - 1]).next
      BY <1>6, <2>1
    <2> QED
      BY <2>1, <2>2
  <1> QED
    BY <1>5, <1>7, <1>8

\* The fields of a payload as far as it goes: all of them, or one is missing.
LEMMA FieldsRead ==
  ASSUME NEW n \in Nat, NEW ts \in Seq(Readable), Len(ts) = n, NEW seqs,
         seqs = [k \in 1 .. n |-> FieldOf(ts[k])],
         NEW s \in Seq(Pieces), Written(s, 1, FlattenSeq(seqs))
  PROVE  /\ seqs \in Seq(Seq(Pieces)) /\ FlattenSeq(seqs) \in Seq(Pieces)
         /\ Len(FlattenSeq(seqs)) <= Len(s) =>
              Fields(s, n) = [values |-> ts, next |-> Len(FlattenSeq(seqs)) + 1]
         /\ Len(FlattenSeq(seqs)) > Len(s) => \E k \in 1 .. n : Fields(s, n).values[k] = NoField
  <1> DEFINE w == FlattenSeq(seqs)
             m == Len(w)
  <1>1. /\ seqs \in Seq(Seq(Pieces)) /\ Len(seqs) = n
        /\ \A k \in 1 .. n : seqs[k] = FieldOf(ts[k]) /\ ts[k] \in Readable
    <2>1. \A k \in 1 .. n : ts[k] \in Readable
      OBVIOUS
    <2>2. \A k \in 1 .. n : FieldOf(ts[k]) \in Seq(Pieces)
      BY <2>1, FieldsArePieces
    <2>3. seqs \in [1 .. n -> Seq(Pieces)]
      BY <2>2
    <2> QED
      BY <2>1, <2>3, IsASeq
  <1>2. w \in Seq(Pieces) /\ \E at : Offsets(at, seqs)
    BY <1>1, FlatIs
  <1>3. PICK at : Offsets(at, seqs)
    BY <1>2
  <1> HIDE DEF w, m
  <1>4. /\ at \in [0 .. n -> Nat] /\ at[0] = 0 /\ at[n] = m
        /\ \A k \in 1 .. n : at[k] = at[k - 1] + Len(seqs[k]) /\ Within(w, at[k - 1] + 1, seqs[k])
    BY <1>1, <1>3 DEF Offsets, w, m
  <1>5. PICK g : /\ g[1] = 1 /\ \A k \in 1 .. n : g[k + 1] = FieldAt(s, g[k]).next
                 /\ Fields(s, n) = [values |-> [k \in 1 .. n |-> FieldAt(s, g[k]).v],
                                    next |-> g[n + 1]]
    BY FieldsAre
  <1>6. ASSUME NEW k \in 1 .. n
        PROVE  /\ at[k - 1] \in Nat /\ at[k] \in Nat /\ at[k] > at[k - 1]
               /\ at[k] = at[k - 1] + Len(FieldOf(ts[k])) /\ FieldReadAt(s, at[k - 1] + 1, ts[k])
    <2>1. at[k - 1] \in Nat /\ at[k] \in Nat
      <3>1. k - 1 \in 0 .. n /\ k \in 0 .. n
        OBVIOUS
      <3> QED
        BY <1>4, <3>1
    <2>2. at[k - 1] + 1 \in Nat \ {0}
      BY <2>1
    <2>3. seqs[k] = FieldOf(ts[k]) /\ ts[k] \in Readable /\ seqs[k] \in Seq(Pieces)
      BY <1>1
    <2>4. Written(s, at[k - 1] + 1, FieldOf(ts[k]))
      <3>1. Len(seqs[k]) \in Nat /\ Len(w) \in Nat /\ Written(s, 1, w)
        BY <1>2, <2>3 DEF w
      <3>2. Within(w, at[k - 1] + 1, seqs[k])
        BY <1>4
      <3> QED
        BY <2>2, <2>3, <3>1, <3>2, WrittenWithin
    <2>5. FieldReadAt(s, at[k - 1] + 1, ts[k])
      BY <2>2, <2>3, <2>4, FieldRead
    <2>6. at[k] = at[k - 1] + Len(FieldOf(ts[k]))
      BY <1>4, <2>3
    <2>7. Len(FieldOf(ts[k])) \in Nat \ {0}
      BY <2>5 DEF FieldReadAt
    <2> QED
      BY <2>1, <2>5, <2>6, <2>7
  <1>6a. \A k \in 1 .. n : at[k - 1] \in Nat /\ at[k] \in Nat /\ at[k] > at[k - 1]
    BY <1>6
  <1>6b. ASSUME NEW k \in 1 .. n
         PROVE  /\ at[k] <= Len(s) => /\ FieldAt(s, at[k - 1] + 1).v = ts[k]
                                      /\ FieldAt(s, at[k - 1] + 1).next = at[k] + 1
                /\ at[k] > Len(s) => FieldAt(s, at[k - 1] + 1).v = NoField
    <2> DEFINE p == at[k - 1]
               len == Len(FieldOf(ts[k]))
               field == FieldAt(s, p + 1)
    <2>1. p \in Nat /\ at[k] = p + len /\ len \in Nat
      <3>1. at[k] \in Nat /\ p \in Nat /\ at[k] = p + len
        BY <1>6
      <3>2. len \in Nat
        BY <1>6 DEF FieldReadAt
      <3> QED
        BY <3>1, <3>2
    <2>2. /\ p + 1 + len - 1 <= Len(s) => field = [v |-> ts[k], next |-> p + 1 + len]
          /\ p + 1 + len - 1 > Len(s) => field.v = NoField
      BY <1>6 DEF FieldReadAt
    <2> HIDE DEF p, len, field
    <2>3. p + 1 + len - 1 = at[k] /\ p + 1 + len = at[k] + 1
      BY <2>1
    <2> QED
      BY <2>2, <2>3 DEF field, p
  <1>7. Len(s) \in Nat
    OBVIOUS
  <1> DEFINE S == {k \in 0 .. n : at[k] <= Len(s) => g[k + 1] = at[k] + 1}
  <1>8. \A k \in 0 .. n : k \in S
    <2>1. 0 \in S
      BY <1>4, <1>5
    <2>2. ASSUME NEW k \in 1 .. n, k - 1 \in S  PROVE k \in S
      <3>1. ASSUME at[k] <= Len(s)  PROVE g[k + 1] = at[k] + 1
        <4>1. at[k - 1] <= Len(s) /\ k - 1 + 1 = k
          BY <1>6a, <1>7, <3>1
        <4>2. g[k] = at[k - 1] + 1
          BY <2>2, <4>1
        <4>3. g[k + 1] = FieldAt(s, g[k]).next
          BY <1>5
        <4> QED
          BY <1>6b, <3>1, <4>2, <4>3
      <3> QED
        BY <3>1
    <2>3. S \in SUBSET (0 .. n)
      OBVIOUS
    <2> HIDE DEF S
    <2> QED
      BY <2>1, <2>2, <2>3, Induct
  <1>9. ASSUME NEW k \in 1 .. n, at[k - 1] <= Len(s)  PROVE g[k] = at[k - 1] + 1
    <2>1. k - 1 \in 0 .. n /\ k - 1 + 1 = k
      OBVIOUS
    <2>2. at[k - 1] <= Len(s) => g[k - 1 + 1] = at[k - 1] + 1
      BY <1>8, <2>1
    <2> QED
      BY <1>9, <2>1, <2>2
  <1> HIDE DEF S
  <1>10. ASSUME m <= Len(s)  PROVE Fields(s, n) = [values |-> ts, next |-> m + 1]
    <2> DEFINE U == {k \in 0 .. n : at[n - k] <= m}
    <2>1. \A k \in 0 .. n : k \in U
      <3>1. 0 \in U
        BY <1>2, <1>4 DEF m
      <3>2. ASSUME NEW k \in 1 .. n, k - 1 \in U  PROVE k \in U
        <4>1. at[n - (k - 1)] <= m
          BY <3>2
        <4>2. n - (k - 1) \in 1 .. n /\ n - (k - 1) - 1 = n - k
          OBVIOUS
        <4>3. m \in Nat
          BY <1>2 DEF m
        <4>4. at[n - k] <= m
          BY <1>6a, <4>1, <4>2, <4>3
        <4> QED
          BY <4>4
      <3>3. U \in SUBSET (0 .. n)
        OBVIOUS
      <3> HIDE DEF U
      <3> QED
        BY <3>1, <3>2, <3>3, Induct
    <2>2. ASSUME NEW k \in 0 .. n  PROVE at[k] <= Len(s)
      <3>0. at[n - (n - k)] <= m
        <4>1. n - k \in 0 .. n
          OBVIOUS
        <4> QED
          BY <2>1, <4>1
      <3>1. n - k \in 0 .. n /\ n - (n - k) = k /\ at[k] \in Nat /\ m \in Nat
        BY <1>2, <1>4 DEF m
      <3> QED
        BY <1>7, <1>10, <3>0, <3>1
    <2>3. ASSUME NEW k \in 1 .. n  PROVE FieldAt(s, g[k]).v = ts[k]
      <3>1. k - 1 \in 0 .. n /\ k \in 0 .. n
        OBVIOUS
      <3>2. at[k - 1] <= Len(s) /\ at[k] <= Len(s)
        BY <2>2, <3>1
      <3> QED
        BY <1>6b, <1>9, <3>2
    <2>4. g[n + 1] = m + 1
      <3>1. n \in 0 .. n
        OBVIOUS
      <3> QED
        BY <1>4, <1>8, <2>2, <3>1 DEF S
    <2>5. [k \in 1 .. n |-> FieldAt(s, g[k]).v] = ts
      <3>1. ts = [k \in 1 .. n |-> ts[k]]
        OBVIOUS
      <3> QED
        BY <2>3, <3>1
    <2> QED
      BY <1>5, <2>4, <2>5
  <1>11. ASSUME m > Len(s)  PROVE \E k \in 1 .. n : Fields(s, n).values[k] = NoField
    <2> DEFINE cut == {k \in 1 .. n : at[k] > Len(s)}
               k == Min(cut)
    <2>1. n \in cut
      <3>1. n # 0
        BY <1>4, <1>7, <1>11
      <3> QED
        BY <1>4, <1>11, <3>1
    <2>2. k \in cut /\ \A j \in cut : k <= j
      <3>1. cut \in SUBSET (1 .. n)
        OBVIOUS
      <3> HIDE DEF cut
      <3> QED
        BY <2>1, <3>1, FirstExists
    <2> HIDE DEF k
    <2>3. k \in 1 .. n /\ at[k] > Len(s)
      BY <2>2
    <2>4. at[k - 1] <= Len(s)
      <3>1. CASE k = 1
        BY <1>4, <1>7, <3>1
      <3>2. CASE k # 1
        <4>1. k - 1 \in 1 .. n /\ k - 1 \notin cut /\ at[k - 1] \in Nat
          BY <1>6a, <2>2, <2>3, <3>2
        <4> QED
          BY <1>7, <4>1
      <3> QED
        BY <3>1, <3>2
    <2>5. FieldAt(s, g[k]).v = NoField
      BY <1>6b, <1>9, <2>3, <2>4
    <2>6. Fields(s, n).values[k] = FieldAt(s, g[k]).v
      BY <1>5, <2>3
    <2> QED
      BY <2>3, <2>5, <2>6
  <1> QED
    BY <1>1, <1>2, <1>10, <1>11 DEF w, m

-----------------------------------------------------------------------------
(* Rows *)

LEMMA ReadableIsAField == ASSUME NEW t \in Readable  PROVE t # NoField
  <1>1. CASE t = NullValue
    BY <1>1 DEF NullValue, NoField
  <1>2. CASE t # NullValue
    <2>1. t \in Pieces \/ t = EmptyText
      BY <1>2 DEF Readable, Strings
    <2>2. t.id \in Nat
      BY <2>1 DEF Pieces, EmptyText
    <2>3. NoField.id = -2
      BY DEF NoField
    <2>4. -2 \notin Nat
      OBVIOUS
    <2> QED
      BY <2>2, <2>3, <2>4
  <1> QED
    BY <1>1, <1>2

LEMMA RowRead ==
  ASSUME NEW row \in Seq(Readable), NEW n \in Nat, Len(row) = n,
         NEW s \in Seq(Pieces), Written(s, 1, RowPayload(row))
  PROVE  /\ RowPayload(row) \in Seq(Pieces)
         /\ Len(s) = Len(RowPayload(row)) => IsRow(s, Fields(s, n)) /\ Fields(s, n).values = row
         /\ Len(s) < Len(RowPayload(row)) => ~IsRow(s, Fields(s, n))
  <1> DEFINE seqs == [k \in 1 .. n |-> FieldOf(row[k])]
             w == FlattenSeq(seqs)
  <1>1. RowPayload(row) = w
    <2>1. DOMAIN row = 1 .. n
      OBVIOUS
    <2> QED
      BY <2>1, Zenon DEF RowPayload, FieldOf
  <1>2. Written(s, 1, w)
    BY <1>1
  <1> HIDE DEF seqs
  <1>3. /\ w \in Seq(Pieces)
        /\ Len(w) <= Len(s) => Fields(s, n) = [values |-> row, next |-> Len(w) + 1]
        /\ Len(w) > Len(s) => \E k \in 1 .. n : Fields(s, n).values[k] = NoField
    <2>1. seqs = [k \in 1 .. n |-> FieldOf(row[k])]
      BY DEF seqs
    <2> QED
      BY <1>2, <2>1, FieldsRead
  <1> HIDE DEF w
  <1>4. Len(w) \in Nat /\ Len(s) \in Nat
    BY <1>3
  <1>5. ASSUME Len(s) = Len(w)  PROVE IsRow(s, Fields(s, n)) /\ Fields(s, n).values = row
    <2>1. Fields(s, n).values = row /\ Fields(s, n).next = Len(s) + 1
      BY <1>3, <1>4, <1>5
    <2>2. \A k \in DOMAIN row : row[k] # NoField
      BY ReadableIsAField
    <2>3. NoField \notin Range(row)
      BY <2>2 DEF Range
    <2> QED
      BY <2>1, <2>3 DEF IsRow
  <1>6. ASSUME Len(s) < Len(w)  PROVE ~IsRow(s, Fields(s, n))
    <2>1. PICK k \in 1 .. n : Fields(s, n).values[k] = NoField
      BY <1>3, <1>4, <1>6
    <2>2. DOMAIN Fields(s, n).values = 1 .. n
      BY FieldsAre
    <2>3. NoField \in Range(Fields(s, n).values)
      BY <2>1, <2>2 DEF Range
    <2> QED
      BY <2>3 DEF IsRow
  <1> QED
    BY <1>1, <1>3, <1>5, <1>6

-----------------------------------------------------------------------------
(* Columns *)

\* A part of m bytes, and such a part behind k other elements.
BytePart(a, m) == a \in Seq(Pieces) /\ Len(a) = m /\ \A j \in 1 .. m : IsByte(a[j])

LEMMA BytePartsAre ==
  /\ \A b \in 0 .. 255 : BytePart(<<Byte(b)>>, 1)
  /\ \A n \in Nat, width \in 2 .. 4 : BytePart(WriteUint(n, width), width)
  <1>1. ASSUME NEW b \in 0 .. 255  PROVE BytePart(<<Byte(b)>>, 1)
    <2> DEFINE x == Byte(b)
    <2>1. x \in Pieces /\ IsByte(x)
      BY BytesArePieces
    <2> HIDE DEF x
    <2>2. <<x>> \in Seq(Pieces) /\ Len(<<x>>) = 1 /\ \A j \in 1 .. 1 : <<x>>[j] = x
      BY <2>1
    <2>3. BytePart(<<x>>, 1)
      BY <2>1, <2>2 DEF BytePart
    <2> QED
      BY <2>3 DEF x
  <1>2. ASSUME NEW n \in Nat, NEW width \in 2 .. 4  PROVE BytePart(WriteUint(n, width), width)
    BY UintIs DEF BytePart
  <1> QED
    BY <1>1, <1>2

LEMMA LongerBy ==
  ASSUME NEW d \in Seq(Pieces), NEW k \in Nat, Len(d) = k, NEW m \in Nat, NEW a, BytePart(a, m)
  PROVE  d \o a \in Seq(Pieces) /\ Len(d \o a) = k + m
  BY DEF BytePart

LEMMA PartRead ==
  ASSUME NEW d \in Seq(Pieces), NEW k \in Nat, Len(d) = k, NEW m \in Nat, NEW a, BytePart(a, m),
         NEW s \in Seq(Pieces), Written(s, 1, d \o a)
  PROVE  /\ Written(s, 1, d) /\ Written(s, k + 1, a)
         /\ k + m <= Len(s) => AreBytes(s, k + 1, m)
  <1>1. a \in Seq(Pieces) /\ Len(a) = m /\ \A j \in 1 .. Len(a) : IsByte(a[j])
    BY DEF BytePart
  <1>2. Written(s, 1, d) /\ Written(s, 1 + k, a)
    <2>1. 1 \in Nat \ {0}
      OBVIOUS
    <2> QED
      BY <1>1, <2>1, WrittenConcat
  <1>3. 1 + k = k + 1 /\ k + 1 \in Nat \ {0} /\ k + 1 + m - 1 = k + m
    OBVIOUS
  <1>4. AreBytes(s, k + 1, Len(a)) <=> k + 1 + Len(a) - 1 <= Len(s)
    BY <1>1, <1>2, <1>3, WrittenBytes
  <1> QED
    BY <1>1, <1>2, <1>3, <1>4

LEMMA BytesJoin ==
  ASSUME NEW s \in Seq(Pieces), NEW i \in Nat, NEW n \in Nat, NEW m \in Nat,
         AreBytes(s, i, n), AreBytes(s, i + n, m)
  PROVE  AreBytes(s, i, n + m)
  <1>1. i + n + m - 1 <= Len(s) /\ i + (n + m) - 1 = i + n + m - 1
    BY DEF AreBytes
  <1>2. ASSUME NEW k \in i .. i + (n + m) - 1  PROVE IsByte(s[k])
    <2>1. k \in i .. i + n - 1 \/ k \in i + n .. i + n + m - 1
      OBVIOUS
    <2> QED
      BY <2>1 DEF AreBytes
  <1> QED
    BY <1>1, <1>2 DEF AreBytes

LEMMA ColumnNamesRead ==
  ASSUME NEW c \in ColumnRecords
  PROVE  /\ ColumnNames(c) \in Seq(Readable) /\ Len(ColumnNames(c)) = 6
         /\ \A i \in 1 .. 6 :
              /\ ColumnNames(c)[i] \in Readable
              /\ WriteLenencString(ColumnNames(c)[i]) = FieldOf(ColumnNames(c)[i])
         /\ ColumnNames(c)[2] = c.db /\ ColumnNames(c)[3] = c.table /\ ColumnNames(c)[5] = c.name
  <1>1. \A t \in ShortTexts : t \in Readable /\ t # NullValue /\ WriteLenencString(t) = FieldOf(t)
    <2> TAKE t \in ShortTexts
    <2>1. t \in Pieces /\ t.len \in Nat /\ t.id \in Nat /\ ~IsByte(t)
      BY DEF ShortTexts, Pieces
    <2>2. HasWidth(t.len, 4)
      <3>1. t.len < 16777216
        BY <2>1, SMT DEF ShortTexts
      <3> QED
        BY <2>1, <3>1, SMT DEF HasWidth
    <2>3. t # NullValue
      BY <2>1 DEF NullValue
    <2>4. WriteLenencString(t) = FieldOf(t)
      BY <2>3, Zenon DEF FieldOf
    <2> QED
      BY <2>1, <2>2, <2>3, <2>4 DEF Readable, Strings
  <1>2. c.db \in ShortTexts /\ c.table \in ShortTexts /\ c.name \in ShortTexts
    BY DEF ColumnRecords
  <1>3. Catalogue \in ShortTexts
    <2>1. 3 # 0 /\ 256 + 0 \in Nat /\ 256 + 0 >= 256 /\ 3 \in Nat \ {0}
      OBVIOUS
    <2>2. Catalogue = [id |-> 256 + 0, len |-> 3]
      BY DEF Catalogue, TextOf
    <2>3. 3 < 2 ^ 24
      BY SMT
    <2> QED
      BY <2>1, <2>2, <2>3 DEF ShortTexts, Pieces, IsByte
  <1>4. ColumnNames(c) = <<Catalogue, c.db, c.table, c.table, c.name, c.name>>
    BY DEF ColumnNames
  <1> DEFINE x == Catalogue
             d == c.db
             u == c.table
             v == c.name
             s == <<x, d, u, u, v, v>>
  <1> HIDE DEF x, d, u, v
  <1>5. /\ s \in Seq(ShortTexts) /\ Len(s) = 6 /\ \A i \in 1 .. 6 : s[i] \in ShortTexts
        /\ s[2] = d /\ s[3] = u /\ s[5] = v
    BY <1>2, <1>3 DEF x, d, u, v
  <1> HIDE DEF s
  <1>6. /\ s \in Seq(Readable)
        /\ \A i \in 1 .. 6 : s[i] \in Readable /\ WriteLenencString(s[i]) = FieldOf(s[i])
    <2>1. ShortTexts \subseteq Readable
      BY <1>1
    <2>2. s \in Seq(Readable)
      BY <1>5, <2>1
    <2> QED
      BY <1>1, <1>5, <2>2
  <1>7. s = ColumnNames(c)
    BY <1>4 DEF s, x, d, u, v
  <1> QED
    BY <1>5, <1>6, <1>7 DEF d, u, v

\* The thirteen bytes behind the names, and where they are.
ColumnTail(s, c, k) ==
  /\ AreBytes(s, k + 1, 13)
  /\ Written(s, k + 4, WriteUint(ColumnLength(c.type), 4))
  /\ Written(s, k + 8, <<Byte(MySQLType(c.type))>>)
  /\ Written(s, k + 9, WriteUint(ColumnFlags(c), 2))

NamesAndTail(F, c) ==
  F \o <<Byte(12)>> \o WriteUint(33, 2) \o WriteUint(ColumnLength(c.type), 4)
    \o <<Byte(MySQLType(c.type))>> \o WriteUint(ColumnFlags(c), 2)
    \o <<Byte(0)>> \o WriteUint(0, 2)

LEMMA ColumnNumbers ==
  ASSUME NEW c \in ColumnRecords
  PROVE  /\ MySQLType(c.type) \in 0 .. 255
         /\ ColumnLength(c.type) \in Nat /\ HasWidth(ColumnLength(c.type), 4)
         /\ ColumnFlags(c) \in Nat /\ HasWidth(ColumnFlags(c), 2)
  <1>1. c.type \in Types /\ {c.not_null, c.primary_key, c.auto_increment} \subseteq BOOLEAN
    BY DEF ColumnRecords
  <1>2. MySQLType(c.type) \in 0 .. 255
    BY <1>1, SMT DEF Types, MySQLType
  <1>3. ColumnLength(c.type) \in Nat /\ HasWidth(ColumnLength(c.type), 4)
    BY <1>1, SMT DEF Types, ColumnLength, HasWidth
  <1>4. ColumnFlags(c) \in Nat /\ HasWidth(ColumnFlags(c), 2)
    BY <1>1, SMT DEF ColumnFlags, HasWidth
  <1> QED
    BY <1>2, <1>3, <1>4

LEMMA ColumnParts ==
  ASSUME NEW c \in ColumnRecords, NEW F \in Seq(Pieces), NEW k \in Nat, Len(F) = k,
         NEW w, w = NamesAndTail(F, c),
         NEW s \in Seq(Pieces), Written(s, 1, w)
  PROVE  /\ w \in Seq(Pieces) /\ Len(w) = k + 13 /\ Written(s, 1, F)
         /\ k + 13 <= Len(s) => ColumnTail(s, c, k)
  <1> DEFINE b == <<Byte(12)>>
             d == WriteUint(33, 2)
             e == WriteUint(ColumnLength(c.type), 4)
             f == <<Byte(MySQLType(c.type))>>
             g == WriteUint(ColumnFlags(c), 2)
             h == <<Byte(0)>>
             z == WriteUint(0, 2)
             w1 == F \o b
             w2 == w1 \o d
             w3 == w2 \o e
             w4 == w3 \o f
             w5 == w4 \o g
             w6 == w5 \o h
  <1>1. w = w6 \o z
    BY DEF NamesAndTail
  <1>2. /\ BytePart(b, 1) /\ BytePart(d, 2) /\ BytePart(e, 4) /\ BytePart(f, 1)
        /\ BytePart(g, 2) /\ BytePart(h, 1) /\ BytePart(z, 2)
    <2>1. PICK twelve \in 0 .. 255, nul \in 0 .. 255 : twelve = 12 /\ nul = 0
      OBVIOUS
    <2>2. PICK n33 \in Nat, n0 \in Nat, two \in 2 .. 4, four \in 2 .. 4 :
            n33 = 33 /\ n0 = 0 /\ two = 2 /\ four = 4
      OBVIOUS
    <2>3. BytePart(<<Byte(twelve)>>, 1) /\ BytePart(<<Byte(nul)>>, 1) /\ BytePart(f, 1)
      BY BytePartsAre, ColumnNumbers
    <2>4. /\ BytePart(WriteUint(n33, two), two) /\ BytePart(WriteUint(n0, two), two)
          /\ BytePart(WriteUint(ColumnLength(c.type), four), four)
          /\ BytePart(WriteUint(ColumnFlags(c), two), two)
      BY BytePartsAre, ColumnNumbers
    <2> QED
      BY <2>1, <2>2, <2>3, <2>4, Zenon
  <1> HIDE DEF b, d, e, f, g, h, z
  <1>3. w1 \in Seq(Pieces) /\ Len(w1) = k + 1
    BY <1>2, LongerBy
  <1> HIDE DEF w1
  <1>4. w2 \in Seq(Pieces) /\ Len(w2) = k + 3
    <2>1. Len(w2) = k + 1 + 2 /\ w2 \in Seq(Pieces)
      BY <1>2, <1>3, LongerBy
    <2> HIDE DEF w2
    <2> QED
      BY <2>1
  <1> HIDE DEF w2
  <1>5. w3 \in Seq(Pieces) /\ Len(w3) = k + 7
    <2>1. Len(w3) = k + 3 + 4 /\ w3 \in Seq(Pieces)
      BY <1>2, <1>4, LongerBy
    <2> HIDE DEF w3
    <2> QED
      BY <2>1
  <1> HIDE DEF w3
  <1>6. w4 \in Seq(Pieces) /\ Len(w4) = k + 8
    <2>1. Len(w4) = k + 7 + 1 /\ w4 \in Seq(Pieces)
      BY <1>2, <1>5, LongerBy
    <2> HIDE DEF w4
    <2> QED
      BY <2>1
  <1> HIDE DEF w4
  <1>7. w5 \in Seq(Pieces) /\ Len(w5) = k + 10
    <2>1. Len(w5) = k + 8 + 2 /\ w5 \in Seq(Pieces)
      BY <1>2, <1>6, LongerBy
    <2> HIDE DEF w5
    <2> QED
      BY <2>1
  <1> HIDE DEF w5
  <1>8. w6 \in Seq(Pieces) /\ Len(w6) = k + 11
    <2>1. Len(w6) = k + 10 + 1 /\ w6 \in Seq(Pieces)
      BY <1>2, <1>7, LongerBy
    <2> HIDE DEF w6
    <2> QED
      BY <2>1
  <1> HIDE DEF w6
  <1>9. w \in Seq(Pieces) /\ Len(w) = k + 13
    <2>1. w6 \o z \in Seq(Pieces) /\ Len(w6 \o z) = k + 11 + 2
      BY <1>2, <1>8, LongerBy
    <2>2. w \in Seq(Pieces) /\ Len(w) = k + 11 + 2
      BY <1>1, <2>1, Zenon
    <2> QED
      BY <2>2
  <1>10. Written(s, 1, w6) /\ (k + 11 + 2 <= Len(s) => AreBytes(s, k + 11 + 1, 2))
    <2>1. Written(s, 1, w6 \o z)
      BY <1>1, Zenon
    <2> QED
      BY <1>2, <1>8, <2>1, PartRead
  <1>11. Written(s, 1, w5) /\ (k + 10 + 1 <= Len(s) => AreBytes(s, k + 10 + 1, 1))
    BY <1>2, <1>7, <1>10, PartRead DEF w6
  <1>12. /\ Written(s, 1, w4) /\ Written(s, k + 8 + 1, g)
         /\ k + 8 + 2 <= Len(s) => AreBytes(s, k + 8 + 1, 2)
    BY <1>2, <1>6, <1>11, PartRead DEF w5
  <1>13. /\ Written(s, 1, w3) /\ Written(s, k + 7 + 1, f)
         /\ k + 7 + 1 <= Len(s) => AreBytes(s, k + 7 + 1, 1)
    BY <1>2, <1>5, <1>12, PartRead DEF w4
  <1>14. /\ Written(s, 1, w2) /\ Written(s, k + 3 + 1, e)
         /\ k + 3 + 4 <= Len(s) => AreBytes(s, k + 3 + 1, 4)
    BY <1>2, <1>4, <1>13, PartRead DEF w3
  <1>15. Written(s, 1, w1) /\ (k + 1 + 2 <= Len(s) => AreBytes(s, k + 1 + 1, 2))
    BY <1>2, <1>3, <1>14, PartRead DEF w2
  <1>16. Written(s, 1, F) /\ (k + 1 <= Len(s) => AreBytes(s, k + 1, 1))
    BY <1>2, <1>15, PartRead DEF w1
  <1>17. ASSUME k + 13 <= Len(s)  PROVE AreBytes(s, k + 1, 13)
    <2>0. Len(s) \in Nat
      OBVIOUS
    <2>1. AreBytes(s, k + 1, 1) /\ AreBytes(s, k + 1 + 1, 2) /\ AreBytes(s, k + 3 + 1, 4)
      BY <1>14, <1>15, <1>16, <1>17, <2>0
    <2>2. /\ AreBytes(s, k + 7 + 1, 1) /\ AreBytes(s, k + 8 + 1, 2) /\ AreBytes(s, k + 10 + 1, 1)
          /\ AreBytes(s, k + 11 + 1, 2)
      BY <1>10, <1>11, <1>12, <1>13, <1>17, <2>0
    <2>3. AreBytes(s, k + 1, 1 + 2)
      BY <2>1, BytesJoin
    <2>4. AreBytes(s, k + 1, 3) /\ AreBytes(s, k + 1 + 3, 4)
      <3>1. k + 1 + 3 = k + 3 + 1 /\ 1 + 2 = 3
        OBVIOUS
      <3> QED
        BY <2>1, <2>3, <3>1
    <2>5. AreBytes(s, k + 1, 3 + 4)
      BY <2>4, BytesJoin
    <2>6. AreBytes(s, k + 1, 7) /\ AreBytes(s, k + 1 + 7, 1)
      <3>1. k + 1 + 7 = k + 7 + 1 /\ 3 + 4 = 7
        OBVIOUS
      <3> QED
        BY <2>2, <2>5, <3>1
    <2>7. AreBytes(s, k + 1, 7 + 1)
      BY <2>6, BytesJoin
    <2>8. AreBytes(s, k + 1, 8) /\ AreBytes(s, k + 1 + 8, 2)
      <3>1. k + 1 + 8 = k + 8 + 1 /\ 7 + 1 = 8
        OBVIOUS
      <3> QED
        BY <2>2, <2>7, <3>1
    <2>9. AreBytes(s, k + 1, 8 + 2)
      BY <2>8, BytesJoin
    <2>10. AreBytes(s, k + 1, 10) /\ AreBytes(s, k + 1 + 10, 1)
      <3>1. k + 1 + 10 = k + 10 + 1 /\ 8 + 2 = 10
        OBVIOUS
      <3> QED
        BY <2>2, <2>9, <3>1
    <2>11. AreBytes(s, k + 1, 10 + 1)
      BY <2>10, BytesJoin
    <2>12. AreBytes(s, k + 1, 11) /\ AreBytes(s, k + 1 + 11, 2)
      <3>1. k + 1 + 11 = k + 11 + 1 /\ 10 + 1 = 11
        OBVIOUS
      <3> QED
        BY <2>2, <2>11, <3>1
    <2>13. AreBytes(s, k + 1, 11 + 2)
      BY <2>12, BytesJoin
    <2> QED
      BY <2>13
  <1>18. k + 8 + 1 = k + 9 /\ k + 7 + 1 = k + 8 /\ k + 3 + 1 = k + 4
    OBVIOUS
  <1> QED
    BY <1>9, <1>12, <1>13, <1>14, <1>16, <1>17, <1>18 DEF ColumnTail, e, f, g

LEMMA TypesDiffer ==
  ASSUME NEW t \in Types, NEW u \in Types,
         MySQLType(t) = MySQLType(u), ColumnLength(t) = ColumnLength(u)
  PROVE  t = u
  BY SMT DEF Types, MySQLType, ColumnLength

LEMMA FlagsRead ==
  ASSUME NEW c \in ColumnRecords
  PROVE  /\ ColumnFlags(c) % 2 = 1 <=> c.not_null
         /\ (ColumnFlags(c) \div 2) % 2 = 1 <=> c.primary_key
         /\ ColumnFlags(c) >= 512 <=> c.auto_increment
  <1>1. c.not_null \in BOOLEAN /\ c.primary_key \in BOOLEAN /\ c.auto_increment \in BOOLEAN
    BY DEF ColumnRecords
  <1> DEFINE a == IF c.not_null THEN 1 ELSE 0
             b == IF c.primary_key THEN 2 ELSE 0
             d == IF c.auto_increment THEN 512 ELSE 0
  <1>2. ColumnFlags(c) = a + b + d
    BY DEF ColumnFlags
  <1>3. /\ a \in {0, 1} /\ (a = 1 <=> c.not_null)
        /\ b \in {0, 2} /\ (b = 2 <=> c.primary_key)
        /\ d \in {0, 512} /\ (d = 512 <=> c.auto_increment)
    BY <1>1
  <1> HIDE DEF a, b, d
  <1>4. \A x \in {0, 1}, y \in {0, 2}, v \in {0, 512} :
          /\ (x + y + v) % 2 = 1 <=> x = 1
          /\ ((x + y + v) \div 2) % 2 = 1 <=> y = 2
          /\ x + y + v >= 512 <=> v = 512
    BY SMT
  <1> QED
    BY <1>2, <1>3, <1>4

\* A column as far as it goes: itself, or nothing.
LEMMA ColumnRead ==
  ASSUME NEW c \in ColumnRecords, NEW s \in Seq(Pieces), Written(s, 1, ColumnPayload(c))
  PROVE  /\ Len(s) = Len(ColumnPayload(c)) => ReadColumn(s) = c
         /\ Len(s) < Len(ColumnPayload(c)) => ReadColumn(s) = Lost
  <1> DEFINE ns == ColumnNames(c)
             seqs == [i \in 1 .. 6 |-> FieldOf(ns[i])]
             F == FlattenSeq(seqs)
             k == Len(F)
             w == ColumnPayload(c)
             names == Fields(s, 6)
             i == names.next
             types == {t \in Types : /\ MySQLType(t) = s[i + 7].id
                                     /\ ColumnLength(t) = ReadUint(s, i + 3, 4)}
             flags == ReadUint(s, i + 8, 2)
             bad == \/ Len(s) # i + 12 \/ ~AreBytes(s, i, 13)
                    \/ NoField \in {names.values[j] : j \in 1 .. 6} \/ types = {}
             found == [db |-> names.values[2], table |-> names.values[3], name |-> names.values[5],
                       type |-> CHOOSE t \in types : TRUE, not_null |-> flags % 2 = 1,
                       primary_key |-> (flags \div 2) % 2 = 1, auto_increment |-> flags >= 512]
  <1>1. ReadColumn(s) = IF bad THEN Lost ELSE found
    BY Zenon DEF ReadColumn
  <1>2. /\ ns \in Seq(Readable) /\ Len(ns) = 6
        /\ \A j \in 1 .. 6 : ns[j] \in Readable /\ WriteLenencString(ns[j]) = FieldOf(ns[j])
        /\ ns[2] = c.db /\ ns[3] = c.table /\ ns[5] = c.name
    BY ColumnNamesRead
  <1>3. seqs = [j \in 1 .. 6 |-> WriteLenencString(ns[j])]
    BY <1>2
  <1>4. w = NamesAndTail(F, c)
    BY <1>3, Zenon DEF ColumnPayload, NamesAndTail
  <1> HIDE DEF ns, w, names, types, flags, bad, found, i
  <1>5. F \in Seq(Pieces) /\ k \in Nat
    <2>1. \A j \in 1 .. 6 : ns[j] \in Readable
      BY <1>2, Zenon
    <2>2. seqs \in [1 .. 6 -> Seq(Pieces)]
      BY <2>1, FieldsArePieces
    <2>3. seqs \in Seq(Seq(Pieces))
      <3> HIDE DEF seqs
      <3> QED
        BY <2>2, SixAreASeq
    <2> HIDE DEF seqs
    <2>4. F \in Seq(Pieces)
      BY <2>3, FlatIs
    <2> HIDE DEF F
    <2> QED
      BY <2>4
  <1> HIDE DEF seqs
  <1>6. /\ Len(w) = k + 13 /\ Written(s, 1, F)
        /\ k + 13 <= Len(s) => ColumnTail(s, c, k)
    <2>1. Written(s, 1, w)
      BY DEF w
    <2>2. Len(F) = k
      OBVIOUS
    <2> HIDE DEF F, k
    <2> QED
      BY <1>4, <1>5, <2>1, <2>2, ColumnParts
  <1>7. /\ k <= Len(s) => names = [values |-> ns, next |-> k + 1]
        /\ k > Len(s) => \E j \in 1 .. 6 : names.values[j] = NoField
    <2>1. PICK six \in Nat : six = 6
      OBVIOUS
    <2>2. Len(ns) = six /\ seqs = [j \in 1 .. six |-> FieldOf(ns[j])]
      BY <1>2, <2>1 DEF seqs
    <2>3. /\ Len(F) <= Len(s) => Fields(s, six) = [values |-> ns, next |-> Len(F) + 1]
          /\ Len(F) > Len(s) => \E j \in 1 .. six : Fields(s, six).values[j] = NoField
      BY <1>2, <1>6, <2>2, FieldsRead
    <2> HIDE DEF F
    <2> QED
      BY <2>1, <2>3, Zenon DEF names
  <1> HIDE DEF k
  <1>8. Len(s) \in Nat
    OBVIOUS
  <1>9. ASSUME Len(s) < Len(w)  PROVE bad
    <2>1. CASE k <= Len(s)
      <3>1. i = k + 1
        BY <1>7, <2>1 DEF i
      <3>2. Len(s) # i + 12
        BY <1>5, <1>6, <1>8, <1>9, <3>1
      <3> QED
        BY <3>2 DEF bad
    <2>2. CASE ~(k <= Len(s))
      <3>1. \E j \in 1 .. 6 : names.values[j] = NoField
        BY <1>5, <1>7, <1>8, <2>2
      <3> QED
        BY <3>1, Zenon DEF bad
    <2> QED
      BY <2>1, <2>2
  <1>10. ASSUME Len(s) = Len(w)  PROVE ~bad /\ found = c
    <2>1. names = [values |-> ns, next |-> k + 1] /\ ColumnTail(s, c, k) /\ Len(s) = k + 13
      BY <1>5, <1>6, <1>7, <1>8, <1>10
    <2>2. i = k + 1 /\ names.values = ns
      BY <2>1 DEF i
    <2>3. i + 12 = k + 13 /\ i + 7 = k + 8 /\ i + 3 = k + 4 /\ i + 8 = k + 9
      BY <1>5, <2>2
    <2>4. Len(s) = i + 12 /\ AreBytes(s, i, 13)
      BY <2>1, <2>2, <2>3 DEF ColumnTail
    <2>5. NoField \notin {names.values[j] : j \in 1 .. 6}
      <3>1. \A j \in 1 .. 6 : ns[j] # NoField
        BY <1>2, ReadableIsAField
      <3> QED
        BY <2>2, <3>1
    <2>6. /\ MySQLType(c.type) \in 0 .. 255
          /\ ColumnLength(c.type) \in Nat /\ HasWidth(ColumnLength(c.type), 4)
          /\ ColumnFlags(c) \in Nat /\ HasWidth(ColumnFlags(c), 2)
      BY ColumnNumbers
    <2>7. ReadUint(s, i + 3, 4) = ColumnLength(c.type)
      <3>1. PICK four \in 2 .. 4 : four = 4
        OBVIOUS
      <3>2. k + 4 \in Nat \ {0} /\ k + 4 + four - 1 <= Len(s)
        BY <1>5, <2>1, <3>1
      <3>3. Written(s, k + 4, WriteUint(ColumnLength(c.type), four)) /\ HasWidth(ColumnLength(c.type), four)
        BY <2>1, <2>6, <3>1, Zenon DEF ColumnTail
      <3>4. ReadUint(s, k + 4, four) = ColumnLength(c.type)
        BY <2>6, <3>2, <3>3, NumberRead
      <3> QED
        BY <2>3, <3>1, <3>4, Zenon
    <2>8. flags = ColumnFlags(c)
      <3>1. PICK two \in 2 .. 4 : two = 2
        OBVIOUS
      <3>2. k + 9 \in Nat \ {0} /\ k + 9 + two - 1 <= Len(s)
        BY <1>5, <2>1, <3>1
      <3>3. Written(s, k + 9, WriteUint(ColumnFlags(c), two)) /\ HasWidth(ColumnFlags(c), two)
        BY <2>1, <2>6, <3>1, Zenon DEF ColumnTail
      <3>4. ReadUint(s, k + 9, two) = ColumnFlags(c)
        BY <2>6, <3>2, <3>3, NumberRead
      <3> QED
        BY <2>3, <3>1, <3>4, Zenon DEF flags
    <2>9. s[i + 7].id = MySQLType(c.type)
      <3> DEFINE x == Byte(MySQLType(c.type))
      <3>1. x.id = MySQLType(c.type)
        BY <2>6, BytesArePieces
      <3>2. Written(s, k + 8, <<x>>)
        BY <2>1 DEF ColumnTail
      <3> HIDE DEF x
      <3>3. Len(<<x>>) = 1 /\ <<x>>[1] = x /\ 1 \in 1 .. 1 /\ k + 8 + 1 - 1 = k + 8 /\ k + 8 <= Len(s)
        BY <1>5, <2>1
      <3>4. s[k + 8] = x
        BY <3>2, <3>3 DEF Written
      <3> QED
        BY <2>3, <3>1, <3>4
    <2>10. types = {c.type}
      <3>1. c.type \in Types
        BY DEF ColumnRecords
      <3> QED
        BY <2>7, <2>9, <3>1, TypesDiffer DEF types
    <2>11. ~bad
      BY <2>4, <2>5, <2>10 DEF bad
    <2>12. found = c
      <3>1. /\ names.values[2] = c.db /\ names.values[3] = c.table /\ names.values[5] = c.name
            /\ (CHOOSE t \in types : TRUE) = c.type
        BY <1>2, <2>2, <2>10
      <3>2. /\ (flags % 2 = 1) = c.not_null /\ ((flags \div 2) % 2 = 1) = c.primary_key
            /\ (flags >= 512) = c.auto_increment
        <4>1. c.not_null \in BOOLEAN /\ c.primary_key \in BOOLEAN /\ c.auto_increment \in BOOLEAN
          BY DEF ColumnRecords
        <4>2. /\ flags % 2 = 1 <=> c.not_null
              /\ (flags \div 2) % 2 = 1 <=> c.primary_key
              /\ flags >= 512 <=> c.auto_increment
          BY <2>8, FlagsRead
        <4> QED
          BY <4>1, <4>2
      <3>3. found = [db |-> c.db, table |-> c.table, name |-> c.name, type |-> c.type,
                     not_null |-> c.not_null, primary_key |-> c.primary_key,
                     auto_increment |-> c.auto_increment]
        BY <3>1, <3>2, Zenon DEF found
      <3>4. c = [db |-> c.db, table |-> c.table, name |-> c.name, type |-> c.type,
                 not_null |-> c.not_null, primary_key |-> c.primary_key,
                 auto_increment |-> c.auto_increment]
        BY DEF ColumnRecords
      <3> QED
        BY <3>3, <3>4
    <2> QED
      BY <2>11, <2>12
  <1> QED
    BY <1>1, <1>9, <1>10 DEF w

-----------------------------------------------------------------------------
(* Packets: one *)

LEMMA SumsAgree ==
  ASSUME NEW ns \in Seq(Nat), NEW ms \in Seq(Nat), Len(ms) <= Len(ns),
         \A j \in 1 .. Len(ms) : ns[j] = ms[j]
  PROVE  \A k \in 0 .. Len(ms) : Sums(ns)[k] = Sums(ms)[k]
  <1> DEFINE f == Sums(ns)
             g == Sums(ms)
             n == Len(ns)
             m == Len(ms)
             S == {k \in 0 .. m : f[k] = g[k]}
  <1>1. f[0] = 0 /\ \A k \in 1 .. n : f[k] = f[k - 1] + ns[k]
    BY SumsAre
  <1>2. g[0] = 0 /\ \A k \in 1 .. m : g[k] = g[k - 1] + ms[k]
    BY SumsAre
  <1>3. n \in Nat /\ m \in Nat /\ m <= n
    OBVIOUS
  <1> HIDE DEF f, g, n
  <1>4. 0 \in S
    BY <1>1, <1>2, <1>3
  <1>5. ASSUME NEW k \in 1 .. m, k - 1 \in S  PROVE k \in S
    <2>1. k \in 1 .. n /\ k \in 0 .. m /\ ns[k] = ms[k]
      BY <1>3
    <2>2. f[k - 1] = g[k - 1]
      BY <1>5
    <2>3. f[k] = g[k]
      BY <1>1, <1>2, <2>1, <2>2
    <2> QED
      BY <2>1, <2>3
  <1>6. S \in SUBSET (0 .. m)
    OBVIOUS
  <1>7. \A k \in 0 .. m : k \in S
    <2> HIDE DEF S, m
    <2> QED
      BY <1>3, <1>4, <1>5, <1>6, Induct
  <1> QED
    BY <1>7 DEF f, g

LEMMA SumsGrow ==
  ASSUME NEW ns \in Seq(Nat), \A k \in 1 .. Len(ns) : ns[k] # 0
  PROVE  /\ \A k \in 0 .. Len(ns) : Sums(ns)[k] \in Nat
         /\ \A j, k \in 0 .. Len(ns) : j < k => Sums(ns)[j] < Sums(ns)[k]
  <1> DEFINE f == Sums(ns)
             n == Len(ns)
  <1>1. /\ \A k \in 0 .. n : f[k] \in Nat
        /\ \A k \in 1 .. n : f[k] = f[k - 1] + ns[k]
    BY SumsAre
  <1>2. n \in Nat /\ \A k \in 1 .. n : ns[k] \in Nat \ {0}
    BY ElementOfSeq
  <1> HIDE DEF f, n
  <1>3. ASSUME NEW j \in 0 .. n  PROVE \A k \in 0 .. n : j < k => f[j] < f[k]
    <2> DEFINE S == {k \in 0 .. n : j < k => f[j] < f[k]}
    <2>1. 0 \in S
      BY <1>2
    <2>2. ASSUME NEW k \in 1 .. n, k - 1 \in S  PROVE k \in S
      <3>1. f[k] = f[k - 1] + ns[k] /\ ns[k] \in Nat \ {0} /\ k \in 0 .. n /\ k - 1 \in 0 .. n
        BY <1>1, <1>2
      <3>2. f[k] \in Nat /\ f[k - 1] \in Nat /\ f[j] \in Nat
        BY <1>1, <3>1
      <3>3. ASSUME j < k  PROVE f[j] < f[k]
        <4>1. j = k - 1 \/ j < k - 1
          BY <3>3
        <4>2. j < k - 1 => f[j] < f[k - 1]
          BY <2>2
        <4> QED
          BY <3>1, <3>2, <4>1, <4>2
      <3> QED
        BY <3>1, <3>3
    <2>3. S \in SUBSET (0 .. n)
      OBVIOUS
    <2>4. \A k \in 0 .. n : k \in S
      <3> HIDE DEF S
      <3> QED
        BY <1>2, <2>1, <2>2, <2>3, Induct
    <2> QED
      BY <2>4
  <1> QED
    BY <1>1, <1>3 DEF f, n

\* A stream that begins with p, or of which p is the beginning that n bytes take.
LEMMA TakingIs ==
  ASSUME NEW s \in Seq(Pieces), NEW p \in Seq(Pieces), Len(p) <= Len(s),
         \A j \in 1 .. Len(p) : s[j] = p[j], NEW n \in Nat
  PROVE  /\ Size(p) \in Nat
         /\ n = Size(p) => Taking(s, n) = Len(p)
         /\ n < Size(p) => Taking(s, n) = -1 \/ Taking(s, n) \in 0 .. Len(p) - 1
  <1> DEFINE f == Sums(Lens(s))
             m == Len(p)
             l == Len(s)
             fits(k) == k \in 0 .. l /\ f[k] = n
  <1>1. /\ Lens(s) \in Seq(Nat) /\ Len(Lens(s)) = l
        /\ \A k \in 1 .. l : Lens(s)[k] = s[k].len
    BY LensAre
  <1>2. /\ Lens(p) \in Seq(Nat) /\ Len(Lens(p)) = m
        /\ \A k \in 1 .. m : Lens(p)[k] = p[k].len
    BY LensAre
  <1>3. m \in Nat /\ l \in Nat /\ m <= l
    OBVIOUS
  <1>4. \A k \in 1 .. l : Lens(s)[k] # 0
    <2>1. \A k \in 1 .. l : s[k] \in Pieces
      BY ElementOfSeq
    <2> QED
      BY <1>1, <2>1 DEF Pieces
  <1>5. /\ \A k \in 0 .. l : f[k] \in Nat
        /\ \A j, k \in 0 .. l : j < k => f[j] < f[k]
    BY <1>1, <1>4, SumsGrow
  <1>6. f[m] = Size(p)
    <2>1. \A j \in 1 .. m : Lens(s)[j] = Lens(p)[j]
      <3> TAKE j \in 1 .. m
      <3>1. j \in 1 .. l /\ s[j] = p[j]
        BY <1>3
      <3> QED
        BY <1>1, <1>2, <3>1
    <2>2. \A k \in 0 .. m : f[k] = Sums(Lens(p))[k]
      BY <1>1, <1>2, <1>3, <2>1, SumsAgree
    <2>3. Size(p) = Sums(Lens(p))[m]
      BY <1>2 DEF Size, Total
    <2> QED
      BY <1>3, <2>2, <2>3
  <1>7. Taking(s, n) = IF \E k \in 0 .. l : f[k] = n THEN CHOOSE k \in 0 .. l : f[k] = n ELSE -1
    BY Zenon DEF Taking
  <1> HIDE DEF f, m, l
  <1>8. m \in 0 .. l /\ Size(p) \in Nat
    BY <1>3, <1>5, <1>6
  <1>9. ASSUME n = Size(p)  PROVE Taking(s, n) = m
    <2>1. f[m] = n
      BY <1>6, <1>9
    <2>2. \A k \in 0 .. l : f[k] = n => k = m
      <3> TAKE k \in 0 .. l
      <3>1. k < m \/ k = m \/ m < k
        BY <1>3
      <3> QED
        BY <1>5, <1>8, <2>1, <3>1
    <2>3. (CHOOSE k \in 0 .. l : f[k] = n) = m
      BY <1>8, <2>1, <2>2
    <2> QED
      BY <1>7, <1>8, <2>1, <2>3
  <1>10. ASSUME n < Size(p)  PROVE Taking(s, n) = -1 \/ Taking(s, n) \in 0 .. m - 1
    <2>1. CASE \E k \in 0 .. l : f[k] = n
      <3>1. PICK k \in 0 .. l : f[k] = n /\ Taking(s, n) = k
        BY <1>7, <2>1
      <3>2. k < m
        <4>1. k < m \/ k = m \/ m < k
          BY <1>3
        <4>2. f[m] > n
          BY <1>6, <1>8, <1>10
        <4>3. m < k => f[m] < f[k]
          BY <1>5, <1>8
        <4>4. f[m] \in Nat
          BY <1>5, <1>8
        <4> QED
          BY <3>1, <4>1, <4>2, <4>3, <4>4
      <3> QED
        BY <1>3, <3>1, <3>2
    <2>2. CASE ~\E k \in 0 .. l : f[k] = n
      BY <1>7, <2>2
    <2> QED
      BY <2>1, <2>2
  <1> QED
    BY <1>8, <1>9, <1>10 DEF m

LEMMA Cut ==
  ASSUME NEW X, NEW s \in Seq(X), NEW m \in Nat \ {0}, NEW n \in Nat, n <= Len(s)
  PROVE  /\ SubSeq(s, m, n) \in Seq(X)
         /\ Len(SubSeq(s, m, n)) = IF m <= n THEN n - m + 1 ELSE 0
         /\ \A i \in 1 .. n - m + 1 : SubSeq(s, m, n)[i] = s[m + i - 1]
  <1>1. \A i \in m .. n : s[i] \in X
    <2>1. Len(s) \in Nat
      OBVIOUS
    <2>2. \A i \in m .. n : i \in 1 .. Len(s)
      BY <2>1
    <2> QED
      BY <2>2, ElementOfSeq
  <1>2. m \in Int /\ n \in Int
    OBVIOUS
  <1> QED
    BY <1>1, <1>2, SubSeqProperties

\* A length that a header can declare without another packet behind it.
FitsOne(n) == n < 2 ^ 24 - 1

LEMMA HeaderLength ==
  ASSUME NEW n \in Nat
  PROVE  /\ n % 2 ^ 24 \in Nat /\ HasWidth(n % 2 ^ 24, 3)
         /\ FitsOne(n) => n % 2 ^ 24 = n
         /\ ~FitsOne(n) /\ FitsOne(n % 2 ^ 24) => n % 2 ^ 24 < n
  BY SMT DEF HasWidth, FitsOne

LEMMA PacketIs ==
  ASSUME NEW p \in Seq(Pieces), NEW q \in 0 .. 255
  PROVE  /\ Packet(p, q) \in Seq(Pieces) /\ Len(Packet(p, q)) = 4 + Len(p)
         /\ Within(Packet(p, q), 1, WriteUint(Size(p) % 2 ^ 24, 3))
         /\ Packet(p, q)[4] = Byte(q) /\ \A j \in 1 .. Len(p) : Packet(p, q)[4 + j] = p[j]
  <1> DEFINE u == WriteUint(Size(p) % 2 ^ 24, 3)
             b == <<Byte(q)>>
             v == u \o b
             m == Len(p)
  <1>0. Byte(q) \in Pieces
    BY BytesArePieces
  <1>1. u \in Seq(Pieces) /\ Len(u) = 3
    <2>1. PICK three \in 2 .. 4 : three = 3
      OBVIOUS
    <2>2. WriteUint(Size(p) % 2 ^ 24, three) \in Seq(Pieces) /\ Len(WriteUint(Size(p) % 2 ^ 24, three)) = three
      BY SizeType, HeaderLength, UintIs
    <2> QED
      BY <2>1, <2>2, Zenon
  <1>2. Packet(p, q) = v \o p
    BY Zenon DEF Packet
  <1> DEFINE w == Packet(p, q)
             x == Byte(q)
  <1>3. b = <<x>> /\ x \in Pieces
    BY <1>0
  <1> HIDE DEF u, b, w, x
  <1>4. v \in Seq(Pieces) /\ Len(v) = 4 /\ v[4] = x /\ \A j \in 1 .. 3 : v[j] = u[j]
    <2>1. PICK three \in Nat, one \in Nat : three = 3 /\ one = 1
      OBVIOUS
    <2>2. b \in Seq(Pieces) /\ Len(b) = one /\ b[1] = x
      BY <1>3, <2>1
    <2>3. Len(u) = three
      BY <1>1, <2>1
    <2>4. u \o b \in Seq(Pieces) /\ Behind(u \o b, u, b, three, one)
      BY <1>1, <2>2, <2>3, ConcatParts
    <2>5. v \in Seq(Pieces) /\ Behind(v, u, b, 3, 1)
      BY <2>1, <2>4, Zenon
    <2> HIDE DEF v
    <2> QED
      BY <2>2, <2>5 DEF Behind
  <1> HIDE DEF v
  <1>5. m \in Nat /\ w \in Seq(Pieces) /\ Behind(w, v, p, 4, m)
    <2>1. PICK four \in Nat : four = 4
      OBVIOUS
    <2>2. m \in Nat /\ Len(p) = m
      OBVIOUS
    <2> HIDE DEF m
    <2>3. Len(v) = four
      BY <1>4, <2>1
    <2>4. v \o p \in Seq(Pieces) /\ Behind(v \o p, v, p, four, m)
      BY <1>4, <2>2, <2>3, ConcatParts
    <2> QED
      BY <1>2, <2>1, <2>2, <2>4, Zenon DEF w
  <1> HIDE DEF m
  <1>6. /\ Len(w) = 4 + m /\ (\A j \in 1 .. 4 : w[j] = v[j]) /\ (\A j \in 1 .. m : w[4 + j] = p[j])
    BY <1>5 DEF Behind
  <1>7. Within(w, 1, u)
    <2>1. \A j \in 1 .. 3 : w[1 + j - 1] = u[j]
      <3> TAKE j \in 1 .. 3
      <3>1. j \in 1 .. 4 /\ 1 + j - 1 = j
        OBVIOUS
      <3> QED
        BY <1>4, <1>6, <3>1
    <2>2. 1 + 3 - 1 <= Len(w)
      BY <1>5, <1>6
    <2> QED
      BY <1>1, <2>1, <2>2 DEF Within
  <1>8. w[4] = x
    <2>1. 4 \in 1 .. 4
      OBVIOUS
    <2> QED
      BY <1>4, <1>6, <2>1
  <1> QED
    BY <1>5, <1>6, <1>7, <1>8 DEF w, u, x, m

PacketWhole(s, i, p, q) ==
  PacketAt(s, i) = [packet |-> [seq |-> q, payload |-> p], next |-> i + 4 + Len(p)]
PacketCut(s, i, p, q) ==
  \/ PacketAt(s, i) = [packet |-> Lost, next |-> Len(s) + 1]
  \/ \E k \in 0 .. Len(p) - 1 :
       PacketAt(s, i) = [packet |-> [seq |-> q, payload |-> SubSeq(p, 1, k)], next |-> i + 4 + k]

\* A packet in a stream is read as it was written if its length fits the header; otherwise
\* some of it is read, or nothing.
LEMMA PacketRead ==
  ASSUME NEW s \in Seq(Pieces), NEW i \in Nat \ {0}, NEW p \in Seq(Pieces), NEW q \in 0 .. 255,
         Within(s, i, Packet(p, q))
  PROVE  /\ FitsOne(Size(p)) => PacketWhole(s, i, p, q)
         /\ ~FitsOne(Size(p)) => PacketCut(s, i, p, q)
  <1> DEFINE w == Packet(p, q)
             m == Len(p)
             l == Len(s)
             n == Size(p) % 2 ^ 24
             size == ReadUint(s, i, 3)
             behind == SubSeq(s, i + 4, l)
             k == Taking(behind, size)
  <1>1. /\ Len(w) = 4 + m /\ Within(w, 1, WriteUint(n, 3))
        /\ w[4] = Byte(q) /\ \A j \in 1 .. m : w[4 + j] = p[j]
    BY PacketIs
  <1>2. /\ Size(p) \in Nat /\ n \in Nat /\ HasWidth(n, 3)
        /\ FitsOne(Size(p)) => n = Size(p)
        /\ ~FitsOne(Size(p)) /\ FitsOne(n) => n < Size(p)
    BY SizeType, HeaderLength
  <1>3. PacketAt(s, i) =
          IF AreBytes(s, i, 4) /\ FitsOne(size) /\ k >= 0
          THEN [packet |-> [seq |-> s[i + 3].id, payload |-> SubSeq(behind, 1, k)], next |-> i + 4 + k]
          ELSE [packet |-> Lost, next |-> l + 1]
    BY Zenon DEF PacketAt, FitsOne
  <1>4. m \in Nat /\ l \in Nat
    OBVIOUS
  <1> HIDE DEF n, w, m, l, behind, k, size
  <1>5. i + 4 + m - 1 <= l /\ \A j \in 1 .. 4 + m : s[i + j - 1] = w[j]
    <2>1. i + Len(w) - 1 <= Len(s) /\ \A j \in 1 .. Len(w) : s[i + j - 1] = w[j]
      BY DEF Within, w
    <2> QED
      BY <1>1, <1>4, <2>1 DEF l
  <1>6. size = n /\ AreBytes(s, i, 3)
    <2>1. PICK three \in 2 .. 4 : three = 3
      OBVIOUS
    <2> DEFINE u == WriteUint(n, three)
    <2>2. Len(u) = three
      BY <1>2, UintIs
    <2>3. Within(w, 1, u)
      BY <1>1, <2>1, Zenon
    <2> HIDE DEF u
    <2>4. \A j \in 1 .. 3 : w[j] = u[j]
      <3>1. \A j \in 1 .. 3 : w[1 + j - 1] = u[j]
        BY <2>1, <2>2, <2>3 DEF Within
      <3>2. \A j \in 1 .. 3 : 1 + j - 1 = j
        OBVIOUS
      <3> QED
        BY <3>1, <3>2
    <2>5. Written(s, i, u)
      <3>1. \A j \in 1 .. 3 : s[i + j - 1] = u[j]
        <4> TAKE j \in 1 .. 3
        <4>1. j \in 1 .. 4 + m
          BY <1>4
        <4> QED
          BY <1>5, <2>4, <4>1
      <3> QED
        BY <2>1, <2>2, <3>1 DEF Written
    <2>6. i + three - 1 <= Len(s) /\ HasWidth(n, three)
      BY <1>2, <1>4, <1>5, <2>1 DEF l
    <2>7. ReadUint(s, i, three) = n /\ AreBytes(s, i, three)
      BY <1>2, <2>5, <2>6, NumberRead DEF u
    <2> QED
      BY <2>1, <2>7, Zenon DEF size
  <1>7. s[i + 3] = Byte(q) /\ s[i + 3].id = q /\ IsByte(s[i + 3])
    <2>1. 4 \in 1 .. 4 + m /\ i + 4 - 1 = i + 3
      BY <1>4
    <2>2. s[i + 3] = Byte(q)
      BY <1>1, <1>5, <2>1
    <2> QED
      BY <2>2, BytesArePieces
  <1>8. AreBytes(s, i, 4)
    <2>1. AreBytes(s, i + 3, 1)
      <3>1. i + 3 + 1 - 1 <= Len(s)
        BY <1>4, <1>5 DEF l
      <3>2. \A j \in i + 3 .. i + 3 + 1 - 1 : IsByte(s[j])
        <4>1. \A j \in i + 3 .. i + 3 + 1 - 1 : j = i + 3
          OBVIOUS
        <4> QED
          BY <1>7, <4>1
      <3> QED
        BY <3>1, <3>2 DEF AreBytes
    <2>2. AreBytes(s, i, 3 + 1)
      BY <1>6, <2>1, BytesJoin
    <2> QED
      BY <2>2
  <1>9. /\ behind \in Seq(Pieces) /\ m <= Len(behind)
        /\ \A j \in 1 .. m : behind[j] = p[j]
    <2>1. i + 4 \in Nat \ {0} /\ l <= Len(s)
      BY <1>4 DEF l
    <2>2. /\ behind \in Seq(Pieces)
          /\ Len(behind) = IF i + 4 <= l THEN l - (i + 4) + 1 ELSE 0
          /\ \A j \in 1 .. l - (i + 4) + 1 : behind[j] = s[i + 4 + j - 1]
      BY <1>4, <2>1, Cut DEF behind
    <2>3. m <= Len(behind) /\ m <= l - (i + 4) + 1
      BY <1>4, <1>5, <2>2
    <2>4. ASSUME NEW j \in 1 .. m  PROVE behind[j] = p[j]
      <3>1. j \in 1 .. l - (i + 4) + 1
        BY <1>4, <2>3
      <3>2. behind[j] = s[i + 4 + j - 1]
        BY <2>2, <3>1
      <3>3. 4 + j \in 1 .. 4 + m /\ i + (4 + j) - 1 = i + 4 + j - 1
        BY <1>4
      <3>4. s[i + (4 + j) - 1] = w[4 + j]
        BY <1>5, <3>3
      <3> QED
        BY <1>1, <3>2, <3>3, <3>4
    <2> QED
      BY <2>2, <2>3, <2>4
  <1>10. /\ n = Size(p) => k = m
         /\ n < Size(p) => k = -1 \/ k \in 0 .. m - 1
    BY <1>2, <1>6, <1>9, TakingIs DEF k, m
  <1>11. ASSUME NEW j \in 0 .. m  PROVE SubSeq(behind, 1, j) = SubSeq(p, 1, j)
    <2>1. j \in Nat /\ j <= Len(behind) /\ j <= Len(p) /\ 1 \in Nat \ {0}
      BY <1>4, <1>9 DEF m
    <2>2. /\ SubSeq(behind, 1, j) \in Seq(Pieces) /\ Len(SubSeq(behind, 1, j)) = j
          /\ \A x \in 1 .. j : SubSeq(behind, 1, j)[x] = behind[x]
      <3>1. /\ SubSeq(behind, 1, j) \in Seq(Pieces)
            /\ Len(SubSeq(behind, 1, j)) = IF 1 <= j THEN j - 1 + 1 ELSE 0
            /\ \A x \in 1 .. j - 1 + 1 : SubSeq(behind, 1, j)[x] = behind[1 + x - 1]
        BY <1>9, <2>1, Cut
      <3> QED
        BY <2>1, <3>1
    <2>3. /\ SubSeq(p, 1, j) \in Seq(Pieces) /\ Len(SubSeq(p, 1, j)) = j
          /\ \A x \in 1 .. j : SubSeq(p, 1, j)[x] = p[x]
      <3>1. /\ SubSeq(p, 1, j) \in Seq(Pieces)
            /\ Len(SubSeq(p, 1, j)) = IF 1 <= j THEN j - 1 + 1 ELSE 0
            /\ \A x \in 1 .. j - 1 + 1 : SubSeq(p, 1, j)[x] = p[1 + x - 1]
        BY <2>1, Cut
      <3> QED
        BY <2>1, <3>1
    <2>4. \A x \in 1 .. j : x \in 1 .. m
      BY <1>4
    <2>5. \A x \in 1 .. Len(SubSeq(behind, 1, j)) : SubSeq(behind, 1, j)[x] = SubSeq(p, 1, j)[x]
      BY <1>9, <2>2, <2>3, <2>4
    <2> QED
      BY <2>2, <2>3, <2>5, SeqEqual
  <1>12. ASSUME FitsOne(Size(p))  PROVE PacketWhole(s, i, p, q)
    <2>1. n = Size(p) /\ k = m /\ FitsOne(size) /\ k >= 0
      BY <1>2, <1>4, <1>6, <1>10, <1>12
    <2>2. SubSeq(behind, 1, k) = p
      <3>1. m \in 0 .. m
        BY <1>4
      <3>2. SubSeq(behind, 1, m) = SubSeq(p, 1, m)
        BY <1>11, <3>1
      <3>3. SubSeq(p, 1, m) = p
        BY DEF m
      <3> QED
        BY <2>1, <3>2, <3>3
    <2> QED
      BY <1>3, <1>7, <1>8, <2>1, <2>2 DEF PacketWhole, m
  <1>13. ASSUME ~FitsOne(Size(p))  PROVE PacketCut(s, i, p, q)
    <2>1. CASE FitsOne(size) /\ k >= 0
      <3>1. n < Size(p)
        BY <1>2, <1>6, <1>13, <2>1
      <3>2. k \in 0 .. m - 1
        BY <1>10, <2>1, <3>1
      <3>3. SubSeq(behind, 1, k) = SubSeq(p, 1, k)
        <4>1. k \in 0 .. m
          BY <1>4, <3>2
        <4> QED
          BY <1>11, <4>1
      <3>4. PacketAt(s, i) = [packet |-> [seq |-> q, payload |-> SubSeq(p, 1, k)], next |-> i + 4 + k]
        BY <1>3, <1>7, <1>8, <2>1, <3>3
      <3> QED
        BY <3>2, <3>4 DEF PacketCut, m
    <2>2. CASE ~(FitsOne(size) /\ k >= 0)
      BY <1>3, <2>2 DEF PacketCut, l
    <2> QED
      BY <2>1, <2>2
  <1> QED
    BY <1>12, <1>13

-----------------------------------------------------------------------------
(* Packets: all of them *)

AnyPacket == [seq : Nat, payload : Seq(Pieces)] \cup {Lost}

LEMMA PacketEnds ==
  ASSUME NEW s \in Seq(Pieces), NEW i \in Nat \ {0}
  PROVE  PacketAt(s, i).packet \in AnyPacket /\ PacketAt(s, i).next \in Nat \ {0}
  <1> DEFINE size == ReadUint(s, i, 3)
             behind == SubSeq(s, i + 4, Len(s))
             k == Taking(behind, size)
             whole == AreBytes(s, i, 4) /\ size < 2 ^ 24 - 1 /\ k >= 0
  <1>1. PacketAt(s, i) =
          IF whole
          THEN [packet |-> [seq |-> s[i + 3].id, payload |-> SubSeq(behind, 1, k)], next |-> i + 4 + k]
          ELSE [packet |-> Lost, next |-> Len(s) + 1]
    BY Zenon DEF PacketAt
  <1>2. behind \in Seq(Pieces)
    <2>1. i + 4 \in Nat \ {0} /\ Len(s) \in Nat /\ Len(s) <= Len(s)
      OBVIOUS
    <2> QED
      BY <2>1, Cut
  <1> HIDE DEF behind
  <1>3. k = -1 \/ k \in 0 .. Len(behind)
    BY DEF Taking
  <1> HIDE DEF k, size
  <1>4. CASE whole
    <2>1. k \in Nat /\ k <= Len(behind)
      BY <1>2, <1>3, <1>4
    <2>2. SubSeq(behind, 1, k) \in Seq(Pieces)
      <3>1. 1 \in Nat \ {0}
        OBVIOUS
      <3> QED
        BY <1>2, <2>1, <3>1, Cut
    <2>3. s[i + 3].id \in Nat
      <3>1. i + 4 - 1 <= Len(s)
        BY <1>4 DEF AreBytes
      <3>2. i + 3 \in 1 .. Len(s)
        BY <3>1
      <3>3. s[i + 3] \in Pieces
        BY <3>2, ElementOfSeq
      <3> QED
        BY <3>3 DEF Pieces
    <2>4. [seq |-> s[i + 3].id, payload |-> SubSeq(behind, 1, k)] \in AnyPacket
      BY <2>2, <2>3 DEF AnyPacket
    <2>5. i + 4 + k \in Nat \ {0}
      BY <2>1
    <2> HIDE DEF whole
    <2> QED
      BY <1>1, <1>4, <2>4, <2>5
  <1>5. CASE ~whole
    <2>1. PacketAt(s, i) = [packet |-> Lost, next |-> Len(s) + 1]
      BY <1>1, <1>5, Zenon
    <2>2. Lost \in AnyPacket /\ Len(s) + 1 \in Nat \ {0}
      BY DEF AnyPacket
    <2> QED
      BY <2>1, <2>2
  <1> QED
    BY <1>4, <1>5

\* What has been read of a stream after k packets, if it has so many.
Unread == [packets |-> <<>>, next |-> 1]
OneMore(s, done) ==
  IF done.next > Len(s) THEN done
  ELSE [packets |-> Append(done.packets, PacketAt(s, done.next).packet),
        next |-> PacketAt(s, done.next).next]
ReadOf(f, s) == f = [k \in 0 .. MostPackets(s) |-> IF k = 0 THEN Unread ELSE OneMore(s, f[k - 1])]
Reading(f, s) ==
  /\ f \in [0 .. MostPackets(s) -> [packets : Seq(AnyPacket), next : Nat \ {0}]]
  /\ f[0] = Unread /\ \A k \in 1 .. MostPackets(s) : f[k] = OneMore(s, f[k - 1])
  /\ Packets(s) = f[MostPackets(s)].packets

LEMMA MostIs ==
  ASSUME NEW s \in Seq(Pieces)
  PROVE  MostPackets(s) \in Nat /\ \A k \in Nat : 4 * k <= Len(s) => k < MostPackets(s)
  <1>1. Len(s) \in Nat
    OBVIOUS
  <1> DEFINE n == Len(s)
  <1>2. MostPackets(s) = n \div 4 + 1 /\ n \in Nat
    BY <1>1 DEF MostPackets
  <1> HIDE DEF n
  <1>3. n \div 4 + 1 \in Nat /\ \A k \in Nat : 4 * k <= n => k < n \div 4 + 1
    BY <1>2
  <1> QED
    BY <1>2, <1>3 DEF n

LEMMA OneMoreType ==
  ASSUME NEW s \in Seq(Pieces), NEW done \in [packets : Seq(AnyPacket), next : Nat \ {0}]
  PROVE  OneMore(s, done) \in [packets : Seq(AnyPacket), next : Nat \ {0}]
  <1> DEFINE p == PacketAt(s, done.next)
  <1>1. done.next \in Nat \ {0} /\ done.packets \in Seq(AnyPacket)
    OBVIOUS
  <1>2. p.packet \in AnyPacket /\ p.next \in Nat \ {0}
    BY <1>1, PacketEnds
  <1> HIDE DEF p
  <1>3. Append(done.packets, p.packet) \in Seq(AnyPacket)
    BY <1>1, <1>2
  <1>4. OneMore(s, done) = IF done.next > Len(s) THEN done
                           ELSE [packets |-> Append(done.packets, p.packet), next |-> p.next]
    BY Zenon DEF OneMore, p
  <1> QED
    BY <1>2, <1>3, <1>4

LEMMA PacketsAre ==
  ASSUME NEW s \in Seq(Pieces)
  PROVE  \E f : Reading(f, s)
  <1> DEFINE n == MostPackets(s)
             T == [packets : Seq(AnyPacket), next : Nat \ {0}]
             step == [p \in (1 .. n) \X T |-> OneMore(s, p[2])]
  <1>1. n \in Nat
    BY MostIs
  <1> HIDE DEF n
  <1>2. ASSUME NEW k \in 1 .. n, NEW x \in T
        PROVE  step[<<k, x>>] = OneMore(s, x) /\ step[<<k, x>>] \in T
    <2> HIDE DEF T
    <2>1. <<k, x>> \in (1 .. n) \X T
      OBVIOUS
    <2>2. step[<<k, x>>] = OneMore(s, x)
      BY <2>1
    <2> HIDE DEF step
    <2> QED
      BY <2>2, OneMoreType DEF T
  <1>3. Unread \in T
    BY DEF Unread
  <1>4. PICK f \in [0 .. n -> T] : Steps(f, n, Unread, step)
    <2> HIDE DEF step, T
    <2> QED
      BY <1>1, <1>2, <1>3, StepsExist
  <1> HIDE DEF step, T
  <1>5. ReadOf(f, s)
    <2>1. ASSUME NEW k \in 0 .. n  PROVE f[k] = IF k = 0 THEN Unread ELSE OneMore(s, f[k - 1])
      <3>1. CASE k = 0
        BY <1>4, <3>1 DEF Steps
      <3>2. CASE k # 0
        <4>1. k \in 1 .. n /\ k - 1 \in 0 .. n
          BY <1>1, <3>2
        <4>2. f[k - 1] \in T /\ f[k] = step[<<k, f[k - 1]>>]
          BY <1>4, <4>1 DEF Steps
        <4> QED
          BY <1>2, <3>2, <4>1, <4>2
      <3> QED
        BY <3>1, <3>2
    <2> QED
      BY <1>4, <2>1 DEF ReadOf, n
  <1> DEFINE g == CHOOSE g : ReadOf(g, s)
  <1>6. ReadOf(g, s)
    BY <1>5
  <1>7. Packets(s) = g[n].packets
    BY Zenon DEF Packets, ReadOf, OneMore, Unread, n
  <1> HIDE DEF g
  <1>8. g = [k \in 0 .. n |-> IF k = 0 THEN Unread ELSE OneMore(s, g[k - 1])]
    BY <1>6, Zenon DEF ReadOf, n
  <1>9. g[0] = Unread /\ \A k \in 1 .. n : g[k] = OneMore(s, g[k - 1])
    <2>1. 0 \in 0 .. n /\ \A k \in 1 .. n : k \in 0 .. n /\ k # 0
      BY <1>1
    <2> QED
      BY <1>8, <2>1
  <1>10. \A k \in 0 .. n : g[k] \in T
    <2>1. g[0] \in T
      BY <1>3, <1>9
    <2>2. ASSUME NEW k \in 1 .. n, g[k - 1] \in T  PROVE g[k] \in T
      BY <1>9, <2>2, OneMoreType DEF T
    <2> QED
      BY <1>1, <2>1, <2>2, StepsStay
  <1>11. g \in [0 .. n -> T]
    BY <1>8, <1>10
  <1>12. Reading(g, s)
    BY <1>7, <1>9, <1>11 DEF Reading, n, T
  <1> QED
    BY <1>12

LEMMA OneMoreKeeps ==
  ASSUME NEW s \in Seq(Pieces), NEW done \in [packets : Seq(AnyPacket), next : Nat \ {0}]
  PROVE  /\ Len(OneMore(s, done).packets) >= Len(done.packets)
         /\ \A j \in 1 .. Len(done.packets) : OneMore(s, done).packets[j] = done.packets[j]
  <1> DEFINE p == PacketAt(s, done.next)
             seq == done.packets
  <1>1. done.next \in Nat \ {0} /\ seq \in Seq(AnyPacket)
    OBVIOUS
  <1>2. p.packet \in AnyPacket
    BY <1>1, PacketEnds
  <1>3. OneMore(s, done) = IF done.next > Len(s) THEN done
                           ELSE [packets |-> Append(seq, p.packet), next |-> p.next]
    BY Zenon DEF OneMore
  <1> HIDE DEF p, seq
  <1>4. /\ Len(Append(seq, p.packet)) = Len(seq) + 1
        /\ \A j \in 1 .. Len(seq) : Append(seq, p.packet)[j] = seq[j]
    BY <1>1, <1>2
  <1>5. OneMore(s, done).packets = seq \/ OneMore(s, done).packets = Append(seq, p.packet)
    BY <1>3 DEF seq
  <1>6. Len(seq) \in Nat
    BY <1>1
  <1> QED
    BY <1>4, <1>5, <1>6 DEF seq

LEMMA ReadKeeps ==
  ASSUME NEW s \in Seq(Pieces), NEW f, Reading(f, s), NEW m \in 0 .. MostPackets(s)
  PROVE  /\ Packets(s) \in Seq(AnyPacket) /\ Len(Packets(s)) >= Len(f[m].packets)
         /\ \A j \in 1 .. Len(f[m].packets) : Packets(s)[j] = f[m].packets[j]
  <1> DEFINE n == MostPackets(s)
             p == f[m].packets
             S == {k \in 0 .. n : k >= m => /\ Len(f[k].packets) >= Len(p)
                                            /\ \A j \in 1 .. Len(p) : f[k].packets[j] = p[j]}
  <1>1. n \in Nat /\ m \in 0 .. n
    BY MostIs
  <1> HIDE DEF n
  <1>2. \A k \in 0 .. n : /\ f[k] \in [packets : Seq(AnyPacket), next : Nat \ {0}]
                          /\ f[k].packets \in Seq(AnyPacket) /\ Len(f[k].packets) \in Nat
    <2>1. \A k \in 0 .. n : f[k] \in [packets : Seq(AnyPacket), next : Nat \ {0}]
      BY DEF Reading, n
    <2>2. \A k \in 0 .. n : f[k].packets \in Seq(AnyPacket)
      BY <2>1
    <2>3. \A k \in 0 .. n : Len(f[k].packets) \in Nat
      BY <2>2
    <2> QED
      BY <2>1, <2>2, <2>3
  <1>3. \A k \in 1 .. n : f[k] = OneMore(s, f[k - 1])
    BY DEF Reading, n
  <1>4. m \in S
    BY <1>1, <1>2
  <1> HIDE DEF p
  <1>5. 0 \in S
    BY <1>1, <1>4
  <1>6. ASSUME NEW k \in 1 .. n, k - 1 \in S  PROVE k \in S
    <2>1. k \in 0 .. n /\ k - 1 \in 0 .. n
      BY <1>1
    <2>2. CASE k > m
      <3>1. k - 1 >= m
        BY <1>1, <2>2
      <3>2. Len(f[k - 1].packets) >= Len(p) /\ \A j \in 1 .. Len(p) : f[k - 1].packets[j] = p[j]
        BY <1>6, <3>1
      <3>3. /\ Len(f[k].packets) >= Len(f[k - 1].packets)
            /\ \A j \in 1 .. Len(f[k - 1].packets) : f[k].packets[j] = f[k - 1].packets[j]
        BY <1>2, <1>3, <2>1, OneMoreKeeps
      <3>4. Len(p) \in Nat /\ Len(f[k].packets) \in Nat /\ Len(f[k - 1].packets) \in Nat
        BY <1>1, <1>2, <2>1 DEF p
      <3>5. Len(f[k].packets) >= Len(p) /\ \A j \in 1 .. Len(p) : j \in 1 .. Len(f[k - 1].packets)
        BY <3>2, <3>3, <3>4
      <3> QED
        BY <2>1, <3>2, <3>3, <3>5
    <2>3. CASE k = m
      BY <1>4, <2>3
    <2>4. CASE k < m
      BY <1>1, <2>1, <2>4
    <2> QED
      BY <1>1, <2>2, <2>3, <2>4
  <1>7. S \in SUBSET (0 .. n)
    OBVIOUS
  <1>8. n \in S
    <2>1. n \in 0 .. n
      BY <1>1
    <2> HIDE DEF S
    <2> QED
      BY <1>1, <1>5, <1>6, <1>7, <2>1, Induct
  <1>9. Packets(s) = f[n].packets
    BY DEF Reading, n
  <1>10. n \in 0 .. n
    BY <1>1
  <1>11. Len(f[n].packets) >= Len(p) /\ \A j \in 1 .. Len(p) : f[n].packets[j] = p[j]
    BY <1>1, <1>8
  <1> QED
    BY <1>2, <1>9, <1>10, <1>11 DEF p

LEMMA OffsetsGrow ==
  ASSUME NEW X, NEW seqs \in Seq(Seq(X)), NEW at, Offsets(at, seqs),
         \A k \in 1 .. Len(seqs) : Len(seqs[k]) # 0
  PROVE  /\ \A k \in 0 .. Len(seqs) : at[k] \in Nat /\ k <= at[k] /\ at[k] <= at[Len(seqs)]
         /\ \A k \in 1 .. Len(seqs) : at[k - 1] < at[k]
  <1> DEFINE n == Len(seqs)
  <1>1. n \in Nat /\ \A k \in 1 .. n : Len(seqs[k]) \in Nat \ {0}
    <2>1. \A k \in 1 .. n : seqs[k] \in Seq(X)
      BY ElementOfSeq
    <2> QED
      BY <2>1
  <1> HIDE DEF n
  <1>2. /\ \A k \in 0 .. n : at[k] \in Nat
        /\ at[0] = 0 /\ \A k \in 1 .. n : at[k] = at[k - 1] + Len(seqs[k])
    BY DEF Offsets, n
  <1>3. \A k \in 1 .. n : at[k - 1] \in Nat /\ at[k] \in Nat /\ at[k - 1] + 1 <= at[k]
    <2> TAKE k \in 1 .. n
    <2>1. k \in 0 .. n /\ k - 1 \in 0 .. n
      BY <1>1
    <2> DEFINE x == Len(seqs[k])
    <2>2. at[k - 1] \in Nat /\ at[k] \in Nat /\ at[k] = at[k - 1] + x /\ x \in Nat \ {0}
      BY <1>1, <1>2, <2>1
    <2> HIDE DEF x
    <2> QED
      BY <2>2
  <1> DEFINE S == {k \in 0 .. n : k <= at[k]}
             U == {k \in 0 .. n : at[n - k] <= at[n]}
  <1>4. \A k \in 0 .. n : k \in S
    <2>1. 0 \in S /\ S \in SUBSET (0 .. n)
      BY <1>1, <1>2
    <2>2. ASSUME NEW k \in 1 .. n, k - 1 \in S  PROVE k \in S
      <3>1. k - 1 <= at[k - 1]
        BY <2>2
      <3> QED
        BY <1>1, <1>3, <3>1
    <2> HIDE DEF S
    <2> QED
      BY <1>1, <2>1, <2>2, Induct
  <1>5. \A k \in 0 .. n : k \in U
    <2>1. 0 \in U /\ U \in SUBSET (0 .. n)
      BY <1>1, <1>2
    <2>2. ASSUME NEW k \in 1 .. n, k - 1 \in U  PROVE k \in U
      <3>1. at[n - (k - 1)] <= at[n] /\ n \in 0 .. n
        BY <1>1, <2>2
      <3>2. n - (k - 1) \in 1 .. n /\ n - (k - 1) - 1 = n - k
        BY <1>1
      <3>3. at[n - k] + 1 <= at[n - (k - 1)] /\ at[n - k] \in Nat /\ at[n - (k - 1)] \in Nat
        BY <1>3, <3>2
      <3>4. at[n - k] <= at[n]
        BY <1>2, <3>1, <3>3
      <3> QED
        BY <3>4
    <2> HIDE DEF U
    <2> QED
      BY <1>1, <2>1, <2>2, Induct
  <1>6. \A k \in 0 .. n : at[k] <= at[n]
    <2> TAKE k \in 0 .. n
    <2>1. n - k \in 0 .. n /\ n - (n - k) = k
      BY <1>1
    <2> QED
      BY <1>5, <2>1
  <1>7. \A k \in 1 .. n : at[k - 1] < at[k]
    BY <1>3
  <1> QED
    BY <1>2, <1>4, <1>6, <1>7 DEF n

\* The first m packets of a stream are ps, with numbers qs, and end at at[m].
ReadTo(f, m, at, ps, qs) ==
  /\ f[m].next = at[m] + 1 /\ Len(f[m].packets) = m
  /\ \A j \in 1 .. m : f[m].packets[j] = [seq |-> qs[j], payload |-> ps[j]]
\* The first m - 1 packets are as they were written, and the next one is not there or cut.
CutAt(packets, m, ps, qs) ==
  /\ Len(packets) >= m
  /\ \A j \in 1 .. m - 1 : packets[j] = [seq |-> qs[j], payload |-> ps[j]]
  /\ \/ packets[m] = Lost
     \/ /\ Len(packets) > m
        /\ \E k \in 0 .. Len(ps[m]) - 1 :
             packets[m] = [seq |-> qs[m], payload |-> SubSeq(ps[m], 1, k)]

ArePackets(seqs, n, ps, qs) == seqs = [k \in 1 .. n |-> Packet(ps[k], qs[k])]

PacketsAreRead(packets, n, ps, qs) ==
  /\ packets \in Seq(AnyPacket)
  /\ (\A k \in 1 .. n : FitsOne(Size(ps[k]))) =>
       Len(packets) = n /\ \A k \in 1 .. n : packets[k] = [seq |-> qs[k], payload |-> ps[k]]
  /\ \A m \in 1 .. n :
       (~FitsOne(Size(ps[m])) /\ \A j \in 1 .. m - 1 : FitsOne(Size(ps[j]))) =>
         CutAt(packets, m, ps, qs)

LEMMA PacketsRead ==
  ASSUME NEW N \in Nat, NEW ps \in Seq(Seq(Pieces)), Len(ps) = N, NEW qs \in [1 .. N -> 0 .. 255],
         NEW seqs, ArePackets(seqs, N, ps, qs), NEW s, s = FlattenSeq(seqs)
  PROVE  s \in Seq(Pieces) /\ PacketsAreRead(Packets(s), N, ps, qs)
  <1>1. \A k \in 1 .. N : ps[k] \in Seq(Pieces) /\ qs[k] \in 0 .. 255 /\ Len(ps[k]) \in Nat
    <2>1. \A k \in 1 .. N : ps[k] \in Seq(Pieces)
      BY ElementOfSeq
    <2> QED
      BY <2>1
  <1>2. \A k \in 1 .. N : /\ seqs[k] = Packet(ps[k], qs[k]) /\ seqs[k] \in Seq(Pieces)
                          /\ Len(seqs[k]) = 4 + Len(ps[k]) /\ Len(seqs[k]) # 0
    <2> TAKE k \in 1 .. N
    <2>1. Packet(ps[k], qs[k]) \in Seq(Pieces) /\ Len(Packet(ps[k], qs[k])) = 4 + Len(ps[k])
      BY <1>1, PacketIs
    <2>2. 4 + Len(ps[k]) # 0
      BY <1>1
    <2>3. seqs[k] = Packet(ps[k], qs[k])
      BY DEF ArePackets
    <2> QED
      BY <2>1, <2>2, <2>3
  <1>3. seqs \in Seq(Seq(Pieces)) /\ Len(seqs) = N
    <2>1. seqs \in [1 .. N -> Seq(Pieces)]
      <3>1. \A k \in 1 .. N : Packet(ps[k], qs[k]) \in Seq(Pieces)
        BY <1>2
      <3> QED
        BY <3>1 DEF ArePackets
    <2> QED
      BY <2>1, IsASeq
  <1>4. s \in Seq(Pieces) /\ \E at : Offsets(at, seqs)
    BY <1>3, FlatIs
  <1>5. PICK at : Offsets(at, seqs)
    BY <1>4
  <1> DEFINE L == Len(s)
  <1>6. /\ at[0] = 0 /\ at[N] = L
        /\ \A k \in 1 .. N : at[k] = at[k - 1] + 4 + Len(ps[k])
        /\ \A k \in 1 .. N : Within(s, at[k - 1] + 1, Packet(ps[k], qs[k]))
    <2>1. at[0] = 0 /\ at[N] = L /\ \A k \in 1 .. N : Within(s, at[k - 1] + 1, seqs[k])
      BY <1>3, <1>5 DEF Offsets
    <2>2. \A k \in 1 .. N : at[k] = at[k - 1] + Len(seqs[k]) /\ at[k - 1] \in Nat
      <3>1. /\ \A k \in 1 .. N : at[k] = at[k - 1] + Len(seqs[k])
            /\ \A k \in 0 .. N : at[k] \in Nat
        BY <1>3, <1>5 DEF Offsets
      <3>2. \A k \in 1 .. N : k - 1 \in 0 .. N
        OBVIOUS
      <3> QED
        BY <3>1, <3>2
    <2>3. \A k \in 1 .. N : at[k] = at[k - 1] + 4 + Len(ps[k])
      <3> TAKE k \in 1 .. N
      <3>1. at[k] = at[k - 1] + Len(seqs[k]) /\ at[k - 1] \in Nat /\ Len(ps[k]) \in Nat
        BY <1>1, <2>2
      <3>2. Len(seqs[k]) = 4 + Len(ps[k])
        BY <1>2
      <3> DEFINE a == at[k - 1]
                 x == Len(ps[k])
      <3>3. at[k] = a + (4 + x) /\ a \in Nat /\ x \in Nat
        BY <3>1, <3>2
      <3> HIDE DEF a, x
      <3>4. at[k] = a + 4 + x
        BY <3>3
      <3> QED
        BY <3>4 DEF a, x
    <2> QED
      BY <1>2, <2>1, <2>3
  <1>7. /\ \A k \in 0 .. N : at[k] \in Nat /\ k <= at[k] /\ at[k] <= L
        /\ \A k \in 1 .. N : at[k - 1] < at[k]
    <2>1. \A k \in 1 .. Len(seqs) : Len(seqs[k]) # 0
      BY <1>2, <1>3
    <2>2. /\ \A k \in 0 .. Len(seqs) : at[k] \in Nat /\ k <= at[k] /\ at[k] <= at[Len(seqs)]
          /\ \A k \in 1 .. Len(seqs) : at[k - 1] < at[k]
      BY <1>3, <1>5, <2>1, OffsetsGrow
    <2> QED
      BY <1>3, <1>6, <2>2
  <1> DEFINE R == MostPackets(s)
  <1>8. L \in Nat /\ R \in Nat /\ \A k \in 0 .. N : k < R
    <2> DEFINE S == {k \in 0 .. N : 4 * k <= at[k]}
    <2>1. 0 \in S /\ S \in SUBSET (0 .. N)
      BY <1>6
    <2>2. ASSUME NEW k \in 1 .. N, k - 1 \in S  PROVE k \in S
      <3>1. k \in 0 .. N /\ k - 1 \in 0 .. N
        OBVIOUS
      <3>2. at[k - 1] \in Nat /\ at[k] = at[k - 1] + 4 + Len(ps[k]) /\ Len(ps[k]) \in Nat
        BY <1>1, <1>6, <1>7, <3>1
      <3>3. 4 * (k - 1) <= at[k - 1]
        BY <2>2
      <3> DEFINE a == at[k - 1]
                 x == Len(ps[k])
      <3>4. at[k] = a + 4 + x /\ a \in Nat /\ x \in Nat /\ 4 * (k - 1) <= a
        BY <3>2, <3>3
      <3> HIDE DEF a, x
      <3>5. 4 * k <= at[k]
        BY <3>4
      <3> QED
        BY <3>1, <3>5
    <2>3. \A k \in 0 .. N : k \in S
      <3> HIDE DEF S
      <3> QED
        BY <2>1, <2>2, Induct
    <2>4. \A k \in 0 .. N : 4 * k <= at[k] /\ at[k] \in Nat /\ at[k] <= L /\ k \in Nat
      BY <1>7, <2>3
    <2>5. L \in Nat
      BY <1>4
    <2>6. \A k \in 0 .. N : 4 * k <= L /\ k \in Nat
      <3> TAKE k \in 0 .. N
      <3>1. 4 * k <= at[k] /\ at[k] \in Nat /\ at[k] <= L /\ k \in Nat
        BY <2>4
      <3> HIDE DEF L
      <3> QED
        BY <2>5, <3>1
    <2> QED
      BY <1>4, <2>5, <2>6, MostIs
  <1>9. PICK f : Reading(f, s)
    BY <1>4, PacketsAre
  <1> HIDE DEF L, R
  <1>10. /\ \A k \in 0 .. R : f[k] \in [packets : Seq(AnyPacket), next : Nat \ {0}]
         /\ f[0] = Unread /\ \A k \in 1 .. R : f[k] = OneMore(s, f[k - 1])
         /\ Packets(s) = f[R].packets
    BY <1>9 DEF Reading, R
  \* The packet behind those that have been read.
  <1>11. ASSUME NEW m \in 1 .. N, ReadTo(f, m - 1, at, ps, qs)
         PROVE  LET p == PacketAt(s, at[m - 1] + 1)
                IN  /\ m \in 1 .. R /\ f[m - 1].packets \in Seq(AnyPacket)
                    /\ p.packet \in AnyPacket
                    /\ f[m] = [packets |-> Append(f[m - 1].packets, p.packet), next |-> p.next]
                    /\ FitsOne(Size(ps[m])) => PacketWhole(s, at[m - 1] + 1, ps[m], qs[m])
                    /\ ~FitsOne(Size(ps[m])) => PacketCut(s, at[m - 1] + 1, ps[m], qs[m])
    <2> DEFINE i == at[m - 1] + 1
    <2>1. m \in 0 .. N /\ m - 1 \in 0 .. N
      OBVIOUS
    <2>2. at[m - 1] \in Nat /\ at[m] \in Nat /\ m <= at[m] /\ at[m] <= L /\ at[m - 1] < at[m]
      BY <1>7, <2>1
    <2>3. m \in 1 .. R /\ i \in Nat \ {0} /\ ~(i > L) /\ m - 1 \in 0 .. R
      <3>1. L \in Nat /\ R \in Nat /\ m < R
        BY <1>8, <2>1
      <3>2. m \in 1 .. R /\ m - 1 \in 0 .. R
        BY <3>1
      <3> DEFINE a == at[m - 1]
      <3>3. a \in Nat /\ at[m] \in Nat /\ at[m] <= L /\ a < at[m] /\ i = a + 1
        BY <2>2
      <3> HIDE DEF a, i
      <3>4. i \in Nat \ {0} /\ ~(i > L)
        BY <3>1, <3>3
      <3> QED
        BY <3>2, <3>4
    <2>4. f[m - 1].packets \in Seq(AnyPacket)
      BY <1>10, <2>3
    <2>5. f[m - 1].next = i
      BY <1>11 DEF ReadTo
    <2>6. Within(s, i, Packet(ps[m], qs[m]))
      BY <1>6
    <2> HIDE DEF i
    <2>7. f[m] = OneMore(s, f[m - 1])
      BY <1>10, <2>3
    <2>8. f[m] = [packets |-> Append(f[m - 1].packets, PacketAt(s, i).packet), next |-> PacketAt(s, i).next]
      BY <2>3, <2>5, <2>7, Zenon DEF OneMore, L
    <2>9. PacketAt(s, i).packet \in AnyPacket
      BY <1>4, <2>3, PacketEnds
    <2>10. /\ FitsOne(Size(ps[m])) => PacketWhole(s, i, ps[m], qs[m])
           /\ ~FitsOne(Size(ps[m])) => PacketCut(s, i, ps[m], qs[m])
      BY <1>1, <1>4, <2>3, <2>6, PacketRead
    <2> QED
      BY <2>3, <2>4, <2>8, <2>9, <2>10, Zenon DEF i
  <1> DEFINE fit(m) == \A j \in 1 .. m : FitsOne(Size(ps[j]))
             S == {m \in 0 .. N : fit(m) => ReadTo(f, m, at, ps, qs)}
  <1>12. 0 \in S
    <2>1. f[0].next = 1 /\ f[0].packets = <<>>
      BY <1>10 DEF Unread
    <2>2. ReadTo(f, 0, at, ps, qs)
      BY <1>6, <2>1 DEF ReadTo
    <2> QED
      BY <2>2
  <1>13. ASSUME NEW m \in 1 .. N, m - 1 \in S  PROVE m \in S
    <2> SUFFICES ASSUME fit(m)  PROVE ReadTo(f, m, at, ps, qs)
      OBVIOUS
    <2> DEFINE done == f[m - 1].packets
               x == [seq |-> qs[m], payload |-> ps[m]]
               p == PacketAt(s, at[m - 1] + 1)
    <2>1. fit(m - 1) /\ FitsOne(Size(ps[m]))
      OBVIOUS
    <2>2. ReadTo(f, m - 1, at, ps, qs)
      BY <1>13, <2>1
    <2>3. /\ f[m] = [packets |-> Append(done, p.packet), next |-> p.next]
          /\ done \in Seq(AnyPacket) /\ p.packet \in AnyPacket
          /\ PacketWhole(s, at[m - 1] + 1, ps[m], qs[m])
      BY <1>11, <2>1, <2>2
    <2>4. p.packet = x /\ p.next = at[m - 1] + 1 + 4 + Len(ps[m])
      BY <2>3 DEF PacketWhole
    <2>5. Len(done) = m - 1 /\ \A j \in 1 .. m - 1 : done[j] = [seq |-> qs[j], payload |-> ps[j]]
      BY <2>2 DEF ReadTo
    <2> HIDE DEF done, p, fit
    <2>6. f[m].next = at[m] + 1
      <3>1. m - 1 \in 0 .. N
        OBVIOUS
      <3>2. at[m - 1] \in Nat /\ at[m] = at[m - 1] + 4 + Len(ps[m]) /\ Len(ps[m]) \in Nat
        BY <1>1, <1>6, <1>7, <3>1
      <3>3. f[m].next = at[m - 1] + 1 + 4 + Len(ps[m])
        BY <2>3, <2>4
      <3> QED
        BY <3>2, <3>3
    <2>7. f[m].packets = Append(done, x) /\ x \in AnyPacket
      BY <2>3, <2>4
    <2> HIDE DEF x
    <2>8. /\ Len(f[m].packets) = m /\ f[m].packets[m] = x
          /\ \A j \in 1 .. m - 1 : f[m].packets[j] = done[j]
      BY <2>3, <2>5, <2>7
    <2>9. \A j \in 1 .. m : f[m].packets[j] = [seq |-> qs[j], payload |-> ps[j]]
      <3> TAKE j \in 1 .. m
      <3>1. CASE j = m
        BY <2>8, <3>1 DEF x
      <3>2. CASE j # m
        <4>1. j \in 1 .. m - 1
          BY <3>2
        <4> QED
          BY <2>5, <2>8, <4>1
      <3> QED
        BY <3>1, <3>2
    <2> QED
      BY <2>6, <2>8, <2>9 DEF ReadTo
  <1>14. \A m \in 0 .. N : fit(m) => ReadTo(f, m, at, ps, qs)
    <2>1. S \in SUBSET (0 .. N)
      OBVIOUS
    <2>2. \A m \in 0 .. N : m \in S
      <3> HIDE DEF S
      <3> QED
        BY <1>12, <1>13, <2>1, Induct
    <2> QED
      BY <2>2
  <1> HIDE DEF S
  <1>15. ASSUME fit(N)
         PROVE  /\ Len(Packets(s)) = N
                /\ \A k \in 1 .. N : Packets(s)[k] = [seq |-> qs[k], payload |-> ps[k]]
    <2>1. N \in 0 .. N
      OBVIOUS
    <2>2. ReadTo(f, N, at, ps, qs)
      BY <1>14, <1>15, <2>1
    <2>3. f[N].next = L + 1
      BY <1>6, <2>2 DEF ReadTo
    <2>4. N \in 0 .. R
      BY <1>8, <2>1
    <2> DEFINE U == {k \in 0 .. R : k >= N => f[k] = f[N]}
    <2>5. 0 \in U
      BY <1>8, <2>4
    <2>6. ASSUME NEW k \in 1 .. R, k - 1 \in U  PROVE k \in U
      <3>1. ASSUME k > N  PROVE f[k] = f[N]
        <4>1. f[k - 1] = f[N]
          BY <1>8, <2>6, <3>1
        <4>2. f[N].next > Len(s)
          BY <1>8, <2>3 DEF L
        <4>3. OneMore(s, f[N]) = f[N]
          BY <4>2 DEF OneMore
        <4> QED
          BY <1>10, <4>1, <4>3
      <3>2. k > N \/ k = N \/ k < N
        OBVIOUS
      <3> QED
        BY <3>1, <3>2
    <2>7. U \in SUBSET (0 .. R)
      OBVIOUS
    <2>8. R \in U
      <3>1. R \in 0 .. R
        BY <1>8
      <3> HIDE DEF U
      <3> QED
        BY <1>8, <2>5, <2>6, <2>7, <3>1, Induct
    <2>9. f[R] = f[N]
      BY <1>8, <2>4, <2>8
    <2> QED
      BY <1>10, <2>2, <2>9 DEF ReadTo
  <1>16. ASSUME NEW m \in 1 .. N, ~FitsOne(Size(ps[m])), fit(m - 1)
         PROVE  CutAt(Packets(s), m, ps, qs)
    <2> DEFINE done == f[m - 1].packets
               i == at[m - 1] + 1
               p == PacketAt(s, i)
    <2>1. ReadTo(f, m - 1, at, ps, qs)
      <3>1. m - 1 \in 0 .. N
        OBVIOUS
      <3> QED
        BY <1>14, <1>16, <3>1
    <2>2. /\ m \in 1 .. R /\ done \in Seq(AnyPacket) /\ p.packet \in AnyPacket
          /\ f[m] = [packets |-> Append(done, p.packet), next |-> p.next]
          /\ PacketCut(s, i, ps[m], qs[m])
      BY <1>11, <1>16, <2>1
    <2>3. Len(done) = m - 1 /\ \A j \in 1 .. m - 1 : done[j] = [seq |-> qs[j], payload |-> ps[j]]
      BY <2>1 DEF ReadTo
    <2> HIDE DEF fit, done, p
    <2>4. /\ Len(f[m].packets) = m /\ f[m].packets[m] = p.packet
          /\ \A j \in 1 .. m - 1 : f[m].packets[j] = done[j]
      BY <2>2, <2>3
    <2>5. m \in 0 .. R
      BY <1>8, <2>2
    <2>6. /\ Len(Packets(s)) >= m
          /\ \A j \in 1 .. m : Packets(s)[j] = f[m].packets[j]
      <3>1. /\ Len(Packets(s)) >= Len(f[m].packets)
            /\ \A j \in 1 .. Len(f[m].packets) : Packets(s)[j] = f[m].packets[j]
        <4>1. m \in 0 .. MostPackets(s)
          BY <2>5 DEF R
        <4> QED
          BY <1>4, <1>9, <4>1, ReadKeeps
      <3> QED
        BY <2>4, <3>1
    <2>7. \A j \in 1 .. m - 1 : Packets(s)[j] = [seq |-> qs[j], payload |-> ps[j]]
      <3> TAKE j \in 1 .. m - 1
      <3>1. j \in 1 .. m
        OBVIOUS
      <3> QED
        BY <2>3, <2>4, <2>6, <3>1
    <2>8. Packets(s)[m] = p.packet
      <3>1. m \in 1 .. m
        OBVIOUS
      <3> QED
        BY <2>4, <2>6, <3>1
    <2>9. CASE p = [packet |-> Lost, next |-> Len(s) + 1]
      <3>1. p.packet = Lost
        BY <2>9
      <3> QED
        BY <2>6, <2>7, <2>8, <3>1 DEF CutAt
    <2>10. CASE \E k \in 0 .. Len(ps[m]) - 1 :
                  p = [packet |-> [seq |-> qs[m], payload |-> SubSeq(ps[m], 1, k)], next |-> i + 4 + k]
      <3>1. PICK k \in 0 .. Len(ps[m]) - 1 :
                  p = [packet |-> [seq |-> qs[m], payload |-> SubSeq(ps[m], 1, k)], next |-> i + 4 + k]
        BY <2>10
      <3>2. p.packet = [seq |-> qs[m], payload |-> SubSeq(ps[m], 1, k)] /\ p.next = i + 4 + k
        BY <3>1
      <3>3. p.next <= L /\ m + 1 \in 1 .. R
        <4>1. m - 1 \in 0 .. N /\ m \in 0 .. N /\ m < R /\ R \in Nat /\ L \in Nat
          <5>1. m - 1 \in 0 .. N /\ m \in 0 .. N
            OBVIOUS
          <5> QED
            BY <1>8, <5>1
        <4>2. at[m - 1] \in Nat /\ m - 1 <= at[m - 1] /\ at[m] <= L
          BY <1>7, <4>1
        <4>3. at[m] = at[m - 1] + 4 + Len(ps[m]) /\ Len(ps[m]) \in Nat
          BY <1>1, <1>6
        <4>4. m + 1 \in 1 .. R
          BY <4>1
        <4> DEFINE a == at[m - 1]
                   x == Len(ps[m])
        <4>5. /\ a \in Nat /\ x \in Nat /\ L \in Nat /\ at[m] = a + 4 + x /\ at[m] <= L
              /\ k \in 0 .. x - 1 /\ p.next = a + 1 + 4 + k
          BY <3>2, <4>1, <4>2, <4>3
        <4> HIDE DEF a, x
        <4>6. p.next <= L
          BY <4>5
        <4> QED
          BY <4>4, <4>6
      <3>4. f[m + 1] = OneMore(s, f[m])
        <4>1. m + 1 - 1 = m
          OBVIOUS
        <4> QED
          BY <1>10, <3>3, <4>1
      <3>5. f[m].next = p.next
        BY <2>2
      <3>6. f[m + 1].packets = Append(f[m].packets, PacketAt(s, p.next).packet)
        <4>1. ~(f[m].next > Len(s)) /\ p.next \in Nat
          <5>1. p.next \in Nat
            <6>1. m - 1 \in 0 .. N
              OBVIOUS
            <6>2. at[m - 1] \in Nat
              BY <1>7, <6>1
            <6> QED
              BY <3>2, <6>2
          <5> QED
            BY <1>8, <3>3, <3>5, <5>1 DEF L
        <4>2. f[m + 1] = [packets |-> Append(f[m].packets, PacketAt(s, f[m].next).packet),
                          next |-> PacketAt(s, f[m].next).next]
          BY <3>4, <4>1, Zenon DEF OneMore
        <4>3. f[m + 1].packets = Append(f[m].packets, PacketAt(s, f[m].next).packet)
          BY <4>2
        <4> QED
          BY <3>5, <4>3, Zenon
      <3>7. Len(f[m + 1].packets) = m + 1
        <4>1. f[m].packets \in Seq(AnyPacket)
          BY <1>10, <2>5
        <4> HIDE DEF i
        <4> QED
          BY <2>4, <3>6, <4>1
      <3>8. Len(Packets(s)) >= m + 1
        <4>1. m + 1 \in 0 .. R
          BY <3>3
        <4>2. Len(Packets(s)) >= Len(f[m + 1].packets)
          BY <1>4, <1>9, <4>1, ReadKeeps DEF R
        <4> QED
          BY <3>7, <4>2
      <3>9. Len(Packets(s)) > m
        <4>1. Packets(s) \in Seq(AnyPacket)
          BY <1>4, <1>9, <2>5, ReadKeeps DEF R
        <4>2. Len(Packets(s)) \in Nat
          BY <4>1
        <4> QED
          BY <3>8, <4>2
      <3>10. Packets(s)[m] = [seq |-> qs[m], payload |-> SubSeq(ps[m], 1, k)]
        BY <2>8, <3>2
      <3> QED
        BY <2>6, <2>7, <3>9, <3>10 DEF CutAt
    <2> QED
      BY <2>2, <2>9, <2>10 DEF PacketCut, p
  <1>17. Packets(s) \in Seq(AnyPacket)
    <2>1. R \in 0 .. R
      BY <1>8
    <2> QED
      BY <1>10, <2>1
  <1> QED
    BY <1>4, <1>15, <1>16, <1>17 DEF PacketsAreRead

-----------------------------------------------------------------------------
(* Replies: what a payload is taken for                                      *)

LEMMA TypeOfNone == PacketType(<<>>) = "UNKNOWN"
  BY DEF PacketType

LEMMA TypeIs ==
  ASSUME NEW s \in Seq(Pieces), Len(s) # 0
  PROVE  /\ s[1] = Byte(0) => PacketType(s) = "OK"
         /\ s[1] = Byte(255) => PacketType(s) = "ERR"
         /\ s[1] = Byte(254) /\ Size(s) < 9 => PacketType(s) = "EOF"
         /\ s[1] # Byte(0) => PacketType(s) # "OK"
         /\ s[1] # Byte(255) => PacketType(s) # "ERR"
         /\ s[1] # Byte(254) \/ Size(s) >= 9 => PacketType(s) # "EOF"
  <1>1. s # <<>>
    BY NotEmpty
  <1>2. Byte(0) # Byte(255) /\ Byte(0) # Byte(254) /\ Byte(254) # Byte(255)
    BY DEF Byte
  <1>3. CASE s[1] = Byte(0)
    <2>1. PacketType(s) = "OK"
      BY <1>1, <1>2, <1>3 DEF PacketType
    <2> QED
      BY <1>2, <1>3, <2>1
  <1>4. CASE s[1] = Byte(255)
    <2>1. PacketType(s) = "ERR"
      BY <1>1, <1>2, <1>4 DEF PacketType
    <2> QED
      BY <1>2, <1>4, <2>1
  <1>5. CASE s[1] = Byte(254)
    <2>1. Size(s) < 9 => PacketType(s) = "EOF"
      BY <1>1, <1>2, <1>5 DEF PacketType
    <2>2. ~(Size(s) < 9) => PacketType(s) = "UNKNOWN"
      BY <1>1, <1>2, <1>5 DEF PacketType
    <2>3. Size(s) \in Nat
      BY SizeType
    <2>4. Size(s) >= 9 => ~(Size(s) < 9)
      BY <2>3
    <2> QED
      BY <1>2, <1>5, <2>1, <2>2, <2>4
  <1>6. CASE s[1] # Byte(0) /\ s[1] # Byte(255) /\ s[1] # Byte(254)
    <2>1. PacketType(s) = "UNKNOWN"
      BY <1>1, <1>6 DEF PacketType
    <2> QED
      BY <1>6, <2>1
  <1> QED
    BY <1>3, <1>4, <1>5, <1>6

\* The parts of texts that are written as they are.
LEMMA StringsAre ==
  ASSUME NEW ts \in Seq(Pieces)
  PROVE  WriteStrings(ts) = ts
  <1> DEFINE seqs == [k \in DOMAIN ts |-> WriteString(ts[k])]
             n == Len(ts)
  <1>1. n \in Nat /\ DOMAIN ts = 1 .. n
    OBVIOUS
  <1>2. \A k \in 1 .. n : ts[k] \in Pieces
    BY ElementOfSeq
  <1>3. \A k \in 1 .. n : seqs[k] = <<ts[k]>> /\ <<ts[k]>> \in Seq(Pieces)
    <2> TAKE k \in 1 .. n
    <2>1. ts[k] \in Pieces
      BY <1>2
    <2>2. ts[k].len # 0
      BY <2>1 DEF Pieces
    <2> QED
      BY <1>1, <2>1, <2>2 DEF WriteString
  <1> HIDE DEF n
  <1>4. seqs \in [1 .. n -> Seq(Pieces)]
    BY <1>1, <1>3
  <1>5. seqs \in Seq(Seq(Pieces)) /\ Len(seqs) = n
    <2> HIDE DEF seqs
    <2> QED
      BY <1>1, <1>4, IsASeq
  <1>6. WriteStrings(ts) = FlattenSeq(seqs)
    BY DEF WriteStrings
  <1> HIDE DEF seqs
  <1>7. PICK at : Offsets(at, seqs)
    BY <1>5, FlatIs
  <1> DEFINE w == FlattenSeq(seqs)
  <1>8. w \in Seq(Pieces)
    BY <1>5, FlatIs
  <1>9. /\ at[0] = 0 /\ at[n] = Len(w) /\ \A k \in 0 .. n : at[k] \in Nat
        /\ \A k \in 1 .. n : at[k] = at[k - 1] + Len(seqs[k]) /\ Within(w, at[k - 1] + 1, seqs[k])
    BY <1>5, <1>7 DEF Offsets
  <1>10. \A k \in 1 .. n : at[k] = at[k - 1] + 1 /\ w[at[k - 1] + 1] = ts[k]
    <2> TAKE k \in 1 .. n
    <2>1. seqs[k] = <<ts[k]>>
      BY <1>3
    <2>2. Len(seqs[k]) = 1 /\ seqs[k][1] = ts[k]
      BY <2>1
    <2>3. k - 1 \in 0 .. n
      BY <1>1
    <2>4. at[k - 1] \in Nat
      BY <1>9, <2>3
    <2>5. Within(w, at[k - 1] + 1, seqs[k])
      BY <1>9
    <2> DEFINE a == at[k - 1] + 1
    <2>6. w[a + 1 - 1] = seqs[k][1]
      <3> HIDE DEF a, w
      <3>1. 1 \in 1 .. Len(seqs[k])
        BY <2>2
      <3> QED
        BY <2>5, <3>1 DEF Within, a
    <2>7. a + 1 - 1 = a
      BY <2>4
    <2> QED
      BY <1>9, <2>2, <2>6, <2>7
  <1> HIDE DEF w
  <1> DEFINE S == {k \in 0 .. n : at[k] = k}
  <1>11. \A k \in 0 .. n : k \in S
    <2>1. 0 \in S /\ S \in SUBSET (0 .. n)
      BY <1>1, <1>9
    <2>2. ASSUME NEW k \in 1 .. n, k - 1 \in S  PROVE k \in S
      BY <1>10, <2>2
    <2> HIDE DEF S
    <2> QED
      BY <1>1, <2>1, <2>2, Induct
  <1>12. Len(w) = n
    BY <1>1, <1>9, <1>11
  <1>13. \A k \in 1 .. n : w[k] = ts[k]
    <2> TAKE k \in 1 .. n
    <2>1. k - 1 \in 0 .. n
      BY <1>1
    <2>2. at[k - 1] + 1 = k
      BY <1>11, <2>1
    <2> QED
      BY <1>10, <2>2
  <1>14. w = ts
    BY <1>8, <1>12, <1>13, SeqEqual DEF n
  <1> QED
    BY <1>6, <1>14 DEF w

LEMMA LenConcat ==
  ASSUME NEW s \in Seq(Pieces), NEW t \in Seq(Pieces)
  PROVE  s \o t \in Seq(Pieces) /\ Len(s \o t) = Len(s) + Len(t)
  BY ConcatProperties

\* What is behind a whole part of a payload is the rest of it.
LEMMA TailIs ==
  ASSUME NEW s \in Seq(Pieces), NEW k \in Nat, NEW t \in Seq(Pieces),
         Len(s) = k + Len(t), Written(s, k + 1, t)
  PROVE  SubSeq(s, k + 1, Len(s)) = t
  <1>1. Len(s) \in Nat /\ Len(t) \in Nat
    OBVIOUS
  <1> DEFINE c == SubSeq(s, k + 1, Len(s))
             n == Len(t)
  <1>2. /\ c \in Seq(Pieces)
        /\ Len(c) = IF k + 1 <= Len(s) THEN Len(s) - (k + 1) + 1 ELSE 0
        /\ \A i \in 1 .. Len(s) - (k + 1) + 1 : c[i] = s[k + 1 + i - 1]
    <2>1. k + 1 \in Nat \ {0} /\ Len(s) <= Len(s)
      BY <1>1
    <2> QED
      BY <1>1, <2>1, Cut
  <1> HIDE DEF c, n
  <1>3. Len(c) = n
    BY <1>1, <1>2 DEF n
  <1>4. \A i \in 1 .. n : c[i] = t[i]
    <2> TAKE i \in 1 .. n
    <2>1. i \in 1 .. Len(s) - (k + 1) + 1
      BY <1>1 DEF n
    <2>2. k + 1 + i - 1 <= Len(s)
      BY <1>1 DEF n
    <2>3. s[k + 1 + i - 1] = t[i]
      BY <2>2 DEF Written, n
    <2> QED
      BY <1>2, <2>1, <2>3
  <1> QED
    BY <1>2, <1>3, <1>4, SeqEqual DEF c, n

LEMMA WrittenSelf == ASSUME NEW s \in Seq(Pieces)  PROVE Written(s, 1, s)
  BY DEF Written

OkRead(r) ==
  /\ OkPayload(r) \in Seq(Pieces) /\ Len(OkPayload(r)) # 0 /\ OkPayload(r)[1] = Byte(0)
  /\ ReadOk(OkPayload(r)) = r

LEMMA OkIsRead ==
  ASSUME NEW r \in OkReplies, HasWidth(r.insertId, 4)
  PROVE  OkRead(r)
  <1> DEFINE id == r.insertId
             info == r.info
             a == <<Byte(0)>>
             z == WriteLenencInt(0)
             b == WriteLenencInt(id)
             c == WriteUint(Autocommit, 2)
             d == WriteUint(0, 2)
             t == WriteStrings(info)
             s == OkPayload(r)
             l == Len(b)
  <1>1. id \in Nat /\ info \in Seq(Pieces) /\ r = [kind |-> "ok", insertId |-> id, info |-> info]
    BY DEF OkReplies
  <1>2. /\ z \in Seq(Pieces) /\ Len(z) = 1
        /\ b \in Seq(Pieces) /\ l \in Nat \ {0}
    <2>1. z \in Seq(Pieces) /\ b \in Seq(Pieces) /\ l \in Nat \ {0}
      BY <1>1, LenencIntBytes
    <2>2. z = <<Byte(0)>>
      BY DEF WriteLenencInt
    <2> QED
      BY <2>1, <2>2
  <1>3. BytePart(a, 1) /\ BytePart(c, 2) /\ BytePart(d, 2)
    <2>1. 0 \in 0 .. 255 /\ Autocommit \in Nat /\ 0 \in Nat /\ 2 \in 2 .. 4
      BY DEF Autocommit
    <2> QED
      BY <2>1, BytePartsAre
  <1>4. t = info
    BY <1>1, StringsAre
  <1>5. s = (((((a \o z) \o b) \o c) \o d) \o t)
    BY DEF OkPayload
  <1> HIDE DEF id, info, a, z, b, c, d, t, s, l
  <1> DEFINE az == a \o z
             azb == az \o b
             azbc == azb \o c
             azbcd == azbc \o d
  <1>6. az \in Seq(Pieces) /\ Len(az) = 2
    <2>1. a \in Seq(Pieces) /\ Len(a) = 1 /\ 1 \in Nat /\ 1 + 1 = 2
      BY <1>3 DEF BytePart
    <2>2. az \in Seq(Pieces) /\ Len(az) = Len(a) + Len(z)
      BY <1>2, <2>1, LenConcat
    <2> HIDE DEF az
    <2> QED
      BY <1>2, <2>1, <2>2
  <1>7. azb \in Seq(Pieces) /\ Len(azb) = 2 + l
    <2> HIDE DEF az
    <2>1. 2 \in Nat /\ l \in Nat /\ Len(b) = l
      BY <1>2 DEF l
    <2>2. azb \in Seq(Pieces) /\ Len(azb) = Len(az) + Len(b)
      BY <1>2, <1>6, LenConcat
    <2> HIDE DEF azb
    <2> QED
      BY <1>6, <2>1, <2>2
  <1>8. azbc \in Seq(Pieces) /\ Len(azbc) = 4 + l
    <2> HIDE DEF azb
    <2>1. 2 + l \in Nat /\ 2 \in Nat
      BY <1>2
    <2>2. azbc \in Seq(Pieces) /\ Len(azbc) = (2 + l) + 2
      BY <1>3, <1>7, <2>1, LongerBy
    <2> QED
      BY <1>2, <2>2
  <1>9. azbcd \in Seq(Pieces) /\ Len(azbcd) = 6 + l
    <2> HIDE DEF azbc
    <2>1. 4 + l \in Nat /\ 2 \in Nat
      BY <1>2
    <2>2. azbcd \in Seq(Pieces) /\ Len(azbcd) = (4 + l) + 2
      BY <1>3, <1>8, <2>1, LongerBy
    <2> QED
      BY <1>2, <2>2
  <1>10. s \in Seq(Pieces) /\ Len(s) = 6 + l + Len(info) /\ Len(info) \in Nat
    <2>1. s = azbcd \o info
      BY <1>4, <1>5
    <2>2. 6 + l \in Nat /\ Len(info) \in Nat
      BY <1>1, <1>2
    <2> HIDE DEF azbcd
    <2>3. s \in Seq(Pieces) /\ Len(s) = Len(azbcd) + Len(info)
      BY <1>1, <1>9, <2>1, LenConcat
    <2> QED
      BY <1>9, <2>2, <2>3
  <1>11. Written(s, 1, azbcd) /\ Written(s, 7 + l, info)
    <2> HIDE DEF azbcd
    <2>1. s = azbcd \o info
      BY <1>4, <1>5 DEF azbcd
    <2>2. Written(s, 1, azbcd \o info)
      BY <1>10, <2>1, WrittenSelf
    <2>3. Written(s, 1, azbcd) /\ Written(s, 1 + Len(azbcd), info)
      BY <1>1, <1>9, <1>10, <2>2, WrittenConcat
    <2>4. 1 + Len(azbcd) = 7 + l
      BY <1>2, <1>9
    <2> QED
      BY <2>3, <2>4
  <1>12. Written(s, 1, azbc) /\ AreBytes(s, 5 + l, 2)
    <2> HIDE DEF azbc
    <2>1. 4 + l \in Nat /\ 2 \in Nat /\ (4 + l) + 2 <= Len(s) /\ (4 + l) + 1 = 5 + l
      BY <1>2, <1>10
    <2>2. Written(s, 1, azbc \o d)
      BY <1>11 DEF azbc
    <2> QED
      BY <1>3, <1>8, <1>10, <2>1, <2>2, PartRead
  <1>13. Written(s, 1, azb) /\ AreBytes(s, 3 + l, 2)
    <2> HIDE DEF azb
    <2>1. 2 + l \in Nat /\ 2 \in Nat /\ (2 + l) + 2 <= Len(s) /\ (2 + l) + 1 = 3 + l
      BY <1>2, <1>10
    <2>2. Written(s, 1, azb \o c)
      BY <1>12 DEF azb
    <2> QED
      BY <1>3, <1>7, <1>10, <2>1, <2>2, PartRead
  <1>14. AreBytes(s, 3 + l, 4)
    <2>1. 3 + l \in Nat /\ 2 \in Nat /\ (3 + l) + 2 = 5 + l /\ 2 + 2 = 4
      BY <1>2
    <2>2. AreBytes(s, 3 + l, 2 + 2)
      <3>1. AreBytes(s, (3 + l) + 2, 2)
        BY <1>12, <2>1
      <3> QED
        BY <1>10, <1>13, <2>1, <3>1, BytesJoin
    <2> QED
      BY <2>1, <2>2
  <1>15. Written(s, 1, az) /\ Written(s, 3, b)
    <2> HIDE DEF az
    <2>1. Written(s, 1, az \o b)
      BY <1>13 DEF az
    <2>2. Written(s, 1, az) /\ Written(s, 1 + Len(az), b)
      <3>1. 1 \in Nat \ {0}
        OBVIOUS
      <3> QED
        BY <1>2, <1>6, <1>10, <2>1, <3>1, WrittenConcat
    <2>3. 1 + Len(az) = 3
      BY <1>6
    <2> QED
      BY <2>2, <2>3
  <1>16. Written(s, 1, a) /\ Written(s, 2, z)
    <2>1. a \in Seq(Pieces) /\ Len(a) = 1
      BY <1>3 DEF BytePart
    <2>2. Written(s, 1, a) /\ Written(s, 1 + Len(a), z)
      <3>1. 1 \in Nat \ {0} /\ Written(s, 1, a \o z)
        BY <1>15
      <3> QED
        BY <1>2, <1>10, <2>1, <3>1, WrittenConcat
    <2> QED
      BY <2>1, <2>2
  <1>17. s[1] = Byte(0)
    <2>1. Len(a) = 1 /\ a[1] = Byte(0) /\ 1 <= Len(s)
      BY <1>2, <1>10 DEF a
    <2> QED
      BY <1>16, <2>1 DEF Written
  <1>18. LenencInt(s, 2) = [v |-> 0, next |-> 3]
    <2>1. HasWidth(0, 4) /\ 0 \in Nat /\ 2 \in Nat \ {0} /\ Written(s, 2, WriteLenencInt(0))
      BY <1>16 DEF HasWidth, z
    <2>2. (2 + Len(WriteLenencInt(0))) - 1 <= Len(s) /\ 2 + Len(WriteLenencInt(0)) = 3
      <3> DEFINE x == Len(WriteLenencInt(0))
      <3>1. x = 1
        BY <1>2 DEF z
      <3> HIDE DEF x
      <3>2. (2 + x) - 1 <= Len(s) /\ 2 + x = 3
        BY <1>2, <1>10, <3>1
      <3> QED
        BY <3>2 DEF x
    <2> QED
      BY <1>10, <2>1, <2>2, LenencIntRead
  <1>19. LenencInt(s, 3) = [v |-> id, next |-> 3 + l]
    <2>1. HasWidth(id, 4) /\ 3 \in Nat \ {0} /\ Written(s, 3, WriteLenencInt(id))
      BY <1>15 DEF id, b
    <2>2. (3 + Len(WriteLenencInt(id))) - 1 <= Len(s) /\ 3 + Len(WriteLenencInt(id)) = 3 + l
      BY <1>2, <1>10 DEF b, l
    <2> QED
      BY <1>1, <1>10, <2>1, <2>2, LenencIntRead
  <1>20. SubSeq(s, 7 + l, Len(s)) = info
    <2> DEFINE k == 6 + l
    <2>1. k \in Nat /\ k + 1 = 7 + l
      BY <1>2
    <2> HIDE DEF k
    <2>2. Len(s) = k + Len(info)
      BY <1>10 DEF k
    <2>3. SubSeq(s, k + 1, Len(s)) = info
      BY <1>1, <1>10, <1>11, <2>1, <2>2, TailIs
    <2> QED
      BY <2>1, <2>3
  <1>21. ReadOk(s) = [kind |-> "ok", insertId |-> id, info |-> info]
    <2>1. ~(Len(s) < 7)
      BY <1>2, <1>10
    <2>2. (3 + l) + 4 = 7 + l
      BY <1>2
    <2>3. /\ LenencInt(s, 2).v = 0 /\ LenencInt(s, 2).next = 3
          /\ LenencInt(s, 3).v = id /\ LenencInt(s, 3).next = 3 + l
      BY <1>18, <1>19
    <2>4. ~(0 < 0) /\ ~(id < 0)
      BY <1>1
    <2>5. ReadOk(s) = [kind |-> "ok", insertId |-> id, info |-> SubSeq(s, (3 + l) + 4, Len(s))]
      BY <1>14, <2>1, <2>3, <2>4, Zenon DEF ReadOk
    <2> QED
      BY <1>20, <2>2, <2>5
  <1>22. Len(s) # 0
    BY <1>2, <1>10
  <1> QED
    BY <1>1, <1>10, <1>17, <1>21, <1>22 DEF OkRead, s

ErrRead(r) ==
  /\ ErrPayload(r) \in Seq(Pieces) /\ Len(ErrPayload(r)) # 0 /\ ErrPayload(r)[1] = Byte(255)
  /\ ReadErr(ErrPayload(r)) = r

LEMMA ErrIsRead ==
  ASSUME NEW r \in ErrReplies, HasWidth(r.code, 2)
  PROVE  ErrRead(r)
  <1> DEFINE code == r.code
             message == r.message
             a == <<Byte(255)>>
             c == WriteUint(code, 2)
             e == <<Byte(35), SqlState(code)>>
             t == WriteStrings(message)
             s == ErrPayload(r)
  <1>1. code \in Nat /\ message \in Seq(Pieces) /\ r = [kind |-> "err", code |-> code, message |-> message]
    BY DEF ErrReplies
  <1>2. BytePart(a, 1) /\ BytePart(c, 2) /\ a[1] = Byte(255)
    <2>1. 255 \in 0 .. 255 /\ 2 \in 2 .. 4
      OBVIOUS
    <2> QED
      BY <1>1, <2>1, BytePartsAre
  <1>3. e \in Seq(Pieces) /\ Len(e) = 2 /\ IsByte(e[1])
    <2>1. Byte(35) \in Pieces /\ IsByte(Byte(35))
      <3>1. 35 \in 0 .. 255
        OBVIOUS
      <3> QED
        BY <3>1, BytesArePieces
    <2>2. SqlState(code) \in Pieces
      BY <1>1 DEF SqlState, TextOf, Pieces
    <2> QED
      BY <2>1, <2>2
  <1>4. t = message
    BY <1>1, StringsAre
  <1>5. s = (((a \o c) \o e) \o t)
    BY DEF ErrPayload
  <1> HIDE DEF code, message, a, c, e, t, s
  <1> DEFINE ac == a \o c
             ace == ac \o e
  <1>6. ac \in Seq(Pieces) /\ Len(ac) = 3
    <2>1. a \in Seq(Pieces) /\ Len(a) = 1 /\ c \in Seq(Pieces) /\ Len(c) = 2
      BY <1>2 DEF BytePart
    <2>2. ac \in Seq(Pieces) /\ Len(ac) = Len(a) + Len(c)
      BY <2>1, LenConcat
    <2> HIDE DEF ac
    <2> QED
      BY <2>1, <2>2
  <1>7. ace \in Seq(Pieces) /\ Len(ace) = 5
    <2> HIDE DEF ac
    <2>1. ace \in Seq(Pieces) /\ Len(ace) = Len(ac) + Len(e)
      BY <1>3, <1>6, LenConcat
    <2> HIDE DEF ace
    <2> QED
      BY <1>3, <1>6, <2>1
  <1>8. s \in Seq(Pieces) /\ Len(s) = 5 + Len(message) /\ Len(message) \in Nat
    <2> HIDE DEF ace
    <2>1. s = ace \o message
      BY <1>4, <1>5 DEF ace
    <2>2. s \in Seq(Pieces) /\ Len(s) = Len(ace) + Len(message)
      BY <1>1, <1>7, <2>1, LenConcat
    <2> QED
      BY <1>1, <1>7, <2>2
  <1>9. Written(s, 1, ace) /\ Written(s, 6, message)
    <2> HIDE DEF ace
    <2>1. s = ace \o message /\ 1 \in Nat \ {0}
      BY <1>4, <1>5 DEF ace
    <2>2. Written(s, 1, ace \o message)
      BY <1>8, <2>1, WrittenSelf
    <2>3. Written(s, 1, ace) /\ Written(s, 1 + Len(ace), message)
      BY <1>1, <1>7, <1>8, <2>1, <2>2, WrittenConcat
    <2>4. 1 + Len(ace) = 6
      BY <1>7
    <2> QED
      BY <2>3, <2>4
  <1>10. Written(s, 1, ac) /\ Written(s, 4, e)
    <2> HIDE DEF ac
    <2>1. Written(s, 1, ac \o e) /\ 1 \in Nat \ {0}
      BY <1>9 DEF ac
    <2>2. Written(s, 1, ac) /\ Written(s, 1 + Len(ac), e)
      BY <1>3, <1>6, <1>8, <2>1, WrittenConcat
    <2>3. 1 + Len(ac) = 4
      BY <1>6
    <2> QED
      BY <2>2, <2>3
  <1>11. Written(s, 1, a) /\ Written(s, 2, c)
    <2>1. a \in Seq(Pieces) /\ Len(a) = 1 /\ c \in Seq(Pieces)
      BY <1>2 DEF BytePart
    <2>2. Written(s, 1, a \o c) /\ 1 \in Nat \ {0}
      BY <1>10
    <2>3. Written(s, 1, a) /\ Written(s, 1 + Len(a), c)
      BY <1>8, <2>1, <2>2, WrittenConcat
    <2> QED
      BY <2>1, <2>3
  <1> HIDE DEF ac, ace
  <1>12. s[1] = Byte(255)
    <2>1. Len(a) = 1 /\ 1 <= Len(s)
      BY <1>2, <1>8 DEF BytePart
    <2> QED
      BY <1>2, <1>11, <2>1 DEF Written
  <1>13. ReadUint(s, 2, 2) = code /\ AreBytes(s, 2, 2)
    <2>1. PICK two \in 2 .. 4 : two = 2
      OBVIOUS
    <2>2. HasWidth(code, two) /\ 2 \in Nat \ {0} /\ Written(s, 2, WriteUint(code, two))
      BY <1>11, <2>1 DEF code, c
    <2>3. 2 + two - 1 <= Len(s)
      BY <1>8, <2>1
    <2>4. ReadUint(s, 2, two) = code /\ AreBytes(s, 2, two)
      BY <1>1, <1>8, <2>2, <2>3, NumberRead
    <2> QED
      BY <2>1, <2>4, Zenon
  <1>14. IsByte(s[4])
    <2>1. s[4 + 1 - 1] = e[1]
      <3>1. 4 + 1 - 1 <= Len(s) /\ 1 \in 1 .. Len(e)
        BY <1>3, <1>8
      <3> QED
        BY <1>10, <3>1 DEF Written
    <2> QED
      BY <1>3, <2>1
  <1>15. AreBytes(s, 1, 4)
    <2>1. IsByte(s[1])
      <3>1. 255 \in 0 .. 255
        OBVIOUS
      <3> QED
        BY <1>12, <3>1, BytesArePieces
    <2>2. IsByte(s[2]) /\ IsByte(s[3])
      BY <1>13 DEF AreBytes
    <2>3. \A k \in 1 .. 4 : k = 1 \/ k = 2 \/ k = 3 \/ k = 4
      OBVIOUS
    <2>4. \A k \in 1 .. 4 : IsByte(s[k])
      BY <1>14, <2>1, <2>2, <2>3
    <2>5. 1 + 4 - 1 <= Len(s)
      BY <1>8
    <2> QED
      BY <2>4, <2>5 DEF AreBytes
  <1>16. SubSeq(s, 6, Len(s)) = message
    <2> DEFINE k == 5
    <2>1. k \in Nat /\ k + 1 = 6
      OBVIOUS
    <2> HIDE DEF k
    <2>2. Len(s) = k + Len(message)
      BY <1>8 DEF k
    <2>3. SubSeq(s, k + 1, Len(s)) = message
      BY <1>1, <1>8, <1>9, <2>1, <2>2, TailIs
    <2> QED
      BY <2>1, <2>3
  <1>17. ReadErr(s) = [kind |-> "err", code |-> code, message |-> message]
    <2>1. ~(Len(s) < 5)
      BY <1>8
    <2>2. ReadErr(s) = [kind |-> "err", code |-> ReadUint(s, 2, 2), message |-> SubSeq(s, 6, Len(s))]
      BY <1>15, <2>1, Zenon DEF ReadErr
    <2> QED
      BY <1>13, <1>16, <2>2
  <1>18. Len(s) # 0
    BY <1>8
  <1> QED
    BY <1>1, <1>8, <1>12, <1>17, <1>18 DEF ErrRead, s

\* The end of a part of a result set, and its number of columns.
LEMMA EofIs ==
  /\ EofPayload \in Seq(Pieces) /\ Len(EofPayload) # 0 /\ FitsOne(Size(EofPayload))
  /\ PacketType(EofPayload) = "EOF"
  <1>1. EofPayload \in Seq(Pieces) /\ Size(EofPayload) = 5
    BY EofSize DEF EofLength
  <1> DEFINE a == <<Byte(254)>>
             b == WriteUint(0, 2)
             c == WriteUint(Autocommit, 2)
             s == EofPayload
  <1>2. BytePart(a, 1) /\ BytePart(b, 2) /\ BytePart(c, 2) /\ a[1] = Byte(254)
    <2>1. 254 \in 0 .. 255 /\ 2 \in 2 .. 4 /\ 0 \in Nat /\ Autocommit \in Nat
      BY DEF Autocommit
    <2> QED
      BY <2>1, BytePartsAre
  <1>3. s = (a \o b) \o c
    BY DEF EofPayload
  <1> HIDE DEF a, b, c, s
  <1> DEFINE d == b \o c
  <1>4. a \in Seq(Pieces) /\ Len(a) = 1 /\ b \in Seq(Pieces) /\ c \in Seq(Pieces)
    BY <1>2 DEF BytePart
  <1>5. d \in Seq(Pieces) /\ s = a \o d
    <2>1. d \in Seq(Pieces)
      BY <1>4, LenConcat
    <2> QED
      BY <1>3, <1>4, <2>1, ConcatAssociative
  <1> HIDE DEF d
  <1>6. Len(s) # 0 /\ s[1] = Byte(254)
    <2>1. 254 \in 0 .. 255 /\ s = <<Byte(254)>> \o d
      BY <1>5 DEF a
    <2>2. Len(s) = 1 + Len(d) /\ s[1] = Byte(254)
      <3>1. PICK e \in 0 .. 255 : e = 254
        BY <2>1
      <3>2. Len(<<Byte(e)>> \o d) = 1 + Len(d) /\ (<<Byte(e)>> \o d)[1] = Byte(e)
        BY <1>5, ByteAndRest
      <3> QED
        BY <2>1, <3>1, <3>2, ZenonT(60)
    <2>3. Len(d) \in Nat
      BY <1>5
    <2> QED
      BY <2>2, <2>3
  <1>7. PacketType(s) = "EOF"
    <2>1. Size(s) < 9
      BY <1>1 DEF s
    <2> QED
      BY <1>1, <1>6, <2>1, TypeIs DEF s
  <1>8. FitsOne(5)
    BY SMT DEF FitsOne
  <1> QED
    BY <1>1, <1>6, <1>7, <1>8 DEF s

LEMMA SizeIsLonger == ASSUME NEW s \in Seq(Pieces)  PROVE Size(s) >= Len(s)
  <1> DEFINE ns == Lens(s)
             f == Sums(ns)
             n == Len(s)
             S == {k \in 0 .. n : f[k] >= k}
  <1>1. n \in Nat /\ ns \in Seq(Nat) /\ Len(ns) = n /\ \A k \in 1 .. n : ns[k] \in Nat \ {0}
    <2>1. \A k \in 1 .. n : s[k] \in Pieces
      BY ElementOfSeq
    <2>2. \A k \in 1 .. n : s[k].len \in Nat \ {0}
      BY <2>1 DEF Pieces
    <2> QED
      BY <2>2, LensAre
  <1> HIDE DEF n, ns
  <1>2. f[0] = 0 /\ \A k \in 1 .. n : f[k] = f[k - 1] + ns[k] /\ f[k - 1] \in Nat
    <2>1. /\ f[0] = 0 /\ \A k \in 0 .. n : f[k] \in Nat
          /\ \A k \in 1 .. n : f[k] = f[k - 1] + ns[k]
      BY <1>1, SumsAre
    <2>2. \A k \in 1 .. n : k - 1 \in 0 .. n
      BY <1>1
    <2> QED
      BY <2>1, <2>2
  <1> HIDE DEF f
  <1>3. \A k \in 0 .. n : k \in S
    <2>1. 0 \in S /\ S \in SUBSET (0 .. n)
      BY <1>1, <1>2
    <2>2. ASSUME NEW k \in 1 .. n, k - 1 \in S  PROVE k \in S
      BY <1>1, <1>2, <2>2
    <2> HIDE DEF S
    <2> QED
      BY <1>1, <2>1, <2>2, Induct
  <1>4. f[n] >= n
    BY <1>1, <1>3
  <1> QED
    BY <1>1, <1>4 DEF Size, Total, f, n, ns

CountRead(n) ==
  LET w == WriteLenencInt(n)
  IN  /\ w \in Seq(Pieces) /\ Len(w) # 0 /\ FitsOne(Size(w)) /\ LenencInt(w, 1).v = n
      /\ n = 0 => PacketType(w) = "OK"
      /\ n # 0 => PacketType(w) # "OK" /\ PacketType(w) # "ERR"

LEMMA CountIsRead ==
  ASSUME NEW n \in Nat, HasWidth(n, 4)
  PROVE  CountRead(n)
  <1> DEFINE w == WriteLenencInt(n)
  <1>1. w \in Seq(Pieces) /\ Len(w) \in Nat \ {0} /\ Size(w) = LenencIntSize(n)
    BY LenencIntBytes
  <1>2. FitsOne(Size(w))
    <2>1. LenencIntSize(n) \in {1, 3, 4, 9}
      BY DEF LenencIntSize
    <2>2. \A k \in {1, 3, 4, 9} : FitsOne(k)
      BY SMT DEF FitsOne
    <2> QED
      BY <1>1, <2>1, <2>2
  <1>3. LenencInt(w, 1).v = n
    <2>1. Written(w, 1, w) /\ 1 \in Nat \ {0}
      BY <1>1, WrittenSelf
    <2>2. 1 + Len(w) - 1 <= Len(w)
      BY <1>1
    <2>3. LenencInt(w, 1) = [v |-> n, next |-> 1 + Len(w)]
      BY <1>1, <2>1, <2>2, LenencIntRead
    <2> QED
      BY <2>3
  <1>4. PICK b : LenencOf(n, w, b)
    BY LenencIntIs
  <1>5. b \in 0 .. 254 /\ w[1] = Byte(b) /\ (Width(b) = 0 => b = n)
    BY <1>4 DEF LenencOf
  <1> HIDE DEF w
  <1>6. w[1] # Byte(255)
    <2>1. b # 255
      BY <1>5
    <2> QED
      BY <1>5, <2>1 DEF Byte
  <1>7. n = 0 => w[1] = Byte(0)
    BY DEF w, WriteLenencInt
  <1>8. n # 0 => w[1] # Byte(0)
    <2>1. b = 0 => n = 0
      BY <1>5 DEF Width
    <2> QED
      BY <1>5, <2>1 DEF Byte
  <1>9. Len(w) # 0
    BY <1>1
  <1> QED
    BY <1>1, <1>2, <1>3, <1>6, <1>7, <1>8, <1>9, TypeIs DEF CountRead, w

\* A row whose first text has a length of nine bytes is too long for an EOF.
LEMMA RowIsNoEof ==
  ASSUME NEW row \in Seq(Readable)
  PROVE  PacketType(RowPayload(row)) # "EOF"
  <1> DEFINE n == Len(row)
             seqs == [k \in 1 .. n |-> FieldOf(row[k])]
             w == FlattenSeq(seqs)
  <1>1. RowPayload(row) = w
    <2>1. DOMAIN row = 1 .. n
      OBVIOUS
    <2> QED
      BY <2>1, Zenon DEF RowPayload, FieldOf
  <1>2. n \in Nat /\ \A k \in 1 .. n : row[k] \in Readable
    BY ElementOfSeq
  <1> HIDE DEF n
  <1>3. seqs \in [1 .. n -> Seq(Pieces)]
    BY <1>2, FieldsArePieces
  <1>4. seqs \in Seq(Seq(Pieces)) /\ Len(seqs) = n
    <2> HIDE DEF seqs
    <2> QED
      BY <1>2, <1>3, IsASeq
  <1>5. \A k \in 1 .. n : seqs[k] = FieldOf(row[k])
    OBVIOUS
  <1> HIDE DEF seqs
  <1>6. w \in Seq(Pieces) /\ \E at : Offsets(at, seqs)
    BY <1>4, FlatIs
  <1>7. PICK at : Offsets(at, seqs)
    BY <1>6
  <1>8. at[0] = 0 /\ at[n] = Len(w) /\ \A k \in 1 .. n : Within(w, at[k - 1] + 1, seqs[k])
    BY <1>4, <1>7 DEF Offsets
  <1> HIDE DEF w
  <1>9. CASE n = 0
    <2>1. Len(w) = 0
      BY <1>8, <1>9
    <2>2. w = <<>>
      BY <1>6, <2>1
    <2> QED
      BY <1>1, <2>2, TypeOfNone
  <1>10. CASE n # 0
    <2> DEFINE t == row[1]
               f == FieldOf(t)
    <2>1. 1 \in 1 .. n
      BY <1>2, <1>10
    <2>2. t \in Readable /\ f \in Seq(Pieces) /\ Within(w, 1, f)
      <3>1. 1 - 1 = 0 /\ 0 + 1 = 1
        OBVIOUS
      <3>2. Within(w, at[0] + 1, f)
        BY <1>5, <1>8, <2>1, <3>1
      <3>3. Within(w, 1, f)
        BY <1>8, <3>1, <3>2
      <3> QED
        BY <1>2, <2>1, <3>3, FieldsArePieces
    <2> HIDE DEF t, f
    <2>3. ASSUME NEW b \in 0 .. 255, Len(f) # 0, f[1] = Byte(b), b # 254 \/ Len(f) >= 9
          PROVE  PacketType(w) # "EOF"
      <3>1. Len(f) \in Nat /\ Len(w) \in Nat
        BY <1>6, <2>2
      <3>2. Len(f) <= Len(w) /\ w[1] = f[1]
        <4>1. 1 + Len(f) - 1 <= Len(w) /\ w[1 + 1 - 1] = f[1]
          BY <2>2, <2>3, <3>1 DEF Within
        <4> QED
          BY <3>1, <4>1
      <3>3. Len(w) # 0
        BY <2>3, <3>1, <3>2
      <3>4. CASE b # 254
        <4>1. w[1] # Byte(254)
          BY <2>3, <3>2, <3>4 DEF Byte
        <4> QED
          BY <1>6, <3>3, <4>1, TypeIs
      <3>5. CASE Len(f) >= 9
        <4>1. Size(w) >= Len(w) /\ Size(w) \in Nat
          BY <1>6, SizeIsLonger, SizeType
        <4>2. Size(w) >= 9
          BY <3>1, <3>2, <3>5, <4>1
        <4> QED
          BY <1>6, <3>3, <4>2, TypeIs
      <3> QED
        BY <2>3, <3>4, <3>5
    <2>4. CASE t = NullValue
      <3>1. f = <<Byte(251)>>
        BY <2>4 DEF f, FieldOf
      <3>2. Len(f) # 0 /\ f[1] = Byte(251) /\ 251 \in 0 .. 255 /\ 251 # 254
        BY <3>1
      <3> QED
        BY <1>1, <2>3, <3>2
    <2>5. CASE t # NullValue
      <3> DEFINE l == WriteLenencInt(t.len)
                 v == WriteString(t)
      <3>1. t \in Strings /\ HasWidth(t.len, 4)
        BY <2>2, <2>5 DEF Readable
      <3>2. t.len \in Nat /\ v \in Seq(Pieces) /\ f = l \o v
        BY <2>5, <3>1, StringBytes DEF f, FieldOf, WriteLenencString
      <3>3. PICK b : LenencOf(t.len, l, b)
        BY <3>1, <3>2, LenencIntIs
      <3>4. l \in Seq(Pieces) /\ Len(l) = 1 + Width(b) /\ b \in 0 .. 254 /\ l[1] = Byte(b)
        BY <3>3 DEF LenencOf
      <3> HIDE DEF l, v
      <3>5. Width(b) \in Nat /\ (b = 254 => Width(b) = 8)
        BY <3>4 DEF Width
      <3>6. Len(f) = Len(l) + Len(v) /\ Len(v) \in Nat /\ f[1] = l[1]
        <4>1. Len(l) \in Nat /\ Len(l) >= 1
          BY <3>4, <3>5
        <4>2. (l \o v)[1] = l[1]
          BY <3>2, <3>4, <4>1, ConcatProperties
        <4>3. Len(l \o v) = Len(l) + Len(v)
          BY <3>2, <3>4, LenConcat, Zenon
        <4>4. Len(v) \in Nat
          BY <3>2
        <4> QED
          BY <3>2, <4>2, <4>3, <4>4, Zenon
      <3>7. Len(f) # 0 /\ (b # 254 \/ Len(f) >= 9)
        BY <3>4, <3>5, <3>6
      <3>8. b \in 0 .. 255
        BY <3>4
      <3> QED
        BY <1>1, <2>3, <3>4, <3>6, <3>7, <3>8
    <2> QED
      BY <2>4, <2>5
  <1> QED
    BY <1>9, <1>10

-----------------------------------------------------------------------------
(* Result sets                                                               *)

EndsOf(P, first) == {k \in first .. Len(P) : PacketType(P[k]) = "EOF"}
ColumnsOfPayloads(P, n) == [k \in 1 .. n |-> ReadColumn(P[k + 1])]
RowsOfPayloads(P, first, n) == [k \in 1 .. Len(P) - first |-> Fields(P[first + k - 1], n)]
RowsAreLost(P, deprecate, n, first) ==
  \/ n < 1 \/ EndsOf(P, first) # {Len(P)}
  \/ ~deprecate /\ PacketType(P[n + 2]) # "EOF"
  \/ \E k \in DOMAIN ColumnsOfPayloads(P, n) : ColumnsOfPayloads(P, n)[k] = Lost
  \/ \E k \in DOMAIN RowsOfPayloads(P, first, n) :
       ~IsRow(P[first + k - 1], RowsOfPayloads(P, first, n)[k])
ValuesOf(rows) == [k \in DOMAIN rows |-> rows[k].values]

LEMMA RowsAreRead ==
  ASSUME NEW P, NEW deprecate \in BOOLEAN, NEW n, n = LenencInt(P[1], 1).v,
         NEW first, first = IF deprecate THEN n + 2 ELSE n + 3
  PROVE  ReadRows(P, deprecate) =
           IF RowsAreLost(P, deprecate, n, first) THEN Lost
           ELSE [kind |-> "rows", columns |-> ColumnsOfPayloads(P, n),
                 rows |-> ValuesOf(RowsOfPayloads(P, first, n))]
  BY Zenon DEF ReadRows, RowsAreLost, ColumnsOfPayloads, RowsOfPayloads, EndsOf, ValuesOf

LEMMA RowsLost ==
  ASSUME NEW P, NEW deprecate \in BOOLEAN, NEW n, n = LenencInt(P[1], 1).v,
         NEW first, first = IF deprecate THEN n + 2 ELSE n + 3
  PROVE  /\ n < 1 => ReadRows(P, deprecate) = Lost
         /\ (\E k \in first .. Len(P) : PacketType(P[k]) = "EOF" /\ k # Len(P)) =>
              ReadRows(P, deprecate) = Lost
         /\ (\E k \in 1 .. n : ReadColumn(P[k + 1]) = Lost) => ReadRows(P, deprecate) = Lost
         /\ (\E k \in 1 .. Len(P) - first :
               ~IsRow(P[first + k - 1], Fields(P[first + k - 1], n))) =>
              ReadRows(P, deprecate) = Lost
  <1>1. RowsAreLost(P, deprecate, n, first) => ReadRows(P, deprecate) = Lost
    BY RowsAreRead
  <1>2. n < 1 => RowsAreLost(P, deprecate, n, first)
    BY DEF RowsAreLost
  <1>3. ASSUME NEW k \in first .. Len(P), PacketType(P[k]) = "EOF", k # Len(P)
        PROVE  RowsAreLost(P, deprecate, n, first)
    <2>1. k \in EndsOf(P, first)
      BY <1>3, Zenon DEF EndsOf
    <2>2. EndsOf(P, first) # {Len(P)}
      BY <1>3, <2>1
    <2> QED
      BY <2>2 DEF RowsAreLost
  <1>4. ASSUME NEW k \in 1 .. n, ReadColumn(P[k + 1]) = Lost
        PROVE  RowsAreLost(P, deprecate, n, first)
    <2>1. k \in DOMAIN ColumnsOfPayloads(P, n) /\ ColumnsOfPayloads(P, n)[k] = Lost
      BY <1>4, Zenon DEF ColumnsOfPayloads
    <2> QED
      BY <2>1, Zenon DEF RowsAreLost
  <1>5. ASSUME NEW k \in 1 .. Len(P) - first,
               ~IsRow(P[first + k - 1], Fields(P[first + k - 1], n))
        PROVE  RowsAreLost(P, deprecate, n, first)
    <2>1. /\ k \in DOMAIN RowsOfPayloads(P, first, n)
          /\ RowsOfPayloads(P, first, n)[k] = Fields(P[first + k - 1], n)
      BY Zenon DEF RowsOfPayloads
    <2> QED
      BY <1>5, <2>1, Zenon DEF RowsAreLost
  <1> QED
    BY <1>1, <1>2, <1>3, <1>4, <1>5

\* The result sets that are in question: of readable texts, with a column for every value.
ReadableRows ==
  {r \in RowReplies :
     /\ HasWidth(Len(r.columns), 4) /\ r.rows \in Seq(Seq(Readable))
     /\ \A i \in DOMAIN r.rows : Len(r.rows[i]) = Len(r.columns)}

\* Its packets, by position.
RowPackets(r, P, n, m) ==
  /\ n = Len(r.columns) /\ m = Len(r.rows) /\ n \in Nat /\ m \in Nat
  /\ P = Payloads(r) /\ P \in Seq(Seq(Pieces)) /\ Len(P) = n + m + 3
  /\ P[1] = WriteLenencInt(n) /\ CountRead(n)
  /\ P[n + 2] = EofPayload /\ P[n + m + 3] = EofPayload
  /\ \A i \in 1 .. n : P[i + 1] = ColumnPayload(r.columns[i]) /\ r.columns[i] \in ColumnRecords
  /\ \A i \in 1 .. m : /\ P[n + 2 + i] = RowPayload(r.rows[i])
                       /\ r.rows[i] \in Seq(Readable) /\ Len(r.rows[i]) = n

LEMMA RowPacketsAre ==
  ASSUME NEW r \in ReadableRows
  PROVE  \E n, m : RowPackets(r, Payloads(r), n, m)
  <1> DEFINE n == Len(r.columns)
             m == Len(r.rows)
             P == Payloads(r)
  <1>1. r \in RowReplies /\ HasWidth(n, 4) /\ r.rows \in Seq(Seq(Readable))
    BY DEF ReadableRows
  <1>2. /\ n \in Nat /\ m \in Nat /\ P \in Seq(Seq(Pieces)) /\ Len(P) = n + m + 3
        /\ P[1] = WriteLenencInt(n) /\ P[n + 2] = EofPayload /\ P[n + m + 3] = EofPayload
        /\ \A i \in 1 .. n : P[i + 1] = ColumnPayload(r.columns[i])
        /\ \A i \in 1 .. m : P[n + 2 + i] = RowPayload(r.rows[i])
    BY <1>1, RowPayloadsAre
  <1>3. CountRead(n)
    BY <1>1, <1>2, CountIsRead
  <1>4. \A i \in 1 .. n : r.columns[i] \in ColumnRecords
    <2>1. r.columns \in Seq(ColumnRecords)
      BY <1>1 DEF RowReplies
    <2> QED
      BY <2>1, ElementOfSeq
  <1>5. \A i \in 1 .. m : r.rows[i] \in Seq(Readable) /\ Len(r.rows[i]) = n
    <2>1. \A i \in 1 .. m : r.rows[i] \in Seq(Readable)
      BY <1>1, ElementOfSeq
    <2>2. DOMAIN r.rows = 1 .. m
      BY <1>1
    <2> QED
      BY <2>1, <2>2 DEF ReadableRows
  <1> HIDE DEF n, m, P
  <1>6. RowPackets(r, P, n, m)
    BY <1>2, <1>3, <1>4, <1>5 DEF RowPackets, n, m, P
  <1> QED
    BY <1>6 DEF P

LEMMA ColumnIsNotLost == ASSUME NEW c \in ColumnRecords  PROVE c # Lost
  <1>1. "db" \in DOMAIN c
    BY DEF ColumnRecords
  <1>2. "db" \notin DOMAIN Lost
    BY DEF Lost
  <1> QED
    BY <1>1, <1>2

LEMMA CutWritten ==
  ASSUME NEW w \in Seq(Pieces), NEW k \in 0 .. Len(w) - 1, NEW s, s = SubSeq(w, 1, k)
  PROVE  s \in Seq(Pieces) /\ Len(s) = k /\ Len(s) < Len(w) /\ Written(s, 1, w)
  <1>1. Len(w) \in Nat /\ k \in Nat /\ k <= Len(w) /\ k < Len(w) /\ 1 \in Nat \ {0}
    OBVIOUS
  <1>2. /\ s \in Seq(Pieces) /\ Len(s) = IF 1 <= k THEN k - 1 + 1 ELSE 0
        /\ \A i \in 1 .. k - 1 + 1 : s[i] = w[1 + i - 1]
    BY <1>1, Cut
  <1>3. Len(s) = k
    BY <1>1, <1>2
  <1>4. \A j \in 1 .. Len(w) : 1 + j - 1 <= Len(s) => s[1 + j - 1] = w[j]
    BY <1>1, <1>2, <1>3
  <1> QED
    BY <1>1, <1>2, <1>3, <1>4 DEF Written

LEMMA RowSetRead ==
  ASSUME NEW r \in ReadableRows, NEW P, NEW n, NEW m, RowPackets(r, P, n, m), n # 0
  PROVE  ReadRows(P, FALSE) = r /\ ReadRows(P, TRUE) = Lost
  <1>0. n = LenencInt(P[1], 1).v
    BY DEF RowPackets, CountRead
  <1>1. n \in Nat /\ m \in Nat /\ Len(P) = n + m + 3
    BY DEF RowPackets
  <1>2. PacketType(P[n + 2]) = "EOF" /\ PacketType(P[n + m + 3]) = "EOF"
    BY EofIs DEF RowPackets
  <1>3. ReadRows(P, TRUE) = Lost
    <2> DEFINE first == n + 2
    <2>1. first \in first .. Len(P) /\ first # Len(P) /\ PacketType(P[first]) = "EOF"
      BY <1>1, <1>2
    <2>2. first = IF TRUE THEN n + 2 ELSE n + 3
      OBVIOUS
    <2> HIDE DEF first
    <2> QED
      BY <1>0, <2>1, <2>2, RowsLost
  <1>4. ReadRows(P, FALSE) = r
    <2> DEFINE first == n + 3
    <2>1. ReadRows(P, FALSE) =
            IF RowsAreLost(P, FALSE, n, first) THEN Lost
            ELSE [kind |-> "rows", columns |-> ColumnsOfPayloads(P, n),
                  rows |-> ValuesOf(RowsOfPayloads(P, first, n))]
      <3>1. first = IF FALSE THEN n + 2 ELSE n + 3
        OBVIOUS
      <3> HIDE DEF first
      <3> QED
        BY <1>0, <3>1, RowsAreRead
    <2>2. first \in Nat /\ Len(P) - first = m /\ first + m = Len(P) /\ n >= 1
      BY <1>1
    <2>3. EndsOf(P, first) = {Len(P)}
      <3>1. ASSUME NEW k \in first .. Len(P), k # Len(P)  PROVE PacketType(P[k]) # "EOF"
        <4> DEFINE i == k - (n + 2)
        <4>1. i \in 1 .. m /\ n + 2 + i = k
          BY <1>1, <3>1
        <4> HIDE DEF i
        <4>2. P[k] = RowPayload(r.rows[i]) /\ r.rows[i] \in Seq(Readable)
          BY <4>1 DEF RowPackets
        <4> QED
          BY <4>2, RowIsNoEof
      <3>2. Len(P) \in first .. Len(P) /\ PacketType(P[Len(P)]) = "EOF"
        BY <1>1, <1>2, <2>2
      <3> HIDE DEF first
      <3> QED
        BY <3>1, <3>2 DEF EndsOf
    <2>4. \A k \in 1 .. n : ReadColumn(P[k + 1]) = r.columns[k] /\ r.columns[k] # Lost
      <3> TAKE k \in 1 .. n
      <3>1. P[k + 1] = ColumnPayload(r.columns[k]) /\ r.columns[k] \in ColumnRecords
        BY DEF RowPackets
      <3>2. ColumnPayload(r.columns[k]) \in Seq(Pieces)
        BY <3>1, ColumnSize
      <3>3. Written(P[k + 1], 1, ColumnPayload(r.columns[k]))
        BY <3>1, <3>2, WrittenSelf
      <3>4. ReadColumn(P[k + 1]) = r.columns[k]
        BY <3>1, <3>2, <3>3, ColumnRead
      <3> QED
        BY <3>1, <3>4, ColumnIsNotLost
    <2>5. \A k \in 1 .. m : /\ IsRow(P[first + k - 1], Fields(P[first + k - 1], n))
                            /\ Fields(P[first + k - 1], n).values = r.rows[k]
      <3> TAKE k \in 1 .. m
      <3> DEFINE p == P[first + k - 1]
                 row == r.rows[k]
      <3>1. n + 2 + k = first + k - 1
        BY <1>1
      <3>2. p = RowPayload(row) /\ row \in Seq(Readable) /\ Len(row) = n
        BY <3>1 DEF RowPackets
      <3> HIDE DEF p, row
      <3>3. Written(p, 1, RowPayload(row)) /\ RowPayload(row) \in Seq(Pieces) /\ p \in Seq(Pieces)
        <4>1. \A s \in Seq(Pieces) : Written(s, 1, RowPayload(row)) => RowPayload(row) \in Seq(Pieces)
          BY <1>1, <3>2, RowRead
        <4>2. <<>> \in Seq(Pieces) /\ Written(<<>>, 1, RowPayload(row))
          <5>1. <<>> \in Seq(Pieces) /\ Len(<<>>) = 0
            OBVIOUS
          <5>2. \A j \in 1 .. Len(RowPayload(row)) : ~(1 + j - 1 <= 0)
            OBVIOUS
          <5> QED
            BY <5>1, <5>2 DEF Written
        <4>3. RowPayload(row) \in Seq(Pieces)
          BY <4>1, <4>2
        <4> QED
          BY <3>2, <4>3, WrittenSelf
      <3>4. IsRow(p, Fields(p, n)) /\ Fields(p, n).values = row
        BY <1>1, <3>2, <3>3, RowRead
      <3> QED
        BY <3>4 DEF p, row
    <2>6. DOMAIN ColumnsOfPayloads(P, n) = 1 .. n
          /\ \A k \in 1 .. n : ColumnsOfPayloads(P, n)[k] = ReadColumn(P[k + 1])
      BY DEF ColumnsOfPayloads
    <2>7. DOMAIN RowsOfPayloads(P, first, n) = 1 .. m
          /\ \A k \in 1 .. m : RowsOfPayloads(P, first, n)[k] = Fields(P[first + k - 1], n)
      <3> HIDE DEF first
      <3> QED
        BY <2>2, Zenon DEF RowsOfPayloads
    <2> HIDE DEF first
    <2>8. ~RowsAreLost(P, FALSE, n, first)
      <3>1. ~(n < 1)
        BY <1>1, <2>2
      <3>2. ~\E k \in DOMAIN ColumnsOfPayloads(P, n) : ColumnsOfPayloads(P, n)[k] = Lost
        BY <2>4, <2>6, Zenon
      <3>3. ~\E k \in DOMAIN RowsOfPayloads(P, first, n) :
               ~IsRow(P[first + k - 1], RowsOfPayloads(P, first, n)[k])
        BY <2>5, <2>7, Zenon
      <3> QED
        BY <1>2, <2>3, <3>1, <3>2, <3>3, Zenon DEF RowsAreLost
    <2>9. r \in RowReplies
      BY DEF ReadableRows
    <2>10. ColumnsOfPayloads(P, n) = r.columns
      <3>1. r.columns = [k \in 1 .. n |-> r.columns[k]]
        <4>1. r.columns \in Seq(ColumnRecords)
          BY <2>9 DEF RowReplies
        <4>2. n = Len(r.columns)
          BY DEF RowPackets
        <4> QED
          BY <4>1, <4>2
      <3>2. ColumnsOfPayloads(P, n) = [k \in 1 .. n |-> r.columns[k]]
        BY <2>4, Zenon DEF ColumnsOfPayloads
      <3> QED
        BY <3>1, <3>2, Zenon
    <2>11. ValuesOf(RowsOfPayloads(P, first, n)) = r.rows
      <3>1. r.rows = [k \in 1 .. m |-> r.rows[k]]
        <4>1. r.rows \in Seq(Seq(Strings \cup {NullValue}))
          BY <2>9 DEF RowReplies
        <4>2. m = Len(r.rows)
          BY DEF RowPackets
        <4> QED
          BY <4>1, <4>2
      <3>2. \A k \in 1 .. m : RowsOfPayloads(P, first, n)[k].values = r.rows[k]
        BY <2>5, <2>7, Zenon
      <3>3. ValuesOf(RowsOfPayloads(P, first, n)) = [k \in 1 .. m |-> r.rows[k]]
        BY <2>7, <3>2, Zenon DEF ValuesOf
      <3> QED
        BY <3>1, <3>3, Zenon
    <2>12. r = [kind |-> "rows", columns |-> r.columns, rows |-> r.rows]
      BY <2>9 DEF RowReplies
    <2> QED
      BY <2>1, <2>8, <2>10, <2>11, <2>12, Zenon
  <1> QED
    BY <1>3, <1>4

\* The first payloads are those of Q, and the next one, behind which there are others, is cut.
CutIn(P, Q, c) ==
  /\ Len(P) \in Nat /\ Len(P) > c /\ \A j \in 1 .. c - 1 : P[j] = Q[j]
  /\ \E k \in 0 .. Len(Q[c]) - 1 : P[c] = SubSeq(Q[c], 1, k)

LEMMA RowSetCut ==
  ASSUME NEW r \in ReadableRows, NEW Q, NEW n, NEW m, RowPackets(r, Q, n, m), n # 0,
         NEW c \in 1 .. Len(Q), ~FitsOne(Size(Q[c])), NEW P, CutIn(P, Q, c),
         NEW deprecate \in BOOLEAN
  PROVE  P[1] = Q[1] /\ ReadRows(P, deprecate) = Lost
  <1>1. n \in Nat /\ m \in Nat /\ Len(Q) = n + m + 3 /\ Len(P) \in Nat /\ Len(P) > c
    BY DEF RowPackets, CutIn
  <1>2. c # 1
    <2>1. FitsOne(Size(Q[1]))
      BY DEF RowPackets, CountRead
    <2> QED
      BY <2>1
  <1>3. c # n + 2 /\ c # n + m + 3
    <2>1. FitsOne(Size(Q[n + 2])) /\ FitsOne(Size(Q[n + m + 3]))
      BY EofIs DEF RowPackets
    <2> QED
      BY <2>1
  <1>4. P[1] = Q[1]
    <2>1. 1 \in 1 .. c - 1
      BY <1>2
    <2> QED
      BY <2>1 DEF CutIn
  <1>5. n = LenencInt(P[1], 1).v
    BY <1>4 DEF RowPackets, CountRead
  <1>6. PICK k \in 0 .. Len(Q[c]) - 1 : P[c] = SubSeq(Q[c], 1, k)
    BY DEF CutIn
  <1>7. Q[c] \in Seq(Pieces)
    BY ElementOfSeq DEF RowPackets
  <1>8. /\ P[c] \in Seq(Pieces) /\ Len(P[c]) < Len(Q[c])
        /\ Written(P[c], 1, Q[c])
    BY <1>6, <1>7, CutWritten
  <1> DEFINE first == IF deprecate THEN n + 2 ELSE n + 3
  <1>9. first = IF deprecate THEN n + 2 ELSE n + 3
    OBVIOUS
  <1> HIDE DEF first
  <1>10. CASE c <= n + 1
    <2> DEFINE i == c - 1
    <2>1. i \in 1 .. n /\ i + 1 = c
      BY <1>1, <1>2, <1>10
    <2> HIDE DEF i
    <2>2. Q[c] = ColumnPayload(r.columns[i]) /\ r.columns[i] \in ColumnRecords
      BY <2>1 DEF RowPackets
    <2>3. ReadColumn(P[i + 1]) = Lost
      BY <1>8, <2>1, <2>2, ColumnRead
    <2> QED
      BY <1>4, <1>5, <1>9, <2>1, <2>3, RowsLost
  <1>11. CASE c > n + 1
    <2> DEFINE i == c - (n + 2)
    <2>1. i \in 1 .. m /\ n + 2 + i = c /\ n + 2 \in 1 .. c - 1
      BY <1>1, <1>3, <1>11
    <2> HIDE DEF i
    <2>2. Q[c] = RowPayload(r.rows[i]) /\ r.rows[i] \in Seq(Readable) /\ Len(r.rows[i]) = n
      BY <2>1 DEF RowPackets
    <2>3. P[n + 2] = Q[n + 2] /\ Q[n + 2] = EofPayload
      BY <2>1 DEF RowPackets, CutIn
    <2>4. CASE deprecate
      <3>1. first = n + 2 /\ PacketType(P[first]) = "EOF"
        BY <1>9, <2>3, <2>4, EofIs
      <3>2. first \in first .. Len(P) /\ first # Len(P)
        BY <1>1, <1>11, <3>1
      <3> QED
        BY <1>4, <1>5, <1>9, <3>1, <3>2, RowsLost
    <2>5. CASE ~deprecate
      <3>1. first = n + 3
        BY <1>9, <2>5
      <3>2. ~IsRow(P[c], Fields(P[c], n))
        BY <1>1, <1>8, <2>2, RowRead
      <3>3. i \in 1 .. Len(P) - first /\ first + i - 1 = c
        BY <1>1, <2>1, <3>1
      <3>4. ~IsRow(P[first + i - 1], Fields(P[first + i - 1], n))
        BY <3>2, <3>3
      <3> QED
        BY <1>4, <1>5, <1>9, <3>3, <3>4, RowsLost
    <2> QED
      BY <2>4, <2>5
  <1> QED
    BY <1>1, <1>10, <1>11

-----------------------------------------------------------------------------
(* A reply                                                                   *)

ReadPayloads(P, deprecate) ==
  IF PacketType(P[1]) = "OK" THEN IF Len(P) = 1 THEN ReadOk(P[1]) ELSE Lost
  ELSE IF PacketType(P[1]) = "ERR" THEN IF Len(P) = 1 THEN ReadErr(P[1]) ELSE Lost
  ELSE ReadRows(P, deprecate)

ReadableReplies ==
  {r \in OkReplies : HasWidth(r.insertId, 4)} \cup {r \in ErrReplies : HasWidth(r.code, 2)}
  \cup ReadableRows

ReadRight(r, P, deprecate) ==
  ReadPayloads(P, deprecate) =
    IF r.kind = "rows" /\ (deprecate \/ r.columns = <<>>) THEN Lost ELSE r

LEMMA PayloadsRead ==
  ASSUME NEW r \in ReadableReplies, NEW deprecate \in BOOLEAN
  PROVE  /\ Payloads(r) \in Seq(Seq(Pieces)) /\ Len(Payloads(r)) \in Nat \ {0}
         /\ ReadRight(r, Payloads(r), deprecate)
  <1> DEFINE P == Payloads(r)
  <1>1. CASE r \in OkReplies /\ HasWidth(r.insertId, 4)
    <2>1. r.kind = "ok" /\ r.kind # "rows"
      BY <1>1 DEF OkReplies
    <2>2. P = <<OkPayload(r)>>
      BY <2>1 DEF Payloads
    <2>3. OkRead(r)
      BY <1>1, OkIsRead
    <2>4. OkPayload(r) \in Seq(Pieces) /\ PacketType(OkPayload(r)) = "OK" /\ ReadOk(OkPayload(r)) = r
      BY <2>3, TypeIs DEF OkRead
    <2>5. P \in Seq(Seq(Pieces)) /\ Len(P) = 1 /\ P[1] = OkPayload(r)
      BY <2>2, <2>4
    <2> HIDE DEF P
    <2>6. ReadPayloads(P, deprecate) = r
      BY <2>4, <2>5 DEF ReadPayloads
    <2> QED
      BY <2>1, <2>5, <2>6 DEF ReadRight, P
  <1>2. CASE r \in ErrReplies /\ HasWidth(r.code, 2)
    <2>1. r.kind = "err" /\ r.kind # "rows"
      BY <1>2 DEF ErrReplies
    <2>2. P = <<ErrPayload(r)>>
      BY <2>1 DEF Payloads
    <2>3. ErrRead(r)
      BY <1>2, ErrIsRead
    <2>4. /\ ErrPayload(r) \in Seq(Pieces) /\ PacketType(ErrPayload(r)) = "ERR"
          /\ ReadErr(ErrPayload(r)) = r
      BY <2>3, TypeIs DEF ErrRead
    <2>5. P \in Seq(Seq(Pieces)) /\ Len(P) = 1 /\ P[1] = ErrPayload(r)
      BY <2>2, <2>4
    <2> HIDE DEF P
    <2>6. ReadPayloads(P, deprecate) = r
      BY <2>4, <2>5 DEF ReadPayloads
    <2> QED
      BY <2>1, <2>5, <2>6 DEF ReadRight, P
  <1>3. CASE r \in ReadableRows
    <2>1. PICK n, m : RowPackets(r, P, n, m)
      BY <1>3, RowPacketsAre
    <2>2. n \in Nat /\ m \in Nat /\ Len(P) = n + m + 3 /\ n = Len(r.columns) /\ P \in Seq(Seq(Pieces))
      BY <2>1 DEF RowPackets
    <2>3. r.kind = "rows" /\ r.columns \in Seq(ColumnRecords)
      BY <1>3 DEF ReadableRows, RowReplies
    <2>4. CountRead(n) /\ P[1] = WriteLenencInt(n)
      BY <2>1 DEF RowPackets
    <2> HIDE DEF P
    <2>5. Len(P) \in Nat \ {0} /\ Len(P) # 1
      BY <2>2
    <2>6. CASE n = 0
      <3>1. r.columns = <<>>
        <4>1. Len(r.columns) = 0
          BY <2>2, <2>6
        <4> QED
          BY <2>3, <4>1
      <3>2. ReadPayloads(P, deprecate) = Lost
        BY <2>4, <2>5, <2>6 DEF CountRead, ReadPayloads
      <3> QED
        BY <2>2, <2>3, <2>5, <3>1, <3>2 DEF ReadRight, P
    <2>7. CASE n # 0
      <3>1. r.columns # <<>>
        BY <2>2, <2>7
      <3>2. ReadPayloads(P, deprecate) = ReadRows(P, deprecate)
        BY <2>4, <2>7 DEF CountRead, ReadPayloads
      <3>3. ReadRows(P, FALSE) = r /\ ReadRows(P, TRUE) = Lost
        BY <1>3, <2>1, <2>7, RowSetRead
      <3>4. ReadRight(r, P, deprecate)
        BY <2>3, <3>1, <3>2, <3>3 DEF ReadRight
      <3> QED
        BY <2>2, <2>5, <3>4 DEF P
    <2> QED
      BY <2>6, <2>7
  <1> QED
    BY <1>1, <1>2, <1>3 DEF ReadableReplies

LEMMA PayloadsCut ==
  ASSUME NEW r \in ReadableReplies, NEW c \in 1 .. Len(Payloads(r)),
         ~FitsOne(Size(Payloads(r)[c])), NEW P, CutIn(P, Payloads(r), c), NEW deprecate \in BOOLEAN
  PROVE  ReadPayloads(P, deprecate) = Lost
  <1> DEFINE Q == Payloads(r)
  \* What a packet that is not of a result set is cut to.
  <1>1. ASSUME NEW q \in Seq(Pieces), NEW b \in {0, 255}, Len(q) # 0, q[1] = Byte(b), Q = <<q>>
        PROVE  ReadPayloads(P, deprecate) = Lost
    <2>1. Len(Q) = 1 /\ Q[1] = q
      BY <1>1
    <2>2. c = 1
      BY <2>1
    <2>3. Len(P) # 1
      <3> DEFINE x == Len(P)
      <3>1. x \in Nat /\ x > c
        BY Zenon DEF CutIn
      <3>2. x > 1
        BY <2>2, <3>1, Zenon
      <3> HIDE DEF x
      <3>3. x # 1
        BY <3>1, <3>2
      <3> QED
        BY <3>3 DEF x
    <2> DEFINE s == P[1]
    <2>4. \E k \in 0 .. Len(q) - 1 : s = SubSeq(q, 1, k)
      BY <2>1, <2>2 DEF CutIn
    <2> HIDE DEF s, Q
    <2>5. PICK k \in 0 .. Len(q) - 1 : s \in Seq(Pieces) /\ Len(s) = k /\ Written(s, 1, q)
      <3>1. PICK k \in 0 .. Len(q) - 1 : s = SubSeq(q, 1, k)
        BY <2>4
      <3>2. s \in Seq(Pieces) /\ Len(s) = k /\ Written(s, 1, q)
        BY <3>1, CutWritten
      <3> QED
        BY <3>2
    <2>6. CASE k = 0
      <3>1. s = <<>>
        BY <2>5, <2>6
      <3>2. PacketType(s) = "UNKNOWN"
        BY <3>1, TypeOfNone
      <3>3. LenencInt(s, 1).v = -1
        <4>1. ~AreBytes(s, 1, 1)
          BY <2>5, <2>6 DEF AreBytes
        <4> QED
          BY <4>1 DEF LenencInt
      <3>4. ReadRows(P, deprecate) = Lost
        <4> DEFINE n == LenencInt(P[1], 1).v
                   first == IF deprecate THEN n + 2 ELSE n + 3
        <4>1. n < 1
          BY <3>3 DEF s
        <4>2. n = LenencInt(P[1], 1).v /\ first = IF deprecate THEN n + 2 ELSE n + 3
          OBVIOUS
        <4> HIDE DEF n, first
        <4> QED
          BY <4>1, <4>2, RowsLost
      <3> QED
        BY <3>2, <3>4 DEF ReadPayloads, s
    <2>7. CASE k # 0
      <3>1. s[1] = Byte(b) /\ Len(s) # 0
        <4>1. 1 \in 1 .. Len(q) /\ 1 + 1 - 1 <= Len(s)
          BY <2>5, <2>7
        <4>2. s[1 + 1 - 1] = q[1]
          BY <2>5, <4>1 DEF Written
        <4> QED
          BY <1>1, <2>5, <2>7, <4>2
      <3>2. PacketType(s) = "OK" \/ PacketType(s) = "ERR"
        BY <2>5, <3>1, TypeIs
      <3> QED
        BY <2>3, <3>2 DEF ReadPayloads, s
    <2> QED
      BY <2>6, <2>7
  <1>2. CASE r \in OkReplies /\ HasWidth(r.insertId, 4)
    <2>1. r.kind = "ok"
      BY <1>2 DEF OkReplies
    <2>2. Q = <<OkPayload(r)>>
      BY <2>1 DEF Payloads
    <2>3. OkPayload(r) \in Seq(Pieces) /\ Len(OkPayload(r)) # 0 /\ OkPayload(r)[1] = Byte(0)
      BY <1>2, OkIsRead DEF OkRead
    <2> HIDE DEF Q
    <2> QED
      BY <1>1, <2>2, <2>3
  <1>3. CASE r \in ErrReplies /\ HasWidth(r.code, 2)
    <2>1. r.kind = "err"
      BY <1>3 DEF ErrReplies
    <2>2. Q = <<ErrPayload(r)>>
      BY <2>1 DEF Payloads
    <2>3. ErrPayload(r) \in Seq(Pieces) /\ Len(ErrPayload(r)) # 0 /\ ErrPayload(r)[1] = Byte(255)
      BY <1>3, ErrIsRead DEF ErrRead
    <2> HIDE DEF Q
    <2> QED
      BY <1>1, <2>2, <2>3
  <1>4. CASE r \in ReadableRows
    <2>1. PICK n, m : RowPackets(r, Q, n, m)
      BY <1>4, RowPacketsAre
    <2>2. n \in Nat /\ m \in Nat /\ Len(Q) = n + m + 3 /\ CountRead(n) /\ Q[1] = WriteLenencInt(n)
      BY <2>1 DEF RowPackets
    <2>3. CASE n = 0
      <3>1. c # 1
        BY <2>2 DEF CountRead
      <3>2. P[1] = Q[1] /\ Len(P) # 1
        <4>1. 1 \in 1 .. c - 1
          BY <3>1
        <4> QED
          BY <4>1, SMTT(40) DEF CutIn
      <3> QED
        BY <2>2, <2>3, <3>2 DEF CountRead, ReadPayloads
    <2>4. CASE n # 0
      <3>1. P[1] = Q[1] /\ ReadRows(P, deprecate) = Lost
        BY <1>4, <2>1, <2>4, RowSetCut
      <3> QED
        BY <2>2, <2>4, <3>1 DEF CountRead, ReadPayloads
    <2> QED
      BY <2>3, <2>4
  <1> QED
    BY <1>2, <1>3, <1>4 DEF ReadableReplies

LEMMA SendableIs ==
  ASSUME NEW r, NEW P, P = Payloads(r), NEW n \in Nat, DOMAIN P = 1 .. n
  PROVE  Sendable(r) <=> /\ r.kind = "rows" => r.columns # <<>>
                         /\ \A k \in 1 .. n : FitsOne(Size(P[k]))
  BY Zenon DEF Sendable, FitsOne

\* What a client makes of packets.
PacketsLost(packets, first) ==
  \E k \in DOMAIN packets : packets[k] = Lost \/ packets[k].seq # (first + k - 1) % 256
PayloadsOf(packets) == [k \in DOMAIN packets |-> packets[k].payload]

LEMMA ReplyIs ==
  ASSUME NEW s, NEW packets, packets = Packets(s), NEW first, NEW deprecate
  PROVE  ReadReply(s, first, deprecate) =
           IF PacketsLost(packets, first) THEN Lost ELSE ReadPayloads(PayloadsOf(packets), deprecate)
  <1>1. ReadReply(s, first, deprecate) =
          IF PacketsLost(Packets(s), first) THEN Lost
          ELSE ReadPayloads(PayloadsOf(Packets(s)), deprecate)
    BY DEF ReadReply, ReadPayloads, PacketsLost, PayloadsOf
  <1> QED
    BY <1>1

LEMMA PacketIsNotLost == ASSUME NEW q, NEW p  PROVE [seq |-> q, payload |-> p] # Lost
  <1>1. "seq" \in DOMAIN [seq |-> q, payload |-> p] /\ "seq" \notin DOMAIN Lost
    BY DEF Lost
  <1> QED
    BY <1>1

LEMMA ReplyIsRead ==
  ASSUME NEW r \in ReadableReplies, NEW first \in 0 .. 255, NEW deprecate \in BOOLEAN
  PROVE  ReadReply(Stream(r, first), first, deprecate) =
           IF Sendable(r) /\ ~(deprecate /\ r.kind = "rows") THEN r ELSE Lost
  <1> DEFINE P == Payloads(r)
             n == Len(P)
             qs == [k \in 1 .. n |-> (first + k - 1) % 256]
             seqs == [k \in 1 .. n |-> Packet(P[k], qs[k])]
             s == Stream(r, first)
             packets == Packets(s)
             read == ReadReply(s, first, deprecate)
  <1>1. P \in Seq(Seq(Pieces)) /\ n \in Nat \ {0} /\ ReadRight(r, P, deprecate)
    BY PayloadsRead
  <1>2. DOMAIN P = 1 .. n
    <2> HIDE DEF P
    <2> QED
      BY <1>1
  <1>3. Sendable(r) <=> /\ r.kind = "rows" => r.columns # <<>>
                        /\ \A k \in 1 .. n : FitsOne(Size(P[k]))
    <2>1. P = Payloads(r)
      OBVIOUS
    <2> HIDE DEF P
    <2> QED
      BY <1>1, <1>2, <2>1, SendableIs
  <1>4. s = FlattenSeq(seqs)
    <2>1. \A k \in 1 .. n : seqs[k] = Packet(P[k], (first + k - 1) % 256)
      OBVIOUS
    <2>2. seqs = [k \in DOMAIN P |-> Packet(P[k], (first + k - 1) % 256)]
      BY <1>2, <2>1, Zenon
    <2> QED
      BY <2>2, Zenon DEF Stream
  <1>5. qs \in [1 .. n -> 0 .. 255] /\ \A k \in 1 .. n : qs[k] = (first + k - 1) % 256
    <2>1. \A k \in 1 .. n : (first + k - 1) % 256 \in 0 .. 255
      BY <1>1
    <2> QED
      BY <2>1
  <1>6. read = IF PacketsLost(packets, first) THEN Lost ELSE ReadPayloads(PayloadsOf(packets), deprecate)
    <2> HIDE DEF s
    <2> QED
      BY ReplyIs
  <1>7. ArePackets(seqs, n, P, qs)
    BY Zenon DEF ArePackets
  <1> HIDE DEF P, seqs, qs, s, packets, read
  <1>8. /\ packets \in Seq(AnyPacket)
        /\ (\A k \in 1 .. n : FitsOne(Size(P[k]))) =>
             Len(packets) = n /\ \A k \in 1 .. n : packets[k] = [seq |-> qs[k], payload |-> P[k]]
        /\ \A m \in 1 .. n :
             (~FitsOne(Size(P[m])) /\ \A j \in 1 .. m - 1 : FitsOne(Size(P[j]))) =>
               CutAt(packets, m, P, qs)
    <2> DEFINE l == n
    <2>1. l \in Nat /\ Len(P) = l
      BY <1>1
    <2> HIDE DEF l
    <2>2. l = n
      BY DEF l
    <2>3. qs \in [1 .. l -> 0 .. 255] /\ ArePackets(seqs, l, P, qs)
      BY <1>5, <1>7, <2>2, Zenon
    <2>4. PacketsAreRead(Packets(s), l, P, qs)
      BY <1>1, <1>4, <2>1, <2>3, PacketsRead
    <2> QED
      BY <2>2, <2>4, Zenon DEF packets, PacketsAreRead
  <1>9. Len(packets) \in Nat /\ DOMAIN packets = 1 .. Len(packets)
    BY <1>8
  <1> HIDE DEF n
  <1>10. CASE \A k \in 1 .. n : FitsOne(Size(P[k]))
    <2>1. Len(packets) = n /\ \A k \in 1 .. n : packets[k] = [seq |-> qs[k], payload |-> P[k]]
      BY <1>8, <1>10
    <2>2. \A k \in 1 .. n : packets[k].seq = (first + k - 1) % 256 /\ packets[k].payload = P[k]
      BY <1>5, <2>1
    <2>3. ~PacketsLost(packets, first)
      <3>1. \A k \in 1 .. n : packets[k] # Lost
        BY <2>1, PacketIsNotLost
      <3> QED
        BY <1>9, <2>1, <2>2, <3>1, ZenonT(40) DEF PacketsLost
    <2>4. PayloadsOf(packets) = P
      <3>1. P = [k \in 1 .. n |-> P[k]]
        BY <1>1, <1>2
      <3>2. PayloadsOf(packets) = [k \in 1 .. n |-> P[k]]
        BY <1>9, <2>1, <2>2, Zenon DEF PayloadsOf
      <3> QED
        BY <3>1, <3>2, Zenon
    <2>5. read = IF r.kind = "rows" /\ (deprecate \/ r.columns = <<>>) THEN Lost ELSE r
      BY <1>1, <1>6, <2>3, <2>4, Zenon DEF ReadRight
    <2>6. read = IF Sendable(r) /\ ~(deprecate /\ r.kind = "rows") THEN r ELSE Lost
      BY <1>3, <1>10, <2>5, Zenon
    <2> QED
      BY <2>6 DEF read, s
  <1>11. CASE ~\A k \in 1 .. n : FitsOne(Size(P[k]))
    <2>1. PICK m \in 1 .. n : ~FitsOne(Size(P[m])) /\ \A j \in 1 .. m - 1 : FitsOne(Size(P[j]))
      <3> DEFINE bad == {k \in 1 .. n : ~FitsOne(Size(P[k]))}
                 m == Min(bad)
      <3>1. bad \in SUBSET (1 .. n) /\ bad # {} /\ n \in Nat
        BY <1>1, <1>11
      <3>2. m \in bad /\ \A j \in bad : m <= j
        <4> HIDE DEF bad
        <4> QED
          BY <3>1, FirstExists
      <3> HIDE DEF m
      <3>3. m \in 1 .. n /\ ~FitsOne(Size(P[m]))
        BY <3>2
      <3>4. \A j \in 1 .. m - 1 : j \in 1 .. n /\ ~(m <= j)
        BY <3>1, <3>3
      <3>5. \A j \in 1 .. m - 1 : FitsOne(Size(P[j]))
        BY <3>2, <3>4
      <3> QED
        BY <3>3, <3>5
    <2>2. CutAt(packets, m, P, qs)
      BY <1>8, <2>1
    <2>3. read = Lost
      <3>1. CASE PacketsLost(packets, first)
        BY <1>6, <3>1
      <3>2. CASE ~PacketsLost(packets, first)
        <4>1. \A k \in 1 .. Len(packets) : packets[k] # Lost
          BY <1>9, <3>2, Zenon DEF PacketsLost
        <4>2. Len(packets) >= m
          BY <2>2 DEF CutAt
        <4>3. m \in 1 .. Len(packets)
          BY <1>9, <4>2
        <4>4. /\ Len(packets) > m
              /\ \E k \in 0 .. Len(P[m]) - 1 :
                   packets[m] = [seq |-> qs[m], payload |-> SubSeq(P[m], 1, k)]
              /\ \A j \in 1 .. m - 1 : packets[j] = [seq |-> qs[j], payload |-> P[j]]
          BY <2>2, <4>1, <4>3, Zenon DEF CutAt
        <4> DEFINE R == PayloadsOf(packets)
        <4>5. DOMAIN R = 1 .. Len(packets) /\ \A k \in 1 .. Len(packets) : R[k] = packets[k].payload
          BY <1>9, Zenon DEF PayloadsOf
        <4>6. Len(R) = Len(packets)
          BY <1>9, <4>5
        <4> HIDE DEF R
        <4>7. \A j \in 1 .. m - 1 : R[j] = P[j]
          <5> TAKE j \in 1 .. m - 1
          <5>1. j \in 1 .. Len(packets)
            BY <1>9, <4>3
          <5>2. packets[j] = [seq |-> qs[j], payload |-> P[j]]
            BY <4>4, Zenon
          <5>3. packets[j].payload = P[j]
            BY <5>2
          <5> QED
            BY <4>5, <5>1, <5>3
        <4>8. \E k \in 0 .. Len(P[m]) - 1 : R[m] = SubSeq(P[m], 1, k)
          <5>1. PICK k \in 0 .. Len(P[m]) - 1 :
                       packets[m] = [seq |-> qs[m], payload |-> SubSeq(P[m], 1, k)]
            BY <4>4
          <5>2. packets[m].payload = SubSeq(P[m], 1, k)
            BY <5>1
          <5>3. R[m] = SubSeq(P[m], 1, k)
            BY <4>3, <4>5, <5>2
          <5> QED
            BY <5>3
        <4>9. CutIn(R, P, m)
          BY <1>9, <4>4, <4>6, <4>7, <4>8 DEF CutIn
        <4>10. m \in 1 .. Len(Payloads(r)) /\ ~FitsOne(Size(Payloads(r)[m])) /\ CutIn(R, Payloads(r), m)
          BY <2>1, <4>9 DEF P, n
        <4>11. ReadPayloads(R, deprecate) = Lost
          BY <4>10, PayloadsCut
        <4> QED
          BY <1>6, <3>2, <4>11 DEF R
      <3> QED
        BY <3>1, <3>2
    <2>4. read = IF Sendable(r) /\ ~(deprecate /\ r.kind = "rows") THEN r ELSE Lost
      BY <1>3, <1>11, <2>3, Zenon
    <2> QED
      BY <2>4 DEF read, s
  <1> QED
    BY <1>10, <1>11

-----------------------------------------------------------------------------
(* What the store holds and what a statement is told can be written          *)

Storable == {x \in Values : IsNull(x) \/ x.v \in DOMAIN Lengths}
ReplyColumns == {c \in ColumnsOf : c.name \in DOMAIN NameTexts /\ c.type \in Types}

StoredWell ==
  /\ IsFiniteSet(DOMAIN databases)
  /\ \A d \in DOMAIN databases :
       /\ IsFiniteSet(DOMAIN databases[d])
       /\ \A t \in DOMAIN databases[d] : databases[d][t].rows \in Seq(Seq(Storable))

ToldOk(r) ==
  /\ r.kind = "ok" /\ r.insertId \in 0 .. 1
  /\ IsFiniteSet(r.names) /\ r.names \subseteq DOMAIN NameTexts
ToldErr(r) == r.kind = "err" /\ r.code \in ErrorCodes
ToldRows(r) ==
  /\ r.kind = "rows"
  /\ r.from[1] \in DOMAIN NameTexts /\ r.from[2] \in DOMAIN NameTexts
  /\ r.columns \in Seq(ReplyColumns) /\ Len(r.columns) < 2 ^ 24
  /\ r.rows \in Seq(Seq(Storable))
  /\ \A i \in DOMAIN r.rows : Len(r.rows[i]) = Len(r.columns)
Told(r) == ToldOk(r) \/ ToldErr(r) \/ ToldRows(r)

\* The inductive invariant.
RInv == SInv /\ StoredWell /\ Told(reply)

LEMMA LastOf ==
  ASSUME NEW n \in Nat, NEW S \in SUBSET (1 .. n), S # {}
  PROVE  Max(S) \in S
  <1> DEFINE T == {i \in 1 .. n : n + 1 - i \in S}
  <1>1. T \in SUBSET (1 .. n) /\ T # {}
    <2>1. PICK i \in S : TRUE
      OBVIOUS
    <2>2. n + 1 - i \in 1 .. n /\ n + 1 - (n + 1 - i) = i
      OBVIOUS
    <2> QED
      BY <2>2
  <1> DEFINE m == Min(T)
  <1>2. m \in T /\ \A j \in T : m <= j
    <2> HIDE DEF T
    <2> QED
      BY <1>1, FirstExists
  <1> HIDE DEF m
  <1>3. n + 1 - m \in S /\ m \in 1 .. n
    BY <1>2
  <1>4. ASSUME NEW j \in S  PROVE j <= n + 1 - m
    <2>1. n + 1 - j \in 1 .. n /\ n + 1 - (n + 1 - j) = j
      OBVIOUS
    <2>2. n + 1 - j \in T
      BY <2>1
    <2>3. m <= n + 1 - j
      BY <1>2, <2>2
    <2> QED
      BY <1>3, <2>3
  <1>5. \E x \in S : \A y \in S : y <= x
    BY <1>3, <1>4
  <1> QED
    BY <1>5 DEF Max

LEMMA RowIsStorable ==
  ASSUME NEW q \in Inserts, NEW table \in TableRecords, CountsMatch(q, table), table.next < MaxNext
  PROVE  RowFor(q, table) \in Seq(Storable)
  <1> DEFINE columns == table.columns
             row == RowFor(q, table)
  <1>1. /\ columns \in Schemas /\ columns \in Seq(ColumnsOf)
        /\ Len(columns) \in Nat /\ DOMAIN columns = 1 .. Len(columns)
        /\ table.next \in Nat /\ MaxNext + Len(columns) <= IntMax
    BY ColumnsAreTyped DEF TableRecords
  <1>2. row \in Seq(Values) /\ Len(row) = Len(columns)
    BY RowIsTyped
  <1>3. ASSUME NEW i \in DOMAIN columns
        PROVE  IsNull(ValueFor(q, table, i)) \/ ValueFor(q, table, i).v \in DOMAIN Lengths
    <2>1. CASE \E k \in DOMAIN q.values :
                 ValueFor(q, table, i) = ExpressionToValue(q.values[k], columns[i].type)
      <3>1. PICK k \in DOMAIN q.values :
              ValueFor(q, table, i) = ExpressionToValue(q.values[k], columns[i].type)
        BY <2>1
      <3>0. q.values \in Seq(Operands)
        BY StatementAssumption
      <3>2. q.values[k] \in Operands
        BY <3>0, ElementOfSeq
      <3>4. q.values[k].kind # "column" => q.values[k].v \in DOMAIN Lengths
        BY ReplyAssumption
      <3>3. \A e \in Operands : \A type :
              \/ IsNull(ExpressionToValue(e, type))
              \/ e.kind # "column" /\ ExpressionToValue(e, type).v = e.v
        BY DEF Operands, ExpressionToValue, Null, Text, Int32, Int64, Float, Double, IsNull
      <3> QED
        BY <3>1, <3>2, <3>3, <3>4
    <2>2. CASE \E n \in 0 .. i - 1 : ValueFor(q, table, i) = Int32(table.next + n)
      <3>1. PICK n \in 0 .. i - 1 : ValueFor(q, table, i) = Int32(table.next + n)
        BY <2>2
      <3>2. table.next + n \in 0 .. IntMax
        BY <1>1, StorageAssumption
      <3>3. 0 .. IntMax \subseteq DOMAIN Lengths
        BY ReplyAssumption
      <3> QED
        BY <3>1, <3>2, <3>3 DEF Int32
    <2>3. CASE ValueFor(q, table, i) = columns[i].default
      BY <1>1, <2>3, ReplyAssumption, ZenonT(40)
    <2> QED
      BY <2>1, <2>2, <2>3, ValueComesFrom
  <1>4. DOMAIN row = DOMAIN columns /\ \A i \in DOMAIN columns : row[i] = ValueFor(q, table, i)
    BY DEF RowFor
  <1> HIDE DEF row, columns
  <1>5. \A i \in 1 .. Len(row) : row[i] \in Storable
    BY <1>1, <1>2, <1>3, <1>4 DEF Storable
  <1> QED
    BY <1>2, <1>5 DEF row

MatchingOf(f, q, table) ==
  f = [i \in 0 .. Len(table.rows) |->
         IF i = 0 THEN <<>>
         ELSE IF Evaluate(q.where, table.rows[i], table.columns) = Bool(TRUE)
         THEN Append(f[i - 1], table.rows[i]) ELSE f[i - 1]]

LEMMA MatchingRows ==
  ASSUME NEW q, NEW R, NEW table, table.rows \in Seq(R)
  PROVE  Matching(q, table) \in Seq(R)
  <1> DEFINE n == Len(table.rows)
             holds(i) == Evaluate(q.where, table.rows[i], table.columns) = Bool(TRUE)
             step == [p \in (1 .. n) \X Seq(R) |->
                        IF holds(p[1]) THEN Append(p[2], table.rows[p[1]]) ELSE p[2]]
  <1>1. n \in Nat /\ <<>> \in Seq(R) /\ \A i \in 1 .. n : table.rows[i] \in R
    OBVIOUS
  <1>2. ASSUME NEW i \in 1 .. n, NEW x \in Seq(R)
        PROVE  /\ step[<<i, x>>] = IF holds(i) THEN Append(x, table.rows[i]) ELSE x
               /\ step[<<i, x>>] \in Seq(R)
    <2>1. <<i, x>> \in (1 .. n) \X Seq(R)
      OBVIOUS
    <2>2. Append(x, table.rows[i]) \in Seq(R)
      BY <1>1
    <2> HIDE DEF holds
    <2> QED
      BY <2>1, <2>2
  <1>3. PICK f \in [0 .. n -> Seq(R)] : Steps(f, n, <<>>, step)
    <2> HIDE DEF step, n
    <2> QED
      BY <1>1, <1>2, StepsExist
  <1>4. MatchingOf(f, q, table)
    <2> HIDE DEF step
    <2>1. ASSUME NEW i \in 0 .. n
          PROVE  f[i] = IF i = 0 THEN <<>>
                        ELSE IF holds(i) THEN Append(f[i - 1], table.rows[i]) ELSE f[i - 1]
      <3>1. CASE i = 0
        BY <1>3, <3>1 DEF Steps
      <3>2. CASE i # 0
        <4>1. i \in 1 .. n /\ i - 1 \in 0 .. n
          BY <1>1, <3>2
        <4>2. f[i - 1] \in Seq(R) /\ f[i] = step[<<i, f[i - 1]>>]
          BY <1>3, <4>1 DEF Steps
        <4> HIDE DEF holds
        <4> QED
          BY <1>2, <3>2, <4>1, <4>2
      <3> QED
        BY <3>1, <3>2
    <2> QED
      BY <2>1 DEF MatchingOf
  <1>5. PICK g : MatchingOf(g, q, table) /\ Matching(q, table) = g[n]
    <2>1. \E g : MatchingOf(g, q, table)
      BY <1>4
    <2> QED
      BY <2>1 DEF MatchingOf, Matching
  <1>6. g[0] \in Seq(R) /\ \A i \in 1 .. n : g[i - 1] \in Seq(R) => g[i] \in Seq(R)
    <2>1. g[0] = <<>>
      BY <1>1, <1>5 DEF MatchingOf
    <2>2. ASSUME NEW i \in 1 .. n, g[i - 1] \in Seq(R)  PROVE g[i] \in Seq(R)
      <3>0. i \in 0 .. n /\ i # 0
        BY <1>1
      <3>1. g[i] = IF holds(i) THEN Append(g[i - 1], table.rows[i]) ELSE g[i - 1]
        BY <1>5, <3>0 DEF MatchingOf
      <3>2. Append(g[i - 1], table.rows[i]) \in Seq(R)
        BY <1>1, <2>2
      <3> HIDE DEF holds
      <3> QED
        BY <2>2, <3>1, <3>2
    <2> QED
      BY <1>1, <2>1, <2>2
  <1>7. \A i \in 0 .. n : g[i] \in Seq(R)
    <2> HIDE DEF n, holds
    <2> QED
      BY <1>1, <1>6, StepsStay
  <1> QED
    BY <1>1, <1>5, <1>7

\* The columns of a SELECT, or their values of a row.
LEMMA ColumnFound ==
  ASSUME NEW table \in TableRecords, NEW name, Named(table.columns, name) # {}
  PROVE  ColumnIndex(table.columns, name) \in 1 .. Len(table.columns)
  <1>1. Len(table.columns) \in Nat /\ DOMAIN table.columns = 1 .. Len(table.columns)
    BY ColumnsAreTyped
  <1>2. Named(table.columns, name) \in SUBSET (1 .. Len(table.columns))
    BY <1>1 DEF Named
  <1> QED
    BY <1>1, <1>2, LastOf DEF ColumnIndex

Selected(q, table) == IF SelectsAll(q) THEN Len(table.columns) ELSE Len(q.columns)

LEMMA ProjectIs ==
  ASSUME NEW q \in Selects, NEW table \in TableRecords, BadColumns(q, table) = {},
         NEW R, NEW row \in Seq(R), Len(row) = Len(table.columns)
  PROVE  Project(q, table, row) \in Seq(R) /\ Len(Project(q, table, row)) = Selected(q, table)
  <1>1. CASE SelectsAll(q)
    BY <1>1 DEF Project, Selected
  <1>2. CASE ~SelectsAll(q)
    <2> DEFINE index == [i \in DOMAIN q.columns |-> ColumnIndex(table.columns, q.columns[i])]
    <2>1. q.columns \in Seq(STRING) /\ Len(q.columns) \in Nat /\ DOMAIN q.columns = 1 .. Len(q.columns)
      <3>1. q.columns \in Seq(STRING)
        BY ReplyAssumption
      <3> QED
        BY <3>1
    <2>2. \A i \in DOMAIN q.columns : index[i] \in 1 .. Len(row)
      BY <1>2, ColumnFound DEF BadColumns
    <2>3. \A i \in DOMAIN q.columns : row[index[i]] \in R
      BY <2>2, ElementOfSeq
    <2>4. Project(q, table, row) = [i \in 1 .. Len(q.columns) |-> row[index[i]]]
      BY <1>2, <2>1 DEF Project
    <2> HIDE DEF index
    <2>5. Project(q, table, row) \in [1 .. Len(q.columns) -> R]
      BY <2>1, <2>3, <2>4
    <2> QED
      BY <1>2, <2>1, <2>5 DEF Selected
  <1> QED
    BY <1>1, <1>2

LEMMA ResultIs ==
  ASSUME NEW q \in Selects, NEW table \in TableRecords, BadColumns(q, table) = {},
         Fits(table), table.rows \in Seq(Seq(Storable))
  PROVE  /\ ResultRows(q, table) \in Seq(Seq(Storable))
         /\ \A i \in DOMAIN ResultRows(q, table) :
              Len(ResultRows(q, table)[i]) = Selected(q, table)
  <1> DEFINE R == {row \in Seq(Storable) : Len(row) = Len(table.columns)}
             matching == Matching(q, table)
             n == IF q.limit >= 0 /\ q.limit < Len(matching) THEN q.limit ELSE Len(matching)
             result == ResultRows(q, table)
  <1>1. table.rows \in Seq(R)
    <2>1. \A i \in 1 .. Len(table.rows) : table.rows[i] \in R
      BY ElementOfSeq DEF Fits
    <2> HIDE DEF R
    <2> QED
      BY <2>1
  <1>2. matching \in Seq(R)
    <2> HIDE DEF R
    <2> QED
      BY <1>1, MatchingRows
  <1>3. n \in 0 .. Len(matching)
    <2>1. q.limit \in Int
      BY ReplyAssumption
    <2>2. Len(matching) \in Nat
      <3> HIDE DEF matching, R
      <3> QED
        BY <1>2
    <2> HIDE DEF matching
    <2> QED
      BY <2>1, <2>2
  <1>4. result = [i \in 1 .. n |-> Project(q, table, matching[i])]
    BY DEF ResultRows
  <1> HIDE DEF n, matching, result
  <1>5. ASSUME NEW i \in 1 .. n
        PROVE  result[i] \in Seq(Storable) /\ Len(result[i]) = Selected(q, table)
    <2>1. i \in 1 .. Len(matching)
      BY <1>2, <1>3
    <2>2. matching[i] \in R
      <3> HIDE DEF R
      <3> QED
        BY <1>2, <2>1, ElementOfSeq
    <2>3. matching[i] \in Seq(Storable) /\ Len(matching[i]) = Len(table.columns)
      BY <2>2
    <2>4. result[i] = Project(q, table, matching[i])
      BY <1>4
    <2> QED
      BY <2>3, <2>4, ProjectIs
  <1>6. result \in [1 .. n -> Seq(Storable)] /\ n \in Nat
    BY <1>3, <1>4, <1>5
  <1> QED
    BY <1>4, <1>5, <1>6 DEF result

LEMMA NoColumnIsBad ==
  ASSUME NEW q, NEW table, SelectError(q, table) = 0
  PROVE  BadColumns(q, table) = {}
  BY DEF SelectError, ColumnError

\* What a SELECT is told.
LEMMA SelectIsTold ==
  ASSUME RInv, NEW s \in Session, NEW q \in Selects, Select(s, q)
  PROVE  Told(reply')
  <1> DEFINE table == TableOf(s, q.table)
             columns == Project(q, table, table.columns)
  <1>1. HasTable(s, q.table) /\ BadColumns(q, table) = {}
    BY TableErrors, CodesAre, NoColumnIsBad DEF Select
  <1>2. current[s] \in DOMAIN databases /\ q.table \in DOMAIN databases[current[s]]
    BY <1>1 DEF HasTable, TablesOf
  <1>3. /\ table \in TableRecords /\ Fits(table) /\ table.rows \in Seq(Seq(Storable))
        /\ current[s] \in Names \cup Predefined /\ q.table \in Tables
    BY <1>2 DEF TableOf, RInv, SInv, Shape, AllFit, StoredWell
  <1>4. reply' = ResultSet(<<current[s], q.table>>, columns, ResultRows(q, table))
    BY DEF Select
  <1> HIDE DEF table
  <1>5. current[s] \in DOMAIN NameTexts /\ q.table \in DOMAIN NameTexts
    BY <1>3, ReplyAssumption
  <1>6. table.columns \in Seq(ReplyColumns) /\ Len(table.columns) < 2 ^ 24
    <2>1. table.columns \in Schemas /\ table.columns \in Seq(ColumnsOf)
      BY <1>3, ColumnsAreTyped DEF TableRecords
    <2>2. /\ Len(table.columns) < 2 ^ 24
          /\ \A i \in DOMAIN table.columns :
               table.columns[i].name \in DOMAIN NameTexts /\ table.columns[i].type \in Types
      BY <2>1, ReplyAssumption
    <2>3. \A i \in 1 .. Len(table.columns) : table.columns[i] \in ReplyColumns
      BY <2>1, <2>2, ElementOfSeq DEF ReplyColumns
    <2> QED
      BY <2>1, <2>2, <2>3
  <1>7. columns \in Seq(ReplyColumns) /\ Len(columns) = Selected(q, table)
    BY <1>1, <1>3, <1>6, ProjectIs
  <1>8. Selected(q, table) < 2 ^ 24
    BY <1>6, ReplyAssumption DEF Selected
  <1>9. /\ ResultRows(q, table) \in Seq(Seq(Storable))
        /\ \A i \in DOMAIN ResultRows(q, table) : Len(ResultRows(q, table)[i]) = Len(columns)
    BY <1>1, <1>3, <1>7, ResultIs
  <1> HIDE DEF columns
  <1>10. /\ reply'.kind = "rows" /\ reply'.from = <<current[s], q.table>>
         /\ reply'.columns = columns /\ reply'.rows = ResultRows(q, table)
    BY <1>4 DEF ResultSet, Ok
  <1> QED
    BY <1>5, <1>7, <1>8, <1>9, <1>10 DEF Told, ToldRows

-----------------------------------------------------------------------------
(* Every statement keeps what is stored writable, and tells what can be      *)
(* written.                                                                  *)

LEMMA AnswersAreTold ==
  /\ \A n \in 0 .. 1 : \A names :
       (IsFiniteSet(names) /\ names \subseteq DOMAIN NameTexts) => Told(Ok(n, names))
  /\ \A n \in 0 .. 1 : Told(Ok(n, {}))
  /\ \A c \in ErrorCodes : Told(Err(c))
  <1>1. \A n \in 0 .. 1 : \A names :
          (IsFiniteSet(names) /\ names \subseteq DOMAIN NameTexts) => Told(Ok(n, names))
    BY DEF Told, ToldOk, Ok
  <1>2. IsFiniteSet({}) /\ {} \subseteq DOMAIN NameTexts
    BY FS_EmptySet
  <1>3. \A c \in ErrorCodes : Told(Err(c))
    BY DEF Told, ToldErr, Err, Ok
  <1> QED
    BY <1>1, <1>2, <1>3

LEMMA StoreKeepsWell ==
  ASSUME RInv, NEW s \in Session, NEW t, HasTable(s, t), NEW x, Store(s, t, x),
         x.rows \in Seq(Seq(Storable))
  PROVE  StoredWell'
  <1>1. /\ DOMAIN databases' = DOMAIN databases
        /\ \A d \in DOMAIN databases :
              /\ DOMAIN databases'[d] = DOMAIN databases[d]
              /\ \A u \in DOMAIN databases[d] :
                   databases'[d][u] = IF d = current[s] /\ u = t THEN x ELSE databases[d][u]
    <2>1. Shape
      BY DEF RInv, SInv
    <2>2. /\ current[s] \in DOMAIN databases /\ t \in DOMAIN databases[current[s]]
          /\ databases' = [d \in DOMAIN databases |-> databases'[d]]
          /\ DOMAIN databases' = DOMAIN databases
          /\ \A d \in DOMAIN databases :
               /\ DOMAIN databases'[d] = DOMAIN databases[d]
               /\ databases'[d] = [u \in DOMAIN databases[d] |-> databases'[d][u]]
               /\ \A u \in DOMAIN databases[d] :
                    databases'[d][u] = IF d = current[s] /\ u = t THEN x ELSE databases[d][u]
      BY <2>1, StoreKeeps
    <2> QED
      BY <2>2
  <1>2. \A d \in DOMAIN databases : \A u \in DOMAIN databases[d] :
          databases'[d][u].rows \in Seq(Seq(Storable))
    BY <1>1 DEF RInv, StoredWell
  <1> QED
    BY <1>1, <1>2 DEF RInv, StoredWell

LEMMA InsertKeepsWell ==
  ASSUME RInv, NEW s \in Session, NEW q \in Inserts, Insert(s, q) \/ InsertFails(s, q)
  PROVE  StoredWell' /\ Told(reply')
  <1> DEFINE table == TableOf(s, q.table)
             row == RowFor(q, table)
             longer == [Advanced(q, table) EXCEPT !.rows = Append(@, row)]
  <1>1. HasTable(s, q.table) /\ CountsMatch(q, table) /\ table.next < MaxNext
    BY TableErrors, CodesAre DEF Insert, InsertFails
  <1>2. table \in TableRecords /\ table.rows \in Seq(Seq(Storable))
    BY <1>1 DEF HasTable, TablesOf, TableOf, RInv, SInv, Shape, StoredWell
  <1>3. row \in Seq(Storable) /\ Advanced(q, table) \in TableRecords
    BY <1>1, <1>2, RowIsStorable, RowIsTyped
  <1>4. Advanced(q, table).rows = table.rows
    BY <1>2 DEF Advanced, TableRecords
  <1>5. CASE Insert(s, q)
    <2>1. Store(s, q.table, longer) /\ reply' = Ok(1, {})
      BY <1>5 DEF Insert
    <2>2. longer.rows = Append(table.rows, row)
      BY <1>3, <1>4 DEF TableRecords
    <2> HIDE DEF longer, row, table
    <2>3. longer.rows \in Seq(Seq(Storable))
      BY <1>2, <1>3, <2>2
    <2>4. StoredWell'
      BY <1>1, <2>1, <2>3, StoreKeepsWell
    <2>5. 1 \in 0 .. 1
      OBVIOUS
    <2> QED
      BY <2>1, <2>4, <2>5, AnswersAreTold
  <1>6. CASE InsertFails(s, q)
    <2>1. Store(s, q.table, Advanced(q, table)) /\ reply' = Err(1062)
      BY <1>6 DEF InsertFails
    <2>2. Advanced(q, table).rows \in Seq(Seq(Storable))
      BY <1>2, <1>4
    <2> HIDE DEF table
    <2>3. StoredWell'
      BY <1>1, <2>1, <2>2, StoreKeepsWell
    <2> QED
      BY <2>1, <2>3, AnswersAreTold, CodesAre
  <1> QED
    BY <1>5, <1>6

LEMMA CreateKeepsWell ==
  ASSUME RInv, NEW s \in Session, NEW t \in Tables, NEW columns \in Schemas,
         CreateTable(s, t, columns)
  PROVE  StoredWell' /\ Told(reply')
  <1> DEFINE d == current[s]
  <1>1. /\ databases' = With(databases, d, With(TablesOf(d), t, NewTable(columns)))
        /\ reply' = Ok(0, {})
    BY DEF CreateTable, Done
  <1>2. /\ DOMAIN databases' = DOMAIN databases \cup {d}
        /\ \A e \in DOMAIN databases \ {d} : databases'[e] = databases[e]
        /\ databases'[d] = With(TablesOf(d), t, NewTable(columns))
    BY <1>1 DEF With
  <1>3. /\ DOMAIN databases'[d] = DOMAIN TablesOf(d) \cup {t}
        /\ \A u \in DOMAIN TablesOf(d) \ {t} : databases'[d][u] = databases[d][u]
        /\ databases'[d][t] = NewTable(columns)
    BY <1>2 DEF With, TablesOf
  <1>4. DOMAIN TablesOf(d) = IF d \in DOMAIN databases THEN DOMAIN databases[d] ELSE {}
    BY DEF TablesOf
  <1>5. NewTable(columns).rows \in Seq(Seq(Storable))
    BY DEF NewTable
  <1>6. IsFiniteSet(DOMAIN databases')
    BY <1>2, FS_AddElement DEF RInv, StoredWell
  <1>7. \A e \in DOMAIN databases' : IsFiniteSet(DOMAIN databases'[e])
    <2>1. IsFiniteSet(DOMAIN TablesOf(d))
      BY <1>4, FS_EmptySet DEF RInv, StoredWell
    <2>2. IsFiniteSet(DOMAIN databases'[d])
      BY <1>3, <2>1, FS_AddElement
    <2> QED
      BY <1>2, <2>2 DEF RInv, StoredWell
  <1>8. \A e \in DOMAIN databases' : \A u \in DOMAIN databases'[e] :
          databases'[e][u].rows \in Seq(Seq(Storable))
    <2> TAKE e \in DOMAIN databases'
    <2> TAKE u \in DOMAIN databases'[e]
    <2>1. CASE e # d
      BY <1>2, <2>1 DEF RInv, StoredWell
    <2>2. CASE e = d /\ u = t
      BY <1>3, <1>5, <2>2
    <2>3. CASE e = d /\ u # t
      <3>1. u \in DOMAIN TablesOf(d) \ {t}
        BY <1>3, <2>3
      <3>2. d \in DOMAIN databases /\ u \in DOMAIN databases[d]
        BY <1>4, <3>1
      <3> QED
        BY <1>3, <2>3, <3>1, <3>2 DEF RInv, StoredWell
    <2> QED
      BY <2>1, <2>2, <2>3
  <1>9. Told(reply')
    BY <1>1, AnswersAreTold
  <1> QED
    BY <1>6, <1>7, <1>8, <1>9 DEF StoredWell

LEMMA DropKeepsWell ==
  ASSUME RInv, NEW s \in Session, NEW t \in Tables, DropTable(s, t)
  PROVE  StoredWell' /\ Told(reply')
  <1> DEFINE d == current[s]
  <1>1. d \in DOMAIN databases
    BY TableErrors, CodesAre DEF DropTable, HasTable, TablesOf
  <1>2. /\ databases' = [databases EXCEPT ![d] = [u \in DOMAIN databases[d] \ {t} |-> databases[d][u]]]
        /\ reply' = Ok(0, {})
    BY DEF DropTable, Done
  <1>3. /\ DOMAIN databases' = DOMAIN databases
        /\ \A e \in DOMAIN databases :
             /\ DOMAIN databases'[e] \subseteq DOMAIN databases[e]
             /\ \A u \in DOMAIN databases'[e] : databases'[e][u] = databases[e][u]
    BY <1>1, <1>2
  <1>4. \A e \in DOMAIN databases : IsFiniteSet(DOMAIN databases'[e])
    BY <1>3, FS_Subset DEF RInv, StoredWell
  <1>5. Told(reply')
    BY <1>2, AnswersAreTold
  <1> QED
    BY <1>3, <1>4, <1>5 DEF RInv, StoredWell

LEMMA ShownAreTold ==
  ASSUME RInv, NEW s \in Session, ShowTables(s) \/ ShowDatabases
  PROVE  Told(reply')
  <1>1. /\ IsFiniteSet(DOMAIN databases) /\ DOMAIN databases \subseteq DOMAIN NameTexts
        /\ \A d \in DOMAIN databases :
             IsFiniteSet(DOMAIN databases[d]) /\ DOMAIN databases[d] \subseteq DOMAIN NameTexts
    BY ReplyAssumption DEF RInv, SInv, Shape, StoredWell
  <1>2. CASE ShowDatabases
    BY <1>1, <1>2, AnswersAreTold DEF ShowDatabases
  <1>3. CASE ShowTables(s) /\ current[s] \in DOMAIN databases
    <2> DEFINE names == {current[s]} \cup DOMAIN databases[current[s]]
    <2>1. names = DOMAIN databases[current[s]] \cup {current[s]}
      OBVIOUS
    <2>2. IsFiniteSet(names) /\ names \subseteq DOMAIN NameTexts
      BY <1>1, <1>3, <2>1, FS_AddElement
    <2>3. reply' = Ok(0, names)
      BY <1>3 DEF ShowTables, TablesOf
    <2> QED
      BY <2>2, <2>3, AnswersAreTold
  <1>4. CASE ShowTables(s) /\ current[s] \notin DOMAIN databases
    BY <1>4, AnswersAreTold DEF ShowTables
  <1> QED
    BY <1>2, <1>3, <1>4

LEMMA UseIsTold ==
  ASSUME NEW s, NEW d \in Names, UseDatabase(s, d)
  PROVE  Told(reply')
  <1>1. d \in DOMAIN NameTexts
    BY ReplyAssumption
  <1>2. IsFiniteSet({d})
    BY FS_Singleton
  <1>3. 0 \in 0 .. 1 /\ {d} \subseteq DOMAIN NameTexts
    BY <1>1
  <1>4. Told(Ok(0, {d})) /\ Told(Ok(0, {}))
    BY <1>2, <1>3, AnswersAreTold
  <1>5. reply' = Ok(0, {d}) \/ reply' = Ok(0, {})
    BY DEF UseDatabase
  <1> QED
    BY <1>4, <1>5

LEMMA RepliesKept == RInv /\ [Next]_vars => RInv'
  <1> SUFFICES ASSUME RInv, [Next]_vars  PROVE RInv'
    OBVIOUS
  <1>0. SInv'
    BY NextKeeps DEF RInv
  <1>1. databases' = databases => StoredWell'
    BY DEF RInv, StoredWell
  <1>2. ASSUME NEW c \in ErrorCodes, Refuse(c)  PROVE StoredWell' /\ Told(reply')
    BY <1>1, <1>2, AnswersAreTold DEF Refuse
  <1>3. ASSUME NEW s \in Session, NEW q \in Selects, Select(s, q)  PROVE StoredWell' /\ Told(reply')
    BY <1>1, <1>3, SelectIsTold DEF Select
  <1>4. ASSUME NEW s \in Session, ShowTables(s) \/ ShowDatabases  PROVE StoredWell' /\ Told(reply')
    BY <1>1, <1>4, ShownAreTold DEF ShowTables, ShowDatabases
  <1>5. ASSUME NEW s \in Session, NEW d \in Names, UseDatabase(s, d)  PROVE StoredWell' /\ Told(reply')
    BY <1>1, <1>5, UseIsTold DEF UseDatabase
  <1>6. ASSUME NEW s \in Session, NewSession(s)  PROVE StoredWell' /\ Told(reply')
    BY <1>1, <1>6, AnswersAreTold DEF NewSession, Done
  <1>7. ASSUME NEW s \in Session,
               \/ \E q \in Selects : SelectRefused(s, q)
               \/ \E q \in Inserts : InsertRefused(s, q)
               \/ \E t \in Tables : CreateRefused(s, t) \/ DropRefused(s, t)
               \/ ShowTablesRefused(s)
        PROVE  StoredWell' /\ Told(reply')
    BY <1>2, <1>7, RefusedNumbers
  <1>8. ASSUME UNCHANGED vars  PROVE StoredWell' /\ Told(reply')
    BY <1>1, <1>8 DEF vars, RInv
  <1>9. StoredWell' /\ Told(reply')
    BY <1>3, <1>4, <1>5, <1>6, <1>7, <1>8, InsertKeepsWell, CreateKeepsWell, DropKeepsWell DEF Next
  <1> QED
    BY <1>0, <1>9 DEF RInv

LEMMA RepliesTold == Spec => []RInv
  <1>1. Init => RInv
    <2> SUFFICES ASSUME Init  PROVE RInv
      OBVIOUS
    <2>1. SInv
      BY InitShape DEF Init, SInv, AllFit
    <2>2. IsFiniteSet({}) /\ IsFiniteSet(Predefined)
      <3>1. IsFiniteSet({"mysql"})
        BY FS_Singleton
      <3>2. Predefined = {"mysql"} \cup {"test"}
        BY DEF Predefined
      <3> QED
        BY <3>1, <3>2, FS_EmptySet, FS_AddElement
    <2>3. StoredWell
      BY <2>2 DEF Init, StoredWell
    <2> QED
      BY <2>1, <2>3, AnswersAreTold DEF Init, RInv
  <1> QED
    BY <1>1, RepliesKept, PTL DEF Spec

-----------------------------------------------------------------------------
(* What a statement is told has packets                                      *)

LEMMA NamesAreListed ==
  ASSUME NEW S, IsFiniteSet(S)
  PROVE  SetToSeq(S) \in Seq(S)
  <1>1. Cardinality(S) \in Nat /\ ExistsBijection(1 .. Cardinality(S), S)
    BY FS_CardinalityType
  <1>2. \E f \in [1 .. Cardinality(S) -> S] : IsInjective(f)
    BY <1>1 DEF ExistsBijection, Bijection, Injection
  <1>3. SetToSeq(S) \in [1 .. Cardinality(S) -> S]
    BY <1>2 DEF SetToSeq
  <1> QED
    BY <1>1, <1>3

LEMMA NameTextsAre ==
  ASSUME NEW x \in DOMAIN NameTexts
  PROVE  NameTexts[x] \in ShortTexts
  <1>1. NameTexts[x] \in [id : Nat \ 0 .. 255, len : 1 .. 2 ^ 24 - 1]
    BY ReplyAssumption
  <1>2. 2 ^ 24 \in Nat
    BY SMT
  <1>3. NameTexts[x].id \in Nat \ 0 .. 255 /\ NameTexts[x].len \in 1 .. 2 ^ 24 - 1
    BY <1>1
  <1>4. /\ NameTexts[x].len \in Nat \ {0} /\ NameTexts[x].len < 2 ^ 24
        /\ NameTexts[x].id \in Nat /\ ~(NameTexts[x].id < 256)
    BY <1>2, <1>3
  <1> QED
    BY <1>1, <1>4 DEF ShortTexts, Pieces, IsByte

LEMMA ShortIsWide == ASSUME NEW n \in Nat, n < 2 ^ 24 + 5  PROVE HasWidth(n, 4)
  BY SMT DEF HasWidth

LEMMA TextIsReadable ==
  ASSUME NEW n \in Nat, NEW len \in Nat, len < 2 ^ 24 + 5
  PROVE  TextOf(n, len) \in Readable
  BY TextsAre, ShortIsWide DEF Readable

LEMMA ValuesAreReadable ==
  ASSUME NEW x \in Storable
  PROVE  ToText(x) \in Readable
  <1>1. CASE x.index = 0
    BY <1>1 DEF ToText, Readable
  <1>2. CASE x.index # 0
    <2>1. x.v \in DOMAIN Lengths
      BY <1>2 DEF Storable, IsNull
    <2>2. x.v \in Nat \cup {EmptyString}
      BY <2>1, ReplyAssumption
    <2>3. Lengths[x.v] \in 0 .. 2 ^ 24 - 1 /\ (x.v = EmptyString => Lengths[x.v] = 0)
      BY <2>1, ReplyAssumption
    <2> DEFINE n == Lengths[x.v]
    <2>4. n \in Nat /\ n < 2 ^ 24 + 5 /\ n + 3 < 2 ^ 24 + 5 /\ n + 5 < 2 ^ 24 + 5
      <3>1. 2 ^ 24 \in Nat
        BY SMT
      <3>2. n \in 0 .. 2 ^ 24 - 1
        BY <2>3
      <3> HIDE DEF n
      <3> QED
        BY <3>1, <3>2
    <2>5. TextOf(20000 + x.v, n + 3) \in Readable /\ TextOf(30000 + x.v, n + 5) \in Readable
      <3>1. 20000 + x.v \in Nat /\ 30000 + x.v \in Nat /\ n + 3 \in Nat /\ n + 5 \in Nat
        BY <2>2, <2>4 DEF EmptyString
      <3> HIDE DEF n
      <3> QED
        BY <2>4, <3>1, TextIsReadable
    <2>6. TextOf(x.v, n) \in Readable
      <3>1. CASE x.v \in Nat
        <4> HIDE DEF n
        <4> QED
          BY <2>4, <3>1, TextIsReadable
      <3>2. CASE x.v = EmptyString
        <4>1. TextOf(x.v, n) = TextOf(0, n)
          BY <2>3, <3>2 DEF TextOf
        <4>2. 0 \in Nat
          OBVIOUS
        <4>3. TextOf(0, n) \in Readable
          <5> HIDE DEF n
          <5> QED
            BY <2>4, <4>2, TextIsReadable
        <4> QED
          BY <4>1, <4>3
      <3> QED
        BY <2>2, <3>1, <3>2
    <2> QED
      BY <1>2, <2>5, <2>6 DEF ToText
  <1> QED
    BY <1>1, <1>2

LEMMA SentIsAReply ==
  ASSUME Told(reply)
  PROVE  Sent \in Replies
  <1>1. CASE ToldOk(reply)
    <2> DEFINE names == SetToSeq(reply.names)
               info == Texts(reply.names)
    <2>1. names \in Seq(reply.names)
      BY <1>1, NamesAreListed DEF ToldOk
    <2>2. info = [k \in DOMAIN names |-> NameTexts[names[k]]]
      BY DEF Texts
    <2> HIDE DEF names
    <2>3. Len(names) \in Nat /\ DOMAIN names = 1 .. Len(names)
      BY <2>1
    <2>4. \A k \in DOMAIN names : NameTexts[names[k]] \in Pieces
      BY <1>1, <2>1, ElementOfSeq, NameTextsAre DEF ToldOk, ShortTexts
    <2> HIDE DEF info
    <2>5. info \in [1 .. Len(names) -> Pieces]
      BY <2>2, <2>3, <2>4
    <2>6. info \in Seq(Pieces)
      BY <2>3, <2>5
    <2>7. Sent = [kind |-> "ok", insertId |-> reply.insertId, info |-> info]
      BY <1>1 DEF Sent, ToldOk, info
    <2> QED
      BY <1>1, <2>6, <2>7 DEF ToldOk, Replies, OkReplies
  <1>2. CASE ToldErr(reply)
    <2> DEFINE message == MessageOf(reply.code)
    <2>0. reply.code \in ErrorCodes /\ ErrorCodes \subseteq Nat
      BY <1>2, CodesAre DEF ToldErr
    <2>1. reply.code \in Nat
      BY <2>0
    <2>2. ErrorTexts[reply.code] \in Pieces
      <3>1. ErrorTexts[reply.code] \in [id : Nat \ 0 .. 255, len : Nat \ {0}]
        BY <2>0, ReplyAssumption
      <3> QED
        BY <3>1 DEF Pieces
    <2>3. message \in Seq(Pieces)
      BY <2>2 DEF MessageOf
    <2>4. Sent = [kind |-> "err", code |-> reply.code, message |-> message]
      BY <1>2 DEF Sent, ToldErr
    <2> HIDE DEF message
    <2> QED
      BY <2>1, <2>3, <2>4 DEF Replies, ErrReplies
  <1>3. CASE ToldRows(reply)
    <2> DEFINE columns == [i \in DOMAIN reply.columns |-> ColumnOf(reply.columns[i], reply.from)]
               texts(row) == [j \in DOMAIN row |-> ToText(row[j])]
               rows == [i \in DOMAIN reply.rows |-> texts(reply.rows[i])]
    <2>1. \A c \in ReplyColumns : ColumnOf(c, reply.from) \in ColumnRecords
      <3> SUFFICES ASSUME NEW c \in ReplyColumns  PROVE ColumnOf(c, reply.from) \in ColumnRecords
        OBVIOUS
      <3>1. /\ c.type \in Types /\ c.not_null \in BOOLEAN /\ c.primary_key \in BOOLEAN
            /\ c.auto_increment \in BOOLEAN /\ c.name \in DOMAIN NameTexts
        BY DEF ReplyColumns, ColumnsOf
      <3>2. /\ NameTexts[reply.from[1]] \in ShortTexts /\ NameTexts[reply.from[2]] \in ShortTexts
            /\ NameTexts[c.name] \in ShortTexts
        BY <1>3, <3>1, NameTextsAre DEF ToldRows
      <3> QED
        BY <3>1, <3>2 DEF ColumnOf, ColumnRecords
    <2>2. columns \in Seq(ColumnRecords)
      <3>1. reply.columns \in Seq(ReplyColumns)
        BY <1>3 DEF ToldRows
      <3>2. Len(reply.columns) \in Nat /\ DOMAIN reply.columns = 1 .. Len(reply.columns)
        BY <3>1
      <3>3. \A i \in DOMAIN reply.columns : ColumnOf(reply.columns[i], reply.from) \in ColumnRecords
        BY <2>1, <3>1, <3>2, ElementOfSeq
      <3>4. columns \in [1 .. Len(reply.columns) -> ColumnRecords]
        BY <3>2, <3>3
      <3> HIDE DEF columns
      <3> QED
        BY <3>2, <3>4
    <2>3. \A row \in Seq(Storable) : texts(row) \in Seq(Strings \cup {NullValue})
      <3> SUFFICES ASSUME NEW row \in Seq(Storable)
                   PROVE  texts(row) \in Seq(Strings \cup {NullValue})
        OBVIOUS
      <3>1. Len(row) \in Nat /\ DOMAIN row = 1 .. Len(row)
        OBVIOUS
      <3>2. \A j \in DOMAIN row : ToText(row[j]) \in Strings \cup {NullValue}
        BY <3>1, ElementOfSeq, ValuesAreReadable DEF Readable
      <3>3. texts(row) \in [1 .. Len(row) -> Strings \cup {NullValue}]
        BY <3>1, <3>2
      <3> HIDE DEF texts
      <3> QED
        BY <3>1, <3>3
    <2>4. rows \in Seq(Seq(Strings \cup {NullValue}))
      <3> HIDE DEF texts
      <3>1. reply.rows \in Seq(Seq(Storable))
        BY <1>3 DEF ToldRows
      <3>2. Len(reply.rows) \in Nat /\ DOMAIN reply.rows = 1 .. Len(reply.rows)
        BY <3>1
      <3>3. \A i \in DOMAIN reply.rows : texts(reply.rows[i]) \in Seq(Strings \cup {NullValue})
        BY <2>3, <3>1, <3>2, ElementOfSeq
      <3>4. rows \in [1 .. Len(reply.rows) -> Seq(Strings \cup {NullValue})]
        BY <3>2, <3>3
      <3> HIDE DEF rows
      <3> QED
        BY <3>2, <3>4
    <2>5. Sent = [kind |-> "rows", columns |-> columns, rows |-> rows]
      BY <1>3 DEF Sent, ToldRows
    <2> HIDE DEF columns, rows
    <2> QED
      BY <2>2, <2>4, <2>5 DEF Replies, RowReplies
  <1> QED
    BY <1>1, <1>2, <1>3 DEF Told

\* The length that each packet of a reply declares is the number of bytes encode() writes,
\* unless one of a column's names takes more than one byte of length.
THEOREM LengthsSafe == Spec => []DeclaredLengths
  <1>1. RInv => DeclaredLengths
    <2> SUFFICES ASSUME RInv  PROVE DeclaredLengths
      OBVIOUS
    <2>1. Sent \in Replies
      BY SentIsAReply DEF RInv
    <2> QED
      BY <2>1, LengthsDeclared DEF DeclaredLengths
  <1> QED
    BY <1>1, RepliesTold, PTL

LEMMA SentIsReadable ==
  ASSUME Told(reply)
  PROVE  Sent \in ReadableReplies
  <1>0. Sent \in Replies
    BY SentIsAReply
  <1>1. CASE ToldOk(reply)
    <2>1. Sent.kind = "ok" /\ Sent.insertId = reply.insertId
      BY <1>1 DEF Sent, ToldOk
    <2>2. HasWidth(Sent.insertId, 4)
      BY <1>1, <2>1, SMT DEF ToldOk, HasWidth
    <2>3. Sent \in OkReplies
      BY <1>0, <2>1 DEF Replies, ErrReplies, RowReplies
    <2> QED
      BY <2>2, <2>3 DEF ReadableReplies
  <1>2. CASE ToldErr(reply)
    <2>1. Sent.kind = "err" /\ Sent.code = reply.code
      BY <1>2 DEF Sent, ToldErr
    <2>2. HasWidth(Sent.code, 2)
      BY <1>2, <2>1, SMT DEF ToldErr, ErrorCodes, HasWidth
    <2>3. Sent \in ErrReplies
      BY <1>0, <2>1 DEF Replies, OkReplies, RowReplies
    <2> QED
      BY <2>2, <2>3 DEF ReadableReplies
  <1>3. CASE ToldRows(reply)
    <2> DEFINE columns == Sent.columns
               rows == Sent.rows
               texts(row) == [j \in DOMAIN row |-> ToText(row[j])]
    <2>1. /\ Sent.kind = "rows"
          /\ columns = [i \in DOMAIN reply.columns |-> ColumnOf(reply.columns[i], reply.from)]
          /\ rows = [i \in DOMAIN reply.rows |-> texts(reply.rows[i])]
      BY <1>3 DEF Sent, ToldRows
    <2>2. Sent \in RowReplies
      BY <1>0, <2>1 DEF Replies, OkReplies, ErrReplies
    <2>3. /\ reply.columns \in Seq(ReplyColumns) /\ Len(reply.columns) < 2 ^ 24
          /\ reply.rows \in Seq(Seq(Storable))
          /\ \A i \in DOMAIN reply.rows : Len(reply.rows[i]) = Len(reply.columns)
      BY <1>3 DEF ToldRows
    <2>4. Len(columns) = Len(reply.columns) /\ Len(reply.columns) \in Nat
      <3>1. Len(reply.columns) \in Nat /\ DOMAIN reply.columns = 1 .. Len(reply.columns)
        BY <2>3
      <3>2. DOMAIN columns = 1 .. Len(reply.columns)
        BY <2>1, <3>1
      <3>3. columns \in Seq(ColumnRecords)
        BY <2>2 DEF RowReplies
      <3> HIDE DEF columns
      <3> QED
        BY <3>1, <3>2, <3>3
    <2>5. HasWidth(Len(columns), 4)
      <3> HIDE DEF columns
      <3>1. Len(columns) \in Nat /\ Len(columns) < 2 ^ 24 + 5
        <4>1. \A n \in Nat : n < 2 ^ 24 => n < 2 ^ 24 + 5
          BY SMT
        <4> QED
          BY <2>3, <2>4, <4>1, Zenon
      <3> QED
        BY <3>1, ShortIsWide
    <2>6. ASSUME NEW row \in Seq(Storable)
          PROVE  texts(row) \in Seq(Readable) /\ Len(texts(row)) = Len(row)
      <3>1. Len(row) \in Nat /\ DOMAIN row = 1 .. Len(row)
        OBVIOUS
      <3>2. \A j \in DOMAIN row : ToText(row[j]) \in Readable
        BY <3>1, ElementOfSeq, ValuesAreReadable
      <3>3. texts(row) \in [1 .. Len(row) -> Readable]
        BY <3>1, <3>2
      <3> HIDE DEF texts
      <3> QED
        BY <3>1, <3>3, IsASeq
    <2> HIDE DEF texts, columns, rows
    <2>7. Len(reply.rows) \in Nat /\ DOMAIN reply.rows = 1 .. Len(reply.rows)
      BY <2>3
    <2>8. \A i \in 1 .. Len(reply.rows) :
            rows[i] \in Seq(Readable) /\ Len(rows[i]) = Len(columns)
      <3> TAKE i \in 1 .. Len(reply.rows)
      <3>1. reply.rows[i] \in Seq(Storable)
        BY <2>3, ElementOfSeq
      <3>2. rows[i] = texts(reply.rows[i])
        BY <2>1, <2>7
      <3>3. Len(reply.rows[i]) = Len(columns)
        BY <2>3, <2>4, <2>7
      <3> QED
        BY <2>6, <3>1, <3>2, <3>3
    <2>9. DOMAIN rows = 1 .. Len(reply.rows)
      BY <2>1, <2>7
    <2>10. rows \in Seq(Seq(Readable))
      <3>1. rows = [i \in 1 .. Len(reply.rows) |-> texts(reply.rows[i])]
        BY <2>1, <2>7
      <3>2. rows \in [1 .. Len(reply.rows) -> Seq(Readable)]
        BY <2>8, <2>9, <3>1
      <3> QED
        BY <2>7, <3>2, IsASeq
    <2>11. Sent \in ReadableRows
      BY <2>2, <2>5, <2>8, <2>9, <2>10 DEF ReadableRows, columns, rows
    <2> QED
      BY <2>11 DEF ReadableReplies
  <1> QED
    BY <1>1, <1>2, <1>3 DEF Told

\* From the bytes of a reply a client reads the reply that was made, unless a payload of it
\* does not fit a packet, it has no column, or the client waits for no EOF behind the columns;
\* then it reads no reply.
THEOREM ReadBackSafe == Spec => []ReplyReadBack
  <1>1. RInv => ReplyReadBack
    <2> SUFFICES ASSUME RInv  PROVE ReplyReadBack
      OBVIOUS
    <2>1. Sent \in ReadableReplies
      BY SentIsReadable DEF RInv
    <2>2. FirstId \in 0 .. 255
      BY ReplyAssumption
    <2>3. \A deprecate \in BOOLEAN :
            ReadReply(Stream(Sent, FirstId), FirstId, deprecate) =
              IF Sendable(Sent) /\ ~(deprecate /\ Sent.kind = "rows") THEN Sent ELSE Lost
      BY <2>1, <2>2, ReplyIsRead
    <2> QED
      BY <2>3, Zenon DEF ReplyReadBack
  <1> QED
    BY <1>1, RepliesTold, PTL

=============================================================================
