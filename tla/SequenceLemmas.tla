--------------------------- MODULE SequenceLemmas ---------------------------
(* Induction over the numbers without an operator parameter, and what it     *)
(* shows of FlattenSeq, which distributes over concatenation, and of         *)
(* FoldLeft, which stays where each of its steps stays.                      *)
EXTENDS SequencesExt, FiniteSetsExt, SequenceTheorems, WellFoundedInduction, TLAPS

Less == {ss \in Nat \X Nat : ss[1] < ss[2]}

\* A set of numbers that has 0, and n + 1 whenever it has n, has them all.
LEMMA SetInduction ==
  ASSUME NEW S, 0 \in S, \A n \in Nat : n \in S => n + 1 \in S
  PROVE  Nat \subseteq S
<1> SUFFICES ASSUME Nat \ S # {} PROVE FALSE
  OBVIOUS
<1> DEFINE T == Nat \ S
<1>1. T \subseteq Nat /\ T # {}
  OBVIOUS
<1> HIDE DEF T
<1>2. IsWellFoundedOn(Less, Nat)
  BY NatLessThanWellFounded DEF OpToRel, Less
<1>3. PICK x \in T : \A y \in T : ~ (<<y, x>> \in Less)
  BY <1>1, <1>2, WFMin
<1>4. x \in Nat /\ x # 0
  BY <1>1 DEF T
<1>5. x - 1 \in Nat /\ x - 1 < x /\ (x - 1) + 1 = x
  BY <1>4
<1>6. x - 1 \notin T
  BY <1>3, <1>4, <1>5 DEF Less
<1> QED
  BY <1>5, <1>6 DEF T

\* The function FlattenSeq is defined by, for the first n sequences of ss.
Flattens(f, ss, n) ==
  f = [i \in 1..n |-> IF i = 1 THEN ss[i] ELSE f[i - 1] \o ss[i]]

\* The first n elements of f and g are the same.
Agree(f, g, n) == \A i \in 1..n : f[i] = g[i]

\* There is one such function.
LEMMA FlatteningExists ==
  ASSUME NEW ss, NEW n \in Nat
  PROVE  \E f : Flattens(f, ss, n)
<1> DEFINE S == {m \in Nat : \E f : Flattens(f, ss, m)}
<1>1. 0 \in S
  <2>1. Flattens([i \in 1..0 |-> 0], ss, 0)
    BY DEF Flattens
  <2> QED
    BY <2>1
<1>2. ASSUME NEW m \in Nat, m \in S
      PROVE  m + 1 \in S
  <2>1. PICK f : Flattens(f, ss, m)
    BY <1>2
  <2> DEFINE g == [i \in 1..m + 1 |->
                     IF i <= m THEN f[i] ELSE IF i = 1 THEN ss[i] ELSE f[i - 1] \o ss[i]]
  <2>2. ASSUME NEW i \in 1..m + 1
        PROVE  g[i] = IF i = 1 THEN ss[i] ELSE g[i - 1] \o ss[i]
    <3>1. CASE i = 1
      BY <2>1, <3>1 DEF Flattens
    <3>2. CASE i # 1
      <4>1. i - 1 \in 1..m + 1 /\ i - 1 <= m
        BY <3>2
      <4>2. g[i - 1] = f[i - 1]
        BY <4>1
      <4>3. CASE i <= m
        <5>1. i \in 1..m
          BY <4>3
        <5>2. f[i] = f[i - 1] \o ss[i]
          BY <2>1, <3>2, <5>1 DEF Flattens
        <5> QED
          BY <3>2, <4>2, <4>3, <5>2
      <4>4. CASE ~(i <= m)
        BY <3>2, <4>2, <4>4
      <4> QED
        BY <4>3, <4>4
    <3> QED
      BY <3>1, <3>2
  <2>3. g = [i \in 1..m + 1 |-> IF i = 1 THEN ss[i] ELSE g[i - 1] \o ss[i]]
    <3>1. g = [i \in 1..m + 1 |-> g[i]]
      OBVIOUS
    <3> HIDE DEF g
    <3> QED
      BY <2>2, <3>1
  <2> HIDE DEF g
  <2>4. Flattens(g, ss, m + 1)
    BY <2>3, Zenon DEF Flattens
  <2>5. m + 1 \in Nat
    OBVIOUS
  <2> QED
    BY <2>4, <2>5
<1> HIDE DEF S
<1>3. n \in S
  BY <1>1, <1>2, SetInduction
<1> QED
  BY <1>3 DEF S

LEMMA FlatteningExtends ==
  ASSUME NEW ss, NEW tt, NEW n \in Nat, NEW m, m = n + 1,
         Agree(ss, tt, n),
         NEW f, Flattens(f, ss, n), NEW g, Flattens(g, tt, m)
  PROVE  Agree(f, g, n)
<1> DEFINE S == {i \in Nat : i \in 1..n => f[i] = g[i]}
<1>1. 0 \in S
  OBVIOUS
<1>2. ASSUME NEW i \in Nat, i \in S
      PROVE  i + 1 \in S
  <2> SUFFICES ASSUME i + 1 \in 1..n PROVE f[i + 1] = g[i + 1]
    OBVIOUS
  <2>1. i + 1 \in 1..n + 1 /\ (i + 1 # 1 => i \in 1..n) /\ (i + 1) - 1 = i
    OBVIOUS
  <2>2. f[i + 1] = IF i + 1 = 1 THEN ss[i + 1] ELSE f[i] \o ss[i + 1]
    BY <2>1 DEF Flattens
  <2>3. g[i + 1] = IF i + 1 = 1 THEN tt[i + 1] ELSE g[i] \o tt[i + 1]
    BY <2>1 DEF Flattens
  <2> QED
    BY <1>2, <2>1, <2>2, <2>3 DEF Agree
<1> HIDE DEF S
<1>3. Nat \subseteq S
  BY <1>1, <1>2, SetInduction
<1> QED
  BY <1>3 DEF S, Agree

LEMMA FlattenSeqByFunction ==
  ASSUME NEW ss, Len(ss) \in Nat \ {0}
  PROVE  \E f : Flattens(f, ss, Len(ss)) /\ FlattenSeq(ss) = f[Len(ss)]
<1> DEFINE f == CHOOSE f : Flattens(f, ss, Len(ss))
<1>1. Flattens(f, ss, Len(ss))
  BY FlatteningExists
<1>2. FlattenSeq(ss) = f[Len(ss)]
  BY DEF FlattenSeq, Flattens
<1> QED
  BY <1>1, <1>2
-----------------------------------------------------------------------------
\* Flattening an empty sequence, and one more sequence behind the others.
LEMMA FlattenEmpty == FlattenSeq(<<>>) = <<>>
<1>1. Len(<<>>) = 0
  OBVIOUS
<1> QED
  BY <1>1 DEF FlattenSeq

LEMMA FlattenType ==
  ASSUME NEW S, NEW ss \in Seq(Seq(S))
  PROVE  FlattenSeq(ss) \in Seq(S)
<1>1. CASE ss = <<>>
  BY <1>1, FlattenEmpty, EmptySeq
<1>2. CASE ss # <<>>
  <2>1. Len(ss) \in Nat \ {0}
    BY <1>2, EmptySeq
  <2>2. PICK f : Flattens(f, ss, Len(ss)) /\ FlattenSeq(ss) = f[Len(ss)]
    BY <2>1, FlattenSeqByFunction
  <2> DEFINE T == {i \in Nat : i \in 1..Len(ss) => f[i] \in Seq(S)}
  <2>3. 0 \in T
    OBVIOUS
  <2>4. ASSUME NEW i \in Nat, i \in T
        PROVE  i + 1 \in T
    <3> SUFFICES ASSUME i + 1 \in 1..Len(ss) PROVE f[i + 1] \in Seq(S)
      OBVIOUS
    <3>1. ss[i + 1] \in Seq(S)
      BY ElementOfSeq
    <3>2. f[i + 1] = IF i + 1 = 1 THEN ss[i + 1] ELSE f[(i + 1) - 1] \o ss[i + 1]
      BY <2>2 DEF Flattens
    <3>3. CASE i = 0
      BY <3>1, <3>2, <3>3
    <3>4. CASE i # 0
      <4>1. (i + 1) - 1 = i /\ i + 1 # 1 /\ i \in 1..Len(ss)
        BY <2>1, <3>4
      <4>2. f[i] \in Seq(S)
        BY <2>4, <4>1
      <4> QED
        BY <3>1, <3>2, <4>1, <4>2, ConcatProperties
    <3> QED
      BY <3>3, <3>4
  <2> HIDE DEF T
  <2>5. Len(ss) \in T
    BY <2>1, <2>3, <2>4, SetInduction
  <2> QED
    BY <2>1, <2>2, <2>5 DEF T
<1> QED
  BY <1>1, <1>2

LEMMA FlattenOneMore ==
  ASSUME NEW ss, NEW tt, NEW n \in Nat \ {0}, NEW m, m = n + 1,
         Len(ss) = n, Len(tt) = m, Agree(ss, tt, n)
  PROVE  FlattenSeq(tt) = FlattenSeq(ss) \o tt[m]
<1>1. PICK f : Flattens(f, ss, n) /\ FlattenSeq(ss) = f[n]
  BY FlattenSeqByFunction
<1>2. PICK g : Flattens(g, tt, m) /\ FlattenSeq(tt) = g[m]
  <2>1. Len(tt) \in Nat \ {0}
    OBVIOUS
  <2> QED
    BY <2>1, FlattenSeqByFunction
<1>3. n \in Nat /\ n \in 1..n /\ m \in 1..m /\ m # 1 /\ m - 1 = n
  OBVIOUS
<1>4. f[n] = g[n]
  <2>1. Agree(f, g, n)
    BY <1>1, <1>2, <1>3, FlatteningExtends
  <2> QED
    BY <2>1, <1>3 DEF Agree
<1>5. g[m] = g[n] \o tt[m]
  BY <1>2, <1>3 DEF Flattens
<1> QED
  BY <1>1, <1>2, <1>4, <1>5

LEMMA FlattenAppend ==
  ASSUME NEW S, NEW ss \in Seq(Seq(S)), NEW e \in Seq(S)
  PROVE  FlattenSeq(Append(ss, e)) = FlattenSeq(ss) \o e
<1> DEFINE tt == Append(ss, e)
<1>1. /\ Len(ss) \in Nat /\ tt \in Seq(Seq(S)) /\ Len(tt) = Len(ss) + 1
      /\ tt[Len(ss) + 1] = e /\ \A i \in 1..Len(ss) : tt[i] = ss[i]
  BY LenProperties, AppendProperties
<1>2. CASE Len(ss) = 0
  <2>1. ss = <<>>
    BY <1>2, EmptySeq
  <2>2. FlattenSeq(ss) = <<>> /\ <<>> \o e = e
    BY <2>1, FlattenEmpty, ConcatEmptySeq
  <2>3. Len(tt) \in Nat \ {0}
    BY <1>1
  <2>4. PICK g : Flattens(g, tt, Len(tt)) /\ FlattenSeq(tt) = g[Len(tt)]
    BY <2>3, FlattenSeqByFunction
  <2>5. Len(tt) = 1 /\ tt[1] = e
    BY <1>1, <1>2
  <2>6. g[1] = tt[1]
    BY <2>4, <2>5 DEF Flattens
  <2> QED
    BY <2>2, <2>4, <2>5, <2>6
<1>3. CASE Len(ss) # 0
  <2> HIDE DEF tt
  <2>1. FlattenSeq(tt) = FlattenSeq(ss) \o tt[Len(ss) + 1]
    <3>1. Len(ss) \in Nat \ {0} /\ Agree(ss, tt, Len(ss))
      BY <1>1, <1>3 DEF Agree
    <3> QED
      BY <1>1, <3>1, FlattenOneMore, ZenonT(60)
  <2> QED
    BY <1>1, <2>1 DEF tt
<1> QED
  BY <1>2, <1>3

-----------------------------------------------------------------------------
\* A sequence cut in two after its first n elements.
LEMMA TakeDrop ==
  ASSUME NEW S, NEW s \in Seq(S), NEW n \in 0..Len(s)
  PROVE  /\ SubSeq(s, 1, n) \in Seq(S) /\ Len(SubSeq(s, 1, n)) = n
         /\ SubSeq(s, n + 1, Len(s)) \in Seq(S)
         /\ Len(SubSeq(s, n + 1, Len(s))) = Len(s) - n
         /\ \A i \in 1..n : SubSeq(s, 1, n)[i] = s[i]
         /\ \A i \in 1..Len(s) - n : SubSeq(s, n + 1, Len(s))[i] = s[n + i]
         /\ s = SubSeq(s, 1, n) \o SubSeq(s, n + 1, Len(s))
<1> DEFINE a == SubSeq(s, 1, n)
           b == SubSeq(s, n + 1, Len(s))
<1>1. Len(s) \in Nat /\ n \in Nat /\ n <= Len(s) /\ \A i \in 1..Len(s) : s[i] \in S
  BY LenProperties, ElementOfSeq
<1>2. a \in Seq(S) /\ Len(a) = n /\ \A i \in 1..n : a[i] = s[i]
  <2>1. \A i \in 1..n : s[i] \in S
    BY <1>1
  <2> QED
    BY <1>1, <2>1, SubSeqProperties
<1>3. b \in Seq(S) /\ Len(b) = Len(s) - n /\ \A i \in 1..Len(s) - n : b[i] = s[n + i]
  <2>1. \A i \in n + 1..Len(s) : s[i] \in S
    BY <1>1
  <2> QED
    BY <1>1, <2>1, SubSeqProperties
<1> HIDE DEF a, b
<1>4. s = a \o b
  <2>1. /\ a \o b \in Seq(S) /\ Len(a \o b) = n + (Len(s) - n)
        /\ \A i \in 1..n + (Len(s) - n) : (a \o b)[i] = IF i <= n THEN a[i] ELSE b[i - n]
    BY <1>2, <1>3, ConcatProperties
  <2>2. n + (Len(s) - n) = Len(s)
    BY <1>1
  <2>3. ASSUME NEW i \in 1..Len(s)
        PROVE  (a \o b)[i] = s[i]
    <3>1. CASE i <= n
      <4>1. i \in 1..n
        BY <1>1, <3>1
      <4> QED
        BY <1>2, <2>1, <2>2, <3>1, <4>1
    <3>2. CASE ~(i <= n)
      <4>1. i - n \in 1..Len(s) - n /\ n + (i - n) = i
        BY <1>1, <3>2
      <4> QED
        BY <1>3, <2>1, <2>2, <3>2, <4>1
    <3> QED
      BY <3>1, <3>2
  <2>4. a \o b \in Seq(S) /\ Len(a \o b) = Len(s)
    BY <2>1, <2>2
  <2> HIDE DEF a, b
  <2> QED
    BY <2>3, <2>4, SeqEqual
<1> QED
  BY <1>2, <1>3, <1>4 DEF a, b

\* Two ways to cut one sequence at the same place are the same.
LEMMA SameCut ==
  ASSUME NEW S, NEW a \in Seq(S), NEW b \in Seq(S), NEW c \in Seq(S), NEW d \in Seq(S),
         Len(a) = Len(c), a \o b = c \o d
  PROVE  a = c /\ b = d
<1>1. /\ Len(a) \in Nat /\ Len(b) \in Nat /\ Len(a \o b) = Len(a) + Len(b)
      /\ \A i \in 1..Len(a) + Len(b) : (a \o b)[i] =
            IF i <= Len(a) THEN a[i] ELSE b[i - Len(a)]
  BY ConcatProperties, LenProperties
<1>2. /\ \A i \in 1..Len(c) + Len(d) : (c \o d)[i] =
            IF i <= Len(c) THEN c[i] ELSE d[i - Len(c)]
      /\ Len(c) \in Nat
  BY ConcatProperties, LenProperties
<1>3. a = c
  <2>1. ASSUME NEW i \in 1..Len(a)
        PROVE  a[i] = c[i]
    <3>1. i \in 1..Len(a) + Len(b) /\ i <= Len(a) /\ i <= Len(c)
      BY <1>1
    <3>2. i \in 1..Len(c) + Len(d)
      BY <1>2, LenProperties
    <3> QED
      BY <1>1, <1>2, <3>1, <3>2
  <2> QED
    BY <2>1, SeqEqual
<1>4. b = d
  <2>1. a \o b = a \o d
    BY <1>3
  <2> QED
    BY <2>1, ConcatSimplifications, Zenon
<1> QED
  BY <1>3, <1>4

\* IsPrefix, by what is behind the prefix.
LEMMA PrefixHasRest ==
  ASSUME NEW S, NEW s \in Seq(S), NEW t \in Seq(S), IsPrefix(s, t)
  PROVE  \E u \in Seq(S) : t = s \o u
<1>1. Len(s) \in Nat /\ Len(t) \in Nat /\ Len(s) \in 0..Len(t)
  BY LenProperties DEF IsPrefix
<1>2. SubSeq(s, 1, Len(s)) = s
  BY SubSeqFull
<1>3. /\ SubSeq(t, Len(s) + 1, Len(t)) \in Seq(S)
      /\ t = SubSeq(t, 1, Len(s)) \o SubSeq(t, Len(s) + 1, Len(t))
  BY <1>1, TakeDrop
<1> QED
  BY <1>2, <1>3 DEF IsPrefix

LEMMA PrefixByRest ==
  ASSUME NEW S, NEW s \in Seq(S), NEW u \in Seq(S)
  PROVE  IsPrefix(s, s \o u)
<1> DEFINE t == s \o u
<1>1. /\ t \in Seq(S) /\ Len(s) \in Nat /\ Len(u) \in Nat /\ Len(t) = Len(s) + Len(u)
      /\ \A i \in 1..Len(s) + Len(u) : t[i] = IF i <= Len(s) THEN s[i] ELSE u[i - Len(s)]
  BY ConcatProperties, LenProperties
<1> HIDE DEF t
<1>2. Len(s) \in 0..Len(t)
  BY <1>1
<1>3. /\ SubSeq(t, 1, Len(s)) \in Seq(S) /\ Len(SubSeq(t, 1, Len(s))) = Len(s)
      /\ \A i \in 1..Len(s) : SubSeq(t, 1, Len(s))[i] = t[i]
  BY <1>1, <1>2, TakeDrop
<1>4. \A i \in 1..Len(s) : SubSeq(t, 1, Len(s))[i] = s[i]
  BY <1>1, <1>3
<1>5. SubSeq(t, 1, Len(s)) = s
  BY <1>3, <1>4, SeqEqual
<1>6. SubSeq(s, 1, Len(s)) = s
  BY SubSeqFull
<1> QED
  BY <1>2, <1>5, <1>6 DEF IsPrefix, t

\* A prefix stays one when the longer sequence grows.
LEMMA PrefixOfLonger ==
  ASSUME NEW S, NEW s \in Seq(S), NEW t \in Seq(S), NEW u \in Seq(S), IsPrefix(s, t)
  PROVE  IsPrefix(s, t \o u)
<1>1. PICK v \in Seq(S) : t = s \o v
  BY PrefixHasRest
<1>2. t \o u = s \o (v \o u)
  BY <1>1, ConcatAssociative
<1>3. v \o u \in Seq(S)
  BY ConcatProperties
<1> QED
  BY <1>2, <1>3, PrefixByRest

\* A prefix of a prefix is one.
LEMMA PrefixTransitive ==
  ASSUME NEW S, NEW s \in Seq(S), NEW t \in Seq(S), NEW u \in Seq(S),
         IsPrefix(s, t), IsPrefix(t, u)
  PROVE  IsPrefix(s, u)
<1>1. PICK v \in Seq(S) : u = t \o v
  BY PrefixHasRest
<1> QED
  BY <1>1, PrefixOfLonger

LEMMA FlattenAppendBehind ==
  ASSUME NEW S, NEW ss \in Seq(Seq(S)), NEW vv \in Seq(Seq(S)), NEW e \in Seq(S),
         FlattenSeq(ss \o vv) = FlattenSeq(ss) \o FlattenSeq(vv)
  PROVE  FlattenSeq(ss \o Append(vv, e)) = FlattenSeq(ss) \o FlattenSeq(Append(vv, e))
<1>1. ss \o Append(vv, e) = Append(ss \o vv, e) /\ ss \o vv \in Seq(Seq(S))
  <2>1. /\ Append(vv, e) = vv \o <<e>> /\ ss \o vv \in Seq(Seq(S))
        /\ <<e>> \in Seq(Seq(S))
    BY AppendIsConcat, ConcatProperties
  <2>2. Append(ss \o vv, e) = (ss \o vv) \o <<e>>
    BY <2>1, AppendIsConcat
  <2>3. (ss \o vv) \o <<e>> = ss \o (vv \o <<e>>)
    BY <2>1, ConcatAssociative, SMTT(60)
  <2> QED
    BY <2>1, <2>2, <2>3
<1>2. FlattenSeq(Append(ss \o vv, e)) = FlattenSeq(ss \o vv) \o e
  BY <1>1, FlattenAppend
<1>3. FlattenSeq(Append(vv, e)) = FlattenSeq(vv) \o e
  BY FlattenAppend
<1>4. FlattenSeq(ss) \in Seq(S) /\ FlattenSeq(vv) \in Seq(S)
  BY FlattenType
<1>5. (FlattenSeq(ss) \o FlattenSeq(vv)) \o e = FlattenSeq(ss) \o (FlattenSeq(vv) \o e)
  BY <1>4, ConcatAssociative, SMTT(60)
<1> QED
  BY <1>1, <1>2, <1>3, <1>5

\* What is to be shown, for the sequences of length n behind ss.
Distributes(S, ss, n) ==
  \A uu \in Seq(Seq(S)) : Len(uu) = n =>
     FlattenSeq(ss \o uu) = FlattenSeq(ss) \o FlattenSeq(uu)

LEMMA FlattenConcatStep ==
  ASSUME NEW S, NEW ss \in Seq(Seq(S)), NEW uu \in Seq(Seq(S)), NEW n \in Nat,
         Len(uu) = n + 1, Distributes(S, ss, n)
  PROVE  FlattenSeq(ss \o uu) = FlattenSeq(ss) \o FlattenSeq(uu)
<1>1. uu # <<>>
  BY EmptySeq
<1>2. PICK vv \in Seq(Seq(S)), e \in Seq(S) : uu = Append(vv, e)
  BY <1>1, SequenceEmptyOrAppend
<1>3. Len(vv) = n
  BY <1>2, AppendProperties, LenProperties
<1>4. FlattenSeq(ss \o vv) = FlattenSeq(ss) \o FlattenSeq(vv)
  BY <1>3 DEF Distributes
<1>5. FlattenSeq(ss \o Append(vv, e)) = FlattenSeq(ss) \o FlattenSeq(Append(vv, e))
  BY <1>4, FlattenAppendBehind
<1> QED
  BY <1>2, <1>5

\* Flattening the concatenation of two sequences of sequences.
LEMMA FlattenConcat ==
  ASSUME NEW S, NEW ss \in Seq(Seq(S)), NEW tt \in Seq(Seq(S))
  PROVE  FlattenSeq(ss \o tt) = FlattenSeq(ss) \o FlattenSeq(tt)
<1> DEFINE P == {n \in Nat : Distributes(S, ss, n)}
<1>1. 0 \in P
  <2> SUFFICES ASSUME NEW uu \in Seq(Seq(S)), Len(uu) = 0
               PROVE  FlattenSeq(ss \o uu) = FlattenSeq(ss) \o FlattenSeq(uu)
    BY DEF Distributes
  <2>1. uu = <<>>
    BY EmptySeq
  <2>2. ss \o <<>> = ss
    BY ConcatEmptySeq
  <2>3. FlattenSeq(ss) \o <<>> = FlattenSeq(ss)
    BY FlattenType, ConcatEmptySeq
  <2> QED
    BY <2>1, <2>2, <2>3, FlattenEmpty
<1>2. ASSUME NEW n \in Nat, n \in P
      PROVE  n + 1 \in P
  <2> SUFFICES ASSUME NEW uu \in Seq(Seq(S)), Len(uu) = n + 1
               PROVE  FlattenSeq(ss \o uu) = FlattenSeq(ss) \o FlattenSeq(uu)
    BY DEF Distributes
  <2> QED
    BY <1>2, FlattenConcatStep
<1> HIDE DEF P
<1>3. Len(tt) \in P
  <2>1. Len(tt) \in Nat
    BY LenProperties
  <2> QED
    BY <1>1, <1>2, <2>1, SetInduction
<1> QED
  BY <1>3 DEF P, Distributes

-----------------------------------------------------------------------------
\* FoldLeft of a function.
Folded(f, base, s) == FoldLeft(LAMBDA x, e : f[e][x], base, s)

\* The function that FoldLeft of f is defined by, over the sets of positions up to n.
Folds(g, f, base, s, n) ==
  g = [S \in SUBSET (1..n) |->
         IF S = {} THEN base ELSE f[s[Max(S)]][g[S \ {Max(S)}]]]

LEMMA MaxIs ==
  ASSUME NEW n \in Nat, NEW S \in SUBSET (1..n + 1), n + 1 \in S
  PROVE  Max(S) = n + 1
<1>1. \A y \in S : n + 1 >= y
  OBVIOUS
<1>2. \A x \in S : (\A y \in S : x >= y) => x = n + 1
  BY <1>1
<1> QED
  BY <1>1, <1>2 DEF Max

LEMMA FoldingExists ==
  ASSUME NEW f, NEW base, NEW s, NEW n \in Nat
  PROVE  \E g : Folds(g, f, base, s, n)
<1> DEFINE T == {m \in Nat : \E g : Folds(g, f, base, s, m)}
<1>1. 0 \in T
  <2> DEFINE g == [S \in SUBSET (1..0) |-> base]
  <2>1. \A S \in SUBSET (1..0) : S = {}
    OBVIOUS
  <2>2. g = [S \in SUBSET (1..0) |->
               IF S = {} THEN base ELSE f[s[Max(S)]][g[S \ {Max(S)}]]]
    BY <2>1
  <2> HIDE DEF g
  <2>3. Folds(g, f, base, s, 0)
    BY <2>2 DEF Folds
  <2> QED
    BY <2>3
<1>2. ASSUME NEW m \in Nat, m \in T
      PROVE  m + 1 \in T
  <2>1. PICK h : Folds(h, f, base, s, m)
    BY <1>2
  <2> DEFINE g == [S \in SUBSET (1..m + 1) |->
                     IF m + 1 \in S THEN f[s[m + 1]][h[S \ {m + 1}]] ELSE h[S]]
  <2>2. ASSUME NEW S \in SUBSET (1..m + 1)
        PROVE  g[S] = IF S = {} THEN base ELSE f[s[Max(S)]][g[S \ {Max(S)}]]
    <3>1. CASE m + 1 \in S
      <4>1. Max(S) = m + 1
        BY <3>1, MaxIs
      <4>2. S \ {m + 1} \in SUBSET (1..m + 1) /\ m + 1 \notin S \ {m + 1}
        OBVIOUS
      <4>3. g[S \ {m + 1}] = h[S \ {m + 1}]
        BY <4>2
      <4> QED
        BY <3>1, <4>1, <4>3
    <3>2. CASE m + 1 \notin S
      <4>1. S \in SUBSET (1..m) /\ g[S] = h[S]
        BY <3>2
      <4>2. h[S] = IF S = {} THEN base ELSE f[s[Max(S)]][h[S \ {Max(S)}]]
        BY <2>1, <4>1 DEF Folds
      <4>3. g[S \ {Max(S)}] = h[S \ {Max(S)}]
        BY <3>2
      <4> QED
        BY <4>1, <4>2, <4>3
    <3> QED
      BY <3>1, <3>2
  <2>3. g = [S \in SUBSET (1..m + 1) |-> g[S]]
    OBVIOUS
  <2> HIDE DEF g
  <2>4. Folds(g, f, base, s, m + 1)
    BY <2>2, <2>3, Zenon DEF Folds
  <2>5. m + 1 \in Nat
    OBVIOUS
  <2> QED
    BY <2>4, <2>5
<1> HIDE DEF T
<1>3. n \in T
  BY <1>1, <1>2, SetInduction
<1> QED
  BY <1>3 DEF T

LEMMA FoldLeftByFunction ==
  ASSUME NEW f, NEW base, NEW s, NEW n \in Nat, DOMAIN s = 1..n
  PROVE  \E g : /\ Folds(g, f, base, s, n)
                /\ Folded(f, base, s) = g[1..n]
<1> DEFINE g == CHOOSE h : Folds(h, f, base, s, n)
<1>1. Folds(g, f, base, s, n)
  BY FoldingExists
<1>2. Folded(f, base, s) = g[1..n]
  BY DEF Folded, FoldLeft, MapThenFoldSet, Folds
<1> QED
  BY <1>1, <1>2

\* The values a fold goes through.
History(h, f, base, s) ==
  h[0] = base /\ \A i \in 1..Len(s) : h[i] = f[s[i]][h[i - 1]]

LEMMA FoldHistory ==
  ASSUME NEW f, NEW base, NEW U, NEW s \in Seq(U)
  PROVE  \E h : /\ History(h, f, base, s)
                /\ Folded(f, base, s) = h[Len(s)]
<1> DEFINE n == Len(s)
<1>1. n \in Nat /\ DOMAIN s = 1..n
  BY LenProperties
<1> HIDE DEF n
<1>2. PICK g : /\ Folds(g, f, base, s, n)
               /\ Folded(f, base, s) = g[1..n]
  BY <1>1, FoldLeftByFunction
<1> DEFINE h == [i \in 0..n |-> g[1..i]]
<1>3. h[0] = base
  <2>1. 1..0 = {} /\ 0 \in 0..n /\ 1..0 \in SUBSET (1..n)
    BY <1>1
  <2>2. g[1..0] = base
    BY <1>2, <2>1 DEF Folds
  <2> QED
    BY <2>1, <2>2
<1>4. ASSUME NEW i \in 1..n
      PROVE  h[i] = f[s[i]][h[i - 1]]
  <2>1. i - 1 \in Nat /\ i = (i - 1) + 1 /\ 1..i \in SUBSET (1..n) /\ i \in 1..i
        /\ i \in 0..n /\ i - 1 \in 0..n
    BY <1>1
  <2>2. Max(1..i) = i
    <3>1. \A y \in 1..i : i >= y
      OBVIOUS
    <3>2. \A x \in 1..i : (\A y \in 1..i : x >= y) => x = i
      BY <2>1
    <3> QED
      BY <2>1, <3>1, <3>2 DEF Max
  <2>3. (1..i) \ {i} = 1..i - 1 /\ 1..i # {}
    <3>1. \A x : x \in (1..i) \ {i} <=> x \in 1..i - 1
      BY <2>1
    <3> QED
      BY <2>1, <3>1
  <2>4. g[1..i] = f[s[i]][g[1..i - 1]]
    BY <1>2, <2>1, <2>2, <2>3 DEF Folds
  <2> QED
    BY <2>1, <2>4
<1>5. n \in 0..n
  BY <1>1
<1>6. h[n] = g[1..n]
  BY <1>5
<1> HIDE DEF h
<1>7. History(h, f, base, s)
  BY <1>3, <1>4 DEF History, n
<1> QED
  BY <1>2, <1>6, <1>7 DEF n

\* A fold goes through A[0], A[1], ... if it starts in A[0] and no step leaves them.
LEMMA FoldStays ==
  ASSUME NEW f, NEW base, NEW U, NEW s \in Seq(U), NEW A,
         base \in A[0],
         \A i \in 1..Len(s) : \A x \in A[i - 1] : f[s[i]][x] \in A[i]
  PROVE  Folded(f, base, s) \in A[Len(s)]
<1>1. PICK h : /\ History(h, f, base, s)
               /\ Folded(f, base, s) = h[Len(s)]
  BY FoldHistory
<1>2. Len(s) \in Nat
  BY LenProperties
<1> DEFINE T == {i \in Nat : i <= Len(s) => h[i] \in A[i]}
<1>3. 0 \in T
  BY <1>1 DEF History
<1>4. ASSUME NEW i \in Nat, i \in T
      PROVE  i + 1 \in T
  <2> SUFFICES ASSUME i + 1 <= Len(s) PROVE h[i + 1] \in A[i + 1]
    OBVIOUS
  <2>1. i + 1 \in 1..Len(s) /\ (i + 1) - 1 = i /\ h[i] \in A[i]
    BY <1>2, <1>4
  <2>2. h[i + 1] = f[s[i + 1]][h[i]]
    BY <1>1, <2>1 DEF History
  <2> QED
    BY <2>1, <2>2
<1> HIDE DEF T
<1>5. Len(s) \in T
  BY <1>2, <1>3, <1>4, SetInduction
<1> QED
  BY <1>1, <1>2, <1>5 DEF T
=============================================================================
