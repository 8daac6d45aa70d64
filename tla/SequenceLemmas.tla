--------------------------- MODULE SequenceLemmas ---------------------------
(***************************************************************************)
(* What FlattenSeq makes of a sequence of sequences.  It is a recursive    *)
(* function, so that all of it is proved by induction on the length; the   *)
(* induction itself is stated once, for a set of numbers.                  *)
(***************************************************************************)
EXTENDS Integers, Sequences, SequencesExt, SequenceTheorems, WellFoundedInduction, TLAPS

LEMMA UpToInduction ==
  ASSUME NEW n \in Nat, NEW S, 0 \in S, \A i \in 0 .. n - 1 : i \in S => i + 1 \in S
  PROVE  \A i \in 0 .. n : i \in S
<1> DEFINE Missing == {i \in 0 .. n : i \notin S}
<1> SUFFICES ASSUME Missing # {} PROVE FALSE
  OBVIOUS
<1>1. Missing \subseteq Nat
  OBVIOUS
<1>2. PICK i \in Missing : \A j \in Missing : ~(<<j, i>> \in OpToRel(<, Nat))
  BY <1>1, NatLessThanWellFounded, WFMin
<1>3. i \in 1 .. n
  OBVIOUS
<1>4. i - 1 \in S
  <2> SUFFICES ASSUME i - 1 \notin S PROVE FALSE
    OBVIOUS
  <2>1. i - 1 \in Missing /\ i - 1 \in Nat /\ i \in Nat /\ i - 1 < i
    BY <1>3
  <2> QED
    BY <1>2, <2>1 DEF OpToRel
<1> QED
  BY <1>3, <1>4

\* The same for sequences that grow at the end.
LEMMA SeqInduction ==
  ASSUME NEW T, NEW G, <<>> \in G,
         \A s \in Seq(T), e \in T : s \in G => Append(s, e) \in G
  PROVE  \A s \in Seq(T) : s \in G
<1> TAKE s \in Seq(T)
<1> DEFINE S == {i \in 0 .. Len(s) : SubSeq(s, 1, i) \in G}
<1>1. 0 \in S
  <2>1. SubSeq(s, 1, 0) = <<>>
    BY SubSeqEmpty
  <2>2. SubSeq(s, 1, 0) \in G
    BY <2>1
  <2>3. 0 \in 0 .. Len(s)
    OBVIOUS
  <2> QED
    BY <2>2, <2>3
<1>2. \A i \in 0 .. Len(s) - 1 : i \in S => i + 1 \in S
  <2> SUFFICES ASSUME NEW i \in 0 .. Len(s) - 1, SubSeq(s, 1, i) \in G
               PROVE  SubSeq(s, 1, i + 1) \in G
    OBVIOUS
  <2> DEFINE n == i + 1
  <2>1. n \in 1 .. Len(s) /\ 1 \in 1 .. Len(s) /\ n - 1 = i
    OBVIOUS
  <2>2. s[n] \in T /\ SubSeq(s, 1, i) \in Seq(T)
    <3>1. \A j \in 1 .. i : s[j] \in T
      OBVIOUS
    <3> QED
      BY <2>1, <3>1, SubSeqProperties
  <2> HIDE DEF n
  <2>3. SubSeq(s, 1, n) = SubSeq(s, 1, i) \o <<s[n]>>
    BY <2>1, SubSeqRecursiveSecond
  <2>4. SubSeq(s, 1, n) = Append(SubSeq(s, 1, i), s[n])
    BY <2>2, <2>3, AppendIsConcat
  <2>5. SubSeq(s, 1, n) \in G
    BY <2>2, <2>4
  <2> QED
    BY <2>5 DEF n
<1>3. Len(s) \in Nat
  OBVIOUS
<1> HIDE DEF S
<1>4. \A i \in 0 .. Len(s) : i \in S
  BY <1>1, <1>2, <1>3, UpToInduction
<1>5. SubSeq(s, 1, Len(s)) \in G
  BY <1>3, <1>4 DEF S
<1> QED
  BY <1>5, SubSeqFull

\* f[i] is what the first i sequences of ss are together, for i up to n.
AccumulatesTo(n, f, ss) ==
  /\ DOMAIN f = 0 .. n /\ f[0] = <<>>
  /\ \A i \in 1 .. n : f[i] = f[i - 1] \o ss[i]

Accumulates(f, ss) == AccumulatesTo(Len(ss), f, ss)

LEMMA AccumulatesStep ==
  ASSUME NEW n \in Nat, NEW f, NEW ss, AccumulatesTo(n, f, ss)
  PROVE  \A i \in 0 .. n - 1 : f[i + 1] = f[i] \o ss[i + 1]
<1> TAKE i \in 0 .. n - 1
<1>1. i + 1 \in 1 .. n /\ i + 1 - 1 = i
  OBVIOUS
<1>2. \A j \in 1 .. n : f[j] = f[j - 1] \o ss[j]
  BY DEF AccumulatesTo
<1> DEFINE j == i + 1
<1>3. f[j] = f[j - 1] \o ss[j] /\ j - 1 = i
  <2>1. j \in 1 .. n /\ j - 1 = i
    BY <1>1
  <2> HIDE DEF j
  <2> QED
    BY <1>2, <2>1
<1> QED
  BY <1>3

LEMMA AccumulatesType ==
  ASSUME NEW T, NEW ss \in Seq(Seq(T)), NEW f, Accumulates(f, ss)
  PROVE  \A i \in 0 .. Len(ss) : f[i] \in Seq(T)
<1> DEFINE S == {i \in 0 .. Len(ss) : f[i] \in Seq(T)}
<1>1. 0 \in S
  BY DEF Accumulates, AccumulatesTo
<1>2. \A i \in 0 .. Len(ss) - 1 : i \in S => i + 1 \in S
  <2> SUFFICES ASSUME NEW i \in 0 .. Len(ss) - 1, f[i] \in Seq(T) PROVE f[i + 1] \in Seq(T)
    OBVIOUS
  <2>1. f[i + 1] = f[i] \o ss[i + 1]
    <3>1. \A j \in 1 .. Len(ss) : f[j] = f[j - 1] \o ss[j]
      BY DEF Accumulates, AccumulatesTo
    <3> DEFINE j == i + 1
    <3>2. j \in 1 .. Len(ss) /\ j - 1 = i
      OBVIOUS
    <3> HIDE DEF j
    <3>3. f[j] = f[i] \o ss[j]
      BY <3>1, <3>2
    <3> QED
      BY <3>3 DEF j
  <2>2. ss[i + 1] \in Seq(T)
    OBVIOUS
  <2> QED
    BY <2>1, <2>2, ConcatProperties
<1>3. Len(ss) \in Nat
  OBVIOUS
<1> HIDE DEF S
<1>4. \A i \in 0 .. Len(ss) : i \in S
  BY <1>1, <1>2, <1>3, UpToInduction
<1> QED
  BY <1>4 DEF S

LEMMA AccumulatesUnique ==
  ASSUME NEW ss, Len(ss) \in Nat, NEW f, Accumulates(f, ss), NEW g, Accumulates(g, ss)
  PROVE  f[Len(ss)] = g[Len(ss)]
<1> DEFINE S == {i \in 0 .. Len(ss) : f[i] = g[i]}
<1>1. 0 \in S
  BY DEF Accumulates, AccumulatesTo
<1>2. \A i \in 0 .. Len(ss) - 1 : i \in S => i + 1 \in S
  <2> SUFFICES ASSUME NEW i \in 0 .. Len(ss) - 1, f[i] = g[i] PROVE f[i + 1] = g[i + 1]
    OBVIOUS
  <2>1. f[i + 1] = f[i] \o ss[i + 1] /\ g[i + 1] = g[i] \o ss[i + 1]
    <3>1. AccumulatesTo(Len(ss), f, ss) /\ AccumulatesTo(Len(ss), g, ss)
      BY DEF Accumulates
    <3> QED
      BY <3>1, AccumulatesStep, ZenonT(60)
  <2> QED
    BY <2>1
<1> HIDE DEF S
<1>3. \A i \in 0 .. Len(ss) : i \in S
  BY <1>1, <1>2, UpToInduction
<1> QED
  BY <1>3 DEF S

\* What one sequence more makes of it.
LEMMA AccumulatesMore ==
  ASSUME NEW n \in Nat, NEW f, NEW ss, AccumulatesTo(n, f, ss), NEW tt,
         \A i \in 1 .. n : tt[i] = ss[i]
  PROVE  \E g : AccumulatesTo(n + 1, g, tt) /\ g[n + 1] = f[n] \o tt[n + 1]
<1> DEFINE g == [i \in 0 .. n + 1 |-> IF i = n + 1 THEN f[n] \o tt[n + 1] ELSE f[i]]
<1>1. DOMAIN g = 0 .. n + 1 /\ g[0] = <<>>
  BY DEF AccumulatesTo
<1>2. \A i \in 0 .. n : g[i] = f[i]
  OBVIOUS
<1>3. g[n + 1] = f[n] \o tt[n + 1]
  OBVIOUS
<1> HIDE DEF g
<1>4. \A i \in 1 .. n + 1 : g[i] = g[i - 1] \o tt[i]
  <2> TAKE i \in 1 .. n + 1
  <2>1. CASE i = n + 1
    <3>1. i - 1 = n /\ n \in 0 .. n
      BY <2>1
    <3>2. g[i - 1] = f[n]
      BY <3>1, <1>2
    <3> QED
      BY <2>1, <1>3, <3>2
  <2>2. CASE i # n + 1
    <3>1. i \in 1 .. n /\ i \in 0 .. n /\ i - 1 \in 0 .. n
      BY <2>2
    <3>2. g[i] = f[i] /\ g[i - 1] = f[i - 1] /\ tt[i] = ss[i]
      BY <3>1, <1>2
    <3>3. f[i] = f[i - 1] \o ss[i]
      BY <3>1 DEF AccumulatesTo
    <3> QED
      BY <3>2, <3>3
  <2> QED
    BY <2>1, <2>2
<1>5. AccumulatesTo(n + 1, g, tt)
  BY <1>1, <1>4 DEF AccumulatesTo
<1> QED
  BY <1>3, <1>5

LEMMA AccumulatesExists ==
  ASSUME NEW ss, Len(ss) \in Nat
  PROVE  \E f : Accumulates(f, ss)
<1> DEFINE S == {n \in 0 .. Len(ss) : \E f : AccumulatesTo(n, f, ss)}
<1>1. 0 \in S
  <2>1. AccumulatesTo(0, [i \in 0 .. 0 |-> <<>>], ss)
    BY DEF AccumulatesTo
  <2>2. \E f : AccumulatesTo(0, f, ss)
    BY <2>1
  <2> QED
    BY <2>2
<1>2. \A n \in 0 .. Len(ss) - 1 : n \in S => n + 1 \in S
  <2> SUFFICES ASSUME NEW n \in 0 .. Len(ss) - 1, NEW f, AccumulatesTo(n, f, ss)
               PROVE  \E g : AccumulatesTo(n + 1, g, ss)
    OBVIOUS
  <2>1. n \in Nat /\ \A i \in 1 .. n : ss[i] = ss[i]
    OBVIOUS
  <2> QED
    BY <2>1, AccumulatesMore
<1> HIDE DEF S
<1>3. \A n \in 0 .. Len(ss) : n \in S
  BY <1>1, <1>2, UpToInduction
<1> QED
  BY <1>3 DEF S, Accumulates

\* Its defining equation.
LEMMA FlattenIs ==
  ASSUME NEW T, NEW ss \in Seq(Seq(T)), NEW f, Accumulates(f, ss)
  PROVE  FlattenSeq(ss) = f[Len(ss)]
<1>1. CASE Len(ss) = 0
  <2>1. FlattenSeq(ss) = ss /\ ss = <<>>
    BY <1>1 DEF FlattenSeq
  <2> QED
    BY <1>1, <2>1 DEF Accumulates, AccumulatesTo
<1>2. CASE Len(ss) # 0
  <2> DEFINE n == Len(ss)
             Rec(h) == [i \in 1 .. n |-> IF i = 1 THEN ss[i] ELSE h[i - 1] \o ss[i]]
             h0 == CHOOSE h : h = Rec(h)
             g == [i \in 1 .. n |-> f[i]]
  <2>1. n \in Nat \ {0} /\ \A i \in 1 .. n : ss[i] \in Seq(T)
    BY <1>2
  <2>2. \A i \in 0 .. n : f[i] \in Seq(T)
    BY AccumulatesType
  <2>3. \A i \in 1 .. n : g[i] = IF i = 1 THEN ss[i] ELSE g[i - 1] \o ss[i]
    <3> TAKE i \in 1 .. n
    <3>1. f[i] = f[i - 1] \o ss[i]
      BY DEF Accumulates, AccumulatesTo
    <3>2. CASE i = 1
      <4>1. f[i] = <<>> \o ss[i] /\ ss[i] \in Seq(T)
        BY <2>1, <3>1, <3>2 DEF Accumulates, AccumulatesTo
      <4> QED
        BY <3>2, <4>1, ConcatEmptySeq
    <3>3. CASE i # 1
      <4>1. i - 1 \in 1 .. n
        BY <2>1, <3>3
      <4>2. g[i - 1] = f[i - 1] /\ g[i] = f[i]
        BY <4>1
      <4> QED
        BY <3>1, <3>3, <4>2
    <3> QED
      BY <3>2, <3>3
  <2>4. g = Rec(g)
    BY <2>3
  <2>5. h0 = Rec(h0)
    BY <2>4
  <2>6. FlattenSeq(ss) = h0[n]
    BY <1>2 DEF FlattenSeq
  <2> HIDE DEF h0
  <2> DEFINE h1 == [i \in 0 .. n |-> IF i = 0 THEN <<>> ELSE h0[i]]
  <2>7. Accumulates(h1, ss)
    <3>1. DOMAIN h1 = 0 .. Len(ss) /\ h1[0] = <<>>
      BY <2>1
    <3>2. \A i \in 1 .. n : h0[i] = IF i = 1 THEN ss[i] ELSE h0[i - 1] \o ss[i]
      BY <2>5
    <3>3. \A i \in 1 .. n : h1[i] = h1[i - 1] \o ss[i]
      <4> TAKE i \in 1 .. n
      <4>1. CASE i = 1
        <5>1. h1[i] = ss[i] /\ h1[i - 1] = <<>> /\ ss[i] \in Seq(T)
          BY <2>1, <3>2, <4>1
        <5> QED
          BY <5>1, ConcatEmptySeq
      <4>2. CASE i # 1
        <5>1. i - 1 \in 0 .. n /\ i - 1 # 0 /\ i \in 0 .. n /\ i # 0
          BY <2>1, <4>2
        <5>2. h1[i] = h0[i] /\ h1[i - 1] = h0[i - 1]
          BY <5>1
        <5> QED
          BY <3>2, <4>2, <5>2
      <4> QED
        BY <4>1, <4>2
    <3> HIDE DEF h1
    <3> QED
      BY <3>1, <3>3 DEF Accumulates, AccumulatesTo
  <2>8. h1[n] = h0[n]
    BY <2>1
  <2> HIDE DEF h1
  <2>9. h1[n] = f[n]
    BY <2>1, <2>7, AccumulatesUnique
  <2> QED
    BY <2>6, <2>8, <2>9
<1> QED
  BY <1>1, <1>2

LEMMA Associative == \A T : \A a, b, c \in Seq(T) : (a \o b) \o c = a \o (b \o c)
BY ConcatAssociative

LEMMA SeqWithin ==
  ASSUME NEW T, NEW s \in Seq(T), NEW U, \A i \in DOMAIN s : s[i] \in U
  PROVE  s \in Seq(U)
<1>1. DOMAIN s = 1 .. Len(s) /\ Len(s) \in Nat /\ s = [i \in 1 .. Len(s) |-> s[i]]
  OBVIOUS
<1> QED
  BY <1>1

LEMMA HeadFirst ==
  ASSUME NEW T, NEW s \in Seq(T), s # <<>>
  PROVE  /\ Head(s) \in T /\ Tail(s) \in Seq(T) /\ <<Head(s)>> \in Seq(T)
         /\ s = <<Head(s)>> \o Tail(s)
<1>1. Head(s) \in T /\ Tail(s) \in Seq(T)
  BY HeadTailProperties
<1>2. <<Head(s)>> \in Seq(T)
  BY <1>1
<1>3. s = <<Head(s)>> \o Tail(s)
  BY <1>1, <1>2
<1> QED
  BY <1>1, <1>2, <1>3

LEMMA FlattenEmpty == FlattenSeq(<<>>) = <<>>
BY DEF FlattenSeq

LEMMA FlattenType ==
  ASSUME NEW T, NEW ss \in Seq(Seq(T))
  PROVE  FlattenSeq(ss) \in Seq(T)
<1>1. Len(ss) \in Nat
  OBVIOUS
<1>2. PICK f : Accumulates(f, ss)
  BY <1>1, AccumulatesExists
<1>3. f[Len(ss)] \in Seq(T)
  BY <1>1, <1>2, AccumulatesType
<1> QED
  BY <1>2, <1>3, FlattenIs

LEMMA FlattenAppend ==
  ASSUME NEW T, NEW ss \in Seq(Seq(T)), NEW s \in Seq(T)
  PROVE  FlattenSeq(Append(ss, s)) = FlattenSeq(ss) \o s
<1> DEFINE tt == Append(ss, s)
           n == Len(ss)
<1>1. n \in Nat
  OBVIOUS
<1>2. tt \in Seq(Seq(T)) /\ Len(tt) = n + 1 /\ tt[n + 1] = s /\ \A i \in 1 .. n : tt[i] = ss[i]
  BY AppendProperties
<1>3. PICK f : Accumulates(f, ss)
  BY <1>1, AccumulatesExists
<1>4. AccumulatesTo(n, f, ss)
  BY <1>3 DEF Accumulates
<1> HIDE DEF tt
<1> HIDE DEF n
<1>5. PICK g : AccumulatesTo(n + 1, g, tt) /\ g[n + 1] = f[n] \o tt[n + 1]
  BY <1>1, <1>2, <1>4, AccumulatesMore, ZenonT(60)
<1>6. Accumulates(g, tt)
  BY <1>2, <1>5 DEF Accumulates
<1>7. FlattenSeq(tt) = g[n + 1]
  BY <1>2, <1>6, FlattenIs
<1>8. FlattenSeq(ss) = f[n]
  BY <1>3, FlattenIs DEF n
<1> QED
  BY <1>2, <1>5, <1>7, <1>8 DEF tt

LEMMA FlattenConcat ==
  ASSUME NEW T, NEW ss \in Seq(Seq(T)), NEW tt \in Seq(Seq(T))
  PROVE  FlattenSeq(ss \o tt) = FlattenSeq(ss) \o FlattenSeq(tt)
<1> DEFINE G == {uu \in Seq(Seq(T)) : FlattenSeq(ss \o uu) = FlattenSeq(ss) \o FlattenSeq(uu)}
<1>1. <<>> \in G
  <2>1. <<>> \in Seq(Seq(T)) /\ ss \o <<>> = ss
    BY ConcatEmptySeq, EmptySeq
  <2>2. FlattenSeq(ss) \o <<>> = FlattenSeq(ss)
    BY FlattenType, ConcatEmptySeq
  <2> QED
    BY <2>1, <2>2, FlattenEmpty
<1>2. \A uu \in Seq(Seq(T)), s \in Seq(T) : uu \in G => Append(uu, s) \in G
  <2> SUFFICES ASSUME NEW uu \in Seq(Seq(T)), NEW s \in Seq(T),
                      FlattenSeq(ss \o uu) = FlattenSeq(ss) \o FlattenSeq(uu)
               PROVE  /\ Append(uu, s) \in Seq(Seq(T))
                      /\ FlattenSeq(ss \o Append(uu, s)) =
                           FlattenSeq(ss) \o FlattenSeq(Append(uu, s))
    OBVIOUS
  <2>1. Append(uu, s) \in Seq(Seq(T)) /\ ss \o uu \in Seq(Seq(T)) /\ <<s>> \in Seq(Seq(T))
    BY AppendProperties, ConcatProperties
  <2>2. ss \o Append(uu, s) = Append(ss \o uu, s)
    <3>1. Append(uu, s) = uu \o <<s>> /\ Append(ss \o uu, s) = (ss \o uu) \o <<s>>
      BY <2>1, AppendIsConcat
    <3> QED
      BY <2>1, <3>1, ConcatAssociative, SMTT(60)
  <2>3. FlattenSeq(ss \o Append(uu, s)) = FlattenSeq(ss \o uu) \o s
    BY <2>1, <2>2, FlattenAppend
  <2>4. FlattenSeq(Append(uu, s)) = FlattenSeq(uu) \o s
    BY FlattenAppend
  <2>5. FlattenSeq(ss) \in Seq(T) /\ FlattenSeq(uu) \in Seq(T)
    BY FlattenType
  <2>6. (FlattenSeq(ss) \o FlattenSeq(uu)) \o s = FlattenSeq(ss) \o (FlattenSeq(uu) \o s)
    <3>1. \A a, b, c \in Seq(T) : (a \o b) \o c = a \o (b \o c)
      BY ConcatAssociative, SMTT(60)
    <3> QED
      BY <2>5, <3>1
  <2> QED
    BY <2>1, <2>3, <2>4, <2>6
<1> HIDE DEF G
<1>3. tt \in G
  BY <1>1, <1>2, SeqInduction
<1> QED
  BY <1>3 DEF G

LEMMA FlattenOne ==
  ASSUME NEW T, NEW s \in Seq(T)
  PROVE  FlattenSeq(<<s>>) = s
<1>1. <<>> \in Seq(Seq(T)) /\ Append(<<>>, s) = <<s>>
  OBVIOUS
<1>2. FlattenSeq(Append(<<>>, s)) = FlattenSeq(<<>>) \o s
  BY <1>1, FlattenAppend
<1> QED
  BY <1>1, <1>2, FlattenEmpty, ConcatEmptySeq
====
