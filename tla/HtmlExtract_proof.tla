------------------------- MODULE HtmlExtract_proof -------------------------
(***************************************************************************)
(* What is proved of the passes over the HTML, for outputs of any length   *)
(* and any shape, wherever what was read of them begins and ends.          *)
(***************************************************************************)
EXTENDS HtmlExtract, SequenceLemmas, SequenceTheorems, FiniteSetTheorems,
        WellFoundedInduction, TLAPS

(***************************************************************************)
(* find() and rfind().                                                     *)
(***************************************************************************)

\* n is the first position from `from' on with one of the tags, 0 if there is none.
IsFirst(n, s, tags, from) ==
  \/ n = 0 /\ \A i \in from .. Len(s) : s[i].tag \notin tags
  \/ /\ n \in from .. Len(s) /\ s[n].tag \in tags
     /\ \A i \in from .. n - 1 : s[i].tag \notin tags

IsLast(n, s, tags) ==
  \/ n = 0 /\ \A i \in 1 .. Len(s) : s[i].tag \notin tags
  \/ /\ n \in 1 .. Len(s) /\ s[n].tag \in tags
     /\ \A i \in n + 1 .. Len(s) : s[i].tag \notin tags

LEMMA MinIsLeast ==
  ASSUME NEW S, S \subseteq Nat, S # {}
  PROVE  Min(S) \in S /\ \A y \in S : Min(S) <= y
<1>1. PICK x \in S : \A y \in S : ~(<<y, x>> \in OpToRel(<, Nat))
  BY NatLessThanWellFounded, WFMin
<1>2. \A y \in S : x <= y
  <2> TAKE y \in S
  <2>1. x \in Nat /\ y \in Nat
    OBVIOUS
  <2>2. ~(y < x)
    BY <1>1, <2>1 DEF OpToRel
  <2> QED
    BY <2>1, <2>2
<1> QED
  BY <1>2 DEF Min

LEMMA MaxIsGreatest ==
  ASSUME NEW n \in Nat, NEW S, S \subseteq 0 .. n, S # {}
  PROVE  Max(S) \in S /\ \A y \in S : y <= Max(S)
<1> DEFINE R == {y \in 0 .. n : n - y \in S}
           m == Min(R)
<1>1. R \subseteq Nat /\ R # {}
  <2>1. PICK x \in S : TRUE
    OBVIOUS
  <2>2. n - x \in R /\ R \subseteq Nat
    OBVIOUS
  <2> HIDE DEF R
  <2> QED
    BY <2>2
<1>2. m \in R /\ \A y \in R : m <= y
  <2> HIDE DEF R
  <2> QED
    BY <1>1, MinIsLeast
<1>3. m \in 0 .. n /\ n - m \in S
  BY <1>2
<1>4. \A y \in S : y <= n - m
  <2> TAKE y \in S
  <2>1. n - y \in R /\ y \in 0 .. n
    OBVIOUS
  <2>2. m <= n - y
    BY <1>2, <2>1
  <2> HIDE DEF m, R
  <2> QED
    BY <1>3, <2>1, <2>2
<1> DEFINE x == n - m
<1>5. x \in S /\ \A y \in S : y <= x
  BY <1>3, <1>4
<1> HIDE DEF x
<1>6. \A y \in S : x >= y
  <2> TAKE y \in S
  <2>1. x \in Nat /\ y \in Nat /\ y <= x
    BY <1>5
  <2> QED
    BY <2>1
<1>7. Max(S) \in S /\ \A y \in S : Max(S) >= y
  BY <1>5, <1>6 DEF Max
<1> DEFINE z == Max(S)
<1>8. z \in S /\ \A y \in S : z >= y
  BY <1>7
<1> HIDE DEF z
<1>9. \A y \in S : y <= z
  BY <1>8
<1> QED
  BY <1>8, <1>9 DEF z

LEMMA FirstIs ==
  ASSUME NEW s \in Seq(Tokens), NEW tags, NEW from \in Nat \ {0}
  PROVE  IsFirst(First(s, tags, from), s, tags, from)
<1> DEFINE I == {i \in from .. Len(s) : s[i].tag \in tags}
           n == IF I # {} THEN Min(I) ELSE 0
<1>1. First(s, tags, from) = n
  BY DEF First, SelectInSubSeq
<1>2. CASE I = {}
  BY <1>1, <1>2 DEF IsFirst
<1>3. CASE I # {}
  <2>1. I \subseteq Nat
    OBVIOUS
  <2> HIDE DEF I
  <2>2. Min(I) \in I /\ \A y \in I : Min(I) <= y
    BY <1>3, <2>1, MinIsLeast
  <2>3. n \in I /\ \A y \in I : n <= y
    BY <1>3, <2>2
  <2> HIDE DEF n
  <2>4. n \in from .. Len(s) /\ s[n].tag \in tags
    BY <2>3 DEF I
  <2>5. \A i \in from .. n - 1 : s[i].tag \notin tags
    <3> SUFFICES ASSUME NEW i \in from .. n - 1, s[i].tag \in tags PROVE FALSE
      OBVIOUS
    <3>1. i \in I
      BY <2>4 DEF I
    <3> QED
      BY <2>3, <2>4, <3>1
  <2> QED
    BY <1>1, <2>4, <2>5 DEF IsFirst
<1> QED
  BY <1>2, <1>3

LEMMA LastIs ==
  ASSUME NEW tags, html_output \in Seq(Tokens)
  PROVE  IsLast(LastOf(tags), html_output, tags)
<1> DEFINE I == {i \in 1 .. Len(html_output) : html_output[i].tag \in tags}
           n == IF I # {} THEN Max(I) ELSE 0
<1>1. LastOf(tags) = n /\ Len(html_output) \in Nat
  BY DEF LastOf, SelectLastInSeq
<1>2. CASE I = {}
  BY <1>1, <1>2 DEF IsLast
<1>3. CASE I # {}
  <2>1. I \subseteq 0 .. Len(html_output)
    OBVIOUS
  <2> HIDE DEF I
  <2>2. Max(I) \in I /\ \A y \in I : y <= Max(I)
    BY <1>1, <1>3, <2>1, MaxIsGreatest
  <2>3. n \in I /\ \A y \in I : y <= n
    BY <1>3, <2>2
  <2> HIDE DEF n
  <2>4. n \in 1 .. Len(html_output) /\ html_output[n].tag \in tags
    BY <2>3 DEF I
  <2>5. \A i \in n + 1 .. Len(html_output) : html_output[i].tag \notin tags
    <3> SUFFICES ASSUME NEW i \in n + 1 .. Len(html_output), html_output[i].tag \in tags
                 PROVE  FALSE
      OBVIOUS
    <3>1. i \in I
      BY <2>4 DEF I
    <3> QED
      BY <2>3, <2>4, <3>1
  <2> QED
    BY <1>1, <2>4, <2>5 DEF IsLast
<1> QED
  BY <1>2, <1>3

-----------------------------------------------------------------------------
(***************************************************************************)
(* What an edit of the string leaves where it was, and what it moves: t    *)
(* has the first p tokens of s, then others up to position q, and what     *)
(* stood d positions further on in s behind them.                          *)
(***************************************************************************)
Spliced(t, s, p, q, d) ==
  /\ Len(s) \in Nat /\ Len(t) \in Nat /\ d \in Int /\ q + d \in Nat
  /\ p \in 0 .. Len(s) /\ q \in p .. Len(t) /\ Len(t) + d = Len(s)
  /\ \A i \in 1 .. p : t[i] = s[i]
  /\ \A i \in q + 1 .. Len(t) : t[i] = s[i + d]

LEMMA JoinIs ==
  ASSUME NEW T, NEW a \in Seq(T), NEW b \in Seq(T), NEW c \in Seq(T)
  PROVE  LET t == (a \o b) \o c
             p == Len(a)
             q == Len(a) + Len(b)
         IN  /\ t \in Seq(T) /\ Len(t) = q + Len(c)
             /\ \A i \in 1 .. p : t[i] = a[i]
             /\ \A i \in 1 .. Len(b) : t[p + i] = b[i]
             /\ \A i \in 1 .. Len(c) : t[q + i] = c[i]
<1> DEFINE ab == a \o b
           t == ab \o c
           p == Len(a)
           m == Len(b)
           n == Len(c)
           q == p + m
<1>1. /\ ab \in Seq(T) /\ Len(ab) = q
      /\ \A i \in 1 .. q : ab[i] = IF i <= p THEN a[i] ELSE b[i - p]
  BY ConcatProperties
<1>2. p \in Nat /\ m \in Nat /\ n \in Nat /\ q \in Nat
  OBVIOUS
<1> HIDE DEF ab
<1>7. ab \in Seq(T) /\ c \in Seq(T)
  BY <1>1
<1>8. /\ ab \o c \in Seq(T) /\ Len(ab \o c) = Len(ab) + Len(c)
      /\ \A i \in 1 .. Len(ab) + Len(c) :
           (ab \o c)[i] = IF i <= Len(ab) THEN ab[i] ELSE c[i - Len(ab)]
  BY ONLY <1>7, ConcatProperties
<1>3. /\ t \in Seq(T) /\ Len(t) = Len(ab) + n
      /\ \A i \in 1 .. Len(ab) + n : t[i] = IF i <= Len(ab) THEN ab[i] ELSE c[i - Len(ab)]
  BY <1>8
<1> HIDE DEF p, m, n, t
<1>4. \A i \in 1 .. p : t[i] = a[i]
  BY <1>1, <1>2, <1>3
<1>5. \A i \in 1 .. m : t[p + i] = b[i]
  <2> TAKE i \in 1 .. m
  <2> DEFINE j == p + i
  <2>1. j \in 1 .. q /\ j \in 1 .. q + n /\ ~(j <= p) /\ j - p = i /\ j <= q
    BY <1>2
  <2> HIDE DEF j
  <2>2. t[j] = ab[j] /\ ab[j] = b[j - p]
    BY <1>1, <1>3, <2>1
  <2> QED
    BY <2>1, <2>2 DEF j
<1>6. \A i \in 1 .. n : t[q + i] = c[i]
  <2> TAKE i \in 1 .. n
  <2> DEFINE j == q + i
  <2>1. j \in 1 .. q + n /\ ~(j <= q) /\ j - q = i
    BY <1>2
  <2> HIDE DEF j
  <2>2. t[j] = c[j - q]
    BY <1>1, <1>3, <2>1
  <2> QED
    BY <2>1, <2>2 DEF j
<1> QED
  BY <1>1, <1>3, <1>4, <1>5, <1>6 DEF t, ab, p, m, n

LEMMA PartIs ==
  ASSUME NEW T, NEW s \in Seq(T), NEW m \in 1 .. Len(s) + 1, NEW n \in 0 .. Len(s)
  PROVE  LET t == SubSeq(s, m, n)
         IN  /\ t \in Seq(T) /\ Len(t) = (IF m <= n THEN n - m + 1 ELSE 0)
             /\ \A i \in 1 .. Len(t) : t[i] = s[m + i - 1]
<1>1. \A i \in m .. n : s[i] \in T
  OBVIOUS
<1>2. m \in Int /\ n \in Int
  OBVIOUS
<1>3. /\ SubSeq(s, m, n) \in Seq(T)
      /\ Len(SubSeq(s, m, n)) = IF m <= n THEN n - m + 1 ELSE 0
      /\ \A i \in 1 .. n - m + 1 : SubSeq(s, m, n)[i] = s[m + i - 1]
  BY ONLY <1>1, <1>2, SubSeqProperties
<1> DEFINE t == SubSeq(s, m, n)
<1>4. /\ t \in Seq(T) /\ Len(t) = (IF m <= n THEN n - m + 1 ELSE 0)
      /\ \A i \in 1 .. n - m + 1 : t[i] = s[m + i - 1]
  BY <1>3
<1> HIDE DEF t
<1>5. \A i \in 1 .. Len(t) : t[i] = s[m + i - 1]
  BY <1>2, <1>4
<1> QED
  BY <1>4, <1>5 DEF t

LEMMA PartAt ==
  ASSUME NEW T, NEW s \in Seq(T), NEW n \in 1 .. Len(s), NEW e \in n .. Len(s)
  PROVE  LET t == SubSeq(s, n, e)
         IN  /\ t \in Seq(T) /\ Len(t) = e - n + 1
             /\ \A i \in 1 .. Len(t) : t[i] = s[n + i - 1]
<1> DEFINE t == SubSeq(s, n, e)
<1>1. n \in 1 .. Len(s) + 1 /\ e \in 0 .. Len(s) /\ n <= e
  OBVIOUS
<1>2. t \in Seq(T) /\ Len(t) = (IF n <= e THEN e - n + 1 ELSE 0)
      /\ \A i \in 1 .. Len(t) : t[i] = s[n + i - 1]
  BY <1>1, PartIs
<1> HIDE DEF t
<1>3. Len(t) = e - n + 1
  BY <1>1, <1>2
<1> QED
  BY <1>2, <1>3 DEF t

Edited(t, s, from, to, by) ==
  LET p == from - 1
      q == p + Len(by)
  IN  /\ Spliced(t, s, p, q, to - q)
      /\ \A i \in 1 .. Len(by) : t[p + i] = by[i]

LEMMA ReplaceIs ==
  ASSUME NEW T, NEW s \in Seq(T), NEW by \in Seq(T),
         NEW from \in 1 .. Len(s) + 1, NEW to \in 0 .. Len(s)
  PROVE  /\ Replace(s, from, to, by) \in Seq(T)
         /\ Edited(Replace(s, from, to, by), s, from, to, by)
<1> DEFINE k == Len(s)
           p == from - 1
           q == p + Len(by)
           a == SubSeq(s, 1, p)
           c == SubSeq(s, to + 1, k)
           t == (a \o by) \o c
<1>1. /\ k \in Nat /\ Len(by) \in Nat /\ p \in 0 .. k /\ to \in 0 .. k
      /\ 1 \in 1 .. k + 1 /\ to + 1 \in 1 .. k + 1 /\ k \in 0 .. k
  OBVIOUS
<1>2. a \in Seq(T) /\ Len(a) = p /\ \A i \in 1 .. p : a[i] = s[i]
  <2>1. a \in Seq(T) /\ Len(a) = (IF 1 <= p THEN p - 1 + 1 ELSE 0)
        /\ \A i \in 1 .. Len(a) : a[i] = s[1 + i - 1]
    BY <1>1, PartIs
  <2> HIDE DEF a, k
  <2>2. Len(a) = p
    BY <1>1, <2>1
  <2>3. \A i \in 1 .. p : a[i] = s[i]
    <3> TAKE i \in 1 .. p
    <3>1. 1 + i - 1 = i
      OBVIOUS
    <3> QED
      BY <2>1, <2>2, <3>1
  <2> QED
    BY <2>1, <2>2, <2>3
<1>3. c \in Seq(T) /\ Len(c) = k - to /\ \A i \in 1 .. k - to : c[i] = s[to + i]
  <2> DEFINE m == to + 1
  <2>1. m \in 1 .. Len(s) + 1 /\ k \in 0 .. Len(s)
    BY <1>1
  <2> HIDE DEF m, k
  <2> DEFINE u == SubSeq(s, m, k)
  <2>2. u \in Seq(T) /\ Len(u) = (IF m <= k THEN k - m + 1 ELSE 0)
        /\ \A i \in 1 .. Len(u) : u[i] = s[m + i - 1]
    BY <2>1, PartIs
  <2> HIDE DEF u
  <2>3. Len(u) = k - to
    BY <1>1, <2>2 DEF m
  <2>4. \A i \in 1 .. k - to : u[i] = s[to + i]
    <3> TAKE i \in 1 .. k - to
    <3>1. m + i - 1 = to + i
      BY <1>1 DEF m
    <3> QED
      BY <2>2, <2>3, <3>1
  <2> QED
    BY <2>2, <2>3, <2>4 DEF u, m
<1>4. Replace(s, from, to, by) = t
  BY DEF Replace
<1> HIDE DEF a, c, k
<1>5. /\ t \in Seq(T) /\ Len(t) = Len(a) + Len(by) + Len(c)
      /\ \A i \in 1 .. Len(a) : t[i] = a[i]
      /\ \A i \in 1 .. Len(by) : t[Len(a) + i] = by[i]
      /\ \A i \in 1 .. Len(c) : t[Len(a) + Len(by) + i] = c[i]
  <2>1. a \in Seq(T) /\ by \in Seq(T) /\ c \in Seq(T)
    BY <1>2, <1>3
  <2> QED
    BY ONLY <2>1, JoinIs, SMTT(40)
<1> HIDE DEF t, p
<1>6. /\ t \in Seq(T) /\ Len(t) = q + (k - to)
      /\ \A i \in 1 .. p : t[i] = s[i]
      /\ \A i \in 1 .. Len(by) : t[p + i] = by[i]
  BY <1>2, <1>3, <1>5
<1>7. \A i \in q + 1 .. Len(t) : t[i] = s[i + (to - q)]
  <2> TAKE i \in q + 1 .. Len(t)
  <2> DEFINE j == i - q
  <2>0. q \in Nat
    BY <1>1
  <2> HIDE DEF q
  <2>1. j \in 1 .. k - to /\ q + j = i /\ to + j = i + (to - q)
    BY <2>0, <1>1, <1>6
  <2> HIDE DEF j
  <2>2. t[q + j] = c[j] /\ c[j] = s[to + j]
    BY <1>2, <1>3, <1>5, <2>1 DEF q
  <2> QED
    BY <2>1, <2>2
<1>8. Spliced(t, s, p, q, to - q)
  <2>1. q \in Nat /\ p \in 0 .. k /\ to \in 0 .. k /\ q \in p .. q + (k - to)
    BY <1>1
  <2> HIDE DEF q
  <2>2. /\ Len(t) \in Nat /\ to - q \in Int /\ q + (to - q) = to /\ Len(t) + (to - q) = k
        /\ q \in p .. Len(t)
    BY <1>1, <1>6, <2>1
  <2> QED
    BY <1>1, <1>6, <1>7, <2>1, <2>2 DEF Spliced, k
<1>9. Edited(t, s, from, to, by)
  BY <1>6, <1>8 DEF Edited, p
<1> QED
  BY <1>4, <1>6, <1>9

-----------------------------------------------------------------------------
(***************************************************************************)
(* Elements: what follows an opening tag.  Of an element of which the end  *)
(* was not read, this is all that can be said: the first thing behind its  *)
(* opening tag that does not belong into it is its closing tag.            *)
(***************************************************************************)
Only(s, open, close, inside) ==
  \A i, j \in 1 .. Len(s) :
    i < j /\ s[i].tag = open /\ s[j].tag \notin inside =>
      \E k \in i + 1 .. j : s[k].tag = close

\* What is opened up to position p is closed up to there.
ClosedUpTo(s, p, open, close) ==
  \A i \in 1 .. p : s[i].tag = open => \E k \in i + 1 .. p : s[k].tag = close

LEMMA HoldsOnly ==
  ASSUME NEW s \in Seq(Tokens), NEW open, NEW close, NEW inside,
         Holds(s, open, close, inside)
  PROVE  Only(s, open, close, inside) /\ ClosedUpTo(s, Len(s), open, close)
<1>1. Len(s) \in Nat /\ DOMAIN s = 1 .. Len(s)
  OBVIOUS
<1>2. ClosedUpTo(s, Len(s), open, close)
  BY <1>1 DEF Holds, ClosedUpTo
<1>3. ASSUME NEW i \in 1 .. Len(s), NEW j \in 1 .. Len(s),
             i < j, s[i].tag = open, s[j].tag \notin inside
      PROVE  \E k \in i + 1 .. j : s[k].tag = close
  <2>1. PICK k \in i + 1 .. Len(s) :
          s[k].tag = close /\ \A l \in i + 1 .. k - 1 : s[l].tag \in inside
    BY <1>1, <1>3 DEF Holds
  <2>2. ~(j \in i + 1 .. k - 1)
    BY <1>3, <2>1
  <2>3. k \in i + 1 .. j
    BY <1>3, <2>1, <2>2
  <2> QED
    BY <2>1, <2>3
<1> QED
  BY <1>2, <1>3 DEF Only

LEMMA OnlySpliced ==
  ASSUME NEW s, NEW t, NEW p, NEW q, NEW d, Spliced(t, s, p, q, d),
         NEW open, NEW close, NEW inside,
         Only(s, open, close, inside), ClosedUpTo(s, p, open, close),
         \A i \in p + 1 .. q : t[i].tag # open
  PROVE  Only(t, open, close, inside)
<1> SUFFICES ASSUME NEW i \in 1 .. Len(t), NEW j \in 1 .. Len(t), i < j,
                    t[i].tag = open, t[j].tag \notin inside
             PROVE  \E k \in i + 1 .. j : t[k].tag = close
  BY DEF Only
<1>1. /\ Len(s) \in Nat /\ Len(t) \in Nat /\ d \in Int /\ q + d \in Nat
      /\ p \in 0 .. Len(s) /\ q \in p .. Len(t) /\ Len(t) + d = Len(s)
  BY DEF Spliced
<1>2. \A n \in 1 .. p : t[n] = s[n]
  BY DEF Spliced
<1>3. \A n \in q + 1 .. Len(t) : t[n] = s[n + d]
  BY DEF Spliced
<1>4. CASE i \in 1 .. p
  <2>1. s[i].tag = open
    BY <1>2, <1>4
  <2>2. PICK k \in i + 1 .. p : s[k].tag = close
    BY <1>4, <2>1 DEF ClosedUpTo
  <2>3. k \in 1 .. p
    BY <1>4
  <2>4. t[k].tag = close
    BY <1>2, <2>2, <2>3
  <2>5. CASE j >= k
    <3>1. k \in i + 1 .. j
      BY <1>1, <1>4, <2>5
    <3> QED
      BY <2>4, <3>1
  <2>6. CASE j < k
    <3>1. j \in 1 .. p /\ j \in 1 .. Len(s) /\ i \in 1 .. Len(s)
      BY <1>1, <1>4, <2>6
    <3>2. t[j] = s[j]
      BY <1>2, <3>1
    <3>3. PICK l \in i + 1 .. j : s[l].tag = close
      BY <2>1, <3>1, <3>2 DEF Only
    <3>4. l \in 1 .. p
      BY <1>1, <1>4, <3>1
    <3>5. t[l].tag = close
      BY <1>2, <3>3, <3>4
    <3> QED
      BY <3>5
  <2>7. j \in Int /\ k \in Int
    BY <1>1, <1>4
  <2> QED
    BY <2>5, <2>6, <2>7
<1>5. CASE i \in p + 1 .. q
  BY <1>5
<1>6. CASE i \in q + 1 .. Len(t)
  <2> DEFINE a == i + d
             b == j + d
  <2>1. a \in 1 .. Len(s) /\ b \in 1 .. Len(s) /\ a < b /\ j \in q + 1 .. Len(t)
    BY <1>1, <1>6
  <2>2. t[i] = s[a] /\ t[j] = s[b]
    BY <1>3, <1>6, <2>1
  <2> HIDE DEF a, b
  <2>3. PICK l \in a + 1 .. b : s[l].tag = close
    BY <2>1, <2>2 DEF Only
  <2> DEFINE k == l - d
  <2>4. k \in i + 1 .. j /\ k \in q + 1 .. Len(t) /\ k + d = l
    BY <1>1, <1>6, <2>1 DEF a, b
  <2> HIDE DEF k
  <2>5. t[k] = s[k + d]
    BY <1>3, <2>4
  <2> QED
    BY <2>3, <2>4, <2>5
<1> QED
  BY <1>1, <1>4, <1>5, <1>6

\* Behind a tag that does not belong into the element, nothing of it is open.
LEMMA ClosedBefore ==
  ASSUME NEW s, Len(s) \in Nat, NEW open, NEW close, NEW inside,
         Only(s, open, close, inside),
         NEW p \in 1 .. Len(s), s[p].tag \notin inside, s[p].tag # close
  PROVE  ClosedUpTo(s, p - 1, open, close)
<1> SUFFICES ASSUME NEW i \in 1 .. p - 1, s[i].tag = open
             PROVE  \E k \in i + 1 .. p - 1 : s[k].tag = close
  BY DEF ClosedUpTo
<1>1. PICK k \in i + 1 .. p : s[k].tag = close
  BY DEF Only
<1>2. k # p /\ k \in i + 1 .. p - 1
  BY <1>1
<1> QED
  BY <1>1, <1>2

LEMMA ClosedThrough ==
  ASSUME NEW s, Len(s) \in Nat, NEW open, NEW close, NEW inside,
         Only(s, open, close, inside),
         NEW p \in 1 .. Len(s), s[p].tag \notin inside, s[p].tag # open
  PROVE  ClosedUpTo(s, p, open, close)
<1> SUFFICES ASSUME NEW i \in 1 .. p, s[i].tag = open
             PROVE  \E k \in i + 1 .. p : s[k].tag = close
  BY DEF ClosedUpTo
<1>1. i < p
  OBVIOUS
<1> QED
  BY <1>1 DEF Only

\* A part of the text.
LEMMA OnlyPart ==
  ASSUME NEW s \in Seq(Tokens), NEW open, NEW close, NEW inside,
         Only(s, open, close, inside), NEW m \in 1 .. Len(s) + 1, NEW n \in 0 .. Len(s)
  PROVE  Only(SubSeq(s, m, n), open, close, inside)
<1> DEFINE t == SubSeq(s, m, n)
<1>1. t \in Seq(Tokens) /\ Len(t) = (IF m <= n THEN n - m + 1 ELSE 0)
      /\ \A i \in 1 .. Len(t) : t[i] = s[m + i - 1]
  BY PartIs
<1> HIDE DEF t
<1> SUFFICES ASSUME NEW i \in 1 .. Len(t), NEW j \in 1 .. Len(t), i < j,
                    t[i].tag = open, t[j].tag \notin inside
             PROVE  \E k \in i + 1 .. j : t[k].tag = close
  BY DEF Only, t
<1> DEFINE a == m + i - 1
           b == m + j - 1
<1>2. a \in 1 .. Len(s) /\ b \in 1 .. Len(s) /\ a < b /\ t[i] = s[a] /\ t[j] = s[b]
  BY <1>1
<1> HIDE DEF a, b
<1>3. PICK l \in a + 1 .. b : s[l].tag = close
  BY <1>2 DEF Only
<1> DEFINE k == l - m + 1
<1>4. k \in i + 1 .. j /\ k \in 1 .. Len(t) /\ m + k - 1 = l
  BY <1>2 DEF a, b
<1> HIDE DEF k
<1>5. t[k] = s[m + k - 1]
  BY <1>1, <1>4
<1> QED
  BY <1>3, <1>4, <1>5

\* What was left over, followed by another output.
LEMMA OnlyJoined ==
  ASSUME NEW a \in Seq(Tokens), NEW b \in Seq(Tokens), NEW open, NEW close, NEW inside,
         Only(a, open, close, inside), ClosedUpTo(a, Len(a), open, close),
         Only(b, open, close, inside)
  PROVE  Only(a \o b, open, close, inside)
<1> DEFINE t == a \o b
           p == Len(a)
<1>1. p \in Nat /\ Len(b) \in Nat /\ Len(t) = p + Len(b)
      /\ \A i \in 1 .. p + Len(b) : t[i] = IF i <= p THEN a[i] ELSE b[i - p]
  BY ConcatProperties
<1> HIDE DEF t, p
<1> SUFFICES ASSUME NEW i \in 1 .. Len(t), NEW j \in 1 .. Len(t), i < j,
                    t[i].tag = open, t[j].tag \notin inside
             PROVE  \E k \in i + 1 .. j : t[k].tag = close
  BY DEF Only, t
<1>2. \A n \in 1 .. p : t[n] = a[n]
  BY <1>1
<1>3. \A n \in 1 .. Len(b) : t[p + n] = b[n]
  <2> TAKE n \in 1 .. Len(b)
  <2> DEFINE m == p + n
  <2>1. m \in 1 .. p + Len(b) /\ ~(m <= p) /\ m - p = n
    BY <1>1
  <2> HIDE DEF m
  <2>2. t[m] = b[n]
    BY <1>1, <2>1
  <2> QED
    BY <2>2 DEF m
<1>4. CASE i \in 1 .. p
  <2>1. a[i].tag = open
    BY <1>2, <1>4
  <2>2. PICK k \in i + 1 .. p : a[k].tag = close
    BY <1>4, <2>1 DEF ClosedUpTo, p
  <2>3. k \in 1 .. p /\ t[k].tag = close
    BY <1>2, <1>4, <2>2
  <2>4. CASE j >= k
    <3>1. k \in i + 1 .. j
      BY <1>1, <2>4
    <3> QED
      BY <2>3, <3>1
  <2>5. CASE j < k
    <3>1. j \in 1 .. p /\ j \in 1 .. Len(a) /\ i \in 1 .. Len(a)
      BY <1>1, <1>4, <2>5 DEF p
    <3>2. t[j] = a[j]
      BY <1>2, <3>1
    <3>3. PICK l \in i + 1 .. j : a[l].tag = close
      BY <2>1, <3>1, <3>2 DEF Only
    <3>4. l \in 1 .. p
      BY <1>1, <1>4, <3>1
    <3>5. t[l].tag = close
      BY <1>2, <3>3, <3>4
    <3> QED
      BY <3>5
  <2>6. j \in Int /\ k \in Int
    BY <1>1, <1>4
  <2> QED
    BY <2>4, <2>5, <2>6
<1>5. CASE i \in p + 1 .. Len(t)
  <2> DEFINE x == i - p
             y == j - p
  <2>1. x \in 1 .. Len(b) /\ y \in 1 .. Len(b) /\ x < y /\ p + x = i /\ p + y = j
    BY <1>1, <1>5
  <2> HIDE DEF x, y
  <2>2. t[i] = b[x] /\ t[j] = b[y]
    BY <1>3, <2>1
  <2>3. PICK l \in x + 1 .. y : b[l].tag = close
    BY <2>1, <2>2 DEF Only
  <2> DEFINE k == p + l
  <2>4. k \in i + 1 .. j /\ l \in 1 .. Len(b)
    BY <1>1, <2>1, SMTT(40)
  <2>5. t[k] = b[l]
    BY <1>3, <2>4
  <2> HIDE DEF k
  <2> QED
    BY <2>3, <2>4, <2>5
<1> QED
  BY <1>1, <1>4, <1>5

\* Where only the attributes of a token change.
LEMMA OnlySame ==
  ASSUME NEW s, NEW t, Len(t) = Len(s), \A i \in 1 .. Len(s) : t[i].tag = s[i].tag,
         Len(s) \in Nat, NEW open, NEW close, NEW inside, Only(s, open, close, inside)
  PROVE  Only(t, open, close, inside)
<1> SUFFICES ASSUME NEW i \in 1 .. Len(s), NEW j \in 1 .. Len(s), i < j,
                    t[i].tag = open, t[j].tag \notin inside
             PROVE  \E k \in i + 1 .. j : t[k].tag = close
  BY DEF Only
<1>1. PICK k \in i + 1 .. j : s[k].tag = close
  BY DEF Only
<1>2. k \in 1 .. Len(s)
  OBVIOUS
<1> QED
  BY <1>1, <1>2

-----------------------------------------------------------------------------
(***************************************************************************)
(* The edits of the passes.                                                *)
(***************************************************************************)

\* Where a part that begins at `from' is replaced.
EditedAt(t, s, from, to, by) ==
  LET p == from - 1
      q == p + Len(by)
  IN  /\ Spliced(t, s, p, q, to - q)
      /\ \A i \in from .. q : i - from + 1 \in 1 .. Len(by) /\ t[i] = by[i - from + 1]

LEMMA EditIs ==
  ASSUME NEW s \in Seq(Tokens), NEW by \in Seq(Tokens), NEW from \in 1 .. Len(s) + 1,
         NEW to \in 0 .. Len(s)
  PROVE  /\ Replace(s, from, to, by) \in Seq(Tokens)
         /\ EditedAt(Replace(s, from, to, by), s, from, to, by)
<1> DEFINE t == Replace(s, from, to, by)
           p == from - 1
           q == p + Len(by)
<1>1. /\ t \in Seq(Tokens) /\ Spliced(t, s, p, q, to - q)
      /\ \A i \in 1 .. Len(by) : t[p + i] = by[i]
  <2>1. Edited(t, s, from, to, by) /\ t \in Seq(Tokens)
    BY ReplaceIs
  <2> QED
    BY <2>1 DEF Edited
<1>2. Len(t) \in Nat /\ q \in Nat /\ p \in Nat /\ Len(by) \in Nat /\ p + 1 = from
  BY <1>1
<1> HIDE DEF t, p
<1>3. ASSUME NEW i \in from .. q
      PROVE  i - from + 1 \in 1 .. Len(by) /\ t[i] = by[i - from + 1]
  <2> DEFINE n == i - p
  <2>1. n \in 1 .. Len(by) /\ p + n = i /\ i - from + 1 = n
    BY <1>2
  <2> HIDE DEF n
  <2>2. t[p + n] = by[n]
    BY <1>1, <2>1
  <2> QED
    BY <2>1, <2>2
<1>4. EditedAt(t, s, from, to, by)
  BY <1>1, <1>3 DEF EditedAt, p
<1> QED
  BY <1>1, <1>4 DEF t

LEMMA OnlyEdited ==
  ASSUME NEW s \in Seq(Tokens), NEW by \in Seq(Tokens), NEW from \in 1 .. Len(s),
         NEW to \in 0 .. Len(s), NEW open, NEW close, NEW inside,
         Only(s, open, close, inside), s[from].tag \notin inside, s[from].tag # close,
         \A i \in 1 .. Len(by) : by[i].tag # open
  PROVE  Only(Replace(s, from, to, by), open, close, inside)
<1> DEFINE t == Replace(s, from, to, by)
           p == from - 1
           q == p + Len(by)
           d == to - q
<1>1. /\ Spliced(t, s, p, q, d)
      /\ \A i \in from .. q : i - from + 1 \in 1 .. Len(by) /\ t[i] = by[i - from + 1]
  <2>1. from \in 1 .. Len(s) + 1
    OBVIOUS
  <2>2. EditedAt(t, s, from, to, by)
    BY <2>1, EditIs
  <2> HIDE DEF t
  <2> QED
    BY <2>2 DEF EditedAt
<1>2. ClosedUpTo(s, p, open, close)
  <2>1. Len(s) \in Nat
    OBVIOUS
  <2> QED
    BY <2>1, ClosedBefore
<1> HIDE DEF t
<1>3. \A i \in p + 1 .. q : t[i].tag # open
  <2>1. p + 1 = from
    OBVIOUS
  <2> HIDE DEF p, q
  <2> QED
    BY <1>1, <2>1
<1> HIDE DEF p, q, d
<1>4. Only(t, open, close, inside)
  BY <1>1, <1>2, <1>3, OnlySpliced
<1> QED
  BY <1>4 DEF t

\* Where something is inserted behind a tag.
LEMMA OnlyInserted ==
  ASSUME NEW s \in Seq(Tokens), NEW by \in Seq(Tokens), NEW body \in 1 .. Len(s),
         NEW open, NEW close, NEW inside,
         Only(s, open, close, inside), s[body].tag \notin inside, s[body].tag # open,
         \A i \in 1 .. Len(by) : by[i].tag # open
  PROVE  Only(Replace(s, body + 1, body, by), open, close, inside)
<1> DEFINE from == body + 1
           t == Replace(s, from, body, by)
           p == from - 1
           q == p + Len(by)
           d == body - q
<1>0. from \in 1 .. Len(s) + 1 /\ body \in 0 .. Len(s) /\ p + 1 = from /\ p = body
      /\ Len(s) \in Nat
  OBVIOUS
<1> HIDE DEF from
<1>1. /\ Spliced(t, s, p, q, d)
      /\ \A i \in from .. q : i - from + 1 \in 1 .. Len(by) /\ t[i] = by[i - from + 1]
  <2>1. EditedAt(t, s, from, body, by)
    BY <1>0, EditIs
  <2> HIDE DEF t
  <2> QED
    BY <2>1 DEF EditedAt
<1>2. ClosedUpTo(s, body, open, close)
  BY <1>0, ClosedThrough
<1> HIDE DEF t
<1> HIDE DEF p, q, d
<1>3. \A i \in p + 1 .. q : t[i].tag # open
  BY <1>0, <1>1
<1>4. Only(t, open, close, inside)
  BY <1>0, <1>1, <1>2, <1>3, OnlySpliced
<1> QED
  BY <1>4 DEF t, from

\* No b behind an a.
Never(s, a, b) ==
  \A i, j \in 1 .. Len(s) : i < j /\ s[i].tag = a => s[j].tag # b

LEMMA NeverSpliced ==
  ASSUME NEW s, NEW t, NEW p, NEW q, NEW d, Spliced(t, s, p, q, d), p <= q + d,
         NEW a, NEW b, Never(s, a, b), \A i \in p + 1 .. q : t[i].tag # a /\ t[i].tag # b
  PROVE  Never(t, a, b)
<1> DEFINE At(i) == IF i <= p THEN i ELSE i + d
<1>1. /\ Len(s) \in Nat /\ Len(t) \in Nat /\ d \in Int /\ q + d \in Nat
      /\ p \in 0 .. Len(s) /\ q \in p .. Len(t) /\ Len(t) + d = Len(s)
  BY DEF Spliced
<1>2. \A i \in 1 .. p : t[i] = s[i]
  BY DEF Spliced
<1>3. \A i \in q + 1 .. Len(t) : t[i] = s[i + d]
  BY DEF Spliced
<1>4. ASSUME NEW i \in 1 .. Len(t), ~(i \in p + 1 .. q)
      PROVE  At(i) \in 1 .. Len(s) /\ t[i] = s[At(i)]
  <2>1. CASE i \in 1 .. p
    BY <1>1, <1>2, <2>1
  <2>2. CASE i \in q + 1 .. Len(t)
    <3>1. t[i] = s[i + d]
      BY <1>3, <2>2
    <3>2. At(i) = i + d
      BY <1>1, <2>2
    <3>3. i + d \in 1 .. Len(s)
      BY <1>1, <2>2
    <3> QED
      BY <3>1, <3>2, <3>3
  <2> QED
    BY <1>1, <1>4, <2>1, <2>2
<1> SUFFICES ASSUME NEW i \in 1 .. Len(t), NEW j \in 1 .. Len(t), i < j,
                    t[i].tag = a, t[j].tag = b
             PROVE  FALSE
  BY DEF Never
<1>5. ~(i \in p + 1 .. q) /\ ~(j \in p + 1 .. q)
  OBVIOUS
<1> DEFINE x == At(i)
           y == At(j)
<1>6. x \in 1 .. Len(s) /\ y \in 1 .. Len(s) /\ t[i] = s[x] /\ t[j] = s[y]
  BY <1>4, <1>5
<1>7. x < y
  BY <1>1, <1>5
<1> HIDE DEF x, y
<1> QED
  BY <1>6, <1>7 DEF Never

\* The caption at i has something in it, if it has an end.
CaptionKept(s, i) ==
  \A k \in i + 1 .. Len(s) :
    s[k].tag = "</caption>" /\ (\A l \in i + 1 .. k - 1 : s[l].tag # "</caption>") =>
      \E j \in i .. k : s[j].id # 0

Captioned(s) == Only(s, "<caption", "</caption>", {"text"})

\* A caption before what is changed.
LEMMA KeptBefore ==
  ASSUME NEW s, NEW t, NEW p, NEW q, NEW d, Spliced(t, s, p, q, d), Captioned(s),
         p + 1 <= Len(s), s[p + 1].tag \notin {"text", "</caption>"},
         NEW i \in 1 .. p, s[i].tag = "<caption", CaptionKept(s, i)
  PROVE  CaptionKept(t, i)
<1>1. Len(s) \in Nat /\ p \in 0 .. Len(s) /\ Len(t) \in Nat /\ p <= Len(t)
  BY DEF Spliced
<1>2. \A n \in 1 .. p : t[n] = s[n]
  BY DEF Spliced
<1> DEFINE from == p + 1
<1>3. from \in 1 .. Len(s) /\ s[from].tag \notin {"text"} /\ s[from].tag # "</caption>"
      /\ from - 1 = p
  BY <1>1
<1> HIDE DEF from
<1>4. ClosedUpTo(s, from - 1, "<caption", "</caption>")
  BY <1>1, <1>3, ClosedBefore DEF Captioned
<1>5. PICK c \in i + 1 .. p : s[c].tag = "</caption>"
  BY <1>3, <1>4 DEF ClosedUpTo
<1> SUFFICES ASSUME NEW k \in i + 1 .. Len(t), t[k].tag = "</caption>",
                    \A l \in i + 1 .. k - 1 : t[l].tag # "</caption>"
             PROVE  \E j \in i .. k : t[j].id # 0
  BY DEF CaptionKept
<1>6. k <= c
  <2> SUFFICES ASSUME c < k PROVE FALSE
    BY <1>1
  <2>1. c \in i + 1 .. k - 1 /\ c \in 1 .. p
    BY <1>1
  <2> QED
    BY <1>2, <1>5, <2>1
<1>7. k \in i + 1 .. p /\ k \in i + 1 .. Len(s)
  BY <1>1, <1>6
<1>8. s[k].tag = "</caption>" /\ \A l \in i + 1 .. k - 1 : s[l].tag # "</caption>"
  <2>1. k \in 1 .. p /\ \A l \in i + 1 .. k - 1 : l \in 1 .. p
    BY <1>1, <1>7
  <2> QED
    BY <1>2, <2>1
<1>9. PICK j \in i .. k : s[j].id # 0
  BY <1>7, <1>8 DEF CaptionKept
<1>10. j \in 1 .. p
  BY <1>1, <1>7
<1> QED
  BY <1>2, <1>9, <1>10

\* A caption behind it.
LEMMA KeptBehind ==
  ASSUME NEW s, NEW t, NEW p, NEW q, NEW d, Spliced(t, s, p, q, d),
         NEW i \in q + 1 .. Len(t), CaptionKept(s, i + d)
  PROVE  CaptionKept(t, i)
<1>1. /\ Len(s) \in Nat /\ Len(t) \in Nat /\ d \in Int /\ q + d \in Nat
      /\ q \in Nat /\ Len(t) + d = Len(s)
  BY DEF Spliced
<1>2. \A n \in q + 1 .. Len(t) : t[n] = s[n + d]
  BY DEF Spliced
<1> SUFFICES ASSUME NEW k \in i + 1 .. Len(t), t[k].tag = "</caption>",
                    \A l \in i + 1 .. k - 1 : t[l].tag # "</caption>"
             PROVE  \E j \in i .. k : t[j].id # 0
  BY DEF CaptionKept
<1> DEFINE a == i + d
           c == k + d
<1>3. c \in a + 1 .. Len(s) /\ k \in q + 1 .. Len(t) /\ t[k] = s[c]
  <2>1. c \in a + 1 .. Len(s) /\ k \in q + 1 .. Len(t)
    BY <1>1, SMTT(30)
  <2> QED
    BY <1>2, <2>1
<1>4. \A l \in a + 1 .. c - 1 : s[l].tag # "</caption>"
  <2> TAKE l \in a + 1 .. c - 1
  <2> DEFINE n == l - d
  <2>1. n \in i + 1 .. k - 1 /\ n \in q + 1 .. Len(t) /\ n + d = l
    BY <1>1
  <2> HIDE DEF n
  <2>2. t[n] = s[l]
    BY <1>2, <2>1
  <2> QED
    BY <2>1, <2>2
<1> HIDE DEF c
<1>5. PICK m \in a .. c : s[m].id # 0
  BY <1>3, <1>4 DEF CaptionKept
<1> DEFINE j == m - d
<1>6. j \in i .. k /\ j \in q + 1 .. Len(t) /\ j + d = m
  BY <1>1, <1>3 DEF c
<1> HIDE DEF j
<1>7. t[j] = s[m]
  BY <1>2, <1>6
<1> QED
  BY <1>5, <1>6, <1>7

-----------------------------------------------------------------------------
(***************************************************************************)
(* What is kept of a text.                                                 *)
(***************************************************************************)
Pick(x, tags) == IF x.tag \in tags THEN <<x>> ELSE <<>>
Picks(s, tags) == [i \in 1 .. Len(s) |-> Pick(s[i], tags)]
OfTags(T, tags) == {x \in T : x.tag \in tags}

LEMMA OneToken == \A T : \A x \in T : <<x>> \in Seq(T) /\ <<>> \in Seq(T)
OBVIOUS

LEMMA PicksType ==
  ASSUME NEW T, NEW s \in Seq(T), NEW tags
  PROVE  Picks(s, tags) \in Seq(Seq(OfTags(T, tags))) /\ Len(Picks(s, tags)) = Len(s)
<1>1. Len(s) \in Nat /\ \A i \in 1 .. Len(s) : s[i] \in T
  OBVIOUS
<1>2. \A i \in 1 .. Len(s) : Pick(s[i], tags) \in Seq(OfTags(T, tags))
  <2> TAKE i \in 1 .. Len(s)
  <2> DEFINE x == s[i]
  <2>1. x \in T
    BY <1>1
  <2> HIDE DEF x
  <2>2. CASE x.tag \in tags
    <3>1. x \in OfTags(T, tags)
      BY <2>1, <2>2 DEF OfTags
    <3>2. <<x>> \in Seq(OfTags(T, tags))
      BY ONLY <3>1, OneToken
    <3> QED
      BY <2>2, <3>2 DEF Pick, x
  <2>3. CASE x.tag \notin tags
    BY <2>3 DEF Pick, x
  <2> QED
    BY <2>2, <2>3
<1> DEFINE U == Seq(OfTags(T, tags))
           n == Len(s)
           f == [i \in 1 .. n |-> Pick(s[i], tags)]
<1>3. n \in Nat /\ \A i \in 1 .. n : Pick(s[i], tags) \in U
  BY <1>1, <1>2
<1> HIDE DEF U, n
<1>4. f \in Seq(U) /\ Len(f) = n
  BY <1>3
<1> QED
  BY <1>4 DEF U, n, Picks

LEMMA KeepIs ==
  ASSUME NEW T, NEW s \in Seq(T), NEW tags
  PROVE  Keep(s, tags) = FlattenSeq(Picks(s, tags)) /\ Keep(s, tags) \in Seq(OfTags(T, tags))
<1>1. DOMAIN s = 1 .. Len(s)
  OBVIOUS
<1>2. Keep(s, tags) = FlattenSeq(Picks(s, tags))
  BY <1>1 DEF Keep, Picks, Pick
<1>3. Picks(s, tags) \in Seq(Seq(OfTags(T, tags)))
  BY PicksType
<1> DEFINE P == Picks(s, tags)
           U == OfTags(T, tags)
<1>4. P \in Seq(Seq(U))
  BY <1>3
<1> HIDE DEF P, U
<1>5. FlattenSeq(P) \in Seq(U)
  BY ONLY <1>4, FlattenType
<1> QED
  BY <1>2, <1>5 DEF P, U

LEMMA KeepType ==
  ASSUME NEW T, NEW s \in Seq(T), NEW tags
  PROVE  Keep(s, tags) \in Seq(T)
<1>1. OfTags(T, tags) \subseteq T /\ Keep(s, tags) \in Seq(OfTags(T, tags))
  BY KeepIs DEF OfTags
<1> QED
  BY ONLY <1>1, SeqMonotonic

LEMMA PicksConcat ==
  ASSUME NEW T, NEW a \in Seq(T), NEW b \in Seq(T), NEW tags
  PROVE  Picks(a \o b, tags) = Picks(a, tags) \o Picks(b, tags)
<1> DEFINE c == a \o b
           U == Seq(OfTags(T, tags))
           x == Picks(a, tags)
           y == Picks(b, tags)
           z == Picks(c, tags)
           m == Len(a)
           n == Len(b)
<1>1. /\ c \in Seq(T) /\ Len(c) = m + n /\ m \in Nat /\ n \in Nat
      /\ \A i \in 1 .. m + n : c[i] = IF i <= m THEN a[i] ELSE b[i - m]
  BY ConcatProperties
<1>2. a \in Seq(T) /\ b \in Seq(T)
  OBVIOUS
<1> HIDE DEF c
<1>3. /\ x \in Seq(U) /\ y \in Seq(U) /\ z \in Seq(U)
      /\ Len(x) = m /\ Len(y) = n /\ Len(z) = m + n
  BY <1>1, PicksType
<1>4. /\ \A i \in 1 .. m : x[i] = Pick(a[i], tags)
      /\ \A i \in 1 .. n : y[i] = Pick(b[i], tags)
      /\ \A i \in 1 .. m + n : z[i] = Pick(c[i], tags)
  BY <1>1 DEF Picks
<1> HIDE DEF x, y, z, U
<1> DEFINE w == x \o y
<1>5. /\ x \o y \in Seq(U) /\ Len(x \o y) = Len(x) + Len(y)
      /\ \A i \in 1 .. Len(x) + Len(y) :
           (x \o y)[i] = IF i <= Len(x) THEN x[i] ELSE y[i - Len(x)]
  <2>1. x \in Seq(U) /\ y \in Seq(U)
    BY <1>3
  <2> QED
    BY ONLY <2>1, ConcatProperties
<1>6. /\ w \in Seq(U) /\ Len(w) = m + n
      /\ \A i \in 1 .. m + n : w[i] = IF i <= m THEN x[i] ELSE y[i - m]
  BY <1>3, <1>5
<1> HIDE DEF w, m, n
<1>7. \A i \in 1 .. m + n : w[i] = z[i]
  <2> TAKE i \in 1 .. m + n
  <2>1. CASE i <= m
    <3>1. i \in 1 .. m
      BY <1>1, <2>1
    <3>2. w[i] = x[i] /\ c[i] = a[i]
      BY <1>1, <1>6, <2>1
    <3> QED
      BY <1>4, <3>1, <3>2
  <2>2. CASE ~(i <= m)
    <3> DEFINE j == i - m
    <3>1. j \in 1 .. n
      BY <1>1, <2>2
    <3>2. w[i] = y[j] /\ c[i] = b[j]
      BY <1>1, <1>6, <2>2
    <3> HIDE DEF j
    <3>3. y[j] = Pick(b[j], tags)
      BY <1>4, <3>1
    <3> QED
      BY <1>4, <3>2, <3>3
  <2> QED
    BY <2>1, <2>2
<1>8. Len(w) = Len(z) /\ \A i \in 1 .. Len(w) : w[i] = z[i]
  BY <1>3, <1>6, <1>7
<1>9. w = z
  BY ONLY <1>3, <1>6, <1>8, SeqEqual
<1> QED
  BY <1>9 DEF w, x, y, z, c

LEMMA KeepConcat ==
  ASSUME NEW T, NEW a \in Seq(T), NEW b \in Seq(T), NEW tags
  PROVE  Keep(a \o b, tags) = Keep(a, tags) \o Keep(b, tags)
<1> DEFINE U == OfTags(T, tags)
           x == Picks(a, tags)
           y == Picks(b, tags)
           c == a \o b
<1>1. c \in Seq(T)
  BY ConcatProperties
<1>2. x \in Seq(Seq(U)) /\ y \in Seq(Seq(U))
  BY PicksType
<1>3. Picks(c, tags) = x \o y
  BY PicksConcat
<1> HIDE DEF c, U
<1>4. Keep(c, tags) = FlattenSeq(Picks(c, tags)) /\ Keep(a, tags) = FlattenSeq(x)
      /\ Keep(b, tags) = FlattenSeq(y)
  BY <1>1, KeepIs
<1> HIDE DEF x, y
<1>5. FlattenSeq(x \o y) = FlattenSeq(x) \o FlattenSeq(y)
  BY ONLY <1>2, FlattenConcat
<1> QED
  BY <1>3, <1>4, <1>5 DEF c

LEMMA SeqOfNothing == \A s \in Seq({}) : s = <<>>
<1> TAKE s \in Seq({})
<1>1. Len(s) = 0
  <2> SUFFICES ASSUME Len(s) # 0 PROVE FALSE
    OBVIOUS
  <2>1. 1 \in 1 .. Len(s)
    OBVIOUS
  <2>2. s[1] \in {}
    BY <2>1
  <2> QED
    BY <2>2
<1> QED
  BY <1>1

LEMMA KeepNone ==
  ASSUME NEW T, NEW s \in Seq(T), NEW tags, \A i \in 1 .. Len(s) : s[i].tag \notin tags
  PROVE  Keep(s, tags) = <<>>
<1> DEFINE U == {x \in T : x.tag \notin tags}
<1>1. s \in Seq(U)
  <2>1. \A i \in DOMAIN s : s[i] \in U
    OBVIOUS
  <2> HIDE DEF U
  <2> QED
    BY <2>1, SeqWithin
<1>2. OfTags(U, tags) = {}
  BY DEF OfTags
<1> HIDE DEF U
<1>3. Keep(s, tags) \in Seq(OfTags(U, tags))
  BY ONLY <1>1, KeepIs
<1>4. Keep(s, tags) \in Seq({})
  BY <1>2, <1>3
<1> QED
  BY ONLY <1>4, SeqOfNothing

LEMMA KeepSame ==
  ASSUME NEW T, NEW s \in Seq(T), NEW R, NEW S,
         \A i \in 1 .. Len(s) : s[i].tag \in R <=> s[i].tag \in S
  PROVE  Keep(s, R) = Keep(s, S)
<1>1. \A i \in 1 .. Len(s) : Pick(s[i], R) = Pick(s[i], S)
  BY DEF Pick
<1>2. Picks(s, R) = Picks(s, S)
  BY <1>1 DEF Picks
<1> QED
  BY <1>2, KeepIs

LEMMA KeepOne ==
  ASSUME NEW T, NEW x \in T, NEW tags, x.tag \in tags
  PROVE  Keep(<<x>>, tags) = <<x>>
<1> DEFINE s == <<x>>
<1>1. s \in Seq(T) /\ Len(s) = 1 /\ s[1] = x /\ s \in Seq(Seq(T)) \cup Seq(T)
  OBVIOUS
<1>2. Picks(s, tags) = <<s>>
  <2>1. Pick(s[1], tags) = s
    BY <1>1 DEF Pick
  <2> HIDE DEF s
  <2> QED
    BY <1>1, <2>1 DEF Picks
<1> HIDE DEF s
<1>3. FlattenSeq(<<s>>) = s
  BY ONLY <1>1, FlattenOne
<1>4. Keep(s, tags) = FlattenSeq(Picks(s, tags))
  BY <1>1, KeepIs
<1>5. Keep(s, tags) = s
  BY <1>2, <1>3, <1>4
<1> QED
  BY <1>5 DEF s

LEMMA KeepAll ==
  ASSUME NEW T, NEW tags
  PROVE  \A s \in Seq(OfTags(T, tags)) : Keep(s, tags) = s
<1> DEFINE U == OfTags(T, tags)
           G == {s \in Seq(U) : Keep(s, tags) = s}
<1>0. \A x \in U : x.tag \in tags
  BY DEF OfTags
<1> HIDE DEF U
<1>1. <<>> \in G
  <2>1. <<>> \in Seq(U)
    OBVIOUS
  <2>2. \A i \in 1 .. Len(<<>>) : <<>>[i].tag \notin tags
    OBVIOUS
  <2>3. Keep(<<>>, tags) = <<>>
    BY <2>1, <2>2, KeepNone
  <2> QED
    BY <2>1, <2>3
<1>2. \A s \in Seq(U), e \in U :
        Append(s, e) \in Seq(U) /\ Keep(Append(s, e), tags) = Append(Keep(s, tags), e)
  <2> TAKE s \in Seq(U), e \in U
  <2> DEFINE o == <<e>>
             u == Keep(s, tags)
  <2>1. o \in Seq(U) /\ Append(s, e) = s \o o /\ Append(s, e) \in Seq(U)
    BY AppendIsConcat, AppendProperties
  <2>2. Keep(o, tags) = o
    BY <1>0, KeepOne
  <2>3. u \in Seq(U)
    BY KeepType
  <2> HIDE DEF u
  <2>4. Append(u, e) = u \o o
    BY <2>3, AppendIsConcat
  <2> HIDE DEF o
  <2>5. Keep(s \o o, tags) = Keep(s, tags) \o Keep(o, tags)
    BY <2>1, KeepConcat
  <2> QED
    BY <2>1, <2>2, <2>4, <2>5 DEF u
<1>4. \A s \in Seq(U), e \in U : s \in G => Append(s, e) \in G
  BY <1>2
<1> HIDE DEF G
<1>3. \A s \in Seq(U) : s \in G
  BY ONLY <1>1, <1>4, SeqInduction
<1> QED
  BY <1>3 DEF G, U

-----------------------------------------------------------------------------
(***************************************************************************)
(* What the passes find and put in.                                        *)
(***************************************************************************)
LEMMA FirstUnique ==
  ASSUME NEW s, Len(s) \in Nat, NEW tags, NEW from \in Nat \ {0}, NEW m, NEW n,
         IsFirst(m, s, tags, from), IsFirst(n, s, tags, from)
  PROVE  m = n
BY DEF IsFirst

LEMMA StructureIs ==
  ASSUME NEW tag \in Tags
  PROVE  /\ Structure(tag) \in Tokens /\ Structure(tag).tag = tag
         /\ Structure(tag).id = 0 /\ Structure(tag).attrs = {}
BY DEF Structure, Tokens

\* Tokens with one of the tags and without attributes.
PlainOf(tags) == {x \in Tokens : x.tag \in tags /\ x.attrs = {}}

LEMMA PlainOfTokens ==
  ASSUME NEW tags, NEW s \in Seq(PlainOf(tags))
  PROVE  /\ s \in Seq(Tokens) /\ Len(s) \in Nat
         /\ \A i \in 1 .. Len(s) : s[i] \in Tokens /\ s[i].tag \in tags /\ s[i].attrs = {}
<1> DEFINE U == PlainOf(tags)
<1>1. U \subseteq Tokens /\ \A x \in U : x \in Tokens /\ x.tag \in tags /\ x.attrs = {}
  BY DEF PlainOf
<1>2. s \in Seq(U)
  OBVIOUS
<1> HIDE DEF U
<1>3. s \in Seq(Tokens)
  BY <1>1, <1>2, SeqMonotonic
<1>4. Len(s) \in Nat /\ \A i \in 1 .. Len(s) : s[i] \in U
  BY <1>2
<1> QED
  BY <1>1, <1>3, <1>4

LEMMA StructureOf ==
  ASSUME NEW tags \in SUBSET Tags, NEW tag \in tags
  PROVE  Structure(tag) \in PlainOf(tags)
<1>1. tag \in Tags
  OBVIOUS
<1> QED
  BY <1>1, StructureIs DEF PlainOf

Groups == {"<colgroup>", "<col/>", "</colgroup>"}

LEMMA MergedIs ==
  ASSUME NEW s \in Seq(Tokens)
  PROVE  MergedColgroup(s) \in Seq(PlainOf(Groups))
<1> DEFINE U == PlainOf(Groups)
           C == {i \in DOMAIN s : s[i].tag = "<col/>" /\ InColgroup(s, i)}
           n == TotalCols(s)
           a == Structure("<colgroup>")
           b == Structure("<col/>")
           c == Structure("</colgroup>")
           f == [i \in 1 .. n |-> b]
<1>1. n \in Nat
  <2>1. C \subseteq 1 .. Len(s) /\ Len(s) \in Nat
    OBVIOUS
  <2>2. n = Cardinality(C)
    BY DEF TotalCols
  <2>3. IsFiniteSet(1 .. Len(s))
    BY <2>1, FS_Interval
  <2> HIDE DEF C, n
  <2>4. IsFiniteSet(C)
    BY <2>1, <2>3, FS_Subset
  <2> QED
    BY <2>2, <2>4, FS_CardinalityType
<1>2. a \in U /\ b \in U /\ c \in U
  <2>1. Groups \in SUBSET Tags
    BY DEF Groups, Tags
  <2>2. "<colgroup>" \in Groups /\ "<col/>" \in Groups /\ "</colgroup>" \in Groups
    BY DEF Groups
  <2> QED
    BY <2>1, <2>2, StructureOf
<1>3. MergedColgroup(s) = (<<a>> \o f) \o <<c>>
  BY DEF MergedColgroup
<1> HIDE DEF U, a, b, c, n
<1>4. f \in Seq(U)
  BY <1>1, <1>2
<1>5. <<a>> \in Seq(U) /\ <<c>> \in Seq(U)
  BY ONLY <1>2, OneToken
<1> DEFINE x == <<a>>
           z == <<c>>
<1>6. x \in Seq(U) /\ z \in Seq(U)
  BY <1>5
<1> HIDE DEF f, x, z
<1>7. (x \o f) \o z \in Seq(U)
  BY <1>4, <1>6, ConcatProperties
<1> QED
  BY <1>3, <1>7 DEF U, x, z

LEMMA ColgroupsFound ==
  ASSUME NEW s \in Seq(Tokens), Cardinality(Colgroups(s)) > 1
  PROVE  /\ LastColgroup(s) \in 1 .. Len(s) /\ s[LastColgroup(s)].tag = "<colgroup>"
         /\ IsFirst(ColgroupsEnd(s), s, {"</colgroup>"}, LastColgroup(s))
         /\ MergedUpTo(s) \in 1 .. Len(s)
         /\ First(s, {"<colgroup>"}, 1) \in 1 .. LastColgroup(s)
         /\ s[First(s, {"<colgroup>"}, 1)].tag = "<colgroup>"
         /\ \A i \in 1 .. First(s, {"<colgroup>"}, 1) - 1 : s[i].tag # "<colgroup>"
<1> DEFINE C == Colgroups(s)
           n == LastColgroup(s)
           m == ColgroupsEnd(s)
           f == First(s, {"<colgroup>"}, 1)
<1>1. Len(s) \in Nat /\ C \subseteq 1 .. Len(s) /\ \A i \in C : s[i].tag = "<colgroup>"
  BY DEF Colgroups
<1>2. C # {}
  <2> SUFFICES ASSUME C = {} PROVE FALSE
    OBVIOUS
  <2>1. Cardinality(C) = 0
    BY FS_EmptySet
  <2> QED
    BY <2>1
<1>3. n \in C
  <2>1. C \subseteq 0 .. Len(s)
    BY <1>1
  <2> HIDE DEF C
  <2>2. Max(C) \in C /\ \A j \in C : j <= Max(C)
    BY <1>1, <1>2, <2>1, MaxIsGreatest
  <2> QED
    BY <2>2 DEF LastColgroup, C
<1>4. n \in 1 .. Len(s) /\ s[n].tag = "<colgroup>"
  BY <1>1, <1>3
<1>5. m = First(s, {"</colgroup>"}, n)
  BY DEF ColgroupsEnd
<1>6. MergedUpTo(s) = IF m = 0 THEN 1 ELSE m
  BY DEF MergedUpTo
<1> HIDE DEF n, m, C
<1>7. IsFirst(m, s, {"</colgroup>"}, n)
  BY <1>4, <1>5, FirstIs
<1>8. IsFirst(f, s, {"<colgroup>"}, 1)
  BY FirstIs
<1> HIDE DEF f
<1>9. /\ f \in 1 .. n /\ s[f].tag = "<colgroup>"
      /\ \A i \in 1 .. f - 1 : s[i].tag # "<colgroup>"
  BY <1>4, <1>8 DEF IsFirst
<1>10. MergedUpTo(s) \in 1 .. Len(s)
  BY <1>1, <1>4, <1>6, <1>7 DEF IsFirst
<1> QED
  BY <1>4, <1>7, <1>9, <1>10 DEF n, m, f

StartTags == {"<html", "<table"} \cup Divs

LEMMA StartIs ==
  ASSUME NEW s \in Seq(Tokens), NEW i \in 1 .. Len(s), s[i].tag \in StartTags
  PROVE  /\ Start(s) \in 1 .. Len(s) /\ s[Start(s)].tag \in StartTags
         /\ First(s, {"<html"}, 1) # 0 => Start(s) = First(s, {"<html"}, 1)
         /\ First(s, {"<html"}, 1) = 0 /\ First(s, Divs, 1) # 0 => Start(s) = First(s, Divs, 1)
         /\ First(s, {"<html"}, 1) = 0 /\ First(s, Divs, 1) = 0 =>
              Start(s) = First(s, {"<table"}, 1)
<1> DEFINE html == First(s, {"<html"}, 1)
           div == First(s, Divs, 1)
           table == First(s, {"<table"}, 1)
           n == Start(s)
<1>1. /\ IsFirst(html, s, {"<html"}, 1) /\ IsFirst(div, s, Divs, 1)
      /\ IsFirst(table, s, {"<table"}, 1) /\ Len(s) \in Nat
  BY FirstIs
<1>2. n = CASE html # 0 -> html [] html = 0 /\ div # 0 -> div [] OTHER -> table
  BY DEF Start
<1> HIDE DEF html, div, table, n
<1>3. CASE html # 0
  BY <1>1, <1>2, <1>3 DEF IsFirst, StartTags, html, div, table, n
<1>4. CASE html = 0 /\ div # 0
  BY <1>1, <1>2, <1>4 DEF IsFirst, StartTags, html, div, table, n
<1>5. CASE html = 0 /\ div = 0
  <2>1. n = table
    BY <1>2, <1>5
  <2>2. table # 0
    BY <1>1, <1>5 DEF IsFirst, StartTags
  <2>3. n \in 1 .. Len(s) /\ s[n].tag \in StartTags
    BY <1>1, <2>1, <2>2 DEF IsFirst, StartTags
  <2> QED
    BY <1>5, <2>1, <2>3 DEF html, div, table, n
<1> QED
  BY <1>3, <1>4, <1>5

RebuiltTags == {"<table", "<tbody>", "row", "</tbody>", "</table>"}

\* The table that is put in: its tags, and between them n rows.
LEMMA RebuiltIs ==
  ASSUME NEW s \in Seq(Tokens)
  PROVE  LET t == Rebuilt(s)
             n == Len(Keep(s, {"row"}))
         IN  /\ t \in Seq(Tokens) /\ n \in Nat /\ Len(t) = n + 4
             /\ t[1] = Structure("<table") /\ t[2] = Structure("<tbody>")
             /\ \A i \in 1 .. n : t[2 + i] = Keep(s, {"row"})[i]
             /\ t[n + 3] = Structure("</tbody>") /\ t[n + 4] = Structure("</table>")
<1> DEFINE A == Structure("<table")
           B == Structure("<tbody>")
           C == Structure("</tbody>")
           D == Structure("</table>")
           r == Keep(s, {"row"})
           n == Len(r)
<1>1. A \in Tokens /\ B \in Tokens /\ C \in Tokens /\ D \in Tokens
  <2>1. {"<table", "<tbody>", "</tbody>", "</table>"} \subseteq Tags
    BY DEF Tags
  <2> QED
    BY <2>1, StructureIs
<1>2. r \in Seq(Tokens) /\ n \in Nat
  <2>1. r \in Seq(Tokens)
    BY KeepType
  <2> HIDE DEF r
  <2> QED
    BY <2>1
<1>3. Rebuilt(s) = (<<A, B>> \o r) \o <<C, D>>
  BY DEF Rebuilt
<1>4. \A M : \A x, y \in M : <<x, y>> \in Seq(M) /\ Len(<<x, y>>) = 2
                             /\ <<x, y>>[1] = x /\ <<x, y>>[2] = y
  OBVIOUS
<1> DEFINE a == <<A, B>>
           c == <<C, D>>
<1>5. a \in Seq(Tokens) /\ Len(a) = 2 /\ a[1] = A /\ a[2] = B
  BY <1>1, <1>4
<1>6. c \in Seq(Tokens) /\ Len(c) = 2 /\ c[1] = C /\ c[2] = D
  BY <1>1, <1>4
<1> HIDE DEF a, c, A, B, C, D, r
<1> DEFINE t == (a \o r) \o c
<1>7. /\ t \in Seq(Tokens) /\ Len(t) = Len(a) + Len(r) + Len(c)
      /\ \A i \in 1 .. Len(a) : t[i] = a[i]
      /\ \A i \in 1 .. Len(r) : t[Len(a) + i] = r[i]
      /\ \A i \in 1 .. Len(c) : t[Len(a) + Len(r) + i] = c[i]
  <2>1. a \in Seq(Tokens) /\ r \in Seq(Tokens) /\ c \in Seq(Tokens)
    BY <1>2, <1>5, <1>6
  <2> QED
    BY ONLY <2>1, JoinIs
<1> HIDE DEF t, n
<1>8. /\ Len(t) = n + 4 /\ \A i \in 1 .. n : t[2 + i] = r[i]
  BY <1>2, <1>5, <1>6, <1>7 DEF n
<1>9. t[1] = A /\ t[2] = B
  <2>1. 1 \in 1 .. Len(a) /\ 2 \in 1 .. Len(a)
    BY <1>5
  <2> QED
    BY <1>5, <1>7, <2>1
<1>10. t[n + 3] = C /\ t[n + 4] = D
  <2>1. 1 \in 1 .. Len(c) /\ 2 \in 1 .. Len(c)
        /\ Len(a) + Len(r) + 1 = n + 3 /\ Len(a) + Len(r) + 2 = n + 4
    BY <1>2, <1>5, <1>6 DEF n
  <2>2. t[Len(a) + Len(r) + 1] = c[1] /\ t[Len(a) + Len(r) + 2] = c[2]
    BY <1>7, <2>1
  <2> QED
    BY <1>6, <2>1, <2>2
<1> QED
  BY <1>2, <1>3, <1>7, <1>8, <1>9, <1>10 DEF t, a, c, A, B, C, D, n, r

-----------------------------------------------------------------------------
(***************************************************************************)
(* The invariant: what a text is like before each pass.                    *)
(***************************************************************************)
Grouped(s) == Only(s, "<colgroup>", "</colgroup>", {"<col/>"})
Titled(s) == Only(s, "<titlediv", "</div>", {"text"})
Headed(s) == Only(s, "<thead>", "</thead>", {"row"})
Bodied(s) == Only(s, "</thead>", "<tbody>", {})
Tabled(s) == Only(s, "<table", "</table>", Tags \ {"<table", "img"})

Elements(s) == Grouped(s) /\ Titled(s) /\ Captioned(s) /\ Headed(s) /\ Bodied(s) /\ Tabled(s)

BeforeHead == {"colgroups", "titles", "styles", "labels", "head"}

KnownInv ==
  /\ ExtractTypeOK
  /\ Elements(html_output) /\ \E i \in 1 .. Len(html_output) : html_output[i].tag \in StartTags
  /\ pass \in {"bounds"} \cup BeforeHead => caption_pos = 1
  /\ pass # "done" => (has_html <=> pass # "bounds")

ElementInv ==
  /\ pass = "colgroups" => Grouped(clean_html)
  /\ pass \in BeforeHead => Titled(clean_html) /\ Headed(clean_html) /\ Bodied(clean_html)
  /\ pass \in BeforeHead \cup {"captions", "table"} => Captioned(clean_html)

\* No title, nothing styled, captions up to a position dealt with, only rows in the table.
NoTitle(s) == Never(s, "<titlediv", "</div>")
Without(s, name) == \A i \in 1 .. Len(s) : name \notin s[i].attrs
NoStyle(s) == \A i \in 1 .. Len(s) : s[i].attrs = {}
CaptionsKept(s, n) == \A i \in 1 .. n : s[i].tag = "<caption" => CaptionKept(s, i)
RowsOnly(s) ==
  LET table == First(s, {"<table"}, 1)
      end == First(s, {"</table>"}, table)
  IN  table # 0 /\ end # 0 => \A i \in table + 2 .. end - 2 : s[i].tag = "row"

TidyInv ==
  has_html =>
    /\ pass \in {"styles", "labels", "head", "captions", "table", "done"} => NoTitle(clean_html)
    /\ pass = "labels" => Without(clean_html, "style")
    /\ pass \in {"head", "captions", "table", "done"} => NoStyle(clean_html)
    /\ pass = "captions" => CaptionsKept(clean_html, caption_pos - 1)
    /\ pass \in {"table", "done"} => CaptionsKept(clean_html, Len(clean_html))
    /\ pass = "done" => RowsOnly(clean_html)

ShapeInv == KnownInv /\ ElementInv /\ TidyInv

LEMMA ElementsEmpty == Elements(<<>>)
BY DEF Elements, Grouped, Titled, Captioned, Headed, Bodied, Tabled, Only

LEMMA ElementsPart ==
  ASSUME NEW s \in Seq(Tokens), Elements(s), NEW m \in 1 .. Len(s) + 1, NEW n \in 0 .. Len(s)
  PROVE  Elements(SubSeq(s, m, n))
BY OnlyPart DEF Elements, Grouped, Titled, Captioned, Headed, Bodied, Tabled

\* A printed output, and what is left over of it.
PrintedElement(s, open, close, inside) ==
  Only(s, open, close, inside) /\ ClosedUpTo(s, Len(s), open, close)

LEMMA ElementLeft ==
  ASSUME NEW s \in Seq(Tokens), NEW open, NEW close, NEW inside,
         Holds(s, open, close, inside), NEW n \in 0 .. Len(s)
  PROVE  PrintedElement(SubSeq(s, n + 1, Len(s)), open, close, inside)
<1> DEFINE m == n + 1
           k == Len(s)
           t == SubSeq(s, m, k)
<1>1. m \in 1 .. Len(s) + 1 /\ k \in 0 .. Len(s) /\ n \in Nat /\ k \in Nat
  OBVIOUS
<1>2. Only(s, open, close, inside) /\ ClosedUpTo(s, k, open, close)
  BY HoldsOnly
<1> HIDE DEF m, k
<1>3. Only(t, open, close, inside)
  BY <1>1, <1>2, OnlyPart
<1>4. t \in Seq(Tokens) /\ Len(t) = (IF m <= k THEN k - m + 1 ELSE 0)
      /\ \A i \in 1 .. Len(t) : t[i] = s[m + i - 1]
  BY <1>1, PartIs
<1> HIDE DEF t
<1>5. Len(t) = k - n
  BY <1>1, <1>4 DEF m, k
<1>6. \A i \in 1 .. Len(t) : t[i] = s[n + i]
  <2> TAKE i \in 1 .. Len(t)
  <2>1. m + i - 1 = n + i
    BY <1>1, <1>5 DEF m
  <2> QED
    BY <1>4, <2>1
<1>7. ClosedUpTo(t, Len(t), open, close)
  <2> SUFFICES ASSUME NEW i \in 1 .. Len(t), t[i].tag = open
               PROVE  \E l \in i + 1 .. Len(t) : t[l].tag = close
    BY DEF ClosedUpTo
  <2> DEFINE a == n + i
  <2>1. a \in 1 .. k /\ t[i] = s[a]
    BY <1>1, <1>5, <1>6
  <2> HIDE DEF a
  <2>2. PICK b \in a + 1 .. k : s[b].tag = close
    BY <1>2, <2>1 DEF ClosedUpTo
  <2> DEFINE l == b - n
  <2>3. l \in i + 1 .. Len(t) /\ l \in 1 .. Len(t) /\ n + l = b
    BY <1>1, <1>5, <2>1 DEF a
  <2> HIDE DEF l
  <2>4. t[l] = s[n + l]
    BY <1>6, <2>3
  <2> QED
    BY <2>2, <2>3, <2>4
<1> QED
  BY <1>3, <1>7 DEF PrintedElement, t, m, k

LEMMA ElementRead ==
  ASSUME NEW open, NEW close, NEW inside, NEW s \in Seq(Tokens), NEW t \in Seq(Tokens),
         Holds(s, open, close, inside), Holds(t, open, close, inside),
         NEW m \in 0 .. Len(s), NEW n \in 0 .. Len(t)
  PROVE  Only(SubSeq(s, m + 1, Len(s)) \o SubSeq(t, 1, n), open, close, inside)
<1> DEFINE a == SubSeq(s, m + 1, Len(s))
           b == SubSeq(t, 1, n)
<1>1. PrintedElement(a, open, close, inside)
  BY ElementLeft
<1>2. 1 \in 1 .. Len(t) + 1
  OBVIOUS
<1>3. Only(t, open, close, inside)
  BY HoldsOnly
<1>4. Only(b, open, close, inside)
  BY <1>2, <1>3, OnlyPart
<1>5. a \in Seq(Tokens) /\ b \in Seq(Tokens)
  <2>1. m + 1 \in 1 .. Len(s) + 1 /\ Len(s) \in 0 .. Len(s)
    OBVIOUS
  <2> QED
    BY <1>2, <2>1, PartIs
<1> HIDE DEF a, b
<1>6. Only(a \o b, open, close, inside)
  BY <1>1, <1>4, <1>5, OnlyJoined DEF PrintedElement
<1> QED
  BY <1>6 DEF a, b

LEMMA ShapeInit == ExtractInit => ShapeInv
<1> SUFFICES ASSUME ExtractInit PROVE ShapeInv
  OBVIOUS
<1>1. PICK before \in Outputs, own \in Outputs :
        \E i \in 0 .. Len(before), j \in 0 .. Len(own) :
          /\ html_output = SubSeq(before, i + 1, Len(before)) \o SubSeq(own, 1, j)
          /\ window = [leftover |-> Len(before) - i, missing |-> Len(own) - j]
  BY DEF ExtractInit
<1>2. PICK m \in 0 .. Len(before), n \in 0 .. Len(own) :
          /\ html_output = SubSeq(before, m + 1, Len(before)) \o SubSeq(own, 1, n)
          /\ window = [leftover |-> Len(before) - m, missing |-> Len(own) - n]
  BY <1>1
<1>3. before \in Seq(Tokens) /\ Printed(before) /\ own \in Seq(Tokens) /\ Printed(own)
  BY ExtractAssumption
<1>4. Elements(html_output)
  BY <1>2, <1>3, ElementRead
    DEF Printed, Elements, Grouped, Titled, Captioned, Headed, Bodied, Tabled
<1>5. html_output \in Seq(Tokens)
  <2>1. /\ m + 1 \in 1 .. Len(before) + 1 /\ Len(before) \in 0 .. Len(before)
        /\ 1 \in 1 .. Len(own) + 1
    BY <1>3
  <2>2. SubSeq(before, m + 1, Len(before)) \in Seq(Tokens) /\ SubSeq(own, 1, n) \in Seq(Tokens)
    BY <1>3, <2>1, PartIs
  <2> DEFINE a == SubSeq(before, m + 1, Len(before))
             b == SubSeq(own, 1, n)
  <2>3. a \in Seq(Tokens) /\ b \in Seq(Tokens) /\ html_output = a \o b
    BY <1>2, <2>2
  <2> HIDE DEF a, b
  <2> QED
    BY <2>3, ConcatProperties
<1>6. \E i \in 1 .. Len(html_output) : html_output[i].tag \in StartTags
  <2> DEFINE f == First(html_output, StartTags, 1)
  <2>1. f # 0
    BY DEF ExtractInit, StartTags
  <2>2. IsFirst(f, html_output, StartTags, 1)
    BY <1>5, FirstIs
  <2> HIDE DEF f
  <2> QED
    BY <2>1, <2>2 DEF IsFirst
<1>7. window \in [leftover : Nat, missing : Nat]
  <2>1. Len(before) - m \in Nat /\ Len(own) - n \in Nat
    BY <1>3
  <2> QED
    BY <1>2, <2>1
<1>8. /\ has_html = FALSE /\ clean_html = <<>> /\ pass = "bounds" /\ caption_pos = 1
      /\ <<>> \in Seq(Tokens) /\ Len(<<>>) = 0
  BY DEF ExtractInit
<1>9. ExtractTypeOK
  <2>1. clean_html \in Seq(Tokens) /\ caption_pos \in 1 .. Len(clean_html) + 1
    BY <1>8
  <2> QED
    BY <1>5, <1>7, <1>8, <2>1 DEF ExtractTypeOK
<1> QED
  BY <1>4, <1>6, <1>8, <1>9 DEF ShapeInv, KnownInv, ElementInv, TidyInv, BeforeHead

\* What is cut out.
LEMMA ExtractedIs ==
  ASSUME KnownInv, Extract, End # 0
  PROVE  clean_html' \in Seq(Tokens) /\ Elements(clean_html')
<1> DEFINE n == Start(html_output)
           k == Len(html_output)
<1>1. html_output \in Seq(Tokens) /\ Elements(html_output)
  BY DEF KnownInv, ExtractTypeOK
<1>2. PICK i \in 1 .. Len(html_output) : html_output[i].tag \in StartTags
  BY DEF KnownInv
<1>3. n \in 1 .. k /\ k \in Nat
  BY <1>1, <1>2, StartIs
<1>4. End \in 1 .. k
  <2>1. \A tags : IsLast(LastOf(tags), html_output, tags)
    BY <1>1, LastIs
  <2>2. \A tags : LastOf(tags) # 0 => LastOf(tags) \in 1 .. k
    BY <2>1 DEF IsLast
  <2>3. End \in {LastOf({"</html>"}), LastOf({"</div>"}), LastOf({"</table>"})}
    BY DEF End
  <2> QED
    BY <2>2, <2>3
<1>5. ASSUME NEW m \in 0 .. k
      PROVE  SubSeq(html_output, n, m) \in Seq(Tokens) /\ Elements(SubSeq(html_output, n, m))
  <2>1. n \in 1 .. Len(html_output) + 1 /\ m \in 0 .. Len(html_output)
    BY <1>3
  <2> HIDE DEF n
  <2> QED
    BY <1>1, <2>1, PartIs, ElementsPart
<1>6. \/ clean_html' = SubSeq(html_output, n, End)
      \/ clean_html' = SubSeq(html_output, n, k)
      \/ clean_html' = <<>>
  BY DEF Extract
<1>7. End \in 0 .. k /\ k \in 0 .. k
  BY <1>3, <1>4
<1>8. <<>> \in Seq(Tokens)
  OBVIOUS
<1> HIDE DEF n, k
<1> QED
  BY <1>5, <1>6, <1>7, <1>8, ElementsEmpty

LEMMA ShapeExtract == ShapeInv /\ Extract => ShapeInv'
<1> SUFFICES ASSUME ShapeInv, Extract PROVE ShapeInv'
  OBVIOUS
<1>1. /\ html_output' = html_output /\ window' = window /\ caption_pos' = caption_pos
      /\ pass = "bounds"
  BY DEF Extract
<1>2. KnownInv /\ has_html = FALSE /\ caption_pos = 1
  BY <1>1 DEF ShapeInv, KnownInv, ExtractTypeOK
<1>3. CASE End = 0
  <2>1. pass' = "done" /\ has_html' = has_html /\ clean_html' = clean_html
    BY <1>3 DEF Extract
  <2>2. KnownInv'
    BY <1>1, <1>2, <2>1 DEF KnownInv, ExtractTypeOK, BeforeHead
  <2>3. ElementInv' /\ TidyInv'
    BY <1>2, <2>1 DEF ElementInv, TidyInv, BeforeHead
  <2> QED
    BY <2>2, <2>3 DEF ShapeInv
<1>4. CASE End # 0
  <2>1. pass' = "colgroups" /\ has_html' = TRUE
    BY <1>4 DEF Extract
  <2>2. clean_html' \in Seq(Tokens) /\ Elements(clean_html')
    BY <1>2, <1>4, ExtractedIs
  <2>3. 1 \in 1 .. Len(clean_html') + 1
    BY <2>2
  <2>4. KnownInv'
    BY <1>1, <1>2, <2>1, <2>2, <2>3 DEF KnownInv, ExtractTypeOK, BeforeHead
  <2>5. ElementInv' /\ TidyInv'
    BY <2>1, <2>2 DEF ElementInv, TidyInv, BeforeHead, Elements
  <2> QED
    BY <2>4, <2>5 DEF ShapeInv
<1> QED
  BY <1>3, <1>4

LEMMA ShapeMerge == ShapeInv /\ MergeColgroups => ShapeInv'
<1> SUFFICES ASSUME ShapeInv, MergeColgroups PROVE ShapeInv'
  OBVIOUS
<1> DEFINE s == clean_html
           t == clean_html'
           f == First(s, {"<colgroup>"}, 1)
           n == MergedUpTo(s)
           by == MergedColgroup(s)
<1>1. /\ html_output' = html_output /\ window' = window /\ caption_pos' = caption_pos
      /\ has_html' = has_html /\ pass = "colgroups" /\ pass' = "titles"
  BY DEF MergeColgroups
<1>2. s \in Seq(Tokens) /\ KnownInv /\ caption_pos = 1 /\ has_html = TRUE
  BY <1>1 DEF ShapeInv, KnownInv, ExtractTypeOK, BeforeHead
<1>3. Titled(s) /\ Headed(s) /\ Bodied(s) /\ Captioned(s)
  BY <1>1 DEF ShapeInv, ElementInv, BeforeHead
<1>4. t \in Seq(Tokens) /\ Titled(t) /\ Headed(t) /\ Bodied(t) /\ Captioned(t)
  <2>1. CASE Cardinality(Colgroups(s)) > 1
    <3>1. t = Replace(s, f, n, by)
      BY <2>1 DEF MergeColgroups
    <3>2. by \in Seq(Tokens) /\ \A i \in 1 .. Len(by) : by[i].tag \in Groups
      BY <1>2, MergedIs, PlainOfTokens
    <3>3. f \in 1 .. Len(s) /\ s[f].tag = "<colgroup>" /\ n \in 0 .. Len(s)
          /\ f \in 1 .. Len(s) + 1
      <4>1. /\ LastColgroup(s) \in 1 .. Len(s) /\ f \in 1 .. LastColgroup(s)
            /\ s[f].tag = "<colgroup>" /\ n \in 1 .. Len(s)
        BY <1>2, <2>1, ColgroupsFound
      <4> HIDE DEF f, n
      <4> QED
        BY <4>1
    <3> HIDE DEF f, n, by
    <3>4. Replace(s, f, n, by) \in Seq(Tokens)
      BY <1>2, <3>2, <3>3, EditIs
    <3>5. \A i \in 1 .. Len(by) : by[i].tag \notin {"<titlediv", "<thead>", "</thead>", "<caption"}
      BY <3>2 DEF Groups
    <3>6. Titled(Replace(s, f, n, by))
      BY <1>2, <1>3, <3>2, <3>3, <3>5, OnlyEdited DEF Titled
    <3>7. Headed(Replace(s, f, n, by))
      BY <1>2, <1>3, <3>2, <3>3, <3>5, OnlyEdited DEF Headed
    <3>8. Bodied(Replace(s, f, n, by))
      BY <1>2, <1>3, <3>2, <3>3, <3>5, OnlyEdited DEF Bodied
    <3>9. Captioned(Replace(s, f, n, by))
      BY <1>2, <1>3, <3>2, <3>3, <3>5, OnlyEdited DEF Captioned
    <3> QED
      BY <3>1, <3>4, <3>6, <3>7, <3>8, <3>9
  <2>2. CASE ~(Cardinality(Colgroups(s)) > 1)
    <3>1. t = s
      BY <2>2 DEF MergeColgroups
    <3> QED
      BY <1>2, <1>3, <3>1
  <2> QED
    BY <2>1, <2>2
<1>5. 1 \in 1 .. Len(t) + 1
  BY <1>4
<1>6. KnownInv'
  BY <1>1, <1>2, <1>4, <1>5 DEF KnownInv, ExtractTypeOK, BeforeHead
<1>7. ElementInv' /\ TidyInv'
  BY <1>1, <1>4 DEF ElementInv, TidyInv, BeforeHead
<1> QED
  BY <1>6, <1>7 DEF ShapeInv

\* What one cut leaves.
LEMMA CutIs ==
  ASSUME NEW s \in Seq(Tokens), NEW from \in 1 .. Len(s), NEW to \in from .. Len(s)
  PROVE  /\ Cut(s, from, to) \in Seq(Tokens)
         /\ Spliced(Cut(s, from, to), s, from - 1, from - 1, to - from + 1)
<1> DEFINE by == <<>>
           t == Replace(s, from, to, by)
<1>1. by \in Seq(Tokens) /\ Len(by) = 0 /\ from \in 1 .. Len(s) + 1 /\ to \in 0 .. Len(s)
  OBVIOUS
<1> HIDE DEF by
<1>2. t \in Seq(Tokens) /\ Edited(t, s, from, to, by)
  BY <1>1, ReplaceIs
<1> HIDE DEF t
<1>3. from - 1 + Len(by) = from - 1 /\ to - (from - 1) = to - from + 1
  BY <1>1
<1>4. Spliced(t, s, from - 1, from - 1, to - from + 1)
  BY <1>2, <1>3 DEF Edited
<1> QED
  BY <1>2, <1>4 DEF Cut, t, by

LEMMA OnlyCut ==
  ASSUME NEW s \in Seq(Tokens), NEW from \in 1 .. Len(s), NEW to \in 0 .. Len(s),
         NEW open, NEW close, NEW inside,
         Only(s, open, close, inside), s[from].tag \notin inside, s[from].tag # close
  PROVE  Only(Cut(s, from, to), open, close, inside)
<1> DEFINE by == <<>>
<1>1. by \in Seq(Tokens) /\ \A i \in 1 .. Len(by) : by[i].tag # open
  OBVIOUS
<1> HIDE DEF by
<1>2. Only(Replace(s, from, to, by), open, close, inside)
  BY <1>1, OnlyEdited
<1> QED
  BY <1>2 DEF Cut, by

LEMMA TitleIs ==
  ASSUME NEW s \in Seq(Tokens), NEW i \in Titles(s)
  PROVE  /\ i \in 1 .. Len(s) /\ s[i].tag = "<titlediv"
         /\ First(s, {"</div>"}, i) \in i + 1 .. Len(s)
         /\ s[First(s, {"</div>"}, i)].tag = "</div>"
<1>1. i \in 1 .. Len(s) /\ s[i].tag = "<titlediv" /\ First(s, {"</div>"}, i) # 0
  BY DEF Titles
<1>2. IsFirst(First(s, {"</div>"}, i), s, {"</div>"}, i)
  BY <1>1, FirstIs
<1> DEFINE k == First(s, {"</div>"}, i)
<1>3. k # 0 /\ IsFirst(k, s, {"</div>"}, i)
  BY <1>1, <1>2
<1> HIDE DEF k
<1>4. k \in i + 1 .. Len(s) /\ s[k].tag = "</div>"
  <2>1. k \in i .. Len(s) /\ s[k].tag = "</div>"
    BY <1>3 DEF IsFirst
  <2>2. k # i
    BY <1>1, <2>1
  <2> QED
    BY <1>1, <2>1, <2>2
<1> QED
  BY <1>1, <1>4 DEF k

LEMMA NoTitles ==
  ASSUME NEW s \in Seq(Tokens)
  PROVE  Titles(s) = {} <=> NoTitle(s)
<1>0. DOMAIN s = 1 .. Len(s) /\ Len(s) \in Nat
  OBVIOUS
<1>1. ASSUME Titles(s) = {} PROVE NoTitle(s)
  <2> SUFFICES ASSUME NEW i \in 1 .. Len(s), NEW j \in 1 .. Len(s), i < j,
                      s[i].tag = "<titlediv", s[j].tag = "</div>"
               PROVE  FALSE
    BY DEF NoTitle, Never
  <2>1. First(s, {"</div>"}, i) = 0
    BY <1>0, <1>1 DEF Titles
  <2>2. IsFirst(First(s, {"</div>"}, i), s, {"</div>"}, i)
    BY FirstIs
  <2>3. IsFirst(0, s, {"</div>"}, i)
    BY <2>1, <2>2
  <2>4. j \in i .. Len(s)
    OBVIOUS
  <2> QED
    BY <2>3, <2>4 DEF IsFirst
<1>2. ASSUME NoTitle(s), NEW i \in Titles(s) PROVE FALSE
  <2> DEFINE k == First(s, {"</div>"}, i)
  <2>1. i \in 1 .. Len(s) /\ s[i].tag = "<titlediv" /\ k \in i + 1 .. Len(s)
        /\ s[k].tag = "</div>"
    BY TitleIs
  <2> HIDE DEF k
  <2>2. i < k /\ k \in 1 .. Len(s)
    BY <2>1
  <2> QED
    BY <1>2, <2>1, <2>2 DEF NoTitle, Never
<1> QED
  BY <1>1, <1>2

LEMMA ShapeTitle == ShapeInv /\ RemoveTitle => ShapeInv'
<1> SUFFICES ASSUME ShapeInv, RemoveTitle PROVE ShapeInv'
  OBVIOUS
<1> DEFINE s == clean_html
           t == clean_html'
<1>1. /\ html_output' = html_output /\ window' = window /\ caption_pos' = caption_pos
      /\ has_html' = has_html /\ pass = "titles" /\ pass' = NextPass
  BY DEF RemoveTitle
<1>2. s \in Seq(Tokens) /\ KnownInv /\ caption_pos = 1 /\ has_html = TRUE
  BY <1>1 DEF ShapeInv, KnownInv, ExtractTypeOK, BeforeHead
<1>3. Titled(s) /\ Headed(s) /\ Bodied(s) /\ Captioned(s)
  BY <1>1 DEF ShapeInv, ElementInv, BeforeHead
<1>4. CASE Titles(s) = {}
  <2>1. t = s /\ pass' = "styles"
    BY <1>1, <1>4 DEF RemoveTitle, NextPass
  <2>2. NoTitle(s)
    BY <1>2, <1>4, NoTitles
  <2>3. KnownInv'
    BY <1>1, <1>2, <2>1 DEF KnownInv, ExtractTypeOK, BeforeHead
  <2>4. ElementInv' /\ TidyInv'
    BY <1>1, <1>3, <2>1, <2>2 DEF ElementInv, TidyInv, BeforeHead
  <2> QED
    BY <2>3, <2>4 DEF ShapeInv
<1>5. CASE Titles(s) # {}
  <2>1. pass' = "titles"
    BY <1>1, <1>5 DEF NextPass
  <2>2. PICK i \in Titles(s) : t = Cut(s, i, First(s, {"</div>"}, i))
    BY <1>5 DEF RemoveTitle
  <2> DEFINE k == First(s, {"</div>"}, i)
  <2>3. /\ i \in 1 .. Len(s) /\ s[i].tag = "<titlediv"
        /\ k \in i .. Len(s) /\ k \in 0 .. Len(s)
    <3>1. i \in 1 .. Len(s) /\ s[i].tag = "<titlediv" /\ k \in i + 1 .. Len(s)
      BY <1>2, TitleIs
    <3> HIDE DEF k
    <3> QED
      BY <3>1
  <2>4. t = Cut(s, i, k)
    BY <2>2
  <2> HIDE DEF k
  <2>5. Cut(s, i, k) \in Seq(Tokens)
    BY <1>2, <2>3, CutIs
  <2>6. Titled(Cut(s, i, k))
    BY <1>2, <1>3, <2>3, OnlyCut DEF Titled
  <2>7. Headed(Cut(s, i, k))
    BY <1>2, <1>3, <2>3, OnlyCut DEF Headed
  <2>8. Bodied(Cut(s, i, k))
    BY <1>2, <1>3, <2>3, OnlyCut DEF Bodied
  <2>9. Captioned(Cut(s, i, k))
    BY <1>2, <1>3, <2>3, OnlyCut DEF Captioned
  <2>10. t \in Seq(Tokens) /\ Titled(t) /\ Headed(t) /\ Bodied(t) /\ Captioned(t)
    BY <2>4, <2>5, <2>6, <2>7, <2>8, <2>9
  <2>11. 1 \in 1 .. Len(t) + 1
    BY <2>10
  <2>12. KnownInv'
    BY <1>1, <1>2, <2>1, <2>10, <2>11 DEF KnownInv, ExtractTypeOK, BeforeHead
  <2>13. ElementInv' /\ TidyInv'
    BY <1>1, <2>1, <2>10 DEF ElementInv, TidyInv, BeforeHead
  <2> QED
    BY <2>12, <2>13 DEF ShapeInv
<1> QED
  BY <1>4, <1>5

\* Where the tokens have lost their attributes, and only these.
PlainTo(t, s) ==
  /\ t \in Seq(Tokens) /\ Len(t) = Len(s)
  /\ \A i \in 1 .. Len(s) : t[i].tag = s[i].tag /\ t[i].id = s[i].id /\ t[i].attrs = {}

LEMMA PlainIs == \A s \in Seq(Tokens) : PlainTo(Plain(s), s)
<1> TAKE s \in Seq(Tokens)
<1> DEFINE n == Len(s)
           f == [i \in 1 .. n |-> [s[i] EXCEPT !.attrs = {}]]
<1>1. n \in Nat /\ Plain(s) = f
  BY DEF Plain
<1>2. \A x \in Tokens : /\ [x EXCEPT !.attrs = {}] \in Tokens
                        /\ [x EXCEPT !.attrs = {}].tag = x.tag
                        /\ [x EXCEPT !.attrs = {}].id = x.id
                        /\ [x EXCEPT !.attrs = {}].attrs = {}
  BY DEF Tokens
<1>3. \A i \in 1 .. n : s[i] \in Tokens
  OBVIOUS
<1> HIDE DEF n
<1>4. \A i \in 1 .. n : f[i] = [s[i] EXCEPT !.attrs = {}] /\ f[i] \in Tokens
                        /\ f[i].tag = s[i].tag /\ f[i].id = s[i].id /\ f[i].attrs = {}
  BY <1>2, <1>3
<1>5. f \in Seq(Tokens) /\ Len(f) = n
  BY <1>1, <1>2, <1>3
<1> HIDE DEF f
<1> QED
  BY <1>1, <1>4, <1>5 DEF n, PlainTo

(***************************************************************************)
(* A round of the loop over one attribute.                                 *)
(***************************************************************************)
ErasedAt(t, s, i, name) ==
  /\ t \in Seq(Tokens) /\ Len(t) = Len(s) /\ i \in 1 .. Len(s) /\ name \in s[i].attrs
  /\ \A j \in 1 .. Len(s) :
       /\ t[j].tag = s[j].tag /\ t[j].id = s[j].id /\ t[j].attrs \subseteq s[j].attrs
       /\ name \in t[j].attrs <=> j # i /\ name \in s[j].attrs

LEMMA ErasedIs ==
  ASSUME NEW s \in Seq(Tokens), NEW name, NEW i \in Having(s, name)
  PROVE  ErasedAt(Erase(s, i, name), s, i, name)
<1> DEFINE n == Len(s)
           x == [s[i] EXCEPT !.attrs = @ \ {name}]
           t == [s EXCEPT ![i] = x]
<1>1. i \in 1 .. n /\ name \in s[i].attrs /\ s[i] \in Tokens
  BY DEF Having
<1>2. Erase(s, i, name) = t
  BY DEF Erase
<1>3. /\ x \in Tokens /\ x.tag = s[i].tag /\ x.id = s[i].id
      /\ x.attrs = s[i].attrs \ {name}
  BY <1>1 DEF Tokens
<1> HIDE DEF x
<1>4. /\ t \in Seq(Tokens) /\ Len(t) = n
      /\ \A j \in 1 .. n : t[j] = IF j = i THEN x ELSE s[j]
  BY <1>1, <1>3
<1> HIDE DEF t
<1>5. ASSUME NEW j \in 1 .. n
      PROVE  /\ t[j].tag = s[j].tag /\ t[j].id = s[j].id /\ t[j].attrs \subseteq s[j].attrs
             /\ name \in t[j].attrs <=> j # i /\ name \in s[j].attrs
  <2>1. CASE j = i
    BY <1>3, <1>4, <2>1
  <2>2. CASE j # i
    BY <1>4, <2>2
  <2> QED
    BY <2>1, <2>2
<1> QED
  BY <1>1, <1>2, <1>4, <1>5 DEF ErasedAt

LEMMA RoundIs ==
  ASSUME NEW name, NEW next, RemoveAttribute(name, next), clean_html \in Seq(Tokens)
  PROVE  /\ html_output' = html_output /\ window' = window
         /\ has_html' = has_html /\ caption_pos' = caption_pos
         /\ \/ Without(clean_html, name) /\ clean_html' = clean_html /\ pass' = next
            \/ /\ \E i \in 1 .. Len(clean_html) : ErasedAt(clean_html', clean_html, i, name)
               /\ pass' = pass
<1>1. CASE Having(clean_html, name) = {}
  <2>1. Without(clean_html, name)
    BY <1>1 DEF Having, Without
  <2> QED
    BY <1>1, <2>1 DEF RemoveAttribute
<1>2. CASE Having(clean_html, name) # {}
  <2>1. PICK i \in Having(clean_html, name) :
          clean_html' = Erase(clean_html, i, name) /\ pass' = pass
    BY <1>2 DEF RemoveAttribute
  <2>2. ErasedAt(clean_html', clean_html, i, name)
    BY <2>1, ErasedIs
  <2>3. i \in 1 .. Len(clean_html)
    BY DEF Having
  <2> QED
    BY <2>1, <2>2, <2>3 DEF RemoveAttribute
<1> QED
  BY <1>1, <1>2

\* What a round leaves as it is.
LEMMA ErasedShape ==
  ASSUME NEW s \in Seq(Tokens), NEW t, NEW i, NEW name, ErasedAt(t, s, i, name)
  PROVE  /\ t \in Seq(Tokens) /\ Len(t) \in Nat
         /\ Headed(s) => Headed(t)
         /\ Bodied(s) => Bodied(t)
         /\ Captioned(s) => Captioned(t)
         /\ Titled(s) => Titled(t)
         /\ NoTitle(s) => NoTitle(t)
         /\ \A other : Without(s, other) => Without(t, other)
<1>1. /\ t \in Seq(Tokens) /\ Len(t) = Len(s) /\ Len(s) \in Nat
      /\ \A j \in 1 .. Len(s) : t[j].tag = s[j].tag /\ t[j].attrs \subseteq s[j].attrs
  BY DEF ErasedAt
<1>2. Headed(s) => Headed(t)
  BY <1>1, OnlySame DEF Headed
<1>3. Bodied(s) => Bodied(t)
  BY <1>1, OnlySame DEF Bodied
<1>4. Captioned(s) => Captioned(t)
  BY <1>1, OnlySame DEF Captioned
<1>5. Titled(s) => Titled(t)
  BY <1>1, OnlySame DEF Titled
<1>6. NoTitle(s) => NoTitle(t)
  BY <1>1 DEF NoTitle, Never
<1>7. \A other : Without(s, other) => Without(t, other)
  BY <1>1 DEF Without
<1> QED
  BY <1>1, <1>2, <1>3, <1>4, <1>5, <1>6, <1>7

LEMMA NothingLeft ==
  ASSUME NEW s \in Seq(Tokens), Without(s, "style"), Without(s, "aria-label")
  PROVE  NoStyle(s)
<1>1. \A x \in Tokens : x.attrs \subseteq Attributes
  BY DEF Tokens
<1>2. \A i \in 1 .. Len(s) : s[i].attrs \subseteq Attributes
  BY <1>1
<1>3. \A A : A \subseteq Attributes /\ "style" \notin A /\ "aria-label" \notin A => A = {}
  BY DEF Attributes
<1> QED
  BY <1>2, <1>3 DEF NoStyle, Without

LEMMA ShapeAttributes == ShapeInv /\ (RemoveStyle \/ RemoveLabel) => ShapeInv'
<1> SUFFICES ASSUME ShapeInv, RemoveStyle \/ RemoveLabel PROVE ShapeInv'
  OBVIOUS
<1> DEFINE s == clean_html
           t == clean_html'
<1>1. pass \in {"styles", "labels"}
  BY DEF RemoveStyle, RemoveLabel
<1>2. s \in Seq(Tokens) /\ KnownInv /\ caption_pos = 1 /\ has_html = TRUE
  BY <1>1 DEF ShapeInv, KnownInv, ExtractTypeOK, BeforeHead
<1>3. Headed(s) /\ Bodied(s) /\ Captioned(s) /\ Titled(s)
  BY <1>1 DEF ShapeInv, ElementInv, BeforeHead
<1>4. NoTitle(s) /\ (pass = "labels" => Without(s, "style"))
  BY <1>1, <1>2 DEF ShapeInv, TidyInv
<1>5. /\ html_output' = html_output /\ window' = window /\ has_html' = has_html
      /\ caption_pos' = caption_pos
  BY <1>2, RoundIs DEF RemoveStyle, RemoveLabel
<1>6. /\ t \in Seq(Tokens) /\ Len(t) \in Nat
      /\ Headed(t) /\ Bodied(t) /\ Captioned(t) /\ Titled(t) /\ NoTitle(t)
      /\ \/ pass = "styles" /\ pass' = "styles"
         \/ pass = "labels" /\ pass' = "labels" /\ Without(t, "style")
         \/ pass = "styles" /\ pass' = "labels" /\ Without(t, "style")
         \/ pass = "labels" /\ pass' = "head" /\ NoStyle(t)
  <2>1. CASE RemoveStyle
    <3>1. /\ pass = "styles"
          /\ \/ Without(s, "style") /\ t = s /\ pass' = "labels"
             \/ /\ \E i \in 1 .. Len(s) : ErasedAt(t, s, i, "style")
                /\ pass' = pass
      BY <1>2, <2>1, RoundIs DEF RemoveStyle
    <3> HIDE DEF s, t
    <3>2. CASE t = s /\ Without(s, "style") /\ pass' = "labels"
      <4>1. Len(t) \in Nat
        BY <1>2, <3>2
      <4> QED
        BY <1>2, <1>3, <1>4, <3>1, <3>2, <4>1
    <3>3. CASE pass' = pass /\ \E i \in 1 .. Len(s) : ErasedAt(t, s, i, "style")
      <4>1. PICK i \in 1 .. Len(s) : ErasedAt(t, s, i, "style")
        BY <3>3
      <4>2. /\ t \in Seq(Tokens) /\ Len(t) \in Nat
            /\ Headed(t) /\ Bodied(t) /\ Captioned(t) /\ Titled(t) /\ NoTitle(t)
            /\ Without(s, "style") => Without(t, "style")
        BY <1>2, <1>3, <1>4, <4>1, ErasedShape
      <4> QED
        BY <1>4, <3>1, <3>3, <4>2
    <3> QED
      BY <3>1, <3>2, <3>3
  <2>2. CASE RemoveLabel
    <3>1. /\ pass = "labels"
          /\ \/ Without(s, "aria-label") /\ t = s /\ pass' = "head"
             \/ /\ \E i \in 1 .. Len(s) : ErasedAt(t, s, i, "aria-label")
                /\ pass' = pass
      BY <1>2, <2>2, RoundIs DEF RemoveLabel
    <3> HIDE DEF s, t
    <3>2. CASE t = s /\ Without(s, "aria-label") /\ pass' = "head"
      <4>1. NoStyle(s)
        BY <1>2, <1>4, <3>1, <3>2, NothingLeft
      <4>2. Len(t) \in Nat
        BY <1>2, <3>2
      <4> QED
        BY <1>2, <1>3, <1>4, <3>1, <3>2, <4>1, <4>2
    <3>3. CASE pass' = pass /\ \E i \in 1 .. Len(s) : ErasedAt(t, s, i, "aria-label")
      <4>1. PICK i \in 1 .. Len(s) : ErasedAt(t, s, i, "aria-label")
        BY <3>3
      <4>2. /\ t \in Seq(Tokens) /\ Len(t) \in Nat
            /\ Headed(t) /\ Bodied(t) /\ Captioned(t) /\ Titled(t) /\ NoTitle(t)
            /\ Without(s, "style") => Without(t, "style")
        BY <1>2, <1>3, <1>4, <4>1, ErasedShape
      <4> QED
        BY <1>4, <3>1, <3>3, <4>2
    <3> QED
      BY <3>1, <3>2, <3>3
  <2> QED
    BY <2>1, <2>2
<1> HIDE DEF t
<1>7. 1 \in 1 .. Len(t) + 1
  BY <1>6
<1>8. KnownInv'
  BY <1>1, <1>2, <1>5, <1>6, <1>7 DEF KnownInv, ExtractTypeOK, BeforeHead, t
<1>9. ElementInv' /\ TidyInv'
  BY <1>1, <1>5, <1>6 DEF ElementInv, TidyInv, BeforeHead, t
<1> QED
  BY <1>8, <1>9 DEF ShapeInv

LEMMA StyleSpliced ==
  ASSUME NEW s, NEW t, NEW p, NEW q, NEW d, Spliced(t, s, p, q, d), NoStyle(s),
         \A i \in p + 1 .. q : t[i].attrs = {}
  PROVE  NoStyle(t)
<1>1. /\ Len(s) \in Nat /\ Len(t) \in Nat /\ d \in Int /\ q + d \in Nat
      /\ p \in 0 .. Len(s) /\ q \in p .. Len(t) /\ Len(t) + d = Len(s)
  BY DEF Spliced
<1> SUFFICES ASSUME NEW i \in 1 .. Len(t) PROVE t[i].attrs = {}
  BY DEF NoStyle
<1>2. CASE i \in 1 .. p
  <2>1. t[i] = s[i] /\ i \in 1 .. Len(s)
    BY <1>1, <1>2 DEF Spliced
  <2> QED
    BY <2>1 DEF NoStyle
<1>3. CASE i \in q + 1 .. Len(t)
  <2> DEFINE j == i + d
  <2>1. t[i] = s[j] /\ j \in 1 .. Len(s)
    BY <1>1, <1>3 DEF Spliced
  <2> HIDE DEF j
  <2> QED
    BY <2>1 DEF NoStyle
<1>4. CASE i \in p + 1 .. q
  BY <1>4
<1>5. p \in Nat /\ q \in Nat /\ Len(t) \in Nat /\ q <= Len(t) /\ i \in Nat
  BY <1>1
<1>6. i \in 1 .. p \/ i \in p + 1 .. q \/ i \in q + 1 .. Len(t)
  BY ONLY <1>5, i \in 1 .. Len(t)
<1> QED
  BY <1>2, <1>3, <1>4, <1>6

\* An element of which the end is found: nothing but what belongs into it.
Enclosed(s, i, end, close, inside) ==
  /\ end \in i + 1 .. Len(s) /\ s[end].tag = close
  /\ \A j \in i + 1 .. end - 1 : s[j].tag \in inside

LEMMA ElementIs ==
  ASSUME NEW s, Len(s) \in Nat, NEW open, NEW close, open # close, NEW inside,
         Only(s, open, close, inside), NEW i \in 1 .. Len(s), s[i].tag = open,
         NEW end, end # 0, IsFirst(end, s, {close}, i)
  PROVE  Enclosed(s, i, end, close, inside)
<1>1. /\ end \in i + 1 .. Len(s) /\ s[end].tag = close
      /\ \A j \in i .. end - 1 : s[j].tag # close
  <2>1. end \in i .. Len(s) /\ s[end].tag = close
        /\ \A j \in i .. end - 1 : s[j].tag # close
    BY DEF IsFirst
  <2>2. end # i
    BY <2>1
  <2> QED
    BY <2>1, <2>2
<1>2. ASSUME NEW j \in i + 1 .. end - 1, s[j].tag \notin inside PROVE FALSE
  <2>1. j \in 1 .. Len(s) /\ i < j
    BY <1>1, <1>2
  <2>2. PICK k \in i + 1 .. j : s[k].tag = close
    BY <1>2, <2>1 DEF Only
  <2>3. k \in i .. end - 1
    BY <1>1, <1>2, <2>2
  <2> QED
    BY <1>1, <2>2, <2>3
<1> QED
  BY <1>1, <1>2 DEF Enclosed

\* A part of a text of which all tokens are of one kind.
LEMMA PartOf ==
  ASSUME NEW s \in Seq(Tokens), NEW m \in 1 .. Len(s) + 1, NEW n \in 0 .. Len(s), NEW T,
         \A i \in m .. n : s[i] \in T
  PROVE  SubSeq(s, m, n) \in Seq(T)
<1>1. m \in Int /\ n \in Int
  OBVIOUS
<1> QED
  BY <1>1, SubSeqProperties

Unstyled(tags) == {x \in Tokens : x.attrs = {} /\ x.tag \in tags}

LEMMA UnstyledIs ==
  ASSUME NEW tags, NEW s \in Seq(Unstyled(tags))
  PROVE  /\ s \in Seq(Tokens) /\ Len(s) \in Nat
         /\ \A i \in 1 .. Len(s) : s[i].attrs = {} /\ s[i].tag \in tags
<1> DEFINE U == Unstyled(tags)
<1>1. U \subseteq Tokens /\ \A x \in U : x.attrs = {} /\ x.tag \in tags
  BY DEF Unstyled
<1> HIDE DEF U
<1>2. s \in Seq(U)
  BY DEF U
<1>3. s \in Seq(Tokens)
  BY <1>1, <1>2, SeqMonotonic
<1>4. Len(s) \in Nat /\ \A i \in 1 .. Len(s) : s[i] \in U
  BY <1>2
<1> QED
  BY <1>1, <1>3, <1>4

\* Inserting rows behind a tag.
LEMMA HeaderInserted ==
  ASSUME NEW s \in Seq(Tokens), NEW by \in Seq(Unstyled({"row"})),
         Captioned(s), NoTitle(s), NoStyle(s)
  PROVE  LET t == InsertHeader(s, by)
         IN  t \in Seq(Tokens) /\ Captioned(t) /\ NoTitle(t) /\ NoStyle(t)
<1> DEFINE t == InsertHeader(s, by)
           body == First(s, {"<tbody>"}, 1)
<1>1. by \in Seq(Tokens) /\ \A i \in 1 .. Len(by) : by[i].attrs = {} /\ by[i].tag \in {"row"}
  BY UnstyledIs
<1>2. IsFirst(body, s, {"<tbody>"}, 1)
  BY FirstIs
<1>3. t = IF body = 0 THEN s ELSE Replace(s, body + 1, body, by)
  BY DEF InsertHeader
<1> HIDE DEF t, body
<1>4. CASE body = 0
  BY <1>3, <1>4 DEF t
<1>5. CASE body # 0
  <2>1. /\ body \in 1 .. Len(s) /\ s[body].tag = "<tbody>" /\ Len(by) \in Nat
        /\ body \in 0 .. Len(s)
    BY <1>1, <1>2, <1>5 DEF IsFirst
  <2>2. Captioned(Replace(s, body + 1, body, by))
    <3>1. \A i \in 1 .. Len(by) : by[i].tag # "<caption"
      BY <1>1
    <3> QED
      BY <1>1, <2>1, <3>1, OnlyInserted DEF Captioned
  <2>3. t = Replace(s, body + 1, body, by)
    BY <1>3, <1>5
  <2> DEFINE from == body + 1
             p == from - 1
             q == p + Len(by)
             d == body - q
  <2>4. from \in 1 .. Len(s) + 1 /\ p <= q + d
    BY <2>1
  <2>5. t \in Seq(Tokens) /\ EditedAt(t, s, from, body, by)
    <3>1. t = Replace(s, from, body, by) /\ body \in 0 .. Len(s)
      BY <2>1, <2>3
    <3> HIDE DEF from
    <3> QED
      BY <1>1, <2>4, <3>1, EditIs
  <2>6. /\ Spliced(t, s, p, q, d)
        /\ \A i \in from .. q : i - from + 1 \in 1 .. Len(by) /\ t[i] = by[i - from + 1]
    BY <2>5 DEF EditedAt
  <2>7. \A i \in p + 1 .. q : t[i].attrs = {} /\ t[i].tag = "row"
    <3>1. p + 1 = from
      BY <2>1
    <3> HIDE DEF p, q, d, from
    <3> QED
      BY <1>1, <2>6, <3>1
  <2> HIDE DEF p, q, d, from
  <2>8. NoStyle(t)
    BY <2>6, <2>7, StyleSpliced
  <2>9. NoTitle(t)
    <3>1. \A i \in p + 1 .. q : t[i].tag # "<titlediv" /\ t[i].tag # "</div>"
      BY <2>7
    <3> QED
      BY <2>4, <2>6, <3>1, NeverSpliced DEF NoTitle
  <2> QED
    BY <2>2, <2>3, <2>5, <2>8, <2>9 DEF t
<1> QED
  BY <1>4, <1>5

LEMMA ShapeHead == ShapeInv /\ MoveHeader => ShapeInv'
<1> SUFFICES ASSUME ShapeInv, MoveHeader PROVE ShapeInv'
  OBVIOUS
<1> DEFINE s == clean_html
           t == clean_html'
           head == First(s, {"<thead>"}, 1)
           end == First(s, {"</thead>"}, head)
<1>1. /\ html_output' = html_output /\ window' = window /\ caption_pos' = caption_pos
      /\ has_html' = has_html /\ pass = "head" /\ pass' = "captions"
  BY DEF MoveHeader
<1>2. s \in Seq(Tokens) /\ KnownInv /\ caption_pos = 1 /\ has_html = TRUE
  BY <1>1 DEF ShapeInv, KnownInv, ExtractTypeOK, BeforeHead
<1>3. Headed(s) /\ Captioned(s)
  BY <1>1 DEF ShapeInv, ElementInv, BeforeHead
<1>4. NoTitle(s) /\ NoStyle(s)
  BY <1>1, <1>2 DEF ShapeInv, TidyInv
<1>5. t \in Seq(Tokens) /\ Captioned(t) /\ NoTitle(t) /\ NoStyle(t)
  <2>1. CASE head # 0 /\ First(s, {"<tbody>"}, 1) # 0 /\ end # 0
    <3>1. t = InsertHeader(Cut(s, head, end), SubSeq(s, head + 1, end - 1))
      BY <2>1 DEF MoveHeader
    <3>2. IsFirst(head, s, {"<thead>"}, 1)
      BY <1>2, FirstIs
    <3>3. head # 0 /\ end # 0
      BY <2>1
    <3>4. head \in 1 .. Len(s) /\ s[head].tag = "<thead>"
      <4> HIDE DEF head
      <4> QED
        BY <3>2, <3>3 DEF IsFirst
    <3>5. IsFirst(end, s, {"</thead>"}, head)
      <4>1. head \in Nat \ {0}
        BY <3>4
      <4> HIDE DEF head
      <4> QED
        BY <1>2, <4>1, FirstIs
    <3> HIDE DEF head, end
    <3>6. end \in head + 1 .. Len(s) /\ \A i \in head + 1 .. end - 1 : s[i].tag = "row"
      <4>1. Only(s, "<thead>", "</thead>", {"row"}) /\ Len(s) \in Nat
        BY <1>2, <1>3 DEF Headed
      <4> HIDE DEF s
      <4>2. Enclosed(s, head, end, "</thead>", {"row"})
        BY <3>3, <3>4, <3>5, <4>1, ElementIs
      <4> QED
        BY <4>2 DEF Enclosed
    <3> DEFINE u == Cut(s, head, end)
               by == SubSeq(s, head + 1, end - 1)
               p == head - 1
               d == end - head + 1
    <3>7. u \in Seq(Tokens) /\ Spliced(u, s, p, p, d)
      <4>1. end \in head .. Len(s)
        BY <3>4, <3>6
      <4> QED
        BY <1>2, <3>4, <4>1, CutIs
    <3>8. Captioned(u)
      <4>1. end \in 0 .. Len(s) /\ s[head].tag # "text" /\ s[head].tag # "</caption>"
        BY <3>4, <3>6
      <4> QED
        BY <1>2, <1>3, <3>4, <4>1, OnlyCut DEF Captioned
    <3>9. p <= p + d /\ \A i \in p + 1 .. p : FALSE
      BY <3>4, <3>6
    <3>10. by \in Seq(Unstyled({"row"}))
      <4>1. \A i \in head + 1 .. end - 1 : s[i] \in Unstyled({"row"})
        <5> TAKE i \in head + 1 .. end - 1
        <5>1. i \in 1 .. Len(s) /\ s[i].tag = "row"
          BY <3>4, <3>6
        <5>2. s[i] \in Tokens /\ s[i].attrs = {}
          BY <1>2, <1>4, <5>1 DEF NoStyle
        <5> QED
          BY <5>1, <5>2 DEF Unstyled
      <4>2. head + 1 \in 1 .. Len(s) + 1 /\ end - 1 \in 0 .. Len(s)
        BY <3>4, <3>6
      <4> QED
        BY <1>2, <4>1, <4>2, PartOf
    <3>11. t = InsertHeader(u, by)
      BY <3>1
    <3> HIDE DEF u, by, p, d
    <3>12. NoTitle(u)
      BY <1>4, <3>7, <3>9, NeverSpliced DEF NoTitle
    <3>13. NoStyle(u)
      BY <1>4, <3>7, <3>9, StyleSpliced
    <3> QED
      BY <3>7, <3>8, <3>10, <3>11, <3>12, <3>13, HeaderInserted
  <2>2. CASE ~(head # 0 /\ First(s, {"<tbody>"}, 1) # 0 /\ end # 0)
    <3>1. t = s
      BY <2>2 DEF MoveHeader
    <3> QED
      BY <1>2, <1>3, <1>4, <3>1
  <2> QED
    BY <2>1, <2>2
<1> HIDE DEF t
<1>6. 1 \in 1 .. Len(t) + 1
  BY <1>5
<1>7. KnownInv'
  BY <1>1, <1>2, <1>5, <1>6 DEF KnownInv, ExtractTypeOK, BeforeHead, t
<1>8. CaptionsKept(t, caption_pos' - 1)
  <2>1. \A i \in 1 .. caption_pos' - 1 : FALSE
    BY <1>1, <1>2
  <2> QED
    BY <2>1 DEF CaptionsKept
<1>9. ElementInv' /\ TidyInv'
  BY <1>1, <1>5, <1>8 DEF ElementInv, TidyInv, BeforeHead, t
<1> QED
  BY <1>7, <1>9 DEF ShapeInv

LEMMA FirstCaptionEnd ==
  ASSUME NEW s, Len(s) \in Nat, NEW i \in 1 .. Len(s), s[i].tag = "<caption",
         NEW end, IsFirst(end, s, {"</caption>"}, i)
  PROVE  /\ end = 0 => CaptionKept(s, i)
         /\ end # 0 =>
              /\ end \in i + 1 .. Len(s) /\ s[end].tag = "</caption>"
              /\ \A k \in i .. end - 1 : s[k].tag # "</caption>"
              /\ CaptionKept(s, i) <=> \E j \in i .. end : s[j].id # 0
<1>1. ASSUME end = 0 PROVE CaptionKept(s, i)
  <2>1. \A k \in i .. Len(s) : s[k].tag # "</caption>"
    BY <1>1 DEF IsFirst
  <2> QED
    BY <2>1 DEF CaptionKept
<1>2. ASSUME end # 0
      PROVE  /\ end \in i + 1 .. Len(s) /\ s[end].tag = "</caption>"
             /\ \A k \in i .. end - 1 : s[k].tag # "</caption>"
  <2>1. end \in i .. Len(s) /\ s[end].tag = "</caption>"
        /\ \A k \in i .. end - 1 : s[k].tag # "</caption>"
    BY <1>2 DEF IsFirst
  <2>2. end # i
    BY <2>1
  <2> QED
    BY <2>1, <2>2
<1>3. ASSUME end # 0 PROVE CaptionKept(s, i) <=> \E j \in i .. end : s[j].id # 0
  <2>1. ASSUME NEW k \in i + 1 .. Len(s), s[k].tag = "</caption>",
               \A l \in i + 1 .. k - 1 : s[l].tag # "</caption>"
        PROVE  k = end
    <3>1. ~(k < end)
      BY <1>2, <1>3, <2>1
    <3>2. ~(end < k)
      BY <1>2, <1>3, <2>1
    <3> QED
      BY <1>2, <1>3, <3>1, <3>2
  <2>2. /\ end \in i + 1 .. Len(s) /\ s[end].tag = "</caption>"
        /\ \A l \in i + 1 .. end - 1 : s[l].tag # "</caption>"
    BY <1>2, <1>3
  <2>3. ASSUME CaptionKept(s, i) PROVE \E j \in i .. end : s[j].id # 0
    BY <2>2, <2>3 DEF CaptionKept
  <2>4. ASSUME \E j \in i .. end : s[j].id # 0 PROVE CaptionKept(s, i)
    BY <2>1, <2>4 DEF CaptionKept
  <2> QED
    BY <2>3, <2>4
<1> QED
  BY <1>1, <1>2, <1>3

LEMMA ShapeCaption == ShapeInv /\ NextCaption => ShapeInv'
<1> SUFFICES ASSUME ShapeInv, NextCaption PROVE ShapeInv'
  OBVIOUS
<1> DEFINE s == clean_html
           t == clean_html'
           pos == caption_pos
           from == First(s, {"<caption"}, pos)
           end == First(s, {"</caption>"}, from)
           empty == \A i \in from + 1 .. end - 1 : s[i].id = 0
<1>1. /\ html_output' = html_output /\ window' = window
      /\ has_html' = has_html /\ pass = "captions"
  BY DEF NextCaption
<1>2. s \in Seq(Tokens) /\ KnownInv /\ pos \in 1 .. Len(s) + 1 /\ has_html = TRUE
  BY <1>1 DEF ShapeInv, KnownInv, ExtractTypeOK, BeforeHead
<1>3. Captioned(s)
  BY <1>1 DEF ShapeInv, ElementInv
<1>4. NoTitle(s) /\ NoStyle(s) /\ CaptionsKept(s, pos - 1)
  BY <1>1, <1>2 DEF ShapeInv, TidyInv
<1>5. IsFirst(from, s, {"<caption"}, pos)
  BY <1>2, FirstIs
<1>6. from # 0 => /\ from \in pos .. Len(s) /\ s[from].tag = "<caption"
                  /\ IsFirst(end, s, {"</caption>"}, from)
  <2> SUFFICES ASSUME from # 0
               PROVE  /\ from \in pos .. Len(s) /\ s[from].tag = "<caption"
                      /\ IsFirst(end, s, {"</caption>"}, from)
    OBVIOUS
  <2>1. from \in pos .. Len(s) /\ s[from].tag = "<caption"
    <3> HIDE DEF from
    <3> QED
      BY <1>5 DEF IsFirst
  <2>2. from \in Nat \ {0}
    BY <1>2, <2>1
  <2> HIDE DEF from
  <2> QED
    BY <1>2, <2>1, <2>2, FirstIs
<1>7. \/ from = 0 /\ pass' = "table" /\ t = s /\ caption_pos' = pos
      \/ from # 0 /\ end = 0 /\ caption_pos' = from + 1 /\ pass' = pass /\ t = s
      \/ from # 0 /\ end # 0 /\ empty /\ t = Cut(s, from, end) /\ caption_pos' = from
         /\ pass' = pass
      \/ from # 0 /\ end # 0 /\ ~empty /\ caption_pos' = end + 1 /\ pass' = pass /\ t = s
  BY DEF NextCaption, KeptCaption
<1> HIDE DEF from, end, s, t, pos
\* What each round has to show.
<1> DEFINE Done(n) ==
             t \in Seq(Tokens) /\ Captioned(t) /\ NoTitle(t) /\ NoStyle(t) /\ CaptionsKept(t, n)
<1>8. CASE from = 0
  <2>1. \A i \in 1 .. Len(s) : s[i].tag = "<caption" => i \in 1 .. pos - 1
    BY <1>2, <1>5, <1>8 DEF IsFirst
  <2>2. CaptionsKept(s, Len(s))
    BY <1>4, <2>1 DEF CaptionsKept
  <2>3. /\ pass' = "table" /\ t = s /\ caption_pos' = pos /\ Done(Len(t))
        /\ caption_pos' \in 1 .. Len(t) + 1
    BY <1>2, <1>3, <1>4, <1>7, <1>8, <2>2
  <2>4. KnownInv'
    BY <1>1, <1>2, <2>3 DEF KnownInv, ExtractTypeOK, BeforeHead, t
  <2>5. ElementInv' /\ TidyInv'
    BY <1>1, <2>3 DEF ElementInv, TidyInv, BeforeHead, t
  <2> QED
    BY <2>4, <2>5 DEF ShapeInv
<1>9. ASSUME pass' = "captions", Done(caption_pos' - 1), caption_pos' \in 1 .. Len(t) + 1
      PROVE  ShapeInv'
  <2>1. KnownInv'
    BY <1>1, <1>2, <1>9 DEF KnownInv, ExtractTypeOK, BeforeHead, t
  <2>2. ElementInv' /\ TidyInv'
    BY <1>1, <1>9 DEF ElementInv, TidyInv, BeforeHead, t
  <2> QED
    BY <2>1, <2>2 DEF ShapeInv
<1>10. \A i \in 1 .. from - 1 : s[i].tag = "<caption" => CaptionKept(s, i)
  <2> SUFFICES ASSUME NEW i \in 1 .. from - 1, s[i].tag = "<caption" PROVE CaptionKept(s, i)
    OBVIOUS
  <2>1. i \in 1 .. pos - 1
    BY <1>2, <1>5 DEF IsFirst
  <2> QED
    BY <1>4, <2>1 DEF CaptionsKept
<1>11. CASE from # 0
  <2>1. /\ from \in pos .. Len(s) /\ from \in 1 .. Len(s) /\ s[from].tag = "<caption"
        /\ IsFirst(end, s, {"</caption>"}, from) /\ Len(s) \in Nat
    BY <1>2, <1>6, <1>11
  <2>2. /\ end = 0 => CaptionKept(s, from)
        /\ end # 0 =>
              /\ end \in from + 1 .. Len(s) /\ s[end].tag = "</caption>"
              /\ \A k \in from .. end - 1 : s[k].tag # "</caption>"
              /\ CaptionKept(s, from) <=> \E j \in from .. end : s[j].id # 0
    BY <2>1, FirstCaptionEnd
  <2>3. CASE end = 0
    <3>1. pass' = "captions" /\ caption_pos' = from + 1 /\ t = s
      BY <1>1, <1>7, <1>11, <2>3
    <3>2. CaptionsKept(s, from)
      BY <1>10, <2>1, <2>2, <2>3 DEF CaptionsKept
    <3>3. caption_pos' - 1 = from /\ caption_pos' \in 1 .. Len(t) + 1
      BY <2>1, <3>1
    <3>4. Done(from)
      BY <1>2, <1>3, <1>4, <3>1, <3>2
    <3> HIDE DEF Done
    <3> QED
      BY <1>9, <3>1, <3>3, <3>4
  <2>4. CASE end # 0 /\ ~empty
    <3>1. pass' = "captions" /\ caption_pos' = end + 1 /\ t = s
      BY <1>1, <1>7, <1>11, <2>4
    <3>2. CaptionKept(s, from)
      <4>1. PICK j \in from + 1 .. end - 1 : s[j].id # 0
        BY <2>4
      <4>2. j \in from .. end
        BY <2>1, <2>2, <2>4
      <4> QED
        BY <2>2, <2>4, <4>1, <4>2
    <3>3. ASSUME NEW i \in from + 1 .. end, s[i].tag = "<caption" PROVE FALSE
      <4>1. i # end /\ i \in 1 .. Len(s) /\ from < i /\ s[i].tag \notin {"text"}
        BY <2>1, <2>2, <2>4, <3>3
      <4>2. PICK k \in from + 1 .. i : s[k].tag = "</caption>"
        BY <1>3, <2>1, <4>1 DEF Captioned, Only
      <4>3. k \in from .. end - 1
        BY <2>1, <2>2, <2>4, <4>1
      <4> QED
        BY <2>2, <2>4, <4>2, <4>3
    <3>4. CaptionsKept(s, end)
      <4> SUFFICES ASSUME NEW i \in 1 .. end, s[i].tag = "<caption" PROVE CaptionKept(s, i)
        BY DEF CaptionsKept
      <4>1. i \in 1 .. from - 1 \/ i = from
        BY <2>1, <2>2, <2>4, <3>3
      <4> QED
        BY <1>10, <3>2, <4>1
    <3>5. caption_pos' - 1 = end /\ caption_pos' \in 1 .. Len(t) + 1
      BY <2>1, <2>2, <2>4, <3>1
    <3>6. Done(end)
      BY <1>2, <1>3, <1>4, <3>1, <3>4
    <3> HIDE DEF Done
    <3> QED
      BY <1>9, <3>1, <3>5, <3>6
  <2>5. CASE end # 0 /\ empty
    <3>1. pass' = "captions" /\ caption_pos' = from /\ t = Cut(s, from, end)
      BY <1>1, <1>7, <1>11, <2>5
    <3> DEFINE p == from - 1
               d == end - from + 1
    <3>2. t \in Seq(Tokens) /\ Spliced(t, s, p, p, d)
      <4>1. end \in from .. Len(s)
        BY <2>1, <2>2, <2>5
      <4> QED
        BY <1>2, <2>1, <3>1, <4>1, CutIs
    <3>3. Captioned(t)
      <4>1. /\ end \in 0 .. Len(s)
            /\ \A j \in from + 1 .. Len(s) : s[j].tag \notin {"text"} =>
                 \E k \in from + 1 .. j : s[k].tag = "</caption>"
        BY <1>3, <2>1, <2>2, <2>5 DEF Captioned, Only
      <4>2. s[from].tag \notin {"text"} /\ s[from].tag # "</caption>"
        BY <2>1
      <4>3. Only(Cut(s, from, end), "<caption", "</caption>", {"text"})
        BY <1>2, <1>3, <2>1, <4>1, <4>2, OnlyCut DEF Captioned
      <4> QED
        BY <3>1, <4>3 DEF Captioned
    <3>4. p <= p + d /\ (\A i \in p + 1 .. p : FALSE) /\ p + 1 = from
      BY <2>1, <2>2, <2>5
    <3> HIDE DEF p, d
    <3>5. NoTitle(t)
      BY <1>4, <3>2, <3>4, NeverSpliced DEF NoTitle
    <3>6. NoStyle(t)
      BY <1>4, <3>2, <3>4, StyleSpliced
    <3>7. p \in Nat /\ p <= Len(t) /\ p + 1 <= Len(s) /\ \A i \in 1 .. p : t[i] = s[i]
      BY <2>1, <3>2, <3>4 DEF Spliced
    <3>8. CaptionsKept(t, p)
      <4> SUFFICES ASSUME NEW i \in 1 .. p, t[i].tag = "<caption" PROVE CaptionKept(t, i)
        BY DEF CaptionsKept
      <4>1. i \in 1 .. from - 1 /\ s[i].tag = "<caption"
        BY <3>4, <3>7
      <4>2. CaptionKept(s, i)
        BY <1>10, <4>1
      <4>3. p + 1 <= Len(s) /\ s[p + 1].tag \notin {"text", "</caption>"}
        BY <2>1, <3>4, <3>7
      <4> QED
        BY <1>3, <3>2, <4>1, <4>2, <4>3, KeptBefore
    <3>9. caption_pos' - 1 = p /\ caption_pos' \in 1 .. Len(t) + 1
      BY <3>1, <3>2, <3>4, <3>7
    <3>10. Done(p)
      BY <3>2, <3>3, <3>5, <3>6, <3>8
    <3> HIDE DEF Done
    <3> QED
      BY <1>9, <3>1, <3>9, <3>10
  <2> QED
    BY <2>3, <2>4, <2>5
<1> QED
  BY <1>8, <1>11

\* The table that is put in has its tags at both ends and rows in between.
FlatTable(t) ==
  /\ t \in Seq(Tokens) /\ Len(t) \in Nat /\ Len(t) >= 4
  /\ t[1].tag = "<table" /\ t[Len(t)].tag = "</table>"
  /\ \A i \in 1 .. Len(t) :
       /\ t[i].attrs = {} /\ t[i].tag \in RebuiltTags
       /\ t[i].tag = "</table>" => i = Len(t)
       /\ i \in 3 .. Len(t) - 2 => t[i].tag = "row"

LEMMA RebuiltFlat ==
  ASSUME NEW s \in Seq(Tokens), NoStyle(s)
  PROVE  FlatTable(Rebuilt(s))
<1> DEFINE r == Keep(s, {"row"})
           n == Len(r)
           t == Rebuilt(s)
           U == {x \in Tokens : x.attrs = {}}
<1>1. /\ t \in Seq(Tokens) /\ n \in Nat /\ Len(t) = n + 4
      /\ t[1] = Structure("<table") /\ t[2] = Structure("<tbody>")
      /\ \A i \in 1 .. n : t[2 + i] = r[i]
      /\ t[n + 3] = Structure("</tbody>") /\ t[n + 4] = Structure("</table>")
  BY RebuiltIs
<1>2. \A i \in 1 .. n : r[i].attrs = {} /\ r[i].tag = "row"
  <2>1. \A i \in 1 .. Len(s) : s[i] \in U
    BY DEF NoStyle
  <2>2. s \in Seq(U)
    <3> HIDE DEF U
    <3> QED
      BY <2>1, SeqWithin
  <2>3. r \in Seq(OfTags(U, {"row"}))
    <3> HIDE DEF U
    <3> QED
      BY <2>2, KeepIs
  <2>4. \A x \in OfTags(U, {"row"}) : x.attrs = {} /\ x.tag = "row"
    BY DEF OfTags
  <2> HIDE DEF r, U
  <2> QED
    BY <2>3, <2>4
<1> HIDE DEF t, r, n
<1>3. /\ t[1].tag = "<table" /\ t[2].tag = "<tbody>" /\ t[n + 3].tag = "</tbody>"
      /\ t[n + 4].tag = "</table>" /\ t[1].attrs = {} /\ t[2].attrs = {}
      /\ t[n + 3].attrs = {} /\ t[n + 4].attrs = {}
  BY <1>1 DEF Structure
<1>4. \A i \in 3 .. n + 2 : t[i].attrs = {} /\ t[i].tag = "row"
  <2> TAKE i \in 3 .. n + 2
  <2> DEFINE j == i - 2
  <2>1. j \in 1 .. n /\ 2 + j = i
    BY <1>1
  <2> HIDE DEF j
  <2>2. t[2 + j] = r[j]
    BY <1>1, <2>1
  <2> QED
    BY <1>2, <2>1, <2>2
<1>5. ASSUME NEW i \in 1 .. Len(t)
      PROVE  /\ t[i].attrs = {} /\ t[i].tag \in RebuiltTags
             /\ t[i].tag = "</table>" => i = Len(t)
             /\ i \in 3 .. Len(t) - 2 => t[i].tag = "row"
  <2>1. i = 1 \/ i = 2 \/ i \in 3 .. n + 2 \/ i = n + 3 \/ i = n + 4
    BY <1>1
  <2>2. Len(t) = n + 4 /\ n \in Nat /\ (i \in 3 .. Len(t) - 2 <=> i \in 3 .. n + 2)
    BY <1>1
  <2>3. CASE i = 1
    BY <1>3, <2>2, <2>3 DEF RebuiltTags
  <2>4. CASE i = 2
    BY <1>3, <2>2, <2>4 DEF RebuiltTags
  <2>5. CASE i \in 3 .. n + 2
    BY <1>4, <2>2, <2>5 DEF RebuiltTags
  <2>6. CASE i = n + 3
    BY <1>3, <2>2, <2>6 DEF RebuiltTags
  <2>7. CASE i = n + 4
    BY <1>3, <2>2, <2>7 DEF RebuiltTags
  <2> QED
    BY <2>1, <2>3, <2>4, <2>5, <2>6, <2>7
<1>6. Len(t) \in Nat /\ Len(t) >= 4 /\ t[Len(t)].tag = "</table>"
  BY <1>1, <1>3
<1> QED
  BY <1>1, <1>3, <1>5, <1>6 DEF FlatTable, t

LEMMA Offset ==
  \A a, b, n \in Nat : b - a + 1 = n =>
    \A i \in a .. b : /\ i - a + 1 \in 1 .. n /\ (i # b => i - a + 1 # n)
                     /\ i \in a + 2 .. b - 2 => i - a + 1 \in 3 .. n - 2
OBVIOUS

\* A table from `table' to `end' replaced by a flat one.
LEMMA FlatReplaced ==
  ASSUME NEW s \in Seq(Tokens), Captioned(s), NoTitle(s), NoStyle(s), CaptionsKept(s, Len(s)),
         NEW table \in 1 .. Len(s), s[table].tag = "<table",
         \A i \in 1 .. table - 1 : s[i].tag # "<table",
         NEW to \in table .. Len(s), NEW by, FlatTable(by)
  PROVE  LET t == Replace(s, table, to, by)
         IN  /\ t \in Seq(Tokens) /\ NoTitle(t) /\ NoStyle(t)
             /\ CaptionsKept(t, Len(t)) /\ RowsOnly(t)
<1> DEFINE t == Replace(s, table, to, by)
           p == table - 1
           q == p + Len(by)
           d == to - q
           n == Len(by)
<1>1. by \in Seq(Tokens) /\ n \in Nat /\ n >= 4 /\ by[1].tag = "<table" /\ by[n].tag = "</table>"
      /\ \A i \in 1 .. n :
           /\ by[i].attrs = {} /\ by[i].tag \in RebuiltTags
           /\ by[i].tag = "</table>" => i = n
           /\ i \in 3 .. n - 2 => by[i].tag = "row"
  BY DEF FlatTable
<1>2. t \in Seq(Tokens) /\ EditedAt(t, s, table, to, by)
  <2>1. table \in 1 .. Len(s) + 1 /\ to \in 0 .. Len(s)
    OBVIOUS
  <2> QED
    BY <1>1, <2>1, EditIs
<1> HIDE DEF t
<1>3. /\ Spliced(t, s, p, q, d)
      /\ \A i \in table .. q : i - table + 1 \in 1 .. n /\ t[i] = by[i - table + 1]
  BY <1>2 DEF EditedAt
<1>4. /\ p + 1 = table /\ p \in Nat /\ q = p + n /\ q \in Nat /\ d \in Int /\ p <= q + d
      /\ Len(s) \in Nat
  BY <1>1
<1> HIDE DEF p, q, d, n
<1>5. Len(t) \in Nat /\ q \in p .. Len(t) /\ Len(t) + d = Len(s) /\ q + d \in Nat
  BY <1>3 DEF Spliced
<1>6. \A i \in p + 1 .. q : t[i].attrs = {} /\ t[i].tag \in RebuiltTags
  <2> TAKE i \in p + 1 .. q
  <2> DEFINE j == i - table + 1
  <2>1. i \in table .. q
    BY <1>4
  <2>2. j \in 1 .. n /\ t[i] = by[j]
    BY <1>3, <2>1
  <2> HIDE DEF j
  <2> QED
    BY <1>1, <2>2
<1>7. NoStyle(t)
  BY <1>3, <1>6, StyleSpliced
<1>8. NoTitle(t)
  <2>1. \A i \in p + 1 .. q : t[i].tag # "<titlediv" /\ t[i].tag # "</div>"
    BY <1>6 DEF RebuiltTags
  <2> QED
    BY <1>3, <1>4, <2>1, NeverSpliced DEF NoTitle
<1>9. CaptionsKept(t, Len(t))
  <2> SUFFICES ASSUME NEW i \in 1 .. Len(t), t[i].tag = "<caption" PROVE CaptionKept(t, i)
    BY DEF CaptionsKept
  <2>1. CASE i \in 1 .. p
    <3>1. t[i] = s[i] /\ i \in 1 .. Len(s)
      BY <1>3, <1>4, <2>1 DEF Spliced
    <3>2. CaptionKept(s, i) /\ s[i].tag = "<caption"
      BY <3>1 DEF CaptionsKept
    <3>3. p + 1 <= Len(s) /\ s[p + 1].tag \notin {"text", "</caption>"}
      BY <1>4, SMTT(30)
    <3> QED
      BY <1>3, <2>1, <3>2, <3>3, KeptBefore
  <2>2. CASE i \in p + 1 .. q
    BY <1>6, <2>2 DEF RebuiltTags
  <2>3. CASE i \in q + 1 .. Len(t)
    <3> DEFINE j == i + d
    <3>1. t[i] = s[j]
      BY <1>3, <2>3 DEF Spliced
    <3>2. j \in 1 .. Len(s)
      BY <1>4, <1>5, <2>3, SMTT(40)
    <3>3. CaptionKept(s, j)
      <4> HIDE DEF j
      <4> QED
        BY <3>1, <3>2 DEF CaptionsKept
    <3> QED
      BY <1>3, <2>3, <3>3, KeptBehind
  <2> QED
    BY <1>4, <1>5, <2>1, <2>2, <2>3
<1>10. RowsOnly(t)
  <2> DEFINE first == First(t, {"<table"}, 1)
             end == First(t, {"</table>"}, table)
  <2>1. \A i \in table .. q : i - table + 1 \in 1 .. n /\ t[i] = by[i - table + 1]
    BY <1>3
  <2>2. table \in 1 .. q /\ q \in table .. Len(t) /\ table \in Nat \ {0}
    BY <1>1, <1>4, <1>5
  <2>11. \A i \in table .. q :
           /\ i - table + 1 \in 1 .. n /\ (i # q => i - table + 1 # n)
           /\ i \in table + 2 .. q - 2 => i - table + 1 \in 3 .. n - 2
    <3>1. table \in Nat /\ q \in Nat /\ n \in Nat /\ q - table + 1 = n
      BY <1>1, <1>4
    <3> QED
      BY ONLY <3>1, Offset
  <2>3. t[table].tag = "<table"
    <3>1. table \in table .. q /\ table - table + 1 = 1
      BY <2>2
    <3> QED
      BY <1>1, <2>1, <3>1
  <2>4. \A i \in 1 .. table - 1 : t[i].tag # "<table"
    <3> TAKE i \in 1 .. table - 1
    <3>1. i \in 1 .. p /\ i \in 1 .. table - 1
      BY <1>4
    <3>2. t[i] = s[i]
      BY <1>3, <3>1 DEF Spliced
    <3> QED
      BY <3>1, <3>2
  <2>5. first = table
    <3>1. IsFirst(table, t, {"<table"}, 1)
      BY <1>5, <2>2, <2>3, <2>4 DEF IsFirst
    <3>2. IsFirst(first, t, {"<table"}, 1)
      BY <1>2, FirstIs
    <3> HIDE DEF first
    <3> QED
      BY <1>5, <3>1, <3>2, FirstUnique
  <2>6. t[q].tag = "</table>"
    <3>1. q \in table .. q /\ q - table + 1 = n
      BY <1>1, <1>4, <2>2
    <3> QED
      BY <1>1, <2>1, <3>1
  <2>7. \A i \in table .. q - 1 : t[i].tag # "</table>"
    <3> TAKE i \in table .. q - 1
    <3> DEFINE j == i - table + 1
    <3>0. i \in table .. q /\ i # q
      BY ONLY <2>2, i \in table .. q - 1
    <3>1. i \in table .. q /\ j \in 1 .. n /\ j # n
      BY <2>11, <3>0
    <3>2. t[i] = by[j]
      BY <2>1, <3>1
    <3> HIDE DEF j
    <3> QED
      BY <1>1, <3>1, <3>2
  <2>8. end = q
    <3>1. IsFirst(q, t, {"</table>"}, table)
      BY <2>2, <2>6, <2>7 DEF IsFirst
    <3>2. IsFirst(end, t, {"</table>"}, table)
      BY <1>2, <2>2, FirstIs
    <3> HIDE DEF end
    <3> QED
      BY <1>5, <2>2, <3>1, <3>2, FirstUnique
  <2>9. \A i \in table + 2 .. q - 2 : t[i].tag = "row"
    <3> TAKE i \in table + 2 .. q - 2
    <3> DEFINE j == i - table + 1
    <3>0. i \in table .. q /\ i \in table + 2 .. q - 2
      BY ONLY <2>2, i \in table + 2 .. q - 2
    <3>1. i \in table .. q /\ j \in 1 .. n /\ j \in 3 .. n - 2
      BY <2>11, <3>0
    <3>2. t[i] = by[j]
      BY <2>1, <3>1
    <3> HIDE DEF j
    <3> QED
      BY <1>1, <3>1, <3>2
  <2>10. First(t, {"</table>"}, first) = end
    BY <2>5
  <2> HIDE DEF first, end
  <2> QED
    BY <2>5, <2>8, <2>9, <2>10 DEF RowsOnly, first
<1> QED
  BY <1>2, <1>7, <1>8, <1>9, <1>10 DEF t

LEMMA ShapeFlatten == ShapeInv /\ FlattenTable => ShapeInv'
<1> SUFFICES ASSUME ShapeInv, FlattenTable PROVE ShapeInv'
  OBVIOUS
<1> DEFINE s == clean_html
           t == clean_html'
           table == First(s, {"<table"}, 1)
           end == First(s, {"</table>"}, table)
<1>1. /\ html_output' = html_output /\ window' = window /\ caption_pos' = caption_pos
      /\ has_html' = has_html /\ pass = "table" /\ pass' = "done"
  BY DEF FlattenTable
<1>2. s \in Seq(Tokens) /\ KnownInv /\ has_html = TRUE
  BY <1>1 DEF ShapeInv, KnownInv, ExtractTypeOK, BeforeHead
<1>3. Captioned(s)
  BY <1>1 DEF ShapeInv, ElementInv
<1>4. NoTitle(s) /\ NoStyle(s) /\ CaptionsKept(s, Len(s))
  BY <1>1, <1>2 DEF ShapeInv, TidyInv
<1>5. t \in Seq(Tokens) /\ NoTitle(t) /\ NoStyle(t) /\ CaptionsKept(t, Len(t)) /\ RowsOnly(t)
  <2>1. CASE table # 0 /\ end # 0
    <3> DEFINE to == end - 1
               sub == SubSeq(s, table, end)
               by == Rebuilt(sub)
    <3>1. t = Replace(s, table, to, by)
      BY <2>1 DEF FlattenTable, RebuiltUpTo
    <3>2. IsFirst(table, s, {"<table"}, 1)
      BY <1>2, FirstIs
    <3>3. table # 0 /\ end # 0
      BY <2>1
    <3>4. /\ table \in 1 .. Len(s) /\ s[table].tag = "<table"
          /\ \A i \in 1 .. table - 1 : s[i].tag # "<table"
      <4> HIDE DEF table
      <4> QED
        BY <3>2, <3>3 DEF IsFirst
    <3>5. IsFirst(end, s, {"</table>"}, table)
      <4>1. table \in Nat \ {0}
        BY <3>4
      <4> HIDE DEF table
      <4> QED
        BY <1>2, <4>1, FirstIs
    <3> HIDE DEF table, end
    <3>6. end \in table + 1 .. Len(s)
      <4>1. end \in table .. Len(s) /\ s[end].tag = "</table>"
        BY <3>3, <3>5 DEF IsFirst
      <4>2. end # table
        BY <3>4, <4>1
      <4> QED
        BY <3>4, <4>1, <4>2
    <3>7. to \in table .. Len(s) /\ end \in 0 .. Len(s) /\ table \in 1 .. Len(s) + 1
      BY <3>4, <3>6
    <3>8. sub \in Seq(Tokens) /\ NoStyle(sub)
      <4>1. sub \in Seq(Tokens) /\ Len(sub) = (IF table <= end THEN end - table + 1 ELSE 0)
            /\ \A i \in 1 .. Len(sub) : sub[i] = s[table + i - 1]
        BY <1>2, <3>7, PartIs
      <4> HIDE DEF sub
      <4>2. ASSUME NEW i \in 1 .. Len(sub) PROVE sub[i].attrs = {}
        <5>1. table + i - 1 \in 1 .. Len(s)
          BY <3>4, <3>6, <4>1
        <5> QED
          BY <1>4, <4>1, <5>1 DEF NoStyle
      <4> QED
        BY <4>1, <4>2 DEF NoStyle
    <3> HIDE DEF sub
    <3>9. FlatTable(by)
      BY <3>8, RebuiltFlat
    <3> HIDE DEF by, to
    <3> QED
      BY <1>2, <1>3, <1>4, <3>1, <3>4, <3>7, <3>9, FlatReplaced
  <2>2. CASE ~(table # 0 /\ end # 0)
    <3>1. t = s
      BY <2>2 DEF FlattenTable
    <3>2. RowsOnly(s)
      BY <2>2 DEF RowsOnly
    <3> QED
      BY <1>2, <1>4, <3>1, <3>2
  <2> QED
    BY <2>1, <2>2
<1> HIDE DEF t
<1>6. KnownInv'
  BY <1>1, <1>2, <1>5 DEF KnownInv, ExtractTypeOK, BeforeHead, t
<1>7. ElementInv' /\ TidyInv'
  BY <1>1, <1>5 DEF ElementInv, TidyInv, BeforeHead, t
<1> QED
  BY <1>6, <1>7 DEF ShapeInv

LEMMA ShapeNext == ShapeInv /\ [ExtractNext]_extractVars => ShapeInv'
<1> SUFFICES ASSUME ShapeInv, [ExtractNext]_extractVars PROVE ShapeInv'
  OBVIOUS
<1>1. CASE UNCHANGED extractVars
  BY <1>1 DEF ShapeInv, KnownInv, ElementInv, TidyInv, ExtractTypeOK, extractVars
<1> QED
  BY <1>1, ShapeExtract, ShapeMerge, ShapeTitle, ShapeAttributes, ShapeHead, ShapeCaption,
     ShapeFlatten DEF ExtractNext

LEMMA ShapeAlways == ExtractSpec => []ShapeInv
BY ShapeInit, ShapeNext, PTL DEF ExtractSpec

(***************************************************************************)
(* The variables have their types; in particular the position from which   *)
(* the next caption is looked for never leaves the text.                   *)
(***************************************************************************)
THEOREM ExtractTypes == ExtractSpec => []ExtractTypeOK
<1>1. ShapeInv => ExtractTypeOK
  BY DEF ShapeInv, KnownInv
<1> QED
  BY <1>1, ShapeAlways, PTL

(***************************************************************************)
(* Wherever what was read begins and ends: after the passes there is no    *)
(* title that could be removed, no style and no empty caption, and the     *)
(* first table has only rows in it.                                        *)
(***************************************************************************)
THEOREM ExtractSimplified == ExtractSpec => []Simplified
<1>1. ShapeInv => Simplified
  <2> SUFFICES ASSUME ShapeInv, pass = "done", has_html PROVE Simplified
    BY DEF Simplified
  <2> DEFINE s == clean_html
  <2>1. s \in Seq(Tokens)
    BY DEF ShapeInv, KnownInv, ExtractTypeOK
  <2>2. NoTitle(s) /\ NoStyle(s) /\ CaptionsKept(s, Len(s)) /\ RowsOnly(s)
    BY DEF ShapeInv, TidyInv
  <2>3. Len(s) \in Nat /\ DOMAIN s = 1 .. Len(s)
    BY <2>1
  <2>4. Titles(s) = {}
    BY <2>1, <2>2, NoTitles
  <2>5. \A i \in DOMAIN s : s[i].attrs = {}
    BY <2>2, <2>3 DEF NoStyle
  <2>6. ASSUME NEW i \in DOMAIN s, s[i].tag = "<caption",
               First(s, {"</caption>"}, i) # 0
        PROVE  \E j \in i .. First(s, {"</caption>"}, i) : s[j].id # 0
    <3> DEFINE end == First(s, {"</caption>"}, i)
    <3>1. i \in 1 .. Len(s) /\ CaptionKept(s, i)
      BY <2>2, <2>3, <2>6 DEF CaptionsKept
    <3>2. IsFirst(end, s, {"</caption>"}, i) /\ end # 0
      BY <2>1, <2>6, <3>1, FirstIs
    <3> HIDE DEF end
    <3>3. \E j \in i .. end : s[j].id # 0
      BY <2>3, <2>6, <3>1, <3>2, FirstCaptionEnd
    <3> QED
      BY <3>3 DEF end
  <2> QED
    BY <2>2, <2>4, <2>5, <2>6 DEF Simplified, RowsOnly
<1> QED
  BY <1>1, ShapeAlways, PTL

-----------------------------------------------------------------------------
(***************************************************************************)
(* From here on, nothing of another execution stands before the output.    *)
(***************************************************************************)
Closers == {"</html>", "</div>", "</table>"}

\* Nothing ends before the start, so that a text is cut out from there.
ExactInv ==
  FromItsStart =>
    /\ \A i \in 1 .. Start(html_output) - 1 : html_output[i].tag \notin Closers
    /\ pass = "colgroups" =>
         /\ End \in Start(html_output) .. Len(html_output)
         /\ html_output[End].tag \in Closers
         /\ clean_html = SubSeq(html_output, Start(html_output), End)

LEMMA FirstOfPart ==
  ASSUME NEW s, NEW t, Len(s) \in Nat, Len(t) \in Nat, Len(t) <= Len(s),
         \A i \in 1 .. Len(t) : t[i] = s[i], NEW tags, NEW m, NEW n,
         IsFirst(m, t, tags, 1), IsFirst(n, s, tags, 1)
  PROVE  /\ m # 0 => n = m
         /\ m = 0 => n = 0 \/ n > Len(t)
<1>1. m \in 0 .. Len(t) /\ n \in 0 .. Len(s)
  BY DEF IsFirst
<1>2. ASSUME m # 0 PROVE n = m
  <2>1. m \in 1 .. Len(t) /\ t[m].tag \in tags /\ \A i \in 1 .. m - 1 : t[i].tag \notin tags
    BY <1>2 DEF IsFirst
  <2>2. m \in 1 .. Len(s) /\ s[m].tag \in tags /\ \A i \in 1 .. m - 1 : s[i].tag \notin tags
    BY <2>1
  <2>3. IsFirst(m, s, tags, 1)
    BY <2>2 DEF IsFirst
  <2> QED
    BY <2>3, FirstUnique
<1>3. ASSUME m = 0, n # 0, ~(n > Len(t)) PROVE FALSE
  <2>1. n \in 1 .. Len(t) /\ s[n].tag \in tags
    BY <1>1, <1>3 DEF IsFirst
  <2> QED
    BY <1>3, <2>1 DEF IsFirst
<1> QED
  BY <1>2, <1>3

LEMMA StartOfPart ==
  ASSUME NEW s \in Seq(Tokens), NEW t \in Seq(Tokens), Len(t) <= Len(s),
         \A i \in 1 .. Len(t) : t[i] = s[i],
         NEW x \in 1 .. Len(t), t[x].tag \in StartTags
  PROVE  Start(t) <= Start(s)
<1>1. Len(s) \in Nat /\ Len(t) \in Nat /\ x \in 1 .. Len(s) /\ s[x].tag \in StartTags
  OBVIOUS
<1> DEFINE a == First(t, {"<html"}, 1)
           b == First(t, Divs, 1)
           c == First(t, {"<table"}, 1)
           k == First(s, {"<html"}, 1)
           l == First(s, Divs, 1)
           m == First(s, {"<table"}, 1)
<1>2. /\ Start(t) \in 1 .. Len(t)
      /\ a # 0 => Start(t) = a
      /\ a = 0 /\ b # 0 => Start(t) = b
      /\ a = 0 /\ b = 0 => Start(t) = c
  BY StartIs
<1>3. /\ Start(s) \in 1 .. Len(s)
      /\ k # 0 => Start(s) = k
      /\ k = 0 /\ l # 0 => Start(s) = l
      /\ k = 0 /\ l = 0 => Start(s) = m
  BY <1>1, StartIs
<1>4. /\ IsFirst(a, t, {"<html"}, 1) /\ IsFirst(b, t, Divs, 1) /\ IsFirst(c, t, {"<table"}, 1)
      /\ IsFirst(k, s, {"<html"}, 1) /\ IsFirst(l, s, Divs, 1) /\ IsFirst(m, s, {"<table"}, 1)
  BY FirstIs
<1> HIDE DEF a, b, c, k, l, m
<1>5. (a # 0 => k = a) /\ (a = 0 => k = 0 \/ k > Len(t))
  BY <1>1, <1>4, FirstOfPart
<1>6. (b # 0 => l = b) /\ (b = 0 => l = 0 \/ l > Len(t))
  BY <1>1, <1>4, FirstOfPart
<1>7. (c # 0 => m = c) /\ (c = 0 => m = 0 \/ m > Len(t))
  BY <1>1, <1>4, FirstOfPart
<1> QED
  BY <1>1, <1>2, <1>3, <1>5, <1>6, <1>7

LEMMA ExactInit == ExtractInit => ExactInv
<1> SUFFICES ASSUME ExtractInit, FromItsStart
             PROVE  \A i \in 1 .. Start(html_output) - 1 : html_output[i].tag \notin Closers
  BY DEF ExtractInit, ExactInv
<1>1. PICK before \in Outputs, own \in Outputs :
        \E i \in 0 .. Len(before), j \in 0 .. Len(own) :
          /\ html_output = SubSeq(before, i + 1, Len(before)) \o SubSeq(own, 1, j)
          /\ window = [leftover |-> Len(before) - i, missing |-> Len(own) - j]
  BY DEF ExtractInit
<1>2. PICK m \in 0 .. Len(before), n \in 0 .. Len(own) :
          /\ html_output = SubSeq(before, m + 1, Len(before)) \o SubSeq(own, 1, n)
          /\ window = [leftover |-> Len(before) - m, missing |-> Len(own) - n]
  BY <1>1
<1>3. before \in Seq(Tokens) /\ own \in Seq(Tokens) /\ Printed(own)
  BY ExtractAssumption
<1> DEFINE k == Len(before)
           a == SubSeq(before, m + 1, k)
           b == SubSeq(own, 1, n)
<1>4. m = k
  BY <1>2, <1>3 DEF FromItsStart
<1>5. a = <<>>
  <2>1. m + 1 \in Int /\ k \in Int /\ k < m + 1
    BY <1>3, <1>4
  <2> HIDE DEF k
  <2> QED
    BY <2>1, SubSeqEmpty
<1>6. b \in Seq(Tokens) /\ Len(b) <= Len(own) /\ \A i \in 1 .. Len(b) : b[i] = own[i]
  <2>1. 1 \in 1 .. Len(own) + 1 /\ n \in 0 .. Len(own)
    BY <1>3
  <2>2. b \in Seq(Tokens) /\ Len(b) = (IF 1 <= n THEN n - 1 + 1 ELSE 0)
        /\ \A i \in 1 .. Len(b) : b[i] = own[1 + i - 1]
    BY <1>3, <2>1, PartIs
  <2> HIDE DEF b
  <2>3. Len(b) <= Len(own)
    BY <1>3, <2>2
  <2>4. \A i \in 1 .. Len(b) : 1 + i - 1 = i
    OBVIOUS
  <2> QED
    BY <2>2, <2>3, <2>4
<1>7. html_output = b
  <2>1. html_output = a \o b
    BY <1>2
  <2> HIDE DEF a, b
  <2>2. <<>> \o b = b
    BY ONLY <1>6, ConcatEmptySeq
  <2> QED
    BY <1>5, <2>1, <2>2
<1> HIDE DEF b
<1>8. PICK x \in 1 .. Len(b) : b[x].tag \in StartTags
  <2>1. KnownInv
    BY ShapeInit DEF ShapeInv
  <2> QED
    BY <1>7, <2>1 DEF KnownInv
<1>9. Start(b) <= Start(own) /\ Start(b) \in 1 .. Len(b) /\ Start(own) \in Nat
  <2>1. Start(b) <= Start(own)
    BY <1>3, <1>6, <1>8, StartOfPart
  <2>2. Start(b) \in 1 .. Len(b)
    BY <1>6, <1>8, StartIs
  <2>3. x \in 1 .. Len(own) /\ own[x].tag \in StartTags
    BY <1>3, <1>6, <1>8
  <2>4. Start(own) \in 1 .. Len(own)
    BY <1>3, <2>3, StartIs
  <2> QED
    BY <1>3, <2>1, <2>2, <2>4
<1>10. \A i \in 1 .. Start(own) - 1 : own[i].tag \notin Closers
  BY <1>3 DEF Printed, Closers
<1>11. ASSUME NEW i \in 1 .. Start(b) - 1 PROVE b[i].tag \notin Closers
  <2>1. i \in 1 .. Len(b) /\ i \in 1 .. Start(own) - 1
    BY <1>6, <1>9
  <2> QED
    BY <1>6, <1>10, <2>1
<1> QED
  BY <1>7, <1>11

LEMMA EndIs ==
  ASSUME html_output \in Seq(Tokens), End # 0
  PROVE  End \in 1 .. Len(html_output) /\ html_output[End].tag \in Closers
<1>1. \A tags : IsLast(LastOf(tags), html_output, tags)
  BY LastIs
<1>2. \A tags : LastOf(tags) # 0 =>
        LastOf(tags) \in 1 .. Len(html_output) /\ html_output[LastOf(tags)].tag \in tags
  BY <1>1 DEF IsLast
<1>3. \E tags \in SUBSET Closers : End = LastOf(tags)
  <2>1. {"</html>"} \in SUBSET Closers /\ {"</div>"} \in SUBSET Closers
        /\ {"</table>"} \in SUBSET Closers
    BY DEF Closers
  <2>2. End \in {LastOf({"</html>"}), LastOf({"</div>"}), LastOf({"</table>"})}
    BY DEF End
  <2> QED
    BY <2>1, <2>2
<1> QED
  BY <1>2, <1>3

LEMMA ExactNext == ShapeInv /\ ExactInv /\ [ExtractNext]_extractVars => ExactInv'
<1> SUFFICES ASSUME ShapeInv, ExactInv, [ExtractNext]_extractVars, FromItsStart' PROVE ExactInv'
  BY DEF ExactInv
<1>1. html_output' = html_output /\ window' = window
  BY DEF ExtractNext, Extract, MergeColgroups, RemoveTitle, RemoveStyle, RemoveLabel, RemoveAttribute,
         MoveHeader,
         NextCaption, FlattenTable, extractVars
<1>2. FromItsStart
  BY <1>1 DEF FromItsStart
<1>3. \A i \in 1 .. Start(html_output) - 1 : html_output[i].tag \notin Closers
  BY <1>2 DEF ExactInv
<1>4. Start(html_output)' = Start(html_output) /\ End' = End
  <2>1. Start(html_output)' = Start(html_output)
    BY <1>1
  <2>2. \A tags : LastOf(tags)' = LastOf(tags)
    BY <1>1 DEF LastOf, SelectLastInSeq
  <2>3. IsFragment' = IsFragment
    BY <1>1 DEF IsFragment
  <2> QED
    BY <2>1, <2>2, <2>3 DEF End
<1>5. CASE Extract
  <2>1. html_output \in Seq(Tokens) /\ KnownInv
    BY DEF ShapeInv, KnownInv, ExtractTypeOK
  <2>2. CASE End = 0
    <3>1. pass' = "done"
      BY <1>5, <2>2 DEF Extract
    <3> QED
      BY <1>1, <1>3, <1>4, <3>1 DEF ExactInv
  <2>3. CASE End # 0
    <3> DEFINE n == Start(html_output)
               k == Len(html_output)
               e == End
    <3>1. e \in 1 .. k /\ html_output[e].tag \in Closers
      BY <2>1, <2>3, EndIs
    <3>2. n \in 1 .. k /\ k \in Nat
      <4>1. PICK i \in 1 .. Len(html_output) : html_output[i].tag \in StartTags
        BY <2>1 DEF KnownInv
      <4> QED
        BY <2>1, <4>1, StartIs
    <3>3. \/ e >= n /\ clean_html' = SubSeq(html_output, n, e)
          \/ e < n
          \/ e = n - 1
      BY <1>5, <2>3 DEF Extract
    <3>4. \A i \in 1 .. n - 1 : html_output[i].tag \notin Closers
      BY <1>3
    <3> HIDE DEF n, k, e
    <3>5. e \in n .. k /\ clean_html' = SubSeq(html_output, n, e)
      <4>1. ~(e \in 1 .. n - 1)
        BY <3>1, <3>4
      <4> QED
        BY <3>1, <3>2, <3>3, <4>1
    <3> QED
      BY <1>1, <1>3, <1>4, <3>1, <3>5 DEF ExactInv, n, e, k
  <2> QED
    BY <2>2, <2>3
<1>6. CASE ~Extract
  <2>1. pass' = "colgroups" => pass = "colgroups" /\ clean_html' = clean_html
    BY <1>6 DEF ExtractNext, MergeColgroups, RemoveTitle, NextPass, RemoveStyle, RemoveLabel, RemoveAttribute,
         MoveHeader,
         NextCaption, FlattenTable, extractVars
  <2> QED
    BY <1>1, <1>2, <1>3, <1>4, <2>1 DEF ExactInv
<1> QED
  BY <1>5, <1>6

LEMMA ExactAlways == ExtractSpec => []ExactInv
BY ShapeAlways, ExactInit, ExactNext, PTL DEF ExtractSpec

LEMMA ColgroupsEndKnown == ShapeInv /\ ExactInv => ColgroupsEndFound
<1> SUFFICES ASSUME ShapeInv, ExactInv, pass = "colgroups", FromItsStart,
                    Cardinality(Colgroups(clean_html)) > 1
             PROVE  ColgroupsEnd(clean_html) # 0
  BY DEF ColgroupsEndFound
<1> DEFINE s == clean_html
           n == Start(html_output)
           e == End
           g == LastColgroup(s)
           c == ColgroupsEnd(s)
<1>1. s \in Seq(Tokens) /\ html_output \in Seq(Tokens) /\ Grouped(s) /\ KnownInv
  BY DEF ShapeInv, KnownInv, ElementInv, ExtractTypeOK
<1>2. /\ e \in n .. Len(html_output) /\ html_output[e].tag \in Closers
      /\ s = SubSeq(html_output, n, e)
  BY DEF ExactInv
<1>3. n \in 1 .. Len(html_output)
  <2>1. PICK i \in 1 .. Len(html_output) : html_output[i].tag \in StartTags
    BY <1>1 DEF KnownInv
  <2> QED
    BY <1>1, <2>1, StartIs
<1>4. /\ g \in 1 .. Len(s) /\ s[g].tag = "<colgroup>"
      /\ IsFirst(c, s, {"</colgroup>"}, g)
  BY <1>1, ColgroupsFound
<1> HIDE DEF s, n, e, g, c
<1>5. Len(s) = e - n + 1 /\ s[Len(s)] = html_output[e]
  <2>1. Len(s) = e - n + 1 /\ \A i \in 1 .. Len(s) : s[i] = html_output[n + i - 1]
    BY <1>1, <1>2, <1>3, PartAt
  <2>2. Len(s) \in 1 .. Len(s) /\ n + Len(s) - 1 = e
    BY <1>1, <1>2, <1>3, <2>1
  <2>3. s[Len(s)] = html_output[n + Len(s) - 1]
    BY <2>1, <2>2
  <2> QED
    BY <2>1, <2>2, <2>3
<1> DEFINE z == Len(s)
<1>6. z \in 1 .. Len(s) /\ s[z].tag \notin {"<col/>", "<colgroup>", "</colgroup>"} /\ g < z
  <2>1. s[z].tag \in Closers
    BY <1>2, <1>5
  <2>2. s[z].tag \notin {"<col/>", "<colgroup>", "</colgroup>"}
    BY <2>1 DEF Closers
  <2>3. g # z /\ z \in Nat
    BY <1>1, <1>4, <2>2
  <2> QED
    BY <1>4, <2>2, <2>3
<1>7. g \in 1 .. Len(s) /\ s[g].tag = "<colgroup>" /\ g < z
  BY <1>4, <1>6
<1> HIDE DEF z
<1>8. PICK k \in g + 1 .. z : s[k].tag = "</colgroup>"
  BY <1>1, <1>6, <1>7 DEF Grouped, Only
<1>9. k \in g .. Len(s)
  BY <1>6, <1>8, <1>7 DEF z
<1>10. c # 0
  BY <1>4, <1>8, <1>9 DEF IsFirst
<1> QED
  BY <1>10 DEF c, s

(***************************************************************************)
(* Whatever follows the start of an output was read, the end of its column *)
(* groups is only looked for where there is one: find() + 11 cannot wrap   *)
(* around.                                                                 *)
(***************************************************************************)
THEOREM ExtractColgroups == ExtractSpec => []ColgroupsEndFound
BY ColgroupsEndKnown, ShapeAlways, ExactAlways, PTL

-----------------------------------------------------------------------------
(***************************************************************************)
(* What is shown of a text.                                                *)
(***************************************************************************)
Same(a, b) == a.tag = b.tag /\ a.id = b.id /\ a.attrs = b.attrs

LEMMA SameToken == \A a, b \in Tokens : Same(a, b) => a = b
BY DEF Tokens, Same

LEMMA PlainUnique ==
  ASSUME NEW s, NEW t, NEW u, PlainTo(t, s), PlainTo(u, s)
  PROVE  t = u
<1>1. t \in Seq(Tokens) /\ u \in Seq(Tokens) /\ Len(t) = Len(u)
  BY DEF PlainTo
<1>2. ASSUME NEW i \in 1 .. Len(t) PROVE t[i] = u[i]
  <2>1. i \in 1 .. Len(s)
    BY DEF PlainTo
  <2>2. Same(t[i], u[i])
    BY <2>1 DEF PlainTo, Same
  <2>3. t[i] \in Tokens /\ u[i] \in Tokens
    BY <1>1
  <2> QED
    BY <2>2, <2>3, SameToken
<1>3. \A i \in 1 .. Len(t) : t[i] = u[i]
  BY <1>2
<1> QED
  BY ONLY <1>1, <1>3, SeqEqual

LEMMA PlainSame ==
  ASSUME NEW s \in Seq(Tokens), NoStyle(s)
  PROVE  Plain(s) = s
<1>1. PlainTo(s, s)
  BY DEF PlainTo, NoStyle
<1>2. PlainTo(Plain(s), s)
  BY PlainIs
<1> QED
  BY ONLY <1>1, <1>2, PlainUnique

LEMMA PlainTwice ==
  ASSUME NEW s \in Seq(Tokens)
  PROVE  Plain(s) \in Seq(Tokens) /\ Plain(Plain(s)) = Plain(s)
<1> DEFINE t == Plain(s)
<1>1. PlainTo(t, s)
  BY PlainIs
<1> HIDE DEF t
<1>2. t \in Seq(Tokens) /\ NoStyle(t)
  BY <1>1 DEF PlainTo, NoStyle
<1>3. Plain(t) = t
  BY <1>2, PlainSame
<1> QED
  BY <1>2, <1>3 DEF t

LEMMA PlainConcat ==
  ASSUME NEW a \in Seq(Tokens), NEW b \in Seq(Tokens)
  PROVE  Plain(a \o b) = Plain(a) \o Plain(b)
<1> DEFINE x == Plain(a)
           y == Plain(b)
           c == a \o b
           m == Len(a)
           n == Len(b)
<1>1. PlainTo(x, a) /\ PlainTo(y, b)
  BY PlainIs
<1>2. /\ c \in Seq(Tokens) /\ Len(c) = m + n /\ m \in Nat /\ n \in Nat
      /\ \A i \in 1 .. m + n : c[i] = IF i <= m THEN a[i] ELSE b[i - m]
  BY ConcatProperties
<1> HIDE DEF x, y, c
<1> DEFINE z == x \o y
<1>3. x \in Seq(Tokens) /\ y \in Seq(Tokens) /\ Len(x) = m /\ Len(y) = n
  BY <1>1 DEF PlainTo
<1>4. /\ x \o y \in Seq(Tokens) /\ Len(x \o y) = Len(x) + Len(y)
      /\ \A i \in 1 .. Len(x) + Len(y) :
           (x \o y)[i] = IF i <= Len(x) THEN x[i] ELSE y[i - Len(x)]
  BY ONLY <1>3, ConcatProperties
<1>5. /\ z \in Seq(Tokens) /\ Len(z) = m + n
      /\ \A i \in 1 .. m + n : z[i] = IF i <= m THEN x[i] ELSE y[i - m]
  BY <1>3, <1>4
<1> HIDE DEF z
<1>6. ASSUME NEW i \in 1 .. m + n
      PROVE  z[i].tag = c[i].tag /\ z[i].id = c[i].id /\ z[i].attrs = {}
  <2>1. CASE i <= m
    <3>1. i \in 1 .. Len(a) /\ z[i] = x[i] /\ c[i] = a[i]
      BY <1>2, <1>5, <2>1
    <3> QED
      BY <1>1, <3>1 DEF PlainTo
  <2>2. CASE ~(i <= m)
    <3> DEFINE j == i - m
    <3>1. j \in 1 .. Len(b) /\ z[i] = y[j] /\ c[i] = b[j]
      BY <1>2, <1>5, <2>2
    <3> HIDE DEF j
    <3> QED
      BY <1>1, <3>1 DEF PlainTo
  <2> QED
    BY <2>1, <2>2
<1>7. PlainTo(z, c)
  BY <1>2, <1>5, <1>6 DEF PlainTo
<1>8. PlainTo(Plain(c), c)
  BY <1>2, PlainIs
<1>9. Plain(c) = z
  BY ONLY <1>7, <1>8, PlainUnique
<1> QED
  BY <1>9 DEF z, x, y, c

LEMMA ContentType == \A s \in Seq(Tokens) : Content(s) \in Seq(Tokens)
<1> TAKE s \in Seq(Tokens)
<1> DEFINE t == Plain(s)
<1>1. t \in Seq(Tokens)
  BY PlainTwice
<1> HIDE DEF t
<1>2. Keep(t, Shown) \in Seq(Tokens)
  BY <1>1, KeepType
<1> QED
  BY <1>2 DEF t, Content

LEMMA ContentConcat ==
  ASSUME NEW a \in Seq(Tokens), NEW b \in Seq(Tokens)
  PROVE  Content(a \o b) = Content(a) \o Content(b)
<1> DEFINE x == Plain(a)
           y == Plain(b)
<1>1. Plain(a \o b) = x \o y
  BY PlainConcat
<1>2. x \in Seq(Tokens) /\ y \in Seq(Tokens)
  BY PlainTwice
<1> HIDE DEF x, y
<1>3. Keep(x \o y, Shown) = Keep(x, Shown) \o Keep(y, Shown)
  BY ONLY <1>2, KeepConcat, SMTT(40)
<1> QED
  BY <1>1, <1>3 DEF Content, x, y

LEMMA ContentPlain ==
  ASSUME NEW s \in Seq(Tokens)
  PROVE  Content(Plain(s)) = Content(s)
BY PlainTwice DEF Content

Blank(s) == \A i \in 1 .. Len(s) : s[i].tag \notin Shown

LEMMA ContentNone ==
  ASSUME NEW s \in Seq(Tokens), Blank(s)
  PROVE  Content(s) = <<>>
<1> DEFINE t == Plain(s)
<1>1. PlainTo(t, s)
  BY PlainIs
<1> HIDE DEF t
<1>2. t \in Seq(Tokens) /\ \A i \in 1 .. Len(t) : t[i].tag \notin Shown
  BY <1>1 DEF PlainTo, Blank
<1>3. Keep(t, Shown) = <<>>
  BY <1>2, KeepNone
<1> QED
  BY <1>3 DEF Content, t

\* Nothing of a text is shown between these positions.
Clear(s, from, to, tags) == \A i \in from .. to : s[i].tag \notin tags

LEMMA ContentBlank ==
  ASSUME NEW s \in Seq(Tokens), NEW from \in 1 .. Len(s) + 1, NEW to \in 0 .. Len(s),
         Clear(s, from, to, Shown)
  PROVE  SubSeq(s, from, to) \in Seq(Tokens) /\ Content(SubSeq(s, from, to)) = <<>>
<1> DEFINE t == SubSeq(s, from, to)
<1>1. t \in Seq(Tokens) /\ Len(t) = (IF from <= to THEN to - from + 1 ELSE 0)
      /\ \A i \in 1 .. Len(t) : t[i] = s[from + i - 1]
  BY PartIs
<1> HIDE DEF t
<1>2. Blank(t)
  <2> SUFFICES ASSUME NEW i \in 1 .. Len(t) PROVE t[i].tag \notin Shown
    BY DEF Blank
  <2>1. from + i - 1 \in from .. to
    BY <1>1
  <2> QED
    BY <1>1, <2>1 DEF Clear
<1>3. Content(t) = <<>>
  BY <1>1, <1>2, ContentNone
<1> QED
  BY <1>1, <1>3 DEF t

\* A text is what stands before, at and behind one of its parts.
LEMMA ReplaceSame ==
  ASSUME NEW s \in Seq(Tokens), NEW from \in 1 .. Len(s) + 1, NEW to \in from - 1 .. Len(s)
  PROVE  Replace(s, from, to, SubSeq(s, from, to)) = s
<1> DEFINE by == SubSeq(s, from, to)
           t == Replace(s, from, to, by)
<1>0. to \in 0 .. Len(s) /\ Len(s) \in Nat
  OBVIOUS
<1>1. by \in Seq(Tokens) /\ Len(by) = (IF from <= to THEN to - from + 1 ELSE 0)
      /\ \A i \in 1 .. Len(by) : by[i] = s[from + i - 1]
  BY <1>0, PartIs
<1> HIDE DEF by
<1>2. Len(by) = to - from + 1
  BY <1>0, <1>1
<1>3. t \in Seq(Tokens) /\ EditedAt(t, s, from, to, by)
  BY <1>0, <1>1, EditIs
<1> HIDE DEF t
<1> DEFINE p == from - 1
           q == p + Len(by)
           d == to - q
<1>4. /\ Spliced(t, s, p, q, d)
      /\ \A i \in from .. q : i - from + 1 \in 1 .. Len(by) /\ t[i] = by[i - from + 1]
  BY <1>3 DEF EditedAt
<1>5. q = to /\ d = 0 /\ p \in Nat /\ from \in Nat /\ to \in Nat /\ p + 1 = from
  BY <1>0, <1>2
<1> HIDE DEF p, q, d
<1>6. Len(t) = Len(s) /\ Len(t) \in Nat /\ q <= Len(t)
  BY <1>4, <1>5 DEF Spliced
<1>7. ASSUME NEW i \in 1 .. Len(t) PROVE t[i] = s[i]
  <2>1. CASE i \in 1 .. p
    BY <1>4, <2>1 DEF Spliced
  <2>2. CASE i \in from .. q
    <3> DEFINE j == i - from + 1
    <3>1. j \in 1 .. Len(by) /\ t[i] = by[j] /\ from + j - 1 = i
      BY <1>4, <1>5, <2>2
    <3> HIDE DEF j
    <3> QED
      BY <1>1, <3>1
  <2>3. CASE i \in q + 1 .. Len(t)
    <3>1. t[i] = s[i + d] /\ i + d = i
      BY <1>4, <1>5, <2>3 DEF Spliced
    <3> QED
      BY <3>1
  <2> QED
    BY <1>5, <1>6, <2>1, <2>2, <2>3
<1>8. t \in Seq(Tokens) /\ s \in Seq(Tokens) /\ Len(t) = Len(s)
      /\ \A i \in 1 .. Len(t) : t[i] = s[i]
  BY <1>3, <1>6, <1>7
<1>9. t = s
  BY ONLY <1>8, SeqEqual
<1> QED
  BY <1>9 DEF t, by

LEMMA ContentReplace ==
  ASSUME NEW s \in Seq(Tokens), NEW by \in Seq(Tokens), NEW from \in 1 .. Len(s) + 1,
         NEW to \in 0 .. Len(s)
  PROVE  Content(Replace(s, from, to, by)) =
           (Content(SubSeq(s, 1, from - 1)) \o Content(by))
             \o Content(SubSeq(s, to + 1, Len(s)))
<1> DEFINE a == SubSeq(s, 1, from - 1)
           c == SubSeq(s, to + 1, Len(s))
           ab == a \o by
<1>1. 1 \in 1 .. Len(s) + 1 /\ from - 1 \in 0 .. Len(s) /\ to + 1 \in 1 .. Len(s) + 1
      /\ Len(s) \in 0 .. Len(s)
  OBVIOUS
<1>2. a \in Seq(Tokens) /\ c \in Seq(Tokens)
  BY <1>1, PartIs
<1>3. Replace(s, from, to, by) = ab \o c
  BY DEF Replace
<1> HIDE DEF a, c
<1>4. ab \in Seq(Tokens)
  BY <1>2, ConcatProperties
<1>5. Content(ab) = Content(a) \o Content(by)
  BY <1>2, ContentConcat
<1> HIDE DEF ab
<1>6. Content(ab \o c) = Content(ab) \o Content(c)
  BY ONLY <1>2, <1>4, ContentConcat
<1> QED
  BY <1>3, <1>5, <1>6 DEF a, c

\* An edit that puts in what shows the same as what it takes out.
LEMMA ContentReplaced ==
  ASSUME NEW s \in Seq(Tokens), NEW by \in Seq(Tokens), NEW from \in 1 .. Len(s) + 1,
         NEW to \in from - 1 .. Len(s), Content(SubSeq(s, from, to)) = Content(by)
  PROVE  Content(Replace(s, from, to, by)) = Content(s)
<1> DEFINE b == SubSeq(s, from, to)
<1>1. to \in 0 .. Len(s)
  OBVIOUS
<1>2. b \in Seq(Tokens)
  BY <1>1, PartIs
<1>3. Replace(s, from, to, b) = s /\ Content(b) = Content(by)
  BY ReplaceSame
<1> HIDE DEF b
<1>4. Content(Replace(s, from, to, by)) =
        (Content(SubSeq(s, 1, from - 1)) \o Content(by)) \o Content(SubSeq(s, to + 1, Len(s)))
  BY <1>1, ContentReplace
<1>5. Content(Replace(s, from, to, b)) =
        (Content(SubSeq(s, 1, from - 1)) \o Content(b)) \o Content(SubSeq(s, to + 1, Len(s)))
  BY <1>1, <1>2, ContentReplace
<1> QED
  BY <1>3, <1>4, <1>5

LEMMA ContentCut ==
  ASSUME NEW s \in Seq(Tokens), NEW from \in 1 .. Len(s), NEW to \in from .. Len(s),
         Clear(s, from, to, Shown)
  PROVE  Content(Cut(s, from, to)) = Content(s)
<1> DEFINE by == <<>>
<1>1. by \in Seq(Tokens) /\ Blank(by)
  BY DEF Blank
<1> HIDE DEF by
<1>2. /\ from \in 1 .. Len(s) + 1 /\ to \in from - 1 .. Len(s) /\ to \in 0 .. Len(s)
  OBVIOUS
<1>3. Content(SubSeq(s, from, to)) = Content(by)
  <2>1. Content(SubSeq(s, from, to)) = <<>>
    BY <1>2, ContentBlank
  <2>2. Content(by) = <<>>
    BY <1>1, ContentNone
  <2> QED
    BY <2>1, <2>2
<1>4. Content(Replace(s, from, to, by)) = Content(s)
  BY <1>1, <1>2, <1>3, ContentReplaced
<1> QED
  BY <1>4 DEF Cut, by

(***************************************************************************)
(* Where an edit puts the tokens: those that it keeps stay in their order. *)
(***************************************************************************)
Origin(p, d, i) == IF i <= p THEN i ELSE i + d

InOrder(s, t, p, q, d) ==
  /\ \A i \in 1 .. Len(t) : i \notin p + 1 .. q =>
       /\ Origin(p, d, i) \in 1 .. Len(s) /\ t[i] = s[Origin(p, d, i)]
       /\ Origin(p, d, i) \notin p + 1 .. q + d
  /\ \A x \in 1 .. Len(s) : x \notin p + 1 .. q + d =>
       \E i \in 1 .. Len(t) : i \notin p + 1 .. q /\ Origin(p, d, i) = x
  /\ \A i, j \in 1 .. Len(t) : i \notin p + 1 .. q /\ j \notin p + 1 .. q =>
       (i < j <=> Origin(p, d, i) < Origin(p, d, j))

LEMMA OriginIs ==
  ASSUME NEW s, NEW t, NEW p, NEW q, NEW d, Spliced(t, s, p, q, d), p <= q + d
  PROVE  InOrder(s, t, p, q, d)
<1>1. /\ Len(s) \in Nat /\ Len(t) \in Nat /\ d \in Int /\ q + d \in Nat
      /\ p \in Nat /\ p <= Len(s) /\ q \in Nat /\ p <= q /\ q <= Len(t) /\ Len(t) + d = Len(s)
  BY DEF Spliced
<1>2. /\ \A i \in 1 .. p : t[i] = s[i]
      /\ \A i \in q + 1 .. Len(t) : t[i] = s[i + d]
  BY DEF Spliced
<1>3. ASSUME NEW i \in 1 .. Len(t), i \notin p + 1 .. q
      PROVE  /\ Origin(p, d, i) \in 1 .. Len(s) /\ t[i] = s[Origin(p, d, i)]
             /\ Origin(p, d, i) \notin p + 1 .. q + d
  <2>1. CASE i <= p
    <3>1. i \in 1 .. p /\ i \in 1 .. Len(s) /\ i \notin p + 1 .. q + d
      BY <1>1, <2>1
    <3> QED
      BY <1>2, <2>1, <3>1 DEF Origin
  <2>2. CASE ~(i <= p)
    <3>1. i \in q + 1 .. Len(t) /\ i + d \in 1 .. Len(s) /\ i + d \notin p + 1 .. q + d
      BY <1>1, <1>3, <2>2
    <3>2. Origin(p, d, i) = i + d
      BY <2>2 DEF Origin
    <3> QED
      BY <1>2, <3>1, <3>2
  <2> QED
    BY <2>1, <2>2
<1>4. ASSUME NEW x \in 1 .. Len(s), x \notin p + 1 .. q + d
      PROVE  \E i \in 1 .. Len(t) : i \notin p + 1 .. q /\ Origin(p, d, i) = x
  <2>1. CASE x <= p
    <3>1. x \in 1 .. Len(t) /\ x \notin p + 1 .. q
      BY <1>1, <2>1
    <3> QED
      BY <2>1, <3>1 DEF Origin
  <2>2. CASE ~(x <= p)
    <3> DEFINE i == x - d
    <3>1. i \in 1 .. Len(t) /\ i \notin p + 1 .. q /\ ~(i <= p) /\ i + d = x
      BY <1>1, <1>4, <2>2
    <3> HIDE DEF i
    <3>2. Origin(p, d, i) = x
      BY <3>1 DEF Origin
    <3> QED
      BY <3>1, <3>2
  <2> QED
    BY <2>1, <2>2
<1>5. ASSUME NEW i \in 1 .. Len(t), NEW j \in 1 .. Len(t),
             i \notin p + 1 .. q, j \notin p + 1 .. q
      PROVE  i < j <=> Origin(p, d, i) < Origin(p, d, j)
  <2>1. (i <= p \/ i > q) /\ (j <= p \/ j > q)
    BY <1>1, <1>5
  <2> QED
    BY <1>1, <2>1 DEF Origin
<1> QED
  BY <1>3, <1>4, <1>5 DEF InOrder

\* A table in which there may be anything but a picture and another table.
LEMMA TabledSpliced ==
  ASSUME NEW s, NEW t, NEW p, NEW q, NEW d, Spliced(t, s, p, q, d), p <= q + d, Tabled(s),
         \A i \in p + 1 .. q + d : s[i].tag # "</table>",
         \A i \in p + 1 .. q : t[i].tag \in Tags \ {"<table", "img"}
  PROVE  Tabled(t)
<1>1. InOrder(s, t, p, q, d)
  BY OriginIs
<1> DEFINE inside == Tags \ {"<table", "img"}
<1> SUFFICES ASSUME NEW i \in 1 .. Len(t), NEW j \in 1 .. Len(t), i < j,
                    t[i].tag = "<table", t[j].tag \notin inside
             PROVE  \E k \in i + 1 .. j : t[k].tag = "</table>"
  BY DEF Tabled, Only
<1>2. i \notin p + 1 .. q /\ j \notin p + 1 .. q
  OBVIOUS
<1> DEFINE x == Origin(p, d, i)
           y == Origin(p, d, j)
<1>3. x \in 1 .. Len(s) /\ y \in 1 .. Len(s) /\ x < y /\ t[i] = s[x] /\ t[j] = s[y]
  BY <1>1, <1>2 DEF InOrder
<1> HIDE DEF x, y, inside
<1>4. PICK k \in x + 1 .. y : s[k].tag = "</table>"
  BY <1>3 DEF Tabled, Only, inside
<1>5. k \in 1 .. Len(s) /\ k \notin p + 1 .. q + d /\ x < k /\ ~(y < k)
  BY <1>3, <1>4
<1>6. PICK l \in 1 .. Len(t) : l \notin p + 1 .. q /\ Origin(p, d, l) = k
  BY <1>1, <1>5 DEF InOrder
<1>7. i < l /\ ~(j < l) /\ t[l] = s[k]
  <2>1. i < l <=> x < k
    BY <1>1, <1>2, <1>6 DEF InOrder, x
  <2>2. j < l <=> y < k
    BY <1>1, <1>2, <1>6 DEF InOrder, y
  <2> QED
    BY <1>1, <1>5, <1>6, <2>1, <2>2 DEF InOrder
<1>8. l \in i + 1 .. j
  BY <1>7
<1> QED
  BY <1>4, <1>7, <1>8

Fits(s) ==
  \A i, j \in 1 .. Len(s) :
    i < j /\ s[i].tag = "<tbody>" /\ s[j].tag = "<thead>" =>
      \E k \in 1 .. i : s[k].tag = "<thead>"

LEMMA FitsSpliced ==
  ASSUME NEW s, NEW t, NEW p, NEW q, NEW d, Spliced(t, s, p, q, d), p <= q + d, Fits(s),
         \A i \in p + 1 .. q + d : s[i].tag # "<thead>",
         \A i \in p + 1 .. q : t[i].tag \notin {"<thead>", "<tbody>"}
  PROVE  Fits(t)
<1>1. InOrder(s, t, p, q, d)
  BY OriginIs
<1> SUFFICES ASSUME NEW i \in 1 .. Len(t), NEW j \in 1 .. Len(t), i < j,
                    t[i].tag = "<tbody>", t[j].tag = "<thead>"
             PROVE  \E k \in 1 .. i : t[k].tag = "<thead>"
  BY DEF Fits
<1>2. i \notin p + 1 .. q /\ j \notin p + 1 .. q
  OBVIOUS
<1> DEFINE x == Origin(p, d, i)
           y == Origin(p, d, j)
<1>3. x \in 1 .. Len(s) /\ y \in 1 .. Len(s) /\ x < y /\ t[i] = s[x] /\ t[j] = s[y]
  BY <1>1, <1>2 DEF InOrder
<1> HIDE DEF x, y
<1>4. PICK k \in 1 .. x : s[k].tag = "<thead>"
  BY <1>3 DEF Fits
<1>5. k \in 1 .. Len(s) /\ k \notin p + 1 .. q + d /\ ~(x < k)
  BY <1>3, <1>4
<1>6. PICK l \in 1 .. Len(t) : l \notin p + 1 .. q /\ Origin(p, d, l) = k
  BY <1>1, <1>5 DEF InOrder
<1>7. ~(i < l) /\ t[l] = s[k]
  <2>1. i < l <=> x < k
    BY <1>1, <1>2, <1>6 DEF InOrder, x
  <2> QED
    BY <1>1, <1>5, <1>6, <2>1 DEF InOrder
<1>8. l \in 1 .. i
  BY <1>7
<1> QED
  BY <1>4, <1>7, <1>8

\* The same, of the part that an edit replaces.
Inserted(by, tags) == \A i \in 1 .. Len(by) : by[i].tag \in tags

LEMMA SplicedAt ==
  ASSUME NEW s \in Seq(Tokens), NEW by \in Seq(Tokens), NEW from \in 1 .. Len(s) + 1,
         NEW to \in from - 1 .. Len(s), NEW tags, Inserted(by, tags)
  PROVE  \E p, q, d :
           /\ Spliced(Replace(s, from, to, by), s, p, q, d) /\ p <= q + d
           /\ \A i \in p + 1 .. q + d : i \in from .. to
           /\ \A i \in p + 1 .. q : Replace(s, from, to, by)[i].tag \in tags
<1> DEFINE t == Replace(s, from, to, by)
           p == from - 1
           q == p + Len(by)
           d == to - q
<1>1. to \in 0 .. Len(s) /\ Len(by) \in Nat /\ p + 1 = from /\ q + d = to /\ p <= q + d
  OBVIOUS
<1>2. EditedAt(t, s, from, to, by)
  BY <1>1, EditIs
<1> HIDE DEF t
<1>3. /\ Spliced(t, s, p, q, d)
      /\ \A i \in from .. q : i - from + 1 \in 1 .. Len(by) /\ t[i] = by[i - from + 1]
  BY <1>2 DEF EditedAt
<1> HIDE DEF p, q, d
<1>4. \A i \in p + 1 .. q : t[i].tag \in tags
  BY <1>1, <1>3 DEF Inserted
<1>5. \A i \in p + 1 .. q + d : i \in from .. to
  BY <1>1
<1> QED
  BY <1>1, <1>3, <1>4, <1>5 DEF t

LEMMA FitsReplaced ==
  ASSUME NEW s \in Seq(Tokens), NEW by \in Seq(Tokens), NEW from \in 1 .. Len(s) + 1,
         NEW to \in from - 1 .. Len(s), Fits(s), Clear(s, from, to, {"<thead>"}),
         Inserted(by, Tags \ {"<thead>", "<tbody>"})
  PROVE  Fits(Replace(s, from, to, by))
<1> DEFINE t == Replace(s, from, to, by)
           tags == Tags \ {"<thead>", "<tbody>"}
<1>1. PICK p, q, d :
        /\ Spliced(t, s, p, q, d) /\ p <= q + d
        /\ \A i \in p + 1 .. q + d : i \in from .. to
        /\ \A i \in p + 1 .. q : t[i].tag \in tags
  BY SplicedAt
<1> HIDE DEF t
<1>2. \A i \in p + 1 .. q + d : s[i].tag # "<thead>"
  BY <1>1 DEF Clear
<1>3. \A i \in p + 1 .. q : t[i].tag \notin {"<thead>", "<tbody>"}
  BY <1>1
<1>4. Fits(t)
  BY <1>1, <1>2, <1>3, FitsSpliced
<1> QED
  BY <1>4 DEF t

LEMMA TabledReplaced ==
  ASSUME NEW s \in Seq(Tokens), NEW by \in Seq(Tokens), NEW from \in 1 .. Len(s) + 1,
         NEW to \in from - 1 .. Len(s), Tabled(s), Clear(s, from, to, {"</table>"}),
         Inserted(by, Tags \ {"<table", "img"})
  PROVE  Tabled(Replace(s, from, to, by))
<1> DEFINE t == Replace(s, from, to, by)
           tags == Tags \ {"<table", "img"}
<1>1. PICK p, q, d :
        /\ Spliced(t, s, p, q, d) /\ p <= q + d
        /\ \A i \in p + 1 .. q + d : i \in from .. to
        /\ \A i \in p + 1 .. q : t[i].tag \in tags
  BY SplicedAt
<1> HIDE DEF t
<1>2. \A i \in p + 1 .. q + d : s[i].tag # "</table>"
  BY <1>1 DEF Clear
<1>3. Tabled(t)
  BY <1>1, <1>2, TabledSpliced
<1> QED
  BY <1>3 DEF t

\* What a pass leaves as it is.
Kept(t, s) ==
  /\ Content(t) = Content(s)
  /\ Fits(s) => Fits(t)
  /\ Tabled(s) => Tabled(t)

\* A pass that cuts an element out which holds nothing that is shown.
LEMMA ElementCut ==
  ASSUME NEW s \in Seq(Tokens), NEW from \in 1 .. Len(s), NEW to \in from .. Len(s),
         Clear(s, from, to, Shown \cup {"<thead>", "</table>"})
  PROVE  Kept(Cut(s, from, to), s)
<1> DEFINE by == <<>>
<1>1. by \in Seq(Tokens) /\ \A tags : Inserted(by, tags)
  BY DEF Inserted
<1> HIDE DEF by
<1>2. from \in 1 .. Len(s) + 1 /\ to \in from - 1 .. Len(s)
  OBVIOUS
<1>3. /\ Clear(s, from, to, Shown) /\ Clear(s, from, to, {"<thead>"})
      /\ Clear(s, from, to, {"</table>"})
  BY DEF Clear
<1>4. Cut(s, from, to) = Replace(s, from, to, by)
  BY DEF Cut, by
<1>5. Fits(s) => Fits(Replace(s, from, to, by))
  BY <1>1, <1>2, <1>3, FitsReplaced
<1>6. Tabled(s) => Tabled(Replace(s, from, to, by))
  BY <1>1, <1>2, <1>3, TabledReplaced
<1>7. Content(Cut(s, from, to)) = Content(s)
  BY <1>3, ContentCut
<1> QED
  BY <1>4, <1>5, <1>6, <1>7 DEF Kept

NeverShown == Tags \ {"row", "img", "<thead>", "</table>"}

\* Titles and captions have only text in them.
LEMMA ElementRemoved ==
  ASSUME NEW s \in Seq(Tokens), NEW open \in NeverShown, NEW close \in NeverShown, open # close,
         Only(s, open, close, {"text"}), NEW i \in 1 .. Len(s), s[i].tag = open,
         NEW end, end # 0, IsFirst(end, s, {close}, i)
  PROVE  Kept(Cut(s, i, end), s)
<1>1. Len(s) \in Nat
  OBVIOUS
<1>2. Enclosed(s, i, end, close, {"text"})
  BY <1>1, ElementIs
<1>3. end \in i .. Len(s)
  BY <1>1, <1>2 DEF Enclosed
<1>4. Clear(s, i, end, Shown \cup {"<thead>", "</table>"})
  <2> SUFFICES ASSUME NEW j \in i .. end
               PROVE  s[j].tag \notin Shown \cup {"<thead>", "</table>"}
    BY DEF Clear
  <2>1. j = i \/ j = end \/ j \in i + 1 .. end - 1
    BY <1>1, <1>3
  <2>2. s[j].tag = open \/ s[j].tag = close \/ s[j].tag = "text"
    BY <1>2, <2>1 DEF Enclosed
  <2> QED
    BY <2>2 DEF Shown, NeverShown
<1> QED
  BY <1>3, <1>4, ElementCut

\* The column groups, and what stands between them.
LEMMA ColgroupsKept ==
  ASSUME NEW s \in Seq(Tokens), Cardinality(Colgroups(s)) > 1, ColgroupsEnd(s) # 0,
         Grouped(s), ColumnsTogether(s)
  PROVE  Kept(Replace(s, First(s, {"<colgroup>"}, 1), MergedUpTo(s), MergedColgroup(s)), s)
<1> DEFINE f == First(s, {"<colgroup>"}, 1)
           g == LastColgroup(s)
           m == ColgroupsEnd(s)
           n == MergedUpTo(s)
           by == MergedColgroup(s)
<1>1. /\ g \in 1 .. Len(s) /\ s[g].tag = "<colgroup>" /\ IsFirst(m, s, {"</colgroup>"}, g)
      /\ f \in 1 .. g /\ s[f].tag = "<colgroup>" /\ m # 0 /\ Len(s) \in Nat
  BY ColgroupsFound
<1>2. n = m
  BY DEF MergedUpTo
<1>3. by \in Seq(Tokens) /\ \A i \in 1 .. Len(by) : by[i].tag \in Groups
  BY MergedIs, PlainOfTokens
<1>4. Len(s) \in Nat /\ DOMAIN s = 1 .. Len(s)
  OBVIOUS
<1> HIDE DEF f, g, m, n, by
<1>5. Enclosed(s, g, m, "</colgroup>", {"<col/>"})
  BY <1>1, <1>4, ElementIs DEF Grouped
<1>6. m \in g + 1 .. Len(s) /\ s[m].tag = "</colgroup>"
      /\ \A j \in g + 1 .. m - 1 : s[j].tag = "<col/>"
  BY <1>5 DEF Enclosed
<1> DEFINE tags == Shown \cup {"<thead>", "</table>"}
<1>7. ASSUME NEW j \in f .. m PROVE s[j].tag \notin tags
  <2>1. j = f \/ j = g \/ j = m \/ (f < j /\ j < g) \/ j \in g + 1 .. m - 1
    BY <1>1, <1>6
  <2>2. CASE j = f \/ j = g \/ j = m \/ j \in g + 1 .. m - 1
    BY <1>1, <1>6, <2>2 DEF Shown
  <2>3. CASE f < j /\ j < g
    <3>1. f \in DOMAIN s /\ j \in DOMAIN s /\ g \in DOMAIN s
      BY <1>1, <1>4, <1>6
    <3> QED
      BY <1>1, <2>3, <3>1 DEF ColumnsTogether
  <2> QED
    BY <2>1, <2>2, <2>3
<1>8. /\ Clear(s, f, m, Shown) /\ Clear(s, f, m, {"<thead>"}) /\ Clear(s, f, m, {"</table>"})
  BY <1>7 DEF Clear
<1>9. /\ f \in 1 .. Len(s) + 1 /\ m \in f - 1 .. Len(s) /\ m \in 0 .. Len(s)
  BY <1>1, <1>6
<1>10. /\ Blank(by) /\ Inserted(by, Tags \ {"<thead>", "<tbody>"})
       /\ Inserted(by, Tags \ {"<table", "img"})
  BY <1>3 DEF Blank, Inserted, Groups, Shown, Tags
<1>11. Content(Replace(s, f, m, by)) = Content(s)
  <2>1. Content(SubSeq(s, f, m)) = Content(by)
    <3>1. Content(SubSeq(s, f, m)) = <<>>
      BY <1>8, <1>9, ContentBlank
    <3>2. Content(by) = <<>>
      BY <1>3, <1>10, ContentNone
    <3> QED
      BY <3>1, <3>2
  <2> QED
    BY <1>3, <1>9, <2>1, ContentReplaced
<1>12. Fits(s) => Fits(Replace(s, f, m, by))
  BY <1>3, <1>8, <1>9, <1>10, FitsReplaced
<1>13. Tabled(s) => Tabled(Replace(s, f, m, by))
  BY <1>3, <1>8, <1>9, <1>10, TabledReplaced
<1> QED
  BY <1>2, <1>11, <1>12, <1>13 DEF Kept, f, g, m, n, by

LEMMA AttributesKept ==
  ASSUME NEW s \in Seq(Tokens), NEW t, NEW n, NEW name, ErasedAt(t, s, n, name)
  PROVE  Kept(t, s)
<1>1. Content(t) = Content(s)
  <2>1. PlainTo(Plain(s), s) /\ PlainTo(Plain(t), t)
    BY PlainIs DEF ErasedAt
  <2>2. PlainTo(Plain(t), s)
    BY <2>1 DEF PlainTo, ErasedAt
  <2>3. Plain(t) = Plain(s)
    BY ONLY <2>1, <2>2, PlainUnique
  <2> QED
    BY <2>3 DEF Content
<1>2. Len(t) = Len(s) /\ Len(s) \in Nat /\ \A j \in 1 .. Len(s) : t[j].tag = s[j].tag
  BY DEF ErasedAt
<1>3. Tabled(s) => Tabled(t)
  BY <1>2, OnlySame DEF Tabled
<1>4. Fits(s) => Fits(t)
  <2> SUFFICES ASSUME Fits(s), NEW i \in 1 .. Len(s), NEW j \in 1 .. Len(s), i < j,
                      t[i].tag = "<tbody>", t[j].tag = "<thead>"
               PROVE  \E k \in 1 .. i : t[k].tag = "<thead>"
    BY <1>2 DEF Fits
  <2>1. PICK k \in 1 .. i : s[k].tag = "<thead>"
    BY <1>2 DEF Fits
  <2>2. k \in 1 .. Len(s)
    BY <1>2
  <2> QED
    BY <1>2, <2>1, <2>2
<1> QED
  BY <1>1, <1>3, <1>4 DEF Kept

(***************************************************************************)
(* The header.  With its tags gone, and the one of the body that came      *)
(* right behind it, the text before and after the pass are the same.       *)
(***************************************************************************)
Moved(t, s, head, end) ==
  /\ t \in Seq(Tokens) /\ Len(t) = Len(s) - 2
  /\ \A i \in 1 .. head - 1 : t[i] = s[i]
  /\ t[head] = s[end + 1]
  /\ \A i \in head + 1 .. end - 1 : t[i] = s[i]
  /\ \A i \in end .. Len(t) : t[i] = s[i + 2]

\* What one cut leaves, position by position.
LEMMA CutAt ==
  ASSUME NEW s \in Seq(Tokens), NEW from \in 1 .. Len(s), NEW to \in from .. Len(s)
  PROVE  LET t == Cut(s, from, to)
             d == to - from + 1
         IN  /\ t \in Seq(Tokens) /\ Len(t) = Len(s) - d
             /\ \A i \in 1 .. from - 1 : t[i] = s[i]
             /\ \A i \in from .. Len(t) : t[i] = s[i + d]
<1> DEFINE t == Cut(s, from, to)
           d == to - from + 1
           p == from - 1
<1>1. t \in Seq(Tokens) /\ Spliced(t, s, p, p, d)
  BY CutIs
<1> HIDE DEF t
<1>2. p + 1 = from /\ d \in Int /\ Len(s) \in Nat /\ Len(t) \in Nat
  BY <1>1
<1> HIDE DEF p, d
<1>3. Len(t) + d = Len(s) /\ (\A i \in 1 .. p : t[i] = s[i])
      /\ \A i \in p + 1 .. Len(t) : t[i] = s[i + d]
  BY <1>1 DEF Spliced
<1>4. Len(t) = Len(s) - d
  BY <1>2, <1>3
<1>5. \A i \in from .. Len(t) : t[i] = s[i + d]
  BY <1>2, <1>3
<1> QED
  BY <1>1, <1>3, <1>4, <1>5 DEF t, d, p

LEMMA MovedContent ==
  ASSUME NEW s \in Seq(Tokens), NEW t, NEW head \in 1 .. Len(s), NEW end \in head + 1 .. Len(s) - 1,
         Moved(t, s, head, end),
         {s[head].tag, s[end].tag, s[end + 1].tag} \cap Shown = {}
  PROVE  Content(t) = Content(s)
<1> DEFINE next == end + 1
           y == Cut(s, end, next)
           z == Cut(y, head, head)
           w == Cut(t, head, head)
           n == Len(s)
<1>1. n \in Nat /\ end \in 1 .. n /\ next \in end .. n /\ head \in 1 .. n /\ end < n /\ head < end
  OBVIOUS
<1>2. /\ y \in Seq(Tokens) /\ Len(y) = n - 2
      /\ \A i \in 1 .. end - 1 : y[i] = s[i]
      /\ \A i \in end .. Len(y) : y[i] = s[i + 2]
  <2>1. end \in 1 .. Len(s) /\ next \in end .. Len(s) /\ next - end + 1 = 2
    BY <1>1
  <2> HIDE DEF next
  <2>2. /\ Cut(s, end, next) \in Seq(Tokens) /\ Len(Cut(s, end, next)) = Len(s) - (next - end + 1)
        /\ \A i \in 1 .. end - 1 : Cut(s, end, next)[i] = s[i]
        /\ \A i \in end .. Len(Cut(s, end, next)) :
             Cut(s, end, next)[i] = s[i + (next - end + 1)]
    BY <2>1, CutAt
  <2> QED
    BY <2>1, <2>2
<1>3. Content(y) = Content(s)
  <2>1. \A i \in end .. next : i = end \/ i = next
    BY <1>1
  <2>2. Clear(s, end, next, Shown)
    BY <2>1 DEF Clear
  <2>3. end \in 1 .. Len(s) /\ next \in end .. Len(s)
    BY <1>1
  <2> HIDE DEF next
  <2> QED
    BY <2>2, <2>3, ContentCut
<1>4. /\ t \in Seq(Tokens) /\ Len(t) = n - 2
      /\ \A i \in 1 .. head - 1 : t[i] = s[i]
      /\ t[head] = s[next]
      /\ \A i \in head + 1 .. end - 1 : t[i] = s[i]
      /\ \A i \in end .. n - 2 : t[i] = s[i + 2]
  BY DEF Moved
<1>5. s[head].tag \notin Shown /\ s[next].tag \notin Shown
  OBVIOUS
<1> HIDE DEF n, next, y
<1>6. \A x \in Seq(Tokens) : Len(x) = n - 2 =>
        LET v == Cut(x, head, head)
        IN  /\ v \in Seq(Tokens) /\ Len(v) = n - 3
            /\ \A i \in 1 .. head - 1 : v[i] = x[i]
            /\ \A i \in head .. n - 3 : v[i] = x[i + 1]
            /\ x[head].tag \notin Shown => Content(v) = Content(x)
  <2> SUFFICES ASSUME NEW x \in Seq(Tokens), Len(x) = n - 2
               PROVE  LET v == Cut(x, head, head)
                      IN  /\ v \in Seq(Tokens) /\ Len(v) = n - 3
                          /\ \A i \in 1 .. head - 1 : v[i] = x[i]
                          /\ \A i \in head .. n - 3 : v[i] = x[i + 1]
                          /\ x[head].tag \notin Shown => Content(v) = Content(x)
    OBVIOUS
  <2>1. head \in 1 .. Len(x) /\ head \in head .. Len(x) /\ head - head + 1 = 1
    BY <1>1
  <2> DEFINE v == Cut(x, head, head)
  <2>2. /\ v \in Seq(Tokens) /\ Len(v) = Len(x) - (head - head + 1)
        /\ \A i \in 1 .. head - 1 : v[i] = x[i]
        /\ \A i \in head .. Len(v) : v[i] = x[i + (head - head + 1)]
    BY <2>1, CutAt
  <2>3. ASSUME x[head].tag \notin Shown PROVE Content(v) = Content(x)
    <3>1. Clear(x, head, head, Shown)
      <4>1. \A i \in head .. head : i = head
        BY <2>1
      <4> QED
        BY <2>3, <4>1 DEF Clear
    <3> QED
      BY <2>1, <3>1, ContentCut
  <2> HIDE DEF v
  <2>4. Len(v) = n - 3
    BY <1>1, <2>1, <2>2
  <2> QED
    BY <2>1, <2>2, <2>3, <2>4 DEF v
<1>7. y[head].tag \notin Shown /\ t[head].tag \notin Shown
  <2>1. head \in 1 .. end - 1
    BY <1>1
  <2> QED
    BY <1>2, <1>4, <1>5, <2>1
<1>8. /\ z \in Seq(Tokens) /\ Len(z) = n - 3 /\ Content(z) = Content(y)
      /\ \A i \in 1 .. head - 1 : z[i] = y[i]
      /\ \A i \in head .. n - 3 : z[i] = y[i + 1]
  BY <1>2, <1>6, <1>7
<1>9. /\ w \in Seq(Tokens) /\ Len(w) = n - 3 /\ Content(w) = Content(t)
      /\ \A i \in 1 .. head - 1 : w[i] = t[i]
      /\ \A i \in head .. n - 3 : w[i] = t[i + 1]
  BY <1>4, <1>6, <1>7
<1> HIDE DEF z, w
<1>10. ASSUME NEW i \in 1 .. n - 3 PROVE z[i] = w[i]
  <2>1. CASE i \in 1 .. head - 1
    <3>1. i \in 1 .. end - 1
      BY <1>1, <2>1
    <3> QED
      BY <1>2, <1>4, <1>8, <1>9, <2>1, <3>1
  <2>2. CASE i \in head .. n - 3
    <3> DEFINE j == i + 1
    <3>1. j \in head + 1 .. n - 2 /\ j \in Nat
      BY <1>1, <2>2
    <3>2. z[i] = y[j] /\ w[i] = t[j]
      BY <1>8, <1>9, <2>2
    <3> HIDE DEF j
    <3>3. CASE j \in head + 1 .. end - 1
      <4>1. j \in 1 .. end - 1
        BY <1>1, <3>3
      <4> QED
        BY <1>2, <1>4, <3>2, <3>3, <4>1
    <3>4. CASE j \in end .. n - 2
      BY <1>2, <1>4, <3>2, <3>4
    <3> QED
      BY <1>1, <3>1, <3>3, <3>4
  <2> QED
    BY <1>1, <2>1, <2>2
<1>11. z \in Seq(Tokens) /\ w \in Seq(Tokens) /\ Len(z) = Len(w)
       /\ \A i \in 1 .. Len(z) : z[i] = w[i]
  BY <1>8, <1>9, <1>10
<1>12. z = w
  BY ONLY <1>11, SeqEqual
<1> QED
  BY <1>3, <1>8, <1>9, <1>12

LEMMA HeaderMoved ==
  ASSUME NEW s \in Seq(Tokens), Headed(s), Bodied(s), Fits(s),
         NEW head, head # 0, IsFirst(head, s, {"<thead>"}, 1),
         NEW end, end # 0, IsFirst(end, s, {"</thead>"}, head),
         NEW body, body # 0, IsFirst(body, s, {"<tbody>"}, 1)
  PROVE  LET t == InsertHeader(Cut(s, head, end), SubSeq(s, head + 1, end - 1))
         IN  /\ end \in head + 1 .. Len(s) - 1 /\ s[end].tag = "</thead>"
             /\ s[end + 1].tag = "<tbody>" /\ Moved(t, s, head, end)
             /\ Tabled(s) => Tabled(t)
<1> DEFINE u == Cut(s, head, end)
           by == SubSeq(s, head + 1, end - 1)
           t == InsertHeader(u, by)
           n == Len(s)
           d == end - head + 1
<1>1. /\ n \in Nat /\ head \in 1 .. n /\ s[head].tag = "<thead>"
      /\ \A i \in 1 .. head - 1 : s[i].tag # "<thead>"
  BY DEF IsFirst
<1>2. /\ body \in 1 .. n /\ s[body].tag = "<tbody>"
      /\ \A i \in 1 .. body - 1 : s[i].tag # "<tbody>"
  BY DEF IsFirst
<1>3. Enclosed(s, head, end, "</thead>", {"row"})
  BY <1>1, ElementIs DEF Headed
<1>4. /\ end \in head + 1 .. n /\ s[end].tag = "</thead>"
      /\ \A i \in head + 1 .. end - 1 : s[i].tag = "row"
  BY <1>3 DEF Enclosed
<1> HIDE DEF n
<1>5. body > end
  <2>1. ~(body < head)
    <3> SUFFICES ASSUME body < head PROVE FALSE
      OBVIOUS
    <3>1. PICK k \in 1 .. body : s[k].tag = "<thead>"
      BY <1>1, <1>2 DEF Fits, n
    <3>2. k \in 1 .. head - 1
      BY <1>1, <1>2, <3>1
    <3> QED
      BY <1>1, <3>1, <3>2
  <2>2. body # head /\ body # end /\ body \notin head + 1 .. end - 1
    BY <1>1, <1>2, <1>4
  <2> QED
    BY <1>1, <1>2, <1>4, <2>1, <2>2
<1> DEFINE next == end + 1
<1>6. next \in 1 .. n /\ end \in 1 .. n /\ end < next /\ \A k \in end + 1 .. next : k = next
  BY <1>1, <1>2, <1>4, <1>5
<1>7. s[next].tag = "<tbody>"
  <2> HIDE DEF next
  <2>1. PICK k \in end + 1 .. next : s[k].tag = "<tbody>"
    BY <1>4, <1>6 DEF Bodied, Only, n
  <2> QED
    BY <1>6, <2>1
<1>8. /\ u \in Seq(Tokens) /\ Len(u) = n - d
      /\ \A i \in 1 .. head - 1 : u[i] = s[i]
      /\ \A i \in head .. Len(u) : u[i] = s[i + d]
  <2>1. head \in 1 .. Len(s) /\ end \in head .. Len(s)
    BY <1>1, <1>4 DEF n
  <2> QED
    BY <2>1, CutAt DEF n
<1>9. /\ by \in Seq(Tokens) /\ Len(by) = end - head - 1
      /\ \A i \in 1 .. Len(by) : by[i] = s[head + i]
  <2> DEFINE m == head + 1
             k == end - 1
  <2>1. m \in 1 .. Len(s) + 1 /\ k \in 0 .. Len(s) /\ m - 1 = head
    BY <1>1, <1>4 DEF n
  <2>2. by = SubSeq(s, m, k)
    OBVIOUS
  <2> HIDE DEF m, k, by
  <2>3. /\ by \in Seq(Tokens) /\ Len(by) = (IF m <= k THEN k - m + 1 ELSE 0)
        /\ \A i \in 1 .. Len(by) : by[i] = s[m + i - 1]
    BY <2>1, <2>2, PartIs
  <2>4. Len(by) = end - head - 1
    BY <1>1, <1>4, <2>3 DEF m, k
  <2>5. \A i \in 1 .. Len(by) : m + i - 1 = head + i
    BY <1>1 DEF m
  <2> QED
    BY <2>3, <2>4, <2>5
<1> HIDE DEF u, by
<1>10. Len(by) \in Nat /\ Len(u) \in Nat /\ d \in Nat /\ head \in 1 .. Len(u)
       /\ head + d = next
  BY <1>1, <1>4, <1>6, <1>8, <1>9
<1>11. First(u, {"<tbody>"}, 1) = head
  <2>1. u[head].tag = "<tbody>"
    <3>1. head \in head .. Len(u)
      BY <1>10
    <3>2. u[head] = s[head + d]
      BY <1>8, <3>1
    <3> QED
      BY <1>7, <1>10, <3>2
  <2>2. \A i \in 1 .. head - 1 : u[i].tag # "<tbody>"
    <3> TAKE i \in 1 .. head - 1
    <3>1. i \in 1 .. body - 1 /\ u[i] = s[i]
      BY <1>1, <1>2, <1>4, <1>5, <1>8
    <3> QED
      BY <1>2, <3>1
  <2>3. IsFirst(head, u, {"<tbody>"}, 1)
    BY <1>10, <2>1, <2>2 DEF IsFirst
  <2> DEFINE f == First(u, {"<tbody>"}, 1)
  <2>4. IsFirst(f, u, {"<tbody>"}, 1)
    BY <1>8, FirstIs
  <2> HIDE DEF f
  <2>5. f = head
    BY <1>10, <2>3, <2>4, FirstUnique
  <2> QED
    BY <2>5 DEF f
<1> DEFINE from == head + 1
           r == Replace(u, from, head, by)
<1>12. t = r
  <2>1. head # 0
    OBVIOUS
  <2> QED
    BY <1>11, <2>1 DEF InsertHeader
<1>13. from \in 1 .. Len(u) + 1 /\ head \in 0 .. Len(u) /\ head \in from - 1 .. Len(u)
       /\ from - 1 = head
  BY <1>10
<1>14. r \in Seq(Tokens) /\ EditedAt(r, u, from, head, by)
  <2> HIDE DEF from
  <2> QED
    BY <1>8, <1>9, <1>13, EditIs
<1> DEFINE p == from - 1
           q == p + Len(by)
           e == head - q
<1>15. /\ Spliced(r, u, p, q, e)
       /\ \A i \in from .. q : i - from + 1 \in 1 .. Len(by) /\ r[i] = by[i - from + 1]
  <2> HIDE DEF r
  <2> QED
    BY <1>14 DEF EditedAt
<1>16. p = head /\ q = end - 1 /\ e = head - end + 1
  <2>1. head \in Nat /\ end \in Nat /\ Len(by) \in Nat /\ Len(by) = end - head - 1
    <3>1. head \in Nat /\ end \in Nat
      BY <1>1, <1>4
    <3> QED
      BY ONLY <1>9, <1>10, <3>1
  <2>2. \A h, k, l \in Nat : l = k - h - 1 =>
          h + 1 - 1 = h /\ h + 1 - 1 + l = k - 1 /\ h - (h + 1 - 1 + l) = h - k + 1
    OBVIOUS
  <2> QED
    BY ONLY <2>1, <2>2
<1> HIDE DEF r, t, p, q, e
<1>17. /\ Len(r) + e = Len(u) /\ Len(r) \in Nat
       /\ \A i \in 1 .. head : r[i] = u[i]
       /\ \A i \in end .. Len(r) : r[i] = u[i + e]
  <2>1. q + 1 = end
    BY <1>1, <1>4, <1>16
  <2> QED
    BY <1>15, <1>16, <2>1 DEF Spliced
<1>18. Moved(r, s, head, end)
  <2>1. Len(r) = Len(s) - 2
    <3>1. n \in Nat /\ head \in Nat /\ end \in Nat /\ Len(u) = n - (end - head + 1)
      BY <1>1, <1>4, <1>8
    <3>2. e = head - end + 1 /\ Len(r) + e = Len(u) /\ Len(r) \in Nat
      BY <1>16, <1>17
    <3>3. \A h, k, l, m \in Nat : l + (h - k + 1) = m - (k - h + 1) => l = m - 2
      OBVIOUS
    <3> QED
      BY ONLY <3>1, <3>2, <3>3 DEF n
  <2>2. \A i \in 1 .. head - 1 : r[i] = s[i]
    BY <1>1, <1>8, <1>17
  <2>3. r[head] = s[end + 1]
    <3>1. head \in 1 .. head /\ head \in head .. Len(u)
      BY <1>10
    <3>2. r[head] = u[head] /\ u[head] = s[head + d]
      BY <1>8, <1>17, <3>1
    <3> QED
      BY <1>10, <3>2
  <2>4. \A i \in head + 1 .. end - 1 : r[i] = s[i]
    <3> TAKE i \in head + 1 .. end - 1
    <3> DEFINE j == i - from + 1
    <3>1. i \in from .. q
      BY <1>1, <1>4, <1>16
    <3>2. j \in 1 .. Len(by) /\ r[i] = by[j]
      BY <1>15, <3>1
    <3>3. head + j = i
      BY <1>1, <1>4
    <3> HIDE DEF j
    <3>4. by[j] = s[head + j]
      BY <1>9, <3>2
    <3> QED
      BY <3>2, <3>3, <3>4
  <2>5. \A i \in end .. Len(r) : r[i] = s[i + 2]
    <3> TAKE i \in end .. Len(r)
    <3> DEFINE j == i + e
    <3>1. j \in head .. Len(u) /\ j + d = i + 2
      BY <1>1, <1>4, <1>10, <1>16, <1>17
    <3>2. r[i] = u[j]
      BY <1>17
    <3> HIDE DEF j
    <3>3. u[j] = s[j + d]
      BY <1>8, <3>1
    <3> QED
      BY <3>1, <3>2, <3>3
  <2> QED
    BY <1>14, <2>1, <2>2, <2>3, <2>4, <2>5 DEF Moved
<1>19. Tabled(s) => Tabled(r)
  <2>1. Tabled(s) => Tabled(u)
    <3> DEFINE none == <<>>
    <3>1. none \in Seq(Tokens) /\ Inserted(none, Tags \ {"<table", "img"})
      BY DEF Inserted
    <3>2. u = Replace(s, head, end, none)
      BY DEF u, Cut
    <3> HIDE DEF none
    <3>3. head \in 1 .. Len(s) + 1 /\ end \in head - 1 .. Len(s)
      BY <1>1, <1>4 DEF n
    <3>4. Clear(s, head, end, {"</table>"})
      <4> SUFFICES ASSUME NEW i \in head .. end PROVE s[i].tag # "</table>"
        BY DEF Clear
      <4>1. i = head \/ i = end \/ i \in head + 1 .. end - 1
        BY <1>1, <1>4
      <4> QED
        BY <1>1, <1>4, <4>1
    <3> QED
      BY <3>1, <3>2, <3>3, <3>4, TabledReplaced
  <2>2. Tabled(u) => Tabled(r)
    <3>1. Clear(u, from, head, {"</table>"})
      <4>1. \A i \in from .. head : FALSE
        BY <1>10
      <4> QED
        BY <4>1 DEF Clear
    <3>2. Inserted(by, Tags \ {"<table", "img"})
      <4> SUFFICES ASSUME NEW i \in 1 .. Len(by) PROVE by[i].tag \in Tags \ {"<table", "img"}
        BY DEF Inserted
      <4> DEFINE j == head + i
      <4>1. j \in head + 1 .. end - 1
        BY <1>1, <1>4, <1>9
      <4>2. by[i] = s[j]
        BY <1>9
      <4> HIDE DEF j
      <4> QED
        BY <1>4, <4>1, <4>2 DEF Tags
    <3> HIDE DEF from
    <3> QED
      BY <1>8, <1>9, <1>13, <3>1, <3>2, TabledReplaced DEF r
  <2> QED
    BY <2>1, <2>2
<1>20. end \in head + 1 .. Len(s) - 1
  BY <1>1, <1>4, <1>6 DEF n
<1> QED
  BY <1>4, <1>7, <1>12, <1>18, <1>19, <1>20 DEF t, u, by, next

LEMMA HeaderKept ==
  ASSUME NEW s \in Seq(Tokens), Headed(s), Bodied(s), Fits(s),
         NEW head, head # 0, IsFirst(head, s, {"<thead>"}, 1),
         NEW end, end # 0, IsFirst(end, s, {"</thead>"}, head),
         First(s, {"<tbody>"}, 1) # 0,
         NEW t, t = InsertHeader(Cut(s, head, end), SubSeq(s, head + 1, end - 1))
  PROVE  Content(t) = Content(s) /\ (Tabled(s) => Tabled(t))
<1> DEFINE body == First(s, {"<tbody>"}, 1)
<1>1. IsFirst(body, s, {"<tbody>"}, 1) /\ body # 0
  BY FirstIs
<1> HIDE DEF body
<1>2. /\ end \in head + 1 .. Len(s) - 1 /\ s[end].tag = "</thead>"
      /\ s[end + 1].tag = "<tbody>" /\ Moved(t, s, head, end)
      /\ Tabled(s) => Tabled(t)
  BY <1>1, HeaderMoved
<1>3. head \in 1 .. Len(s) /\ s[head].tag = "<thead>"
  BY DEF IsFirst
<1>4. {s[head].tag, s[end].tag, s[end + 1].tag} \cap Shown = {}
  BY <1>2, <1>3 DEF Shown
<1> QED
  BY <1>2, <1>3, <1>4, MovedContent

\* The table that is put in shows the rows of the one that it replaces.
LEMMA RebuiltContent ==
  ASSUME NEW s \in Seq(Tokens), NoStyle(s), \A i \in 1 .. Len(s) : s[i].tag # "img"
  PROVE  Content(Rebuilt(s)) = Content(s)
<1> DEFINE A == Structure("<table")
           B == Structure("<tbody>")
           C == Structure("</tbody>")
           D == Structure("</table>")
           a == <<A, B>>
           c == <<C, D>>
           r == Keep(s, {"row"})
           R == OfTags({x \in Tokens : x.attrs = {}}, {"row"})
<1>1. /\ A \in Tokens /\ B \in Tokens /\ C \in Tokens /\ D \in Tokens
      /\ A.tag = "<table" /\ B.tag = "<tbody>" /\ C.tag = "</tbody>" /\ D.tag = "</table>"
  <2>1. {"<table", "<tbody>", "</tbody>", "</table>"} \subseteq Tags
    BY DEF Tags
  <2> QED
    BY <2>1, StructureIs
<1>2. \A M : \A x, y \in M : <<x, y>> \in Seq(M) /\ Len(<<x, y>>) = 2
                             /\ <<x, y>>[1] = x /\ <<x, y>>[2] = y
  OBVIOUS
<1>3. a \in Seq(Tokens) /\ Len(a) = 2 /\ a[1] = A /\ a[2] = B
  BY <1>1, <1>2
<1>4. c \in Seq(Tokens) /\ Len(c) = 2 /\ c[1] = C /\ c[2] = D
  BY <1>1, <1>2
<1>5. Rebuilt(s) = (a \o r) \o c
  BY DEF Rebuilt
<1>6. r \in Seq(R)
  <2> DEFINE U == {x \in Tokens : x.attrs = {}}
  <2>1. \A i \in DOMAIN s : s[i] \in U
    BY DEF NoStyle
  <2> HIDE DEF U
  <2>2. s \in Seq(U)
    BY <2>1, SeqWithin
  <2>3. r \in Seq(OfTags(U, {"row"}))
    BY <2>2, KeepIs
  <2> QED
    BY <2>3 DEF U
<1>7. R \subseteq OfTags(Tokens, Shown) /\ R \subseteq Tokens
      /\ \A x \in R : x.attrs = {}
  BY DEF OfTags, Shown
<1> HIDE DEF A, B, C, D, a, c, R
<1>8. Blank(a) /\ Blank(c)
  <2>1. \A i \in 1 .. 2 : i = 1 \/ i = 2
    OBVIOUS
  <2> QED
    BY <1>1, <1>3, <1>4, <2>1 DEF Blank, Shown
<1>9. Content(r) = r /\ r \in Seq(Tokens)
  <2> HIDE DEF r
  <2>1. r \in Seq(Tokens) /\ r \in Seq(OfTags(Tokens, Shown))
    BY <1>6, <1>7, SeqMonotonic
  <2>2. NoStyle(r)
    <3>1. \A i \in 1 .. Len(r) : r[i] \in R
      BY <1>6
    <3> QED
      BY <1>7, <3>1 DEF NoStyle
  <2>3. Plain(r) = r
    BY <2>1, <2>2, PlainSame
  <2>4. Keep(r, Shown) = r
    BY <2>1, KeepAll
  <2> QED
    BY <2>1, <2>3, <2>4 DEF Content
<1>10. Content(s) = r
  <2>1. Plain(s) = s
    BY PlainSame
  <2>2. \A i \in 1 .. Len(s) : s[i].tag \in Shown <=> s[i].tag \in {"row"}
    BY DEF Shown
  <2>3. Keep(s, Shown) = Keep(s, {"row"})
    BY <2>2, KeepSame
  <2> QED
    BY <2>1, <2>3 DEF Content
<1> HIDE DEF r
<1>11. Content(Rebuilt(s)) = r
  <2> DEFINE b == a \o r
  <2>1. b \in Seq(Tokens)
    BY <1>3, <1>9, ConcatProperties
  <2>2. Content(b) = Content(a) \o Content(r)
    BY <1>3, <1>9, ContentConcat
  <2> HIDE DEF b
  <2>3. Content(b \o c) = Content(b) \o Content(c)
    BY <1>4, <2>1, ContentConcat
  <2>4. Content(a) = <<>> /\ Content(c) = <<>>
    BY <1>3, <1>4, <1>8, ContentNone
  <2>5. r \in Seq(Tokens)
    BY <1>9
  <2>6. <<>> \o r = r /\ r \o <<>> = r
    BY ONLY <2>5, ConcatEmptySeq
  <2> QED
    BY <1>5, <1>9, <2>2, <2>3, <2>4, <2>6 DEF b
<1> QED
  BY <1>10, <1>11

LEMMA TableKept ==
  ASSUME NEW s \in Seq(Tokens), NoStyle(s), Tabled(s),
         NEW table, table # 0, IsFirst(table, s, {"<table"}, 1),
         NEW end, end # 0, IsFirst(end, s, {"</table>"}, table)
  PROVE  Content(Replace(s, table, end - 1, Rebuilt(SubSeq(s, table, end)))) = Content(s)
<1> DEFINE inside == Tags \ {"<table", "img"}
<1>1. table \in 1 .. Len(s) /\ s[table].tag = "<table" /\ Len(s) \in Nat
  BY DEF IsFirst
<1>2. Enclosed(s, table, end, "</table>", inside)
  <2>1. Only(s, "<table", "</table>", inside)
    BY DEF Tabled
  <2> HIDE DEF inside
  <2> QED
    BY <1>1, <2>1, ElementIs
<1>3. /\ end \in table + 1 .. Len(s) /\ s[end].tag = "</table>"
      /\ \A i \in table + 1 .. end - 1 : s[i].tag \in inside
  BY <1>2 DEF Enclosed
<1> DEFINE sub == SubSeq(s, table, end)
           to == end - 1
           part == SubSeq(s, table, to)
           by == Rebuilt(sub)
<1>4. /\ to \in table - 1 .. Len(s) /\ to \in 0 .. Len(s) /\ end \in 0 .. Len(s)
      /\ table \in 1 .. Len(s) + 1 /\ table <= to /\ table <= end
  BY <1>1, <1>3
<1>5. /\ sub \in Seq(Tokens) /\ Len(sub) = end - table + 1
      /\ \A i \in 1 .. Len(sub) : sub[i] = s[table + i - 1]
  <2> DEFINE x == SubSeq(s, table, end)
  <2>1. x \in Seq(Tokens) /\ Len(x) = (IF table <= end THEN end - table + 1 ELSE 0)
        /\ \A i \in 1 .. Len(x) : x[i] = s[table + i - 1]
    BY <1>4, PartIs
  <2> HIDE DEF x
  <2> QED
    BY <1>4, <2>1 DEF x
<1>6. /\ part \in Seq(Tokens) /\ Len(part) = end - table
      /\ \A i \in 1 .. Len(part) : part[i] = s[table + i - 1]
  <2> HIDE DEF to
  <2> DEFINE x == SubSeq(s, table, to)
  <2>1. x \in Seq(Tokens) /\ Len(x) = (IF table <= to THEN to - table + 1 ELSE 0)
        /\ \A i \in 1 .. Len(x) : x[i] = s[table + i - 1]
    BY <1>4, PartIs
  <2> HIDE DEF x
  <2>2. to - table + 1 = end - table
    BY <1>1, <1>3 DEF to
  <2> QED
    BY <1>4, <2>1, <2>2 DEF x
<1> HIDE DEF sub, part, to
<1>7. NoStyle(sub) /\ \A i \in 1 .. Len(sub) : sub[i].tag # "img"
  <2> SUFFICES ASSUME NEW i \in 1 .. Len(sub) PROVE sub[i].attrs = {} /\ sub[i].tag # "img"
    BY DEF NoStyle
  <2> DEFINE j == table + i - 1
  <2>1. j \in 1 .. Len(s) /\ (j = table \/ j = end \/ j \in table + 1 .. end - 1)
    BY <1>1, <1>3, <1>5
  <2>2. sub[i] = s[j]
    BY <1>5
  <2> HIDE DEF j
  <2> QED
    BY <1>1, <1>3, <2>1, <2>2 DEF NoStyle
<1>8. FlatTable(by) /\ Content(by) = Content(sub)
  BY <1>5, <1>7, RebuiltFlat, RebuiltContent
<1>9. Content(sub) = Content(part)
  <2> DEFINE n == Len(sub)
             x == Cut(sub, n, n)
  <2>1. n \in 1 .. Len(sub) /\ n \in n .. Len(sub) /\ n - n + 1 = 1 /\ table + n - 1 = end
        /\ n - 1 = Len(part) /\ n \in Nat
    BY <1>1, <1>3, <1>5, <1>6
  <2>2. /\ x \in Seq(Tokens) /\ Len(x) = Len(sub) - (n - n + 1)
        /\ \A i \in 1 .. n - 1 : x[i] = sub[i]
    BY <1>5, <2>1, CutAt
  <2>3. Content(x) = Content(sub)
    <3>1. sub[n].tag = "</table>"
      BY <1>3, <1>5, <2>1
    <3>2. \A i \in n .. n : i = n
      BY <2>1
    <3>3. Clear(sub, n, n, Shown)
      BY <3>1, <3>2 DEF Clear, Shown
    <3> QED
      BY <1>5, <2>1, <3>3, ContentCut
  <2> HIDE DEF x, n
  <2>4. Len(x) = Len(part)
    BY <2>1, <2>2 DEF n
  <2>5. \A i \in 1 .. Len(x) : x[i] = part[i]
    <3> TAKE i \in 1 .. Len(x)
    <3>1. i \in 1 .. n - 1 /\ i \in 1 .. Len(sub) /\ i \in 1 .. Len(part)
      BY <2>1, <2>4 DEF n
    <3> QED
      BY <1>5, <1>6, <2>2, <3>1
  <2>6. x \in Seq(Tokens) /\ part \in Seq(Tokens) /\ Len(x) = Len(part)
        /\ \A i \in 1 .. Len(x) : x[i] = part[i]
    BY <1>6, <2>2, <2>4, <2>5
  <2>7. x = part
    BY ONLY <2>6, SeqEqual
  <2> QED
    BY <2>3, <2>7
<1>10. by \in Seq(Tokens)
  BY <1>8 DEF FlatTable
<1> HIDE DEF by
<1>11. Content(SubSeq(s, table, to)) = Content(by)
  BY <1>8, <1>9 DEF part
<1>12. Content(Replace(s, table, to, by)) = Content(s)
  BY <1>4, <1>10, <1>11, ContentReplaced
<1> QED
  BY <1>12 DEF to, by, sub

(***************************************************************************)
(* What is cut out is a part of the output from its start on.              *)
(***************************************************************************)
LEMMA TogetherPart ==
  ASSUME NEW s \in Seq(Tokens), NEW n \in 1 .. Len(s), NEW e \in n .. Len(s),
         ColumnsTogether(s)
  PROVE  ColumnsTogether(SubSeq(s, n, e))
<1> DEFINE t == SubSeq(s, n, e)
           d == n - 1
<1>1. t \in Seq(Tokens) /\ Len(t) = e - n + 1 /\ \A i \in 1 .. Len(t) : t[i] = s[n + i - 1]
  BY PartAt
<1>2. Len(s) \in Nat /\ DOMAIN s = 1 .. Len(s)
  OBVIOUS
<1> HIDE DEF t
<1>3. \A i \in 1 .. Len(t) : d + i \in 1 .. Len(s) /\ t[i] = s[d + i]
  <2> TAKE i \in 1 .. Len(t)
  <2>1. d + i = n + i - 1 /\ d + i \in 1 .. Len(s)
    BY <1>1, <1>2
  <2> HIDE DEF d
  <2> QED
    BY <1>1, <2>1
<1>4. d \in Nat /\ DOMAIN t = 1 .. Len(t)
  BY <1>1
<1> HIDE DEF d
<1> SUFFICES ASSUME NEW i \in DOMAIN t, NEW j \in DOMAIN t, NEW k \in DOMAIN t,
                    i < j, j < k, t[i].tag = "<colgroup>", t[k].tag = "<colgroup>"
             PROVE  t[j].tag \notin Shown \cup {"<thead>", "</table>"}
  BY DEF ColumnsTogether, t
<1> DEFINE x == d + i
           y == d + j
           z == d + k
<1>5. i \in 1 .. Len(t) /\ j \in 1 .. Len(t) /\ k \in 1 .. Len(t)
  BY <1>4
<1>6. x < y /\ y < z
  BY <1>4, <1>5
<1>7. /\ x \in DOMAIN s /\ y \in DOMAIN s /\ z \in DOMAIN s
      /\ t[i] = s[x] /\ t[j] = s[y] /\ t[k] = s[z]
  BY <1>2, <1>3, <1>5
<1> HIDE DEF x, y, z
<1> QED
  BY <1>6, <1>7 DEF ColumnsTogether

LEMMA FitsPart ==
  ASSUME NEW s \in Seq(Tokens), NEW n \in 1 .. Len(s), NEW e \in n .. Len(s), HeaderFits(s),
         \A i \in 1 .. n - 1 : s[i].tag # "<thead>"
  PROVE  Fits(SubSeq(s, n, e))
<1> DEFINE t == SubSeq(s, n, e)
           d == n - 1
<1>1. t \in Seq(Tokens) /\ Len(t) = e - n + 1 /\ \A i \in 1 .. Len(t) : t[i] = s[n + i - 1]
  BY PartAt
<1>2. Len(s) \in Nat /\ DOMAIN s = 1 .. Len(s)
  OBVIOUS
<1> HIDE DEF t
<1>3. \A i \in 1 .. Len(t) : d + i \in 1 .. Len(s) /\ t[i] = s[d + i]
  <2> TAKE i \in 1 .. Len(t)
  <2>1. d + i = n + i - 1 /\ d + i \in 1 .. Len(s)
    BY <1>1, <1>2
  <2> HIDE DEF d
  <2> QED
    BY <1>1, <2>1
<1>4. d \in Nat /\ \A i \in 1 .. d : s[i].tag # "<thead>"
  OBVIOUS
<1> HIDE DEF d
<1> SUFFICES ASSUME NEW i \in 1 .. Len(t), NEW j \in 1 .. Len(t), i < j,
                    t[i].tag = "<tbody>", t[j].tag = "<thead>"
             PROVE  \E k \in 1 .. i : t[k].tag = "<thead>"
  BY DEF Fits, t
<1> DEFINE x == d + i
           y == d + j
<1>5. x < y /\ x \in Nat
  BY <1>4
<1>6. x \in DOMAIN s /\ y \in DOMAIN s /\ t[i] = s[x] /\ t[j] = s[y]
  BY <1>2, <1>3
<1>7. PICK z \in 1 .. x : s[z].tag = "<thead>"
  <2> HIDE DEF x, y
  <2> QED
    BY <1>5, <1>6 DEF HeaderFits
<1> DEFINE k == z - d
<1>8. k \in 1 .. i /\ k \in 1 .. Len(t) /\ d + k = z
  <2>1. ~(z \in 1 .. d)
    BY <1>4, <1>7
  <2> QED
    BY <1>1, <1>4, <1>7, <2>1
<1> HIDE DEF k
<1>9. t[k] = s[z]
  BY <1>3, <1>8
<1> QED
  BY <1>7, <1>8, <1>9

\* Before(close) of Framed.
ShownBefore(s, close) ==
  \A i \in 1 .. Len(s) : s[i].tag \in Shown => \E k \in i .. Len(s) : s[k].tag = close

LEMMA LastBehind ==
  ASSUME html_output \in Seq(Tokens), NEW close, ShownBefore(html_output, close)
  PROVE  \A i \in 1 .. Len(html_output) :
           i > LastOf({close}) => html_output[i].tag \notin Shown
<1> DEFINE l == LastOf({close})
           s == html_output
<1>1. IsLast(l, s, {close})
  BY LastIs
<1> HIDE DEF l
<1> SUFFICES ASSUME NEW i \in 1 .. Len(s), i > l, s[i].tag \in Shown PROVE FALSE
  BY DEF l
<1>2. PICK k \in i .. Len(s) : s[k].tag = close
  BY DEF ShownBefore
<1>3. Len(s) \in Nat /\ k \in 1 .. Len(s) /\ (l \in Nat => k \in l + 1 .. Len(s))
  BY <1>2
<1> QED
  BY <1>1, <1>2, <1>3 DEF IsLast

LEMMA FramedEnd ==
  ASSUME html_output \in Seq(Tokens), Framed(html_output), End # 0
  PROVE  \A i \in End + 1 .. Len(html_output) : html_output[i].tag \notin Shown
<1> DEFINE s == html_output
           html == First(s, {"<html"}, 1)
           any == First(s, {"<html", "</div>"} \cup Divs, 1)
<1>1. Len(s) \in Nat /\ DOMAIN s = 1 .. Len(s)
  OBVIOUS
<1>2. IsFirst(html, s, {"<html"}, 1) /\ IsFirst(any, s, {"<html", "</div>"} \cup Divs, 1)
  BY FirstIs
<1>3. /\ IsLast(LastOf({"</html>"}), s, {"</html>"}) /\ IsLast(LastOf({"</div>"}), s, {"</div>"})
      /\ IsLast(LastOf({"</table>"}), s, {"</table>"})
  BY LastIs
<1>4. \/ html # 0 /\ ShownBefore(s, "</html>")
      \/ html = 0 /\ ShownBefore(s, "</div>")
      \/ any = 0 /\ ShownBefore(s, "</table>")
  BY <1>1 DEF Framed, ShownBefore
<1>5. End \in 1 .. Len(s) /\ \A i \in End + 1 .. Len(s) : i \in 1 .. Len(s) /\ i > End
  <2> DEFINE e == End
  <2>1. e \in 1 .. Len(s)
    BY EndIs
  <2> HIDE DEF e
  <2>2. \A i \in e + 1 .. Len(s) : i \in 1 .. Len(s) /\ i > e
    BY <1>1, <2>1
  <2> QED
    BY <2>1, <2>2 DEF e
\* The closing tag that counts is where it ends, or there is none.
<1>6. ASSUME NEW close, ShownBefore(s, close), LastOf({close}) \in {0, End}
      PROVE  \A i \in End + 1 .. Len(s) : s[i].tag \notin Shown
  <2>1. \A i \in 1 .. Len(s) : i > LastOf({close}) => s[i].tag \notin Shown
    BY <1>6, LastBehind
  <2> DEFINE l == LastOf({close})
             e == End
  <2>2. \A i \in e + 1 .. Len(s) : i \in 1 .. Len(s) /\ i > e
    BY <1>5
  <2>3. \A i \in 1 .. Len(s) : i > l => s[i].tag \notin Shown
    BY <2>1
  <2>4. l \in {0, e}
    BY <1>6
  <2> HIDE DEF l, e
  <2>5. \A i \in e + 1 .. Len(s) : s[i].tag \notin Shown
    <3> TAKE i \in e + 1 .. Len(s)
    <3>1. i \in 1 .. Len(s) /\ i > e /\ i > 0
      BY <2>2
    <3> QED
      BY <2>3, <2>4, <3>1
  <2> QED
    BY <2>5 DEF e
<1>7. CASE html # 0 /\ ShownBefore(s, "</html>")
  <2>1. LastOf({"</html>"}) \in {0, End}
    BY <1>7 DEF End, IsFragment
  <2> QED
    BY <1>6, <1>7, <2>1
<1>8. CASE html = 0 /\ ShownBefore(s, "</div>")
  <2>1. LastOf({"</div>"}) \in {0, End}
    BY <1>8 DEF End, IsFragment
  <2> QED
    BY <1>6, <1>8, <2>1
<1>9. CASE any = 0 /\ ShownBefore(s, "</table>")
  <2>1. \A i \in 1 .. Len(s) : s[i].tag \notin {"<html", "</div>"}
    BY <1>2, <1>9 DEF IsFirst
  <2>2. LastOf({"</div>"}) = 0
    <3> DEFINE l == LastOf({"</div>"})
    <3>1. IsLast(l, s, {"</div>"})
      BY <1>3
    <3> HIDE DEF l
    <3>2. l = 0
      BY <2>1, <3>1 DEF IsLast
    <3> QED
      BY <3>2 DEF l
  <2>3. html = 0
    <3> HIDE DEF html
    <3> QED
      BY <1>2, <2>1 DEF IsFirst
  <2>4. LastOf({"</table>"}) \in {0, End}
    BY <2>2, <2>3 DEF End, IsFragment
  <2> QED
    BY <1>6, <1>9, <2>4
<1> QED
  BY <1>4, <1>7, <1>8, <1>9

LEMMA PrefixIs ==
  ASSUME NEW T, NEW a \in Seq(T), NEW b \in Seq(T)
  PROVE  IsPrefix(a, a \o b)
<1> DEFINE c == a \o b
           n == Len(a)
<1>1. c \in Seq(T) /\ n \in Nat /\ Len(c) \in Nat /\ n <= Len(c)
      /\ \A i \in 1 .. n : c[i] = a[i]
  OBVIOUS
<1> HIDE DEF c
<1> DEFINE x == SubSeq(a, 1, n)
           y == SubSeq(c, 1, n)
<1>2. 1 \in 1 .. Len(a) + 1 /\ n \in 0 .. Len(a) /\ 1 \in 1 .. Len(c) + 1 /\ n \in 0 .. Len(c)
  BY <1>1
<1>3. x \in Seq(T) /\ Len(x) = (IF 1 <= n THEN n - 1 + 1 ELSE 0)
      /\ \A i \in 1 .. Len(x) : x[i] = a[1 + i - 1]
  BY <1>2, PartIs
<1>4. y \in Seq(T) /\ Len(y) = (IF 1 <= n THEN n - 1 + 1 ELSE 0)
      /\ \A i \in 1 .. Len(y) : y[i] = c[1 + i - 1]
  BY <1>1, <1>2, PartIs
<1> HIDE DEF x, y, n
<1>5. Len(x) = n /\ Len(y) = n
  BY <1>1, <1>3, <1>4
<1>6. \A i \in 1 .. n : x[i] = y[i]
  <2> TAKE i \in 1 .. n
  <2>1. 1 + i - 1 = i
    BY <1>1
  <2>2. x[i] = a[i] /\ y[i] = c[i]
    BY <1>3, <1>4, <1>5, <2>1
  <2> QED
    BY <1>1, <2>2
<1>7. x \in Seq(T) /\ y \in Seq(T) /\ Len(x) = Len(y) /\ \A i \in 1 .. Len(x) : x[i] = y[i]
  BY <1>3, <1>4, <1>5, <1>6
<1>8. x = y
  BY ONLY <1>7, SeqEqual
<1> QED
  BY <1>1, <1>8 DEF IsPrefix, x, y, n, c

\* What is to be shown of the output, or the beginning of it.
Good(c) ==
  /\ IsPrefix(c, Content(html_output))
  /\ Framed(html_output) => c = Content(html_output)

LEMMA GoodPart ==
  ASSUME html_output \in Seq(Tokens), End # 0,
         NEW n \in 1 .. Len(html_output), \A i \in 1 .. n - 1 : html_output[i].tag \notin Shown,
         End \in n .. Len(html_output)
  PROVE  Good(Content(SubSeq(html_output, n, End)))
<1> DEFINE s == html_output
           e == End
           k == Len(s)
           m == n - 1
           f == e + 1
           a == SubSeq(s, 1, m)
           b == SubSeq(s, n, e)
           c == SubSeq(s, f, k)
<1>1. /\ k \in Nat /\ m \in 0 .. k /\ e \in 1 .. k /\ e \in n .. k /\ f \in 1 .. k + 1
      /\ 1 \in 1 .. k + 1 /\ k \in 0 .. k /\ n \in 1 .. k + 1 /\ e \in n - 1 .. k /\ e \in 0 .. k
  OBVIOUS
<1>2. Clear(s, 1, m, Shown)
  BY DEF Clear
<1>3. Framed(s) => Clear(s, f, k, Shown)
  BY FramedEnd DEF Clear
<1> HIDE DEF e, m, f
<1>4. Content(a) = <<>>
  BY <1>1, <1>2, ContentBlank
<1>5. Framed(s) => Content(c) = <<>>
  BY <1>1, <1>3, ContentBlank
<1>6. b \in Seq(Tokens) /\ c \in Seq(Tokens)
  BY <1>1, PartIs
<1>7. Replace(s, n, e, b) = s
  BY <1>1, ReplaceSame
<1>8. Content(s) = (Content(a) \o Content(b)) \o Content(c)
  <2> HIDE DEF b
  <2>1. Content(Replace(s, n, e, b)) =
          (Content(SubSeq(s, 1, n - 1)) \o Content(b)) \o Content(SubSeq(s, e + 1, Len(s)))
    BY <1>1, <1>6, ContentReplace
  <2> QED
    BY <1>7, <2>1 DEF m, f
<1> HIDE DEF a, b, c
<1> DEFINE x == Content(b)
           y == Content(c)
<1>9. x \in Seq(Tokens) /\ y \in Seq(Tokens)
  BY <1>6, ContentType
<1>10. Content(s) = (<<>> \o x) \o y /\ (Framed(s) => y = <<>>)
  BY <1>4, <1>5, <1>8
<1> HIDE DEF x, y
<1>11. <<>> \o x = x /\ x \o <<>> = x
  BY ONLY <1>9, ConcatEmptySeq
<1>12. Content(s) = x \o y
  BY <1>10, <1>11
<1>13. IsPrefix(x, x \o y)
  BY ONLY <1>9, PrefixIs
<1>14. Good(x)
  BY <1>10, <1>11, <1>12, <1>13 DEF Good
<1> QED
  BY <1>14 DEF x, b, e

(***************************************************************************)
(* The invariant: what the text shows is right, and it is such that the    *)
(* passes still to come keep it.                                           *)
(***************************************************************************)
KeptInv ==
  FromItsStart /\ has_html /\ Tame(html_output) =>
    /\ Good(Content(clean_html))
    /\ pass = "colgroups" => ColumnsTogether(clean_html)
    /\ pass \in BeforeHead => Fits(clean_html)
    /\ pass \in BeforeHead \cup {"captions", "table"} => Tabled(clean_html)

LEMMA KeptExtract == ShapeInv /\ ExactInv' /\ Extract => KeptInv'
<1> SUFFICES ASSUME ShapeInv, ExactInv', Extract, FromItsStart', has_html', Tame(html_output)'
             PROVE  KeptInv'
  BY DEF KeptInv
<1> DEFINE n == Start(html_output)
           s == html_output
           e == End
<1>1. html_output' = html_output /\ window' = window
  BY DEF Extract
<1>2. Tame(s) /\ FromItsStart
  BY <1>1 DEF Tame, ShownFromStart, ColumnsTogether, HeaderFits, FromItsStart
<1>3. /\ s \in Seq(Tokens) /\ KnownInv /\ Elements(s)
  BY DEF ShapeInv, KnownInv, ExtractTypeOK
<1>4. n \in 1 .. Len(s)
  <2>1. PICK i \in 1 .. Len(html_output) : html_output[i].tag \in StartTags
    BY <1>3 DEF KnownInv
  <2> QED
    BY <1>3, <2>1, StartIs
<1>5. e # 0 /\ pass' = "colgroups"
  BY <1>3 DEF Extract, KnownInv
<1>6. End' = End /\ Start(html_output)' = Start(html_output)
  <2>1. \A tags : LastOf(tags)' = LastOf(tags)
    BY <1>1 DEF LastOf, SelectLastInSeq
  <2>2. IsFragment' = IsFragment
    BY <1>1 DEF IsFragment
  <2> QED
    BY <1>1, <2>1, <2>2 DEF End
<1>7. e \in n .. Len(s) /\ clean_html' = SubSeq(s, n, e)
  BY <1>1, <1>5, <1>6 DEF ExactInv
<1>8. \A i \in 1 .. n - 1 : s[i].tag \notin Shown /\ s[i].tag # "<thead>"
  BY <1>2 DEF Tame, ShownFromStart
<1>9. Good(Content(SubSeq(s, n, e)))
  <2> HIDE DEF n
  <2> QED
    BY <1>3, <1>4, <1>5, <1>7, <1>8, GoodPart
<1> HIDE DEF n, e
<1>10. ColumnsTogether(SubSeq(s, n, e))
  BY <1>2, <1>3, <1>4, <1>7, TogetherPart DEF Tame
<1>11. Fits(SubSeq(s, n, e))
  BY <1>2, <1>3, <1>4, <1>7, <1>8, FitsPart DEF Tame
<1>12. Tabled(SubSeq(s, n, e))
  <2>1. n \in 1 .. Len(s) + 1 /\ e \in 0 .. Len(s)
    BY <1>3, <1>4, <1>7
  <2>2. Elements(SubSeq(s, n, e))
    BY <1>3, <2>1, ElementsPart
  <2> QED
    BY <2>2 DEF Elements
<1>13. Good(Content(clean_html))'
  <2>1. Content(clean_html)' = Content(SubSeq(s, n, e))
    BY <1>7
  <2> QED
    BY <1>1, <1>9, <2>1 DEF Good
<1> QED
  BY <1>5, <1>7, <1>10, <1>11, <1>12, <1>13 DEF KeptInv

\* A pass that keeps what the text shows.
LEMMA KeptStep ==
  ASSUME KeptInv, html_output' = html_output, window' = window, has_html' = has_html,
         FromItsStart' /\ has_html' /\ Tame(html_output)' =>
           /\ Content(clean_html') = Content(clean_html)
           /\ pass' # "colgroups" \/ (pass' = pass /\ clean_html' = clean_html)
           /\ pass' \in BeforeHead => pass \in BeforeHead /\ (Fits(clean_html) => Fits(clean_html'))
           /\ pass' \in BeforeHead \cup {"captions", "table"} =>
                /\ pass \in BeforeHead \cup {"captions", "table"}
                /\ Tabled(clean_html) => Tabled(clean_html')
  PROVE  KeptInv'
<1> SUFFICES ASSUME FromItsStart', has_html', Tame(html_output)' PROVE KeptInv'
  BY DEF KeptInv
<1>1. FromItsStart /\ has_html /\ Tame(html_output)
  BY DEF Tame, ShownFromStart, ColumnsTogether, HeaderFits, FromItsStart
<1>2. Good(Content(clean_html))'
  <2>1. Content(clean_html)' = Content(clean_html)
    OBVIOUS
  <2>2. Good(Content(clean_html))
    BY <1>1 DEF KeptInv
  <2> QED
    BY <2>1, <2>2 DEF Good
<1> QED
  BY <1>1, <1>2 DEF KeptInv

LEMMA KeptNext ==
  ShapeInv /\ ExactInv /\ KeptInv /\ ExactInv' /\ [ExtractNext]_extractVars => KeptInv'
<1> SUFFICES ASSUME ShapeInv, ExactInv, KeptInv, ExactInv', [ExtractNext]_extractVars
             PROVE  KeptInv'
  OBVIOUS
<1> DEFINE s == clean_html
<1>1. s \in Seq(Tokens) /\ Len(s) \in Nat /\ KnownInv
  BY DEF ShapeInv, KnownInv, ExtractTypeOK
<1>2. pass \notin {"bounds", "done"} => has_html
  BY <1>1 DEF KnownInv
<1>3. ASSUME FromItsStart', html_output' = html_output, window' = window, Tame(html_output)'
      PROVE  FromItsStart /\ Tame(html_output)
  BY <1>3 DEF Tame, ShownFromStart, ColumnsTogether, HeaderFits, FromItsStart
<1>4. CASE Extract
  BY <1>4, KeptExtract
<1>5. CASE MergeColgroups
  <2>1. /\ html_output' = html_output /\ window' = window /\ has_html' = has_html
        /\ pass = "colgroups" /\ pass' = "titles"
    BY <1>5 DEF MergeColgroups
  <2>2. ASSUME FromItsStart', Tame(html_output)' PROVE Kept(clean_html', s)
    <3>1. CASE Cardinality(Colgroups(s)) > 1
      <4>1. ColgroupsEnd(s) # 0
        <5>1. FromItsStart
          BY <1>3, <2>1, <2>2
        <5>2. ColgroupsEndFound
          BY ColgroupsEndKnown
        <5> QED
          BY <2>1, <3>1, <5>1, <5>2 DEF ColgroupsEndFound
      <4>2. Grouped(s) /\ ColumnsTogether(s)
        BY <1>2, <1>3, <2>1, <2>2 DEF KeptInv, ShapeInv, ElementInv
      <4> QED
        BY <1>1, <1>5, <3>1, <4>1, <4>2, ColgroupsKept DEF MergeColgroups
    <3>2. CASE ~(Cardinality(Colgroups(s)) > 1)
      BY <1>5, <3>2 DEF MergeColgroups, Kept
    <3> QED
      BY <3>1, <3>2
  <2> QED
    BY <2>1, <2>2, KeptStep DEF Kept, BeforeHead
<1>6. CASE RemoveTitle
  <2>1. /\ html_output' = html_output /\ window' = window /\ has_html' = has_html
        /\ pass = "titles" /\ pass' \in {"titles", "styles"}
    BY <1>6 DEF RemoveTitle, NextPass
  <2>2. Kept(clean_html', s)
    <3>1. CASE UNCHANGED clean_html
      BY <3>1 DEF Kept
    <3>2. CASE ~UNCHANGED clean_html
      <4>1. PICK i \in Titles(s) : clean_html' = Cut(s, i, First(s, {"</div>"}, i))
        BY <1>6, <3>2 DEF RemoveTitle
      <4> DEFINE end == First(s, {"</div>"}, i)
      <4>2. i \in 1 .. Len(s) /\ s[i].tag = "<titlediv" /\ end # 0
        BY <1>1 DEF Titles
      <4>3. IsFirst(end, s, {"</div>"}, i)
        BY <1>1, <4>2, FirstIs
      <4>4. Only(s, "<titlediv", "</div>", {"text"})
        BY <2>1 DEF ShapeInv, ElementInv, BeforeHead, Titled
      <4>5. "<titlediv" \in NeverShown /\ "</div>" \in NeverShown
        BY DEF NeverShown, Tags
      <4> HIDE DEF end
      <4>6. Kept(Cut(s, i, end), s)
        BY <1>1, <4>2, <4>3, <4>4, <4>5, ElementRemoved
      <4> QED
        BY <4>1, <4>6 DEF end
    <3> QED
      BY <3>1, <3>2
  <2> QED
    BY <2>1, <2>2, KeptStep DEF Kept, BeforeHead
<1>7. CASE RemoveStyle \/ RemoveLabel
  <2>1. /\ html_output' = html_output /\ window' = window /\ has_html' = has_html
        /\ pass \in {"styles", "labels"} /\ pass' \in {"styles", "labels", "head"}
        /\ \/ clean_html' = s
           \/ \E i, name : ErasedAt(clean_html', s, i, name)
    BY <1>1, <1>7, RoundIs DEF RemoveStyle, RemoveLabel
  <2>2. Kept(clean_html', s)
    <3>1. CASE clean_html' = s
      BY <3>1 DEF Kept
    <3>2. CASE \E i, name : ErasedAt(clean_html', s, i, name)
      BY <1>1, <3>2, AttributesKept
    <3> QED
      BY <2>1, <3>1, <3>2
  <2> QED
    BY <2>1, <2>2, KeptStep DEF Kept, BeforeHead
<1>8. CASE MoveHeader
  <2>1. /\ html_output' = html_output /\ window' = window /\ has_html' = has_html
        /\ pass = "head" /\ pass' = "captions"
    BY <1>8 DEF MoveHeader
  <2>2. ASSUME FromItsStart', Tame(html_output)'
        PROVE  Content(clean_html') = Content(s) /\ (Tabled(s) => Tabled(clean_html'))
    <3> DEFINE head == First(s, {"<thead>"}, 1)
               end == First(s, {"</thead>"}, head)
               new == InsertHeader(Cut(s, head, end), SubSeq(s, head + 1, end - 1))
               moved == head # 0 /\ First(s, {"<tbody>"}, 1) # 0 /\ end # 0
    <3>1. clean_html' = IF moved THEN new ELSE s
      BY <1>8 DEF MoveHeader
    <3>2. CASE moved
      <4>1. Headed(s) /\ Bodied(s) /\ Fits(s)
        BY <1>2, <1>3, <2>1, <2>2 DEF KeptInv, ShapeInv, ElementInv, BeforeHead
      <4>2. IsFirst(head, s, {"<thead>"}, 1) /\ head # 0
        BY <1>1, <3>2, FirstIs
      <4>3. head \in Nat \ {0}
        <5> HIDE DEF head
        <5> QED
          BY <1>1, <4>2 DEF IsFirst
      <4>4. IsFirst(end, s, {"</thead>"}, head) /\ end # 0
        <5> HIDE DEF head
        <5> QED
          BY <1>1, <3>2, <4>3, FirstIs
      <4>5. First(s, {"<tbody>"}, 1) # 0 /\ clean_html' = new
        BY <3>1, <3>2
      <4> HIDE DEF head, end
      <4> QED
        BY <1>1, <4>1, <4>2, <4>4, <4>5, HeaderKept
    <3>3. CASE ~moved
      BY <3>1, <3>3
    <3> QED
      BY <3>2, <3>3
  <2> QED
    BY <2>1, <2>2, KeptStep DEF BeforeHead
<1>9. CASE NextCaption
  <2>1. /\ html_output' = html_output /\ window' = window /\ has_html' = has_html
        /\ pass = "captions" /\ pass' \in {"captions", "table"}
    BY <1>9 DEF NextCaption
  <2>2. Kept(clean_html', s)
    <3> DEFINE from == First(s, {"<caption"}, caption_pos)
               end == First(s, {"</caption>"}, from)
    <3>1. CASE UNCHANGED clean_html
      BY <3>1 DEF Kept
    <3>2. CASE ~UNCHANGED clean_html
      <4>1. from # 0 /\ end # 0 /\ clean_html' = Cut(s, from, end)
        BY <1>9, <3>2 DEF NextCaption
      <4>2. caption_pos \in Nat \ {0}
        BY <1>1, <2>1 DEF KnownInv, ExtractTypeOK
      <4>3. IsFirst(from, s, {"<caption"}, caption_pos)
        BY <1>1, <4>2, FirstIs
      <4>4. from \in 1 .. Len(s) /\ s[from].tag = "<caption"
        <5> HIDE DEF from
        <5> QED
          BY <1>1, <4>1, <4>2, <4>3 DEF IsFirst
      <4>5. IsFirst(end, s, {"</caption>"}, from)
        <5> HIDE DEF from
        <5> QED
          BY <1>1, <4>4, FirstIs
      <4>6. Only(s, "<caption", "</caption>", {"text"})
        BY <2>1 DEF ShapeInv, ElementInv, BeforeHead, Captioned
      <4>7. "<caption" \in NeverShown /\ "</caption>" \in NeverShown
        BY DEF NeverShown, Tags
      <4> HIDE DEF from, end
      <4> QED
        BY <1>1, <4>1, <4>4, <4>5, <4>6, <4>7, ElementRemoved
    <3> QED
      BY <3>1, <3>2
  <2> QED
    BY <2>1, <2>2, KeptStep DEF Kept, BeforeHead
<1>10. CASE FlattenTable
  <2>1. /\ html_output' = html_output /\ window' = window /\ has_html' = has_html
        /\ pass = "table" /\ pass' = "done"
    BY <1>10 DEF FlattenTable
  <2>2. ASSUME FromItsStart', Tame(html_output)' PROVE Content(clean_html') = Content(s)
    <3> DEFINE table == First(s, {"<table"}, 1)
               end == First(s, {"</table>"}, table)
    <3>1. CASE table # 0 /\ end # 0
      <4>1. clean_html' = Replace(s, table, end - 1, Rebuilt(SubSeq(s, table, end)))
        BY <1>10, <3>1 DEF FlattenTable, RebuiltUpTo
      <4>2. NoStyle(s) /\ Tabled(s)
        BY <1>2, <1>3, <2>1, <2>2 DEF KeptInv, ShapeInv, TidyInv
      <4>3. IsFirst(table, s, {"<table"}, 1) /\ table # 0
        BY <1>1, <3>1, FirstIs
      <4>4. table \in Nat \ {0}
        <5> HIDE DEF table
        <5> QED
          BY <1>1, <4>3 DEF IsFirst
      <4>5. IsFirst(end, s, {"</table>"}, table) /\ end # 0
        <5> HIDE DEF table
        <5> QED
          BY <1>1, <3>1, <4>4, FirstIs
      <4> HIDE DEF table, end
      <4> QED
        BY <1>1, <4>1, <4>2, <4>3, <4>5, TableKept
    <3>2. CASE ~(table # 0 /\ end # 0)
      BY <1>10, <3>2 DEF FlattenTable
    <3> QED
      BY <3>1, <3>2
  <2> QED
    BY <2>1, <2>2, KeptStep DEF BeforeHead
<1>11. CASE UNCHANGED extractVars
  BY <1>11, KeptStep DEF extractVars
<1> QED
  BY <1>4, <1>5, <1>6, <1>7, <1>8, <1>9, <1>10, <1>11 DEF ExtractNext

(***************************************************************************)
(* No pass loses, repeats or reorders a row or a picture: of an output     *)
(* that is read from its start on, the text that is displayed shows what   *)
(* the output shows, or the beginning of it if the end was cut off.        *)
(***************************************************************************)
THEOREM ExtractContent == ExtractSpec => []ContentKept
<1>1. ExtractInit => KeptInv
  BY DEF ExtractInit, KeptInv
<1>2. KeptInv => ContentKept
  BY DEF KeptInv, ContentKept, Good
<1> QED
  BY <1>1, <1>2, ShapeAlways, ExactAlways, KeptNext, PTL DEF ExtractSpec

-----------------------------------------------------------------------------
(***************************************************************************)
(* Nesting.  f is the trace of places that a text leads through, from the  *)
(* place p: f[i] is what is open behind its first i tokens.  What a text   *)
(* leads to is then a relation that can be put together from its parts.    *)
(***************************************************************************)
Trace(f, p, s) ==
  /\ DOMAIN f = 0 .. Len(s) /\ f[0] = p
  /\ \A i \in 1 .. Len(s) : f[i] = Behind(f[i - 1], s[i])

Leads(p, s, q) == \E f : Trace(f, p, s) /\ f[Len(s)] = q

\* The same for its first n tokens.
TraceTo(n, f, s) ==
  /\ DOMAIN f = 0 .. n /\ f[0] = Outside
  /\ \A i \in 1 .. n : f[i] = Behind(f[i - 1], s[i])

LEMMA TraceMore ==
  ASSUME NEW n \in Nat, NEW f, NEW s, TraceTo(n, f, s)
  PROVE  \E g : TraceTo(n + 1, g, s)
<1> DEFINE g == [i \in 0 .. n + 1 |-> IF i = n + 1 THEN Behind(f[n], s[n + 1]) ELSE f[i]]
<1>1. DOMAIN g = 0 .. n + 1 /\ g[0] = Outside
  BY DEF TraceTo
<1>2. \A i \in 0 .. n : g[i] = f[i]
  OBVIOUS
<1>3. g[n + 1] = Behind(f[n], s[n + 1])
  OBVIOUS
<1> HIDE DEF g
<1>4. \A i \in 1 .. n + 1 : g[i] = Behind(g[i - 1], s[i])
  <2> TAKE i \in 1 .. n + 1
  <2>1. CASE i = n + 1
    <3>1. i - 1 = n /\ n \in 0 .. n
      BY <2>1
    <3> QED
      BY <2>1, <3>1, <1>2, <1>3
  <2>2. CASE i # n + 1
    <3>1. i \in 1 .. n /\ i \in 0 .. n /\ i - 1 \in 0 .. n
      BY <2>2
    <3>2. g[i] = f[i] /\ g[i - 1] = f[i - 1]
      BY <3>1, <1>2
    <3>3. f[i] = Behind(f[i - 1], s[i])
      BY <3>1 DEF TraceTo
    <3> QED
      BY <3>2, <3>3
  <2> QED
    BY <2>1, <2>2
<1> QED
  BY <1>1, <1>4 DEF TraceTo

LEMMA TraceExists ==
  ASSUME NEW s, Len(s) \in Nat
  PROVE  \E f : TraceTo(Len(s), f, s)
<1> DEFINE S == {n \in 0 .. Len(s) : \E f : TraceTo(n, f, s)}
<1>1. 0 \in S
  <2>1. TraceTo(0, [i \in 0 .. 0 |-> Outside], s)
    BY DEF TraceTo
  <2> QED
    BY <2>1
<1>2. \A n \in 0 .. Len(s) - 1 : n \in S => n + 1 \in S
  <2> SUFFICES ASSUME NEW n \in 0 .. Len(s) - 1, NEW f, TraceTo(n, f, s)
               PROVE  \E g : TraceTo(n + 1, g, s)
    OBVIOUS
  <2> QED
    BY TraceMore
<1> HIDE DEF S
<1>3. \A n \in 0 .. Len(s) : n \in S
  BY <1>1, <1>2, UpToInduction
<1> QED
  BY <1>3 DEF S

LEMMA TraceUnique ==
  ASSUME NEW n \in Nat, NEW s, NEW f, TraceTo(n, f, s), NEW g, TraceTo(n, g, s)
  PROVE  f[n] = g[n]
<1> DEFINE S == {i \in 0 .. n : f[i] = g[i]}
<1>1. 0 \in S
  BY DEF TraceTo
<1>2. \A i \in 0 .. n - 1 : i \in S => i + 1 \in S
  <2> SUFFICES ASSUME NEW i \in 0 .. n - 1, f[i] = g[i] PROVE f[i + 1] = g[i + 1]
    OBVIOUS
  <2> DEFINE j == i + 1
  <2>1. j \in 1 .. n /\ j - 1 = i
    OBVIOUS
  <2> HIDE DEF j
  <2>2. f[j] = Behind(f[i], s[j]) /\ g[j] = Behind(g[i], s[j])
    BY <2>1 DEF TraceTo
  <2> QED
    BY <2>2 DEF j
<1> HIDE DEF S
<1>3. \A i \in 0 .. n : i \in S
  BY <1>1, <1>2, UpToInduction
<1> QED
  BY <1>3 DEF S

LEMMA NestedIs ==
  ASSUME NEW s, Len(s) \in Nat
  PROVE  WellNested(s) <=> Leads(Outside, s, Outside)
<1> DEFINE n == Len(s)
           Rec(h) == [i \in 0 .. n |-> IF i = 0 THEN Outside ELSE Behind(h[i - 1], s[i])]
           h0 == CHOOSE h : h = Rec(h)
<1>1. PICK g : TraceTo(n, g, s)
  BY TraceExists
<1> DEFINE h1 == [i \in 0 .. n |-> g[i]]
<1>2. h1 = Rec(h1)
  <2>1. \A i \in 0 .. n : h1[i] = IF i = 0 THEN Outside ELSE Behind(h1[i - 1], s[i])
    BY <1>1 DEF TraceTo
  <2> QED
    BY <2>1
<1>3. h0 = Rec(h0)
  <2> HIDE DEF h1
  <2> QED
    BY <1>2
<1>4. WellNested(s) <=> h0[n] = Outside
  BY DEF WellNested
<1> HIDE DEF h0
<1>5. TraceTo(n, h0, s)
  <2>1. DOMAIN h0 = 0 .. n /\ h0[0] = Outside
    BY <1>3
  <2>2. \A i \in 1 .. n : h0[i] = Behind(h0[i - 1], s[i])
    BY <1>3
  <2> QED
    BY <2>1, <2>2 DEF TraceTo
<1>6. \A f : Trace(f, Outside, s) <=> TraceTo(n, f, s)
  BY DEF Trace, TraceTo
<1>7. \A f : TraceTo(n, f, s) => f[n] = h0[n]
  BY <1>5, TraceUnique
<1> QED
  BY <1>4, <1>5, <1>6, <1>7 DEF Leads

LEMMA LeadsJoin ==
  ASSUME NEW s \in Seq(Tokens), NEW t \in Seq(Tokens), NEW p, NEW q, NEW r,
         Leads(p, s, q), Leads(q, t, r)
  PROVE  Leads(p, s \o t, r)
<1> DEFINE m == Len(s)
           n == Len(t)
           u == s \o t
<1>1. PICK f : Trace(f, p, s) /\ f[m] = q
  BY DEF Leads
<1>2. PICK g : Trace(g, q, t) /\ g[n] = r
  BY DEF Leads
<1>3. /\ m \in Nat /\ n \in Nat /\ Len(u) = m + n
      /\ \A i \in 1 .. m + n : u[i] = IF i <= m THEN s[i] ELSE t[i - m]
  BY ConcatProperties
<1> DEFINE h == [i \in 0 .. m + n |-> IF i <= m THEN f[i] ELSE g[i - m]]
<1>4. DOMAIN h = 0 .. m + n /\ h[0] = p
  BY <1>1, <1>3 DEF Trace
<1>5. \A i \in 0 .. m : h[i] = f[i]
  BY <1>3
<1>6. \A i \in 0 .. n : h[m + i] = g[i]
  <2> TAKE i \in 0 .. n
  <2>1. CASE i = 0
    <3>1. m + i = m /\ m \in 0 .. m
      BY <1>3, <2>1
    <3> QED
      BY <1>1, <1>2, <1>5, <2>1, <3>1 DEF Trace
  <2>2. CASE i # 0
    <3> DEFINE j == m + i
    <3>1. j \in 0 .. m + n /\ ~(j <= m) /\ j - m = i
      BY <1>3, <2>2
    <3> HIDE DEF j
    <3>2. h[j] = g[i]
      BY <3>1
    <3> QED
      BY <3>2 DEF j
  <2> QED
    BY <2>1, <2>2
<1> HIDE DEF h, u, m, n
<1>7. \A i \in 1 .. Len(u) : h[i] = Behind(h[i - 1], u[i])
  <2> TAKE i \in 1 .. Len(u)
  <2>1. CASE i <= m
    <3>1. i \in 1 .. m /\ i \in 0 .. m /\ i - 1 \in 0 .. m /\ i \in 1 .. m + n
      BY <1>3, <2>1
    <3>2. h[i] = f[i] /\ h[i - 1] = f[i - 1] /\ u[i] = s[i]
      BY <1>3, <1>5, <2>1, <3>1
    <3>3. f[i] = Behind(f[i - 1], s[i])
      BY <1>1, <3>1 DEF Trace, m
    <3> QED
      BY <3>2, <3>3
  <2>2. CASE ~(i <= m)
    <3> DEFINE j == i - m
               k == j - 1
    <3>1. j \in 1 .. n /\ j \in 0 .. n /\ k \in 0 .. n /\ m + j = i /\ m + k = i - 1
          /\ i \in 1 .. m + n
      BY <1>3, <2>2
    <3> HIDE DEF j
    <3>2. g[j] = Behind(g[k], t[j])
      BY <1>2, <3>1 DEF Trace, n
    <3> HIDE DEF k
    <3>3. h[m + j] = g[j] /\ h[m + k] = g[k]
      BY <1>6, <3>1
    <3>4. u[i] = t[j]
      BY <1>3, <2>2, <3>1 DEF j
    <3> QED
      BY <3>1, <3>2, <3>3, <3>4
  <2> QED
    BY <2>1, <2>2
<1>8. h[Len(u)] = r
  <2>1. n \in 0 .. n
    BY <1>3
  <2> QED
    BY <1>2, <1>3, <1>6, <2>1
<1>9. Trace(h, p, u)
  BY <1>3, <1>4, <1>7 DEF Trace
<1> QED
  BY <1>8, <1>9 DEF Leads, u

\* Behind its first a tokens and behind its first b.
LEMMA LeadsPart ==
  ASSUME NEW s \in Seq(Tokens), NEW p, NEW f, Trace(f, p, s),
         NEW a \in 0 .. Len(s), NEW b \in a .. Len(s)
  PROVE  Leads(f[a], SubSeq(s, a + 1, b), f[b])
<1> DEFINE m == a + 1
           u == SubSeq(s, m, b)
           n == b - a
           g == [i \in 0 .. n |-> f[a + i]]
<1>1. m \in 1 .. Len(s) + 1 /\ b \in 0 .. Len(s) /\ n \in Nat /\ Len(s) \in Nat
  OBVIOUS
<1>2. /\ u \in Seq(Tokens) /\ Len(u) = (IF m <= b THEN b - m + 1 ELSE 0)
      /\ \A i \in 1 .. Len(u) : u[i] = s[m + i - 1]
  <2> HIDE DEF m, u
  <2> QED
    BY <1>1, PartIs DEF u
<1> HIDE DEF u
<1>3. Len(u) = n
  BY <1>1, <1>2
<1>4. DOMAIN g = 0 .. n /\ g[0] = f[a]
  BY <1>1
<1>5. g[n] = f[b]
  <2>1. a + n = b /\ n \in 0 .. n
    BY <1>1
  <2> HIDE DEF n
  <2> QED
    BY <2>1
<1>6. \A i \in 1 .. n : g[i] = Behind(g[i - 1], u[i])
  <2> TAKE i \in 1 .. n
  <2> DEFINE j == a + i
             k == i - 1
  <2>1. j \in 1 .. Len(s) /\ k \in 0 .. n /\ i \in 0 .. n /\ a + k = j - 1 /\ m + i - 1 = j
        /\ i \in 1 .. Len(u)
    BY <1>1, <1>3
  <2> HIDE DEF k, n
  <2>2. g[i] = f[j] /\ g[k] = f[j - 1]
    BY <2>1
  <2> HIDE DEF j, g, m
  <2>3. f[j] = Behind(f[j - 1], s[j])
    BY <2>1 DEF Trace
  <2>4. u[i] = s[j]
    BY <1>2, <2>1
  <2> QED
    BY <2>2, <2>3, <2>4 DEF k
<1> HIDE DEF g
<1>7. Trace(g, f[a], u)
  BY <1>3, <1>4, <1>6 DEF Trace
<1> QED
  BY <1>3, <1>5, <1>7 DEF Leads, u

Neutral == {"<col/>", "row", "img", "text"}

LEMMA BehindNeutral ==
  ASSUME NEW p \in Place, NEW x, x.tag \in Neutral
  PROVE  Behind(p, x) = p
BY DEF Behind, Neutral, Place, Holder, Closer, TableParts, Outside, InDocument

LEMMA LeadsNowhere ==
  ASSUME NEW s \in Seq(Tokens), NEW p \in Place, \A i \in 1 .. Len(s) : s[i].tag \in Neutral
  PROVE  Leads(p, s, p)
<1> DEFINE f == [i \in 0 .. Len(s) |-> p]
<1>1. DOMAIN f = 0 .. Len(s) /\ f[0] = p /\ f[Len(s)] = p
  OBVIOUS
<1>2. \A i \in 1 .. Len(s) : f[i] = Behind(f[i - 1], s[i])
  <2> TAKE i \in 1 .. Len(s)
  <2>1. i - 1 \in 0 .. Len(s) /\ i \in 0 .. Len(s)
    OBVIOUS
  <2>2. f[i] = p /\ f[i - 1] = p
    BY <2>1
  <2>3. Behind(p, s[i]) = p
    BY BehindNeutral
  <2> QED
    BY <2>2, <2>3
<1> HIDE DEF f
<1> QED
  BY <1>1, <1>2 DEF Trace, Leads

LEMMA LeadsOne ==
  ASSUME NEW x \in Tokens, NEW p
  PROVE  <<x>> \in Seq(Tokens) /\ Leads(p, <<x>>, Behind(p, x))
<1> DEFINE s == <<x>>
           f == [i \in 0 .. 1 |-> IF i = 0 THEN p ELSE Behind(p, x)]
<1>1. s \in Seq(Tokens) /\ Len(s) = 1 /\ s[1] = x
  OBVIOUS
<1>2. DOMAIN f = 0 .. 1 /\ f[0] = p /\ f[1] = Behind(p, x)
  OBVIOUS
<1> HIDE DEF f, s
<1>3. Trace(f, p, s)
  <2>1. \A i \in 1 .. 1 : f[i] = Behind(f[i - 1], s[i])
    <3> TAKE i \in 1 .. 1
    <3>1. i = 1 /\ i - 1 = 0
      OBVIOUS
    <3> QED
      BY <1>1, <1>2, <3>1
  <2> QED
    BY <1>1, <1>2, <2>1 DEF Trace
<1>4. f[Len(s)] = Behind(p, x)
  BY <1>1, <1>2
<1>5. Leads(p, s, Behind(p, x))
  BY <1>3, <1>4 DEF Leads
<1> QED
  BY <1>1, <1>5 DEF s

\* An edit keeps the nesting if what is put in leads from what was open before
\* the part that it replaces to what was open behind it.
LEMMA NestReplaced ==
  ASSUME NEW s \in Seq(Tokens), NEW by \in Seq(Tokens), NEW f,
         Trace(f, Outside, s), f[Len(s)] = Outside,
         NEW from \in 1 .. Len(s) + 1, NEW to \in 0 .. Len(s), Leads(f[from - 1], by, f[to])
  PROVE  WellNested(Replace(s, from, to, by))
<1> DEFINE k == Len(s)
           p == from - 1
           m == to + 1
           a == SubSeq(s, 1, p)
           c == SubSeq(s, m, k)
<1>1. k \in Nat /\ p \in 0 .. k /\ to \in 0 .. k /\ p \in 0 .. k /\ k \in to .. k /\ 0 \in 0 .. k
  OBVIOUS
<1>2. Leads(f[0], SubSeq(s, 0 + 1, p), f[p])
  BY <1>1, LeadsPart
<1>3. Leads(f[to], SubSeq(s, to + 1, k), f[k])
  BY <1>1, LeadsPart
<1>4. f[0] = Outside /\ 0 + 1 = 1
  BY DEF Trace
<1>5. Leads(Outside, a, f[p]) /\ Leads(f[to], c, Outside)
  BY <1>2, <1>3, <1>4
<1>6. a \in Seq(Tokens) /\ c \in Seq(Tokens)
  <2>1. 1 \in 1 .. Len(s) + 1 /\ p \in 0 .. Len(s) /\ m \in 1 .. Len(s) + 1 /\ k \in 0 .. Len(s)
    BY <1>1
  <2> HIDE DEF p, m, k
  <2> QED
    BY ONLY <2>1, s \in Seq(Tokens), PartIs DEF a, c
<1>7. Replace(s, from, to, by) = (a \o by) \o c
  BY DEF Replace
<1> HIDE DEF a, c, m, k
<1>8. Leads(f[p], by, f[to])
  OBVIOUS
<1> HIDE DEF p
<1>9. Leads(Outside, a \o by, f[to])
  BY ONLY <1>5, <1>6, <1>8, by \in Seq(Tokens), LeadsJoin
<1>10. a \o by \in Seq(Tokens)
  BY ONLY <1>6, by \in Seq(Tokens), ConcatProperties
<1> DEFINE d == a \o by
<1> HIDE DEF d
<1>11. d \in Seq(Tokens) /\ Leads(Outside, d, f[to])
  BY <1>9, <1>10 DEF d
<1>12. Leads(Outside, d \o c, Outside) /\ d \o c \in Seq(Tokens)
  BY ONLY <1>5, <1>6, <1>11, LeadsJoin, ConcatProperties
<1> DEFINE e == d \o c
<1> HIDE DEF e
<1>13. Leads(Outside, e, Outside) /\ e \in Seq(Tokens)
  BY <1>12 DEF e
<1>14. WellNested(e)
  BY <1>13, NestedIs
<1> QED
  BY <1>7, <1>14 DEF d, e

LEMMA RangeInduction ==
  ASSUME NEW a \in Nat, NEW b \in Nat, a <= b, NEW S, a \in S,
         \A i \in a + 1 .. b : i - 1 \in S => i \in S
  PROVE  \A i \in a .. b : i \in S
<1> DEFINE n == b - a
           R == {d \in 0 .. n : a + d \in S}
<1>1. n \in Nat
  OBVIOUS
<1>2. 0 \in R
  BY <1>1
<1>3. \A d \in 0 .. n - 1 : d \in R => d + 1 \in R
  <2> SUFFICES ASSUME NEW d \in 0 .. n - 1, a + d \in S PROVE a + (d + 1) \in S
    BY <1>1
  <2> DEFINE i == a + (d + 1)
  <2>1. i \in a + 1 .. b /\ i - 1 = a + d
    OBVIOUS
  <2> HIDE DEF i
  <2>2. i \in S
    BY <2>1
  <2> QED
    BY <2>2 DEF i
<1> HIDE DEF R
<1>4. \A d \in 0 .. n : d \in R
  BY <1>1, <1>2, <1>3, UpToInduction
<1> TAKE i \in a .. b
<1> DEFINE d == i - a
<1>5. d \in 0 .. n /\ a + d = i
  OBVIOUS
<1> HIDE DEF d
<1>6. a + d \in S
  BY <1>4, <1>5 DEF R
<1> QED
  BY <1>5, <1>6

-----------------------------------------------------------------------------
Inner == TableParts \cup {"<titlediv"}
InTable == TableParts \cup {"<table"}

At(p, within) == [document |-> p.document, divs |-> p.divs, within |-> within]

LEMMA PlaceIs ==
  /\ Stray \in Place /\ Outside \in Place /\ InDocument \in Place
  /\ \A p \in Place : At(p, p.within) = p
  /\ \A p \in Place : \A w \in {"body", "<titlediv", "<table", "stray"} \cup TableParts :
       /\ At(p, w) \in Place /\ At(p, w).within = w
       /\ At(p, w).document = p.document /\ At(p, w).divs = p.divs
BY DEF At, Place, Stray, Outside, InDocument

LEMMA BehindType == \A p \in Place, x \in Tokens : Behind(p, x) \in Place
<1> SUFFICES ASSUME NEW p \in Place, NEW x \in Tokens PROVE Behind(p, x) \in Place
  OBVIOUS
<1> QED
  BY DEF Behind, Place, Holder, Closer, TableParts, Outside, InDocument, Stray, Tokens, Tags

LEMMA BehindStray == \A x \in Tokens : Behind(Stray, x) = Stray
BY DEF Behind, Holder, Closer, TableParts, Outside, InDocument, Stray, Tokens, Tags

\* What a tag opens, and where it may stand.
LEMMA BehindOpen ==
  ASSUME NEW p \in Place, NEW x \in Tokens, x.tag \in InTable \cup Inner, Behind(p, x) # Stray
  PROVE  p.within = Holder(x.tag) /\ Behind(p, x) = At(p, x.tag)
BY DEF Behind, Place, Holder, Closer, TableParts, Outside, InDocument, Inner, InTable, At

\* Within an element that holds no other one.
LEMMA BehindInner ==
  ASSUME NEW p \in Place, p.within \in Inner, NEW x \in Tokens, Behind(p, x) # Stray
  PROVE  \/ x.tag = Closer(p.within) /\ Behind(p, x) = At(p, Holder(p.within))
         \/ x.tag # Closer(p.within) /\ x.tag \in Neutral /\ Behind(p, x) = p
BY DEF Behind, Place, Holder, Closer, TableParts, Outside, InDocument, Inner, At, Neutral

\* Within a table.
LEMMA BehindInTable ==
  ASSUME NEW p \in Place, p.within \in InTable, NEW x \in Tokens, Behind(p, x) # Stray,
         x.tag # "</table>"
  PROVE  /\ Behind(p, x).within \in InTable
         /\ Behind(p, x).document = p.document /\ Behind(p, x).divs = p.divs
BY DEF Behind, Place, Holder, Closer, TableParts, Outside, InDocument, InTable, Inner, Neutral

LEMMA BehindTable ==
  ASSUME NEW p \in Place, NEW x \in Tokens, Behind(p, x) # Stray, x.tag = "</table>"
  PROVE  p.within = "<table" /\ Behind(p, x) = At(p, "body")
BY DEF Behind, Place, Holder, Closer, TableParts, Outside, InDocument, At

LEMMA BehindOutOfTable ==
  ASSUME NEW p \in Place, p.within \notin InTable, NEW x \in Tokens, Behind(p, x) # Stray,
         x.tag # "<table"
  PROVE  Behind(p, x).within \notin InTable /\ x.tag # "</table>"
BY DEF Behind, Place, Holder, Closer, TableParts, Outside, InDocument, InTable, Inner, Neutral,
       Stray, Tokens, Tags

-----------------------------------------------------------------------------
(***************************************************************************)
(* The places of a well nested text.                                       *)
(***************************************************************************)
Nest(f, s) ==
  /\ Trace(f, Outside, s) /\ f[Len(s)] = Outside
  /\ \A i \in 0 .. Len(s) : f[i] \in Place /\ f[i] # Stray

\* A step of the trace.
NestStep(f, s, i) ==
  /\ f[i] = Behind(f[i - 1], s[i]) /\ s[i] \in Tokens
  /\ f[i - 1] \in Place /\ f[i] \in Place /\ f[i] # Stray

LEMMA NestSteps ==
  ASSUME NEW s \in Seq(Tokens), NEW f, Nest(f, s)
  PROVE  \A i \in 1 .. Len(s) : NestStep(f, s, i)
<1> TAKE i \in 1 .. Len(s)
<1>1. i \in 0 .. Len(s) /\ i - 1 \in 0 .. Len(s)
  OBVIOUS
<1> QED
  BY <1>1 DEF Nest, Trace, NestStep

LEMMA NestIs ==
  ASSUME NEW s \in Seq(Tokens), WellNested(s)
  PROVE  \E f : Nest(f, s)
<1> DEFINE n == Len(s)
<1>1. n \in Nat /\ 0 \in 0 .. n /\ n \in 0 .. n
  OBVIOUS
<1>2. Leads(Outside, s, Outside)
  BY <1>1, NestedIs
<1>3. PICK f : Trace(f, Outside, s) /\ f[n] = Outside
  BY <1>2 DEF Leads
<1>4. \A i \in 1 .. n : f[i] = Behind(f[i - 1], s[i]) /\ s[i] \in Tokens
  BY <1>3 DEF Trace
<1> DEFINE S == {i \in 0 .. n : f[i] \in Place}
<1>5. \A i \in 0 .. n : i \in S
  <2>1. 0 \in S
    BY <1>1, <1>3, PlaceIs DEF Trace
  <2>2. \A i \in 0 + 1 .. n : i - 1 \in S => i \in S
    <3> SUFFICES ASSUME NEW i \in 1 .. n, f[i - 1] \in Place PROVE f[i] \in Place /\ i \in 0 .. n
      OBVIOUS
    <3> QED
      BY <1>4, BehindType
  <2>3. 0 \in Nat /\ n \in Nat /\ 0 <= n
    BY <1>1
  <2> HIDE DEF S, n
  <2> QED
    BY ONLY <2>1, <2>2, <2>3, RangeInduction
<1>6. \A i \in 0 .. n : f[i] # Stray
  <2> SUFFICES ASSUME NEW a \in 0 .. n, f[a] = Stray PROVE FALSE
    OBVIOUS
  <2> DEFINE R == {i \in a .. n : f[i] = Stray}
  <2>1. a \in R
    OBVIOUS
  <2>2. \A i \in a + 1 .. n : i - 1 \in R => i \in R
    <3> SUFFICES ASSUME NEW i \in a + 1 .. n, f[i - 1] = Stray PROVE f[i] = Stray /\ i \in a .. n
      OBVIOUS
    <3>1. i \in 1 .. n /\ i \in a .. n
      OBVIOUS
    <3> QED
      BY <1>4, <3>1, BehindStray
  <2>3. a \in Nat /\ n \in Nat /\ a <= n /\ n \in a .. n
    OBVIOUS
  <2> HIDE DEF R
  <2>4. \A i \in a .. n : i \in R
    BY <2>1, <2>2, <2>3, RangeInduction
  <2>5. f[n] = Stray
    BY <2>3, <2>4 DEF R
  <2> QED
    BY <1>3, <2>5 DEF Stray, Outside
<1> QED
  BY <1>3, <1>5, <1>6 DEF Nest

\* An element that holds no other one: what is open behind it is what was open
\* before, and nothing but neutral tokens stands in it.
Closed(f, s, i, k, o) ==
  /\ k \in i + 1 .. Len(s) /\ f[k] = f[i - 1]
  /\ f[i - 1].within = Holder(o) /\ f[i] = At(f[i - 1], o)
  /\ \A j \in i + 1 .. k - 1 : s[j].tag \in Neutral

LEMMA NestClosed ==
  ASSUME NEW s \in Seq(Tokens), NEW f, Nest(f, s), NEW i \in 1 .. Len(s), NEW o, s[i].tag = o,
         o \in Inner, NEW tags, tags = {Closer(o)}, NEW k, IsFirst(k, s, tags, i)
  PROVE  Closed(f, s, i, k, o)
<1> DEFINE n == Len(s)
           p == f[i - 1]
           q == f[i]
           b == IF k = 0 THEN n ELSE k - 1
<1>1. n \in Nat /\ n \in 0 .. n /\ i \in Nat /\ i \in 1 .. n
  OBVIOUS
<1>2. \A j \in 1 .. n : NestStep(f, s, j)
  BY NestSteps
<1>3. p \in Place /\ p.within = Holder(o) /\ q = At(p, o)
  <2>1. NestStep(f, s, i)
    BY <1>2
  <2>2. s[i].tag \in InTable \cup Inner
    OBVIOUS
  <2> QED
    BY <2>1, <2>2, BehindOpen DEF NestStep
<1>4. q \in Place /\ q.within = o /\ o \in Inner
  <2>1. o \in Inner /\ o \in {"body", "<titlediv", "<table", "stray"} \cup TableParts
    BY DEF Inner
  <2> HIDE DEF p, q
  <2> QED
    BY <1>3, <2>1, PlaceIs
<1>5. At(q, Holder(o)) = p
  BY <1>3, <1>4 DEF At, Place
<1>6. o # Closer(o)
  BY <1>4 DEF Inner, TableParts, Closer
<1>7. k = 0 \/ k \in i + 1 .. n
  BY <1>1, <1>6 DEF IsFirst
<1>8. b \in i .. n /\ \A j \in i + 1 .. b : s[j].tag # Closer(o)
  BY <1>1, <1>7 DEF IsFirst
<1> HIDE DEF p, q, b, n
<1> DEFINE S == {j \in i .. b : f[j] = q}
<1>9. \A j \in i + 1 .. b : f[j - 1] = q => f[j] = q /\ s[j].tag \in Neutral
  <2> SUFFICES ASSUME NEW j \in i + 1 .. b, f[j - 1] = q PROVE f[j] = q /\ s[j].tag \in Neutral
    OBVIOUS
  <2>1. j \in 1 .. n /\ s[j].tag # Closer(q.within)
    BY <1>1, <1>4, <1>8
  <2>2. NestStep(f, s, j)
    BY <1>2, <2>1
  <2>3. Behind(q, s[j]) # Stray /\ s[j] \in Tokens /\ f[j] = Behind(q, s[j])
    BY <2>2 DEF NestStep
  <2> QED
    BY <1>4, <2>1, <2>3, BehindInner
<1>10. \A j \in i .. b : j \in S
  <2>1. i \in S
    BY <1>1, <1>8 DEF q
  <2>2. \A j \in i + 1 .. b : j - 1 \in S => j \in S
    <3> SUFFICES ASSUME NEW j \in i + 1 .. b, f[j - 1] = q PROVE j \in i .. b /\ f[j] = q
      OBVIOUS
    <3> QED
      BY <1>1, <1>8, <1>9
  <2>3. b \in Nat /\ i <= b
    BY <1>1, <1>8
  <2> HIDE DEF S
  <2> QED
    BY <1>1, <2>1, <2>2, <2>3, RangeInduction
<1>11. \A j \in i .. b : f[j] = q
  BY <1>10
<1> HIDE DEF S
<1>12. k # 0
  <2> SUFFICES ASSUME k = 0 PROVE FALSE
    OBVIOUS
  <2>1. b = n /\ n \in i .. b
    BY <1>1, <1>8 DEF b
  <2>2. f[n] = q
    BY <1>11, <2>1
  <2>3. f[n] = Outside
    BY DEF Nest, n
  <2> QED
    BY <1>4, <2>2, <2>3 DEF Outside, Inner, TableParts
<1>13. k \in i + 1 .. n /\ b = k - 1 /\ s[k].tag = Closer(o)
  BY <1>7, <1>12 DEF b, IsFirst
<1>14. f[k - 1] = q
  <2>1. k - 1 \in i .. b
    BY <1>1, <1>13
  <2> QED
    BY <1>11, <2>1
<1>15. f[k] = p
  <2>1. NestStep(f, s, k)
    BY <1>1, <1>2, <1>13
  <2>2. Behind(q, s[k]) # Stray /\ s[k] \in Tokens /\ f[k] = Behind(q, s[k])
    BY <1>14, <2>1 DEF NestStep
  <2> QED
    BY <1>4, <1>5, <1>13, <2>2, BehindInner
<1>16. \A j \in i + 1 .. k - 1 : s[j].tag \in Neutral
  <2> TAKE j \in i + 1 .. k - 1
  <2>1. j \in i + 1 .. b /\ j - 1 \in i .. b
    BY <1>1, <1>13
  <2> QED
    BY <1>9, <1>11, <2>1
<1> QED
  BY <1>3, <1>13, <1>15, <1>16 DEF p, q, n, Closed

\* As long as no table ends, only its parts are opened and closed.
LEMMA NestWithin ==
  ASSUME NEW s \in Seq(Tokens), NEW f, Nest(f, s), NEW a \in 0 .. Len(s), NEW b \in a .. Len(s),
         f[a].within \in InTable, \A j \in a + 1 .. b : s[j].tag # "</table>"
  PROVE  \A j \in a .. b :
           /\ f[j].within \in InTable
           /\ f[j].document = f[a].document /\ f[j].divs = f[a].divs
<1> DEFINE Like(q) == /\ q.within \in InTable
                      /\ q.document = f[a].document /\ q.divs = f[a].divs
           S == {j \in a .. b : Like(f[j])}
<1>1. a \in Nat /\ b \in Nat /\ a <= b /\ Len(s) \in Nat /\ b <= Len(s)
  OBVIOUS
<1>2. a \in S
  BY <1>1
<1>3. \A j \in a + 1 .. b : j - 1 \in S => j \in S
  <2> SUFFICES ASSUME NEW j \in a + 1 .. b, Like(f[j - 1]) PROVE j \in a .. b /\ Like(f[j])
    OBVIOUS
  <2>1. j \in 1 .. Len(s) /\ j \in a .. b /\ s[j].tag # "</table>"
    BY <1>1
  <2>2. NestStep(f, s, j)
    BY <2>1, NestSteps
  <2> DEFINE p == f[j - 1]
             x == s[j]
  <2>3. /\ p \in Place /\ x \in Tokens /\ Behind(p, x) # Stray /\ f[j] = Behind(p, x)
        /\ p.within \in InTable /\ x.tag # "</table>"
        /\ p.document = f[a].document /\ p.divs = f[a].divs
    BY <2>1, <2>2 DEF NestStep
  <2> HIDE DEF p, x
  <2>4. /\ Behind(p, x).within \in InTable
        /\ Behind(p, x).document = p.document /\ Behind(p, x).divs = p.divs
    BY <2>3, BehindInTable
  <2> QED
    BY <2>1, <2>3, <2>4
<1> HIDE DEF S
<1>4. \A j \in a .. b : j \in S
  BY <1>1, <1>2, <1>3, RangeInduction
<1> QED
  BY <1>4 DEF S

LEMMA NestTable ==
  ASSUME NEW s \in Seq(Tokens), NEW f, Nest(f, s), NEW i \in 1 .. Len(s), s[i].tag = "<table",
         NEW k, IsFirst(k, s, {"</table>"}, i)
  PROVE  /\ k \in i + 1 .. Len(s) /\ f[k] = f[i - 1] /\ f[i - 1].within = "body"
         /\ f[k - 1] = At(f[i - 1], "<table")
<1> DEFINE n == Len(s)
           p == f[i - 1]
           b == IF k = 0 THEN n ELSE k - 1
<1>1. n \in Nat /\ n \in 0 .. n /\ i \in Nat /\ i \in 1 .. n /\ i - 1 \in 0 .. n
  OBVIOUS
<1>2. \A j \in 1 .. n : NestStep(f, s, j)
  BY NestSteps
<1>3. p \in Place /\ p.within = "body" /\ f[i] = At(p, "<table")
  <2>1. NestStep(f, s, i) /\ s[i].tag \in InTable \cup Inner
    BY <1>2 DEF InTable
  <2>2. p.within = Holder("<table") /\ f[i] = At(p, "<table") /\ p \in Place
    BY <2>1, BehindOpen DEF NestStep
  <2> QED
    BY <2>2 DEF Holder, TableParts
<1>4. /\ f[i].within = "<table" /\ f[i].document = p.document /\ f[i].divs = p.divs
      /\ At(p, "body") = p
  <2> HIDE DEF p
  <2> QED
    BY <1>3, PlaceIs
<1>5. k = 0 \/ k \in i + 1 .. n
  BY <1>1 DEF IsFirst
<1>6. b \in i .. n /\ \A j \in i + 1 .. b : s[j].tag # "</table>"
  BY <1>1, <1>5 DEF IsFirst
<1> HIDE DEF p, b, n
<1>7. \A j \in i .. b :
        /\ f[j].within \in InTable
        /\ f[j].document = f[i].document /\ f[j].divs = f[i].divs
  <2>1. i \in 0 .. Len(s) /\ b \in i .. Len(s) /\ f[i].within \in InTable
    BY <1>1, <1>4, <1>6 DEF n, InTable
  <2> QED
    BY <1>6, <2>1, NestWithin
<1>8. k # 0
  <2> SUFFICES ASSUME k = 0 PROVE FALSE
    OBVIOUS
  <2>1. n \in i .. b
    BY <1>1, <1>6 DEF b
  <2>2. f[n].within \in InTable /\ f[n] = Outside
    BY <1>7, <2>1 DEF Nest, n
  <2> QED
    BY <2>2 DEF Outside, InTable, TableParts
<1>9. k \in i + 1 .. n /\ b = k - 1 /\ s[k].tag = "</table>" /\ k - 1 \in i .. b
  BY <1>1, <1>5, <1>8 DEF b, IsFirst
<1> DEFINE q == f[k - 1]
<1>10. /\ q \in Place /\ q.within = "<table" /\ f[k] = At(q, "body")
       /\ q.document = p.document /\ q.divs = p.divs
  <2>1. NestStep(f, s, k)
    BY <1>1, <1>2, <1>9
  <2>2. /\ q \in Place /\ s[k] \in Tokens /\ Behind(q, s[k]) # Stray /\ f[k] = Behind(q, s[k])
        /\ q.document = p.document /\ q.divs = p.divs
    BY <1>4, <1>7, <1>9, <2>1 DEF NestStep
  <2> HIDE DEF q
  <2> QED
    BY <1>9, <2>2, BehindTable
<1> HIDE DEF q
<1>11. At(q, "body") = At(p, "body") /\ At(q, "<table") = At(p, "<table") /\ At(q, q.within) = q
  BY <1>3, <1>10, PlaceIs DEF At
<1> QED
  BY <1>3, <1>4, <1>9, <1>10, <1>11 DEF p, q, n

LEMMA NestNoTable ==
  ASSUME NEW s \in Seq(Tokens), NEW f, Nest(f, s), NEW n \in 0 .. Len(s),
         \A j \in 1 .. n : s[j].tag # "<table"
  PROVE  \A j \in 1 .. n : s[j].tag # "</table>"
<1> DEFINE S == {j \in 0 .. n : f[j].within \notin InTable}
<1>1. 0 \in S
  BY DEF Nest, Trace, Outside, InTable, TableParts
<1>2. \A j \in 1 .. n : j - 1 \in S => j \in S /\ s[j].tag # "</table>"
  <2> SUFFICES ASSUME NEW j \in 1 .. n, f[j - 1].within \notin InTable
               PROVE  j \in 0 .. n /\ f[j].within \notin InTable /\ s[j].tag # "</table>"
    OBVIOUS
  <2>1. j \in 1 .. Len(s) /\ j \in 0 .. n /\ s[j].tag # "<table"
    OBVIOUS
  <2>2. NestStep(f, s, j)
    BY <2>1, NestSteps
  <2> QED
    BY <2>1, <2>2, BehindOutOfTable DEF NestStep
<1>3. 0 \in Nat /\ n \in Nat /\ 0 <= n /\ \A j \in 0 + 1 .. n : j \in 1 .. n
  OBVIOUS
<1> HIDE DEF S
<1>4. \A j \in 0 + 1 .. n : j - 1 \in S => j \in S
  BY <1>2, <1>3
<1>5. \A j \in 0 .. n : j \in S
  BY ONLY <1>1, <1>3, <1>4, RangeInduction
<1> TAKE j \in 1 .. n
<1>6. j - 1 \in 0 .. n
  OBVIOUS
<1> QED
  BY <1>2, <1>5, <1>6

LEMMA NestCut ==
  ASSUME NEW s \in Seq(Tokens), NEW f, Nest(f, s),
         NEW from \in 1 .. Len(s), NEW to \in from .. Len(s), f[to] = f[from - 1]
  PROVE  Cut(s, from, to) \in Seq(Tokens) /\ WellNested(Cut(s, from, to))
<1> DEFINE by == <<>>
<1>1. by \in Seq(Tokens) /\ \A i \in 1 .. Len(by) : by[i].tag \in Neutral
  OBVIOUS
<1>2. /\ from \in 1 .. Len(s) + 1 /\ to \in 0 .. Len(s) /\ from - 1 \in 0 .. Len(s)
      /\ Trace(f, Outside, s) /\ f[Len(s)] = Outside
  BY DEF Nest
<1>3. f[from - 1] \in Place
  BY <1>2 DEF Nest
<1>4. Cut(s, from, to) = Replace(s, from, to, by)
  BY DEF Cut
<1> HIDE DEF by
<1>5. Leads(f[from - 1], by, f[to])
  BY <1>1, <1>3, LeadsNowhere
<1>6. WellNested(Replace(s, from, to, by))
  BY <1>1, <1>2, <1>5, NestReplaced
<1>7. Replace(s, from, to, by) \in Seq(Tokens)
  BY <1>1, <1>2, ReplaceIs
<1> QED
  BY <1>4, <1>6, <1>7

-----------------------------------------------------------------------------
(***************************************************************************)
(* What is put in leads back to where it stands.                           *)
(***************************************************************************)
LEMMA BehindEnter ==
  ASSUME NEW p \in Place, NEW x \in Tokens, x.tag \in InTable \cup Inner,
         p.within = Holder(x.tag)
  PROVE  Behind(p, x) = At(p, x.tag)
BY DEF Behind, Place, Holder, Closer, TableParts, Outside, InDocument, Inner, InTable, At

LEMMA BehindLeave ==
  ASSUME NEW p \in Place, NEW x \in Tokens, p.within \in InTable \cup Inner,
         x.tag = Closer(p.within)
  PROVE  Behind(p, x) = At(p, Holder(p.within))
BY DEF Behind, Place, Holder, Closer, TableParts, Outside, InDocument, Inner, InTable, At

\* In and out again.
LEMMA InAndOut ==
  ASSUME NEW p \in Place, NEW o \in InTable \cup Inner, p.within = Holder(o),
         NEW x \in Tokens, x.tag = o, NEW y \in Tokens, y.tag = Closer(o)
  PROVE  /\ At(p, o) \in Place /\ Behind(p, x) = At(p, o) /\ Behind(At(p, o), y) = p
<1> DEFINE q == At(p, o)
<1>1. q \in Place /\ q.within = o /\ q.document = p.document /\ q.divs = p.divs
  BY PlaceIs DEF InTable, Inner
<1>2. Behind(p, x) = q
  BY BehindEnter
<1> HIDE DEF q
<1>3. Behind(q, y) = At(q, Holder(o))
  BY <1>1, BehindLeave
<1>4. At(q, Holder(o)) = p
  BY <1>1, PlaceIs DEF At
<1> QED
  BY <1>1, <1>2, <1>3, <1>4 DEF q

LEMMA MergedLeads ==
  ASSUME NEW s \in Seq(Tokens), NEW p \in Place, p.within = "<table"
  PROVE  MergedColgroup(s) \in Seq(Tokens) /\ Leads(p, MergedColgroup(s), p)
<1> DEFINE n == TotalCols(s)
           C == {i \in DOMAIN s : s[i].tag = "<col/>" /\ InColgroup(s, i)}
           a == Structure("<colgroup>")
           b == Structure("<col/>")
           c == Structure("</colgroup>")
           f == [i \in 1 .. n |-> b]
           q == At(p, "<colgroup>")
<1>1. n \in Nat
  <2>1. C \subseteq 1 .. Len(s) /\ Len(s) \in Nat
    OBVIOUS
  <2>2. n = Cardinality(C)
    BY DEF TotalCols
  <2>3. IsFiniteSet(1 .. Len(s))
    BY <2>1, FS_Interval
  <2> HIDE DEF C, n
  <2>4. IsFiniteSet(C)
    BY <2>1, <2>3, FS_Subset
  <2> QED
    BY <2>2, <2>4, FS_CardinalityType
<1>2. /\ a \in Tokens /\ a.tag = "<colgroup>" /\ b \in Tokens /\ b.tag \in Neutral
      /\ c \in Tokens /\ c.tag = Closer("<colgroup>")
  <2>1. {"<colgroup>", "<col/>", "</colgroup>"} \subseteq Tags
    BY DEF Tags
  <2> QED
    BY <2>1, StructureIs DEF Neutral, Closer
<1>3. q \in Place /\ Behind(p, a) = q /\ Behind(q, c) = p
  <2>1. "<colgroup>" \in InTable \cup Inner /\ p.within = Holder("<colgroup>")
    BY DEF InTable, Inner, TableParts, Holder
  <2> HIDE DEF a, c
  <2> QED
    BY <1>2, <2>1, InAndOut
<1>4. MergedColgroup(s) = (<<a>> \o f) \o <<c>>
  BY DEF MergedColgroup
<1> HIDE DEF n, a, b, c, q
<1>5. f \in Seq(Tokens) /\ \A i \in 1 .. Len(f) : f[i].tag \in Neutral
  BY <1>1, <1>2
<1> DEFINE x == <<a>>
           z == <<c>>
<1>6. x \in Seq(Tokens) /\ Leads(p, x, q) /\ z \in Seq(Tokens) /\ Leads(q, z, p)
  BY <1>2, <1>3, LeadsOne
<1> HIDE DEF f, x, z
<1>7. Leads(q, f, q)
  BY <1>3, <1>5, LeadsNowhere
<1>8. x \o f \in Seq(Tokens) /\ Leads(p, x \o f, q)
  BY ONLY <1>5, <1>6, <1>7, LeadsJoin, ConcatProperties
<1> DEFINE y == x \o f
<1> HIDE DEF y
<1>9. y \in Seq(Tokens) /\ Leads(p, y, q)
  BY <1>8 DEF y
<1>10. y \o z \in Seq(Tokens) /\ Leads(p, y \o z, p)
  BY ONLY <1>6, <1>9, LeadsJoin, ConcatProperties
<1> QED
  BY <1>4, <1>10 DEF x, y, z

LEMMA RebuiltLeads ==
  ASSUME NEW s \in Seq(Tokens), NEW p \in Place, p.within = "body"
  PROVE  Rebuilt(s) \in Seq(Tokens) /\ Leads(p, Rebuilt(s), p)
<1> DEFINE r == Keep(s, {"row"})
           n == Len(r)
           t == Rebuilt(s)
           A == Structure("<table")
           B == Structure("<tbody>")
           C == Structure("</tbody>")
           D == Structure("</table>")
           q == At(p, "<table")
           u == At(q, "<tbody>")
           f == [i \in 0 .. n + 4 |->
                   IF i = 0 \/ i = n + 4 THEN p ELSE IF i = 1 \/ i = n + 3 THEN q ELSE u]
<1>1. /\ t \in Seq(Tokens) /\ n \in Nat /\ Len(t) = n + 4
      /\ t[1] = A /\ t[2] = B /\ t[n + 3] = C /\ t[n + 4] = D
      /\ \A i \in 1 .. n : t[2 + i] = r[i]
  BY RebuiltIs
<1>2. \A i \in 1 .. n : r[i].tag \in Neutral
  <2>1. r \in Seq(OfTags(Tokens, {"row"}))
    BY KeepIs
  <2>2. \A x \in OfTags(Tokens, {"row"}) : x.tag \in Neutral
    BY DEF OfTags, Neutral
  <2> DEFINE U == OfTags(Tokens, {"row"})
  <2>3. r \in Seq(U) /\ \A x \in U : x.tag \in Neutral
    BY <2>1, <2>2
  <2> HIDE DEF U, r
  <2>4. \A i \in 1 .. n : r[i] \in U
    BY <2>3
  <2> QED
    BY <2>3, <2>4
<1>3. /\ A \in Tokens /\ A.tag = "<table" /\ B \in Tokens /\ B.tag = "<tbody>"
      /\ C \in Tokens /\ C.tag = Closer("<tbody>") /\ D \in Tokens /\ D.tag = Closer("<table")
  <2>1. {"<table", "<tbody>", "</tbody>", "</table>"} \subseteq Tags
    BY DEF Tags
  <2> QED
    BY <2>1, StructureIs DEF Closer
<1> HIDE DEF A, B, C, D, r, t
<1>4. q \in Place /\ q.within = "<table" /\ Behind(p, A) = q /\ Behind(q, D) = p
  <2>1. "<table" \in InTable \cup Inner /\ p.within = Holder("<table")
    BY DEF InTable, Inner, TableParts, Holder
  <2>2. At(p, "<table") \in Place /\ At(p, "<table").within = "<table"
    BY PlaceIs
  <2> QED
    BY <1>3, <2>1, <2>2, InAndOut
<1> HIDE DEF q
<1>5. u \in Place /\ Behind(q, B) = u /\ Behind(u, C) = q
  <2>1. "<tbody>" \in InTable \cup Inner /\ q.within = Holder("<tbody>")
    BY <1>4 DEF InTable, Inner, TableParts, Holder
  <2> QED
    BY <1>3, <1>4, <2>1, InAndOut
<1> HIDE DEF u
<1>6. /\ DOMAIN f = 0 .. n + 4 /\ f[0] = p /\ f[n + 4] = p /\ f[1] = q /\ f[n + 3] = q
      /\ \A i \in 2 .. n + 2 : f[i] = u
  BY <1>1
<1> HIDE DEF f, n
<1>7. \A i \in 1 .. n + 4 : f[i] = Behind(f[i - 1], t[i])
  <2> TAKE i \in 1 .. n + 4
  <2>1. CASE i = 1
    BY <1>1, <1>4, <1>6, <2>1
  <2>2. CASE i = 2
    <3>1. 2 \in 2 .. n + 2 /\ i - 1 = 1
      BY <1>1, <2>2
    <3> QED
      BY <1>1, <1>5, <1>6, <2>2, <3>1
  <2>3. CASE i \in 3 .. n + 2
    <3> DEFINE j == i - 2
    <3>1. j \in 1 .. n /\ 2 + j = i /\ i \in 2 .. n + 2 /\ i - 1 \in 2 .. n + 2
      BY <1>1, <2>3
    <3> HIDE DEF j
    <3>2. t[i] = r[j] /\ r[j].tag \in Neutral /\ f[i] = u /\ f[i - 1] = u
      BY <1>1, <1>2, <1>6, <3>1
    <3> QED
      BY <1>5, <3>2, BehindNeutral
  <2>4. CASE i = n + 3
    <3>1. i - 1 \in 2 .. n + 2
      BY <1>1, <2>4
    <3> QED
      BY <1>1, <1>5, <1>6, <2>4, <3>1
  <2>5. CASE i = n + 4
    <3>1. i - 1 = n + 3
      BY <1>1, <2>5
    <3> QED
      BY <1>1, <1>4, <1>6, <2>5, <3>1
  <2> QED
    BY <1>1, <2>1, <2>2, <2>3, <2>4, <2>5
<1>8. Trace(f, p, t) /\ f[Len(t)] = p
  BY <1>1, <1>6, <1>7 DEF Trace
<1> QED
  BY <1>1, <1>8 DEF Leads, t

-----------------------------------------------------------------------------
(***************************************************************************)
(* Where the text is cut off: nothing is open before its start and behind  *)
(* its end.                                                                *)
(***************************************************************************)
\* What holds at one place holds as long as none of some tags comes.
LEMMA NestCarry ==
  ASSUME NEW s \in Seq(Tokens), NEW f, Nest(f, s), NEW a \in 0 .. Len(s), NEW b \in a .. Len(s),
         NEW G, NEW tags, f[a] \in G, \A j \in a + 1 .. b : s[j].tag \notin tags,
         \A p \in G, x \in Tokens :
           x.tag \notin tags /\ p \in Place /\ Behind(p, x) # Stray => Behind(p, x) \in G
  PROVE  \A j \in a .. b : f[j] \in G
<1> DEFINE S == {j \in a .. b : f[j] \in G}
<1>1. a \in Nat /\ b \in Nat /\ a <= b /\ a \in S
  OBVIOUS
<1>2. \A j \in a + 1 .. b : j - 1 \in S => j \in S
  <2> SUFFICES ASSUME NEW j \in a + 1 .. b, f[j - 1] \in G PROVE j \in a .. b /\ f[j] \in G
    OBVIOUS
  <2>1. j \in 1 .. Len(s) /\ j \in a .. b
    OBVIOUS
  <2>2. NestStep(f, s, j)
    BY <2>1, NestSteps
  <2> QED
    BY <2>1, <2>2 DEF NestStep
<1> HIDE DEF S
<1>3. \A j \in a .. b : j \in S
  BY <1>1, <1>2, RangeInduction
<1> QED
  BY <1>3 DEF S

InsideDocument == {p \in Place : p.document = TRUE}
OutsideDocument == {p \in Place : p.document = FALSE}
InsideDiv == {p \in Place : p.divs > 0 \/ p.within = "<titlediv"}
OutsideDiv == {p \in Place : p.divs = 0 /\ p.within # "<titlediv"}

LEMMA BehindDocument ==
  \A p \in Place, x \in Tokens : Behind(p, x) # Stray =>
    /\ x.tag \notin {"</html>"} /\ p \in InsideDocument => Behind(p, x) \in InsideDocument
    /\ x.tag \notin {"<html"} /\ p \in OutsideDocument => Behind(p, x) \in OutsideDocument
    /\ x.tag = "<html" => p = Outside /\ Behind(p, x) \in InsideDocument
    /\ x.tag = "</html>" => Behind(p, x) = Outside
<1> TAKE p \in Place, x \in Tokens
<1> HAVE Behind(p, x) # Stray
<1>1. Behind(p, x) \in Place
  BY BehindType
<1> USE <1>1 DEF Behind, Place, Holder, Closer, TableParts, Outside, InDocument, Stray, Tokens,
             Tags, InsideDocument, OutsideDocument
<1>2. x.tag \notin {"</html>"} /\ p \in InsideDocument => Behind(p, x) \in InsideDocument
  BY SMTT(20)
<1>3. x.tag \notin {"<html"} /\ p \in OutsideDocument => Behind(p, x) \in OutsideDocument
  BY SMTT(20)
<1>4. x.tag = "<html" => p = Outside /\ Behind(p, x) \in InsideDocument
  BY SMTT(20)
<1>5. x.tag = "</html>" => Behind(p, x) = Outside
  BY SMTT(20)
<1> QED
  BY <1>2, <1>3, <1>4, <1>5, Zenon

LEMMA BehindDiv ==
  \A p \in Place, x \in Tokens : Behind(p, x) # Stray =>
    /\ x.tag \notin {"</div>"} /\ p \in InsideDiv => Behind(p, x) \in InsideDiv
    /\ x.tag \notin Divs /\ p \in OutsideDiv =>
         Behind(p, x) \in OutsideDiv /\ x.tag # "</div>"
    /\ x.tag \in Divs => p.within = "body" /\ Behind(p, x) \in InsideDiv
    /\ x.tag = "</div>" => Behind(p, x).within = "body"
<1> TAKE p \in Place, x \in Tokens
<1> HAVE Behind(p, x) # Stray
<1>1. Behind(p, x) \in Place
  BY BehindType
<1> USE <1>1 DEF Behind, Place, Holder, Closer, TableParts, Outside, InDocument, Stray, Tokens,
             Tags, InsideDiv, OutsideDiv, Divs
<1>2. x.tag \notin {"</div>"} /\ p \in InsideDiv => Behind(p, x) \in InsideDiv
  BY SMTT(20)
<1>3. x.tag \notin Divs /\ p \in OutsideDiv => Behind(p, x) \in OutsideDiv /\ x.tag # "</div>"
  BY SMTT(20)
<1>4. x.tag \in Divs => p.within = "body" /\ Behind(p, x) \in InsideDiv
  BY SMTT(20)
<1>5. x.tag = "</div>" => Behind(p, x).within = "body"
  BY SMTT(20)
<1> QED
  BY <1>2, <1>3, <1>4, <1>5, Zenon

LEMMA OutsideIs ==
  /\ Outside \in OutsideDocument /\ Outside \notin InsideDocument
  /\ Outside \in OutsideDiv /\ Outside \notin InsideDiv
  /\ \A p \in Place : p \in InsideDocument \/ p \in OutsideDocument
  /\ \A p \in Place : p.within = "body" => p \in InsideDiv \/ p \in OutsideDiv
  /\ \A p \in Place : p \in OutsideDocument /\ p \in OutsideDiv /\ p.within = "body" => p = Outside
BY DEF Place, Outside, InsideDocument, OutsideDocument, InsideDiv, OutsideDiv

\* The last of the closing tags behind a place where something is open.
LEMMA NestLast ==
  ASSUME NEW s \in Seq(Tokens), NEW f, Nest(f, s), NEW a \in 1 .. Len(s),
         NEW G, NEW tags, f[a] \in G, Outside \notin G,
         \A p \in G, x \in Tokens :
           x.tag \notin tags /\ p \in Place /\ Behind(p, x) # Stray => Behind(p, x) \in G,
         NEW l, IsLast(l, s, tags)
  PROVE  l \in a + 1 .. Len(s) /\ s[l].tag \in tags /\ f[l] \notin G
<1> DEFINE n == Len(s)
<1>1. n \in Nat /\ a \in 0 .. n /\ n \in a .. n /\ f[n] = Outside
  BY DEF Nest
<1>2. ASSUME NEW b \in a .. n, \A j \in b + 1 .. n : s[j].tag \notin tags PROVE f[b] \notin G
  <2> SUFFICES ASSUME f[b] \in G PROVE FALSE
    OBVIOUS
  <2>1. b \in 0 .. Len(s) /\ Len(s) \in b .. Len(s) /\ n \in b .. Len(s)
    BY <1>1
  <2>2. \A j \in b .. Len(s) : f[j] \in G
    BY ONLY s \in Seq(Tokens), Nest(f, s), <2>1, f[b] \in G, <1>2, NestCarry,
      (\A p \in G, x \in Tokens :
        x.tag \notin tags /\ p \in Place /\ Behind(p, x) # Stray => Behind(p, x) \in G)
  <2> QED
    BY <1>1, <2>1, <2>2
<1>3. ~(\A j \in a + 1 .. n : s[j].tag \notin tags)
  BY <1>1, <1>2
<1>4. l \in a + 1 .. n /\ s[l].tag \in tags
  BY <1>1, <1>3 DEF IsLast
<1>5. l \in a .. n /\ \A j \in l + 1 .. n : s[j].tag \notin tags
  BY <1>1, <1>4 DEF IsLast
<1> QED
  BY <1>2, <1>4, <1>5

LEMMA NestSub ==
  ASSUME NEW s \in Seq(Tokens), NEW f, Nest(f, s), NEW a \in 1 .. Len(s), NEW b \in a .. Len(s),
         f[a - 1] = Outside, f[b] = Outside
  PROVE  WellNested(SubSeq(s, a, b))
<1> DEFINE p == a - 1
           t == SubSeq(s, a, b)
<1>1. p \in 0 .. Len(s) /\ b \in p .. Len(s) /\ p + 1 = a
  OBVIOUS
<1>2. t \in Seq(Tokens)
  BY PartAt
<1>3. Trace(f, Outside, s)
  BY DEF Nest
<1>4. f[p] = Outside
  OBVIOUS
<1> HIDE DEF p
<1>5. Leads(f[p], SubSeq(s, p + 1, b), f[b])
  BY <1>1, <1>3, LeadsPart
<1>6. Leads(Outside, t, Outside)
  BY <1>1, <1>4, <1>5
<1> HIDE DEF t
<1>7. WellNested(t)
  BY <1>2, <1>6, NestedIs
<1> QED
  BY <1>7 DEF t

LEMMA NestExtract ==
  ASSUME html_output \in Seq(Tokens), WellNested(html_output),
         \E i \in 1 .. Len(html_output) : html_output[i].tag \in StartTags
  PROVE  /\ Start(html_output) \in 1 .. Len(html_output)
         /\ End \in Start(html_output) .. Len(html_output) /\ End # Start(html_output) - 1
         /\ WellNested(SubSeq(html_output, Start(html_output), End))
<1> DEFINE s == html_output
           n == Len(s)
           a == Start(s)
           html == First(s, {"<html"}, 1)
           div == First(s, Divs, 1)
           table == First(s, {"<table"}, 1)
           e == End
           lhtml == LastOf({"</html>"})
           ldiv == LastOf({"</div>"})
           ltable == LastOf({"</table>"})
<1>1. /\ a \in 1 .. n
      /\ html # 0 => a = html
      /\ html = 0 /\ div # 0 => a = div
      /\ html = 0 /\ div = 0 => a = table
  BY StartIs
<1>2. /\ IsFirst(html, s, {"<html"}, 1) /\ IsFirst(div, s, Divs, 1)
      /\ IsFirst(table, s, {"<table"}, 1)
  BY FirstIs
<1>3. /\ IsLast(lhtml, s, {"</html>"}) /\ IsLast(ldiv, s, {"</div>"})
      /\ IsLast(ltable, s, {"</table>"})
  BY LastIs
<1>4. /\ html # 0 /\ lhtml # 0 => e = lhtml
      /\ html = 0 /\ ldiv # 0 => e = ldiv
      /\ html = 0 /\ ldiv = 0 => e = ltable
  BY DEF End, IsFragment
<1>5. PICK f : Nest(f, s)
  BY NestIs
<1>6. s \in Seq(Tokens) /\ n \in Nat /\ n = Len(s)
  OBVIOUS
<1> SUFFICES e \in a + 1 .. n /\ f[a - 1] = Outside /\ f[e] = Outside
  <2>1. e \in a .. n /\ e # a - 1
    BY <1>1, <1>6
  <2> HIDE DEF e, a
  <2>2. WellNested(SubSeq(s, a, e))
    BY <1>1, <1>5, <1>6, <2>1, NestSub
  <2> QED
    BY <1>1, <1>6, <2>1, <2>2 DEF a, e
<1> HIDE DEF s, n, a, html, div, table, e, lhtml, ldiv, ltable
<1>7. \A i \in 1 .. n : NestStep(f, s, i)
  BY <1>5, <1>6, NestSteps
<1>8. NestStep(f, s, a)
  BY <1>1, <1>7
<1>9. 0 \in 0 .. n /\ n \in 0 .. n /\ f[0] = Outside /\ a - 1 \in 0 .. n /\ a \in 0 .. n
  BY <1>1, <1>5, <1>6 DEF Nest, Trace
<1>10. \A b \in 1 .. n : NestStep(f, s, b) /\ f[b] \in Place
  BY <1>7 DEF NestStep
<1>11. CASE html # 0
  <2>1. a = html /\ s[a].tag = "<html"
    BY <1>1, <1>2, <1>11 DEF IsFirst, n
  <2>2. f[a - 1] = Outside /\ f[a] \in InsideDocument
    BY <1>8, <2>1, BehindDocument DEF NestStep
  <2>3. lhtml \in a + 1 .. Len(s) /\ s[lhtml].tag \in {"</html>"}
    <3> DEFINE G == InsideDocument
               tags == {"</html>"}
    <3>1. /\ Outside \notin G /\ f[a] \in G /\ IsLast(lhtml, s, tags) /\ a \in 1 .. Len(s)
          /\ \A p \in G, x \in Tokens :
               x.tag \notin tags /\ p \in Place /\ Behind(p, x) # Stray => Behind(p, x) \in G
      BY <1>1, <1>3, <1>6, <2>2, OutsideIs, BehindDocument
    <3>2. lhtml \in a + 1 .. Len(s) /\ s[lhtml].tag \in tags
      <4> HIDE DEF G, tags
      <4> QED
        BY ONLY <1>5, <1>6, <3>1, NestLast
    <3> QED
      BY <3>2
  <2>4. e = lhtml /\ lhtml \in 1 .. n
    BY <1>1, <1>4, <1>6, <1>11, <2>3
  <2>5. f[lhtml] = Outside
    BY <1>10, <2>3, <2>4, BehindDocument DEF NestStep
  <2> QED
    BY <1>6, <2>2, <2>3, <2>4, <2>5
<1>12. CASE html = 0
  <2>1. \A j \in 1 .. n : s[j].tag \notin {"<html"}
    BY <1>2, <1>12 DEF IsFirst, n
  <2>2. \A j \in 0 .. n : f[j] \in OutsideDocument
    <3> DEFINE G == OutsideDocument
               tags == {"<html"}
    <3>1. /\ f[0] \in G /\ \A j \in 0 + 1 .. n : s[j].tag \notin tags
          /\ \A p \in G, x \in Tokens :
               x.tag \notin tags /\ p \in Place /\ Behind(p, x) # Stray => Behind(p, x) \in G
      BY <1>9, <2>1, OutsideIs, BehindDocument
    <3>2. 0 \in 0 .. Len(s) /\ n \in 0 .. Len(s)
      BY <1>6
    <3>3. \A j \in 0 .. n : f[j] \in G
      <4> HIDE DEF G, tags
      <4> QED
        BY ONLY <1>5, <1>6, <3>1, <3>2, NestCarry
    <3> QED
      BY <3>3
  <2>3. ASSUME NEW b \in 0 .. n, \A j \in 1 .. b : s[j].tag \notin Divs
        PROVE  \A j \in 0 .. b : f[j] \in OutsideDiv
    <3> DEFINE G == OutsideDiv
               tags == Divs
    <3>1. /\ f[0] \in G /\ \A j \in 0 + 1 .. b : s[j].tag \notin tags
          /\ \A p \in G, x \in Tokens :
               x.tag \notin tags /\ p \in Place /\ Behind(p, x) # Stray => Behind(p, x) \in G
      BY <1>9, <2>3, OutsideIs, BehindDiv
    <3>2. 0 \in 0 .. Len(s) /\ b \in 0 .. Len(s)
      BY <1>6
    <3>3. \A j \in 0 .. b : f[j] \in G
      <4> HIDE DEF G, tags
      <4> QED
        BY ONLY <1>5, <1>6, <3>1, <3>2, NestCarry
    <3> QED
      BY <3>3
  <2>4. \A b \in 0 .. n : f[b] \in Place
    BY <1>5, <1>6 DEF Nest
  <2>5. CASE div # 0
    <3>1. a = div /\ s[a].tag \in Divs /\ \A j \in 1 .. a - 1 : s[j].tag \notin Divs
      BY <1>1, <1>2, <1>12, <2>5 DEF IsFirst, n
    <3>2. f[a - 1] \in OutsideDiv
      <4>1. a - 1 \in 0 .. a - 1
        BY <1>1, <1>6
      <4> QED
        BY <1>9, <2>3, <3>1, <4>1
    <3>3. f[a - 1].within = "body" /\ f[a] \in InsideDiv
      BY <1>8, <3>1, BehindDiv DEF NestStep
    <3>4. f[a - 1] = Outside
      BY <1>9, <2>2, <2>4, <3>2, <3>3, OutsideIs
    <3>5. ldiv \in a + 1 .. Len(s) /\ s[ldiv].tag \in {"</div>"} /\ f[ldiv] \notin InsideDiv
      <4> DEFINE G == InsideDiv
                 tags == {"</div>"}
      <4>1. /\ Outside \notin G /\ f[a] \in G /\ IsLast(ldiv, s, tags) /\ a \in 1 .. Len(s)
            /\ \A p \in G, x \in Tokens :
                 x.tag \notin tags /\ p \in Place /\ Behind(p, x) # Stray => Behind(p, x) \in G
        BY <1>1, <1>3, <1>6, <3>3, OutsideIs, BehindDiv
      <4>2. ldiv \in a + 1 .. Len(s) /\ s[ldiv].tag \in tags /\ f[ldiv] \notin G
        <5> HIDE DEF G, tags
        <5> QED
          BY ONLY <1>5, <1>6, <4>1, NestLast
      <4> QED
        BY <4>2
    <3>6. e = ldiv /\ ldiv \in 1 .. n /\ ldiv \in 0 .. n
      BY <1>1, <1>4, <1>6, <1>12, <3>5
    <3>7. f[ldiv].within = "body"
      BY <1>10, <3>5, <3>6, BehindDiv DEF NestStep
    <3>8. f[ldiv] = Outside
      BY <2>2, <2>4, <3>5, <3>6, <3>7, OutsideIs
    <3> QED
      BY <1>6, <3>4, <3>5, <3>6, <3>8
  <2>6. CASE div = 0
    <3>1. \A j \in 1 .. n : s[j].tag \notin Divs
      BY <1>2, <2>6 DEF IsFirst, n
    <3>2. \A j \in 0 .. n : f[j] \in OutsideDiv
      BY <1>9, <2>3, <3>1
    <3>3. ldiv = 0
      <4> SUFFICES ASSUME ldiv # 0 PROVE FALSE
        OBVIOUS
      <4>1. ldiv \in 1 .. n /\ s[ldiv].tag = "</div>"
        BY <1>3 DEF IsLast, n
      <4>2. ldiv - 1 \in 0 .. n /\ s[ldiv].tag \notin Divs
        BY <1>6, <3>1, <4>1
      <4>3. NestStep(f, s, ldiv) /\ f[ldiv - 1] \in OutsideDiv
        BY <1>7, <3>2, <4>1, <4>2
      <4> QED
        BY <4>1, <4>2, <4>3, BehindDiv DEF NestStep
    <3>4. a = table /\ e = ltable /\ s[a].tag = "<table"
      BY <1>1, <1>2, <1>4, <1>12, <2>6, <3>3 DEF IsFirst, n
    <3> DEFINE k == First(s, {"</table>"}, a)
    <3>5. IsFirst(k, s, {"</table>"}, a)
      <4>1. a \in Nat \ {0}
        BY <1>1
      <4> QED
        BY <1>6, <4>1, FirstIs
    <3> HIDE DEF k
    <3>6. k \in a + 1 .. Len(s) /\ f[a - 1].within = "body"
      BY ONLY <1>1, <1>5, <1>6, <3>4, <3>5, NestTable
    <3>7. f[a - 1] = Outside
      BY <1>9, <2>2, <2>4, <3>2, <3>6, OutsideIs
    <3>8. s[k].tag = "</table>" /\ k \in 1 .. n
      BY <1>1, <1>6, <3>5, <3>6 DEF IsFirst
    <3>9. e \in k .. n /\ s[e].tag = "</table>"
      BY <1>3, <1>6, <3>4, <3>8 DEF IsLast
    <3>10. e \in a + 1 .. n /\ e \in 0 .. n /\ e \in 1 .. n
      BY <1>1, <1>6, <3>6, <3>9
    <3>11. f[e].within = "body"
      <4> DEFINE p == f[e - 1]
      <4>1. /\ p \in Place /\ s[e] \in Tokens /\ Behind(p, s[e]) # Stray
            /\ f[e] = Behind(p, s[e])
        BY <1>7, <3>10 DEF NestStep
      <4> HIDE DEF p
      <4>2. f[e] = At(p, "body")
        BY <3>9, <4>1, BehindTable
      <4> QED
        BY <4>1, <4>2, PlaceIs
    <3>12. f[e] = Outside
      BY <2>2, <2>4, <3>2, <3>10, <3>11, OutsideIs
    <3> QED
      BY <3>7, <3>10, <3>12
  <2> QED
    BY <2>5, <2>6
<1> QED
  BY <1>11, <1>12

-----------------------------------------------------------------------------
(***************************************************************************)
(* What each pass makes of a well nested text.                             *)
(***************************************************************************)
LEMMA SamePlace ==
  \A p, q \in Place :
    p.document = q.document /\ p.divs = q.divs /\ p.within = q.within => p = q
BY DEF Place

LEMMA NestMerged ==
  ASSUME NEW s \in Seq(Tokens), WellNested(s), ColumnsOfOneTable(s), Cardinality(Colgroups(s)) > 1
  PROVE  WellNested(Replace(s, First(s, {"<colgroup>"}, 1), MergedUpTo(s), MergedColgroup(s)))
<1> DEFINE a == First(s, {"<colgroup>"}, 1)
           g == LastColgroup(s)
           e == ColgroupsEnd(s)
           k == First(s, {"</colgroup>"}, a)
           by == MergedColgroup(s)
           n == Len(s)
<1>1. /\ g \in 1 .. n /\ s[g].tag = "<colgroup>" /\ IsFirst(e, s, {"</colgroup>"}, g)
      /\ a \in 1 .. g /\ s[a].tag = "<colgroup>"
  BY ColgroupsFound
<1>2. MergedUpTo(s) = IF e = 0 THEN 1 ELSE e
  BY DEF MergedUpTo
<1>3. n \in Nat /\ a \in 1 .. n /\ a \in Nat \ {0} /\ "<colgroup>" \in Inner
      /\ Closer("<colgroup>") = "</colgroup>" /\ Holder("<colgroup>") = "<table"
  BY <1>1 DEF Inner, TableParts, Closer, Holder
<1>4. PICK f : Nest(f, s)
  BY NestIs
<1> HIDE DEF a, g, e
<1>5. IsFirst(k, s, {"</colgroup>"}, a)
  BY <1>3, FirstIs
<1> HIDE DEF k, by, n
<1> DEFINE p == f[a - 1]
<1>6. p.within = "<table" /\ f[a] = At(p, "<colgroup>") /\ p \in Place
  <2> DEFINE o == "<colgroup>"
             tags == {"</colgroup>"}
  <2>1. /\ a \in 1 .. Len(s) /\ s[a].tag = o /\ o \in Inner /\ tags = {Closer(o)}
        /\ IsFirst(k, s, tags, a)
    BY <1>1, <1>3, <1>5 DEF n
  <2>2. f[a - 1].within = Holder("<colgroup>") /\ f[a] = At(f[a - 1], "<colgroup>")
    <3>1. Closed(f, s, a, k, o)
      <4> HIDE DEF o, tags
      <4> QED
        BY <1>4, <2>1, NestClosed
    <3> QED
      BY <3>1 DEF Closed
  <2>3. a - 1 \in 0 .. Len(s)
    BY <2>1
  <2> QED
    BY <1>1, <1>3, <1>4, <2>2, <2>3 DEF Nest
<1> HIDE DEF p
<1>7. f[a].document = p.document /\ f[a].divs = p.divs /\ f[a].within = "<colgroup>"
  BY <1>6 DEF At
<1>8. /\ e \in g + 1 .. n /\ f[e] = f[g - 1] /\ f[g - 1].within = "<table"
      /\ \A j \in g + 1 .. e - 1 : s[j].tag \in Neutral
  <2> DEFINE o == "<colgroup>"
             tags == {"</colgroup>"}
  <2>1. /\ g \in 1 .. Len(s) /\ s[g].tag = o /\ o \in Inner /\ tags = {Closer(o)}
        /\ IsFirst(e, s, tags, g)
    BY <1>1, <1>3 DEF n
  <2>2. Closed(f, s, g, e, o)
    <3> HIDE DEF o, tags
    <3> QED
      BY <1>4, <2>1, NestClosed
  <2> QED
    BY <1>3, <2>2 DEF Closed, n
<1>9. \A j \in a + 1 .. e : s[j].tag # "</table>"
  <2> TAKE j \in a + 1 .. e
  <2>1. j \in 1 .. n /\ DOMAIN s = 1 .. n
    BY <1>1, <1>3, <1>8 DEF n
  <2>2. CASE j < g
    <3>1. a < j /\ a \in DOMAIN s /\ j \in DOMAIN s /\ g \in DOMAIN s
      BY <1>1, <1>3, <2>1
    <3> QED
      BY <1>1, <2>2, <3>1 DEF ColumnsOfOneTable
  <2>3. CASE j = g
    BY <1>1, <2>3
  <2>4. CASE j \in g + 1 .. e - 1
    BY <1>8, <2>4 DEF Neutral
  <2>5. CASE j = e
    BY <1>1, <1>3, <1>8, <2>5 DEF IsFirst
  <2> QED
    BY <1>1, <1>3, <1>8, <2>1, <2>2, <2>3, <2>4, <2>5
<1>10. f[e] = p
  <2>1. a \in 0 .. Len(s) /\ e \in a .. Len(s) /\ e \in a .. e /\ f[a].within \in InTable
        /\ e \in 0 .. Len(s)
    BY <1>1, <1>3, <1>7, <1>8 DEF n, InTable, TableParts
  <2>2. f[e].document = f[a].document /\ f[e].divs = f[a].divs
    BY <1>4, <1>9, <2>1, NestWithin
  <2>3. f[e] \in Place
    BY <1>4, <2>1 DEF Nest
  <2> QED
    BY <1>6, <1>7, <1>8, <2>2, <2>3, SamePlace
<1>11. by \in Seq(Tokens) /\ Leads(p, by, p)
  BY <1>6, MergedLeads DEF by
<1>12. MergedUpTo(s) = e /\ e \in 0 .. Len(s) /\ a \in 1 .. Len(s) + 1
  BY <1>1, <1>2, <1>3, <1>8 DEF n
<1>13. Leads(f[a - 1], by, f[e]) /\ Trace(f, Outside, s) /\ f[Len(s)] = Outside
  BY <1>4, <1>10, <1>11 DEF p, Nest
<1>14. WellNested(Replace(s, a, e, by))
  BY <1>11, <1>12, <1>13, NestReplaced
<1> QED
  BY <1>12, <1>14 DEF a, by

\* Cutting out an element that holds no other one.
LEMMA NestElementCut ==
  ASSUME NEW s \in Seq(Tokens), WellNested(s), NEW i \in 1 .. Len(s), s[i].tag \in Inner
  PROVE  LET k == First(s, {Closer(s[i].tag)}, i)
         IN  /\ k \in i + 1 .. Len(s) /\ \A j \in i + 1 .. k - 1 : s[j].tag \in Neutral
             /\ Cut(s, i, k) \in Seq(Tokens) /\ WellNested(Cut(s, i, k))
<1> DEFINE tags == {Closer(s[i].tag)}
           k == First(s, tags, i)
<1>1. PICK f : Nest(f, s)
  BY NestIs
<1>2. IsFirst(k, s, tags, i)
  BY FirstIs
<1> HIDE DEF k
<1>3. /\ k \in i + 1 .. Len(s) /\ f[k] = f[i - 1]
      /\ \A j \in i + 1 .. k - 1 : s[j].tag \in Neutral
  <2> DEFINE o == s[i].tag
  <2>1. s[i].tag = o /\ o \in Inner /\ tags = {Closer(o)} /\ i \in 1 .. Len(s)
    OBVIOUS
  <2> HIDE DEF o, tags
  <2>2. Closed(f, s, i, k, o)
    BY <1>1, <1>2, <2>1, NestClosed
  <2> QED
    BY <2>2 DEF Closed
<1>4. k \in i .. Len(s)
  BY <1>3
<1>5. Cut(s, i, k) \in Seq(Tokens) /\ WellNested(Cut(s, i, k))
  BY <1>1, <1>3, <1>4, NestCut
<1> QED
  BY <1>3, <1>5 DEF k

LEMMA NestErased ==
  ASSUME NEW s \in Seq(Tokens), WellNested(s),
         NEW t, NEW n, NEW name, ErasedAt(t, s, n, name)
  PROVE  WellNested(t)
<1>1. /\ t \in Seq(Tokens) /\ Len(t) = Len(s)
      /\ \A i \in 1 .. Len(s) : t[i].tag = s[i].tag
  BY DEF ErasedAt
<1>2. PICK f : Nest(f, s)
  BY NestIs
<1>3. \A p, x, y : x.tag = y.tag => Behind(p, x) = Behind(p, y)
  BY DEF Behind
<1>4. \A i \in 1 .. Len(t) : f[i] = Behind(f[i - 1], t[i])
  <2> TAKE i \in 1 .. Len(t)
  <2>1. NestStep(f, s, i)
    BY <1>1, <1>2, NestSteps
  <2>2. Behind(f[i - 1], t[i]) = Behind(f[i - 1], s[i])
    BY <1>1, <1>3
  <2> QED
    BY <2>1, <2>2 DEF NestStep
<1>5. Trace(f, Outside, t) /\ f[Len(t)] = Outside
  BY <1>1, <1>2, <1>4 DEF Nest, Trace
<1> QED
  BY <1>1, <1>5, NestedIs DEF Leads

\* Neutral tokens may be put in anywhere.
LEMMA NestInserted ==
  ASSUME NEW s \in Seq(Tokens), WellNested(s), NEW by \in Seq(Tokens),
         \A i \in 1 .. Len(by) : by[i].tag \in Neutral
  PROVE  WellNested(InsertHeader(s, by))
<1> DEFINE b == First(s, {"<tbody>"}, 1)
           m == b + 1
<1>1. IsFirst(b, s, {"<tbody>"}, 1)
  BY FirstIs
<1>2. InsertHeader(s, by) = IF b = 0 THEN s ELSE Replace(s, m, b, by)
  BY DEF InsertHeader
<1> HIDE DEF b
<1>3. CASE b # 0
  <2>1. PICK f : Nest(f, s)
    BY NestIs
  <2>2. b \in 0 .. Len(s) /\ m \in 1 .. Len(s) + 1 /\ m - 1 = b
    BY <1>1, <1>3 DEF IsFirst
  <2>3. f[b] \in Place /\ Trace(f, Outside, s) /\ f[Len(s)] = Outside
    BY <2>1, <2>2 DEF Nest
  <2>4. Leads(f[m - 1], by, f[b])
    BY <2>2, <2>3, LeadsNowhere
  <2> HIDE DEF m
  <2>5. WellNested(Replace(s, m, b, by))
    BY <2>2, <2>3, <2>4, NestReplaced
  <2> QED
    BY <1>2, <1>3, <2>5
<1> QED
  BY <1>2, <1>3

LEMMA NestHeader ==
  ASSUME NEW s \in Seq(Tokens), WellNested(s)
  PROVE  LET head == First(s, {"<thead>"}, 1)
             end == First(s, {"</thead>"}, head)
         IN  head # 0 =>
               WellNested(InsertHeader(Cut(s, head, end), SubSeq(s, head + 1, end - 1)))
<1> DEFINE head == First(s, {"<thead>"}, 1)
           end == First(s, {"</thead>"}, head)
           m == head + 1
           n == end - 1
           by == SubSeq(s, m, n)
           c == Cut(s, head, end)
<1> SUFFICES ASSUME head # 0 PROVE WellNested(InsertHeader(c, by))
  OBVIOUS
<1>1. IsFirst(head, s, {"<thead>"}, 1)
  BY FirstIs
<1> DEFINE h == head
<1>2. h \in 1 .. Len(s) /\ s[h].tag = "<thead>" /\ h = First(s, {"<thead>"}, 1)
  <2> HIDE DEF head
  <2>1. h \in 1 .. Len(s) /\ s[h].tag = "<thead>"
    BY <1>1 DEF IsFirst
  <2> QED
    BY <2>1 DEF head
<1> HIDE DEF h
<1>3. s[h].tag \in Inner /\ Closer(s[h].tag) = "</thead>"
  BY <1>2 DEF Inner, TableParts, Closer
<1> DEFINE k == First(s, {"</thead>"}, h)
<1>4. /\ k \in h + 1 .. Len(s) /\ \A j \in h + 1 .. k - 1 : s[j].tag \in Neutral
      /\ Cut(s, h, k) \in Seq(Tokens) /\ WellNested(Cut(s, h, k))
  <2>1. LET e == First(s, {Closer(s[h].tag)}, h)
        IN  /\ e \in h + 1 .. Len(s) /\ \A j \in h + 1 .. e - 1 : s[j].tag \in Neutral
            /\ Cut(s, h, e) \in Seq(Tokens) /\ WellNested(Cut(s, h, e))
    BY <1>2, <1>3, NestElementCut
  <2> QED
    BY <1>3, <2>1
<1>5. end = k
  BY DEF h
<1> HIDE DEF k, end
<1>6. c \in Seq(Tokens) /\ WellNested(c)
  BY <1>4, <1>5 DEF h
<1>7. m \in 1 .. Len(s) + 1 /\ n \in 0 .. Len(s) /\ m = h + 1 /\ n = k - 1
  BY <1>2, <1>4, <1>5 DEF h
<1> HIDE DEF m, n, c, head
<1>8. /\ by \in Seq(Tokens) /\ Len(by) = (IF m <= n THEN n - m + 1 ELSE 0)
      /\ \A i \in 1 .. Len(by) : by[i] = s[m + i - 1]
  BY <1>7, PartIs
<1> HIDE DEF by
<1>9. \A i \in 1 .. Len(by) : by[i].tag \in Neutral
  <2> TAKE i \in 1 .. Len(by)
  <2> DEFINE j == m + i - 1
  <2>1. j \in h + 1 .. k - 1
    <3>1. m \in Int /\ n \in Int /\ h \in Int /\ k \in Int
      BY <1>2, <1>4, <1>7
    <3>2. i \in Int /\ 1 <= i /\ i <= n - m + 1
      BY <1>8, <3>1
    <3>3. n - m + 1 = k - h - 1
      BY <1>7, <3>1
    <3> QED
      BY <1>7, <3>1, <3>2, <3>3
  <2> HIDE DEF j
  <2>2. s[j].tag \in Neutral
    BY <1>4, <2>1
  <2> QED
    BY <1>8, <2>2 DEF j
<1> QED
  BY <1>6, <1>8, <1>9, NestInserted

\* The rebuilt table is followed by the end of the old one, and by what followed that.
OldEndLeft(t) ==
  LET end == First(t, {"</table>"}, 1)
  IN  /\ end # 0 /\ end < Len(t) /\ t[end + 1].tag = "</table>"
      /\ WellNested(RemoveAt(t, end + 1))

LEMMA RemoveAtIs ==
  ASSUME NEW s \in Seq(Tokens), NEW m \in 1 .. Len(s)
  PROVE  RemoveAt(s, m) = Cut(s, m, m)
<1> DEFINE a == SubSeq(s, 1, m - 1)
           c == SubSeq(s, m + 1, Len(s))
           p == m - 1
<1>1. a \in Seq(Tokens)
  <2>1. p \in 0 .. Len(s) /\ 1 \in 1 .. Len(s) + 1
    OBVIOUS
  <2> HIDE DEF p
  <2>2. SubSeq(s, 1, p) \in Seq(Tokens)
    BY <2>1, PartIs
  <2> QED
    BY <2>2 DEF p
<1>2. RemoveAt(s, m) = a \o c
  BY DEF RemoveAt
<1>3. Cut(s, m, m) = (a \o <<>>) \o c
  BY DEF Cut, Replace
<1> HIDE DEF a, c
<1>4. a \o <<>> = a
  BY <1>1, ConcatEmptySeq
<1> QED
  BY <1>2, <1>3, <1>4

LEMMA NestFlatten ==
  ASSUME NEW s \in Seq(Tokens), WellNested(s),
         NEW table, table = First(s, {"<table"}, 1), table # 0,
         NEW end, end = First(s, {"</table>"}, table)
  PROVE  OldEndLeft(Replace(s, table, end - 1, Rebuilt(SubSeq(s, table, end))))
<1> DEFINE sub == SubSeq(s, table, end)
           r == Keep(sub, {"row"})
           n == Len(r)
           by == Rebuilt(sub)
           m == Len(by)
           p == table - 1
           q == p + m
           to == end - 1
           t == Replace(s, table, to, by)
           u == Replace(s, table, end, by)
           z == q + 1
           c == Cut(t, z, z)
<1>1. PICK f : Nest(f, s)
  BY NestIs
<1>2. IsFirst(table, s, {"<table"}, 1)
  BY FirstIs
<1>3. /\ table \in 1 .. Len(s) /\ s[table].tag = "<table"
      /\ \A i \in 1 .. p : s[i].tag # "<table"
  BY <1>2 DEF IsFirst
<1>4. IsFirst(end, s, {"</table>"}, table)
  BY <1>3, FirstIs
<1>5. /\ end \in table + 1 .. Len(s) /\ f[end] = f[p] /\ f[p].within = "body"
  BY <1>1, <1>3, <1>4, NestTable
<1>6. s[end].tag = "</table>" /\ Len(s) \in Nat /\ p \in 0 .. Len(s) /\ end \in table .. Len(s)
      /\ table \in 1 .. Len(s) + 1 /\ end \in 0 .. Len(s) /\ to \in 0 .. Len(s)
  BY <1>3, <1>4, <1>5 DEF IsFirst
<1>7. \A i \in 1 .. p : s[i].tag # "</table>"
  BY <1>1, <1>3, <1>6, NestNoTable
<1>8. f[p] \in Place /\ Trace(f, Outside, s) /\ f[Len(s)] = Outside
  BY <1>1, <1>6 DEF Nest
<1>9. sub \in Seq(Tokens)
  BY <1>3, <1>6, PartAt
<1> HIDE DEF sub
<1>10. by \in Seq(Tokens) /\ Leads(f[p], by, f[end])
  BY <1>5, <1>8, <1>9, RebuiltLeads
<1>11. /\ n \in Nat /\ m = n + 4
       /\ by[1].tag = "<table" /\ by[2].tag = "<tbody>"
       /\ by[n + 3].tag = "</tbody>" /\ by[n + 4].tag = "</table>"
       /\ \A i \in 1 .. n : by[2 + i].tag # "</table>"
  <2>1. /\ n \in Nat /\ m = n + 4
        /\ by[1] = Structure("<table") /\ by[2] = Structure("<tbody>")
        /\ by[n + 3] = Structure("</tbody>") /\ by[n + 4] = Structure("</table>")
        /\ \A i \in 1 .. n : by[2 + i] = r[i]
    BY <1>9, RebuiltIs
  <2>2. \A x \in OfTags(Tokens, {"row"}) : x.tag # "</table>"
    BY DEF OfTags
  <2>3. r \in Seq(OfTags(Tokens, {"row"}))
    BY <1>9, KeepIs
  <2> HIDE DEF r, by
  <2>4. \A i \in 1 .. n : r[i].tag # "</table>"
    BY <2>2, <2>3
  <2>5. \A tag \in Tags : Structure(tag).tag = tag
    BY StructureIs
  <2>6. {"<table", "<tbody>", "</tbody>", "</table>"} \subseteq Tags
    BY DEF Tags
  <2> QED
    BY <2>1, <2>4, <2>5, <2>6
<1>12. \A i \in 1 .. m - 1 : by[i].tag # "</table>"
  <2> TAKE i \in 1 .. m - 1
  <2> HIDE DEF by, n, m
  <2>1. CASE i \in {1, 2, n + 3}
    BY <1>11, <2>1
  <2>2. CASE i \notin {1, 2, n + 3}
    <3> DEFINE j == i - 2
    <3>1. j \in 1 .. n /\ 2 + j = i
      BY <1>11, <2>2
    <3> HIDE DEF j
    <3>2. by[2 + j].tag # "</table>"
      BY <1>11, <3>1
    <3> QED
      BY <3>1, <3>2
  <2> QED
    BY <2>1, <2>2
<1> HIDE DEF by, n
<1>13. t \in Seq(Tokens) /\ EditedAt(t, s, table, to, by)
  BY <1>6, <1>10, EditIs
<1>14. u \in Seq(Tokens) /\ EditedAt(u, s, table, end, by)
  BY <1>6, <1>10, EditIs
<1>15. /\ Spliced(t, s, p, q, to - q)
       /\ \A i \in table .. q : i - table + 1 \in 1 .. m /\ t[i] = by[i - table + 1]
  BY <1>13 DEF EditedAt
<1>16. /\ Spliced(u, s, p, q, end - q)
       /\ \A i \in table .. q : i - table + 1 \in 1 .. m /\ u[i] = by[i - table + 1]
  BY <1>14 DEF EditedAt
<1> HIDE DEF t, u
<1>17. WellNested(u)
  BY <1>6, <1>8, <1>10, NestReplaced DEF u
<1>18. m \in Nat /\ m >= 4
  <2>1. n \in Nat /\ m = n + 4
    BY <1>11
  <2> HIDE DEF m
  <2> QED
    BY ONLY <2>1
<1>19. table \in Nat \ {0} /\ end \in Nat /\ end > table /\ end <= Len(s) /\ Len(s) \in Nat
  BY <1>3, <1>5, <1>6
<1> HIDE DEF m
<1>20. /\ m \in Nat /\ p \in Nat /\ q \in Nat /\ table \in Nat /\ end \in Nat /\ z \in Nat
       /\ p + 1 = table /\ q = p + m /\ to = end - 1 /\ z = q + 1 /\ m >= 4
  BY ONLY <1>18, <1>19
<1> HIDE DEF p, q, to, z
<1>21. /\ \A i \in 1 .. p : t[i] = s[i] /\ u[i] = s[i]
       /\ \A i \in z .. Len(t) : t[i] = s[i + (to - q)]
       /\ \A i \in z .. Len(u) : u[i] = s[i + (end - q)]
  BY <1>15, <1>16, <1>20 DEF Spliced
<1>22. /\ Len(t) \in Nat /\ Len(u) \in Nat
        /\ Len(t) + (to - q) = Len(s) /\ Len(u) + (end - q) = Len(s)
  BY <1>15, <1>16 DEF Spliced
<1>23. Len(t) = Len(u) + 1 /\ Len(t) = q + 1 + (Len(s) - end)
  BY ONLY <1>19, <1>20, <1>22
<1>24. q < Len(t) /\ z \in 1 .. Len(t) /\ t[z].tag = "</table>"
  <2>1. q < Len(t) /\ z \in 1 .. Len(t) /\ z \in z .. Len(t) /\ z + (to - q) = end
    BY ONLY <1>19, <1>20, <1>22, <1>23
  <2> QED
    BY <1>6, <1>21, <2>1
<1>25. q \in 1 .. Len(t) /\ t[q].tag = "</table>"
  <2>1. q \in table .. q /\ q - table + 1 = m /\ q \in 1 .. Len(t)
    BY <1>20, <1>24
  <2>2. t[q] = by[m] /\ by[m].tag = "</table>"
    BY <1>11, <1>15, <2>1
  <2> QED
    BY <2>1, <2>2
<1>26. \A i \in 1 .. q - 1 : t[i].tag # "</table>"
  <2> TAKE i \in 1 .. q - 1
  <2>1. CASE i \in 1 .. p
    BY <1>7, <1>21, <2>1
  <2>2. CASE i \notin 1 .. p
    <3> DEFINE j == i - table + 1
    <3>1. i \in table .. q /\ j \in 1 .. m - 1
      BY <1>20, <2>2
    <3>2. t[i] = by[j]
      BY <1>15, <3>1
    <3> HIDE DEF j
    <3> QED
      BY <1>12, <3>1, <3>2
  <2> QED
    BY <2>1, <2>2
<1>27. First(t, {"</table>"}, 1) = q
  <2>1. IsFirst(q, t, {"</table>"}, 1)
    BY <1>22, <1>25, <1>26 DEF IsFirst
  <2>2. IsFirst(First(t, {"</table>"}, 1), t, {"</table>"}, 1)
    BY <1>13, FirstIs DEF t
  <2> DEFINE x == First(t, {"</table>"}, 1)
             tags == {"</table>"}
  <2>3. IsFirst(q, t, tags, 1) /\ IsFirst(x, t, tags, 1) /\ 1 \in Nat \ {0}
    BY <2>1, <2>2
  <2> HIDE DEF x, tags
  <2>4. x = q
    BY <1>22, <2>3, FirstUnique
  <2> QED
    BY <2>4 DEF x
<1>28. RemoveAt(t, z) = c
  BY <1>13, <1>24, RemoveAtIs DEF t
<1>29. /\ c \in Seq(Tokens) /\ Len(c) = Len(t) - 1
       /\ \A i \in 1 .. q : c[i] = t[i]
       /\ \A i \in z .. Len(c) : c[i] = t[i + 1]
  <2>1. t \in Seq(Tokens) /\ z \in z .. Len(t)
    BY <1>13, <1>20, <1>24 DEF t
  <2>2. z - z + 1 = 1 /\ z - 1 = q
    BY <1>20
  <2>3. /\ c \in Seq(Tokens) /\ Len(c) = Len(t) - (z - z + 1)
        /\ \A i \in 1 .. z - 1 : c[i] = t[i]
        /\ \A i \in z .. Len(c) : c[i] = t[i + (z - z + 1)]
    BY <1>24, <2>1, CutAt
  <2> HIDE DEF c
  <2> QED
    BY <2>2, <2>3
<1> HIDE DEF c
<1>30. c = u
  <2>1. Len(c) = Len(u)
    BY ONLY <1>22, <1>23, <1>29
  <2>2. ASSUME NEW i \in 1 .. Len(u) PROVE c[i] = u[i]
    <3>1. CASE i \in 1 .. p
      <4>1. i \in 1 .. q
        BY <1>20, <3>1
      <4> QED
        BY <1>21, <1>29, <3>1, <4>1
    <3>2. CASE i \in table .. q
      <4>1. i \in 1 .. q
        BY <1>20, <3>2
      <4> QED
        BY <1>15, <1>16, <1>29, <3>2, <4>1
    <3>3. CASE i \in z .. Len(u)
      <4> DEFINE j == i + 1
      <4>1. j \in z .. Len(t) /\ j + (to - q) = i + (end - q) /\ i \in z .. Len(c)
        BY ONLY <1>19, <1>20, <1>22, <1>23, <2>1, i \in 1 .. Len(u), <3>3
      <4>2. c[i] = t[j]
        BY <1>29, <4>1
      <4> HIDE DEF j
      <4>3. t[j] = s[i + (end - q)] /\ u[i] = s[i + (end - q)]
        BY <1>21, <3>3, <4>1
      <4> QED
        BY <4>2, <4>3
    <3> QED
      BY <1>20, <1>22, <3>1, <3>2, <3>3
  <2>3. /\ c \in Seq(Tokens) /\ u \in Seq(Tokens) /\ Len(c) = Len(u)
        /\ \A i \in 1 .. Len(c) : c[i] = u[i]
    BY <1>14, <1>29, <2>1, <2>2 DEF u
  <2> QED
    BY ONLY <2>3, SeqEqual
<1>31. OldEndLeft(t)
  BY <1>17, <1>20, <1>24, <1>25, <1>27, <1>28, <1>30 DEF OldEndLeft
<1> QED
  BY <1>31 DEF t, to, by, sub

LEMMA OneTablePart ==
  ASSUME NEW s \in Seq(Tokens), ColumnsOfOneTable(s), NEW n \in 1 .. Len(s), NEW e \in n .. Len(s)
  PROVE  ColumnsOfOneTable(SubSeq(s, n, e))
<1> DEFINE t == SubSeq(s, n, e)
<1>1. /\ t \in Seq(Tokens) /\ Len(t) = e - n + 1
      /\ \A i \in 1 .. Len(t) : t[i] = s[n + i - 1]
  BY PartAt
<1> HIDE DEF t
<1>2. DOMAIN t = 1 .. Len(t)
  BY <1>1
<1> SUFFICES ASSUME NEW i \in DOMAIN t, NEW j \in DOMAIN t, NEW k \in DOMAIN t,
                    i < j, j < k, t[i].tag = "<colgroup>", t[k].tag = "<colgroup>"
             PROVE  t[j].tag # "</table>"
  <2>1. ColumnsOfOneTable(t)
    BY DEF ColumnsOfOneTable
  <2> QED
    BY <2>1 DEF t
<1> DEFINE x == n + i - 1
           y == n + j - 1
           z == n + k - 1
<1>3. \A l \in DOMAIN t : n + l - 1 \in 1 .. Len(s) /\ t[l] = s[n + l - 1]
  <2> TAKE l \in DOMAIN t
  <2>1. l \in 1 .. Len(t) /\ t[l] = s[n + l - 1]
    BY <1>1, <1>2
  <2>2. Len(s) \in Nat /\ Len(t) = e - n + 1
    BY <1>1
  <2>3. n + l - 1 \in 1 .. Len(s)
    BY ONLY <2>1, <2>2, n \in 1 .. Len(s), e \in n .. Len(s)
  <2> QED
    BY <2>1, <2>3
<1>4. /\ x \in DOMAIN s /\ y \in DOMAIN s /\ z \in DOMAIN s
      /\ t[i] = s[x] /\ t[j] = s[y] /\ t[k] = s[z]
  BY <1>3
<1>5. x < y /\ y < z
  BY <1>1, <1>2
<1> HIDE DEF x, y, z
<1> QED
  BY <1>4, <1>5 DEF ColumnsOfOneTable

-----------------------------------------------------------------------------
(***************************************************************************)
(* The text is well nested before every pass, and at the end but for the   *)
(* old end of the table.                                                   *)
(***************************************************************************)
NestedOutput == WellNested(html_output) /\ ColumnsOfOneTable(html_output)

NestInv ==
  has_html /\ NestedOutput =>
    /\ pass = "colgroups" => ColumnsOfOneTable(clean_html)
    /\ WellNested(clean_html) \/ (pass = "done" /\ OldEndLeft(clean_html))

LEMMA NestAfter ==
  ASSUME NestInv, html_output' = html_output, has_html' = has_html, pass # "done",
         pass' # "colgroups",
         WellNested(clean_html) /\ (pass = "colgroups" => ColumnsOfOneTable(clean_html)) =>
           WellNested(clean_html') \/ (pass' = "done" /\ OldEndLeft(clean_html'))
  PROVE  NestInv'
<1> SUFFICES ASSUME has_html', NestedOutput'
             PROVE  WellNested(clean_html') \/ (pass' = "done" /\ OldEndLeft(clean_html'))
  <2>1. OldEndLeft(clean_html)' <=> OldEndLeft(clean_html')
    BY DEF OldEndLeft
  <2> QED
    BY <2>1 DEF NestInv
<1>1. has_html /\ NestedOutput
  BY DEF NestedOutput
<1> QED
  BY <1>1 DEF NestInv

LEMMA NestNext == ShapeInv /\ NestInv /\ [ExtractNext]_extractVars => NestInv'
<1> SUFFICES ASSUME ShapeInv, NestInv, [ExtractNext]_extractVars PROVE NestInv'
  OBVIOUS
<1> DEFINE s == clean_html
<1>1. s \in Seq(Tokens) /\ Len(s) \in Nat /\ KnownInv /\ html_output \in Seq(Tokens)
  BY DEF ShapeInv, KnownInv, ExtractTypeOK
<1>2. CASE Extract
  <2> SUFFICES ASSUME has_html', NestedOutput'
               PROVE  ColumnsOfOneTable(clean_html)' /\ WellNested(clean_html)'
    BY DEF NestInv
  <2>1. html_output' = html_output
    BY <1>2 DEF Extract
  <2>2. WellNested(html_output) /\ ColumnsOfOneTable(html_output)
    BY <2>1 DEF NestedOutput
  <2>3. \E i \in 1 .. Len(html_output) : html_output[i].tag \in StartTags
    BY <1>1 DEF KnownInv
  <2> DEFINE a == Start(html_output)
             e == End
  <2>4. /\ a \in 1 .. Len(html_output) /\ e \in a .. Len(html_output) /\ e # a - 1
        /\ WellNested(SubSeq(html_output, a, e))
    BY <1>1, <2>2, <2>3, NestExtract
  <2>5. e >= a /\ ~(e < a) /\ e # 0 /\ e # a - 1
    BY <2>4
  <2>6. clean_html' = SubSeq(html_output, a, e)
    <3> HIDE DEF a, e
    <3> QED
      BY <1>2, <2>5 DEF Extract, a, e
  <2> HIDE DEF a, e
  <2>7. ColumnsOfOneTable(SubSeq(html_output, a, e))
    BY <1>1, <2>2, <2>4, OneTablePart
  <2> QED
    BY <2>4, <2>6, <2>7
<1>3. CASE MergeColgroups
  <2>1. /\ html_output' = html_output /\ has_html' = has_html
        /\ pass = "colgroups" /\ pass' = "titles"
    BY <1>3 DEF MergeColgroups
  <2>2. ASSUME WellNested(s), ColumnsOfOneTable(s) PROVE WellNested(clean_html')
    <3>1. CASE Cardinality(Colgroups(s)) > 1
      BY <1>1, <1>3, <2>2, <3>1, NestMerged DEF MergeColgroups
    <3>2. CASE ~(Cardinality(Colgroups(s)) > 1)
      BY <1>3, <2>2, <3>2 DEF MergeColgroups
    <3> QED
      BY <3>1, <3>2
  <2> QED
    BY <2>1, <2>2, NestAfter
<1>4. CASE RemoveTitle
  <2>1. /\ html_output' = html_output /\ has_html' = has_html
        /\ pass = "titles" /\ pass' \in {"titles", "styles"}
    BY <1>4 DEF RemoveTitle, NextPass
  <2>2. ASSUME WellNested(s) PROVE WellNested(clean_html')
    <3>1. CASE clean_html' = s
      BY <2>2, <3>1
    <3>2. CASE clean_html' # s
      <4>1. PICK i \in Titles(s) : clean_html' = Cut(s, i, First(s, {"</div>"}, i))
        BY <1>4, <3>2 DEF RemoveTitle
      <4>2. i \in 1 .. Len(s) /\ s[i].tag = "<titlediv"
        BY <1>1, TitleIs
      <4>3. s[i].tag \in Inner /\ {Closer(s[i].tag)} = {"</div>"}
        BY <4>2 DEF Inner, Closer
      <4>4. WellNested(Cut(s, i, First(s, {Closer(s[i].tag)}, i)))
        BY <1>1, <2>2, <4>2, <4>3, NestElementCut
      <4> QED
        BY <4>1, <4>3, <4>4
    <3> QED
      BY <3>1, <3>2
  <2> QED
    BY <2>1, <2>2, NestAfter
<1>5. CASE RemoveStyle \/ RemoveLabel
  <2>1. /\ html_output' = html_output /\ has_html' = has_html
        /\ pass \in {"styles", "labels"} /\ pass' \in {"styles", "labels", "head"}
        /\ \/ clean_html' = s
           \/ \E i, name : ErasedAt(clean_html', s, i, name)
    BY <1>1, <1>5, RoundIs DEF RemoveStyle, RemoveLabel
  <2>2. ASSUME WellNested(s) PROVE WellNested(clean_html')
    BY <1>1, <2>1, <2>2, NestErased
  <2> QED
    BY <2>1, <2>2, NestAfter
<1>6. CASE MoveHeader
  <2>1. /\ html_output' = html_output /\ has_html' = has_html
        /\ pass = "head" /\ pass' = "captions"
    BY <1>6 DEF MoveHeader
  <2>2. ASSUME WellNested(s) PROVE WellNested(clean_html')
    <3> DEFINE head == First(s, {"<thead>"}, 1)
               end == First(s, {"</thead>"}, head)
               t == InsertHeader(Cut(s, head, end), SubSeq(s, head + 1, end - 1))
    <3>1. clean_html' = s \/ (head # 0 /\ clean_html' = t)
      BY <1>6 DEF MoveHeader
    <3>2. head # 0 => WellNested(t)
      BY <1>1, <2>2, NestHeader
    <3> HIDE DEF head, t
    <3> QED
      BY <2>2, <3>1, <3>2
  <2> QED
    BY <2>1, <2>2, NestAfter
<1>7. CASE NextCaption
  <2> DEFINE from == First(s, {"<caption"}, caption_pos)
             end == First(s, {"</caption>"}, from)
  <2>1. /\ html_output' = html_output /\ has_html' = has_html
        /\ pass = "captions" /\ pass' \in {"captions", "table"}
        /\ clean_html' = s \/ (from # 0 /\ clean_html' = Cut(s, from, end))
    BY <1>7 DEF NextCaption
  <2>2. ASSUME WellNested(s) PROVE WellNested(clean_html')
    <3>1. CASE clean_html' = s
      BY <2>2, <3>1
    <3>2. CASE from # 0 /\ clean_html' = Cut(s, from, end)
      <4>1. caption_pos \in Nat \ {0}
        BY <1>1, <2>1 DEF KnownInv, ExtractTypeOK
      <4>2. IsFirst(from, s, {"<caption"}, caption_pos)
        BY <1>1, <4>1, FirstIs
      <4> DEFINE i == from
      <4>3. /\ i \in 1 .. Len(s) /\ s[i].tag = "<caption"
            /\ clean_html' = Cut(s, i, First(s, {"</caption>"}, i))
        <5>1. from \in 1 .. Len(s) /\ s[from].tag = "<caption"
          <6> HIDE DEF from
          <6> QED
            BY <1>1, <3>2, <4>1, <4>2 DEF IsFirst
        <5> QED
          BY <3>2, <5>1
      <4> HIDE DEF i
      <4>4. s[i].tag \in Inner /\ {Closer(s[i].tag)} = {"</caption>"}
        BY <4>3 DEF Inner, TableParts, Closer
      <4>5. WellNested(Cut(s, i, First(s, {Closer(s[i].tag)}, i)))
        BY <1>1, <2>2, <4>3, <4>4, NestElementCut
      <4> QED
        BY <4>3, <4>4, <4>5
    <3> QED
      BY <2>1, <3>1, <3>2
  <2> HIDE DEF from, end
  <2> QED
    BY <2>1, <2>2, NestAfter
<1>8. CASE FlattenTable
  <2> DEFINE table == First(s, {"<table"}, 1)
             end == First(s, {"</table>"}, table)
             t == Replace(s, table, end - 1, Rebuilt(SubSeq(s, table, end)))
  <2>1. /\ html_output' = html_output /\ has_html' = has_html
        /\ pass = "table" /\ pass' = "done"
        /\ clean_html' = s \/ (table # 0 /\ clean_html' = t)
    BY <1>8 DEF FlattenTable, RebuiltUpTo
  <2>2. ASSUME WellNested(s) PROVE WellNested(clean_html') \/ OldEndLeft(clean_html')
    <3>1. table # 0 => OldEndLeft(t)
      BY <1>1, <2>2, NestFlatten
    <3> HIDE DEF table, t
    <3>2. CASE clean_html' = s
      BY <2>2, <3>2
    <3>3. CASE table # 0 /\ clean_html' = t
      BY <3>1, <3>3
    <3> QED
      BY <2>1, <3>2, <3>3
  <2> HIDE DEF table, t
  <2> QED
    BY <2>1, <2>2, NestAfter
<1>9. CASE UNCHANGED extractVars
  BY <1>9 DEF extractVars, NestInv, NestedOutput, OldEndLeft
<1> QED
  BY <1>2, <1>3, <1>4, <1>5, <1>6, <1>7, <1>8, <1>9 DEF ExtractNext

(***************************************************************************)
(* Whatever the passes cut out, put in or move by position: what comes of  *)
(* a well nested text with the column groups of one table is well nested   *)
(* after every pass; at the end one tag is too many, the old </table>      *)
(* right behind the first one.                                             *)
(***************************************************************************)
THEOREM ExtractNesting == ExtractSpec => []NestingKept
<1>1. ExtractInit => NestInv
  BY DEF ExtractInit, NestInv
<1>2. NestInv => NestingKept
  BY DEF NestInv, NestedOutput, NestingKept, OldEndLeft
<1> QED
  BY <1>1, <1>2, NestNext, ShapeAlways, PTL DEF ExtractSpec

-----------------------------------------------------------------------------
(***************************************************************************)
(* The loops.                                                              *)
(***************************************************************************)
PassOn(p, q) == \E i, j \in DOMAIN Passes : i < j /\ Passes[i] = p /\ Passes[j] = q

LEMMA PassesInOrder ==
  /\ PassOn("bounds", "colgroups") /\ PassOn("bounds", "done") /\ PassOn("colgroups", "titles")
  /\ PassOn("titles", "styles") /\ PassOn("styles", "labels") /\ PassOn("labels", "head")
  /\ PassOn("head", "captions")
  /\ PassOn("captions", "table") /\ PassOn("table", "done")
<1>1. /\ DOMAIN Passes = 1 .. 9
      /\ Passes[1] = "bounds" /\ Passes[2] = "colgroups" /\ Passes[3] = "titles"
      /\ Passes[4] = "styles" /\ Passes[5] = "labels" /\ Passes[6] = "head"
      /\ Passes[7] = "captions" /\ Passes[8] = "table" /\ Passes[9] = "done"
  BY DEF Passes
<1>2. \A i, j \in 1 .. 9 : i < j => PassOn(Passes[i], Passes[j])
  BY <1>1 DEF PassOn
<1>3. PassOn(Passes[1], Passes[2]) /\ PassOn(Passes[1], Passes[9]) /\ PassOn(Passes[2], Passes[3])
      /\ PassOn(Passes[3], Passes[4]) /\ PassOn(Passes[4], Passes[5])
      /\ PassOn(Passes[5], Passes[6]) /\ PassOn(Passes[6], Passes[7])
      /\ PassOn(Passes[7], Passes[8]) /\ PassOn(Passes[8], Passes[9])
  BY <1>2
<1> QED
  BY <1>1, <1>3

\* What a cut takes away.
LEMMA CutShorter ==
  ASSUME NEW s \in Seq(Tokens), NEW from \in 1 .. Len(s), NEW to \in from .. Len(s)
  PROVE  Len(Cut(s, from, to)) \in Nat /\ Len(Cut(s, from, to)) < Len(s)
<1> DEFINE t == Cut(s, from, to)
<1>1. t \in Seq(Tokens) /\ Len(t) = Len(s) - (to - from + 1)
  BY CutAt
<1> HIDE DEF t
<1>2. Len(t) \in Nat /\ Len(t) < Len(s)
  BY <1>1
<1> QED
  BY <1>2 DEF t

LEMMA TitlesAdvance ==
  ASSUME ShapeInv, RemoveTitle, pass' = pass
  PROVE  Len(clean_html') \in Nat /\ Len(clean_html') < Len(clean_html)
<1> DEFINE s == clean_html
<1>1. s \in Seq(Tokens)
  BY DEF ShapeInv, KnownInv, ExtractTypeOK
<1>2. Titles(s) # {}
  BY DEF RemoveTitle, NextPass
<1>3. PICK i \in Titles(s) : clean_html' = Cut(s, i, First(s, {"</div>"}, i))
  BY <1>2 DEF RemoveTitle
<1> DEFINE k == First(s, {"</div>"}, i)
<1>4. i \in 1 .. Len(s) /\ k \in i + 1 .. Len(s)
  BY <1>1, TitleIs
<1> HIDE DEF k
<1>5. k \in i .. Len(s)
  BY <1>4
<1> QED
  BY <1>1, <1>3, <1>4, <1>5, CutShorter DEF k

LEMMA AttributesAdvance ==
  ASSUME NEW s \in Seq(Tokens), NEW t, NEW i, NEW name, ErasedAt(t, s, i, name)
  PROVE  /\ Cardinality(Having(t, name)) \in Nat
         /\ Cardinality(Having(t, name)) < Cardinality(Having(s, name))
<1> DEFINE S == Having(s, name)
           T == Having(t, name)
<1>1. /\ DOMAIN s = 1 .. Len(s) /\ DOMAIN t = 1 .. Len(s) /\ Len(s) \in Nat
      /\ i \in 1 .. Len(s) /\ name \in s[i].attrs
      /\ \A j \in 1 .. Len(s) : name \in t[j].attrs <=> j # i /\ name \in s[j].attrs
  BY DEF ErasedAt
<1>2. i \in S /\ T = S \ {i}
  BY <1>1 DEF Having
<1>3. IsFiniteSet(S)
  <2>1. S \subseteq 1 .. Len(s) /\ IsFiniteSet(1 .. Len(s))
    BY <1>1, FS_Interval DEF Having
  <2> QED
    BY <2>1, FS_Subset
<1> HIDE DEF S, T
<1>4. Cardinality(T) = Cardinality(S) - 1 /\ Cardinality(S) \in Nat /\ IsFiniteSet(T)
  BY <1>2, <1>3, FS_RemoveElement, FS_CardinalityType
<1>5. Cardinality(T) \in Nat
  BY <1>4, FS_CardinalityType
<1> QED
  BY <1>4, <1>5 DEF S, T

LEMMA CaptionsAdvance ==
  ASSUME ShapeInv, ShapeInv', NextCaption, pass' = pass
  PROVE  /\ Len(clean_html') + 1 - caption_pos' \in Nat
         /\ Len(clean_html') + 1 - caption_pos' < Len(clean_html) + 1 - caption_pos
<1> DEFINE s == clean_html
           t == clean_html'
           from == First(s, {"<caption"}, caption_pos)
           end == First(s, {"</caption>"}, from)
           n == Len(s)
           m == Len(t)
           p == caption_pos
           q == caption_pos'
<1>1. /\ s \in Seq(Tokens) /\ t \in Seq(Tokens) /\ n \in Nat /\ m \in Nat
      /\ p \in 1 .. n + 1 /\ q \in 1 .. m + 1
  BY DEF ShapeInv, KnownInv, ExtractTypeOK, NextCaption
<1>2. \/ from # 0 /\ end = 0 /\ q = from + 1 /\ t = s
      \/ from # 0 /\ end # 0 /\ q = from /\ t = Cut(s, from, end)
      \/ from # 0 /\ end # 0 /\ q = end + 1 /\ t = s
  BY DEF NextCaption, KeptCaption
<1>3. IsFirst(from, s, {"<caption"}, p)
  BY <1>1, FirstIs
<1> HIDE DEF from, end
<1>4. from \in p .. n /\ s[from].tag = "<caption" /\ from \in 1 .. n
  BY <1>1, <1>2, <1>3 DEF IsFirst
<1>5. end = 0 \/ end \in from + 1 .. n
  <2>1. IsFirst(end, s, {"</caption>"}, from)
    BY <1>1, <1>4, FirstIs DEF end
  <2> QED
    BY <1>1, <1>4, <2>1, FirstCaptionEnd
<1>6. t = Cut(s, from, end) /\ end # 0 => m < n
  <2>1. end # 0 => end \in from .. n
    BY <1>1, <1>4, <1>5
  <2> QED
    BY <1>1, <1>4, <2>1, CutShorter
<1> HIDE DEF p, q
<1>7. t = s => m = n
  OBVIOUS
<1> HIDE DEF s, t, n, m
<1>8. m + 1 - q \in Nat /\ m + 1 - q < n + 1 - p
  BY <1>1, <1>2, <1>4, <1>5, <1>6, <1>7
<1> QED
  BY <1>8 DEF m, n, p, q, s, t

(***************************************************************************)
(* Every step of the extraction comes nearer to its end: the loops over    *)
(* titles, attributes and captions have a measure that decreases, whatever *)
(* the text and wherever elements are left open.                           *)
(***************************************************************************)
THEOREM ExtractAdvances == ExtractSpec => ExtractionAdvances
<1> DEFINE Step == \/ PassOn(pass, pass')
                   \/ pass' = pass /\ Ahead' \in Nat /\ Ahead' < Ahead
<1>1. ShapeInv /\ ShapeInv' /\ [ExtractNext]_extractVars => [Step]_extractVars
  <2> SUFFICES ASSUME ShapeInv, ShapeInv', ExtractNext PROVE Step
    OBVIOUS
  <2>1. CASE Extract
    BY <2>1, PassesInOrder DEF Extract
  <2>2. CASE MergeColgroups
    BY <2>2, PassesInOrder DEF MergeColgroups
  <2>3. CASE RemoveTitle
    <3>1. pass = "titles" /\ (pass' = "titles" \/ pass' = "styles")
      BY <2>3 DEF RemoveTitle, NextPass
    <3>2. CASE pass' = "titles"
      <4>1. Len(clean_html') \in Nat /\ Len(clean_html') < Len(clean_html)
        BY <2>3, <3>1, <3>2, TitlesAdvance
      <4>2. Ahead = Len(clean_html) /\ Ahead' = Len(clean_html')
        BY <3>1, <3>2 DEF Ahead
      <4> QED
        BY <3>1, <3>2, <4>1, <4>2
    <3> QED
      BY <3>1, <3>2, PassesInOrder
  <2>4. CASE RemoveStyle \/ RemoveLabel
    <3>1. clean_html \in Seq(Tokens)
      BY DEF ShapeInv, KnownInv, ExtractTypeOK
    <3>2. \/ pass = "styles" /\ RemoveAttribute("style", "labels")
          \/ pass = "labels" /\ RemoveAttribute("aria-label", "head")
      BY <2>4 DEF RemoveStyle, RemoveLabel
    <3>3. CASE pass' = pass /\ pass = "styles"
      <4>1. PICK i : ErasedAt(clean_html', clean_html, i, "style")
        BY <3>1, <3>2, <3>3, RoundIs
      <4>2. /\ Cardinality(Having(clean_html', "style")) \in Nat
            /\ Cardinality(Having(clean_html', "style"))
                 < Cardinality(Having(clean_html, "style"))
        BY <3>1, <4>1, AttributesAdvance
      <4>3. /\ Ahead = Cardinality(Having(clean_html, "style"))
            /\ Ahead' = Cardinality(Having(clean_html', "style"))
        BY <3>3 DEF Ahead, Having
      <4> QED
        BY <3>3, <4>2, <4>3
    <3>4. CASE pass' = pass /\ pass = "labels"
      <4>1. PICK i : ErasedAt(clean_html', clean_html, i, "aria-label")
        BY <3>1, <3>2, <3>4, RoundIs
      <4>2. /\ Cardinality(Having(clean_html', "aria-label")) \in Nat
            /\ Cardinality(Having(clean_html', "aria-label"))
                 < Cardinality(Having(clean_html, "aria-label"))
        BY <3>1, <4>1, AttributesAdvance
      <4>3. /\ Ahead = Cardinality(Having(clean_html, "aria-label"))
            /\ Ahead' = Cardinality(Having(clean_html', "aria-label"))
        BY <3>4 DEF Ahead, Having
      <4> QED
        BY <3>4, <4>2, <4>3
    <3>5. CASE pass' # pass
      <4>1. \/ pass = "styles" /\ pass' = "labels"
            \/ pass = "labels" /\ pass' = "head"
        BY <3>1, <3>2, <3>5, RoundIs
      <4> QED
        BY <4>1, PassesInOrder
    <3> QED
      BY <3>2, <3>3, <3>4, <3>5
  <2>5. CASE MoveHeader
    BY <2>5, PassesInOrder DEF MoveHeader
  <2>6. CASE NextCaption
    <3>1. pass = "captions" /\ (pass' = "captions" \/ pass' = "table")
      BY <2>6 DEF NextCaption
    <3>2. CASE pass' = "captions"
      <4>1. /\ Len(clean_html') + 1 - caption_pos' \in Nat
            /\ Len(clean_html') + 1 - caption_pos' < Len(clean_html) + 1 - caption_pos
        BY <2>6, <3>1, <3>2, CaptionsAdvance
      <4>2. /\ Ahead = Len(clean_html) + 1 - caption_pos
            /\ Ahead' = Len(clean_html') + 1 - caption_pos'
        BY <3>1, <3>2 DEF Ahead
      <4> QED
        BY <3>1, <3>2, <4>1, <4>2
    <3> QED
      BY <3>1, <3>2, PassesInOrder
  <2>7. CASE FlattenTable
    BY <2>7, PassesInOrder DEF FlattenTable
  <2> QED
    BY <2>1, <2>2, <2>3, <2>4, <2>5, <2>6, <2>7 DEF ExtractNext
<1>2. [][Step]_extractVars => ExtractionAdvances
  BY PTL DEF ExtractionAdvances, PassOn
<1> QED
  BY <1>1, <1>2, ShapeAlways, PTL DEF ExtractSpec
=============================================================================
