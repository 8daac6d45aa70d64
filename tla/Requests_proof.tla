--------------------------- MODULE Requests_proof ---------------------------
(***************************************************************************)
(* What is proved of requests and of the editor, for logs and texts of any *)
(* length: which requests fail and with which message; what is displayed,  *)
(* and in which order; that completions fit, and stay; that help is about  *)
(* the place the cursor is at; that any cell can be completed.             *)
(*                                                                         *)
(* Failures and their messages hang on the first line that one or the      *)
(* other regular expression finds, the display on which of the graphs have *)
(* been dealt with, and the editor on that an answer is the one for the    *)
(* text as it is.                                                          *)
(***************************************************************************)
EXTENDS Requests, SequenceLemmas, SequenceTheorems, FiniteSetTheorems, WellFoundedInduction, TLAPS

FailureKinds == {"error", "coded", "lower"}
MessageKinds == {"error", "coded", "numbered", "benign", "dump"}

\* n is the first line of a log whose kind is one of `kinds', 0 if there is none.
IsFirst(n, lines, kinds) ==
  \/ n = 0 /\ \A i \in 1 .. Len(lines) : lines[i] \notin kinds
  \/ /\ n \in 1 .. Len(lines) /\ lines[n] \in kinds
     /\ \A i \in 1 .. n - 1 : lines[i] \notin kinds

\* What the handler knows at each of its stages.
LogJudged ==
  /\ log \in Seq(Kinds)
  /\ is_error = (Failure # 0)
  /\ error_message = IF is_error THEN MessageAt(log) ELSE 0

ShownSoFar ==
  /\ stage \in {"idle", "execute", "show"} => shown = <<>>
  /\ stage = "graphs" => ~is_error
  /\ stage \in {"answer", "answered"} /\ is_error /\ ~silent =>
       shown = <<[what |-> "stderr", lines |-> Colorized(log)]>>

ResponseMade ==
  IF stage = "answered"
  THEN response = IF is_error THEN [status |-> "error", evalue |-> error_message]
                  ELSE [status |-> "ok", evalue |-> 0]
  ELSE response = [status |-> "none", evalue |-> 0]

FailureInv ==
  /\ stage \in {"idle", "execute", "show", "graphs", "answer", "answered"}
  /\ silent \in BOOLEAN /\ is_error \in BOOLEAN
  /\ LogJudged /\ ShownSoFar /\ ResponseMade

-----------------------------------------------------------------------------
(***************************************************************************)
(* The search for the first line.                                          *)
(***************************************************************************)

LEMMA MinIsLeast ==
  ASSUME NEW S, S \subseteq Nat, S # {}
  PROVE  Min(S) \in S /\ \A y \in S : Min(S) <= y
<1>1. PICK x \in S : \A y \in S : ~(<<y, x>> \in OpToRel(<, Nat))
  BY NatLessThanWellFounded, WFMin
<1>2. \A y \in S : x <= y
  <2> TAKE y \in S
  <2>1. x \in Nat /\ y \in Nat
    OBVIOUS
  <2>2. ~(y < x)
    BY <1>1, <2>1 DEF OpToRel
  <2> QED
    BY <2>1, <2>2
<1> QED
  BY <1>2 DEF Min

LEMMA FirstOf ==
  ASSUME NEW lines \in Seq(Kinds), NEW kinds
  PROVE  LET I == {i \in 1 .. Len(lines) : lines[i] \in kinds}
         IN  IsFirst(IF I # {} THEN Min(I) ELSE 0, lines, kinds)
<1> DEFINE I == {i \in 1 .. Len(lines) : lines[i] \in kinds}
<1>1. Len(lines) \in Nat
  OBVIOUS
<1>2. CASE I = {}
  BY <1>2 DEF IsFirst
<1>3. CASE I # {}
  <2>0. I \subseteq Nat
    BY <1>1
  <2> HIDE DEF I
  <2>1. Min(I) \in I /\ \A y \in I : Min(I) <= y
    BY <1>3, <2>0, MinIsLeast
  <2> DEFINE m == Min(I)
  <2>2. m \in I /\ \A y \in I : m <= y
    BY <2>1
  <2> HIDE DEF m
  <2>3. m \in 1 .. Len(lines) /\ lines[m] \in kinds
    BY <2>2 DEF I
  <2>4. \A i \in 1 .. m - 1 : lines[i] \notin kinds
    <3> SUFFICES ASSUME NEW i \in 1 .. m - 1, lines[i] \in kinds PROVE FALSE
      OBVIOUS
    <3>1. i \in I
      BY <1>1, <2>3 DEF I
    <3> QED
      BY <1>1, <2>2, <2>3, <3>1
  <2> QED
    BY <1>3, <2>3, <2>4 DEF IsFirst, I, m
<1> QED
  BY <1>2, <1>3

LEMMA ErrorAtIsFirst ==
  ASSUME NEW lines \in Seq(Kinds)
  PROVE  IsFirst(ErrorAt(lines), lines, FailureKinds)
<1>1. {i \in 1 .. Len(lines) : Matches(lines[i]) /\ ~IsBenign(lines[i])} =
        {i \in 1 .. Len(lines) : lines[i] \in FailureKinds}
  BY DEF Matches, IsBenign, FailureKinds
<1> QED
  BY <1>1, FirstOf DEF ErrorAt, SelectInSeq

LEMMA MessageAtIsFirst ==
  ASSUME NEW lines \in Seq(Kinds)
  PROVE  IsFirst(MessageAt(lines), lines, MessageKinds)
<1>1. {i \in 1 .. Len(lines) : HasErrorText(lines[i])} =
        {i \in 1 .. Len(lines) : lines[i] \in MessageKinds}
  BY DEF HasErrorText, MessageKinds
<1> QED
  BY <1>1, FirstOf DEF MessageAt, SelectInSeq

LEMMA FailureIsFirst ==
  ASSUME log \in Seq(Kinds)
  PROVE  IsFirst(Failure, log, FailureKinds) /\ Failure = ErrorAt(log)
<1>1. {i \in 1 .. Len(log) : log[i] \in {"error", "coded", "lower"}} =
        {i \in 1 .. Len(log) : log[i] \in FailureKinds}
  BY DEF FailureKinds
<1>2. {i \in 1 .. Len(log) : Matches(log[i]) /\ ~IsBenign(log[i])} =
        {i \in 1 .. Len(log) : log[i] \in FailureKinds}
  BY DEF Matches, IsBenign, FailureKinds
<1> QED
  BY <1>1, <1>2, FirstOf DEF Failure, ErrorAt, SelectInSeq

\* The message of an error comes from that error, unless it is in lower case, or
\* from a line before it that only the second expression accepts.
LEMMA MessageOfFailure ==
  ASSUME log \in Seq(Kinds), Failure # 0
  PROVE  \/ MessageAt(log) = Failure
         \/ log[Failure] = "lower"
         \/ \E n \in 1 .. Failure - 1 :
              log[n] \in {"benign", "numbered", "dump"} /\ MessageAt(log) = n
<1> DEFINE F == Failure
           M == MessageAt(log)
<1>1. /\ F \in 1 .. Len(log) /\ log[F] \in FailureKinds
      /\ \A i \in 1 .. F - 1 : log[i] \notin FailureKinds
  BY FailureIsFirst DEF IsFirst
<1>2. IsFirst(M, log, MessageKinds)
  BY MessageAtIsFirst
<1> HIDE DEF F, M
<1>3. Len(log) \in Nat
  OBVIOUS
<1>4. CASE log[F] # "lower"
  <2>1. log[F] \in MessageKinds
    BY <1>1, <1>4 DEF FailureKinds, MessageKinds
  <2>2. M \in 1 .. Len(log) /\ log[M] \in MessageKinds /\ M <= F
    BY <1>1, <1>2, <1>3, <2>1 DEF IsFirst
  <2>3. CASE M = F
    BY <2>3 DEF F, M
  <2>4. CASE M # F
    <3>1. M \in 1 .. F - 1
      BY <1>1, <1>3, <2>2, <2>4
    <3>2. log[M] \in {"benign", "numbered", "dump"}
      BY <1>1, <2>2, <3>1 DEF FailureKinds, MessageKinds
    <3> QED
      BY <3>1, <3>2 DEF F, M
  <2> QED
    BY <2>3, <2>4
<1> QED
  BY <1>4 DEF F

-----------------------------------------------------------------------------
(***************************************************************************)
(* The invariant.                                                          *)
(***************************************************************************)

LEMMA EmptyLog ==
  ASSUME log = <<>>
  PROVE  log \in Seq(Kinds) /\ Failure = 0
<1>1. log \in Seq(Kinds) /\ Len(log) = 0
  OBVIOUS
<1> QED
  BY <1>1, FailureIsFirst DEF IsFirst

LEMMA SameLog ==
  ASSUME log' = log
  PROVE  /\ (log \in Seq(Kinds))' = (log \in Seq(Kinds))
         /\ Failure' = Failure
         /\ MessageAt(log)' = MessageAt(log)
         /\ Colorized(log)' = Colorized(log)
BY DEF Failure, MessageAt, SelectInSeq, Colorized

LEMMA FailureInit == RequestsInit => FailureInv
BY EmptyLog DEF RequestsInit, DisplayInit, FailureInv, LogJudged, ShownSoFar, ResponseMade

LEMMA FailureStep == FailureInv /\ [RequestsNext]_requestsVars => FailureInv'
<1> SUFFICES ASSUME FailureInv, [RequestsNext]_requestsVars
             PROVE  FailureInv'
  OBVIOUS
<1> USE DEF FailureInv, ShownSoFar, ResponseMade
<1>1. CASE UNCHANGED displayVars
  BY <1>1, SameLog DEF displayVars, LogJudged
<1>2. CASE Receive
  BY <1>2, SameLog DEF Receive, LogJudged
<1>3. CASE Result
  <2>1. log' \in Seq(Kinds)
    BY <1>3 DEF Result
  <2>2. (Failure = ErrorAt(log))'
    <3>1. {i \in 1 .. Len(log') : log'[i] \in {"error", "coded", "lower"}} =
            {i \in 1 .. Len(log') : Matches(log'[i]) /\ ~IsBenign(log'[i])}
      BY DEF Matches, IsBenign
    <3> QED
      BY <3>1 DEF Failure, ErrorAt, SelectInSeq
  <2>3. LogJudged'
    BY <1>3, <2>1, <2>2 DEF Result, LogJudged
  <2> QED
    BY <1>3, <2>3 DEF Result
<1>4. CASE ShowError
  <2>1. LogJudged'
    BY <1>4, SameLog DEF ShowError, LogJudged
  <2>2. Append(<<>>, [what |-> "stderr", lines |-> Colorized(log)]) =
          <<[what |-> "stderr", lines |-> Colorized(log)]>>
    OBVIOUS
  <2>3. ShownSoFar'
    BY <1>4, <2>2, SameLog DEF ShowError, Publish
  <2> QED
    BY <1>4, <2>1, <2>3 DEF ShowError
<1>5. CASE ShowResult
  BY <1>5, SameLog DEF ShowResult, LogJudged
<1>6. CASE DisplayGraph
  BY <1>6, SameLog DEF DisplayGraph, LogJudged
<1>7. CASE Respond
  BY <1>7, SameLog DEF Respond, LogJudged
<1>8. CASE NextCell
  <2>1. (log \in Seq(Kinds) /\ Failure = 0)'
    <3>1. log' = <<>> /\ Len(log') = 0
      BY <1>8 DEF NextCell
    <3>2. {i \in 1 .. Len(log') : log'[i] \in {"error", "coded", "lower"}} = {}
      BY <3>1
    <3> QED
      BY <3>1, <3>2 DEF Failure, SelectInSeq
  <2> QED
    BY <1>8, <2>1 DEF NextCell, LogJudged
<1> QED
  BY <1>1, <1>2, <1>3, <1>4, <1>5, <1>6, <1>7, <1>8
     DEF RequestsNext, Edit, Send, Serve, Handle, requestsVars

LEMMA FailureInvariant == RequestsSpec => []FailureInv
BY FailureInit, FailureStep, PTL DEF RequestsSpec

-----------------------------------------------------------------------------
\* The message of the reply comes from the error that made the request fail, or
\* from one of the lines before it that the other expression takes for an error,
\* unless the error is in lower case: for logs of any length.
THEOREM RequestsMessageFits == RequestsSpec => []MessageFits
<1>1. FailureInv => MessageFits
  <2> SUFFICES ASSUME FailureInv, response.status = "error" PROVE MessageFits
    BY DEF MessageFits
  <2>1. is_error /\ response.evalue = error_message
    BY DEF FailureInv, ResponseMade
  <2>2. log \in Seq(Kinds) /\ Failure # 0 /\ response.evalue = MessageAt(log)
    BY <2>1 DEF FailureInv, LogJudged
  <2> QED
    BY <2>2, MessageOfFailure DEF MessageFits
<1> QED
  BY <1>1, FailureInvariant, PTL

-----------------------------------------------------------------------------
(***************************************************************************)
(* What becomes of numbers one after the other.                            *)
(***************************************************************************)
\* What becomes of a number n, if it is one of R, of numbers in turn.
One(n, R, f) == IF n \in R THEN <<f[n]>> ELSE <<>>
Parts(ns, R, f) == [i \in 1 .. Len(ns) |-> One(ns[i], R, f)]
Each(ns, R, f) == FlattenSeq(Parts(ns, R, f))
Maps(N, T) == [N -> T]

LEMMA OneType ==
  ASSUME NEW N, NEW T, NEW f \in Maps(N, T), NEW R, NEW n \in N
  PROVE  One(n, R, f) \in Seq(T)
<1>1. f[n] \in T
  BY DEF Maps
<1> HIDE DEF One
<1> DEFINE e == f[n]
<1>2. <<e>> \in Seq(T) /\ <<>> \in Seq(T)
  <2> HIDE DEF e
  <2>1. e \in T
    BY <1>1 DEF e
  <2> QED
    BY <2>1
<1> QED
  BY <1>2 DEF One

LEMMA EachParts ==
  ASSUME NEW N, NEW T, NEW f \in Maps(N, T), NEW R, NEW ns \in Seq(N)
  PROVE  Parts(ns, R, f) \in Seq(Seq(T))
<1>1. Len(ns) \in Nat /\ \A i \in 1 .. Len(ns) : ns[i] \in N
  OBVIOUS
<1>2. \A i \in 1 .. Len(ns) : One(ns[i], R, f) \in Seq(T)
  BY <1>1, OneType
<1> QED
  BY <1>1, <1>2 DEF Parts

LEMMA EachType ==
  ASSUME NEW N, NEW T, NEW f \in Maps(N, T), NEW R, NEW ns \in Seq(N)
  PROVE  Each(ns, R, f) \in Seq(T)
<1> DEFINE parts == Parts(ns, R, f)
<1>1. parts \in Seq(Seq(T))
  BY EachParts
<1>2. Each(ns, R, f) = FlattenSeq(parts)
  BY DEF Each
<1> HIDE DEF parts
<1> QED
  BY <1>1, <1>2, FlattenType

LEMMA EachEmpty == \A R, f : Each(<<>>, R, f) = <<>>
<1> TAKE R, f
<1>1. Len(<<>>) = 0
  OBVIOUS
<1>2. [i \in 1 .. 0 |-> One(<<>>[i], R, f)] = <<>>
  OBVIOUS
<1> QED
  BY <1>1, <1>2, FlattenEmpty DEF Each, Parts

LEMMA EachAppend ==
  ASSUME NEW N, NEW T, NEW f \in Maps(N, T), NEW R, NEW ns \in Seq(N), NEW n \in N
  PROVE  Each(Append(ns, n), R, f) = Each(ns, R, f) \o One(n, R, f)
<1> DEFINE k == Len(ns)
           more == Append(ns, n)
           parts == [i \in 1 .. k |-> One(ns[i], R, f)]
           longer == [i \in 1 .. k + 1 |-> One(more[i], R, f)]
           o == One(n, R, f)
<1>1. k \in Nat /\ Len(more) = k + 1 /\ more[k + 1] = n /\ \A i \in 1 .. k : more[i] = ns[i]
  BY AppendProperties
<1>2. parts \in Seq(Seq(T)) /\ o \in Seq(T)
  <2>1. Parts(ns, R, f) \in Seq(Seq(T))
    BY EachParts
  <2> QED
    BY <2>1, OneType DEF Parts
<1>3. longer = Append(parts, o)
  <2>1. \A i \in 1 .. k : longer[i] = parts[i]
    BY <1>1
  <2>2. longer[k + 1] = o
    <3> DEFINE j == k + 1
    <3>1. j \in 1 .. k + 1 /\ more[j] = n
      BY <1>1
    <3> HIDE DEF j, more
    <3>2. longer[j] = o
      BY <3>1
    <3> QED
      BY <3>2 DEF j
  <2>3. Len(parts) = k
    BY <1>1
  <2>4. longer \in Seq(Seq(T)) /\ Len(longer) = k + 1
    <3>1. more \in Seq(N) /\ Len(more) = k + 1
      BY <1>1, AppendProperties
    <3> HIDE DEF more
    <3>2. Parts(more, R, f) \in Seq(Seq(T))
      BY <3>1, EachParts
    <3>3. longer \in Seq(Seq(T))
      BY <3>1, <3>2 DEF Parts
    <3> QED
      BY <1>1, <3>3
  <2> HIDE DEF longer, parts, o, k
  <2>5. /\ Append(parts, o) \in Seq(Seq(T)) /\ Len(Append(parts, o)) = Len(parts) + 1
        /\ \A i \in 1 .. Len(parts) : Append(parts, o)[i] = parts[i]
        /\ Append(parts, o)[Len(parts) + 1] = o
    BY <1>2, AppendProperties
  <2> DEFINE app == Append(parts, o)
  <2>6. /\ app \in Seq(Seq(T)) /\ Len(app) = k + 1
        /\ \A i \in 1 .. k : app[i] = parts[i]
        /\ app[k + 1] = o
    BY <2>3, <2>5
  <2> HIDE DEF app
  <2>7. \A i \in 1 .. k + 1 : longer[i] = app[i]
    <3> TAKE i \in 1 .. k + 1
    <3>1. i \in 1 .. k \/ i = k + 1
      BY <1>1
    <3> QED
      BY <3>1, <2>1, <2>2, <2>6
  <2>8. longer = app
    BY <2>4, <2>6, <2>7, SeqEqual
  <2> QED
    BY <2>8 DEF app
<1>4. FlattenSeq(Append(parts, o)) = FlattenSeq(parts) \o o
  <2> HIDE DEF parts, o
  <2> QED
    BY <1>2, FlattenAppend
<1>5. Each(more, R, f) = FlattenSeq(longer) /\ Each(ns, R, f) = FlattenSeq(parts)
  BY <1>1 DEF Each, Parts
<1> QED
  BY <1>3, <1>4, <1>5

\* To choose from what was chosen, if all of it had been.
LEMMA EachOfEach ==
  ASSUME NEW m \in Nat, NEW T, NEW f \in Maps(1 .. m, T), NEW S, NEW R \in SUBSET S,
         NEW ns \in Seq(1 .. m)
  PROVE  /\ Each(ns, S, [n \in 1 .. m |-> n]) \in Seq(1 .. m)
         /\ Each(Each(ns, S, [n \in 1 .. m |-> n]), R, f) = Each(ns, R, f)
<1> DEFINE N == 1 .. m
           id == [n \in N |-> n]
<1>0. id \in Maps(N, N) /\ f \in Maps(N, T) /\ ns \in Seq(N)
      /\ \A n \in N : id[n] = n
  BY DEF Maps
<1> HIDE DEF N, id
<1> DEFINE G == {u \in Seq(N) : Each(Each(u, S, id), R, f) = Each(u, R, f)}
<1>1. <<>> \in G
  <2>1. <<>> \in Seq(N)
    OBVIOUS
  <2> QED
    BY <2>1, EachEmpty
<1>2. \A u \in Seq(N), n \in N : u \in G => Append(u, n) \in G
  <2> SUFFICES ASSUME NEW u \in Seq(N), NEW n \in N, Each(Each(u, S, id), R, f) = Each(u, R, f)
               PROVE  Append(u, n) \in Seq(N)
                      /\ Each(Each(Append(u, n), S, id), R, f) = Each(Append(u, n), R, f)
    OBVIOUS
  <2> DEFINE c == Each(u, S, id)
  <2>1. c \in Seq(N)
    BY <1>0, EachType
  <2>2. Append(u, n) \in Seq(N)
    BY AppendProperties
  <2>7. u \in Seq(N) /\ n \in N /\ id \in Maps(N, N) /\ f \in Maps(N, T)
    BY <1>0
  <2>3. Each(Append(u, n), S, id) = c \o One(n, S, id)
    BY ONLY <2>7, EachAppend
  <2>8. Each(Append(u, n), R, f) = Each(u, R, f) \o One(n, R, f)
    BY ONLY <2>7, EachAppend
  <2>4. Each(Append(u, n), R, f) = Each(c, R, f) \o One(n, R, f)
    BY <2>8
  <2> HIDE DEF c
  <2>5. CASE n \in S
    <3>1. One(n, S, id) = <<n>>
      BY <1>0, <2>5 DEF One
    <3>2. c \o <<n>> = Append(c, n)
      BY <2>1, AppendIsConcat
    <3>3. Each(Append(c, n), R, f) = Each(c, R, f) \o One(n, R, f)
      BY ONLY <2>1, <2>7, EachAppend
    <3> QED
      BY <2>2, <2>3, <2>4, <3>1, <3>2, <3>3
  <2>6. CASE n \notin S
    <3>1. One(n, S, id) = <<>> /\ One(n, R, f) = <<>>
      BY <2>6 DEF One
    <3>2. c \o <<>> = c
      BY <2>1, ConcatEmptySeq
    <3>3. Each(c, R, f) \o <<>> = Each(c, R, f)
      <4>1. Each(c, R, f) \in Seq(T)
        BY <1>0, <2>1, EachType
      <4> QED
        BY <4>1, ConcatEmptySeq
    <3> QED
      BY <2>2, <2>3, <2>4, <3>1, <3>2, <3>3
  <2> QED
    BY <2>5, <2>6
<1> HIDE DEF G
<1>3. ns \in G
  BY <1>0, <1>1, <1>2, SeqInduction
<1>4. Each(ns, S, id) \in Seq(N)
  BY <1>0, EachType
<1> QED
  BY <1>3, <1>4 DEF G, N, id

-----------------------------------------------------------------------------
(***************************************************************************)
(* What is displayed, and what is still to be.                             *)
(***************************************************************************)
Colours == {"red", "yellow", "blue", "plain"}
MainWhats == {"stderr", "html", "listing", "stdout"}
Published ==
  [what : MainWhats \cup {"image", "path"}, lines : Seq(Nat) \cup Seq(Colours)]
GraphsPublished == {x \in Published : x.what \in {"image", "path"}}
MainsPublished == {x \in Published : x.what \in MainWhats}

GraphicLines(lines) == {n \in 1 .. Len(lines) : lines[n] \in {"png", "svg"}}

\* What is shown for each line of a log, if it names a graph.
GraphTable(lines) ==
  [n \in 1 .. Len(lines) |->
     [what |-> IF lines[n] = "svg" THEN "image" ELSE "path", lines |-> <<n>>]]

\* What is shown before the graphs.
MainOutput(lines, text_listing, text_html) ==
  IF text_html = "text" THEN <<[what |-> "html", lines |-> <<>>]>>
  ELSE IF text_listing = "text" THEN <<[what |-> "listing", lines |-> <<>>]>>
  ELSE IF text_listing = "markers" THEN <<>>
  ELSE IF lines = <<>> THEN <<>>
  ELSE <<[what |-> "stdout", lines |-> Colorized(lines)]>>

LEMMA GraphsAtEach ==
  ASSUME NEW lines \in Seq(Kinds)
  PROVE  LET m == Len(lines)
             id == [n \in 1 .. m |-> n]
         IN  GraphsAt(lines) = Each(id, GraphicLines(lines), id)
<1> DEFINE m == Len(lines)
           id == [n \in 1 .. m |-> n]
<1>1. m \in Nat /\ Len(id) = m /\ \A n \in 1 .. m : id[n] = n
  OBVIOUS
<1>2. [n \in 1 .. m |-> IF lines[n] \in {"png", "svg"} THEN <<n>> ELSE <<>>]
        = Parts(id, GraphicLines(lines), id)
  <2>1. \A n \in 1 .. m : n \in GraphicLines(lines) <=> lines[n] \in {"png", "svg"}
    BY DEF GraphicLines
  <2> HIDE DEF id, m
  <2> QED
    BY <1>1, <2>1 DEF Parts, One
<1> QED
  BY <1>2 DEF GraphsAt, Each

LEMMA GraphsAtType ==
  ASSUME NEW lines \in Seq(Kinds)
  PROVE  /\ GraphsAt(lines) \in Seq(1 .. Len(lines))
         /\ ToSet(GraphsAt(lines)) \subseteq GraphicLines(lines)
<1> DEFINE m == Len(lines)
           N == 1 .. m
           G == GraphicLines(lines)
           parts == [n \in N |-> IF lines[n] \in {"png", "svg"} THEN <<n>> ELSE <<>>]
           all == GraphsAt(lines)
<1>1. m \in Nat /\ G \subseteq N
  BY DEF GraphicLines
<1>2. parts \in Seq(Seq(G))
  <2>1. \A n \in N : (IF lines[n] \in {"png", "svg"} THEN <<n>> ELSE <<>>) \in Seq(G)
    <3> TAKE n \in N
    <3>1. CASE lines[n] \in {"png", "svg"}
      <4>1. n \in G
        BY <3>1 DEF GraphicLines
      <4> HIDE DEF G
      <4>2. <<n>> \in Seq(G)
        BY <4>1
      <4> QED
        BY <3>1, <4>2
    <3>2. CASE lines[n] \notin {"png", "svg"}
      BY <3>2
    <3> QED
      BY <3>1, <3>2
  <2> HIDE DEF G
  <2> QED
    BY <1>1, <2>1
<1>3. all = FlattenSeq(parts)
  BY DEF GraphsAt
<1> HIDE DEF parts, G, all
<1>4. all \in Seq(G)
  BY <1>2, <1>3, FlattenType
<1>5. all \in Seq(N)
  BY <1>1, <1>4, SeqMonotonic
<1>6. ToSet(all) \subseteq G
  BY <1>4 DEF ToSet
<1> QED
  BY <1>5, <1>6 DEF G, all

LEMMA GraphTableType ==
  ASSUME NEW lines \in Seq(Kinds)
  PROVE  /\ GraphTable(lines) \in Maps(1 .. Len(lines), GraphsPublished)
         /\ GraphTable(lines) \in Maps(1 .. Len(lines), Published)
<1> DEFINE g(n) == [what |-> IF lines[n] = "svg" THEN "image" ELSE "path", lines |-> <<n>>]
<1>1. \A n \in 1 .. Len(lines) : g(n) \in GraphsPublished /\ g(n) \in Published
  <2> TAKE n \in 1 .. Len(lines)
  <2>1. <<n>> \in Seq(Nat)
    OBVIOUS
  <2> DEFINE w == IF lines[n] = "svg" THEN "image" ELSE "path"
             l == <<n>>
  <2>2. w \in {"image", "path"} /\ l \in Seq(Nat)
    BY <2>1
  <2> HIDE DEF w, l
  <2>3. [what |-> w, lines |-> l] \in Published
    BY <2>2 DEF Published
  <2>4. [what |-> w, lines |-> l].what \in {"image", "path"}
    BY <2>2
  <2>5. [what |-> w, lines |-> l] \in GraphsPublished
    BY <2>3, <2>4 DEF GraphsPublished
  <2> QED
    BY <2>3, <2>5 DEF w, l
<1> QED
  BY <1>1 DEF GraphTable, Maps

LEMMA ColorizedType ==
  ASSUME NEW lines \in Seq(Kinds)
  PROVE  Colorized(lines) \in Seq(Colours)
<1>1. \A k : Colour(k) \in Colours
  BY DEF Colour, Colours
<1>2. DOMAIN lines = 1 .. Len(lines) /\ Len(lines) \in Nat
  OBVIOUS
<1> QED
  BY <1>1, <1>2 DEF Colorized

\* The main output is one output at most, and never a graph.
LEMMA MainOutputType ==
  ASSUME NEW lines \in Seq(Kinds), NEW text_listing, NEW text_html
  PROVE  LET main == MainOutput(lines, text_listing, text_html)
         IN  /\ main \in Seq(MainsPublished) /\ main \in Seq(Published)
             /\ main = <<>> \/ \E x \in MainsPublished : main = <<x>>
<1> DEFINE main == MainOutput(lines, text_listing, text_html)
<1>1. \A w \in MainWhats, l \in Seq(Nat) \cup Seq(Colours) :
        [what |-> w, lines |-> l] \in MainsPublished
  BY DEF MainsPublished, Published
<1>2. <<>> \in Seq(Nat) /\ Colorized(lines) \in Seq(Colours)
  BY ColorizedType
<1>3. /\ [what |-> "html", lines |-> <<>>] \in MainsPublished
      /\ [what |-> "listing", lines |-> <<>>] \in MainsPublished
      /\ [what |-> "stdout", lines |-> Colorized(lines)] \in MainsPublished
  BY <1>1, <1>2 DEF MainWhats
<1>4. main = <<>> \/ \E x \in MainsPublished : main = <<x>>
  BY <1>3 DEF MainOutput
<1> HIDE DEF main
<1>5. main \in Seq(MainsPublished)
  <2>1. \A M : \A x \in M : <<x>> \in Seq(M)
    OBVIOUS
  <2>2. \A M : <<>> \in Seq(M)
    OBVIOUS
  <2> QED
    BY <1>4, <2>1, <2>2
<1>6. MainsPublished \subseteq Published
  BY DEF MainsPublished
<1>7. main \in Seq(Published)
  BY <1>5, <1>6, SeqMonotonic
<1> QED
  BY <1>4, <1>5, <1>7 DEF main

ShownWith(lines, text_listing, text_html, r, done) ==
  MainOutput(lines, text_listing, text_html) \o Each(done, r, GraphTable(lines))

\* Some of the graphs have been dealt with, the others are still to come.
SomeShown ==
  \E done \in Seq(1 .. Len(log)) :
    /\ done \o graph_files = GraphsAt(log)
    /\ shown = ShownWith(log, listing, html, readable, done)

GraphsInv ==
  /\ log \in Seq(Kinds) /\ Len(log) <= MaxLines /\ listing \in Listings /\ html \in Htmls
  /\ readable \subseteq GraphicLines(log) /\ graph_files \in Seq(1 .. Len(log))
  /\ stage = "show" => graph_files = GraphsAt(log)
  /\ silent => shown = <<>>
  /\ stage = "graphs" => ~silent /\ SomeShown
  /\ stage \in {"answer", "answered"} /\ ~is_error /\ ~silent =>
       shown = ShownWith(log, listing, html, readable, GraphsAt(log))

LEMMA GraphsInit == RequestsInit => GraphsInv
<1> SUFFICES ASSUME RequestsInit PROVE GraphsInv
  OBVIOUS
<1>1. log = <<>> /\ graph_files = <<>> /\ readable = {} /\ shown = <<>> /\ stage = "idle"
      /\ listing \in Listings /\ html \in Htmls
  BY DEF RequestsInit, DisplayInit, Listings, Htmls
<1>2. log \in Seq(Kinds) /\ Len(log) <= MaxLines /\ graph_files \in Seq(1 .. Len(log))
  BY <1>1, DisplayAssumption
<1> QED
  BY <1>1, <1>2 DEF GraphsInv

LEMMA GraphsSame ==
  ASSUME GraphsInv,
         UNCHANGED <<log, listing, html, readable, is_error>>
  PROVE  /\ (log \in Seq(Kinds) /\ Len(log) <= MaxLines /\ listing \in Listings /\ html \in Htmls)'
         /\ (readable \subseteq GraphicLines(log))'
         /\ GraphsAt(log)' = GraphsAt(log)
         /\ \A done : ShownWith(log, listing, html, readable, done)' =
                      ShownWith(log, listing, html, readable, done)
         /\ UNCHANGED <<graph_files, shown>> => (SomeShown' <=> SomeShown)
BY DEF GraphsInv, GraphsAt, GraphicLines, ShownWith, SomeShown

\* The first output, with no graph shown yet.
LEMMA FirstShown ==
  ASSUME FailureInv, GraphsInv, ShowResult, ~silent
  PROVE  shown' = ShownWith(log, listing, html, readable, <<>>)
<1> DEFINE main == MainOutput(log, listing, html)
<1>1. shown = <<>> /\ ~is_error /\ log \in Seq(Kinds)
      /\ listing \in {"blank", "markers", "text"}
  BY DEF ShowResult, FailureInv, ShownSoFar, GraphsInv, Listings
<1>2. \A x : Append(<<>>, x) = <<x>>
  OBVIOUS
<1>3. shown' = main
  <2>1. CASE ShowHtml
    BY <1>1, <1>2, <2>1 DEF ShowHtml, HasHtml, Publish, MainOutput
  <2>2. CASE ShowListing
    BY <1>1, <1>2, <2>2 DEF ShowListing, HasHtml, ShouldShowListing, Publish, MainOutput
  <2>3. CASE ShowLog
    BY <1>1, <1>2, <2>3 DEF ShowLog, HasHtml, ShouldShowListing, Publish, MainOutput
  <2> QED
    BY <2>1, <2>2, <2>3 DEF ShowResult
<1>4. main \in Seq(Published)
  BY <1>1, MainOutputType
<1> HIDE DEF main
<1>5. main \o <<>> = main
  BY <1>4, ConcatEmptySeq
<1> QED
  BY <1>3, <1>5, EachEmpty DEF ShownWith, main

\* One graph more has been dealt with.
LEMMA OneMore ==
  ASSUME GraphsInv, NEW done \in Seq(1 .. Len(log)), done \o graph_files = GraphsAt(log),
         graph_files # <<>>, shown = ShownWith(log, listing, html, readable, done)
  PROVE  LET n == Head(graph_files)
             more == Append(done, n)
         IN  /\ more \in Seq(1 .. Len(log)) /\ Tail(graph_files) \in Seq(1 .. Len(log))
             /\ more \o Tail(graph_files) = GraphsAt(log)
             /\ ShownWith(log, listing, html, readable, more) =
                  IF n \in readable THEN Append(shown, Graph(n)) ELSE shown
<1> DEFINE N == 1 .. Len(log)
           n == Head(graph_files)
           t == Tail(graph_files)
           more == Append(done, n)
           f == GraphTable(log)
           main == MainOutput(log, listing, html)
           e == Each(done, readable, f)
           g == Graph(n)
<1>1. graph_files \in Seq(N) /\ log \in Seq(Kinds)
  BY DEF GraphsInv
<1>2. f \in Maps(N, Published) /\ main \in Seq(Published)
  BY <1>1, GraphTableType, MainOutputType
<1>3. done \in Seq(N)
  OBVIOUS
<1>4. \A m \in N : f[m] = Graph(m)
  BY DEF GraphTable, Graph
<1> HIDE DEF N, f, main
<1>5. n \in N /\ t \in Seq(N)
  BY <1>1, HeadTailProperties
<1>6. graph_files = <<n>> \o t
  BY <1>1, HeadFirst
<1> HIDE DEF n, t
<1>7. more \in Seq(N) /\ more = done \o <<n>> /\ <<n>> \in Seq(N)
  BY <1>3, <1>5, AppendProperties, AppendIsConcat
<1>8. more \o t = done \o graph_files
  <2> DEFINE one == <<n>>
  <2>1. done \in Seq(N) /\ one \in Seq(N) /\ t \in Seq(N)
    BY <1>3, <1>5, <1>7
  <2> HIDE DEF one
  <2>2. (done \o one) \o t = done \o (one \o t)
    BY ONLY <2>1, Associative
  <2> QED
    BY <1>6, <1>7, <2>2 DEF one
<1>9. Each(more, readable, f) = e \o One(n, readable, f)
  BY <1>2, <1>3, <1>5, EachAppend
<1>10. e \in Seq(Published) /\ g \in Published
  <2>1. e \in Seq(Published)
    BY <1>2, <1>3, EachType
  <2>2. g = f[n] /\ f[n] \in Published
    BY <1>2, <1>4, <1>5 DEF Maps
  <2> QED
    BY <2>1, <2>2
<1>11. shown = main \o e
  BY DEF ShownWith, main, f
<1>12. main \o Each(more, readable, f) = IF n \in readable THEN Append(shown, g) ELSE shown
  <2> HIDE DEF e, g
  <2>1. CASE n \in readable
    <3> DEFINE one == <<g>>
    <3>1. One(n, readable, f) = one
      BY <1>4, <1>5, <2>1 DEF One, g
    <3>2. main \in Seq(Published) /\ e \in Seq(Published) /\ one \in Seq(Published)
      BY <1>2, <1>10
    <3>3. Append(shown, g) = shown \o one
      <4>1. shown \in Seq(Published)
        BY <1>11, <3>2, ConcatProperties
      <4> QED
        BY <1>10, <4>1, AppendIsConcat
    <3> HIDE DEF one
    <3>4. (main \o e) \o one = main \o (e \o one)
      BY ONLY <3>2, Associative
    <3> QED
      BY <1>9, <1>11, <2>1, <3>1, <3>3, <3>4
  <2>2. CASE n \notin readable
    <3>1. One(n, readable, f) = <<>>
      BY <2>2 DEF One
    <3>2. e \o <<>> = e
      BY <1>10, ConcatEmptySeq
    <3> QED
      BY <1>9, <1>11, <2>2, <3>1, <3>2
  <2> QED
    BY <2>1, <2>2
<1> QED
  BY <1>5, <1>7, <1>8, <1>12 DEF ShownWith, N, n, t, f, main, g

LEMMA GraphsStep == FailureInv /\ GraphsInv /\ [RequestsNext]_requestsVars => GraphsInv'
<1> SUFFICES ASSUME FailureInv, GraphsInv, [RequestsNext]_requestsVars
             PROVE  GraphsInv'
  OBVIOUS
<1>1. CASE UNCHANGED displayVars
  <2>1. GraphsInv
    OBVIOUS
  <2> QED
    BY <1>1, <2>1, GraphsSame DEF GraphsInv, displayVars
<1>2. CASE Receive
  BY <1>2, GraphsSame DEF GraphsInv, Receive, FailureInv, ShownSoFar
<1>3. CASE Result
  <2>1. log' \in Seq(Kinds) /\ Len(log') <= MaxLines
    <3>1. PICK n \in 0 .. MaxLines : log' \in [1 .. n -> Kinds]
      BY <1>3 DEF Result
    <3> QED
      BY <3>1, DisplayAssumption
  <2>2. GraphsAt(log') \in Seq(1 .. Len(log')) /\ ToSet(GraphsAt(log')) \subseteq GraphicLines(log')
    BY <2>1, GraphsAtType
  <2>3. graph_files' = GraphsAt(log') /\ readable' \subseteq ToSet(graph_files')
    BY <1>3 DEF Result
  <2>4. shown' = <<>> /\ stage' = "show" /\ listing' \in Listings /\ html' \in Htmls
    BY <1>3 DEF Result, FailureInv, ShownSoFar
  <2>5. readable' \subseteq GraphicLines(log') /\ graph_files' \in Seq(1 .. Len(log'))
    BY <2>2, <2>3
  <2> QED
    BY <2>1, <2>3, <2>4, <2>5 DEF GraphsInv
<1>4. CASE ShowError
  <2>1. UNCHANGED <<log, listing, html, readable, is_error, silent, graph_files>>
        /\ stage' = "answer" /\ is_error /\ (silent => shown' = shown)
    BY <1>4 DEF ShowError
  <2> QED
    BY <2>1, GraphsSame DEF GraphsInv
<1>5. CASE ShowResult
  <2>1. UNCHANGED <<log, listing, html, readable, is_error, silent, graph_files>>
        /\ stage = "show" /\ ~is_error
    BY <1>5 DEF ShowResult
  <2>2. CASE silent
    <3>1. stage' = "answer" /\ shown' = shown
      BY <1>5, <2>2 DEF ShowResult
    <3> QED
      BY <2>1, <2>2, <3>1, GraphsSame DEF GraphsInv
  <2>3. CASE ~silent
    <3>1. stage' = "graphs"
      BY <1>5, <2>3 DEF ShowResult
    <3>2. shown' = ShownWith(log, listing, html, readable, <<>>)
      BY <1>5, <2>3, FirstShown
    <3>3. <<>> \in Seq(1 .. Len(log)) /\ <<>> \o graph_files = graph_files
      <4>1. graph_files \in Seq(1 .. Len(log))
        BY DEF GraphsInv
      <4> QED
        BY <4>1, ConcatEmptySeq
    <3>4. SomeShown'
      <4>1. graph_files' = GraphsAt(log')
        BY <2>1, GraphsSame DEF GraphsInv
      <4> QED
        BY <2>1, <3>2, <3>3, <4>1, GraphsSame DEF SomeShown
    <3> QED
      BY <2>1, <2>3, <3>1, <3>4, GraphsSame DEF GraphsInv
  <2> QED
    BY <2>2, <2>3
<1>6. CASE DisplayGraph
  <2>1. UNCHANGED <<log, listing, html, readable, is_error, silent>>
        /\ stage = "graphs" /\ ~is_error /\ ~silent
    BY <1>6 DEF DisplayGraph, FailureInv, ShownSoFar, GraphsInv
  <2>2. PICK done \in Seq(1 .. Len(log)) :
          /\ done \o graph_files = GraphsAt(log)
          /\ shown = ShownWith(log, listing, html, readable, done)
    BY <2>1 DEF GraphsInv, SomeShown
  <2>3. CASE graph_files = <<>>
    <3>1. stage' = "answer" /\ graph_files' = graph_files /\ shown' = shown
      BY <1>6, <2>3 DEF DisplayGraph
    <3>2. done = GraphsAt(log)
      BY <2>2, <2>3, ConcatEmptySeq
    <3>3. shown' = ShownWith(log, listing, html, readable, GraphsAt(log))'
      BY <2>1, <2>2, <3>1, <3>2, GraphsSame
    <3> QED
      BY <2>1, <3>1, <3>3, GraphsSame DEF GraphsInv
  <2>4. CASE graph_files # <<>>
    <3> DEFINE n == Head(graph_files)
               more == Append(done, n)
               t == Tail(graph_files)
               s == ShownWith(log, listing, html, readable, more)
    <3>1. /\ more \in Seq(1 .. Len(log)) /\ t \in Seq(1 .. Len(log))
          /\ more \o t = GraphsAt(log)
          /\ s = IF n \in readable THEN Append(shown, Graph(n)) ELSE shown
      BY <2>2, <2>4, OneMore
    <3>2. stage' = stage /\ graph_files' = t /\ shown' = s
      BY <1>6, <2>4, <3>1 DEF DisplayGraph, AfterUnreadable, Publish
    <3> HIDE DEF s, t, more
    <3>3. SomeShown'
      <4>1. more \in Seq(1 .. Len(log'))
            /\ more \o graph_files' = GraphsAt(log')
            /\ shown' = ShownWith(log', listing', html', readable', more)
        BY <2>1, <3>1, <3>2, GraphsSame DEF s
      <4> QED
        BY <4>1 DEF SomeShown
    <3> QED
      BY <2>1, <3>1, <3>2, <3>3, GraphsSame DEF GraphsInv
  <2> QED
    BY <2>3, <2>4
<1>7. CASE Respond
  BY <1>7, GraphsSame DEF GraphsInv, Respond
<1>8. CASE NextCell
  <2>1. log' = <<>> /\ graph_files' = <<>> /\ readable' = {} /\ shown' = <<>> /\ stage' = "idle"
        /\ listing' \in Listings /\ html' \in Htmls
    BY <1>8 DEF NextCell, Listings, Htmls
  <2>2. log' \in Seq(Kinds) /\ Len(log') <= MaxLines /\ graph_files' \in Seq(1 .. Len(log'))
    BY <2>1, DisplayAssumption
  <2> QED
    BY <2>1, <2>2 DEF GraphsInv
<1> QED
  BY <1>1, <1>2, <1>3, <1>4, <1>5, <1>6, <1>7, <1>8
     DEF RequestsNext, Edit, Send, Serve, Handle, requestsVars

LEMMA GraphsInvariant == RequestsSpec => [](FailureInv /\ GraphsInv)
<1>1. RequestsInit => FailureInv /\ GraphsInv
  BY FailureInit, GraphsInit
<1>2. FailureInv /\ GraphsInv /\ [RequestsNext]_requestsVars => (FailureInv /\ GraphsInv)'
  BY FailureStep, GraphsStep
<1> QED
  BY <1>1, <1>2, PTL DEF RequestsSpec

\* What was shown, once there is an answer.
LEMMA ShownType ==
  ASSUME FailureInv, GraphsInv
  PROVE  shown \in Seq(Published)
<1>0. log \in Seq(Kinds)
  BY DEF GraphsInv
<1>1. \A done \in Seq(1 .. Len(log)) :
        ShownWith(log, listing, html, readable, done) \in Seq(Published)
  <2> TAKE done \in Seq(1 .. Len(log))
  <2> DEFINE main == MainOutput(log, listing, html)
             e == Each(done, readable, GraphTable(log))
  <2>1. main \in Seq(Published)
    BY <1>0, MainOutputType
  <2>2. GraphTable(log) \in Maps(1 .. Len(log), Published)
    BY <1>0, GraphTableType
  <2>3. e \in Seq(Published)
    BY <2>2, EachType
  <2> HIDE DEF main, e
  <2>4. main \o e \in Seq(Published)
    BY <2>1, <2>3, ConcatProperties
  <2> QED
    BY <2>4 DEF ShownWith, main, e
<1>2. GraphsAt(log) \in Seq(1 .. Len(log))
  BY <1>0, GraphsAtType
<1>3. CASE silent \/ stage \in {"idle", "execute", "show"}
  <2>1. shown = <<>>
    BY <1>3 DEF GraphsInv, FailureInv, ShownSoFar
  <2> QED
    BY <2>1
<1>4. CASE stage = "graphs"
  BY <1>1, <1>4 DEF GraphsInv, SomeShown
<1>5. CASE stage \in {"answer", "answered"} /\ ~is_error /\ ~silent
  BY <1>1, <1>2, <1>5 DEF GraphsInv
<1>6. CASE stage \in {"answer", "answered"} /\ is_error /\ ~silent
  <2> DEFINE x == [what |-> "stderr", lines |-> Colorized(log)]
  <2>1. x \in Published
    BY <1>0, ColorizedType DEF Published, MainWhats
  <2>2. shown = <<x>>
    BY <1>6 DEF FailureInv, ShownSoFar
  <2> HIDE DEF x
  <2> QED
    BY <2>1, <2>2
<1> QED
  BY <1>3, <1>4, <1>5, <1>6 DEF FailureInv

LEMMA DisplayTypes ==
  ASSUME FailureInv, GraphsInv
  PROVE  DisplayTypeOK
<1>1. log \in Seq(Kinds) /\ Len(log) \in Nat /\ DOMAIN log = 1 .. Len(log) /\ Len(log) <= MaxLines
  BY DEF GraphsInv
<1>2. MessageAt(log) \in 0 .. Len(log)
  <2>1. IsFirst(MessageAt(log), log, MessageKinds)
    BY <1>1, MessageAtIsFirst
  <2> QED
    BY <1>1, <2>1 DEF IsFirst
<1>3. error_message \in 0 .. Len(log)
  BY <1>1, <1>2 DEF FailureInv, LogJudged
<1>4. readable \subseteq DOMAIN log
  BY <1>1 DEF GraphsInv, GraphicLines
<1>5. ToSet(graph_files) \subseteq DOMAIN log
  <2>1. graph_files \in Seq(1 .. Len(log))
    BY DEF GraphsInv
  <2>2. \A N : \A s \in Seq(N) : \A i \in DOMAIN s : s[i] \in N
    OBVIOUS
  <2> QED
    BY <1>1, <2>1, <2>2 DEF ToSet
<1>6. \A i \in DOMAIN shown : shown[i].what \in MainWhats \cup {"image", "path"}
  <2>1. shown \in Seq(Published)
    BY ShownType
  <2>2. \A N : \A s \in Seq(N) : \A i \in DOMAIN s : s[i] \in N
    OBVIOUS
  <2>3. \A x \in Published : x.what \in MainWhats \cup {"image", "path"}
    BY DEF Published
  <2> QED
    BY <2>1, <2>2, <2>3
<1>7. response \in [status : {"none", "ok", "error"}, evalue : 0 .. MaxLines]
  <2>1. 0 \in 0 .. MaxLines /\ error_message \in 0 .. MaxLines
    BY <1>1, <1>3, DisplayAssumption
  <2> QED
    BY <2>1 DEF FailureInv, ResponseMade
<1> QED
  BY <1>1, <1>3, <1>4, <1>5, <1>6, <1>7
     DEF DisplayTypeOK, FailureInv, GraphsInv, MainWhats

\* The graphs that are shown are those of the log that can be read.
LEMMA ReadableAreShown ==
  ASSUME GraphsInv
  PROVE  Each(GraphsAt(log), readable, GraphTable(log)) = ReadableGraphs
<1> DEFINE m == Len(log)
           N == 1 .. m
           id == [n \in N |-> n]
           f == GraphTable(log)
           S == GraphicLines(log)
<1>1. log \in Seq(Kinds) /\ readable \subseteq S /\ m \in Nat
  BY DEF GraphsInv
<1>2. GraphsAt(log) = Each(id, S, id)
  BY <1>1, GraphsAtEach
<1>3. f \in Maps(N, Published)
  BY <1>1, GraphTableType
<1>4. id \in Seq(N) /\ Len(id) = m /\ \A n \in N : id[n] = n
  BY <1>1
<1> HIDE DEF f, S
<1>5. Each(Each(id, S, id), readable, f) = Each(id, readable, f)
  <2>1. m \in Nat /\ f \in Maps(1 .. m, Published) /\ readable \in SUBSET S /\ id \in Seq(1 .. m)
    BY <1>1, <1>3, <1>4
  <2> HIDE DEF m
  <2> QED
    BY ONLY <2>1, EachOfEach
<1>6. Each(id, readable, f) = ReadableGraphs
  <2>1. \A n \in N : f[n] = Graph(n)
    BY DEF f, GraphTable, Graph
  <2> HIDE DEF N, id, f
  <2>2. Parts(id, readable, f) = [n \in 1 .. m |-> IF n \in readable THEN <<Graph(n)>> ELSE <<>>]
    <3>1. \A n \in 1 .. m : One(id[n], readable, f) =
                              IF n \in readable THEN <<Graph(n)>> ELSE <<>>
      BY <1>4, <2>1 DEF One, N
    <3> QED
      BY <1>4, <3>1 DEF Parts
  <2> QED
    BY <2>2 DEF Each, ReadableGraphs
<1> QED
  BY <1>2, <1>5, <1>6 DEF f

\* What is shown in the end: one main output at most, then the graphs.
LEMMA WhatIsShown ==
  ASSUME FailureInv, GraphsInv, stage = "answered", ~is_error, ~silent
  PROVE  LET main == MainOutput(log, listing, html)
         IN  /\ shown = main \o ReadableGraphs
             /\ main = <<>> \/ \E x \in MainsPublished : main = <<x>>
             /\ main \in Seq(Published)
             /\ ReadableGraphs \in Seq(Published) /\ ReadableGraphs \in Seq(GraphsPublished)
<1> DEFINE e == Each(GraphsAt(log), readable, GraphTable(log))
<1>0. log \in Seq(Kinds)
  BY DEF GraphsInv
<1>1. shown = MainOutput(log, listing, html) \o e
  BY DEF GraphsInv, ShownWith
<1>2. /\ GraphTable(log) \in Maps(1 .. Len(log), GraphsPublished)
      /\ GraphTable(log) \in Maps(1 .. Len(log), Published)
      /\ GraphsAt(log) \in Seq(1 .. Len(log))
  BY <1>0, GraphTableType, GraphsAtType
<1>3. e \in Seq(Published) /\ e \in Seq(GraphsPublished)
  BY <1>2, EachType
<1>4. e = ReadableGraphs
  BY ReadableAreShown
<1> HIDE DEF e
<1> QED
  BY <1>0, <1>1, <1>3, <1>4, MainOutputType

LEMMA OneMainFollows ==
  ASSUME FailureInv, GraphsInv
  PROVE  OneMainOutput
<1> SUFFICES ASSUME response.status # "none", ~silent
             PROVE  /\ \A i, j \in Main : i = j
                    /\ Main = {} =>
                         html # "text"
                           /\ (listing = "markers" \/ (log = <<>> /\ listing = "blank"))
                    /\ \A i \in Main : shown[i].what = "html" => html = "text"
  BY DEF OneMainOutput, GraphsInv
<1>1. stage = "answered"
  BY DEF FailureInv, ResponseMade
<1>2. CASE is_error
  <2> DEFINE x == [what |-> "stderr", lines |-> Colorized(log)]
  <2>1. shown = <<x>>
    BY <1>1, <1>2 DEF FailureInv, ShownSoFar
  <2>2. Main = {1} /\ shown[1].what = "stderr"
    BY <2>1 DEF Main
  <2> QED
    BY <2>2
<1>3. CASE ~is_error
  <2> DEFINE main == MainOutput(log, listing, html)
             g == ReadableGraphs
  <2>1. /\ shown = main \o g
        /\ main = <<>> \/ \E x \in MainsPublished : main = <<x>>
        /\ main \in Seq(Published) /\ g \in Seq(Published) /\ g \in Seq(GraphsPublished)
    BY <1>1, <1>3, WhatIsShown
  <2>2. \A i \in 1 .. Len(g) : g[i] \in GraphsPublished
    BY <2>1
  <2>3. \A i \in 1 .. Len(g) : g[i].what \in {"image", "path"}
    BY <2>2 DEF GraphsPublished
  <2>4. /\ main = <<>> =>
             html # "text" /\ (listing = "markers" \/ (log = <<>> /\ listing = "blank"))
        /\ main # <<>> /\ main[1].what = "html" => html = "text"
    BY DEF MainOutput, GraphsInv, Listings
  <2> HIDE DEF main, g
  <2>5. /\ Len(shown) = Len(main) + Len(g) /\ Len(main) \in Nat /\ Len(g) \in Nat
        /\ \A i \in 1 .. Len(main) + Len(g) :
             shown[i] = IF i <= Len(main) THEN main[i] ELSE g[i - Len(main)]
    BY <2>1, ConcatProperties
  <2>6. DOMAIN shown = 1 .. Len(main) + Len(g)
    <3>1. shown \in Seq(Published)
      BY ShownType
    <3> QED
      BY <2>5, <3>1
  <2>7. \A i \in Main : i \in 1 .. Len(main)
    <3> SUFFICES ASSUME NEW i \in Main, i \notin 1 .. Len(main) PROVE FALSE
      OBVIOUS
    <3>1. i \in 1 .. Len(main) + Len(g) /\ shown[i].what \notin {"image", "path"}
      BY <2>6 DEF Main
    <3> DEFINE j == i - Len(main)
    <3>2. j \in 1 .. Len(g) /\ shown[i] = g[j]
      BY <2>5, <3>1
    <3> HIDE DEF j
    <3> QED
      BY <2>3, <3>1, <3>2
  <2>8. CASE main = <<>>
    <3>1. Len(main) = 0
      BY <2>8
    <3>2. Main = {}
      BY <2>7, <3>1
    <3> QED
      BY <2>4, <2>8, <3>2
  <2>9. CASE main # <<>>
    <3>1. PICK x \in MainsPublished : main = <<x>>
      BY <2>1, <2>9
    <3>2. Len(main) = 1 /\ main[1] = x /\ x.what \in MainWhats
      BY <3>1 DEF MainsPublished
    <3>3. 1 \in DOMAIN shown /\ shown[1] = main[1]
      BY <2>5, <2>6, <3>2
    <3>4. shown[1].what \notin {"image", "path"}
      BY <3>2, <3>3 DEF MainWhats
    <3>5. Main = {1}
      BY <2>7, <3>2, <3>3, <3>4 DEF Main
    <3> QED
      BY <2>4, <2>9, <3>3, <3>5
  <2> QED
    BY <2>8, <2>9
<1> QED
  BY <1>2, <1>3

LEMMA InOrderFollows ==
  ASSUME FailureInv, GraphsInv
  PROVE  GraphsInOrder
<1> SUFFICES ASSUME response.status = "ok", ~silent
             PROVE  \/ shown = ReadableGraphs
                    \/ shown # <<>> /\ 1 \in Main /\ Tail(shown) = ReadableGraphs
  BY DEF GraphsInOrder
<1>1. stage = "answered" /\ ~is_error
  BY DEF FailureInv, ResponseMade
<1> DEFINE main == MainOutput(log, listing, html)
           g == ReadableGraphs
<1>2. /\ shown = main \o g
      /\ main = <<>> \/ \E x \in MainsPublished : main = <<x>>
      /\ main \in Seq(Published) /\ g \in Seq(Published)
  BY <1>1, WhatIsShown
<1> HIDE DEF main, g
<1>3. CASE main = <<>>
  <2>1. shown = g
    BY <1>2, <1>3, ConcatEmptySeq
  <2> QED
    BY <2>1 DEF g
<1>4. CASE main # <<>>
  <2>1. PICK x \in MainsPublished : main = <<x>>
    BY <1>2, <1>4
  <2>2. x \in Published /\ x.what \in MainWhats /\ Len(main) = 1 /\ main[1] = x
    BY <2>1 DEF MainsPublished
  <2>3. /\ shown \in Seq(Published) /\ Len(shown) = 1 + Len(g) /\ Len(g) \in Nat
        /\ \A i \in 1 .. 1 + Len(g) : shown[i] = IF i <= 1 THEN main[i] ELSE g[i - 1]
    <3>1. /\ main \o g \in Seq(Published) /\ Len(main \o g) = Len(main) + Len(g)
          /\ \A i \in 1 .. Len(main) + Len(g) :
               (main \o g)[i] = IF i <= Len(main) THEN main[i] ELSE g[i - Len(main)]
      BY <1>2, ConcatProperties
    <3>2. Len(g) \in Nat
      BY <1>2
    <3> QED
      BY <1>2, <2>2, <3>1, <3>2
  <2>4. shown # <<>> /\ 1 \in DOMAIN shown /\ shown[1] = x
    BY <2>2, <2>3
  <2>5. 1 \in Main
    BY <2>2, <2>4 DEF Main, MainWhats
  <2>6. /\ Tail(shown) \in Seq(Published) /\ Len(Tail(shown)) = Len(g)
        /\ \A i \in 1 .. Len(g) : Tail(shown)[i] = shown[i + 1]
    BY <2>3, <2>4, HeadTailProperties
  <2>7. \A i \in 1 .. Len(g) : Tail(shown)[i] = g[i]
    <3> TAKE i \in 1 .. Len(g)
    <3> DEFINE j == i + 1
    <3>1. j \in 1 .. 1 + Len(g) /\ ~(j <= 1) /\ j - 1 = i
      BY <2>3
    <3>2. Tail(shown)[i] = shown[j]
      BY <2>6
    <3> HIDE DEF j
    <3> QED
      BY <2>3, <3>1, <3>2
  <2>8. Tail(shown) = g
    BY <1>2, <2>6, <2>7, SeqEqual
  <2> QED
    BY <2>4, <2>5, <2>8 DEF g
<1> QED
  BY <1>3, <1>4

\* An answered request shows one main output, whatever its log: none only if log and
\* listing are empty or the listing holds nothing but end markers, and HTML only if
\* there is any.  A silent one shows nothing.
THEOREM RequestsOneMainOutput == RequestsSpec => []OneMainOutput
<1>1. FailureInv /\ GraphsInv => OneMainOutput
  BY OneMainFollows
<1> QED
  BY <1>1, GraphsInvariant, PTL

\* A request that succeeds shows each graph that can be read once, in the order of
\* the log, after the main output.
THEOREM RequestsGraphsInOrder == RequestsSpec => []GraphsInOrder
<1>1. FailureInv /\ GraphsInv => GraphsInOrder
  BY InOrderFollows
<1> QED
  BY <1>1, GraphsInvariant, PTL

-----------------------------------------------------------------------------
(***************************************************************************)
(* Words.                                                                  *)
(***************************************************************************)
\* A run of `chars' begins behind start and goes up to the cursor.
BeginsBehind(start, code, chars, cursor) ==
  /\ start \in 0 .. cursor
  /\ \A i \in start + 1 .. cursor : code[i] \in chars
  /\ start # 0 => code[start] \notin chars

LEMMA WordStartIs ==
  ASSUME NEW code, NEW chars, NEW cursor \in Nat
  PROVE  BeginsBehind(WordStart(code, chars, cursor), code, chars, cursor)
<1> DEFINE Starts == {i \in 0 .. cursor : \A j \in i + 1 .. cursor : code[j] \in chars}
<1>1. Starts \subseteq Nat /\ cursor \in Starts
  OBVIOUS
<1>2. PICK s \in Starts : \A i \in Starts : s <= i
  <2> HIDE DEF Starts
  <2> QED
    BY <1>1, MinIsLeast
<1>3. s \in 0 .. cursor /\ \A j \in s + 1 .. cursor : code[j] \in chars
  OBVIOUS
<1>4. s # 0 => code[s] \notin chars
  <2> SUFFICES ASSUME s # 0, code[s] \in chars PROVE FALSE
    OBVIOUS
  <2> DEFINE r == s - 1
  <2>1. r \in 0 .. cursor /\ r < s
    BY <1>3
  <2>2. \A j \in r + 1 .. cursor : code[j] \in chars
    <3> TAKE j \in r + 1 .. cursor
    <3>1. j = s \/ j \in s + 1 .. cursor
      BY <1>3
    <3> QED
      BY <1>3, <3>1
  <2>3. r \in Starts
    BY <2>1, <2>2
  <2> HIDE DEF r, Starts
  <2> QED
    BY <1>2, <1>3, <2>1, <2>3
<1>5. \E start \in 0 .. cursor :
        /\ \A i \in start + 1 .. cursor : code[i] \in chars
        /\ start # 0 => code[start] \notin chars
  BY <1>3, <1>4
<1> QED
  BY <1>5 DEF WordStart, BeginsBehind

LEMMA WordStartUnique ==
  ASSUME NEW code, NEW chars, NEW cursor \in Nat, NEW s, BeginsBehind(s, code, chars, cursor)
  PROVE  WordStart(code, chars, cursor) = s
<1> DEFINE w == WordStart(code, chars, cursor)
<1>1. BeginsBehind(w, code, chars, cursor)
  BY WordStartIs
<1> HIDE DEF w
<1>2. w \in Nat /\ s \in Nat /\ w <= cursor /\ s <= cursor
  BY <1>1 DEF BeginsBehind
<1>3. ~(w < s)
  <2> SUFFICES ASSUME w < s PROVE FALSE
    OBVIOUS
  <2>1. s \in w + 1 .. cursor /\ s # 0
    BY <1>2
  <2> QED
    BY <1>1, <2>1 DEF BeginsBehind
<1>4. ~(s < w)
  <2> SUFFICES ASSUME s < w PROVE FALSE
    OBVIOUS
  <2>1. w \in s + 1 .. cursor /\ w # 0
    BY <1>2
  <2> QED
    BY <1>1, <2>1 DEF BeginsBehind
<1>5. w = s
  BY <1>2, <1>3, <1>4
<1> QED
  BY <1>5 DEF w

LEMMA WordEndIs ==
  ASSUME NEW code, NEW chars, Len(code) \in Nat, NEW cursor \in 0 .. Len(code)
  PROVE  LET end == WordEnd(code, chars, cursor)
         IN  /\ end \in cursor .. Len(code)
             /\ \A i \in cursor + 1 .. end : code[i] \in chars
             /\ end # Len(code) => code[end + 1] \notin chars
<1> DEFINE Ends == {e \in cursor .. Len(code) : e = Len(code) \/ code[e + 1] \notin chars}
<1>1. Ends \subseteq Nat /\ Len(code) \in Ends
  OBVIOUS
<1>2. PICK e \in Ends : \A i \in Ends : e <= i
  <2> HIDE DEF Ends
  <2> QED
    BY <1>1, MinIsLeast
<1>3. e \in cursor .. Len(code) /\ (e # Len(code) => code[e + 1] \notin chars)
  OBVIOUS
<1>4. \A i \in cursor + 1 .. e : code[i] \in chars
  <2> SUFFICES ASSUME NEW i \in cursor + 1 .. e, code[i] \notin chars PROVE FALSE
    OBVIOUS
  <2> DEFINE d == i - 1
  <2>1. d \in cursor .. Len(code) /\ d < e /\ d + 1 = i
    BY <1>3
  <2>2. code[d + 1] \notin chars
    BY <2>1
  <2>3. d \in Ends
    BY <2>1, <2>2
  <2> HIDE DEF d, Ends
  <2> QED
    BY <1>2, <1>3, <2>1, <2>3
<1>5. \E end \in cursor .. Len(code) :
        /\ \A i \in cursor + 1 .. end : code[i] \in chars
        /\ end # Len(code) => code[end + 1] \notin chars
  BY <1>3, <1>4
<1> QED
  BY <1>5 DEF WordEnd

-----------------------------------------------------------------------------
(***************************************************************************)
(* Letters.                                                                *)
(***************************************************************************)
LEMMA CapitalIs ==
  /\ DOMAIN Capital = {"a", "c", "d", "e", "h", "i", "l", "n", "o", "p", "q", "r", "s", "t", "u", "v"}
  /\ Capital["a"] = "A" /\ Capital["c"] = "C" /\ Capital["d"] = "D" /\ Capital["e"] = "E"
  /\ Capital["h"] = "H" /\ Capital["i"] = "I" /\ Capital["l"] = "L" /\ Capital["n"] = "N"
  /\ Capital["o"] = "O" /\ Capital["p"] = "P" /\ Capital["q"] = "Q" /\ Capital["r"] = "R"
  /\ Capital["s"] = "S" /\ Capital["t"] = "T" /\ Capital["u"] = "U" /\ Capital["v"] = "V"
BY DEF Capital

Capitals == {"A", "C", "D", "E", "H", "I", "L", "N", "O", "P", "Q", "R", "S", "T", "U", "V"}

LEMMA LettersAre ==
  /\ \A ch \in DOMAIN Capital : Capital[ch] \in Capitals /\ ch \notin Capitals
  /\ Letters = DOMAIN Capital \cup Capitals
<1>1. \A ch \in DOMAIN Capital : Capital[ch] \in Capitals
  BY CapitalIs DEF Capitals
<1>2. \A ch \in DOMAIN Capital : ch \notin Capitals
  BY CapitalIs DEF Capitals
<1>3. \A x \in Capitals : \E ch \in DOMAIN Capital : Capital[ch] = x
  BY CapitalIs DEF Capitals
<1>4. \A x : x \in Letters <=> \E ch \in DOMAIN Capital : x = ch \/ x = Capital[ch]
  BY DEF Letters
<1>5. \A x : x \in Letters <=> x \in DOMAIN Capital \/ x \in Capitals
  BY <1>1, <1>3, <1>4
<1> QED
  BY <1>1, <1>2, <1>5

LEMMA NoLetter ==
  /\ "%" \notin Letters /\ "(" \notin Letters /\ "=" \notin Letters /\ ";" \notin Letters
  /\ " " \notin Letters /\ "\n" \notin Letters /\ "e acute" \notin Letters
BY LettersAre, CapitalIs DEF Capitals

LEMMA UpperLetters ==
  \A ch \in Symbols : /\ ToUpper(ch) \in Symbols
                      /\ ToUpper(ch) \in Letters <=> ch \in Letters
                      /\ ToUpper(ch) \in TokenChars <=> ch \in TokenChars
                      /\ ToUpper(ch) = "%" <=> ch = "%"
<1> TAKE ch \in Symbols
<1>1. CASE ch \in DOMAIN Capital
  <2>1. ToUpper(ch) \in Letters /\ ch \in Letters
    BY <1>1, LettersAre DEF ToUpper
  <2>2. ToUpper(ch) # "%" /\ ch # "%" /\ ToUpper(ch) \in Symbols
    BY <2>1, NoLetter DEF Symbols
  <2> QED
    BY <2>1, <2>2 DEF TokenChars
<1>2. CASE ch \notin DOMAIN Capital
  BY <1>2 DEF ToUpper
<1> QED
  BY <1>1, <1>2

LEMMA LettersTyped ==
  /\ \A x \in Capitals : x \in Letters /\ x \in Symbols
  /\ " " \in Symbols /\ ";" \in Symbols /\ "=" \in Symbols /\ "%" \in Symbols
BY LettersAre DEF Symbols

IsWord(word, chars) == word \in Seq(chars) /\ Len(word) \in Nat \ {0}

LEMMA WordOf4 ==
  ASSUME NEW M, NEW a \in M, NEW b \in M, NEW c \in M, NEW d \in M
  PROVE  IsWord(<<a, b, c, d>>, M) /\ Len(<<a, b, c, d>>) = 4
BY DEF IsWord

LEMMA WordOf5 ==
  ASSUME NEW M, NEW a \in M, NEW b \in M, NEW c \in M, NEW d \in M, NEW e \in M
  PROVE  IsWord(<<a, b, c, d, e>>, M) /\ Len(<<a, b, c, d, e>>) = 5
BY DEF IsWord

\* What the kernel looks for.
LEMMA PlacesAre ==
  /\ \A p \in {ProcSpace, DataSpace, DataEquals, SetSpace, RunEnd} :
       p \in Seq(Symbols) /\ p # <<>> /\ Len(p) \in Nat \ {0}
  /\ \A p \in {ProcSpace, DataSpace, RunEnd} : p[Len(p)] \notin Letters
<1>1. /\ "A" \in Symbols /\ "C" \in Symbols /\ "D" \in Symbols /\ "E" \in Symbols
      /\ "N" \in Symbols /\ "O" \in Symbols /\ "P" \in Symbols /\ "R" \in Symbols
      /\ "S" \in Symbols /\ "T" \in Symbols /\ "U" \in Symbols
  BY LettersTyped DEF Capitals
<1>2. " " \in Symbols /\ ";" \in Symbols /\ "=" \in Symbols
  BY LettersTyped
<1> HIDE DEF Symbols
<1>3. /\ IsWord(ProcSpace, Symbols) /\ ProcSpace[Len(ProcSpace)] = " "
      /\ IsWord(DataSpace, Symbols) /\ DataSpace[Len(DataSpace)] = " "
      /\ IsWord(DataEquals, Symbols)
      /\ IsWord(SetSpace, Symbols)
      /\ IsWord(RunEnd, Symbols) /\ RunEnd[Len(RunEnd)] = ";"
  <2>1. IsWord(ProcSpace, Symbols) /\ ProcSpace[Len(ProcSpace)] = " "
    <3>1. IsWord(ProcSpace, Symbols) /\ Len(ProcSpace) = 5
      BY <1>1, <1>2, WordOf5 DEF ProcSpace
    <3>2. ProcSpace[5] = " "
      BY DEF ProcSpace
    <3> QED
      BY <3>1, <3>2
  <2>2. IsWord(DataSpace, Symbols) /\ DataSpace[Len(DataSpace)] = " "
    <3>1. IsWord(DataSpace, Symbols) /\ Len(DataSpace) = 5
      BY <1>1, <1>2, WordOf5 DEF DataSpace
    <3>2. DataSpace[5] = " "
      BY DEF DataSpace
    <3> QED
      BY <3>1, <3>2
  <2>3. IsWord(DataEquals, Symbols)
    BY <1>1, <1>2, WordOf5 DEF DataEquals
  <2>4. IsWord(SetSpace, Symbols)
    BY <1>1, <1>2, WordOf4 DEF SetSpace
  <2>5. IsWord(RunEnd, Symbols) /\ RunEnd[Len(RunEnd)] = ";"
    <3>1. IsWord(RunEnd, Symbols) /\ Len(RunEnd) = 4
      BY <1>1, <1>2, WordOf4 DEF RunEnd
    <3>2. RunEnd[4] = ";"
      BY DEF RunEnd
    <3> QED
      BY <3>1, <3>2
  <2> QED
    BY <2>1, <2>2, <2>3, <2>4, <2>5
<1>4. \A p \in Seq(Symbols) : Len(p) \in Nat \ {0} => p # <<>>
  OBVIOUS
<1>5. \A p \in {ProcSpace, DataSpace, DataEquals, SetSpace, RunEnd} : IsWord(p, Symbols)
  BY ONLY <1>3
<1>6. \A p \in {ProcSpace, DataSpace, RunEnd} : p[Len(p)] \notin Letters
  BY ONLY <1>3, NoLetter
<1> QED
  BY <1>4, <1>5, <1>6 DEF IsWord

-----------------------------------------------------------------------------
(***************************************************************************)
(* Bytes.                                                                  *)
(***************************************************************************)
Bytes == Symbols \cup {"byte 1", "byte 2"}
BytesOf(ch) == IF ch = "e acute" THEN <<"byte 1", "byte 2">> ELSE <<ch>>
CodeParts(s) == [i \in DOMAIN s |-> BytesOf(s[i])]
CodeOf(s) == FlattenSeq(CodeParts(s))

LEMMA CodeIs == Code = CodeOf(text)
BY DEF Code, CodeOf, CodeParts, BytesOf

LEMMA BytesOfType ==
  ASSUME NEW ch \in Symbols
  PROVE  BytesOf(ch) \in Seq(Bytes) /\ Len(BytesOf(ch)) >= 1 /\ Len(BytesOf(ch)) \in Nat
<1>1. ch \in Bytes /\ "byte 1" \in Bytes /\ "byte 2" \in Bytes
  BY DEF Bytes
<1> DEFINE one == <<ch>>
           two == <<"byte 1", "byte 2">>
<1>2. one \in Seq(Bytes) /\ two \in Seq(Bytes)
  <2>1. \A M : \A x, y \in M : <<x>> \in Seq(M) /\ <<x, y>> \in Seq(M)
    OBVIOUS
  <2> QED
    BY <1>1, <2>1
<1>3. Len(one) = 1 /\ Len(two) = 2
  OBVIOUS
<1>4. BytesOf(ch) = one \/ BytesOf(ch) = two
  BY DEF BytesOf
<1> HIDE DEF one, two
<1>5. BytesOf(ch) \in Seq(Bytes)
  BY <1>2, <1>4
<1>6. Len(BytesOf(ch)) = 1 \/ Len(BytesOf(ch)) = 2
  BY <1>3, <1>4
<1> QED
  BY <1>5, <1>6

LEMMA CodePartsType ==
  ASSUME NEW s \in Seq(Symbols)
  PROVE  CodeParts(s) \in Seq(Seq(Bytes))
<1>1. Len(s) \in Nat /\ DOMAIN s = 1 .. Len(s) /\ \A i \in 1 .. Len(s) : s[i] \in Symbols
  OBVIOUS
<1>2. \A i \in 1 .. Len(s) : BytesOf(s[i]) \in Seq(Bytes)
  BY <1>1, BytesOfType
<1> QED
  BY <1>1, <1>2 DEF CodeParts

LEMMA CodeType ==
  ASSUME NEW s \in Seq(Symbols)
  PROVE  CodeOf(s) \in Seq(Bytes) /\ Len(CodeOf(s)) \in Nat
<1>1. CodeOf(s) \in Seq(Bytes)
  BY CodePartsType, FlattenType DEF CodeOf
<1> QED
  BY <1>1

LEMMA CodeAppend ==
  ASSUME NEW s \in Seq(Symbols), NEW ch \in Symbols
  PROVE  CodeOf(Append(s, ch)) = CodeOf(s) \o BytesOf(ch)
<1> DEFINE p == CodeParts(s)
           b == BytesOf(ch)
           more == Append(s, ch)
           q == CodeParts(more)
<1>1. p \in Seq(Seq(Bytes)) /\ b \in Seq(Bytes) /\ more \in Seq(Symbols)
  BY CodePartsType, BytesOfType, AppendProperties
<1>2. Len(s) \in Nat /\ Len(more) = Len(s) + 1 /\ more[Len(s) + 1] = ch
      /\ \A i \in 1 .. Len(s) : more[i] = s[i]
  BY AppendProperties
<1>3. q \in Seq(Seq(Bytes))
  <2> HIDE DEF more
  <2> QED
    BY <1>1, CodePartsType
<1>4. DOMAIN s = 1 .. Len(s) /\ DOMAIN more = 1 .. Len(s) + 1
  BY <1>1, <1>2
<1> HIDE DEF more
<1>5. /\ Len(p) = Len(s) /\ Len(q) = Len(s) + 1 /\ \A i \in 1 .. Len(s) : q[i] = p[i]
  BY <1>2, <1>4 DEF CodeParts
<1>6. q[Len(s) + 1] = b
  <2> DEFINE j == Len(s) + 1
  <2>1. j \in DOMAIN more /\ more[j] = ch
    BY <1>2, <1>4
  <2> HIDE DEF j
  <2>2. q[j] = b
    BY <2>1 DEF CodeParts
  <2> QED
    BY <2>2 DEF j
<1> HIDE DEF p, q, b
<1> DEFINE app == Append(p, b)
<1>7. /\ app \in Seq(Seq(Bytes)) /\ Len(app) = Len(p) + 1
      /\ \A i \in 1 .. Len(p) : app[i] = p[i]
      /\ app[Len(p) + 1] = b
  BY <1>1, AppendProperties
<1> HIDE DEF app
<1>8. \A i \in 1 .. Len(q) : q[i] = app[i]
  <2> TAKE i \in 1 .. Len(q)
  <2>1. i \in 1 .. Len(s) \/ i = Len(s) + 1
    BY <1>2, <1>5
  <2> QED
    BY <1>5, <1>6, <1>7, <2>1
<1>9. q = app
  BY <1>3, <1>5, <1>7, <1>8, SeqEqual
<1>10. FlattenSeq(Append(p, b)) = FlattenSeq(p) \o b
  BY <1>1, FlattenAppend
<1> QED
  BY <1>9, <1>10 DEF CodeOf, app, p, q, b, more

LEMMA CodeEmpty == CodeOf(<<>>) = <<>>
<1>1. CodeParts(<<>>) = <<>>
  BY DEF CodeParts
<1> QED
  BY <1>1, FlattenEmpty DEF CodeOf

\* There are at least as many bytes as characters.
LEMMA CodeLength ==
  ASSUME NEW s \in Seq(Symbols)
  PROVE  Len(CodeOf(s)) >= Len(s)
<1> DEFINE G == {u \in Seq(Symbols) : Len(CodeOf(u)) >= Len(u)}
<1>1. <<>> \in G
  BY CodeEmpty
<1>2. \A u \in Seq(Symbols), ch \in Symbols : u \in G => Append(u, ch) \in G
  <2> SUFFICES ASSUME NEW u \in Seq(Symbols), NEW ch \in Symbols, Len(CodeOf(u)) >= Len(u)
               PROVE  Append(u, ch) \in Seq(Symbols)
                      /\ Len(CodeOf(Append(u, ch))) >= Len(Append(u, ch))
    OBVIOUS
  <2> DEFINE c == CodeOf(u)
             b == BytesOf(ch)
  <2>1. c \in Seq(Bytes) /\ b \in Seq(Bytes) /\ Len(b) >= 1 /\ Len(b) \in Nat
    BY CodeType, BytesOfType
  <2>2. CodeOf(Append(u, ch)) = c \o b
    BY CodeAppend
  <2>3. Append(u, ch) \in Seq(Symbols) /\ Len(Append(u, ch)) = Len(u) + 1 /\ Len(u) \in Nat
    BY AppendProperties
  <2>4. Len(c) >= Len(u)
    OBVIOUS
  <2> HIDE DEF c, b
  <2>5. Len(c \o b) = Len(c) + Len(b) /\ Len(c) \in Nat
    BY <2>1, ConcatProperties
  <2> QED
    BY <2>1, <2>2, <2>3, <2>4, <2>5
<1> HIDE DEF G
<1>3. s \in G
  BY <1>1, <1>2, SeqInduction
<1> QED
  BY <1>3 DEF G

\* An ASCII text is its own code.
LEMMA CodeOfAscii ==
  ASSUME NEW s \in Seq(Symbols), Ascii(s)
  PROVE  CodeOf(s) = s
<1> DEFINE T == Symbols \ {"e acute"}
           G == {u \in Seq(T) : CodeOf(u) = u}
<1>1. s \in Seq(T)
  <2>1. \A i \in DOMAIN s : s[i] \in T
    <3>1. DOMAIN s = 1 .. Len(s) /\ \A i \in 1 .. Len(s) : s[i] \in Symbols
      OBVIOUS
    <3> QED
      BY <3>1 DEF Ascii
  <2> HIDE DEF T
  <2> QED
    BY <2>1, SeqWithin
<1>2. <<>> \in G
  BY CodeEmpty
<1>3. \A u \in Seq(T), ch \in T : u \in G => Append(u, ch) \in G
  <2> SUFFICES ASSUME NEW u \in Seq(T), NEW ch \in T, CodeOf(u) = u
               PROVE  Append(u, ch) \in Seq(T) /\ CodeOf(Append(u, ch)) = Append(u, ch)
    OBVIOUS
  <2>1. u \in Seq(Symbols) /\ ch \in Symbols
    <3>1. T \subseteq Symbols /\ ch \in Symbols
      OBVIOUS
    <3> HIDE DEF T
    <3> QED
      BY <3>1, SeqMonotonic
  <2>2. BytesOf(ch) = <<ch>>
    BY DEF BytesOf
  <2> HIDE DEF T
  <2>3. CodeOf(Append(u, ch)) = u \o <<ch>>
    BY <2>1, <2>2, CodeAppend
  <2> QED
    BY <2>3, AppendIsConcat, AppendProperties
<1> HIDE DEF G, T
<1>4. s \in G
  BY <1>1, <1>2, <1>3, SeqInduction
<1> QED
  BY <1>4 DEF G

-----------------------------------------------------------------------------
(***************************************************************************)
(* The answer is the one for the text.                                     *)
(***************************************************************************)
Keywords == Procedures \cup DataKeywords \cup GlobalStatements \cup Macros

\* What is answered about a text.
CompletionOf(s) ==
  LET cursor == Len(s)
      before == SubSeq(CodeOf(s), 1, cursor)
      start == WordStart(CodeOf(s), TokenChars, cursor)
  IN  [None EXCEPT !.kind = "complete", !.at = cursor, !.start = start,
         !.matches = Completions(before, SubSeq(before, start + 1, cursor))]

ClassAt(s, cursor) ==
  LET id == Identifier(CodeOf(s), cursor)
  IN  IF id = <<>> THEN "unknown" ELSE Classify(CodeOf(s), id)

InspectionOf(s, cursor) ==
  [None EXCEPT !.kind = "inspect", !.at = cursor, !.help = Help(ClassAt(s, cursor))]

CompletenessOf(s) ==
  [None EXCEPT !.kind = "is_complete", !.status = IsCompleteStatus(CodeOf(s))]

AnswersFor(s) ==
  {None, CompletionOf(s), CompletenessOf(s)} \cup {InspectionOf(s, cursor) : cursor \in 0 .. Len(s)}

EditorInv ==
  text \in Seq(Symbols) /\ strokes \in 0 .. MaxStrokes /\ answer \in AnswersFor(text)

LEMMA EditorInit0 == RequestsInit => EditorInv
<1> SUFFICES ASSUME RequestsInit PROVE EditorInv
  OBVIOUS
<1>1. text = <<>> /\ strokes = 0 /\ answer = None
  BY DEF RequestsInit, EditorInit
<1>2. text \in Seq(Symbols) /\ strokes \in 0 .. MaxStrokes
  BY <1>1, EditorAssumption
<1> QED
  BY <1>1, <1>2 DEF EditorInv, AnswersFor

LEMMA SameAnswers ==
  ASSUME text' = text
  PROVE  AnswersFor(text)' = AnswersFor(text)
BY DEF AnswersFor

LEMMA EditorStep ==
  ASSUME EditorInv, [RequestsNext]_requestsVars
  PROVE  EditorInv'
<1>1. CASE UNCHANGED editorVars
  BY <1>1, SameAnswers DEF editorVars, EditorInv
<1>2. CASE Send
  <2>1. text' = <<>> /\ strokes' = 0 /\ answer' = None
    BY <1>2 DEF Send
  <2>2. text' \in Seq(Symbols) /\ strokes' \in 0 .. MaxStrokes
    BY <2>1, EditorAssumption
  <2> QED
    BY <2>1, <2>2 DEF EditorInv, AnswersFor
<1>3. CASE Type
  <2>1. strokes' \in 0 .. MaxStrokes /\ answer' = None
    BY <1>3, EditorAssumption DEF Type, EditorInv
  <2>2. text' \in Seq(Symbols)
    <3>1. PICK s \in Strokes : text' = text \o s
      BY <1>3 DEF Type
    <3>2. s \in Seq(Symbols) /\ text \in Seq(Symbols)
      BY EditorAssumption DEF EditorInv
    <3> QED
      BY <3>1, <3>2, ConcatProperties
  <2> QED
    BY <2>1, <2>2 DEF EditorInv, AnswersFor
<1>4. CASE Complete
  <2>1. text' = text /\ strokes' = strokes /\ answer' = CompletionOf(text)
    BY <1>4, CodeIs DEF Complete, CompletionOf
  <2>2. answer' \in AnswersFor(text)
    BY <2>1 DEF AnswersFor
  <2> QED
    BY <2>1, <2>2, SameAnswers DEF EditorInv
<1>5. CASE Inspect
  <2>1. text' = text /\ strokes' = strokes
        /\ \E cursor \in 0 .. Len(text) : answer' = InspectionOf(text, cursor)
    BY <1>5, CodeIs DEF Inspect, InspectionOf, ClassAt
  <2>2. answer' \in AnswersFor(text)
    BY <2>1 DEF AnswersFor
  <2> QED
    BY <2>1, <2>2, SameAnswers DEF EditorInv
<1>6. CASE IsComplete
  <2>1. text' = text /\ strokes' = strokes /\ answer' = CompletenessOf(text)
    BY <1>6, CodeIs DEF IsComplete, CompletenessOf
  <2>2. answer' \in AnswersFor(text)
    BY <2>1 DEF AnswersFor
  <2> QED
    BY <2>1, <2>2, SameAnswers DEF EditorInv
<1> QED
  BY <1>1, <1>2, <1>3, <1>4, <1>5, <1>6
     DEF RequestsNext, Edit, Serve, EditorNext, requestsVars

LEMMA EditorInvariant == RequestsSpec => []EditorInv
<1>1. EditorInv /\ [RequestsNext]_requestsVars => EditorInv'
  BY EditorStep
<1> QED
  BY <1>1, EditorInit0, PTL DEF RequestsSpec

\* Which answer it is, and what it says.
LEMMA AnswerCases ==
  ASSUME EditorInv
  PROVE  \/ /\ answer.kind = "none" /\ answer.at = 0
            /\ answer.start = 0 /\ answer.matches = {} /\ answer.help = "none"
            /\ answer.status = "none"
         \/ /\ answer.kind = "complete" /\ answer.at = Len(text)
            /\ answer.start = WordStart(CodeOf(text), TokenChars, Len(text))
            /\ answer.matches \subseteq Keywords
            /\ answer.help = "none" /\ answer.status = "none"
         \/ /\ answer.kind = "inspect" /\ answer.at \in 0 .. Len(text)
            /\ answer.start = 0 /\ answer.matches = {} /\ answer.status = "none"
            /\ answer.help = Help(ClassAt(text, answer.at))
         \/ /\ answer.kind = "is_complete" /\ answer.at = 0
            /\ answer.start = 0 /\ answer.matches = {} /\ answer.help = "none"
            /\ answer.status \in {"incomplete", "complete"}
<1>1. CASE answer = None
  BY <1>1 DEF None
<1>2. CASE answer = CompletionOf(text)
  <2>1. \A code, token : Completions(code, token) \subseteq Keywords
    <3> TAKE code, token
    <3>1. \A K : Matching(K, token) \subseteq K
      BY DEF Matching
    <3>2. MacroCompletions(token) \subseteq Macros
      BY <3>1 DEF MacroCompletions
    <3>3. GeneralCompletions(token) \subseteq Keywords /\ DataCompletions(token) \subseteq Keywords
      BY <3>1, <3>2 DEF GeneralCompletions, DataCompletions, Keywords
    <3>4. Context(code) \in {"proc", "macro", "data_step", "general"}
      BY DEF Context
    <3> QED
      BY <3>1, <3>2, <3>3, <3>4 DEF Completions, Keywords
  <2> QED
    BY <1>2, <2>1 DEF CompletionOf, None
<1>3. CASE answer = CompletenessOf(text)
  BY <1>3 DEF CompletenessOf, IsCompleteStatus, None
<1>4. ASSUME NEW cursor \in 0 .. Len(text), answer = InspectionOf(text, cursor)
      PROVE  /\ answer.kind = "inspect" /\ answer.at \in 0 .. Len(text)
             /\ answer.start = 0 /\ answer.matches = {} /\ answer.status = "none"
             /\ answer.help = Help(ClassAt(text, answer.at))
  BY <1>4 DEF InspectionOf, None
<1> QED
  BY <1>1, <1>2, <1>3, <1>4 DEF EditorInv, AnswersFor

\* An identifier is made of letters, and lies around the cursor.
LEMMA IdentifierIs ==
  ASSUME NEW s \in Seq(Symbols), NEW cursor \in 0 .. Len(s)
  PROVE  LET code == CodeOf(s)
             start == WordStart(code, Letters, cursor)
             end == WordEnd(code, Letters, cursor)
         IN  /\ Identifier(code, cursor) = SubSeq(code, start + 1, end)
             /\ start \in 0 .. cursor /\ end \in cursor .. Len(code) /\ Len(code) \in Nat
             /\ \A i \in start + 1 .. end : code[i] \in Letters
             /\ start # 0 => code[start] \notin Letters
             /\ end # Len(code) => code[end + 1] \notin Letters
<1> DEFINE code == CodeOf(s)
           start == WordStart(code, Letters, cursor)
           end == WordEnd(code, Letters, cursor)
<1>1. Len(code) \in Nat /\ Len(s) \in Nat /\ Len(code) >= Len(s)
  BY CodeType, CodeLength
<1>2. cursor \in Nat /\ cursor \in 0 .. Len(code)
  BY <1>1
<1>3. Identifier(code, cursor) = SubSeq(code, start + 1, end)
  BY DEF Identifier, IdentifierChars
<1> HIDE DEF code
<1>4. BeginsBehind(start, code, Letters, cursor)
  BY <1>2, WordStartIs
<1>5. /\ end \in cursor .. Len(code)
      /\ \A i \in cursor + 1 .. end : code[i] \in Letters
      /\ end # Len(code) => code[end + 1] \notin Letters
  BY <1>1, <1>2, WordEndIs
<1> HIDE DEF start, end
<1>6. \A i \in start + 1 .. end : code[i] \in Letters
  <2> TAKE i \in start + 1 .. end
  <2>1. i \in start + 1 .. cursor \/ i \in cursor + 1 .. end
    BY <1>2, <1>4, <1>5 DEF BeginsBehind
  <2> QED
    BY <1>4, <1>5, <2>1 DEF BeginsBehind
<1> QED
  BY <1>1, <1>3, <1>4, <1>5, <1>6 DEF BeginsBehind, code, start, end

LEMMA EditorTypes ==
  ASSUME EditorInv
  PROVE  EditorTypeOK
<1>1. Len(text) \in Nat /\ text \in Seq(Symbols)
  BY DEF EditorInv
<1>2. WordStart(CodeOf(text), TokenChars, Len(text)) \in 0 .. Len(text)
  BY <1>1, WordStartIs DEF BeginsBehind
<1>3. answer.kind = "inspect" =>
        answer.help \in {"procedure", "function", "dataset", "macro", "none"}
  <2> SUFFICES ASSUME answer.kind = "inspect"
               PROVE  answer.help \in {"procedure", "function", "dataset", "macro", "none"}
    OBVIOUS
  <2>1. answer.at \in 0 .. Len(text) /\ answer.help = Help(ClassAt(text, answer.at))
    BY AnswerCases
  <2>2. ClassAt(text, answer.at) \in {"procedure", "function", "dataset", "macro", "unknown"}
    BY DEF ClassAt, Classify
  <2> QED
    BY <2>1, <2>2 DEF Help
<1>4. answer.kind \in {"none", "complete", "inspect", "is_complete"}
      /\ answer.status \in {"none", "incomplete", "complete"}
  BY AnswerCases
<1>5. answer.matches \subseteq Keywords
  BY AnswerCases
<1>6. answer.at \in 0 .. Len(text) /\ answer.start \in 0 .. answer.at
  <2>1. \/ answer.at = 0 /\ answer.start = 0
        \/ answer.at = Len(text) /\ answer.start = WordStart(CodeOf(text), TokenChars, Len(text))
        \/ answer.at \in 0 .. Len(text) /\ answer.start = 0
    BY AnswerCases
  <2> QED
    BY <1>1, <1>2, <2>1
<1>7. answer.help \in {"procedure", "function", "dataset", "macro", "none"}
  BY AnswerCases, <1>3
<1> QED
  BY <1>1, <1>4, <1>5, <1>6, <1>7 DEF EditorTypeOK, EditorInv, Keywords

-----------------------------------------------------------------------------
(***************************************************************************)
(* Completions fit.                                                        *)
(***************************************************************************)
\* Every keyword is a word.
LEMMA KeywordIsWord ==
  ASSUME NEW m \in Keywords
  PROVE  m \in Seq(TokenChars) /\ Len(m) \in Nat \ {0}
<1>1. /\ "A" \in TokenChars /\ "E" \in TokenChars /\ "H" \in TokenChars /\ "I" \in TokenChars
      /\ "L" \in TokenChars /\ "N" \in TokenChars /\ "O" \in TokenChars /\ "P" \in TokenChars
      /\ "R" \in TokenChars /\ "S" \in TokenChars /\ "T" \in TokenChars /\ "U" \in TokenChars
      /\ "V" \in TokenChars /\ "%" \in TokenChars
  BY LettersTyped DEF TokenChars, Capitals
<1> HIDE DEF TokenChars
<1>2. \A w \in Procedures : IsWord(w, TokenChars)
  <2>1. IsWord(<<"S", "O", "R", "T">>, TokenChars)
    BY <1>1 DEF IsWord
  <2>2. IsWord(<<"T", "T", "E", "S", "T">>, TokenChars)
    BY <1>1 DEF IsWord
  <2> QED
    BY ONLY <2>1, <2>2 DEF Procedures
<1>3. \A w \in GlobalStatements : IsWord(w, TokenChars)
  <2>1. IsWord(<<"T", "I", "T", "L", "E">>, TokenChars)
    BY <1>1 DEF IsWord
  <2> QED
    BY ONLY <2>1 DEF GlobalStatements
<1>4. \A w \in DataKeywords : IsWord(w, TokenChars)
  <2>1. IsWord(<<"S", "E", "T">>, TokenChars)
    BY <1>1 DEF IsWord
  <2>2. IsWord(<<"S", "T", "O", "P">>, TokenChars)
    BY <1>1 DEF IsWord
  <2>3. IsWord(<<"T", "H", "E", "N">>, TokenChars)
    BY <1>1 DEF IsWord
  <2>4. IsWord(<<"L", "E", "A", "V", "E">>, TokenChars)
    BY <1>1 DEF IsWord
  <2> QED
    BY ONLY <2>1, <2>2, <2>3, <2>4 DEF DataKeywords
<1>5. \A w \in Macros : IsWord(w, TokenChars)
  <2>1. IsWord(<<"%", "L", "E", "T">>, TokenChars)
    BY <1>1 DEF IsWord
  <2>2. IsWord(<<"%", "R", "U", "N">>, TokenChars)
    BY <1>1 DEF IsWord
  <2>3. IsWord(<<"%", "T", "H", "E", "N">>, TokenChars)
    BY <1>1 DEF IsWord
  <2> QED
    BY ONLY <2>1, <2>2, <2>3 DEF Macros
<1> QED
  BY <1>2, <1>3, <1>4, <1>5 DEF Keywords, IsWord

\* A word put where another one begins is the last word.
LEMMA LastWordIs ==
  ASSUME NEW T, NEW s \in Seq(T), NEW start \in 0 .. Len(s),
         start # 0 => s[start] \notin TokenChars, NEW m \in Seq(TokenChars)
  PROVE  LastWord(SubSeq(s, 1, start) \o m) = m
<1> DEFINE U == T \cup TokenChars
           p == SubSeq(s, 1, start)
           t == p \o m
           n == Len(t)
           k == Len(m)
<1>1. start \in Nat /\ start <= Len(s) /\ k \in Nat /\ Len(s) \in Nat
  OBVIOUS
<1>2. p \in Seq(T) /\ Len(p) = start /\ \A i \in 1 .. start : p[i] = s[i]
  <2>1. \A i \in 1 .. start : s[i] \in T
    BY <1>1
  <2>2. 1 \in Int /\ start \in Int
    BY <1>1
  <2>3. /\ p \in Seq(T) /\ Len(p) = IF 1 <= start THEN start - 1 + 1 ELSE 0
        /\ \A i \in 1 .. start - 1 + 1 : p[i] = s[1 + i - 1]
    BY <2>1, <2>2, SubSeqProperties
  <2> HIDE DEF p
  <2>4. start - 1 + 1 = start /\ \A i \in 1 .. start : 1 + i - 1 = i
    BY <1>1
  <2> QED
    BY <1>1, <2>3, <2>4
<1> HIDE DEF p
<1>3. p \in Seq(U) /\ m \in Seq(U)
  <2>1. T \subseteq U /\ TokenChars \subseteq U
    OBVIOUS
  <2> HIDE DEF U
  <2> QED
    BY <1>2, <2>1, SeqMonotonic
<1> HIDE DEF U
<1>4. /\ t \in Seq(U) /\ n = start + k
      /\ \A i \in 1 .. start + k : t[i] = IF i <= start THEN p[i] ELSE m[i - start]
  <2>1. /\ p \o m \in Seq(U) /\ Len(p \o m) = Len(p) + Len(m)
        /\ \A i \in 1 .. Len(p) + Len(m) :
             (p \o m)[i] = IF i <= Len(p) THEN p[i] ELSE m[i - Len(p)]
    BY <1>3, ConcatProperties
  <2> QED
    BY <1>2, <2>1
<1> HIDE DEF t
<1>5. BeginsBehind(start, t, TokenChars, n)
  <2>1. start \in 0 .. n
    BY <1>1, <1>4
  <2>2. \A i \in start + 1 .. n : t[i] \in TokenChars
    <3> TAKE i \in start + 1 .. n
    <3> DEFINE j == i - start
    <3>1. j \in 1 .. k /\ i \in 1 .. start + k /\ ~(i <= start)
      BY <1>1, <1>4
    <3>2. t[i] = m[j]
      BY <1>4, <3>1
    <3> HIDE DEF j
    <3> QED
      BY <3>1, <3>2
  <2>3. start # 0 => t[start] \notin TokenChars
    <3> SUFFICES ASSUME start # 0 PROVE t[start] \notin TokenChars
      OBVIOUS
    <3>1. start \in 1 .. start + k /\ start \in 1 .. start
      BY <1>1
    <3>2. t[start] = p[start] /\ p[start] = s[start]
      BY <1>2, <1>4, <3>1
    <3> QED
      BY <3>2
  <2> QED
    BY <2>1, <2>2, <2>3 DEF BeginsBehind
<1>6. WordStart(t, TokenChars, n) = start
  <2>1. n \in Nat
    BY <1>1, <1>4
  <2> HIDE DEF n
  <2> QED
    BY <1>5, <2>1, WordStartUnique
<1>7. LastWord(t) = SubSeq(t, start + 1, n)
  BY <1>6 DEF LastWord, TokenChars
<1>8. SubSeq(t, start + 1, n) = m
  <2> DEFINE a == start + 1
             q == SubSeq(t, a, n)
  <2>1. a \in Int /\ n \in Int /\ a >= 1
    BY <1>1, <1>4
  <2>2. \A i \in a .. n : t[i] \in TokenChars
    BY <1>5 DEF BeginsBehind
  <2> HIDE DEF a, n
  <2>3. /\ q \in Seq(TokenChars) /\ Len(q) = IF a <= n THEN n - a + 1 ELSE 0
        /\ \A i \in 1 .. n - a + 1 : q[i] = t[a + i - 1]
    BY <2>1, <2>2, SubSeqProperties
  <2>4. n - a + 1 = k /\ Len(q) = k
    BY <1>1, <1>4, <2>3 DEF a
  <2> HIDE DEF q
  <2>5. \A i \in 1 .. k : q[i] = m[i]
    <3> TAKE i \in 1 .. k
    <3> DEFINE j == a + i - 1
    <3>1. j \in 1 .. start + k /\ ~(j <= start) /\ j - start = i
      BY <1>1 DEF a
    <3>2. q[i] = t[j]
      BY <2>3, <2>4
    <3> HIDE DEF j
    <3> QED
      BY <1>4, <3>1, <3>2
  <2>6. q = m
    BY <2>3, <2>4, <2>5, SeqEqual
  <2> QED
    BY <2>6 DEF a, q
<1> QED
  BY <1>7, <1>8 DEF t, p

LEMMA FitsFollows ==
  ASSUME EditorInv
  PROVE  CompletionFits
<1> SUFFICES ASSUME answer.kind = "complete", Ascii(text), NEW m \in answer.matches
             PROVE  LastWord(SubSeq(text, 1, answer.start) \o m) = m
  BY DEF CompletionFits
<1>1. text \in Seq(Symbols) /\ Len(text) \in Nat
  BY DEF EditorInv
<1>2. /\ answer.start = WordStart(CodeOf(text), TokenChars, Len(text))
      /\ answer.matches \subseteq Keywords
  BY AnswerCases
<1>3. CodeOf(text) = text
  BY <1>1, CodeOfAscii
<1>4. answer.start \in 0 .. Len(text) /\ (answer.start # 0 => text[answer.start] \notin TokenChars)
  <2>1. BeginsBehind(WordStart(text, TokenChars, Len(text)), text, TokenChars, Len(text))
    BY <1>1, WordStartIs
  <2> QED
    BY <1>2, <1>3, <2>1 DEF BeginsBehind
<1>5. m \in Seq(TokenChars)
  BY <1>2, KeywordIsWord
<1> QED
  BY <1>1, <1>4, <1>5, LastWordIs

\* All variables stay within their types.
THEOREM RequestsTypes == RequestsSpec => []RequestsTypeOK
<1>1. FailureInv /\ GraphsInv /\ EditorInv => RequestsTypeOK
  BY DisplayTypes, EditorTypes DEF RequestsTypeOK
<1> QED
  BY <1>1, GraphsInvariant, EditorInvariant, PTL

\* Put where the client is told to put it, a completion is the last word of an
\* ASCII text.
THEOREM RequestsCompletionFits == RequestsSpec => []CompletionFits
<1>1. EditorInv => CompletionFits
  BY FitsFollows
<1> QED
  BY <1>1, EditorInvariant, PTL

-----------------------------------------------------------------------------
(***************************************************************************)
(* Where a part stands.                                                    *)
(***************************************************************************)
StandsAt(i, s, part) ==
  /\ i \in 1 .. Len(s) + 1 - Len(part)
  /\ \A j \in 1 .. Len(part) : s[i + j - 1] = part[j]

LEMMA OccurrencesAre ==
  ASSUME NEW T, NEW s \in Seq(T), NEW part \in Seq(T), NEW i
  PROVE  i \in Occurrences(s, part) <=> StandsAt(i, s, part)
<1> DEFINE n == Len(part)
<1>1. Len(s) \in Nat /\ n \in Nat
  OBVIOUS
<1>2. ASSUME i \in 1 .. Len(s) + 1 - n
      PROVE  SubSeq(s, i, i + n - 1) = part <=> \A j \in 1 .. n : s[i + j - 1] = part[j]
  <2> DEFINE e == i + n - 1
             q == SubSeq(s, i, e)
  <2>1. i \in Int /\ e \in Int /\ i >= 1 /\ e <= Len(s) /\ e - i + 1 = n
    BY <1>1, <1>2
  <2>2. \A j \in i .. e : s[j] \in T
    BY <2>1
  <2> HIDE DEF e
  <2>3. /\ q \in Seq(T) /\ Len(q) = IF i <= e THEN e - i + 1 ELSE 0
        /\ \A j \in 1 .. e - i + 1 : q[j] = s[i + j - 1]
    BY <2>1, <2>2, SubSeqProperties
  <2>4. Len(q) = n
    BY <1>1, <2>1, <2>3
  <2> HIDE DEF q, n
  <2>5. \A j \in 1 .. n : q[j] = s[i + j - 1]
    BY <2>1, <2>3
  <2>6. q = part => \A j \in 1 .. n : s[i + j - 1] = part[j]
    BY <2>5
  <2>7. (\A j \in 1 .. n : s[i + j - 1] = part[j]) => q = part
    <3> SUFFICES ASSUME \A j \in 1 .. n : s[i + j - 1] = part[j] PROVE q = part
      OBVIOUS
    <3>1. \A j \in 1 .. n : q[j] = part[j]
      BY <2>5
    <3> QED
      BY <2>3, <2>4, <3>1, SeqEqual DEF n
  <2> QED
    BY <2>6, <2>7 DEF q, e
<1> QED
  BY <1>2 DEF Occurrences, StandsAt

LEMMA OccurrencesFinite ==
  ASSUME NEW T, NEW s \in Seq(T), NEW part \in Seq(T)
  PROVE  IsFiniteSet(Occurrences(s, part)) /\ Occurrences(s, part) \subseteq 1 .. Len(s) + 1
<1>1. Len(s) \in Nat /\ Len(part) \in Nat
  OBVIOUS
<1>2. Occurrences(s, part) \subseteq 1 .. Len(s) + 1
  BY <1>1 DEF Occurrences
<1>3. IsFiniteSet(1 .. Len(s) + 1)
  BY <1>1, FS_Interval
<1> QED
  BY <1>2, <1>3, FS_Subset

LEMMA UpperType ==
  ASSUME NEW s \in Seq(Symbols)
  PROVE  /\ Upper(s) \in Seq(Symbols) /\ Len(Upper(s)) = Len(s)
         /\ \A i \in 1 .. Len(s) : Upper(s)[i] = ToUpper(s[i])
<1>1. DOMAIN s = 1 .. Len(s) /\ Len(s) \in Nat /\ \A i \in 1 .. Len(s) : s[i] \in Symbols
  OBVIOUS
<1>2. \A ch \in Symbols : ToUpper(ch) \in Symbols
  BY UpperLetters
<1> QED
  BY <1>1, <1>2 DEF Upper

LEMMA LettersAreSymbols == \A s \in Seq(Letters) : s \in Seq(Symbols)
<1>1. Letters \subseteq Symbols
  BY DEF Symbols
<1> QED
  BY <1>1, SeqMonotonic

LEMMA MaxOfTwo ==
  ASSUME NEW a \in Int, NEW b \in Int
  PROVE  Max({a, b}) = IF a >= b THEN a ELSE b
<1>1. a >= b => Max({a, b}) = a
  BY DEF Max
<1>2. ~(a >= b) => Max({a, b}) = b
  BY DEF Max
<1> QED
  BY <1>1, <1>2

-----------------------------------------------------------------------------
(***************************************************************************)
(* A word that stands in one place only.                                   *)
(***************************************************************************)
WordAt(s, start, end) == SubSeq(s, start + 1, end)

OnlyPlace(s, start, end) ==
  /\ s \in Seq(Symbols) /\ start \in 0 .. Len(s) /\ end \in start + 1 .. Len(s)
  /\ Occurrences(Upper(s), Upper(SubSeq(s, start + 1, end))) = {start + 1}

LEMMA OnlyPlaceFacts ==
  ASSUME NEW s, NEW start, NEW end, OnlyPlace(s, start, end)
  PROVE  LET id == SubSeq(s, start + 1, end)
         IN  /\ id \in Seq(Symbols) /\ Len(id) = end - start /\ end - start \in Nat \ {0}
             /\ start \in Nat /\ end \in Nat /\ Len(s) \in Nat /\ end <= Len(s)
             /\ \A j \in 1 .. end - start : id[j] = s[start + j]
             /\ Upper(id) \in Seq(Symbols) /\ Len(Upper(id)) = end - start
             /\ \A j \in 1 .. end - start : Upper(id)[j] = Upper(s)[start + j]
<1> DEFINE a == start + 1
           id == SubSeq(s, a, end)
           n == end - start
<1>1. s \in Seq(Symbols) /\ start \in 0 .. Len(s) /\ end \in start + 1 .. Len(s)
  BY DEF OnlyPlace
<1>2. /\ Len(s) \in Nat /\ start \in Nat /\ end \in Nat /\ a \in Int /\ end \in Int /\ a >= 1
      /\ a <= end /\ end <= Len(s) /\ n \in Nat \ {0} /\ end - a + 1 = n
      /\ \A j \in 1 .. n : a + j - 1 = start + j /\ start + j \in 1 .. Len(s)
  BY <1>1
<1>3. \A i \in a .. end : s[i] \in Symbols
  BY <1>1, <1>2
<1> HIDE DEF a, n
<1>4. /\ id \in Seq(Symbols) /\ Len(id) = IF a <= end THEN end - a + 1 ELSE 0
      /\ \A j \in 1 .. end - a + 1 : id[j] = s[a + j - 1]
  BY <1>2, <1>3, SubSeqProperties
<1> HIDE DEF id
<1>5. Len(id) = n /\ \A j \in 1 .. n : id[j] = s[start + j]
  BY <1>2, <1>4
<1>6. /\ Upper(id) \in Seq(Symbols) /\ Len(Upper(id)) = n
      /\ \A j \in 1 .. n : Upper(id)[j] = ToUpper(id[j])
  BY <1>4, <1>5, UpperType
<1>7. \A j \in 1 .. n : Upper(s)[start + j] = ToUpper(s[start + j])
  BY <1>1, <1>2, UpperType
<1>8. \A j \in 1 .. n : Upper(id)[j] = Upper(s)[start + j]
  BY <1>5, <1>6, <1>7
<1> QED
  BY <1>2, <1>4, <1>5, <1>6, <1>8 DEF id, a, n

\* What Around calls so: the place is what stands right before the word.
Follows(s, start, place) == EndsWith(Upper(SubSeq(s, 1, start)), place)

LEMMA FollowsIs ==
  ASSUME NEW s \in Seq(Symbols), NEW start \in 0 .. Len(s), NEW place \in Seq(Symbols)
  PROVE  Follows(s, start, place) <=>
           /\ start >= Len(place)
           /\ \A j \in 1 .. Len(place) : Upper(s)[start - Len(place) + j] = place[j]
<1> DEFINE p == SubSeq(s, 1, start)
           u == Upper(p)
           l == Len(place)
           i == start + 1 - l
<1>1. start \in Nat /\ Len(s) \in Nat /\ start <= Len(s) /\ l \in Nat /\ 1 \in Int /\ start \in Int
      /\ start - 1 + 1 = start /\ \A k \in 1 .. start : 1 + k - 1 = k /\ k \in 1 .. Len(s)
  OBVIOUS
<1>2. \A k \in 1 .. start : s[k] \in Symbols
  BY <1>1
<1>3. /\ p \in Seq(Symbols) /\ Len(p) = IF 1 <= start THEN start - 1 + 1 ELSE 0
      /\ \A k \in 1 .. start - 1 + 1 : p[k] = s[1 + k - 1]
  BY <1>1, <1>2, SubSeqProperties
<1> HIDE DEF p
<1>4. Len(p) = start /\ \A k \in 1 .. start : p[k] = s[k]
  BY <1>1, <1>3
<1>5. u \in Seq(Symbols) /\ Len(u) = start /\ \A k \in 1 .. start : u[k] = ToUpper(p[k])
  BY <1>3, <1>4, UpperType
<1>6. \A k \in 1 .. Len(s) : Upper(s)[k] = ToUpper(s[k])
  BY UpperType
<1> HIDE DEF u
<1>7. \A k \in 1 .. start : u[k] = Upper(s)[k]
  BY <1>1, <1>4, <1>5, <1>6
<1>8. Follows(s, start, place) <=> StandsAt(i, u, place)
  <2>1. Follows(s, start, place) <=> i \in Occurrences(u, place)
    BY <1>5 DEF Follows, EndsWith, u, p
  <2> HIDE DEF i
  <2> QED
    BY <1>5, <2>1, OccurrencesAre
<1>i. i = start + 1 - l
  OBVIOUS
<1> HIDE DEF i, l
<1>9. StandsAt(i, u, place) <=>
        start >= l /\ \A j \in 1 .. l : u[i + j - 1] = place[j]
  <2>1. i \in 1 .. start + 1 - l <=> start >= l
    BY <1>1, <1>i
  <2> QED
    BY <1>5, <2>1 DEF StandsAt, l
<1>10. ASSUME start >= l, NEW j \in 1 .. l
       PROVE  u[i + j - 1] = Upper(s)[start - l + j]
  <2> DEFINE k == start - l + j
  <2>1. k \in 1 .. start /\ i + j - 1 = k
    BY <1>1, <1>i, <1>10
  <2> HIDE DEF k
  <2>2. u[k] = Upper(s)[k]
    BY <1>7, <2>1
  <2> QED
    BY <2>1, <2>2 DEF k
<1> QED
  BY <1>8, <1>9, <1>10 DEF l

\* To look for the word with something before it is to look at what is before it.
LEMMA PlacedWord ==
  ASSUME NEW s, NEW start, NEW end, OnlyPlace(s, start, end), NEW place \in Seq(Symbols)
  PROVE  Occurs(Upper(s), place \o Upper(WordAt(s, start, end))) <=> Follows(s, start, place)
<1> DEFINE id == SubSeq(s, start + 1, end)
           n == end - start
           up == Upper(s)
           w == Upper(id)
           part == place \o w
           l == Len(place)
<1>1. s \in Seq(Symbols) /\ start \in 0 .. Len(s) /\ Occurrences(up, w) = {start + 1}
  BY DEF OnlyPlace
<1>2. /\ n \in Nat \ {0} /\ start \in Nat /\ end \in Nat /\ Len(s) \in Nat /\ end <= Len(s)
      /\ w \in Seq(Symbols) /\ Len(w) = n /\ \A j \in 1 .. n : w[j] = up[start + j]
  BY OnlyPlaceFacts
<1>3. up \in Seq(Symbols) /\ Len(up) = Len(s)
  BY <1>1, UpperType
<1>l. l \in Nat
  OBVIOUS
<1>8. Follows(s, start, place) <=>
        start >= l /\ \A j \in 1 .. l : up[start - l + j] = place[j]
  BY <1>1, FollowsIs
<1>n. n = end - start
  OBVIOUS
<1> HIDE DEF id, n, up, w
<1>5. /\ part \in Seq(Symbols) /\ Len(part) = l + n
      /\ \A j \in 1 .. l + n : part[j] = IF j <= l THEN place[j] ELSE w[j - l]
  <2>1. /\ place \o w \in Seq(Symbols) /\ Len(place \o w) = Len(place) + Len(w)
        /\ \A j \in 1 .. Len(place) + Len(w) :
             (place \o w)[j] = IF j <= Len(place) THEN place[j] ELSE w[j - Len(place)]
    BY <1>2, ConcatProperties
  <2> QED
    BY <1>2, <2>1
<1> HIDE DEF part, l
<1>6. ASSUME NEW i \in Occurrences(up, part)
      PROVE  start >= l /\ \A j \in 1 .. l : up[start - l + j] = place[j]
  <2>1. StandsAt(i, up, part)
    BY <1>3, <1>5, OccurrencesAre
  <2>2. /\ i \in 1 .. Len(up) + 1 - (l + n)
        /\ \A j \in 1 .. l + n : up[i + j - 1] = part[j]
    BY <1>5, <2>1 DEF StandsAt
  <2> DEFINE k == i + l
  <2>3. k \in 1 .. Len(up) + 1 - n
    BY <1>2, <1>3, <1>l, <2>2
  <2>4. \A j \in 1 .. n : up[k + j - 1] = w[j]
    <3> TAKE j \in 1 .. n
    <3> DEFINE m == j + l
    <3>1. m \in 1 .. l + n /\ ~(m <= l) /\ m - l = j /\ i + m - 1 = k + j - 1
      BY <1>2, <1>l, <2>2
    <3> HIDE DEF m, k
    <3>2. up[i + m - 1] = part[m] /\ part[m] = w[j]
      BY <1>5, <2>2, <3>1
    <3> QED
      BY <3>1, <3>2
  <2>5. k = start + 1
    <3> HIDE DEF k
    <3>1. StandsAt(k, up, w)
      BY <1>2, <2>3, <2>4 DEF StandsAt
    <3>2. k \in Occurrences(up, w)
      BY <1>2, <1>3, <3>1, OccurrencesAre
    <3> QED
      BY <1>1, <3>2
  <2>6. i = start - l + 1 /\ i >= 1 /\ i \in Nat
    BY <1>2, <1>3, <1>l, <2>2, <2>5
  <2>7. \A j \in 1 .. l : up[start - l + j] = place[j]
    <3> TAKE j \in 1 .. l
    <3>1. j \in 1 .. l + n /\ j <= l /\ i + j - 1 = start - l + j
      BY <1>2, <1>l, <2>6
    <3>2. up[i + j - 1] = part[j] /\ part[j] = place[j]
      BY <1>5, <2>2, <3>1
    <3> QED
      BY <3>1, <3>2
  <2>8. start >= l
    BY <1>2, <1>l, <2>6
  <2> QED
    BY <2>7, <2>8
<1>7. ASSUME start >= l, \A j \in 1 .. l : up[start - l + j] = place[j]
      PROVE  start - l + 1 \in Occurrences(up, part)
  <2> DEFINE i == start - l + 1
  <2>1. i \in 1 .. Len(up) + 1 - (l + n) /\ i \in Nat
    BY <1>2, <1>3, <1>7, <1>n, <1>l
  <2>2. \A j \in 1 .. l + n : up[i + j - 1] = part[j]
    <3> TAKE j \in 1 .. l + n
    <3>1. CASE j <= l
      <4>1. i + j - 1 = start - l + j /\ j \in 1 .. l
        BY <1>2, <1>l, <3>1
      <4> QED
        BY <1>5, <1>7, <3>1, <4>1
    <3>2. CASE ~(j <= l)
      <4> DEFINE m == j - l
      <4>1. m \in 1 .. n /\ i + j - 1 = start + m
        BY <1>2, <1>l, <3>2
      <4>2. part[j] = w[m]
        BY <1>5, <3>2
      <4> HIDE DEF m
      <4> QED
        BY <1>2, <4>1, <4>2
    <3> QED
      BY <3>1, <3>2
  <2> HIDE DEF i
  <2>3. StandsAt(i, up, part)
    BY <1>5, <2>1, <2>2 DEF StandsAt
  <2>4. i \in Occurrences(up, part)
    BY <1>3, <1>5, <2>3, OccurrencesAre
  <2> QED
    BY <2>4 DEF i
<1> QED
  BY <1>6, <1>7, <1>8 DEF Occurs, part, w, up, id, WordAt

LEMMA WordItself ==
  ASSUME NEW s, NEW start, NEW end, OnlyPlace(s, start, end)
  PROVE  LET id == WordAt(s, start, end)
         IN  /\ Occurrences(s, id) = {start + 1}
             /\ Min(Occurrences(s, id)) + Len(id) = end + 1
<1> DEFINE id == SubSeq(s, start + 1, end)
           n == end - start
           up == Upper(s)
           w == Upper(id)
           a == start + 1
<1>1. s \in Seq(Symbols) /\ start \in 0 .. Len(s) /\ Occurrences(up, w) = {a}
  BY DEF OnlyPlace
<1>2. /\ n \in Nat \ {0} /\ start \in Nat /\ end \in Nat /\ Len(s) \in Nat /\ end <= Len(s)
      /\ id \in Seq(Symbols) /\ Len(id) = n /\ \A j \in 1 .. n : id[j] = s[start + j]
      /\ w \in Seq(Symbols) /\ Len(w) = n
  BY OnlyPlaceFacts
<1>3. /\ up \in Seq(Symbols) /\ Len(up) = Len(s)
      /\ \A i \in 1 .. Len(s) : up[i] = ToUpper(s[i])
  BY <1>1, UpperType
<1>4. \A j \in 1 .. n : w[j] = ToUpper(id[j])
  <2> HIDE DEF id
  <2> QED
    BY <1>2, UpperType
<1>n. n = end - start /\ a = start + 1
  OBVIOUS
<1> HIDE DEF id, n, up, w, a
<1>5. ASSUME NEW i \in Occurrences(s, id)
      PROVE  i = a
  <2>1. StandsAt(i, s, id)
    BY <1>1, <1>2, OccurrencesAre
  <2>2. /\ i \in 1 .. Len(s) + 1 - n
        /\ \A j \in 1 .. n : s[i + j - 1] = id[j]
    BY <1>2, <2>1 DEF StandsAt
  <2>3. \A j \in 1 .. n : up[i + j - 1] = w[j]
    <3> TAKE j \in 1 .. n
    <3> DEFINE k == i + j - 1
    <3>1. k \in 1 .. Len(s)
      BY <1>2, <2>2
    <3>2. s[k] = id[j]
      BY <2>2
    <3> HIDE DEF k
    <3>3. up[k] = w[j]
      BY <1>3, <1>4, <3>1, <3>2
    <3> QED
      BY <3>3 DEF k
  <2>4. StandsAt(i, up, w)
    BY <1>2, <1>3, <2>2, <2>3 DEF StandsAt
  <2>5. i \in Occurrences(up, w)
    BY <1>2, <1>3, <2>4, OccurrencesAre
  <2> QED
    BY <1>1, <2>5
<1>6. a \in Occurrences(s, id)
  <2>1. a \in 1 .. Len(s) + 1 - n
    BY <1>2, <1>n
  <2>2. \A j \in 1 .. n : s[a + j - 1] = id[j]
    <3> TAKE j \in 1 .. n
    <3>1. a + j - 1 = start + j
      BY <1>2, <1>n
    <3> QED
      BY <1>2, <3>1
  <2>3. StandsAt(a, s, id)
    BY <1>2, <2>1, <2>2 DEF StandsAt
  <2> QED
    BY <1>1, <1>2, <2>3, OccurrencesAre
<1>7. Occurrences(s, id) = {a}
  BY <1>5, <1>6
<1>8. Min({a}) = a
  <2>1. {a} \subseteq Nat /\ {a} # {}
    BY <1>2, <1>n
  <2>2. Min({a}) \in {a}
    BY <2>1, MinIsLeast
  <2> QED
    BY <2>2
<1>9. a + n = end + 1
  BY <1>2, <1>n
<1> QED
  BY <1>2, <1>7, <1>8, <1>9 DEF id, a, WordAt

\* The class of a word that stands in one place only.
LEMMA ClassOfWord ==
  ASSUME NEW s, NEW start, NEW end, OnlyPlace(s, start, end)
  PROVE  LET id == WordAt(s, start, end)
         IN  /\ IsProcedure(s, id) <=> Follows(s, start, ProcSpace)
             /\ IsFunction(s, id) <=> NextChar(s, end + 1) = "("
             /\ IsDataset(s, id) <=> \E place \in DatasetPlaces : Follows(s, start, place)
<1> DEFINE id == WordAt(s, start, end)
<1>1. ProcSpace \in Seq(Symbols) /\ \A place \in DatasetPlaces : place \in Seq(Symbols)
  BY PlacesAre DEF DatasetPlaces
<1>2. \A place \in Seq(Symbols) :
        Occurs(Upper(s), place \o Upper(id)) <=> Follows(s, start, place)
  BY PlacedWord
<1>3. IsFunction(s, id) <=> NextChar(s, end + 1) = "("
  <2>1. Occurrences(s, id) = {start + 1} /\ Min(Occurrences(s, id)) + Len(id) = end + 1
    BY WordItself
  <2> HIDE DEF id
  <2>2. Occurs(s, id)
    BY <2>1 DEF Occurs
  <2> QED
    BY <2>1, <2>2 DEF IsFunction
<1> HIDE DEF id
<1>4. IsProcedure(s, id) <=> Follows(s, start, ProcSpace)
  BY <1>1, <1>2 DEF IsProcedure
<1>5. IsDataset(s, id) <=> \E place \in DatasetPlaces : Follows(s, start, place)
  BY <1>1, <1>2 DEF IsDataset
<1> QED
  BY <1>3, <1>4, <1>5 DEF id

LEMMA InspectionFollows ==
  ASSUME EditorInv
  PROVE  InspectionRight
<1> DEFINE cursor == answer.at
           id == Identifier(text, cursor)
           start == WordStart(text, Letters, cursor)
           end == WordEnd(text, Letters, cursor)
<1> SUFFICES ASSUME answer.kind = "inspect", Ascii(text),
                    Cardinality(Occurrences(Upper(text), Upper(id))) = 1
             PROVE  answer.help = Around(text, cursor)
  BY DEF InspectionRight
<1>1. text \in Seq(Symbols) /\ cursor \in 0 .. Len(text) /\ CodeOf(text) = text
      /\ answer.help = Help(ClassAt(text, cursor))
  <2>1. text \in Seq(Symbols)
    BY DEF EditorInv
  <2>2. cursor \in 0 .. Len(text) /\ answer.help = Help(ClassAt(text, cursor))
    BY AnswerCases
  <2> QED
    BY <2>1, <2>2, CodeOfAscii
<1>2. /\ id = SubSeq(text, start + 1, end)
      /\ start \in 0 .. cursor /\ end \in cursor .. Len(text) /\ Len(text) \in Nat
      /\ \A i \in start + 1 .. end : text[i] \in Letters
  BY <1>1, IdentifierIs, ZenonT(60)
<1>3. ClassAt(text, cursor) = IF id = <<>> THEN "unknown" ELSE Classify(text, id)
  BY <1>1 DEF ClassAt
<1>4. Around(text, cursor) =
        CASE start = end -> "none"
          [] start # end /\ Follows(text, start, ProcSpace) -> "procedure"
          [] start # end /\ ~Follows(text, start, ProcSpace)
               /\ NextChar(text, end + 1) = "(" -> "function"
          [] start # end /\ ~Follows(text, start, ProcSpace)
               /\ NextChar(text, end + 1) # "("
               /\ (\E place \in DatasetPlaces : Follows(text, start, place)) -> "dataset"
          [] OTHER -> "none"
  BY DEF Around, Follows
<1> HIDE DEF id, start, end, cursor
<1>5. start \in Nat /\ end \in Nat /\ start <= end /\ start \in 0 .. Len(text) /\ cursor \in Nat
  BY <1>1, <1>2
<1>6. CASE start = end
  <2>1. id = <<>>
    BY <1>2, <1>5, <1>6, SubSeqEmpty
  <2> QED
    BY <1>1, <1>3, <1>4, <1>6, <2>1 DEF Help
<1>7. CASE start # end
  <2>1. end \in start + 1 .. Len(text)
    BY <1>2, <1>5, <1>7
  <2>2. id \in Seq(Letters) /\ Len(id) = end - start
    <3> DEFINE a == start + 1
    <3>1. a \in Int /\ end \in Int /\ a <= end /\ end - a + 1 = end - start
      BY <1>5, <2>1
    <3>2. \A i \in a .. end : text[i] \in Letters
      BY <1>2
    <3> HIDE DEF a
    <3>3. SubSeq(text, a, end) \in Seq(Letters) /\ Len(SubSeq(text, a, end)) = end - a + 1
      BY <3>1, <3>2, SubSeqProperties
    <3> QED
      BY <1>2, <3>1, <3>3 DEF a
  <2>3. id # <<>> /\ id[1] \in Letters
    <3>1. Len(id) \in Nat \ {0}
      BY <1>5, <1>7, <2>2
    <3> QED
      BY <2>2, <3>1
  <2>4. id[1] # "%"
    BY <2>3, NoLetter
  <2>5. Occurrences(Upper(text), Upper(id)) = {start + 1}
    <3> DEFINE U == Upper(text)
               W == Upper(id)
               n == end - start
               a == start + 1
    <3>1. /\ U \in Seq(Symbols) /\ Len(U) = Len(text)
          /\ \A i \in 1 .. Len(text) : U[i] = ToUpper(text[i])
      BY <1>1, UpperType
    <3>2. id \in Seq(Symbols)
      BY <2>2, LettersAreSymbols
    <3>3. W \in Seq(Symbols) /\ Len(W) = n /\ \A j \in 1 .. n : W[j] = ToUpper(id[j])
      BY <2>2, <3>2, UpperType
    <3>4. \A j \in 1 .. n : id[j] = text[start + j] /\ start + j \in 1 .. Len(text)
      <4>1. a \in Int /\ end \in Int /\ end - a + 1 = n
            /\ \A j \in 1 .. n : a + j - 1 = start + j /\ start + j \in 1 .. Len(text)
        BY <1>5, <2>1
      <4>2. \A i \in a .. end : text[i] \in Letters
        BY <1>2
      <4> HIDE DEF a, n
      <4>3. \A j \in 1 .. end - a + 1 : SubSeq(text, a, end)[j] = text[a + j - 1]
        BY <4>1, <4>2, SubSeqProperties
      <4> QED
        BY <1>2, <4>1, <4>3 DEF a
    <3>5. a \in 1 .. Len(U) + 1 - n /\ n \in Nat
      BY <1>5, <2>1, <3>1
    <3>6. \A j \in 1 .. n : U[a + j - 1] = W[j]
      <4> TAKE j \in 1 .. n
      <4>1. a + j - 1 = start + j
        BY <1>5, <3>5
      <4> HIDE DEF U, W, a, n
      <4> QED
        BY <3>1, <3>3, <3>4, <4>1
    <3> HIDE DEF U, W, a, n
    <3>7. StandsAt(a, U, W)
      BY <3>3, <3>5, <3>6 DEF StandsAt
    <3>8. a \in Occurrences(U, W)
      BY <3>1, <3>3, <3>7, OccurrencesAre
    <3>9. IsFiniteSet(Occurrences(U, W))
      BY <3>1, <3>3, OccurrencesFinite
    <3>10. Cardinality(Occurrences(U, W)) = 1
      BY DEF U, W
    <3>11. \E x : Occurrences(U, W) = {x}
      BY <3>9, <3>10, FS_Singleton
    <3> QED
      BY <3>8, <3>11 DEF U, W, a
  <2>6. OnlyPlace(text, start, end)
    BY <1>1, <1>2, <1>5, <2>1, <2>5 DEF OnlyPlace
  <2>7. /\ IsProcedure(text, id) <=> Follows(text, start, ProcSpace)
        /\ IsFunction(text, id) <=> NextChar(text, end + 1) = "("
        /\ IsDataset(text, id) <=> \E place \in DatasetPlaces : Follows(text, start, place)
    <3>1. id = WordAt(text, start, end)
      BY <1>2 DEF WordAt
    <3> QED
      BY <2>6, <3>1, ClassOfWord
  <2>8. Help(Classify(text, id)) =
          IF IsProcedure(text, id) THEN "procedure"
          ELSE IF IsFunction(text, id) THEN "function"
          ELSE IF IsDataset(text, id) THEN "dataset" ELSE "none"
    BY <2>4 DEF Classify, Help
  <2> QED
    BY <1>1, <1>3, <1>4, <1>7, <2>3, <2>7, <2>8
<1> QED
  BY <1>6, <1>7 DEF cursor

\* An identifier that stands in one place of an ASCII text is classed by what
\* stands around it.
THEOREM RequestsInspectionRight == RequestsSpec => []InspectionRight
<1>1. EditorInv => InspectionRight
  BY InspectionFollows
<1> QED
  BY <1>1, EditorInvariant, PTL

-----------------------------------------------------------------------------
(***************************************************************************)
(* What is offered is still offered further on.                            *)
(***************************************************************************)
\* How a macro keyword looks.
LEMMA MacroLooks ==
  ASSUME NEW m \in Macros
  PROVE  /\ m \in Seq(TokenChars) /\ Len(m) \in {4, 5} /\ m[1] = "%" /\ m # <<>>
         /\ \A k \in 2 .. Len(m) : m[k] # "%"
         /\ Tail(m) \in Seq(TokenChars) /\ Len(Tail(m)) = Len(m) - 1
         /\ \A k \in 1 .. Len(m) - 1 : Tail(m)[k] # "%"
<1>1. m \in Seq(TokenChars)
  BY KeywordIsWord DEF Keywords
<1>2. Len(m) \in {4, 5} /\ m[1] = "%" /\ m # <<>>
  BY DEF Macros
<1>3. \A k \in 2 .. Len(m) : m[k] # "%"
  BY DEF Macros
<1>4. /\ Tail(m) \in Seq(TokenChars) /\ Len(Tail(m)) = Len(m) - 1
      /\ \A k \in 1 .. Len(Tail(m)) : Tail(m)[k] = m[k + 1]
  BY <1>1, <1>2, HeadTailProperties
<1>5. \A k \in 1 .. Len(m) - 1 : Tail(m)[k] # "%"
  <2> TAKE k \in 1 .. Len(m) - 1
  <2> DEFINE j == k + 1
  <2>1. j \in 2 .. Len(m) /\ k \in 1 .. Len(Tail(m))
    BY <1>2, <1>4
  <2>2. Tail(m)[k] = m[j]
    BY <1>4, <2>1
  <2> HIDE DEF j
  <2> QED
    BY <1>3, <2>1, <2>2
<1> QED
  BY <1>1, <1>2, <1>3, <1>4, <1>5

LEMMA OtherKeywords ==
  ASSUME NEW m \in Procedures \cup DataKeywords \cup GlobalStatements
  PROVE  m \notin Macros
<1> SUFFICES ASSUME m \in Macros PROVE FALSE
  OBVIOUS
<1>1. m[1] = "%"
  BY MacroLooks
<1>2. m[1] # "%"
  BY DEF Procedures, DataKeywords, GlobalStatements
<1> QED
  BY <1>1, <1>2

LEMMA PrefixElements ==
  ASSUME NEW T, NEW a \in Seq(T), NEW b \in Seq(T), IsPrefix(a, b)
  PROVE  Len(a) <= Len(b) /\ \A k \in 1 .. Len(a) : a[k] = b[k]
<1> DEFINE n == Len(a)
           p == SubSeq(a, 1, n)
           q == SubSeq(b, 1, n)
<1>1. n \in Nat /\ Len(b) \in Nat /\ n <= Len(b) /\ p = q
  BY DEF IsPrefix
<1>2. \A i \in 1 .. n : a[i] \in T /\ b[i] \in T
  BY <1>1
<1>3. 1 \in Int /\ n \in Int /\ n - 1 + 1 = n /\ \A i \in 1 .. n : 1 + i - 1 = i
  BY <1>1
<1> HIDE DEF n
<1>4. \A i \in 1 .. n - 1 + 1 : p[i] = a[1 + i - 1]
  BY <1>2, <1>3, SubSeqProperties
<1>5. \A i \in 1 .. n - 1 + 1 : q[i] = b[1 + i - 1]
  BY <1>2, <1>3, SubSeqProperties
<1> HIDE DEF p, q
<1>6. \A i \in 1 .. n : p[i] = a[i] /\ q[i] = b[i]
  BY <1>3, <1>4, <1>5
<1> QED
  BY <1>1, <1>6 DEF n

-----------------------------------------------------------------------------
(***************************************************************************)
(* A text with letters added at the end.                                   *)
(***************************************************************************)
Extended(s, more) == s \in Seq(Symbols) /\ more \in Seq(Letters) /\ more # <<>>

LEMMA ExtendedFacts ==
  ASSUME NEW s, NEW more, Extended(s, more)
  PROVE  LET t == s \o more
         IN  /\ t \in Seq(Symbols) /\ Len(s) \in Nat /\ Len(more) \in Nat \ {0}
             /\ Len(t) = Len(s) + Len(more)
             /\ \A i \in 1 .. Len(s) : t[i] = s[i] /\ s[i] \in Symbols
             /\ \A i \in Len(s) + 1 .. Len(s) + Len(more) : t[i] \in Letters
<1> DEFINE t == s \o more
<1>1. s \in Seq(Symbols) /\ more \in Seq(Letters) /\ more # <<>>
  BY DEF Extended
<1>2. more \in Seq(Symbols) /\ Len(s) \in Nat /\ Len(more) \in Nat \ {0}
  BY <1>1, LettersAreSymbols
<1>3. /\ t \in Seq(Symbols) /\ Len(t) = Len(s) + Len(more)
      /\ \A i \in 1 .. Len(s) + Len(more) : t[i] = IF i <= Len(s) THEN s[i] ELSE more[i - Len(s)]
  BY <1>1, <1>2, ConcatProperties
<1> HIDE DEF t
<1>4. \A i \in 1 .. Len(s) : t[i] = s[i] /\ s[i] \in Symbols
  BY <1>1, <1>2, <1>3
<1>5. \A i \in Len(s) + 1 .. Len(s) + Len(more) : t[i] \in Letters
  <2> TAKE i \in Len(s) + 1 .. Len(s) + Len(more)
  <2> DEFINE j == i - Len(s)
  <2>1. i \in 1 .. Len(s) + Len(more) /\ ~(i <= Len(s)) /\ j \in 1 .. Len(more)
    BY <1>2
  <2>2. t[i] = more[j]
    BY <1>3, <2>1
  <2> HIDE DEF j
  <2> QED
    BY <1>1, <2>1, <2>2
<1> QED
  BY <1>2, <1>3, <1>4, <1>5 DEF t

\* What ends with something that is not added stands where it stood before.
LEMMA OccurrencesStay ==
  ASSUME NEW T, NEW u \in Seq(T), NEW v \in Seq(T), Len(u) <= Len(v),
         NEW part \in Seq(T), part # <<>>,
         \A i \in 1 .. Len(u) : v[i] = u[i],
         \A i \in Len(u) + 1 .. Len(v) : v[i] # part[Len(part)]
  PROVE  Occurrences(v, part) = Occurrences(u, part)
<1> DEFINE k == Len(u)
           l == Len(v)
           n == Len(part)
<1>1. k \in Nat /\ l \in Nat /\ n \in Nat \ {0} /\ k <= l
  OBVIOUS
<1>2. /\ \A i \in 1 .. k : v[i] = u[i]
      /\ \A i \in k + 1 .. l : v[i] # part[n]
  OBVIOUS
<1> HIDE DEF k, l, n
<1>3. ASSUME NEW i, StandsAt(i, v, part)
      PROVE  StandsAt(i, u, part)
  <2>1. i \in 1 .. l + 1 - n /\ \A j \in 1 .. n : v[i + j - 1] = part[j]
    BY <1>3 DEF StandsAt, l, n
  <2> DEFINE e == i + n - 1
  <2>2. e \in 1 .. l /\ n \in 1 .. n
    BY <1>1, <2>1
  <2>3. v[e] = part[n]
    BY <2>1, <2>2
  <2>4. e <= k
    <3> SUFFICES ASSUME ~(e <= k) PROVE FALSE
      OBVIOUS
    <3> HIDE DEF e
    <3>1. e \in k + 1 .. l
      BY <1>1, <2>2
    <3> QED
      BY <1>2, <2>3, <3>1
  <2>5. i \in 1 .. k + 1 - n
    BY <1>1, <2>1, <2>4
  <2>6. \A j \in 1 .. n : u[i + j - 1] = part[j]
    <3> TAKE j \in 1 .. n
    <3> DEFINE m == i + j - 1
    <3>1. m \in 1 .. k
      BY <1>1, <2>5
    <3>2. v[m] = part[j]
      BY <2>1
    <3> HIDE DEF m
    <3>3. u[m] = part[j]
      BY <1>2, <3>1, <3>2
    <3> QED
      BY <3>3 DEF m
  <2> QED
    BY <2>5, <2>6 DEF StandsAt, k, n
<1>4. ASSUME NEW i, StandsAt(i, u, part)
      PROVE  StandsAt(i, v, part)
  <2>1. i \in 1 .. k + 1 - n /\ \A j \in 1 .. n : u[i + j - 1] = part[j]
    BY <1>4 DEF StandsAt, k, n
  <2>2. \A j \in 1 .. n : v[i + j - 1] = part[j]
    <3> TAKE j \in 1 .. n
    <3> DEFINE m == i + j - 1
    <3>1. m \in 1 .. k
      BY <1>1, <2>1
    <3>2. u[m] = part[j]
      BY <2>1
    <3> HIDE DEF m
    <3>3. v[m] = part[j]
      BY <1>2, <3>1, <3>2
    <3> QED
      BY <3>3 DEF m
  <2>3. i \in 1 .. l + 1 - n
    BY <1>1, <2>1
  <2> QED
    BY <2>2, <2>3 DEF StandsAt, l, n
<1>5. \A i : i \in Occurrences(v, part) <=> i \in Occurrences(u, part)
  <2> TAKE i
  <2>1. i \in Occurrences(v, part) <=> StandsAt(i, v, part)
    BY OccurrencesAre
  <2>2. i \in Occurrences(u, part) <=> StandsAt(i, u, part)
    BY OccurrencesAre
  <2> QED
    BY <1>3, <1>4, <2>1, <2>2
<1>6. Occurrences(v, part) \subseteq Occurrences(u, part)
  BY <1>5
<1>7. Occurrences(u, part) \subseteq Occurrences(v, part)
  BY <1>5
<1> QED
  BY <1>6, <1>7

\* What ends with something that is no letter stands where it stood before.
LEMMA SameOccurrences ==
  ASSUME NEW s, NEW more, Extended(s, more),
         NEW part \in Seq(Symbols), part # <<>>, part[Len(part)] \notin Letters
  PROVE  Occurrences(Upper(s \o more), part) = Occurrences(Upper(s), part)
<1> DEFINE t == s \o more
           u == Upper(s)
           v == Upper(t)
           k == Len(s)
           n == Len(part)
<1>1. /\ t \in Seq(Symbols) /\ k \in Nat /\ Len(more) \in Nat \ {0} /\ Len(t) = k + Len(more)
      /\ \A i \in 1 .. k : t[i] = s[i] /\ s[i] \in Symbols
      /\ \A i \in k + 1 .. k + Len(more) : t[i] \in Letters
  BY ExtendedFacts
<1>2. s \in Seq(Symbols) /\ n \in Nat \ {0}
  BY DEF Extended
<1>3. /\ u \in Seq(Symbols) /\ Len(u) = k
      /\ \A i \in 1 .. k : u[i] = ToUpper(s[i])
  BY <1>2, UpperType
<1> HIDE DEF t
<1>4. /\ v \in Seq(Symbols) /\ Len(v) = k + Len(more)
      /\ \A i \in 1 .. k + Len(more) : v[i] = ToUpper(t[i])
  BY <1>1, UpperType
<1> HIDE DEF u, v, k
<1>5. \A i \in 1 .. k : v[i] = u[i]
  <2> TAKE i \in 1 .. k
  <2>1. i \in 1 .. k + Len(more)
    BY <1>1
  <2> QED
    BY <1>1, <1>3, <1>4, <2>1
<1>6. \A i \in k + 1 .. k + Len(more) : v[i] \in Letters
  <2> TAKE i \in k + 1 .. k + Len(more)
  <2>1. i \in 1 .. k + Len(more) /\ t[i] \in Letters
    BY <1>1
  <2>2. t[i] \in Symbols
    BY <2>1 DEF Symbols
  <2>3. ToUpper(t[i]) \in Letters
    BY <2>1, <2>2, UpperLetters
  <2> QED
    BY <1>4, <2>1, <2>3
<1>7. \A i \in k + 1 .. Len(v) : v[i] # part[n]
  BY <1>4, <1>6
<1>8. k <= Len(v)
  BY <1>1, <1>4
<1>9. Occurrences(v, part) = Occurrences(u, part)
  BY <1>2, <1>3, <1>4, <1>5, <1>7, <1>8, OccurrencesStay, ZenonT(60)
<1> QED
  BY <1>9 DEF u, v, t

LEMMA SameContext ==
  ASSUME NEW s, NEW more, Extended(s, more)
  PROVE  /\ InProcStatement(s \o more) = InProcStatement(s)
         /\ InDataStep(s \o more) = InDataStep(s)
<1> DEFINE t == s \o more
<1>1. \A part \in Seq(Symbols) : part # <<>> /\ part[Len(part)] \notin Letters =>
        LastAt(Upper(t), part) = LastAt(Upper(s), part)
  BY SameOccurrences DEF LastAt
<1>2. <<";">> \in Seq(Symbols) /\ <<";">> # <<>> /\ <<";">>[Len(<<";">>)] \notin Letters
  <2>1. ";" \in Symbols /\ ";" \notin Letters
    BY LettersTyped, NoLetter
  <2>2. \A S, M : \A x \in S : x \notin M =>
          <<x>> \in Seq(S) /\ <<x>> # <<>> /\ <<x>>[Len(<<x>>)] \notin M
    OBVIOUS
  <2> HIDE DEF Symbols, Letters
  <2> QED
    BY ONLY <2>1, <2>2
<1> HIDE DEF t
<1>3. LastAt(Upper(t), <<";">>) = LastAt(Upper(s), <<";">>)
  BY <1>1, <1>2
<1>4. \A p \in {ProcSpace, DataSpace, RunEnd} : LastAt(Upper(t), p) = LastAt(Upper(s), p)
  BY <1>1, PlacesAre
<1> QED
  BY <1>3, <1>4 DEF InProcStatement, InDataStep, t

\* The last word goes from behind a place to the end.
LEMMA LastWordGoes ==
  ASSUME NEW s \in Seq(Symbols), NEW b, BeginsBehind(b, s, TokenChars, Len(s))
  PROVE  /\ LastWord(s) \in Seq(Symbols) /\ Len(LastWord(s)) = Len(s) - b
         /\ b \in Nat /\ Len(s) \in Nat /\ b <= Len(s)
         /\ \A i \in 1 .. Len(s) - b : LastWord(s)[i] = s[b + i]
<1> DEFINE n == Len(s)
           a == b + 1
           w == SubSeq(s, a, n)
<1>1. n \in Nat /\ b \in 0 .. n
  BY DEF BeginsBehind
<1>2. WordStart(s, TokenChars, n) = b
  <2> HIDE DEF n
  <2> QED
    BY <1>1, WordStartUnique DEF n
<1>3. LastWord(s) = w
  BY <1>2 DEF LastWord, TokenChars
<1>4. a \in Int /\ n \in Int /\ \A i \in a .. n : s[i] \in Symbols
  BY <1>1
<1>5. /\ w \in Seq(Symbols) /\ Len(w) = IF a <= n THEN n - a + 1 ELSE 0
      /\ \A i \in 1 .. n - a + 1 : w[i] = s[a + i - 1]
  <2> HIDE DEF a, n
  <2> QED
    BY <1>4, SubSeqProperties
<1> HIDE DEF w
<1>6. Len(w) = n - b
  <2>1. Len(w) = IF b + 1 <= n THEN n - (b + 1) + 1 ELSE 0
    BY ONLY <1>5
  <2> HIDE DEF n, a
  <2> QED
    BY ONLY <1>1, <2>1
<1>7. n - a + 1 = n - b /\ \A i \in 1 .. n - b : a + i - 1 = b + i
  BY <1>1
<1>8. \A i \in 1 .. n - b : w[i] = s[b + i]
  BY <1>5, <1>7
<1> QED
  BY <1>1, <1>3, <1>5, <1>6, <1>8

\* Capital letters begin and end words where the others do.
LEMMA LastWordUpper ==
  ASSUME NEW s \in Seq(Symbols)
  PROVE  LastWord(Upper(s)) = Upper(LastWord(s))
<1> DEFINE n == Len(s)
           b == WordStart(s, TokenChars, n)
           u == Upper(s)
           w == LastWord(s)
           x == LastWord(u)
           y == Upper(w)
<1>1. n \in Nat /\ \A i \in 1 .. n : s[i] \in Symbols
  OBVIOUS
<1>2. BeginsBehind(b, s, TokenChars, n)
  <2> HIDE DEF n
  <2> QED
    BY <1>1, WordStartIs
<1> HIDE DEF b
<1>3. u \in Seq(Symbols) /\ Len(u) = n /\ \A i \in 1 .. n : u[i] = ToUpper(s[i])
  BY UpperType
<1> HIDE DEF u
<1>4. BeginsBehind(b, u, TokenChars, n)
  <2>1. b \in 0 .. n
    BY <1>2 DEF BeginsBehind
  <2>2. \A i \in 1 .. n : u[i] \in TokenChars <=> s[i] \in TokenChars
    BY <1>1, <1>3, UpperLetters
  <2>3. \A i \in b + 1 .. n : i \in 1 .. n
    BY <1>1, <2>1
  <2>4. b # 0 => b \in 1 .. n
    BY <1>1, <2>1
  <2> HIDE DEF n
  <2> QED
    BY <1>2, <2>1, <2>2, <2>3, <2>4 DEF BeginsBehind
<1>5. /\ w \in Seq(Symbols) /\ Len(w) = n - b /\ b \in Nat /\ b <= n
      /\ \A i \in 1 .. n - b : w[i] = s[b + i]
  BY <1>2, LastWordGoes
<1>6. BeginsBehind(b, u, TokenChars, Len(u))
  BY <1>3, <1>4
<1>7. /\ x \in Seq(Symbols) /\ Len(x) = n - b /\ \A i \in 1 .. n - b : x[i] = u[b + i]
  <2>1. u \in Seq(Symbols) /\ BeginsBehind(b, u, TokenChars, Len(u))
    BY <1>3, <1>6
  <2>2. /\ x \in Seq(Symbols) /\ Len(x) = Len(u) - b
        /\ \A i \in 1 .. Len(u) - b : x[i] = u[b + i]
    BY <2>1, LastWordGoes
  <2> QED
    BY <1>3, <2>2
<1> HIDE DEF w, x
<1>8. /\ y \in Seq(Symbols) /\ Len(y) = n - b
      /\ \A i \in 1 .. n - b : y[i] = ToUpper(w[i])
  BY <1>5, UpperType
<1> HIDE DEF y, n
<1>9. \A i \in 1 .. n - b : x[i] = y[i]
  <2> TAKE i \in 1 .. n - b
  <2> DEFINE j == b + i
  <2>1. j \in 1 .. n
    BY <1>1, <1>5
  <2>2. x[i] = u[j] /\ w[i] = s[j] /\ y[i] = ToUpper(w[i])
    BY <1>5, <1>7, <1>8
  <2> HIDE DEF j
  <2> QED
    BY <1>3, <2>1, <2>2
<1>10. x = y
  BY <1>7, <1>8, <1>9, SeqEqual
<1> QED
  BY <1>10 DEF x, y, u, w

\* Letters go on with the word that is there.
LEMMA WordGoesOn ==
  ASSUME NEW s, NEW more, Extended(s, more), LastWord(s) # <<>>
  PROVE  LET w == LastWord(s)
             v == LastWord(s \o more)
         IN  /\ w \in Seq(Symbols) /\ v \in Seq(Symbols) /\ v # <<>> /\ v[1] = w[1]
             /\ Len(w) \in Nat \ {0} /\ Len(v) \in Nat \ {0}
             /\ s # <<>> /\ w[Len(w)] = Last(s)
             /\ s \o more # <<>> /\ Last(s \o more) \in Letters
<1> DEFINE n == Len(s)
           t == s \o more
           k == Len(t)
           b == WordStart(s, TokenChars, n)
           w == LastWord(s)
           v == LastWord(t)
<1>1. s \in Seq(Symbols) /\ n \in Nat
  BY DEF Extended
<1>2. /\ t \in Seq(Symbols) /\ k = n + Len(more) /\ Len(more) \in Nat \ {0}
      /\ \A i \in 1 .. n : t[i] = s[i]
      /\ \A i \in n + 1 .. n + Len(more) : t[i] \in Letters
  BY ExtendedFacts
<1>3. BeginsBehind(b, s, TokenChars, n)
  <2> HIDE DEF n
  <2> QED
    BY <1>1, WordStartIs
<1> HIDE DEF b, t
<1>4. /\ w \in Seq(Symbols) /\ Len(w) = n - b /\ b \in Nat /\ b <= n
      /\ \A i \in 1 .. n - b : w[i] = s[b + i]
  BY <1>1, <1>3, LastWordGoes
<1>5. BeginsBehind(b, t, TokenChars, k)
  <2>1. b \in 0 .. k
    BY <1>1, <1>2, <1>4
  <2>2. \A i \in b + 1 .. k : t[i] \in TokenChars
    <3> TAKE i \in b + 1 .. k
    <3>1. i \in b + 1 .. n \/ i \in n + 1 .. n + Len(more)
      BY <1>1, <1>2, <1>4
    <3>2. CASE i \in b + 1 .. n
      <4>1. i \in 1 .. n
        BY <1>4, <3>2
      <4> QED
        BY <1>2, <1>3, <3>2, <4>1 DEF BeginsBehind
    <3>3. CASE i \in n + 1 .. n + Len(more)
      BY <1>2, <3>3 DEF TokenChars
    <3> QED
      BY <3>1, <3>2, <3>3
  <2>3. b # 0 => t[b] \notin TokenChars
    <3>1. b # 0 => b \in 1 .. n
      BY <1>1, <1>4
    <3> QED
      BY <1>2, <1>3, <3>1 DEF BeginsBehind
  <2> QED
    BY <2>1, <2>2, <2>3 DEF BeginsBehind
<1>6. /\ v \in Seq(Symbols) /\ Len(v) = k - b
      /\ \A i \in 1 .. k - b : v[i] = t[b + i]
  BY <1>2, <1>5, LastWordGoes
<1> HIDE DEF w, v, n, k
<1>7. n - b \in Nat \ {0} /\ k - b \in Nat \ {0} /\ k \in Nat
  <2>1. w # <<>>
    BY DEF w
  <2> QED
    BY <1>1, <1>2, <1>4, <2>1
<1>8. v[1] = w[1]
  <2> DEFINE j == b + 1
  <2>1. 1 \in 1 .. n - b /\ 1 \in 1 .. k - b /\ j \in 1 .. n
    BY <1>1, <1>4, <1>7
  <2>2. v[1] = t[j] /\ w[1] = s[j]
    BY <1>4, <1>6, <2>1
  <2> HIDE DEF j
  <2> QED
    BY <1>2, <2>1, <2>2
<1>9. w[Len(w)] = s[n]
  <2> DEFINE l == n - b
  <2>1. l \in 1 .. n - b /\ b + l = n
    BY <1>1, <1>4, <1>7
  <2>2. w[l] = s[b + l]
    BY <1>4, <2>1
  <2> QED
    BY <1>4, <2>1, <2>2
<1>10. s # <<>> /\ t # <<>> /\ n # 0
  BY <1>1, <1>2, <1>4, <1>7 DEF n, k
<1>11. t[k] \in Letters
  <2>1. k \in n + 1 .. n + Len(more)
    BY <1>1, <1>2
  <2> QED
    BY <1>2, <2>1
<1> QED
  BY <1>4, <1>6, <1>7, <1>8, <1>9, <1>10, <1>11 DEF Last, w, v, t, n, k

\* The first symbol decides whether the % has been left out.
LEMMA MacroTowards ==
  ASSUME NEW v \in Seq(Symbols), v # <<>>, NEW m \in Macros, Towards(Upper(v), m)
  PROVE  m \in MacroCompletions(v)
<1> DEFINE u == Upper(v)
<1>1. Len(v) \in Nat \ {0} /\ 1 \in 1 .. Len(v) /\ v[1] \in Symbols
  OBVIOUS
<1>2. u \in Seq(Symbols) /\ Len(u) = Len(v) /\ u[1] = ToUpper(v[1])
  BY <1>1, UpperType
<1>3. u[1] = "%" <=> v[1] = "%"
  BY <1>1, <1>2, UpperLetters
<1>4. /\ m \in Seq(Symbols) /\ m[1] = "%" /\ Tail(m) \in Seq(Symbols)
      /\ Len(m) \in {4, 5} /\ Len(Tail(m)) = Len(m) - 1 /\ Tail(m)[1] # "%"
  <2>1. TokenChars \subseteq Symbols
    BY DEF TokenChars, Symbols
  <2>2. \A x \in Seq(TokenChars) : x \in Seq(Symbols)
    BY <2>1, SeqMonotonic
  <2>3. 1 \in 1 .. Len(m) - 1
    <3>1. Len(m) \in {4, 5}
      BY ONLY MacroLooks
    <3>2. \A k \in {4, 5} : 1 \in 1 .. k - 1
      OBVIOUS
    <3> QED
      BY ONLY <3>1, <3>2
  <2> QED
    BY <2>2, <2>3, MacroLooks
<1> HIDE DEF u
<1>5. IsPrefix(u, m) => u[1] = m[1]
  BY <1>1, <1>2, <1>4, PrefixElements
<1> DEFINE rest == Tail(m)
<1>6. rest \in Seq(Symbols) /\ rest[1] # "%"
  BY <1>4
<1> HIDE DEF rest
<1>7. IsPrefix(u, rest) => u[1] = rest[1]
  BY <1>1, <1>2, <1>6, PrefixElements
<1>8. IsPrefix(u, m) \/ IsPrefix(u, rest)
  BY DEF Towards, u, rest
<1>9. CASE v[1] = "%"
  <2>1. IsPrefix(u, m)
    BY <1>3, <1>6, <1>7, <1>8, <1>9
  <2> QED
    BY <1>9, <2>1 DEF MacroCompletions, Matching, u
<1>10. CASE v[1] # "%"
  <2>1. IsPrefix(u, rest)
    BY <1>3, <1>4, <1>5, <1>8, <1>10
  <2> QED
    BY <1>10, <2>1 DEF MacroCompletions, u, rest
<1> QED
  BY <1>9, <1>10

\* A word that ends with a % and for which macros are offered is the % alone.
LEMMA PercentAlone ==
  ASSUME NEW w \in Seq(Symbols), w # <<>>, w[Len(w)] = "%", NEW m \in MacroCompletions(w)
  PROVE  w = <<"%">>
<1> DEFINE u == Upper(w)
           n == Len(w)
<1>1. n \in Nat \ {0} /\ n \in 1 .. n /\ w[n] = "%"
  OBVIOUS
<1>2. u \in Seq(Symbols) /\ Len(u) = n /\ u[n] = ToUpper(w[n])
  BY <1>1, UpperType
<1>3. u[n] = "%"
  BY <1>1, <1>2, UpperLetters
<1>4. m \in Macros
  BY DEF MacroCompletions, Matching
<1>5. \A x \in Seq(TokenChars) : x \in Seq(Symbols)
  <2>1. TokenChars \subseteq Symbols
    BY DEF TokenChars, Symbols
  <2> QED
    BY <2>1, SeqMonotonic
<1> DEFINE rest == Tail(m)
<1>6. /\ m \in Seq(Symbols) /\ Len(m) \in Nat /\ \A k \in 2 .. Len(m) : m[k] # "%"
      /\ rest \in Seq(Symbols) /\ Len(rest) \in Nat /\ \A k \in 1 .. Len(rest) : rest[k] # "%"
  BY <1>4, <1>5, MacroLooks
<1> HIDE DEF u, rest
<1>7. ~IsPrefix(u, rest)
  <2> SUFFICES ASSUME IsPrefix(u, rest) PROVE FALSE
    OBVIOUS
  <2>1. Len(u) <= Len(rest) /\ \A k \in 1 .. Len(u) : u[k] = rest[k]
    BY <1>2, <1>6, PrefixElements
  <2>2. n \in 1 .. Len(rest) /\ u[n] = rest[n]
    BY <1>1, <1>2, <1>6, <2>1
  <2> QED
    BY <1>3, <1>6, <2>2
<1>8. IsPrefix(u, m)
  BY <1>7 DEF MacroCompletions, Matching, u, rest
<1>9. Len(u) <= Len(m) /\ \A k \in 1 .. Len(u) : u[k] = m[k]
  BY <1>2, <1>6, <1>8, PrefixElements
<1>10. n \in 1 .. Len(m) /\ u[n] = m[n]
  BY <1>1, <1>2, <1>6, <1>9
<1>11. n = 1
  <2>1. ~(n \in 2 .. Len(m))
    BY <1>3, <1>6, <1>10
  <2> QED
    <3>1. n \in Nat /\ Len(m) \in Nat /\ n \in 1 .. Len(m)
      BY <1>1, <1>6, <1>10
    <3> HIDE DEF n
    <3> QED
      BY ONLY <2>1, <3>1
<1>12. w[1] = "%"
  BY <1>1, <1>11
<1> QED
  BY <1>11, <1>12

LEMMA OffersGrow ==
  ASSUME NEW s, NEW more, Extended(s, more), LastWord(s) # <<>>,
         ~(LastWord(s) = <<"%">> /\ InDataStep(s)),
         NEW m \in OfferedFor(s), Towards(LastWord(Upper(s \o more)), m)
  PROVE  m \in OfferedFor(s \o more)
<1> DEFINE t == s \o more
           w == LastWord(s)
           v == LastWord(t)
<1>1. /\ w \in Seq(Symbols) /\ v \in Seq(Symbols) /\ w # <<>> /\ v # <<>> /\ v[1] = w[1]
      /\ s # <<>> /\ t # <<>> /\ w[Len(w)] = Last(s) /\ Last(t) # "%"
  <2>1. "%" \notin Letters
    BY NoLetter
  <2> QED
    BY <2>1, WordGoesOn
<1>2. InProcStatement(t) = InProcStatement(s) /\ InDataStep(t) = InDataStep(s)
  BY SameContext
<1>3. Towards(Upper(v), m)
  <2>1. t \in Seq(Symbols)
    BY ExtendedFacts
  <2> HIDE DEF t
  <2>2. LastWord(Upper(t)) = Upper(v)
    BY <2>1, LastWordUpper
  <2> QED
    BY <2>2 DEF t
<1>4. m \in Completions(s, w)
  BY DEF OfferedFor
<1> HIDE DEF t, w, v
<1>5. \A K : m \in Matching(K, w) => m \in K
  BY DEF Matching
<1>6. m \notin Macros => \A K : m \in K => m \in Matching(K, v)
  BY <1>3 DEF Towards, Matching
<1>7. m \in Macros => m \in MacroCompletions(v)
  BY <1>1, <1>3, MacroTowards
<1>8. CASE InProcStatement(s)
  <2>1. Context(s) = "proc" /\ Context(t) = "proc"
    BY <1>2, <1>8 DEF Context
  <2>2. m \in Procedures
    BY <1>1, <1>4, <1>5, <2>1 DEF Completions
  <2>3. m \in Matching(Procedures, v)
    BY <1>6, <2>2, OtherKeywords
  <2> QED
    BY <1>1, <2>1, <2>3 DEF Completions, OfferedFor, v, t
<1>9. CASE ~InProcStatement(s) /\ Last(s) = "%"
  <2>1. Context(s) = "macro"
    BY <1>1, <1>9 DEF Context
  <2>2. m \in MacroCompletions(w)
    BY <1>1, <1>4, <2>1 DEF Completions
  <2>3. w = <<"%">>
    BY <1>1, <1>9, <2>2, PercentAlone
  <2>4. ~InDataStep(t)
    BY <1>2, <2>3 DEF w
  <2>5. Context(t) = "general"
    BY <1>1, <1>2, <1>9, <2>4 DEF Context
  <2>6. m \in MacroCompletions(v)
    BY <1>7, <2>2 DEF MacroCompletions, Matching
  <2>7. m \in GeneralCompletions(v)
    BY <2>6 DEF GeneralCompletions
  <2> QED
    BY <1>1, <2>5, <2>7 DEF Completions, OfferedFor, v, t
<1>10. CASE ~InProcStatement(s) /\ Last(s) # "%" /\ InDataStep(s)
  <2>1. Context(s) = "data_step"
    BY <1>1, <1>10 DEF Context
  <2>2. Context(t) = "data_step"
    BY <1>1, <1>2, <1>10 DEF Context
  <2>3. m \in DataKeywords
    BY <1>1, <1>4, <1>5, <2>1 DEF Completions, DataCompletions
  <2>4. m \in Matching(DataKeywords, v)
    BY <1>6, <2>3, OtherKeywords
  <2> QED
    BY <1>1, <2>2, <2>4 DEF Completions, DataCompletions, OfferedFor, v, t
<1>11. CASE ~InProcStatement(s) /\ Last(s) # "%" /\ ~InDataStep(s)
  <2>1. Context(s) = "general"
    BY <1>1, <1>11 DEF Context
  <2>2. Context(t) = "general"
    BY <1>1, <1>2, <1>11 DEF Context
  <2>3. m \in GeneralCompletions(w)
    BY <1>1, <1>4, <2>1 DEF Completions
  <2>4. m \in Procedures \/ m \in DataKeywords \/ m \in GlobalStatements \/ m \in Macros
    <3>1. MacroCompletions(w) \subseteq Macros
      BY DEF MacroCompletions, Matching
    <3> QED
      BY <1>5, <2>3, <3>1 DEF GeneralCompletions, DataCompletions
  <2>5. m \in GeneralCompletions(v)
    BY <1>6, <1>7, <2>4 DEF GeneralCompletions, DataCompletions
  <2> QED
    BY <1>1, <2>2, <2>5 DEF Completions, OfferedFor, v, t
<1> QED
  BY <1>8, <1>9, <1>10, <1>11

\* A step that changes the text: letters have been typed, or the cell is new.
LEMMA OffersStep ==
  ASSUME EditorInv, [RequestsNext]_requestsVars
  PROVE  \/ text' = text
         \/ LET more == SubSeq(text', Len(text) + 1, Len(text'))
            IN  Ascii(text) /\ Len(text') > Len(text)
                  /\ ToSet(more) \subseteq Letters
                  /\ ~(LastWord(text) = <<"%">> /\ InDataStep(text))
                => \A m \in OfferedFor(text) :
                     LastWord(text) # <<>> /\ Towards(LastWord(Upper(text')), m)
                       => m \in OfferedFor(text')
<1>1. text \in Seq(Symbols) /\ Len(text) \in Nat
  BY DEF EditorInv
<1>2. text' = text \/ text' = <<>> \/ \E s \in Strokes : text' = text \o s
  BY DEF RequestsNext, Edit, Serve, EditorNext, Type, Complete, Inspect, IsComplete, Send,
         requestsVars, editorVars
<1>3. CASE text' = text
  BY <1>3
<1>4. CASE text' = <<>>
  <2>1. ~(Len(text') > Len(text))
    BY <1>1, <1>4
  <2> QED
    BY <2>1
<1>5. ASSUME NEW s \in Strokes, text' = text \o s
      PROVE  LET more == SubSeq(text', Len(text) + 1, Len(text'))
             IN  Len(text') > Len(text) /\ ToSet(more) \subseteq Letters
                   => Extended(text, s)
  <2> DEFINE t == text \o s
             a == Len(text) + 1
             more == SubSeq(t, a, Len(t))
  <2> SUFFICES ASSUME Len(t) > Len(text), ToSet(more) \subseteq Letters
               PROVE  Extended(text, s)
    BY <1>5
  <2>1. s \in Seq(Symbols) /\ Len(s) \in Nat
    BY EditorAssumption
  <2>2. /\ t \in Seq(Symbols) /\ Len(t) = Len(text) + Len(s)
        /\ \A i \in 1 .. Len(text) + Len(s) :
             t[i] = IF i <= Len(text) THEN text[i] ELSE s[i - Len(text)]
    BY <1>1, <2>1, ConcatProperties
  <2> HIDE DEF t
  <2>3. /\ Len(t) \in Nat /\ a \in Int /\ a >= 1 /\ Len(t) - a + 1 = Len(s)
        /\ \A i \in a .. Len(t) : t[i] \in Symbols
    BY <1>1, <2>1, <2>2
  <2> DEFINE n == Len(t)
  <2> HIDE DEF a, n
  <2>4. /\ more \in Seq(Symbols) /\ Len(more) = IF a <= n THEN n - a + 1 ELSE 0
        /\ \A i \in 1 .. n - a + 1 : more[i] = t[a + i - 1]
    BY <2>3, SubSeqProperties DEF n
  <2> HIDE DEF more
  <2>5. Len(more) = Len(s)
    BY <2>1, <2>3, <2>4 DEF n
  <2>6. \A i \in 1 .. Len(s) : more[i] = s[i]
    <3> TAKE i \in 1 .. Len(s)
    <3> DEFINE j == a + i - 1
    <3>1. j \in 1 .. Len(text) + Len(s) /\ ~(j <= Len(text)) /\ j - Len(text) = i
      BY <1>1, <2>1 DEF a
    <3>2. more[i] = t[j]
      BY <2>3, <2>4 DEF n
    <3> HIDE DEF j
    <3> QED
      BY <2>2, <3>1, <3>2
  <2>7. more = s
    BY <2>1, <2>4, <2>5, <2>6, SeqEqual
  <2>8. s \in Seq(Letters)
    <3>1. \A i \in 1 .. Len(s) : s[i] \in Letters
      <4>1. DOMAIN s = 1 .. Len(s)
        BY <2>1
      <4> QED
        BY <2>7, <4>1 DEF ToSet
    <3> QED
      BY <2>1, <3>1
  <2>9. s # <<>>
    BY <1>1, <2>1, <2>2
  <2> QED
    BY <1>1, <2>8, <2>9 DEF Extended
<1>6. CASE \E s \in Strokes : text' = text \o s
  <2>1. PICK s \in Strokes : text' = text \o s
    BY <1>6
  <2>2. ASSUME Extended(text, s), LastWord(text) # <<>>,
               ~(LastWord(text) = <<"%">> /\ InDataStep(text)), NEW m \in OfferedFor(text),
               Towards(LastWord(Upper(text \o s)), m)
        PROVE  m \in OfferedFor(text \o s)
    BY <2>2, OffersGrow
  <2> QED
    BY <1>5, <2>1, <2>2
<1> QED
  BY <1>2, <1>3, <1>4, <1>6

\* A keyword that is offered is still offered when one types on towards it, but for
\* what was offered for a % in a DATA step.
THEOREM RequestsStaysOffered == RequestsSpec => StaysOffered
<1>1. EditorInv /\ [RequestsNext]_requestsVars
        => [LET more == SubSeq(text', Len(text) + 1, Len(text'))
            IN  Ascii(text) /\ Len(text') > Len(text)
                  /\ ToSet(more) \subseteq Letters
                  /\ ~(LastWord(text) = <<"%">> /\ InDataStep(text))
                => \A m \in OfferedFor(text) :
                     LastWord(text) # <<>> /\ Towards(LastWord(Upper(text')), m)
                       => m \in OfferedFor(text')]_text
  BY OffersStep
<1> QED
  BY <1>1, EditorInvariant, PTL DEF RequestsSpec, StaysOffered

-----------------------------------------------------------------------------
(***************************************************************************)
(* A cell can always be completed.                                         *)
(***************************************************************************)
-----------------------------------------------------------------------------
(***************************************************************************)
(* A line RUN; for each step.                                              *)
(***************************************************************************)
RunLine == <<"\n">> \o RunEnd
RunBytes == {"\n", "R", "U", "N", ";"}
RunLines(n) == [i \in 1 .. n |-> RunLine]
RunText(n) == FlattenSeq(RunLines(n))

RunsAre(n, r) ==
  /\ r \in Seq(RunBytes) /\ Len(r) = 5 * n
  /\ \A k \in 1 .. n, j \in 1 .. 5 : r[5 * k - 5 + j] = RunLine[j]

LEMMA RunLineType ==
  /\ RunLine \in Seq(RunBytes) /\ Len(RunLine) = 5
  /\ RunLine[1] = "\n" /\ RunLine[2] = "R" /\ RunLine[3] = "U" /\ RunLine[4] = "N"
  /\ RunLine[5] = ";"
<1> DEFINE e == RunEnd
           o == <<"\n">>
<1>1. /\ e \in Seq(RunBytes) /\ Len(e) = 4
      /\ e[1] = "R" /\ e[2] = "U" /\ e[3] = "N" /\ e[4] = ";"
  BY DEF RunBytes, RunEnd
<1>2. o \in Seq(RunBytes) /\ Len(o) = 1 /\ o[1] = "\n"
  BY DEF RunBytes
<1> HIDE DEF e, o
<1>3. /\ o \o e \in Seq(RunBytes) /\ Len(o \o e) = Len(o) + Len(e)
      /\ \A i \in 1 .. Len(o) + Len(e) :
           (o \o e)[i] = IF i <= Len(o) THEN o[i] ELSE e[i - Len(o)]
  BY <1>1, <1>2, ConcatProperties
<1> DEFINE l == o \o e
<1> HIDE DEF l
<1>4. /\ l \in Seq(RunBytes) /\ Len(l) = 5
      /\ \A i \in 1 .. 5 : l[i] = IF i <= 1 THEN o[i] ELSE e[i - 1]
  <2>1. Len(o) = 1 /\ Len(e) = 4
    BY <1>1, <1>2
  <2>2. /\ l \in Seq(RunBytes) /\ Len(l) = Len(o) + Len(e)
        /\ \A i \in 1 .. Len(o) + Len(e) :
             l[i] = IF i <= Len(o) THEN o[i] ELSE e[i - Len(o)]
    BY ONLY <1>3 DEF l
  <2> QED
    BY ONLY <2>1, <2>2
<1>5. l[1] = o[1] /\ l[2] = e[1] /\ l[3] = e[2] /\ l[4] = e[3] /\ l[5] = e[4]
  BY <1>4
<1> QED
  BY <1>1, <1>2, <1>4, <1>5 DEF RunLine, l, o, e

LEMMA RunLineIsText == RunLine \in Seq(RunBytes)
BY ONLY RunLineType

LEMMA RunLinesMore ==
  ASSUME NEW n \in Nat
  PROVE  RunLines(n) \in Seq(Seq(RunBytes)) /\ RunLines(n + 1) = Append(RunLines(n), RunLine)
<1> DEFINE p == RunLines(n)
           q == RunLines(n + 1)
           a == Append(p, RunLine)
<1>1. /\ p \in Seq(Seq(RunBytes)) /\ Len(p) = n /\ \A i \in 1 .. n : p[i] = RunLine
      /\ q \in Seq(Seq(RunBytes)) /\ Len(q) = n + 1 /\ \A i \in 1 .. n + 1 : q[i] = RunLine
  BY RunLineIsText DEF RunLines
<1> HIDE DEF p, q
<1>2. /\ a \in Seq(Seq(RunBytes)) /\ Len(a) = Len(p) + 1
      /\ \A i \in 1 .. Len(p) : a[i] = p[i]
      /\ a[Len(p) + 1] = RunLine
  BY <1>1, RunLineIsText, AppendProperties
<1> HIDE DEF a
<1>3. \A i \in 1 .. n + 1 : a[i] = q[i]
  <2> TAKE i \in 1 .. n + 1
  <2>1. i \in 1 .. n \/ i = n + 1
    OBVIOUS
  <2> QED
    BY <1>1, <1>2, <2>1
<1>4. a = q
  BY <1>1, <1>2, <1>3, SeqEqual
<1> QED
  BY <1>1, <1>4 DEF p, q, a

LEMMA RunTextIs ==
  ASSUME NEW n \in Nat
  PROVE  RunsAre(n, RunText(n))
<1> DEFINE S == {k \in 0 .. n : RunsAre(k, RunText(k))}
<1>1. 0 \in S
  <2>1. RunLines(0) = <<>>
    BY DEF RunLines
  <2>2. RunText(0) = <<>>
    BY <2>1, FlattenEmpty DEF RunText
  <2>3. RunsAre(0, <<>>)
    BY DEF RunsAre
  <2> QED
    BY <2>2, <2>3
<1>2. \A k \in 0 .. n - 1 : k \in S => k + 1 \in S
  <2> SUFFICES ASSUME NEW k \in 0 .. n - 1, RunsAre(k, RunText(k))
               PROVE  RunsAre(k + 1, RunText(k + 1))
    OBVIOUS
  <2> DEFINE r == RunText(k)
             t == r \o RunLine
             l == 5 * k
  <2>1. k \in Nat /\ l \in Nat
    OBVIOUS
  <2>2. RunText(k + 1) = t
    BY <2>1, RunLinesMore, RunLineType, FlattenAppend DEF RunText
  <2>3. /\ r \in Seq(RunBytes) /\ Len(r) = l
        /\ \A j \in 1 .. k, q \in 1 .. 5 : r[5 * j - 5 + q] = RunLine[q]
    BY DEF RunsAre
  <2>10. l = 5 * k
    OBVIOUS
  <2> HIDE DEF r, l
  <2>4. /\ t \in Seq(RunBytes) /\ Len(t) = Len(r) + Len(RunLine)
        /\ \A i \in 1 .. Len(r) + Len(RunLine) :
             t[i] = IF i <= Len(r) THEN r[i] ELSE RunLine[i - Len(r)]
    BY <2>3, RunLineIsText, ConcatProperties
  <2> HIDE DEF t
  <2>5. \A i \in 1 .. l : t[i] = r[i]
    <3> TAKE i \in 1 .. l
    <3>1. i \in 1 .. l + 5 /\ i <= l
      BY <2>1
    <3> QED
      BY <2>3, <2>4, <3>1, RunLineType
  <2>6. \A i \in 1 .. 5 : t[l + i] = RunLine[i]
    <3> TAKE i \in 1 .. 5
    <3> DEFINE j == l + i
    <3>1. j \in 1 .. l + 5 /\ ~(j <= l) /\ j - l = i
      BY <2>1
    <3> HIDE DEF j
    <3>2. t[j] = RunLine[i]
      BY <2>3, <2>4, <3>1, RunLineType
    <3> QED
      BY <3>2 DEF j
  <2>8. \A j \in 1 .. k + 1, q \in 1 .. 5 : t[5 * j - 5 + q] = RunLine[q]
    <3> TAKE j \in 1 .. k + 1, q \in 1 .. 5
    <3>1. CASE j = k + 1
      <4>1. 5 * j - 5 + q = l + q
        BY <2>1, <2>10, <3>1
      <4> QED
        BY <2>6, <4>1
    <3>2. CASE j # k + 1
      <4> DEFINE a == 5 * j - 5 + q
      <4>1. j \in 1 .. k /\ a \in 1 .. l
        BY <2>1, <2>10, <3>2
      <4>2. r[a] = RunLine[q]
        BY <2>3, <4>1
      <4> HIDE DEF a
      <4>3. t[a] = RunLine[q]
        BY <2>5, <4>1, <4>2
      <4> QED
        BY <4>3 DEF a
    <3> QED
      BY <3>1, <3>2
  <2>9. Len(t) = 5 * (k + 1)
    <3>1. Len(t) = l + 5
      BY <2>3, <2>4, RunLineType
    <3> QED
      BY <2>1, <2>10, <3>1
  <2> QED
    BY <2>2, <2>4, <2>8, <2>9 DEF RunsAre
<1> HIDE DEF S
<1>3. \A k \in 0 .. n : k \in S
  BY <1>1, <1>2, UpToInduction
<1> QED
  BY <1>3 DEF S

\* A text that has been completed with n lines RUN;.
Completed(c, n) == c \o RunText(n)

LEMMA CompletedIs ==
  ASSUME NEW c \in Seq(Bytes), NEW n \in Nat
  PROVE  LET d == Completed(c, n)
             l == Len(c)
         IN  /\ d \in Seq(Bytes) /\ l \in Nat /\ Len(d) = l + 5 * n
             /\ \A i \in 1 .. l : d[i] = c[i]
             /\ \A i \in l + 1 .. l + 5 * n : d[i] \in RunBytes
             /\ \A k \in 1 .. n, j \in 1 .. 5 : d[l + (5 * k - 5 + j)] = RunLine[j]
<1> DEFINE r == RunText(n)
           d == c \o r
           l == Len(c)
           m == 5 * n
<1>1. l \in Nat /\ m \in Nat
  OBVIOUS
<1>2. /\ r \in Seq(RunBytes) /\ Len(r) = m
      /\ \A k \in 1 .. n, j \in 1 .. 5 : r[5 * k - 5 + j] = RunLine[j]
  BY RunTextIs DEF RunsAre
<1> HIDE DEF r
<1>3. r \in Seq(Bytes)
  <2>1. RunBytes \subseteq Bytes
    BY LettersTyped DEF RunBytes, Bytes, Symbols, Capitals
  <2> QED
    BY <1>2, <2>1, SeqMonotonic
<1>4. /\ d \in Seq(Bytes) /\ Len(d) = l + Len(r)
      /\ \A i \in 1 .. l + Len(r) : d[i] = IF i <= l THEN c[i] ELSE r[i - l]
  BY <1>3, ConcatProperties
<1> HIDE DEF d, l, m
<1>5. \A i \in 1 .. l : d[i] = c[i]
  <2> TAKE i \in 1 .. l
  <2>1. i \in 1 .. l + m /\ i <= l
    BY <1>1
  <2> QED
    BY <1>2, <1>4, <2>1
<1>6. \A i \in 1 .. m : d[l + i] = r[i]
  <2> TAKE i \in 1 .. m
  <2> DEFINE j == l + i
  <2>1. j \in 1 .. l + m /\ ~(j <= l) /\ j - l = i
    BY <1>1
  <2> HIDE DEF j
  <2>2. d[j] = r[i]
    BY <1>2, <1>4, <2>1
  <2> QED
    BY <2>2 DEF j
<1>7. \A i \in l + 1 .. l + m : d[i] \in RunBytes
  <2> TAKE i \in l + 1 .. l + m
  <2> DEFINE j == i - l
  <2>1. j \in 1 .. m /\ l + j = i
    BY <1>1
  <2> HIDE DEF j
  <2>2. r[j] \in RunBytes
    <3>1. r \in Seq(RunBytes) /\ Len(r) = m
      BY <1>2
    <3>2. \A N : \A x \in Seq(N) : \A o \in 1 .. Len(x) : x[o] \in N
      BY ONLY TRUE
    <3> QED
      BY ONLY <2>1, <3>1, <3>2
  <2>3. d[l + j] = r[j]
    BY <1>6, <2>1
  <2> QED
    BY <2>1, <2>2, <2>3
<1>8. \A k \in 1 .. n, j \in 1 .. 5 : d[l + (5 * k - 5 + j)] = RunLine[j]
  <2> TAKE k \in 1 .. n, j \in 1 .. 5
  <2> DEFINE a == 5 * k - 5 + j
  <2>1. a \in 1 .. m
    BY DEF m
  <2>2. r[a] = RunLine[j]
    BY <1>2
  <2> HIDE DEF a
  <2>3. d[l + a] = RunLine[j]
    BY <1>6, <2>1, <2>2
  <2> QED
    BY <2>3 DEF a
<1> QED
  BY <1>1, <1>2, <1>4, <1>5, <1>7, <1>8 DEF d, l, m, r, Completed

-----------------------------------------------------------------------------
(***************************************************************************)
(* How many lines there are with a part.                                   *)
(***************************************************************************)
LinesOf(code, places) == {LineOf(code, i) : i \in places}

LEMMA LinesBounded ==
  ASSUME NEW code, NEW places, IsFiniteSet(places)
  PROVE  /\ IsFiniteSet(LinesOf(code, places)) /\ Cardinality(places) \in Nat
         /\ Cardinality(LinesOf(code, places)) \in Nat
         /\ Cardinality(LinesOf(code, places)) <= Cardinality(places)
<1> DEFINE lines == LinesOf(code, places)
           f == [i \in places |-> LineOf(code, i)]
<1>1. f \in [places -> lines] /\ \A t \in lines : \E s \in places : f[s] = t
  BY DEF LinesOf
<1> HIDE DEF f, lines
<1>2. f \in Surjection(places, lines)
  BY <1>1 DEF Surjection
<1>3. IsFiniteSet(lines) /\ Cardinality(lines) <= Cardinality(places)
  BY <1>2, FS_Surjection
<1>4. Cardinality(lines) \in Nat /\ Cardinality(places) \in Nat
  BY <1>3, FS_CardinalityType
<1> QED
  BY <1>3, <1>4 DEF lines

LEMMA LaterLine ==
  ASSUME NEW code, NEW i \in Nat, NEW m \in Nat, NEW j \in Nat,
         0 < i, i <= m, m < j, code[m] = "\n"
  PROVE  LineOf(code, i) # LineOf(code, j)
<1> DEFINE A == {k \in 1 .. i - 1 : code[k] = "\n"}
           B == {k \in 1 .. j - 1 : code[k] = "\n"}
<1>1. IsFiniteSet(B)
  <2>1. IsFiniteSet(1 .. j - 1)
    BY FS_Interval
  <2>2. B \subseteq 1 .. j - 1
    OBVIOUS
  <2> HIDE DEF B
  <2> QED
    BY <2>1, <2>2, FS_Subset
<1>2. A \in SUBSET B /\ m \in B /\ m \notin A
  OBVIOUS
<1> HIDE DEF A, B
<1>3. Cardinality(B) = Cardinality(A) => B = A
  BY <1>1, <1>2, FS_Subset
<1> QED
  BY <1>2, <1>3 DEF LineOf, A, B

LEMMA LastCharIs ==
  ASSUME NEW d, NEW n \in Nat \ {0}, Len(d) = n, d[n] \notin Spaces
  PROVE  LastChar(d) = n
<1> DEFINE I == {i \in 1 .. Len(d) : d[i] \notin Spaces}
<1>1. n \in I /\ \A i \in I : i <= n
  OBVIOUS
<1>2. I \subseteq Nat
  OBVIOUS
<1>3. I # {} => LastChar(d) = Max(I)
  BY DEF LastChar, SelectLastInSeq
<1>4. I # {}
  BY <1>1
<1> HIDE DEF I
<1>5. \A x \in I : (\A y \in I : x >= y) => x = n
  BY <1>1, <1>2
<1>6. \A y \in I : n >= y
  BY <1>1, <1>2
<1>7. Max(I) = n
  BY <1>1, <1>5, <1>6 DEF Max
<1> QED
  BY <1>3, <1>4, <1>7

-----------------------------------------------------------------------------
(***************************************************************************)
(* The words that begin and end steps.                                     *)
(***************************************************************************)
BeginWord(word, first) ==
  word \in Seq(Bytes) /\ Len(word) = 5 /\ word[5] = " " /\ word[1] \in first

LEMMA WordsAre ==
  /\ \A word \in DataWords \cup ProcWords :
       word \in Seq(Bytes) /\ word # <<>> /\ Len(word) = 5 /\ word[5] = " "
  /\ \A word \in DataWords : word[1] \in {"D", "d"}
  /\ \A word \in ProcWords : word[1] \in {"P", "p"}
  /\ \A word \in RunWords \cup QuitWords : word \in Seq(Bytes)
  /\ RunEnd \in RunWords /\ Len(RunEnd) = 4
  /\ RunEnd[1] = "R" /\ RunEnd[2] = "U" /\ RunEnd[3] = "N" /\ RunEnd[4] = ";"
<1>1. /\ "A" \in Bytes /\ "C" \in Bytes /\ "D" \in Bytes /\ "I" \in Bytes
      /\ "N" \in Bytes /\ "O" \in Bytes /\ "P" \in Bytes /\ "Q" \in Bytes
      /\ "R" \in Bytes /\ "T" \in Bytes /\ "U" \in Bytes /\ "a" \in Bytes
      /\ "c" \in Bytes /\ "d" \in Bytes /\ "i" \in Bytes /\ "n" \in Bytes
      /\ "o" \in Bytes /\ "p" \in Bytes /\ "q" \in Bytes /\ "r" \in Bytes
      /\ "t" \in Bytes /\ "u" \in Bytes /\ " " \in Bytes /\ ";" \in Bytes
  BY CapitalIs, LettersAre DEF Bytes, Symbols, Capitals
<1> HIDE DEF Bytes
<1>2. \A word \in DataWords : BeginWord(word, {"D", "d"})
  <2>1. BeginWord(DataSpace, {"D", "d"})
    <3>1. IsWord(DataSpace, Bytes) /\ Len(DataSpace) = 5
      BY <1>1, WordOf5 DEF DataSpace
    <3>2. DataSpace[1] = "D" /\ DataSpace[5] = " "
      BY DEF DataSpace
    <3> QED
      BY <3>1, <3>2 DEF BeginWord, IsWord
  <2>2. BeginWord(<<"d", "a", "t", "a", " ">>, {"D", "d"})
    <3>1. IsWord(<<"d", "a", "t", "a", " ">>, Bytes) /\ Len(<<"d", "a", "t", "a", " ">>) = 5
      BY <1>1, WordOf5
    <3>2. <<"d", "a", "t", "a", " ">>[1] = "d" /\ <<"d", "a", "t", "a", " ">>[5] = " "
      OBVIOUS
    <3> QED
      BY <3>1, <3>2 DEF BeginWord, IsWord
  <2> QED
    BY ONLY <2>1, <2>2 DEF DataWords
<1>3. \A word \in ProcWords : BeginWord(word, {"P", "p"})
  <2>1. BeginWord(ProcSpace, {"P", "p"})
    <3>1. IsWord(ProcSpace, Bytes) /\ Len(ProcSpace) = 5
      BY <1>1, WordOf5 DEF ProcSpace
    <3>2. ProcSpace[1] = "P" /\ ProcSpace[5] = " "
      BY DEF ProcSpace
    <3> QED
      BY <3>1, <3>2 DEF BeginWord, IsWord
  <2>2. BeginWord(<<"p", "r", "o", "c", " ">>, {"P", "p"})
    <3>1. IsWord(<<"p", "r", "o", "c", " ">>, Bytes) /\ Len(<<"p", "r", "o", "c", " ">>) = 5
      BY <1>1, WordOf5
    <3>2. <<"p", "r", "o", "c", " ">>[1] = "p" /\ <<"p", "r", "o", "c", " ">>[5] = " "
      OBVIOUS
    <3> QED
      BY <3>1, <3>2 DEF BeginWord, IsWord
  <2> QED
    BY ONLY <2>1, <2>2 DEF ProcWords
<1>4. \A word \in RunWords : IsWord(word, Bytes)
  <2>1. IsWord(RunEnd, Bytes)
    BY <1>1, WordOf4 DEF RunEnd
  <2>2. IsWord(<<"r", "u", "n", ";">>, Bytes)
    BY <1>1, WordOf4
  <2> QED
    BY ONLY <2>1, <2>2 DEF RunWords
<1>5. \A word \in QuitWords : IsWord(word, Bytes)
  <2>1. IsWord(<<"Q", "U", "I", "T", ";">>, Bytes)
    BY <1>1, WordOf5
  <2>2. IsWord(<<"q", "u", "i", "t", ";">>, Bytes)
    BY <1>1, WordOf5
  <2> QED
    BY ONLY <2>1, <2>2 DEF QuitWords
<1>6. /\ RunEnd \in RunWords /\ Len(RunEnd) = 4
      /\ RunEnd[1] = "R" /\ RunEnd[2] = "U" /\ RunEnd[3] = "N" /\ RunEnd[4] = ";"
  BY DEF RunWords, RunEnd
<1>7. \A word \in Seq(Bytes) : Len(word) = 5 => word # <<>>
  OBVIOUS
<1> QED
  BY <1>2, <1>3, <1>4, <1>5, <1>6, <1>7 DEF BeginWord, IsWord

LEMMA PlacesFinite ==
  ASSUME NEW c \in Seq(Bytes), NEW words, \A word \in words : word \in Seq(Bytes)
  PROVE  IsFiniteSet(Places(c, words))
<1>1. \A word \in words : Occurrences(c, word) \subseteq 1 .. Len(c) + 1
  BY OccurrencesFinite
<1>2. Places(c, words) \subseteq 1 .. Len(c) + 1
  BY <1>1 DEF Places
<1>3. IsFiniteSet(1 .. Len(c) + 1)
  BY FS_Interval
<1> QED
  BY <1>2, <1>3, FS_Subset

\* Each of the lines RUN; that were added is a line of its own.
LEMMA RunsCounted ==
  ASSUME NEW c \in Seq(Bytes), NEW n \in Nat
  PROVE  LET runs == Places(Completed(c, n), RunWords)
         IN  Cardinality(LinesOf(Completed(c, n), runs)) >= n
<1> DEFINE d == Completed(c, n)
           l == Len(c)
           runs == Places(d, RunWords)
           lines == LinesOf(d, runs)
           g == [k \in 1 .. n |-> LineOf(d, l + (5 * k - 3))]
<1>1. /\ d \in Seq(Bytes) /\ l \in Nat /\ Len(d) = l + 5 * n
      /\ \A k \in 1 .. n, j \in 1 .. 5 : d[l + (5 * k - 5 + j)] = RunLine[j]
  BY CompletedIs
<1> HIDE DEF d, l
<1>2. /\ RunEnd \in Seq(Bytes) /\ Len(RunEnd) = 4 /\ RunEnd \in RunWords
      /\ \A j \in 1 .. 4 : RunEnd[j] = RunLine[j + 1]
  <2>1. /\ RunEnd \in Seq(Bytes) /\ Len(RunEnd) = 4 /\ RunEnd \in RunWords
        /\ RunEnd[1] = "R" /\ RunEnd[2] = "U" /\ RunEnd[3] = "N" /\ RunEnd[4] = ";"
    BY WordsAre
  <2>2. \A j \in 1 .. 4 : j = 1 \/ j = 2 \/ j = 3 \/ j = 4
    OBVIOUS
  <2>3. /\ RunEnd[1] = RunLine[2] /\ RunEnd[2] = RunLine[3]
        /\ RunEnd[3] = RunLine[4] /\ RunEnd[4] = RunLine[5]
    BY <2>1, RunLineType
  <2>4. \A j \in 1 .. 4 : RunEnd[j] = RunLine[j + 1]
    BY ONLY <2>2, <2>3
  <2> QED
    BY <2>1, <2>4
<1>3. \A k \in 1 .. n : l + (5 * k - 3) \in runs
  <2> TAKE k \in 1 .. n
  <2> DEFINE i == l + (5 * k - 3)
  <2>1. /\ i \in 1 .. Len(d) + 1 - 4
        /\ \A j \in 1 .. 4 : i + j - 1 = l + (5 * k - 5 + (j + 1)) /\ j + 1 \in 1 .. 5
    <3>1. l \in Nat /\ Len(d) = l + 5 * n /\ k \in 1 .. n /\ n \in Nat
      BY <1>1
    <3> QED
      BY ONLY <3>1
  <2>2. \A j \in 1 .. 4 : d[l + (5 * k - 5 + (j + 1))] = RunLine[j + 1]
    BY <1>1, <2>1
  <2> HIDE DEF i
  <2>3. \A j \in 1 .. 4 : d[i + j - 1] = RunEnd[j]
    <3> TAKE j \in 1 .. 4
    <3>1. d[l + (5 * k - 5 + (j + 1))] = RunLine[j + 1] /\ RunEnd[j] = RunLine[j + 1]
          /\ i + j - 1 = l + (5 * k - 5 + (j + 1))
      BY <1>2, <2>1, <2>2
    <3> QED
      BY ONLY <3>1
  <2>4. StandsAt(i, d, RunEnd)
    BY <1>2, <2>1, <2>3 DEF StandsAt
  <2>5. i \in Occurrences(d, RunEnd)
    BY <1>1, <1>2, <2>4, OccurrencesAre
  <2>6. i \in runs
    BY <1>2, <2>5 DEF Places
  <2> QED
    BY <2>6 DEF i
<1>4. IsFiniteSet(runs)
  BY <1>1, WordsAre, PlacesFinite
<1>5. IsFiniteSet(lines) /\ Cardinality(lines) \in Nat
  <2> HIDE DEF runs
  <2> QED
    BY <1>4, LinesBounded
<1>6. g \in [1 .. n -> lines]
  <2> HIDE DEF runs
  <2> QED
    BY <1>3 DEF LinesOf
<1>7. ASSUME NEW a \in 1 .. n, NEW b \in 1 .. n, a < b
      PROVE  g[a] # g[b]
  <2> DEFINE i == l + (5 * a - 3)
             m == l + (5 * b - 5 + 1)
             j == l + (5 * b - 3)
  <2>1. i \in Nat /\ m \in Nat /\ j \in Nat /\ 0 < i /\ i <= m /\ m < j
    <3>1. l \in Nat /\ a \in 1 .. n /\ b \in 1 .. n /\ a < b /\ n \in Nat
      BY <1>1, <1>7
    <3> QED
      BY ONLY <3>1
  <2>2. d[m] = "\n"
    <3>1. 1 \in 1 .. 5
      OBVIOUS
    <3> QED
      BY <1>1, <3>1, RunLineType
  <2>3. g[a] = LineOf(d, i) /\ g[b] = LineOf(d, j)
    OBVIOUS
  <2> HIDE DEF i, m, j, g
  <2> QED
    BY <2>1, <2>2, <2>3, LaterLine
<1>8. \A a, b \in 1 .. n : g[a] = g[b] => a = b
  <2> SUFFICES ASSUME NEW a \in 1 .. n, NEW b \in 1 .. n, a # b PROVE g[a] # g[b]
    OBVIOUS
  <2>1. a < b \/ b < a
    OBVIOUS
  <2> HIDE DEF g
  <2> QED
    BY <1>7, <2>1
<1> HIDE DEF g, lines, runs
<1>9. g \in Injection(1 .. n, lines)
  <2>1. DOMAIN g = 1 .. n
    BY <1>6
  <2> QED
    BY <1>6, <1>8, <2>1 DEF Injection, IsInjective
<1>10. Cardinality(1 .. n) <= Cardinality(lines)
  BY <1>5, <1>9, FS_Injection
<1>11. Cardinality(1 .. n) = n
  <2>1. Cardinality(1 .. n) = IF 1 > n THEN 0 ELSE n - 1 + 1
    BY FS_Interval
  <2> QED
    BY <2>1
<1>12. Cardinality(lines) >= n
  BY <1>5, <1>10, <1>11
<1> QED
  BY <1>12 DEF lines, runs, d

\* What begins a step in the text begins it in the completed text, and nothing else.
LEMMA BeginsStay ==
  ASSUME NEW c \in Seq(Bytes), NEW n \in Nat, NEW words \in {DataWords, ProcWords}
  PROVE  /\ Places(Completed(c, n), words) = Places(c, words)
         /\ IsFiniteSet(Places(c, words))
<1> DEFINE d == Completed(c, n)
           l == Len(c)
<1>1. /\ d \in Seq(Bytes) /\ l \in Nat /\ Len(d) = l + 5 * n
      /\ \A i \in 1 .. l : d[i] = c[i]
      /\ \A i \in l + 1 .. l + 5 * n : d[i] \in RunBytes
  BY CompletedIs
<1> HIDE DEF d
<1>2. \A word \in words :
        word \in Seq(Bytes) /\ word # <<>> /\ word[Len(word)] = " "
  BY WordsAre
<1>3. \A i \in l + 1 .. Len(d) : d[i] # " "
  BY <1>1 DEF RunBytes
<1>4. l <= Len(d)
  BY <1>1
<1>5. \A word \in words : Occurrences(d, word) = Occurrences(c, word)
  <2> TAKE word \in words
  <2>1. \A i \in l + 1 .. Len(d) : d[i] # word[Len(word)]
    BY <1>2, <1>3
  <2> QED
    BY <1>1, <1>2, <1>4, <2>1, OccurrencesStay
<1>6. Places(d, words) = Places(c, words)
  BY <1>5 DEF Places
<1>7. IsFiniteSet(Places(c, words))
  BY <1>2, PlacesFinite
<1> QED
  BY <1>6, <1>7 DEF d

\* How many steps begin in a text.
Begun(c) == Cardinality(Places(c, DataWords \cup ProcWords))

LEMMA BeginsApart ==
  ASSUME NEW c \in Seq(Bytes)
  PROVE  /\ Places(c, DataWords) \cap Places(c, ProcWords) = {}
         /\ Places(c, DataWords \cup ProcWords) = Places(c, DataWords) \cup Places(c, ProcWords)
<1>1. ASSUME NEW i, NEW x \in DataWords, NEW y \in ProcWords,
             i \in Occurrences(c, x), i \in Occurrences(c, y)
      PROVE  FALSE
  <2>1. /\ x \in Seq(Bytes) /\ Len(x) = 5 /\ x[1] \in {"D", "d"}
        /\ y \in Seq(Bytes) /\ Len(y) = 5 /\ y[1] \in {"P", "p"}
    BY WordsAre
  <2>2. StandsAt(i, c, x) /\ StandsAt(i, c, y)
    BY <1>1, <2>1, OccurrencesAre
  <2>3. 1 \in 1 .. 5
    OBVIOUS
  <2>4. c[i + 1 - 1] = x[1] /\ c[i + 1 - 1] = y[1]
    BY <2>1, <2>2, <2>3 DEF StandsAt
  <2> QED
    BY <2>1, <2>4
<1>2. Places(c, DataWords) \cap Places(c, ProcWords) = {}
  <2> SUFFICES ASSUME NEW i \in Places(c, DataWords), i \in Places(c, ProcWords) PROVE FALSE
    OBVIOUS
  <2>1. (\E x \in DataWords : i \in Occurrences(c, x))
        /\ \E y \in ProcWords : i \in Occurrences(c, y)
    BY DEF Places
  <2> QED
    BY <1>1, <2>1
<1>3. \A A, B : Places(c, A \cup B) = Places(c, A) \cup Places(c, B)
  BY DEF Places
<1> QED
  BY <1>2, <1>3

LEMMA CompletedIsComplete ==
  ASSUME NEW c \in Seq(Bytes), NEW n \in Nat \ {0}, n >= Begun(c)
  PROVE  IsCompleteStatus(Completed(c, n)) = "complete"
<1> DEFINE d == Completed(c, n)
           data == Places(c, DataWords)
           proc == Places(c, ProcWords)
           runs == Places(d, RunWords)
           quits == Places(d, QuitWords)
<1>1. /\ Places(d, DataWords) = data /\ IsFiniteSet(data)
      /\ Places(d, ProcWords) = proc /\ IsFiniteSet(proc)
  BY BeginsStay
<1>2. d \in Seq(Bytes) /\ Len(d) \in Nat \ {0} /\ d[Len(d)] = ";"
  <2> DEFINE l == Len(c)
             e == l + 5 * n
  <2>1. /\ d \in Seq(Bytes) /\ l \in Nat /\ Len(d) = e
        /\ \A k \in 1 .. n, j \in 1 .. 5 : d[l + (5 * k - 5 + j)] = RunLine[j]
    BY CompletedIs
  <2>2. n \in 1 .. n /\ 5 \in 1 .. 5 /\ l + (5 * n - 5 + 5) = e
    BY <2>1
  <2> HIDE DEF d, l, e
  <2>3. d[e] = ";"
    <3>1. d[l + (5 * n - 5 + 5)] = RunLine[5]
      BY <2>1, <2>2
    <3> QED
      BY <2>2, <3>1, RunLineType
  <2>4. e \in Nat \ {0}
    <3>1. l \in Nat
      BY <2>1
    <3> QED
      BY ONLY <3>1, n \in Nat \ {0} DEF e
  <2> QED
    BY <2>1, <2>3, <2>4
<1>3. Cardinality(LinesOf(d, runs)) >= n
  BY RunsCounted
<1>4. IsFiniteSet(runs) /\ IsFiniteSet(quits)
  <2> HIDE DEF d
  <2> QED
    BY <1>2, WordsAre, PlacesFinite
<1>5. data \cap proc = {} /\ Begun(c) = Cardinality(data \cup proc)
  BY BeginsApart DEF Begun
<1> HIDE DEF data, proc
<1>6. Cardinality(data \cup proc) = Cardinality(data) + Cardinality(proc)
  <2>1. Cardinality(data \cup proc) = Cardinality(data) + Cardinality(proc) - Cardinality({})
    BY <1>1, <1>5, FS_Union
  <2>2. Cardinality({}) = 0 /\ Cardinality(data) \in Nat /\ Cardinality(proc) \in Nat
    BY <1>1, FS_EmptySet, FS_CardinalityType
  <2> QED
    BY <2>1, <2>2
<1> HIDE DEF d
<1> DEFINE inData == Cardinality(LinesOf(d, data))
           inProc == Cardinality(LinesOf(d, proc))
           inRun == Cardinality(LinesOf(d, runs))
           inQuit == Cardinality(LinesOf(d, quits))
<1>7. /\ inData \in Nat /\ inData <= Cardinality(data) /\ Cardinality(data) \in Nat
      /\ inProc \in Nat /\ inProc <= Cardinality(proc) /\ Cardinality(proc) \in Nat
  BY <1>1, LinesBounded
<1>8. inRun \in Nat /\ inQuit \in Nat
  <2> HIDE DEF runs, quits
  <2> QED
    BY <1>4, LinesBounded
<1>9. n >= Cardinality(data \cup proc)
  BY <1>5
<1>10. /\ LinesWith(d, DataWords) = inData /\ LinesWith(d, ProcWords) = inProc
       /\ LinesWith(d, RunWords) = inRun /\ LinesWith(d, QuitWords) = inQuit
  BY <1>1 DEF LinesWith, LinesOf
<1> HIDE DEF inData, inProc, inQuit
<1>11. inRun >= n
  BY <1>3
<1> HIDE DEF inRun
<1>12. ~(inData + inProc > inRun + inQuit)
  BY <1>6, <1>7, <1>8, <1>9, <1>11
<1>13. LastChar(d) = Len(d) /\ Len(d) # 0
  <2>1. ";" \notin Spaces
    BY DEF Spaces
  <2> QED
    BY <1>2, <2>1, LastCharIs
<1>14. IsCompleteStatus(d) = "complete"
  BY <1>2, <1>10, <1>12, <1>13 DEF IsCompleteStatus
<1> QED
  BY <1>14 DEF d

LEMMA RunsFollow ==
  ASSUME EditorInv
  PROVE  RunCompletes
<1> DEFINE begun == Begun(Code)
           n == Max({begun, 1})
<1>1. Code \in Seq(Bytes)
  BY CodeIs, CodeType DEF EditorInv
<1>2. begun \in Nat
  <2>1. IsFiniteSet(Places(Code, DataWords \cup ProcWords))
    BY <1>1, WordsAre, PlacesFinite
  <2> QED
    BY <2>1, FS_CardinalityType DEF Begun
<1> HIDE DEF begun
<1>3. n \in Nat \ {0} /\ n >= begun
  <2>1. n = IF begun >= 1 THEN begun ELSE 1
    BY <1>2, MaxOfTwo
  <2> QED
    BY <1>2, <2>1
<1> HIDE DEF n
<1>4. IsCompleteStatus(Completed(Code, n)) = "complete"
  BY <1>1, <1>3, CompletedIsComplete DEF begun
<1> QED
  BY <1>4 DEF RunCompletes, Completed, RunText, RunLines, RunLine, Begun, n, begun

\* After one line RUN; for each step that was begun, a cell counts as complete.
THEOREM RequestsRunCompletes == RequestsSpec => []RunCompletes
<1>1. EditorInv => RunCompletes
  BY RunsFollow
<1> QED
  BY <1>1, EditorInvariant, PTL
=============================================================================
