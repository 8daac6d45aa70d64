------------------------ MODULE ExecuteStream_proof ------------------------
(***************************************************************************)
(* For any programs, pipes and limits:                                     *)
(*                                                                         *)
(*  - a marker that has been found means that SAS has run all the code it  *)
(*    was sent, also after executions that were given up, and so a listing *)
(*    file is created after its execution has removed it only if that      *)
(*    execution gave up.  The argument follows the order of the            *)
(*    statements: those of the user and those that print a marker never    *)
(*    change places, on their way through the input of SAS, its present    *)
(*    statement and the stderr pipe (StreamInv).                           *)
(*                                                                         *)
(*  - no line of the log and no piece of HTML is lost, repeated or         *)
(*    reordered.  What has been read, what is in a pipe and what is still  *)
(*    to come are together what the programs print: every step moves items *)
(*    from one part to the next (FlowInv).                                 *)
(*                                                                         *)
(*  - as long as each execution ended on its marker, each result is        *)
(*    exactly its own program's.  The lines of an execution are picked out *)
(*    of both sides of the equation above: they are all in its own log,    *)
(*    because a marker separates them from those before and after it; and  *)
(*    the listing file of an execution is open in SAS just while its       *)
(*    statements run (ExactInv).                                           *)
(***************************************************************************)
EXTENDS ExecuteStream, SequenceLemmas, SequenceTheorems, WellFoundedInduction, TLAPS

MarkerWrites == [to : {"err"}, kind : MarkerKinds]
AnyWrite == Outputs \cup MarkerWrites

Statements ==
  [ex : 1 .. MaxExecs, does : {"run", "printto", "unprintto"}, writes : Seq(AnyWrite)]

\* Elements of todo.
Works == [ex : 1 .. MaxExecs, to : {"lst"}, kind : {"line"}]
           \cup [ex : 1 .. MaxExecs, to : {"out"}, kind : {"open", "body", "close"}]
           \cup [ex : 1 .. MaxExecs, to : {"err"}, kind : UserKinds \cup MarkerKinds]

ListingItems == [ex : 1 .. MaxExecs, kind : {"line"}]
Results == [found : BOOLEAN, log : Seq(Items), html : Seq(Items),
            listing : Seq(ListingItems), is_error : BOOLEAN]

KernelTyped ==
  /\ at \in {"idle", "send", "poll", "out", "err", "return", "killed"}
  /\ submitted \in Seq(Programs) /\ Len(submitted) <= MaxExecs
  /\ results \in Seq(Results)
  /\ unsent \in Seq(Statements)
  /\ html_output \in Seq(Items) /\ log_output \in Seq(Items)
  /\ found_marker \in BOOLEAN /\ has_html_start \in BOOLEAN /\ found_html_end \in BOOLEAN
  /\ timeout_count \in 0 .. MaxTimeouts
  /\ consecutive_empty_reads \in 0 .. MaxEmptyReads
  /\ revents \subseteq {"out", "err"}
  /\ signals \in 0 .. MaxSignals

SasTyped ==
  /\ sas \in {"alive", "dead"}
  /\ stdin \in Seq(Statements) /\ Len(stdin) <= StdinCap
  /\ stdout \in Seq(Items) /\ Len(stdout) <= PipeCap
  /\ stderr \in Seq(Items) /\ Len(stderr) <= PipeCap
  /\ todo \in Seq(Works)
  /\ printto \in 0 .. MaxExecs

ListingTyped ==
  /\ listing \in [DOMAIN listing -> Seq(ListingItems)]
  /\ DOMAIN listing \subseteq 1 .. MaxExecs

Typed == KernelTyped /\ SasTyped /\ ListingTyped

\* Where the kernel thread can be with how many results, counts and statements.
Placed ==
  /\ Len(results) = IF at = "idle" THEN exec_counter ELSE exec_counter - 1
  /\ at \notin {"send", "killed"} => unsent = <<>>
  /\ at \in {"send", "poll", "out", "err"} => timeout_count < MaxTimeouts

PrintsMarker(stmt) == \E i \in DOMAIN stmt.writes : stmt.writes[i].kind \in MarkerKinds
IsUsers(stmt) ==
  stmt.does # "run" \/ \E i \in DOMAIN stmt.writes : stmt.writes[i].kind \notin MarkerKinds

\* Every statement is either the user's or the marker's and belongs to an execution
\* that began; only programs that manage ODS have a listing.
Sorted ==
  /\ \A i \in DOMAIN Pending :
       /\ Pending[i].ex <= exec_counter
       /\ ~(PrintsMarker(Pending[i]) /\ IsUsers(Pending[i]))
       /\ Pending[i].does = "printto" => submitted[Pending[i].ex].manages_ods
  /\ \A i \in DOMAIN todo : todo[i].ex <= exec_counter
  /\ \A i \in DOMAIN stderr : stderr[i].ex <= exec_counter
  /\ \A n \in DOMAIN listing : n <= exec_counter /\ submitted[n].manages_ods

\* A line of the marker of execution n has come out of SAS.
MarkerSeen(n) ==
  \/ \E i \in DOMAIN stderr : stderr[i].kind \in MarkerKinds /\ stderr[i].ex = n
  \/ found_marker /\ n = exec_counter
  \/ n \in DOMAIN results /\ results[n].found

\* Of the user's code, only that of later executions is still to be run.
DoneUpTo(n) ==
  /\ \A i \in DOMAIN todo : todo[i].kind \notin MarkerKinds => n < todo[i].ex
  /\ \A i \in DOMAIN Pending : IsUsers(Pending[i]) => n < Pending[i].ex

Ordered ==
  /\ \A n \in 1 .. exec_counter : MarkerSeen(n) => DoneUpTo(n)
  /\ \A i \in DOMAIN todo : todo[i].kind \in MarkerKinds => DoneUpTo(todo[i].ex)
  /\ \A i, j \in DOMAIN Pending :
       i < j /\ PrintsMarker(Pending[i]) /\ IsUsers(Pending[j]) =>
         Pending[i].ex < Pending[j].ex

StreamInv == Typed /\ Placed /\ Sorted /\ Ordered /\ ListingRemoved

-----------------------------------------------------------------------------
(***************************************************************************)
(* The code that is sent.                                                  *)
(***************************************************************************)

LEMMA StatementsIn ==
  ASSUME NEW s \in Seq(Statements), NEW t \in Seq(Statements)
  PROVE  /\ s \o t \in Seq(Statements)
         /\ Len(s \o t) = Len(s) + Len(t)
         /\ \A i \in 1 .. Len(s) : (s \o t)[i] = s[i]
         /\ \A i \in 1 .. Len(t) : (s \o t)[Len(s) + i] = t[i]
         /\ \A i \in 1 .. Len(s) + Len(t) :
              \/ i \in 1 .. Len(s) /\ (s \o t)[i] = s[i]
              \/ i - Len(s) \in 1 .. Len(t) /\ (s \o t)[i] = t[i - Len(s)]
OBVIOUS

\* What every statement of execution n's code is, and what tells the two parts.
IsOf(stmt, n, prog) ==
  /\ stmt \in Statements /\ stmt.ex = n
  /\ stmt.does = "printto" => prog.manages_ods

LEMMA MarkerCodeShape ==
  ASSUME NEW n \in 1 .. MaxExecs, NEW prog \in Programs, NEW echo \in BOOLEAN
  PROVE  /\ MarkerCode(n, echo) \in Seq(Statements) /\ Len(MarkerCode(n, echo)) = 2
         /\ \A i \in 1 .. 2 : /\ IsOf(MarkerCode(n, echo)[i], n, prog)
                             /\ ~IsUsers(MarkerCode(n, echo)[i])
<1> DEFINE first == (IF echo THEN <<Log("echo")>> ELSE <<>>) \o <<Log("mark1"), Log("mark2")>>
           second == <<Log("note")>>
<1>1. first \in Seq(MarkerWrites) /\ second \in Seq(MarkerWrites)
  <2>1. Log("echo") \in MarkerWrites /\ Log("mark1") \in MarkerWrites /\ Log("mark2") \in MarkerWrites
        /\ Log("note") \in MarkerWrites
    BY DEF Log, MarkerKinds, MarkerWrites
  <2>2. (IF echo THEN <<Log("echo")>> ELSE <<>>) \in Seq(MarkerWrites)
    BY <2>1
  <2>3. <<Log("mark1"), Log("mark2")>> \in Seq(MarkerWrites) /\ <<Log("note")>> \in Seq(MarkerWrites)
    BY <2>1
  <2> DEFINE a == IF echo THEN <<Log("echo")>> ELSE <<>>
             b == <<Log("mark1"), Log("mark2")>>
  <2>4. a \in Seq(MarkerWrites) /\ b \in Seq(MarkerWrites)
    BY <2>2, <2>3
  <2> HIDE DEF a, b
  <2>5. a \o b \in Seq(MarkerWrites)
    BY <2>4
  <2> QED
    BY <2>3, <2>5 DEF a, b
<1>2. \A w \in Seq(MarkerWrites) :
        /\ Statement(n, "run", w) \in Statements /\ Statement(n, "run", w).ex = n
        /\ ~IsUsers(Statement(n, "run", w)) /\ Statement(n, "run", w).does = "run"
  <2> TAKE w \in Seq(MarkerWrites)
  <2>1. w \in Seq(AnyWrite)
    BY SeqMonotonic DEF AnyWrite
  <2>2. \A i \in DOMAIN w : w[i].kind \in MarkerKinds
    <3> TAKE i \in DOMAIN w
    <3>1. w[i] \in MarkerWrites
      OBVIOUS
    <3> QED
      BY <3>1 DEF MarkerWrites
  <2> QED
    BY <2>1, <2>2 DEF Statement, Statements, IsUsers
<1>3. MarkerCode(n, echo) = <<Statement(n, "run", first), Statement(n, "run", second)>>
  BY DEF MarkerCode
<1> HIDE DEF first, second
<1> QED
  BY <1>1, <1>2, <1>3 DEF IsOf

LEMMA UserCodeShape ==
  ASSUME NEW n \in 1 .. MaxExecs, NEW prog \in Programs
  PROVE  /\ UserCode(n, prog) \in Seq(Statements)
         /\ \A i \in 1 .. Len(UserCode(n, prog)) :
              IsOf(UserCode(n, prog)[i], n, prog) /\ ~PrintsMarker(UserCode(n, prog)[i])
<1> DEFINE body == prog.body
<1>1. body \in Seq(Seq(Outputs))
  BY StreamAssumption
<1> HIDE DEF body
<1>2. \A w \in Seq(Outputs) :
        /\ Statement(n, "run", w) \in Statements /\ Statement(n, "run", w).ex = n
        /\ ~PrintsMarker(Statement(n, "run", w)) /\ Statement(n, "run", w).does = "run"
  <2> TAKE w \in Seq(Outputs)
  <2>1. w \in Seq(AnyWrite)
    BY SeqMonotonic DEF AnyWrite
  <2>2. \A i \in DOMAIN w : w[i].kind \notin MarkerKinds
    <3> TAKE i \in DOMAIN w
    <3>1. w[i] \in Outputs
      OBVIOUS
    <3> QED
      BY <3>1 DEF Outputs, UserKinds, MarkerKinds
  <2> QED
    BY <2>1, <2>2 DEF Statement, Statements, PrintsMarker
<1>3. UserCode(n, prog) = [i \in 1 .. Len(body) |-> Statement(n, "run", body[i])]
  BY DEF UserCode, body
<1>4. Len(body) \in Nat /\ \A i \in 1 .. Len(body) : body[i] \in Seq(Outputs)
  BY <1>1
<1>5. UserCode(n, prog) \in Seq(Statements)
  BY <1>2, <1>3, <1>4
<1>6. Len(UserCode(n, prog)) = Len(body)
  BY <1>3, <1>4
<1> QED
  BY <1>2, <1>3, <1>4, <1>5, <1>6 DEF IsOf

LEMMA ListingCodeShape ==
  ASSUME NEW n \in 1 .. MaxExecs, NEW prog \in Programs
  PROVE  /\ ListingCode(n, prog) \in Seq(Statements)
         /\ \A i \in 1 .. Len(ListingCode(n, prog)) :
              IsOf(ListingCode(n, prog)[i], n, prog) /\ ~PrintsMarker(ListingCode(n, prog)[i])
<1> DEFINE open == Statement(n, "printto", <<>>)
           close == Statement(n, "unprintto", <<>>)
           user == UserCode(n, prog)
<1>1. CASE ~prog.manages_ods
  BY <1>1, UserCodeShape DEF ListingCode
<1>2. CASE prog.manages_ods
  <2>1. open \in Statements /\ close \in Statements
    BY DEF Statement, Statements
  <2>2. /\ IsOf(open, n, prog) /\ ~PrintsMarker(open)
        /\ IsOf(close, n, prog) /\ ~PrintsMarker(close)
    BY <1>2, <2>1 DEF IsOf, PrintsMarker, Statement
  <2>3. ListingCode(n, prog) = <<open>> \o user \o <<close>>
    BY <1>2 DEF ListingCode
  <2>4. user \in Seq(Statements)
        /\ \A i \in 1 .. Len(user) : IsOf(user[i], n, prog) /\ ~PrintsMarker(user[i])
    BY UserCodeShape
  <2> HIDE DEF open, close, user
  <2>5. <<open>> \in Seq(Statements) /\ <<close>> \in Seq(Statements)
    BY <2>1
  <2>6. /\ <<open>> \o user \in Seq(Statements)
        /\ \A i \in 1 .. Len(<<open>> \o user) :
             IsOf((<<open>> \o user)[i], n, prog) /\ ~PrintsMarker((<<open>> \o user)[i])
    BY <2>2, <2>4, <2>5, StatementsIn
  <2> QED
    BY <2>2, <2>3, <2>5, <2>6, StatementsIn
<1> QED
  BY <1>1, <1>2, StreamAssumption

\* The marker comes last.
LEMMA CodeShape ==
  ASSUME NEW n \in 1 .. MaxExecs, NEW prog \in Programs, NEW echo \in Echoes
  PROVE  LET code == WrappedCode(n, prog, echo)
         IN  /\ code \in Seq(Statements)
             /\ \A i \in 1 .. Len(code) :
                  /\ IsOf(code[i], n, prog)
                  /\ ~(PrintsMarker(code[i]) /\ IsUsers(code[i]))
             /\ \A i, j \in 1 .. Len(code) :
                  i < j /\ PrintsMarker(code[i]) => ~IsUsers(code[j])
<1> DEFINE user == ListingCode(n, prog)
           marker == MarkerCode(n, echo)
           code == user \o marker
<1>1. echo \in BOOLEAN
  BY StreamAssumption
<1>2. /\ user \in Seq(Statements)
      /\ \A i \in 1 .. Len(user) : IsOf(user[i], n, prog) /\ ~PrintsMarker(user[i])
  BY ListingCodeShape
<1>3. /\ marker \in Seq(Statements)
      /\ \A i \in 1 .. Len(marker) : IsOf(marker[i], n, prog) /\ ~IsUsers(marker[i])
  BY <1>1, MarkerCodeShape
<1>4. WrappedCode(n, prog, echo) = code
  BY DEF WrappedCode
<1> HIDE DEF user, marker
<1>5. /\ code \in Seq(Statements) /\ Len(code) = Len(user) + Len(marker)
      /\ \A i \in 1 .. Len(code) :
           \/ i \in 1 .. Len(user) /\ code[i] = user[i]
           \/ i - Len(user) \in 1 .. Len(marker) /\ code[i] = marker[i - Len(user)]
  BY <1>2, <1>3, StatementsIn
<1>6. \A i \in 1 .. Len(code) : IsOf(code[i], n, prog) /\ ~(PrintsMarker(code[i]) /\ IsUsers(code[i]))
  BY <1>2, <1>3, <1>5
<1>7. \A i, j \in 1 .. Len(code) : i < j /\ PrintsMarker(code[i]) => ~IsUsers(code[j])
  <2> SUFFICES ASSUME NEW i \in 1 .. Len(code), NEW j \in 1 .. Len(code), i < j,
                      PrintsMarker(code[i])
               PROVE  ~IsUsers(code[j])
    OBVIOUS
  <2>1. ~(i \in 1 .. Len(user))
    BY <1>2, <1>5
  <2>2. j - Len(user) \in 1 .. Len(marker) /\ code[j] = marker[j - Len(user)]
    BY <1>2, <1>3, <1>5, <2>1
  <2> QED
    BY <1>3, <2>2
<1> QED
  BY <1>4, <1>5, <1>6, <1>7

-----------------------------------------------------------------------------
(***************************************************************************)
(* Types.                                                                  *)
(***************************************************************************)

LEMMA Bounds ==
  /\ MaxExecs \in Nat /\ MaxSignals \in Nat
  /\ PipeCap \in Nat \ {0} /\ StdinCap \in Nat \ {0} /\ ReadSize \in Nat \ {0}
  /\ MaxTimeouts \in Nat \ {0} /\ MaxEmptyReads \in Nat \ {0}
BY StreamAssumption

LEMMA Zeros ==
  /\ 0 \in 0 .. MaxTimeouts /\ 0 \in 0 .. MaxEmptyReads
  /\ 0 \in 0 .. MaxSignals /\ 0 \in 0 .. MaxExecs
BY Bounds

LEMMA ChunkAndRest ==
  ASSUME NEW pipe \in Seq(Items)
  PROVE  /\ Chunk(pipe) \in Seq(Items) /\ Rest(pipe) \in Seq(Items)
         /\ Len(Rest(pipe)) <= Len(pipe)
         /\ \A i \in DOMAIN Chunk(pipe) : i \in DOMAIN pipe /\ Chunk(pipe)[i] = pipe[i]
         /\ \A i \in DOMAIN Rest(pipe) : \E j \in DOMAIN pipe : Rest(pipe)[i] = pipe[j]
<1> DEFINE n == IF Len(pipe) < ReadSize THEN Len(pipe) ELSE ReadSize
<1>1. n \in 0 .. Len(pipe) /\ Len(pipe) \in Nat
  BY Bounds
<1>2. Chunk(pipe) = SubSeq(pipe, 1, n)
  BY DEF Chunk
<1> HIDE DEF n
<1>3. /\ Chunk(pipe) \in Seq(Items) /\ Len(Chunk(pipe)) = n
      /\ \A i \in 1 .. n : Chunk(pipe)[i] = pipe[i]
  <2>1. \A i \in 1 .. n : pipe[i] \in Items
    BY <1>1
  <2> QED
    BY <1>1, <1>2, <2>1, SubSeqProperties
<1>4. Rest(pipe) = SubSeq(pipe, n + 1, Len(pipe))
  BY <1>3 DEF Rest
<1>5. /\ Rest(pipe) \in Seq(Items) /\ Len(Rest(pipe)) = Len(pipe) - n
      /\ \A i \in 1 .. Len(pipe) - n : Rest(pipe)[i] = pipe[n + i]
  <2>1. \A i \in n + 1 .. Len(pipe) : pipe[i] \in Items
    BY <1>1
  <2>2. n + 1 \in Int /\ Len(pipe) \in Int
    BY <1>1
  <2>3. /\ SubSeq(pipe, n + 1, Len(pipe)) \in Seq(Items)
        /\ Len(SubSeq(pipe, n + 1, Len(pipe))) =
             IF n + 1 <= Len(pipe) THEN Len(pipe) - (n + 1) + 1 ELSE 0
        /\ \A i \in 1 .. Len(pipe) - (n + 1) + 1 :
             SubSeq(pipe, n + 1, Len(pipe))[i] = pipe[n + 1 + i - 1]
    BY <2>1, <2>2, SubSeqProperties
  <2> QED
    BY <1>1, <1>4, <2>3
<1>6. /\ DOMAIN pipe = 1 .. Len(pipe) /\ DOMAIN Chunk(pipe) = 1 .. n
      /\ DOMAIN Rest(pipe) = 1 .. Len(pipe) - n
  BY <1>3, <1>5
<1>7. \A i \in DOMAIN Rest(pipe) : \E j \in DOMAIN pipe : Rest(pipe)[i] = pipe[j]
  <2> TAKE i \in DOMAIN Rest(pipe)
  <2>1. n + i \in DOMAIN pipe /\ Rest(pipe)[i] = pipe[n + i]
    BY <1>1, <1>5, <1>6
  <2> QED
    BY <2>1
<1>8. \A i \in DOMAIN Chunk(pipe) : i \in DOMAIN pipe /\ Chunk(pipe)[i] = pipe[i]
  BY <1>1, <1>3, <1>6
<1>9. Len(Rest(pipe)) <= Len(pipe)
  BY <1>1, <1>5
<1> QED
  BY <1>3, <1>5, <1>7, <1>8, <1>9

LEMMA LeastMarker ==
  ASSUME NEW chunk \in Seq(Items), Markers(chunk) # {}
  PROVE  \E i \in Markers(chunk) : \A j \in Markers(chunk) : i <= j
<1>1. Markers(chunk) \subseteq Nat
  BY DEF Markers
<1>2. PICK i \in Markers(chunk) : \A j \in Markers(chunk) : ~(<<j, i>> \in OpToRel(<, Nat))
  BY <1>1, NatLessThanWellFounded, WFMin
<1>3. \A j \in Markers(chunk) : i <= j
  <2> TAKE j \in Markers(chunk)
  <2>1. i \in Nat /\ j \in Nat
    BY <1>1
  <2>2. ~(j < i)
    BY <1>2, <2>1 DEF OpToRel
  <2> QED
    BY <2>1, <2>2
<1> QED
  BY <1>3

LEMMA StripType ==
  ASSUME NEW chunk \in Seq(Items)
  PROVE  Strip(chunk) \in Seq(Items)
<1>1. CASE Markers(chunk) = {}
  BY <1>1 DEF Strip
<1>2. CASE Markers(chunk) # {}
  <2> DEFINE first == CHOOSE i \in Markers(chunk) : \A j \in Markers(chunk) : i <= j
             last == IF chunk[first].kind = "echo" THEN first ELSE first + 1
  <2>1. first \in 1 .. Len(chunk)
    BY <1>2, LeastMarker DEF Markers
  <2>2. Strip(chunk) = SubSeq(chunk, 1, first - 1) \o SubSeq(chunk, last + 1, Len(chunk))
    BY <1>2 DEF Strip
  <2>3. last \in {first, first + 1} /\ Len(chunk) \in Nat
    OBVIOUS
  <2> HIDE DEF first, last
  <2>4. SubSeq(chunk, 1, first - 1) \in Seq(Items)
    <3>1. \A i \in 1 .. first - 1 : chunk[i] \in Items
      BY <2>1
    <3> QED
      BY <2>1, <3>1, SubSeqProperties
  <2>5. SubSeq(chunk, last + 1, Len(chunk)) \in Seq(Items)
    <3>1. \A i \in last + 1 .. Len(chunk) : chunk[i] \in Items
      BY <2>1, <2>3
    <3>2. last + 1 \in Int /\ Len(chunk) \in Int
      BY <2>1, <2>3
    <3> QED
      BY <3>1, <3>2, SubSeqProperties
  <2> QED
    BY <2>2, <2>4, <2>5, ConcatProperties
<1> QED
  BY <1>1, <1>2

LEMMA WritesType ==
  ASSUME NEW stmt \in Statements
  PROVE  /\ Writes(stmt) \in Seq(Works)
         /\ DOMAIN Writes(stmt) = DOMAIN stmt.writes
         /\ \A i \in DOMAIN Writes(stmt) :
              Writes(stmt)[i].ex = stmt.ex /\ Writes(stmt)[i].kind = stmt.writes[i].kind
<1> DEFINE n == Len(stmt.writes)
           work(i) == [ex |-> stmt.ex, to |-> stmt.writes[i].to, kind |-> stmt.writes[i].kind]
<1>1. stmt.writes \in Seq(AnyWrite) /\ stmt.ex \in 1 .. MaxExecs
  BY DEF Statements
<1>2. n \in Nat /\ DOMAIN stmt.writes = 1 .. n
      /\ \A i \in 1 .. n : stmt.writes[i] \in AnyWrite
  BY <1>1
<1>3. \A i \in 1 .. n : work(i) \in Works
  BY <1>1, <1>2 DEF AnyWrite, MarkerWrites, MarkerKinds, Outputs, UserKinds, Works
<1>4. Writes(stmt) = [i \in 1 .. n |-> work(i)]
  BY DEF Writes
<1>5. Writes(stmt) \in Seq(Works) /\ DOMAIN Writes(stmt) = 1 .. n
  BY <1>2, <1>3, <1>4
<1>6. \A i \in 1 .. n : Writes(stmt)[i].ex = stmt.ex /\ Writes(stmt)[i].kind = stmt.writes[i].kind
  BY <1>4
<1> QED
  BY <1>2, <1>5, <1>6

LEMMA ItemType ==
  ASSUME NEW w \in Works
  PROVE  /\ w.to \in {"out", "err", "lst"} /\ w.ex \in 1 .. MaxExecs
         /\ w.to # "lst" => Item(w) \in Items
         /\ w.to = "lst" => Item(w) \in ListingItems
BY DEF Works, Item, Items, ListingItems

LEMMA StreamInit == Init => StreamInv
<1> SUFFICES ASSUME Init PROVE StreamInv
  OBVIOUS
<1>1. KernelTyped
  <2>1. Len(<<>>) = 0 /\ 0 <= MaxExecs
    BY Bounds
  <2>2. /\ <<>> \in Seq(Programs) /\ <<>> \in Seq(Results)
        /\ <<>> \in Seq(Statements) /\ <<>> \in Seq(Items)
    BY EmptySeq
  <2> QED
    BY <2>1, <2>2, Zeros DEF Init, KernelTyped
<1>2. SasTyped
  BY Bounds DEF Init, SasTyped
<1>3. DOMAIN listing = {} /\ listing \in [{} -> Seq(ListingItems)]
  BY DEF Init
<1>4. Placed
  BY Bounds DEF Init, Placed, exec_counter
<1>5. exec_counter = 0 /\ results = <<>> /\ todo = <<>> /\ stderr = <<>>
  BY DEF Init, exec_counter
<1>6. Pending = <<>>
  BY DEF Init, Pending
<1>7. Sorted /\ Ordered /\ ListingRemoved
  BY <1>3, <1>5, <1>6 DEF Sorted, Ordered, ListingRemoved
<1> QED
  BY <1>1, <1>2, <1>3, <1>4, <1>7 DEF StreamInv, Typed, ListingTyped

LEMMA TypedStep ==
  ASSUME Typed, Placed, [Next]_streamVars
  PROVE  Typed'
<1> USE DEF Typed
<1>0. CASE UNCHANGED streamVars
  BY <1>0 DEF streamVars, kernelVars, sasVars, KernelTyped, SasTyped, ListingTyped
<1>1. ASSUME NEW prog \in Programs, NEW echo \in Echoes, Execute(prog, echo)
      PROVE  Typed'
  <2>1. exec_counter + 1 \in 1 .. MaxExecs
    BY <1>1, Bounds DEF Execute, exec_counter, KernelTyped
  <2>2. unsent' \in Seq(Statements)
    BY <1>1, <2>1, CodeShape DEF Execute
  <2>3. submitted' \in Seq(Programs) /\ Len(submitted') <= MaxExecs
    BY <1>1, <2>1 DEF Execute, exec_counter, KernelTyped
  <2>4. KernelTyped'
    <3>1. <<>> \in Seq(Items)
      BY EmptySeq
    <3> QED
      BY <1>1, <2>2, <2>3, <3>1, Zeros DEF Execute, KernelTyped
  <2>5. SasTyped' /\ ListingTyped'
    BY <1>1 DEF Execute, sasVars, SasTyped, ListingTyped
  <2> QED
    BY <2>4, <2>5
<1>2. CASE Send
  <2>1. ListingTyped'
    BY <1>2 DEF Send, ListingTyped
  <2>2. CASE sas = "alive"
    <3>1. unsent # <<>> /\ stdin' = Append(stdin, Head(unsent)) /\ unsent' = Tail(unsent)
          /\ Len(stdin) < StdinCap /\ at' \in {"poll", "send"}
      BY <1>2, <2>2 DEF Send
    <3>2. Head(unsent) \in Statements /\ unsent' \in Seq(Statements)
      BY <3>1, HeadTailProperties DEF KernelTyped
    <3>3. stdin' \in Seq(Statements) /\ Len(stdin') <= StdinCap
      BY <3>1, <3>2, Bounds DEF SasTyped
    <3>4. KernelTyped'
      BY <1>2, <3>1, <3>2 DEF Send, KernelTyped
    <3>5. SasTyped'
      BY <1>2, <3>3 DEF Send, SasTyped
    <3> QED
      BY <2>1, <3>4, <3>5
  <2>3. CASE sas # "alive"
    BY <1>2, <2>1, <2>3 DEF Send, KernelTyped, SasTyped
  <2> QED
    BY <2>2, <2>3
<1>3. CASE PollFinds
  <2>1. KernelTyped'
    BY <1>3, Zeros DEF PollFinds, Readable, KernelTyped
  <2>2. SasTyped' /\ ListingTyped'
    BY <1>3 DEF PollFinds, sasVars, SasTyped, ListingTyped
  <2> QED
    BY <2>1, <2>2
<1>4. CASE PollTimesOut
  <2>1. timeout_count' \in 0 .. MaxTimeouts
    BY <1>4, Bounds DEF PollTimesOut, CountTimeout, Placed, KernelTyped
  <2>2. consecutive_empty_reads' \in 0 .. MaxEmptyReads
    BY <1>4, Bounds DEF PollTimesOut, KernelTyped
  <2>3. KernelTyped'
    BY <1>4, <2>1, <2>2 DEF PollTimesOut, KernelTyped
  <2> QED
    BY <1>4, <2>3 DEF PollTimesOut, sasVars, SasTyped, ListingTyped
<1>5. CASE PollHangsUp
  <2>1. KernelTyped'
    BY <1>5, Zeros DEF PollHangsUp, KernelTyped
  <2>2. SasTyped' /\ ListingTyped'
    BY <1>5 DEF PollHangsUp, sasVars, SasTyped, ListingTyped
  <2> QED
    BY <2>1, <2>2
<1>6. CASE PollInterrupted
  <2>1. KernelTyped'
    BY <1>6, Zeros, Bounds DEF PollInterrupted, KernelTyped
  <2>2. SasTyped' /\ ListingTyped'
    BY <1>6 DEF PollInterrupted, sasVars, SasTyped, ListingTyped
  <2> QED
    BY <2>1, <2>2
<1>7. CASE ReadStdout
  <2>1. html_output' \in Seq(Items) /\ stdout' \in Seq(Items) /\ Len(stdout') <= PipeCap
    <3>1. stdout \in Seq(Items) /\ html_output \in Seq(Items) /\ Len(stdout) <= PipeCap
      BY DEF KernelTyped, SasTyped
    <3>2. Chunk(stdout) \in Seq(Items) /\ Rest(stdout) \in Seq(Items) /\ Len(Rest(stdout)) <= PipeCap
      BY <3>1, ChunkAndRest, Bounds
    <3>3. html_output \o Chunk(stdout) \in Seq(Items)
      BY <3>1, <3>2
    <3> QED
      BY <1>7, <3>1, <3>2, <3>3 DEF ReadStdout
  <2>2. has_html_start' \in BOOLEAN /\ found_html_end' \in BOOLEAN
    BY <1>7 DEF ReadStdout, Has, KernelTyped
  <2>3. KernelTyped'
    BY <1>7, <2>1, <2>2 DEF ReadStdout, KernelTyped
  <2> QED
    BY <1>7, <2>1, <2>3 DEF ReadStdout, SasTyped, ListingTyped
<1>8. CASE ReadStderr
  <2>1. log_output' \in Seq(Items) /\ stderr' \in Seq(Items) /\ Len(stderr') <= PipeCap
    <3>1. stderr \in Seq(Items) /\ log_output \in Seq(Items) /\ Len(stderr) <= PipeCap
      BY DEF KernelTyped, SasTyped
    <3>2. Chunk(stderr) \in Seq(Items) /\ Rest(stderr) \in Seq(Items) /\ Len(Rest(stderr)) <= PipeCap
      BY <3>1, ChunkAndRest, Bounds
    <3>3. Strip(Chunk(stderr)) \in Seq(Items)
      BY <3>2, StripType
    <3>4. log_output \o Strip(Chunk(stderr)) \in Seq(Items)
      BY <3>1, <3>3
    <3> QED
      BY <1>8, <3>1, <3>2, <3>4 DEF ReadStderr
  <2>2. found_marker' \in BOOLEAN
    BY <1>8 DEF ReadStderr, KernelTyped
  <2>3. KernelTyped'
    BY <1>8, <2>1, <2>2 DEF ReadStderr, KernelTyped
  <2> QED
    BY <1>8, <2>1, <2>3 DEF ReadStderr, SasTyped, ListingTyped
<1>9. CASE Return
  <2>1. results' \in Seq(Results)
    <3> DEFINE read == IF ManagesOds /\ exec_counter \in DOMAIN listing
                       THEN listing[exec_counter] ELSE <<>>
               result == [found |-> found_marker, log |-> log_output, html |-> html_output,
                          listing |-> read, is_error |-> Has(log_output, "error")]
    <3>1. read \in Seq(ListingItems)
      BY DEF ListingTyped
    <3>2. result \in Results
      BY <3>1 DEF Results, Has, KernelTyped
    <3>3. results' = Append(results, result)
      BY <1>9 DEF Return
    <3> HIDE DEF result
    <3> QED
      BY <3>2, <3>3 DEF KernelTyped
  <2>2. ListingTyped'
    BY <1>9 DEF Return, Restrict, ListingTyped
  <2>3. KernelTyped' /\ SasTyped'
    BY <1>9, <2>1 DEF Return, KernelTyped, SasTyped
  <2> QED
    BY <2>2, <2>3
<1>10. CASE SasReads
  <2> DEFINE stmt == Head(stdin)
  <2>1. stmt \in Statements /\ stdin' \in Seq(Statements) /\ Len(stdin') <= StdinCap
    BY <1>10, HeadTailProperties, Bounds DEF SasReads, SasTyped
  <2>2. todo' \in Seq(Works)
    BY <1>10, <2>1, WritesType DEF SasReads
  <2>3. stmt.ex \in 1 .. MaxExecs
    BY <2>1 DEF Statements
  <2>4. printto' \in 0 .. MaxExecs
    BY <1>10, <2>3, Bounds DEF SasReads, SasTyped
  <2>5. ListingTyped'
    <3>1. CASE stmt.does = "printto"
      <4>1. listing' = [n \in DOMAIN listing \cup {stmt.ex} |->
                          IF n = stmt.ex THEN <<>> ELSE listing[n]]
        BY <1>10, <3>1 DEF SasReads
      <4> HIDE DEF stmt
      <4> QED
        BY <2>3, <4>1 DEF ListingTyped
    <3>2. CASE stmt.does # "printto"
      BY <1>10, <3>2 DEF SasReads, ListingTyped
    <3> QED
      BY <3>1, <3>2
  <2>6. KernelTyped' /\ SasTyped'
    BY <1>10, <2>1, <2>2, <2>4 DEF SasReads, kernelVars, KernelTyped, SasTyped
  <2> QED
    BY <2>5, <2>6
<1>11. CASE SasWrites
  <2> DEFINE w == Head(todo)
  <2>1. w \in Works /\ todo' \in Seq(Works)
    BY <1>11, HeadTailProperties DEF SasWrites, SasTyped
  <2>2. KernelTyped' /\ UNCHANGED <<sas, stdin, printto>>
    BY <1>11 DEF SasWrites, kernelVars, KernelTyped
  <2> HIDE DEF w
  <2>3. CASE w.to = "out"
    <3>1. Len(stdout) < PipeCap /\ stdout' = Append(stdout, Item(w)) /\ UNCHANGED <<stderr, listing>>
      BY <1>11, <2>3 DEF SasWrites, w
    <3>2. Item(w) \in Items
      BY <2>1, <2>3, ItemType
    <3>3. stdout' \in Seq(Items) /\ Len(stdout') <= PipeCap
      BY <3>1, <3>2, Bounds DEF SasTyped
    <3> QED
      BY <2>1, <2>2, <3>1, <3>3 DEF SasTyped, ListingTyped
  <2>4. CASE w.to = "err"
    <3>1. Len(stderr) < PipeCap /\ stderr' = Append(stderr, Item(w)) /\ UNCHANGED <<stdout, listing>>
      BY <1>11, <2>4 DEF SasWrites, w
    <3>2. Item(w) \in Items
      BY <2>1, <2>4, ItemType
    <3>3. stderr' \in Seq(Items) /\ Len(stderr') <= PipeCap
      BY <3>1, <3>2, Bounds DEF SasTyped
    <3> QED
      BY <2>1, <2>2, <3>1, <3>3 DEF SasTyped, ListingTyped
  <2>5. CASE w.to = "lst"
    <3>1. /\ listing' = (IF printto \in DOMAIN listing
                         THEN [listing EXCEPT ![printto] = Append(@, Item(w))] ELSE listing)
          /\ UNCHANGED <<stdout, stderr>>
      BY <1>11, <2>5 DEF SasWrites, w
    <3>2. Item(w) \in ListingItems
      BY <2>1, <2>5, ItemType
    <3>3. CASE printto \in DOMAIN listing
      <4>1. Append(listing[printto], Item(w)) \in Seq(ListingItems)
        BY <3>2, <3>3 DEF ListingTyped
      <4>2. ListingTyped'
        BY <3>1, <3>3, <4>1 DEF ListingTyped
      <4> QED
        BY <2>1, <2>2, <3>1, <4>2 DEF SasTyped
    <3>4. CASE printto \notin DOMAIN listing
      BY <2>1, <2>2, <3>1, <3>4 DEF SasTyped, ListingTyped
    <3> QED
      BY <3>3, <3>4
  <2> QED
    BY <2>1, <2>3, <2>4, <2>5, ItemType
<1>12. CASE SasDies
  <2>1. KernelTyped' /\ ListingTyped'
    BY <1>12 DEF SasDies, kernelVars, KernelTyped, ListingTyped
  <2>2. stdin' = <<>> /\ Len(stdin') <= StdinCap /\ todo' = <<>>
    BY <1>12, Bounds DEF SasDies
  <2>3. SasTyped'
    BY <1>12, <2>2, Zeros DEF SasDies, SasTyped
  <2> QED
    BY <2>1, <2>3
<1> QED
  BY <1>0, <1>1, <1>2, <1>3, <1>4, <1>5, <1>6, <1>7, <1>8, <1>9, <1>10, <1>11, <1>12
     DEF Next, KernelStep

LEMMA PlacedStep ==
  ASSUME Typed, Placed, [Next]_streamVars
  PROVE  Placed'
<1> USE DEF Placed
<1>0. CASE UNCHANGED streamVars
  BY <1>0 DEF streamVars, kernelVars, sasVars, exec_counter
<1>1. ASSUME NEW prog \in Programs, NEW echo \in Echoes, Execute(prog, echo)
      PROVE  Placed'
  BY <1>1, Bounds DEF Execute, Typed, KernelTyped, exec_counter
<1>2. CASE Send
  <2>1. unsent' = Tail(unsent) /\ Len(unsent) = 1 => unsent' = <<>>
    BY <1>2, HeadTailProperties, EmptySeq, SMTT(40) DEF Typed, KernelTyped, Send
  <2> QED
    BY <1>2, <2>1 DEF Send, exec_counter
<1>3. CASE PollFinds
  BY <1>3 DEF PollFinds, exec_counter
<1>4. CASE PollTimesOut
  BY <1>4, Bounds DEF PollTimesOut, CountTimeout, GivesUp, Typed, KernelTyped, exec_counter
<1>5. CASE PollHangsUp
  BY <1>5 DEF PollHangsUp, exec_counter
<1>6. CASE PollInterrupted
  BY <1>6 DEF PollInterrupted, exec_counter
<1>7. CASE ReadStdout
  BY <1>7 DEF ReadStdout, exec_counter
<1>8. CASE ReadStderr
  BY <1>8 DEF ReadStderr, exec_counter
<1>9. CASE Return
  BY <1>9 DEF Return, Typed, KernelTyped, exec_counter
<1>10. CASE SasReads
  BY <1>10 DEF SasReads, kernelVars, exec_counter
<1>11. CASE SasWrites
  BY <1>11 DEF SasWrites, kernelVars, exec_counter
<1>12. CASE SasDies
  BY <1>12 DEF SasDies, kernelVars, exec_counter
<1> QED
  BY <1>0, <1>1, <1>2, <1>3, <1>4, <1>5, <1>6, <1>7, <1>8, <1>9, <1>10, <1>11, <1>12
     DEF Next, KernelStep

-----------------------------------------------------------------------------
(***************************************************************************)
(* How the statements that SAS has not begun change: none of these steps   *)
(* reorders them.                                                          *)
(***************************************************************************)

LEMMA PendingIs ==
  ASSUME Typed
  PROVE  /\ Pending \in Seq(Statements) /\ DOMAIN Pending = 1 .. Len(stdin) + Len(unsent)
         /\ Len(stdin) \in Nat /\ Len(unsent) \in Nat
         /\ \A i \in 1 .. Len(stdin) : Pending[i] = stdin[i]
         /\ \A i \in 1 .. Len(unsent) : Pending[Len(stdin) + i] = unsent[i]
<1>1. stdin \in Seq(Statements) /\ unsent \in Seq(Statements)
  BY DEF Typed, KernelTyped, SasTyped
<1> QED
  BY <1>1, StatementsIn DEF Pending

LEMMA PendingSend ==
  ASSUME Typed, Send
  PROVE  Pending' = Pending
<1>1. CASE sas = "alive"
  <2>1. /\ stdin \in Seq(Statements) /\ unsent \in Seq(Statements) /\ unsent # <<>>
        /\ stdin' = Append(stdin, Head(unsent)) /\ unsent' = Tail(unsent)
    BY <1>1 DEF Send, Typed, KernelTyped, SasTyped
  <2>2. Head(unsent) \in Statements /\ Tail(unsent) \in Seq(Statements)
    BY <2>1, HeadTailProperties
  <2>3. stdin' = stdin \o <<Head(unsent)>>
    BY <2>1, <2>2, AppendIsConcat
  <2>4. <<Head(unsent)>> \o Tail(unsent) = unsent
    BY <2>1, <2>2
  <2>5. <<Head(unsent)>> \in Seq(Statements)
    BY <2>2
  <2>6. (stdin \o <<Head(unsent)>>) \o Tail(unsent) = stdin \o (<<Head(unsent)>> \o Tail(unsent))
    BY <2>1, <2>2, <2>5, ConcatAssociative
  <2> QED
    BY <2>1, <2>3, <2>4, <2>6 DEF Pending
<1>2. CASE sas # "alive"
  BY <1>2 DEF Send, Pending
<1> QED
  BY <1>1, <1>2

LEMMA PendingReads ==
  ASSUME Typed, SasReads
  PROVE  /\ 1 \in DOMAIN Pending /\ Pending[1] = Head(stdin)
         /\ \A i \in DOMAIN Pending' :
              /\ i \in Nat \ {0} /\ i + 1 \in DOMAIN Pending
              /\ Pending'[i] = Pending[i + 1]
<1>1. /\ stdin \in Seq(Statements) /\ stdin # <<>> /\ unsent \in Seq(Statements)
      /\ Pending' = Tail(stdin) \o unsent
  BY DEF SasReads, kernelVars, Pending, Typed, KernelTyped, SasTyped
<1>2. /\ Tail(stdin) \in Seq(Statements)
      /\ Len(Tail(stdin)) = Len(stdin) - 1 /\ Len(stdin) \in Nat \ {0} /\ Head(stdin) = stdin[1]
      /\ \A i \in 1 .. Len(stdin) - 1 : Tail(stdin)[i] = stdin[i + 1]
  BY <1>1, HeadTailProperties, EmptySeq
<1> DEFINE rest == Tail(stdin)
           later == rest \o unsent
<1> HIDE DEF rest
<1>3. /\ rest \in Seq(Statements) /\ Len(rest) = Len(stdin) - 1
      /\ \A i \in 1 .. Len(stdin) - 1 : rest[i] = stdin[i + 1]
  BY <1>2 DEF rest
<1>4. /\ DOMAIN later = 1 .. Len(stdin) - 1 + Len(unsent)
      /\ \A i \in 1 .. Len(stdin) - 1 : later[i] = stdin[i + 1]
      /\ \A i \in 1 .. Len(unsent) : later[Len(stdin) - 1 + i] = unsent[i]
  <2>1. /\ later \in Seq(Statements) /\ Len(later) = Len(rest) + Len(unsent)
        /\ \A i \in 1 .. Len(rest) : later[i] = rest[i]
        /\ \A i \in 1 .. Len(unsent) : later[Len(rest) + i] = unsent[i]
    BY <1>1, <1>3, StatementsIn
  <2>2. DOMAIN later = 1 .. Len(later)
    BY <2>1
  <2> HIDE DEF later
  <2> QED
    BY <1>3, <2>1, <2>2
<1>5. Pending' = later
  BY <1>1 DEF rest
<1> HIDE DEF later
<1>6. Len(stdin) \in Nat \ {0} /\ Len(unsent) \in Nat
  BY <1>1, <1>2
<1>7. 1 \in DOMAIN Pending /\ Pending[1] = Head(stdin)
  BY <1>2, <1>6, PendingIs
<1>8. ASSUME NEW i \in DOMAIN later
      PROVE  i \in Nat \ {0} /\ i + 1 \in DOMAIN Pending /\ later[i] = Pending[i + 1]
  <2>1. i \in Nat \ {0} /\ i + 1 \in DOMAIN Pending
    BY <1>4, <1>6, PendingIs
  <2>2. CASE i <= Len(stdin) - 1
    <3>1. i \in 1 .. Len(stdin) - 1 /\ i + 1 \in 1 .. Len(stdin)
      BY <1>6, <2>1, <2>2
    <3> QED
      BY <1>4, <2>1, <3>1, PendingIs
  <2>3. CASE i > Len(stdin) - 1
    <3>1. i - (Len(stdin) - 1) \in 1 .. Len(unsent)
      BY <1>4, <1>6, <2>1, <2>3
    <3>2. later[i] = unsent[i - (Len(stdin) - 1)]
      BY <1>4, <1>6, <2>1, <3>1
    <3>3. Pending[Len(stdin) + (i - (Len(stdin) - 1))] = unsent[i - (Len(stdin) - 1)]
      BY <3>1, PendingIs
    <3>4. Len(stdin) + (i - (Len(stdin) - 1)) = i + 1
      BY <1>6, <2>1
    <3> QED
      BY <2>1, <3>2, <3>3, <3>4
  <2> QED
    BY <1>6, <2>1, <2>2, <2>3
<1> QED
  BY <1>5, <1>7, <1>8

LEMMA PendingDies ==
  ASSUME Typed, SasDies
  PROVE  \A i \in DOMAIN Pending' :
           /\ i \in Nat /\ Len(stdin) + i \in DOMAIN Pending
           /\ Pending'[i] = Pending[Len(stdin) + i]
<1>1. Pending' = <<>> \o unsent /\ unsent \in Seq(Statements)
  BY DEF SasDies, kernelVars, Pending, Typed, KernelTyped
<1>2. Pending' = unsent
  BY <1>1, ConcatEmptySeq
<1> QED
  BY <1>1, <1>2, PendingIs

LEMMA PendingExecute ==
  ASSUME Typed, Placed, NEW prog \in Programs, NEW echo \in Echoes, Execute(prog, echo)
  PROVE  /\ exec_counter' = exec_counter + 1 /\ exec_counter' \in 1 .. MaxExecs
         /\ submitted'[exec_counter'] = prog
         /\ \A n \in 1 .. exec_counter : submitted'[n] = submitted[n]
         /\ \A i \in DOMAIN Pending' :
              \/ i \in DOMAIN Pending /\ Pending'[i] = Pending[i]
              \/ /\ i \notin DOMAIN Pending
                 /\ IsOf(Pending'[i], exec_counter', prog)
                 /\ ~(PrintsMarker(Pending'[i]) /\ IsUsers(Pending'[i]))
         /\ \A i, j \in DOMAIN Pending' :
              i < j /\ i \notin DOMAIN Pending /\ PrintsMarker(Pending'[i]) =>
                ~IsUsers(Pending'[j])
         /\ \A i, j \in DOMAIN Pending' :
              i < j /\ j \in DOMAIN Pending => i \in DOMAIN Pending
<1>1. /\ submitted \in Seq(Programs) /\ submitted' = Append(submitted, prog)
      /\ exec_counter < MaxExecs /\ stdin' = stdin /\ stdin \in Seq(Statements)
  BY DEF Execute, sasVars, Typed, KernelTyped, SasTyped
<1>2. exec_counter' = exec_counter + 1 /\ exec_counter' \in 1 .. MaxExecs
  BY <1>1, Bounds DEF exec_counter
<1>3. submitted'[exec_counter'] = prog /\ \A n \in 1 .. exec_counter : submitted'[n] = submitted[n]
  BY <1>1, <1>2, AppendProperties DEF exec_counter
<1> DEFINE code == WrappedCode(exec_counter + 1, prog, echo)
<1>4. /\ code \in Seq(Statements)
      /\ \A i \in 1 .. Len(code) : /\ IsOf(code[i], exec_counter', prog)
                                   /\ ~(PrintsMarker(code[i]) /\ IsUsers(code[i]))
      /\ \A i, j \in 1 .. Len(code) : i < j /\ PrintsMarker(code[i]) => ~IsUsers(code[j])
  BY <1>2, CodeShape
<1>5. Pending' = stdin \o code
  BY <1>1 DEF Execute, Pending
<1>6. unsent = <<>>
  BY DEF Execute, Placed
<1> HIDE DEF code
<1>7. /\ DOMAIN Pending = 1 .. Len(stdin) /\ Len(stdin) \in Nat
      /\ \A i \in 1 .. Len(stdin) : Pending[i] = stdin[i]
  BY <1>6, PendingIs
<1> DEFINE all == stdin \o code
<1>8. /\ DOMAIN all = 1 .. Len(stdin) + Len(code) /\ Len(code) \in Nat
      /\ \A i \in 1 .. Len(stdin) : all[i] = stdin[i]
      /\ \A i \in 1 .. Len(code) : all[Len(stdin) + i] = code[i]
  BY <1>1, <1>4, StatementsIn
<1>9. Pending' = all
  BY <1>5
<1> HIDE DEF all
<1>10. ASSUME NEW i \in DOMAIN all, i \notin DOMAIN Pending
       PROVE  i - Len(stdin) \in 1 .. Len(code) /\ all[i] = code[i - Len(stdin)]
  <2>1. i - Len(stdin) \in 1 .. Len(code) /\ Len(stdin) + (i - Len(stdin)) = i
    BY <1>7, <1>8, <1>10
  <2> QED
    BY <1>8, <2>1
<1>11. \A i \in DOMAIN all :
         \/ i \in DOMAIN Pending /\ all[i] = Pending[i]
         \/ /\ i \notin DOMAIN Pending
            /\ IsOf(all[i], exec_counter', prog) /\ ~(PrintsMarker(all[i]) /\ IsUsers(all[i]))
  BY <1>4, <1>7, <1>8, <1>10
<1>12. ASSUME NEW i \in DOMAIN all, NEW j \in DOMAIN all, i < j, i \notin DOMAIN Pending,
              PrintsMarker(all[i])
       PROVE  ~IsUsers(all[j])
  <2>1. j \notin DOMAIN Pending
    BY <1>7, <1>8, <1>12
  <2>2. i - Len(stdin) < j - Len(stdin)
    BY <1>7, <1>8, <1>12
  <2> QED
    BY <1>4, <1>10, <1>12, <2>1, <2>2
<1>13. \A i, j \in DOMAIN all : i < j /\ j \in DOMAIN Pending => i \in DOMAIN Pending
  BY <1>7, <1>8
<1> QED
  BY <1>2, <1>3, <1>9, <1>11, <1>12, <1>13

-----------------------------------------------------------------------------
(***************************************************************************)
(* The order.  Only six steps touch what it is about.                      *)
(***************************************************************************)

LEMMA PendingType ==
  ASSUME Typed, NEW i \in DOMAIN Pending
  PROVE  Pending[i] \in Statements /\ Pending[i].ex \in Nat \ {0}
<1>1. Pending[i] \in Statements
  BY PendingIs
<1> QED
  BY <1>1, Bounds DEF Statements

LEMMA OrderUntouched ==
  ASSUME Sorted, Ordered, ListingRemoved, Pending' = Pending,
         UNCHANGED <<submitted, results, found_marker, stderr, todo, listing>>
  PROVE  Sorted' /\ Ordered' /\ ListingRemoved'
BY DEF Sorted, Ordered, ListingRemoved, MarkerSeen, DoneUpTo, exec_counter

LEMMA OrderExecute ==
  ASSUME StreamInv, NEW prog \in Programs, NEW echo \in Echoes, Execute(prog, echo)
  PROVE  Sorted' /\ Ordered' /\ ListingRemoved'
<1> USE DEF StreamInv
<1>1. UNCHANGED <<results, todo, stderr, listing>> /\ ~found_marker'
  BY DEF Execute, sasVars
<1>2. /\ exec_counter' = exec_counter + 1 /\ exec_counter \in Nat
      /\ submitted'[exec_counter'] = prog
      /\ \A n \in 1 .. exec_counter : submitted'[n] = submitted[n]
  BY PendingExecute DEF Typed, KernelTyped, exec_counter
<1>3. \A i \in DOMAIN Pending : Pending[i].ex \in 1 .. exec_counter
  BY <1>2, PendingType DEF Sorted
<1>4. \A i \in DOMAIN Pending' :
        \/ i \in DOMAIN Pending /\ Pending'[i] = Pending[i]
        \/ /\ i \notin DOMAIN Pending
           /\ IsOf(Pending'[i], exec_counter', prog)
           /\ ~(PrintsMarker(Pending'[i]) /\ IsUsers(Pending'[i]))
  BY PendingExecute
<1>5. Sorted'
  <2>1. ASSUME NEW i \in DOMAIN Pending'
        PROVE  /\ Pending'[i].ex <= exec_counter'
               /\ ~(PrintsMarker(Pending'[i]) /\ IsUsers(Pending'[i]))
               /\ Pending'[i].does = "printto" => submitted'[Pending'[i].ex].manages_ods
    <3>1. CASE i \in DOMAIN Pending /\ Pending'[i] = Pending[i]
      BY <1>2, <1>3, <3>1 DEF Sorted
    <3>2. CASE ~(i \in DOMAIN Pending /\ Pending'[i] = Pending[i])
      BY <1>2, <1>4, <3>2 DEF IsOf
    <3> QED
      BY <3>1, <3>2
  <2>2. \A i \in DOMAIN todo' : todo'[i].ex <= exec_counter'
    <3> SUFFICES ASSUME NEW i \in DOMAIN todo PROVE todo[i].ex <= exec_counter + 1
      BY <1>1, <1>2
    <3>1. todo[i].ex \in Nat
      BY Bounds, ItemType DEF Typed, SasTyped
    <3> QED
      BY <1>2, <3>1 DEF Sorted
  <2>3. \A i \in DOMAIN stderr' : stderr'[i].ex <= exec_counter'
    <3> SUFFICES ASSUME NEW i \in DOMAIN stderr PROVE stderr[i].ex <= exec_counter + 1
      BY <1>1, <1>2
    <3>1. stderr[i] \in Items
      BY DEF Typed, SasTyped
    <3>2. stderr[i].ex \in Nat
      BY <3>1, Bounds DEF Items
    <3> QED
      BY <1>2, <3>2 DEF Sorted
  <2>4. \A n \in DOMAIN listing' : n <= exec_counter' /\ submitted'[n].manages_ods
    <3> SUFFICES ASSUME NEW n \in DOMAIN listing
                 PROVE  n <= exec_counter + 1 /\ submitted'[n].manages_ods
      BY <1>1, <1>2
    <3>1. n \in 1 .. exec_counter
      BY <1>2, Bounds DEF Sorted, Typed, ListingTyped
    <3> QED
      BY <1>2, <3>1 DEF Sorted
  <2> QED
    BY <2>1, <2>2, <2>3, <2>4 DEF Sorted
<1>6. Ordered'
  <2>1. ASSUME NEW n \in 1 .. exec_counter, DoneUpTo(n)
        PROVE  DoneUpTo(n)'
    <3>1. \A i \in DOMAIN Pending' : IsUsers(Pending'[i]) => n < Pending'[i].ex
      BY <1>2, <1>4, <2>1 DEF DoneUpTo, IsOf
    <3> QED
      BY <1>1, <2>1, <3>1 DEF DoneUpTo
  <2>2. ASSUME NEW n \in 1 .. exec_counter', MarkerSeen(n)'
        PROVE  DoneUpTo(n)'
    <3>1. MarkerSeen(n)
      BY <1>1, <2>2 DEF MarkerSeen
    <3>2. n \in 1 .. exec_counter
      <4>1. CASE \E i \in DOMAIN stderr : stderr[i].kind \in MarkerKinds /\ stderr[i].ex = n
        BY <1>2, <2>2, <4>1 DEF Sorted
      <4>2. CASE n \in DOMAIN results /\ results[n].found
        <5>1. Len(results) = exec_counter /\ results \in Seq(Results)
          BY DEF Execute, Placed, Typed, KernelTyped
        <5> QED
          BY <4>2, <5>1
      <4> QED
        BY <1>1, <2>2, <4>1, <4>2 DEF MarkerSeen
    <3> QED
      BY <2>1, <3>1, <3>2 DEF Ordered
  <2>3. ASSUME NEW i \in DOMAIN todo, todo[i].kind \in MarkerKinds
        PROVE  DoneUpTo(todo[i].ex)'
    <3>1. todo[i].ex \in 1 .. exec_counter
      <4>1. todo[i] \in Works
        BY DEF Typed, SasTyped
      <4> QED
        BY <1>2, <4>1, ItemType, Bounds DEF Sorted
    <3>2. DoneUpTo(todo[i].ex)
      BY <2>3 DEF Ordered
    <3>3. todo'[i] = todo[i]
      BY <1>1
    <3> QED
      BY <1>1, <2>1, <3>1, <3>2, <3>3
  <2>4. ASSUME NEW i \in DOMAIN Pending', NEW j \in DOMAIN Pending', i < j,
               PrintsMarker(Pending'[i]), IsUsers(Pending'[j])
        PROVE  Pending'[i].ex < Pending'[j].ex
    <3>1. i \in DOMAIN Pending /\ Pending'[i] = Pending[i]
      BY <1>4, <2>4, PendingExecute
    <3>2. CASE j \in DOMAIN Pending
      BY <1>4, <2>4, <3>1, <3>2 DEF Ordered
    <3>3. CASE j \notin DOMAIN Pending
      BY <1>2, <1>3, <1>4, <3>1, <3>3 DEF IsOf
    <3> QED
      BY <3>2, <3>3
  <2> QED
    BY <1>1, <2>2, <2>3, <2>4 DEF Ordered
<1>7. ListingRemoved'
  BY <1>1 DEF ListingRemoved
<1> QED
  BY <1>5, <1>6, <1>7

LEMMA OrderReadStderr ==
  ASSUME StreamInv, ReadStderr
  PROVE  Sorted' /\ Ordered' /\ ListingRemoved'
<1> USE DEF StreamInv
<1>1. UNCHANGED <<submitted, results, todo, listing>> /\ Pending' = Pending
      /\ exec_counter' = exec_counter
  BY DEF ReadStderr, Pending, exec_counter
<1>2. stderr \in Seq(Items)
  BY DEF Typed, SasTyped
<1>3. \A i \in DOMAIN stderr' : \E j \in DOMAIN stderr : stderr'[i] = stderr[j]
  BY <1>2, ChunkAndRest DEF ReadStderr
<1>4. found_marker' => MarkerSeen(exec_counter)
  <2> SUFFICES ASSUME found_marker', ~found_marker PROVE MarkerSeen(exec_counter)
    BY DEF MarkerSeen
  <2>1. PICK i \in DOMAIN Chunk(stderr) : MarkerAt(Chunk(stderr), i)
    BY DEF ReadStderr, Markers
  <2>2. i \in DOMAIN stderr /\ Chunk(stderr)[i] = stderr[i]
    BY <1>2, ChunkAndRest
  <2>3. stderr[i].ex = exec_counter /\ stderr[i].kind \in MarkerKinds
    BY <2>1, <2>2 DEF MarkerAt, IsCurrent, MarkerKinds
  <2> QED
    BY <2>2, <2>3 DEF MarkerSeen
<1>5. \A n : MarkerSeen(n)' => MarkerSeen(n)
  <2> SUFFICES ASSUME NEW n, MarkerSeen(n)' PROVE MarkerSeen(n)
    OBVIOUS
  <2>1. CASE \E i \in DOMAIN stderr' : stderr'[i].kind \in MarkerKinds /\ stderr'[i].ex = n
    BY <1>3, <2>1 DEF MarkerSeen
  <2>2. CASE found_marker' /\ n = exec_counter'
    BY <1>1, <1>4, <2>2
  <2>3. CASE n \in DOMAIN results' /\ results'[n].found
    BY <1>1, <2>3 DEF MarkerSeen
  <2> QED
    BY <2>1, <2>2, <2>3 DEF MarkerSeen
<1>6. Sorted'
  BY <1>1, <1>3 DEF Sorted
<1>7. Ordered'
  BY <1>1, <1>5 DEF Ordered, DoneUpTo
<1> QED
  BY <1>1, <1>6, <1>7 DEF ListingRemoved

LEMMA OrderReturn ==
  ASSUME StreamInv, Return
  PROVE  Sorted' /\ Ordered' /\ ListingRemoved'
<1> USE DEF StreamInv
<1>1. UNCHANGED <<submitted, todo, stderr, found_marker>> /\ Pending' = Pending
      /\ exec_counter' = exec_counter
  BY DEF Return, Pending, exec_counter
<1>2. /\ Len(results) = exec_counter - 1 /\ results \in Seq(Results)
      /\ exec_counter \in Nat \ {0}
  BY DEF Return, Placed, Typed, KernelTyped, exec_counter
<1>3. /\ DOMAIN results = 1 .. exec_counter - 1 /\ DOMAIN results' = 1 .. exec_counter
      /\ Len(results') = exec_counter
      /\ \A n \in 1 .. exec_counter - 1 : results'[n] = results[n]
      /\ results'[exec_counter].found = found_marker
  BY <1>2 DEF Return
<1>4. /\ \A n \in DOMAIN listing' : n \in DOMAIN listing
      /\ submitted[exec_counter].manages_ods => exec_counter \notin DOMAIN listing'
  BY DEF Return, ManagesOds, Restrict
<1>5. \A n : MarkerSeen(n)' => MarkerSeen(n)
  <2> SUFFICES ASSUME NEW n, n \in DOMAIN results', results'[n].found PROVE MarkerSeen(n)
    BY <1>1 DEF MarkerSeen
  <2>1. CASE n = exec_counter
    BY <1>3, <2>1 DEF MarkerSeen
  <2>2. CASE n # exec_counter
    BY <1>2, <1>3, <2>2 DEF MarkerSeen
  <2> QED
    BY <2>1, <2>2
<1>6. Sorted'
  BY <1>1, <1>4 DEF Sorted
<1>7. Ordered'
  BY <1>1, <1>5 DEF Ordered, DoneUpTo
<1>8. ListingRemoved'
  <2> SUFFICES ASSUME NEW n \in 1 .. exec_counter, n \in DOMAIN listing'
               PROVE  ~results'[n].found
    BY <1>3 DEF ListingRemoved
  <2>1. n # exec_counter
    BY <1>4 DEF Sorted
  <2> QED
    BY <1>2, <1>3, <1>4, <2>1 DEF ListingRemoved
<1> QED
  BY <1>6, <1>7, <1>8

LEMMA OrderSasReads ==
  ASSUME StreamInv, SasReads
  PROVE  Sorted' /\ Ordered' /\ ListingRemoved'
<1> USE DEF StreamInv
<1> DEFINE stmt == Head(stdin)
<1>1. UNCHANGED <<submitted, results, stderr, found_marker>> /\ exec_counter' = exec_counter
  BY DEF SasReads, kernelVars, exec_counter
<1>2. /\ 1 \in DOMAIN Pending /\ Pending[1] = stmt
      /\ \A i \in DOMAIN Pending' : /\ i \in Nat \ {0} /\ i + 1 \in DOMAIN Pending
                                    /\ Pending'[i] = Pending[i + 1]
  BY PendingReads
<1>3. /\ stmt \in Statements /\ stmt.ex \in Nat \ {0} /\ stmt.ex <= exec_counter
      /\ ~(PrintsMarker(stmt) /\ IsUsers(stmt))
      /\ stmt.does = "printto" => submitted[stmt.ex].manages_ods
  BY <1>2, PendingType DEF Sorted
<1>4. /\ todo' = Writes(stmt)
      /\ listing' = (IF stmt.does = "printto"
                     THEN [n \in DOMAIN listing \cup {stmt.ex} |->
                             IF n = stmt.ex THEN <<>> ELSE listing[n]]
                     ELSE listing)
  BY DEF SasReads
<1> HIDE DEF stmt
<1>5. /\ DOMAIN todo' = DOMAIN stmt.writes
      /\ \A i \in DOMAIN todo' :
           todo'[i].ex = stmt.ex /\ todo'[i].kind = stmt.writes[i].kind
  BY <1>3, <1>4, WritesType
<1>6. \A n \in DOMAIN listing' : n \in DOMAIN listing \/ (stmt.does = "printto" /\ n = stmt.ex)
  BY <1>4
<1>7. Sorted'
  BY <1>1, <1>2, <1>3, <1>5, <1>6 DEF Sorted
<1>8. Ordered'
  <2>1. ASSUME NEW n, MarkerSeen(n)', n \in 1 .. exec_counter PROVE DoneUpTo(n)'
    <3>1. DoneUpTo(n)
      BY <1>1, <2>1 DEF Ordered, MarkerSeen
    <3>2. \A i \in DOMAIN todo' : todo'[i].kind \notin MarkerKinds => n < todo'[i].ex
      BY <1>2, <1>5, <3>1 DEF DoneUpTo, IsUsers
    <3> QED
      BY <1>2, <3>1, <3>2 DEF DoneUpTo
  <2>2. ASSUME NEW i \in DOMAIN todo', todo'[i].kind \in MarkerKinds
        PROVE  DoneUpTo(todo[i].ex)'
    <3>1. PrintsMarker(stmt) /\ todo'[i].ex = stmt.ex
      BY <1>5, <2>2 DEF PrintsMarker
    <3>2. \A j \in DOMAIN todo' : todo'[j].kind \in MarkerKinds
      BY <1>3, <1>5, <3>1 DEF IsUsers
    <3>3. \A j \in DOMAIN Pending' : IsUsers(Pending'[j]) => stmt.ex < Pending'[j].ex
      BY <1>2, <3>1 DEF Ordered
    <3> QED
      BY <3>1, <3>2, <3>3 DEF DoneUpTo
  <2>3. ASSUME NEW i \in DOMAIN Pending', NEW j \in DOMAIN Pending', i < j,
               PrintsMarker(Pending'[i]), IsUsers(Pending'[j])
        PROVE  Pending'[i].ex < Pending'[j].ex
    <3>1. i + 1 \in DOMAIN Pending /\ j + 1 \in DOMAIN Pending /\ i + 1 < j + 1
          /\ Pending'[i] = Pending[i + 1] /\ Pending'[j] = Pending[j + 1]
      BY <1>2, <2>3
    <3> QED
      BY <2>3, <3>1 DEF Ordered
  <2> QED
    BY <1>1, <2>1, <2>2, <2>3 DEF Ordered
<1>9. ListingRemoved'
  <2> SUFFICES ASSUME NEW n \in 1 .. Len(results), n \in DOMAIN listing'
               PROVE  ~results[n].found
    BY <1>1 DEF ListingRemoved
  <2>1. CASE n \in DOMAIN listing
    BY <2>1 DEF ListingRemoved
  <2>2. CASE stmt.does = "printto" /\ n = stmt.ex
    <3> SUFFICES ASSUME results[n].found PROVE FALSE
      OBVIOUS
    <3>1. MarkerSeen(n) /\ n \in 1 .. exec_counter
      BY <1>3, <2>2 DEF MarkerSeen, Typed, KernelTyped
    <3>2. n < stmt.ex
      BY <1>2, <2>2, <3>1 DEF Ordered, DoneUpTo, IsUsers
    <3> QED
      BY <1>3, <2>2, <3>2
  <2> QED
    BY <1>6, <2>1, <2>2
<1> QED
  BY <1>7, <1>8, <1>9

LEMMA OrderSasWrites ==
  ASSUME StreamInv, SasWrites
  PROVE  Sorted' /\ Ordered' /\ ListingRemoved'
<1> USE DEF StreamInv
<1> DEFINE w == Head(todo)
<1>1. /\ UNCHANGED <<submitted, results, found_marker>> /\ Pending' = Pending
      /\ exec_counter' = exec_counter
  BY DEF SasWrites, kernelVars, Pending, exec_counter
<1>2. todo \in Seq(Works) /\ todo # <<>> /\ todo' = Tail(todo) /\ stderr \in Seq(Items)
  BY DEF SasWrites, Typed, SasTyped
<1>3. /\ 1 \in DOMAIN todo /\ todo[1] = w
      /\ \A i \in DOMAIN todo' : i + 1 \in DOMAIN todo /\ todo'[i] = todo[i + 1]
  BY <1>2, HeadTailProperties
<1>4. w \in Works
  BY <1>2, <1>3
<1>5. /\ DOMAIN listing' = DOMAIN listing
      /\ stderr' = stderr \/ (stderr' = Append(stderr, Item(w)) /\ w.to = "err")
  <2>1. CASE w.to = "out"
    BY <2>1 DEF SasWrites
  <2>2. CASE w.to = "err"
    BY <2>2 DEF SasWrites
  <2>3. CASE w.to = "lst"
    BY <2>3 DEF SasWrites
  <2> QED
    BY <1>4, <2>1, <2>2, <2>3, ItemType
<1> HIDE DEF w
<1>6. ASSUME NEW i \in DOMAIN stderr'
      PROVE  \/ i \in DOMAIN stderr /\ stderr'[i] = stderr[i]
             \/ stderr'[i].ex = w.ex /\ stderr'[i].kind = w.kind
  <2>1. CASE stderr' = stderr
    BY <2>1
  <2>2. CASE stderr' = Append(stderr, Item(w)) /\ w.to = "err"
    <3>1. Item(w) \in Items /\ Item(w).ex = w.ex /\ Item(w).kind = w.kind
      BY <1>4, <2>2, ItemType DEF Item
    <3> QED
      BY <1>2, <2>2, <3>1, AppendProperties
  <2> QED
    BY <1>5, <2>1, <2>2
<1>7. \A n : DoneUpTo(n) => DoneUpTo(n)'
  BY <1>1, <1>3 DEF DoneUpTo
<1>8. Sorted'
  BY <1>1, <1>3, <1>5, <1>6 DEF Sorted
<1>9. Ordered'
  <2>1. ASSUME NEW n \in 1 .. exec_counter, MarkerSeen(n)' PROVE DoneUpTo(n)
    <3>1. CASE MarkerSeen(n)
      BY <3>1 DEF Ordered
    <3>2. CASE ~MarkerSeen(n)
      <4>1. PICK i \in DOMAIN stderr' : stderr'[i].kind \in MarkerKinds /\ stderr'[i].ex = n
        BY <1>1, <2>1, <3>2 DEF MarkerSeen
      <4>2. w.ex = n /\ w.kind \in MarkerKinds
        BY <1>6, <3>2, <4>1 DEF MarkerSeen
      <4> QED
        BY <1>3, <4>2 DEF Ordered
    <3> QED
      BY <3>1, <3>2
  <2>2. \A i \in DOMAIN todo' : todo'[i].kind \in MarkerKinds => DoneUpTo(todo[i].ex)'
    BY <1>3, <1>7 DEF Ordered
  <2> QED
    BY <1>1, <1>7, <2>1, <2>2 DEF Ordered
<1>10. ListingRemoved'
  BY <1>1, <1>5 DEF ListingRemoved
<1> QED
  BY <1>8, <1>9, <1>10

LEMMA OrderSasDies ==
  ASSUME StreamInv, SasDies
  PROVE  Sorted' /\ Ordered' /\ ListingRemoved'
<1> USE DEF StreamInv
<1>1. UNCHANGED <<submitted, results, stderr, found_marker, listing>> /\ todo' = <<>>
      /\ exec_counter' = exec_counter
  BY DEF SasDies, kernelVars, exec_counter
<1>2. /\ Len(stdin) \in Nat
      /\ \A i \in DOMAIN Pending' : /\ i \in Nat /\ Len(stdin) + i \in DOMAIN Pending
                                    /\ Pending'[i] = Pending[Len(stdin) + i]
  BY PendingDies, PendingIs
<1>3. Sorted'
  BY <1>1, <1>2 DEF Sorted
<1>4. Ordered'
  <2>1. \A n : DoneUpTo(n) => DoneUpTo(n)'
    BY <1>1, <1>2 DEF DoneUpTo
  <2>2. \A n : MarkerSeen(n)' => MarkerSeen(n)
    BY <1>1 DEF MarkerSeen
  <2>3. ASSUME NEW i \in DOMAIN Pending', NEW j \in DOMAIN Pending', i < j,
               PrintsMarker(Pending'[i]), IsUsers(Pending'[j])
        PROVE  Pending'[i].ex < Pending'[j].ex
    <3>1. Len(stdin) + i < Len(stdin) + j
      BY <1>2, <2>3
    <3> QED
      BY <1>2, <2>3, <3>1 DEF Ordered
  <2> QED
    BY <1>1, <2>1, <2>2, <2>3 DEF Ordered
<1> QED
  BY <1>1, <1>3, <1>4 DEF ListingRemoved

-----------------------------------------------------------------------------
LEMMA StreamStep == StreamInv /\ [Next]_streamVars => StreamInv'
<1> SUFFICES ASSUME StreamInv, [Next]_streamVars PROVE StreamInv'
  OBVIOUS
<1>1. Typed' /\ Placed'
  BY TypedStep, PlacedStep DEF StreamInv
<1>2. Sorted' /\ Ordered' /\ ListingRemoved'
  <2>1. CASE \/ UNCHANGED streamVars
             \/ PollFinds \/ PollTimesOut \/ PollHangsUp \/ PollInterrupted \/ ReadStdout
    <3>1. Pending' = Pending /\ UNCHANGED <<submitted, results, found_marker, stderr, todo, listing>>
      BY <2>1 DEF streamVars, kernelVars, sasVars, PollFinds, PollTimesOut, PollHangsUp,
                  PollInterrupted, ReadStdout, Pending
    <3> QED
      BY <3>1, OrderUntouched DEF StreamInv
  <2>2. CASE Send
    <3>1. Pending' = Pending /\ UNCHANGED <<submitted, results, found_marker, stderr, todo, listing>>
      BY <2>2, PendingSend DEF Send, StreamInv
    <3> QED
      BY <3>1, OrderUntouched DEF StreamInv
  <2> QED
    BY <2>1, <2>2, OrderExecute, OrderReadStderr, OrderReturn, OrderSasReads, OrderSasWrites,
       OrderSasDies DEF Next, KernelStep
<1> QED
  BY <1>1, <1>2 DEF StreamInv

LEMMA StreamInvariant == Spec => []StreamInv
BY StreamInit, StreamStep, PTL DEF Spec

\* For any programs and limits: neither a counter nor a pipe passes its limit, and
\* there is a result for every execution but the one in progress.
THEOREM StreamTypeCorrect == Spec => []TypeOK
<1>1. StreamInv => TypeOK
  <2> SUFFICES ASSUME StreamInv PROVE TypeOK
    OBVIOUS
  <2>1. Len(results) \in {Len(submitted), Len(submitted) - 1}
    BY DEF StreamInv, Placed, exec_counter
  <2>2. {html_output, log_output} \subseteq Seq(Items)
        /\ {found_marker, has_html_start, found_html_end} \subseteq BOOLEAN
        /\ {stdout, stderr} \subseteq Seq(Items)
    BY DEF StreamInv, Typed, KernelTyped, SasTyped
  <2> QED
    BY <2>1, <2>2 DEF TypeOK, StreamInv, Typed, KernelTyped, SasTyped, ListingTyped
<1> QED
  BY <1>1, StreamInvariant, PTL

\* The marker of an execution comes out of SAS after all that was sent before it, also
\* when executions before it were given up, whatever their programs and their output.
THEOREM StreamMarkerMeansFinished == Spec => []MarkerMeansFinished
<1>1. StreamInv => MarkerMeansFinished
  <2> SUFFICES ASSUME StreamInv, at = "return", found_marker
               PROVE  /\ \A w \in ToSet(todo) : w.kind \in MarkerKinds
                      /\ \A stmt \in ToSet(Pending) :
                           stmt.does = "run" /\ \A w \in ToSet(stmt.writes) : w.kind \in MarkerKinds
    BY DEF MarkerMeansFinished
  <2> USE DEF StreamInv
  <2>1. exec_counter \in Nat \ {0}
    BY DEF Placed, Typed, KernelTyped, exec_counter
  <2>2. DoneUpTo(exec_counter)
    BY <2>1 DEF Ordered, MarkerSeen
  <2>3. \A i \in DOMAIN todo : todo[i].kind \in MarkerKinds
    <3> SUFFICES ASSUME NEW i \in DOMAIN todo, todo[i].kind \notin MarkerKinds PROVE FALSE
      OBVIOUS
    <3>1. todo[i].ex \in Nat
      BY Bounds, ItemType DEF Typed, SasTyped
    <3> QED
      BY <2>1, <2>2, <3>1 DEF DoneUpTo, Sorted
  <2>4. \A i \in DOMAIN Pending : ~IsUsers(Pending[i])
    <3> SUFFICES ASSUME NEW i \in DOMAIN Pending, IsUsers(Pending[i]) PROVE FALSE
      OBVIOUS
    <3> QED
      BY <2>1, <2>2, PendingType DEF DoneUpTo, Sorted
  <2> QED
    BY <2>3, <2>4 DEF ToSet, IsUsers
<1> QED
  BY <1>1, StreamInvariant, PTL

\* A listing file is left behind only by an execution that gave up.
THEOREM StreamListingRemoved == Spec => []ListingRemoved
BY StreamInvariant, PTL DEF StreamInv

-----------------------------------------------------------------------------
(***************************************************************************)
(* Where, and what the statements write, along a sequence.                 *)
(***************************************************************************)

Chosen(s, field, values) ==
  [i \in 1 .. Len(s) |-> IF s[i][field] \in values THEN <<s[i]>> ELSE <<>>]

LEMMA ChosenType ==
  ASSUME NEW T, NEW s \in Seq(T), NEW field, NEW values
  PROVE  Chosen(s, field, values) \in Seq(Seq(T)) /\ Len(Chosen(s, field, values)) = Len(s)
<1>1. Len(s) \in Nat /\ \A i \in 1 .. Len(s) : s[i] \in T
  OBVIOUS
<1>2. \A i \in 1 .. Len(s) :
        (IF s[i][field] \in values THEN <<s[i]>> ELSE <<>>) \in Seq(T)
  BY <1>1
<1> QED
  BY <1>1, <1>2 DEF Chosen

LEMMA ChosenAppend ==
  ASSUME NEW T, NEW s \in Seq(T), NEW e \in T, NEW field, NEW values
  PROVE  Chosen(Append(s, e), field, values) =
           Append(Chosen(s, field, values), IF e[field] \in values THEN <<e>> ELSE <<>>)
<1> DEFINE t == Append(s, e)
           one == IF e[field] \in values THEN <<e>> ELSE <<>>
           c == Chosen(s, field, values)
           n == Len(s)
<1>1. n \in Nat /\ t \in Seq(T) /\ Len(t) = n + 1 /\ t[n + 1] = e /\ \A i \in 1 .. n : t[i] = s[i]
  BY AppendProperties
<1>2. c \in Seq(Seq(T)) /\ Len(c) = n /\ one \in Seq(T)
  BY ChosenType
<1>3. Chosen(t, field, values) \in Seq(Seq(T)) /\ Len(Chosen(t, field, values)) = n + 1
  BY <1>1, ChosenType
<1>4. /\ Append(c, one) \in Seq(Seq(T)) /\ Len(Append(c, one)) = n + 1
      /\ Append(c, one)[n + 1] = one /\ \A i \in 1 .. n : Append(c, one)[i] = c[i]
  BY <1>2, AppendProperties
<1> HIDE DEF t
<1>5. \A i \in 1 .. n + 1 : Chosen(t, field, values)[i] = Append(c, one)[i]
  <2> TAKE i \in 1 .. n + 1
  <2>1. Chosen(t, field, values)[i] = IF t[i][field] \in values THEN <<t[i]>> ELSE <<>>
    BY <1>1 DEF Chosen
  <2>2. CASE i = n + 1
    BY <1>1, <1>4, <2>1, <2>2
  <2>3. CASE i # n + 1
    <3>1. i \in 1 .. n
      BY <1>1, <2>3
    <3>2. c[i] = IF s[i][field] \in values THEN <<s[i]>> ELSE <<>>
      BY <3>1 DEF Chosen
    <3> QED
      BY <1>1, <1>4, <2>1, <3>1, <3>2
  <2> QED
    BY <2>2, <2>3
<1>6. Chosen(t, field, values) = Append(c, one)
  BY <1>3, <1>4, <1>5, SeqEqual
<1> QED
  BY <1>6 DEF t

LEMMA WhereIs ==
  ASSUME NEW s, NEW field, NEW values
  PROVE  Where(s, field, values) = FlattenSeq(Chosen(s, field, values))
BY DEF Where, Chosen

LEMMA WhereEmpty ==
  ASSUME NEW field, NEW values
  PROVE  Where(<<>>, field, values) = <<>>
<1>1. Chosen(<<>>, field, values) = <<>>
  BY DEF Chosen
<1> QED
  BY <1>1, WhereIs, FlattenEmpty

LEMMA WhereType ==
  ASSUME NEW T, NEW s \in Seq(T), NEW field, NEW values
  PROVE  Where(s, field, values) \in Seq(T)
BY ChosenType, FlattenType, WhereIs

\* Only what it asks for is in the result.
LEMMA WhereOnly ==
  ASSUME NEW T, NEW s \in Seq(T), NEW field, NEW values
  PROVE  Where(s, field, values) \in Seq({x \in T : x[field] \in values})
<1> DEFINE U == {x \in T : x[field] \in values}
           c == Chosen(s, field, values)
<1>1. Len(s) \in Nat /\ \A i \in 1 .. Len(s) : s[i] \in T
  OBVIOUS
<1>2. \A i \in 1 .. Len(s) :
        (IF s[i][field] \in values THEN <<s[i]>> ELSE <<>>) \in Seq(U)
  <2> TAKE i \in 1 .. Len(s)
  <2>1. s[i][field] \in values => s[i] \in U
    BY <1>1
  <2> HIDE DEF U
  <2> QED
    BY <2>1
<1> HIDE DEF U
<1>3. c \in Seq(Seq(U))
  BY <1>1, <1>2 DEF Chosen
<1> HIDE DEF c
<1>4. FlattenSeq(c) \in Seq(U)
  BY <1>3, FlattenType
<1> QED
  BY <1>4, WhereIs DEF c, U

LEMMA WhereAppend ==
  ASSUME NEW T, NEW s \in Seq(T), NEW e \in T, NEW field, NEW values
  PROVE  Where(Append(s, e), field, values) =
           Where(s, field, values) \o (IF e[field] \in values THEN <<e>> ELSE <<>>)
<1> DEFINE one == IF e[field] \in values THEN <<e>> ELSE <<>>
<1>1. one \in Seq(T)
  OBVIOUS
<1> HIDE DEF one
<1>2. FlattenSeq(Append(Chosen(s, field, values), one)) =
        FlattenSeq(Chosen(s, field, values)) \o one
  BY <1>1, ChosenType, FlattenAppend
<1>3. Chosen(Append(s, e), field, values) = Append(Chosen(s, field, values), one)
  BY ChosenAppend DEF one
<1>4. Where(Append(s, e), field, values) = Where(s, field, values) \o one
  BY <1>2, <1>3, WhereIs
<1> QED
  BY <1>4 DEF one

LEMMA ConcatAppend ==
  ASSUME NEW T, NEW s \in Seq(T), NEW t \in Seq(T), NEW e \in T
  PROVE  s \o Append(t, e) = Append(s \o t, e) /\ Append(t, e) \in Seq(T) /\ s \o t \in Seq(T)
<1>1. <<e>> \in Seq(T) /\ s \o t \in Seq(T) /\ Append(t, e) \in Seq(T)
  BY ConcatProperties, AppendProperties
<1>2. Append(t, e) = t \o <<e>> /\ Append(s \o t, e) = (s \o t) \o <<e>>
  BY <1>1, AppendIsConcat
<1>3. (s \o t) \o <<e>> = s \o (t \o <<e>>)
  BY <1>1, ConcatAssociative
<1> QED
  BY <1>1, <1>2, <1>3

LEMMA WhereConcat ==
  ASSUME NEW T, NEW s \in Seq(T), NEW t \in Seq(T), NEW field, NEW values
  PROVE  Where(s \o t, field, values) = Where(s, field, values) \o Where(t, field, values)
<1> DEFINE W(u) == Where(u, field, values)
           G == {u \in Seq(T) : W(s \o u) = W(s) \o W(u)}
<1>0. \A u \in Seq(T) : W(u) \in Seq(T)
  BY WhereType
<1>1. <<>> \in G
  <2>1. <<>> \in Seq(T) /\ s \o <<>> = s /\ W(s) \o <<>> = W(s)
    BY <1>0, ConcatEmptySeq
  <2>2. W(<<>>) = <<>>
    BY WhereEmpty
  <2> QED
    BY <2>1, <2>2
<1>2. \A u \in Seq(T), e \in T : u \in G => Append(u, e) \in G
  <2> SUFFICES ASSUME NEW u \in Seq(T), NEW e \in T, W(s \o u) = W(s) \o W(u)
               PROVE  Append(u, e) \in Seq(T) /\ W(s \o Append(u, e)) = W(s) \o W(Append(u, e))
    OBVIOUS
  <2> DEFINE one == IF e[field] \in values THEN <<e>> ELSE <<>>
  <2>1. one \in Seq(T)
    OBVIOUS
  <2>2. s \o Append(u, e) = Append(s \o u, e) /\ Append(u, e) \in Seq(T) /\ s \o u \in Seq(T)
    BY ConcatAppend
  <2>3. W(Append(s \o u, e)) = W(s \o u) \o one /\ W(Append(u, e)) = W(u) \o one
    <3>1. \A v \in Seq(T) : W(Append(v, e)) = W(v) \o one
      BY WhereAppend, SMTT(40)
    <3> HIDE DEF W, one
    <3> QED
      BY <2>2, <3>1
  <2>4. W(s) \in Seq(T) /\ W(u) \in Seq(T)
    BY <1>0
  <2> HIDE DEF W, one, G
  <2>5. (W(s) \o W(u)) \o one = W(s) \o (W(u) \o one)
    <3> DEFINE a == W(s)
               b == W(u)
    <3>1. a \in Seq(T) /\ b \in Seq(T) /\ one \in Seq(T)
      BY <2>1, <2>4
    <3> HIDE DEF a, b
    <3>2. (a \o b) \o one = a \o (b \o one)
      BY ONLY <3>1, Associative, SMTT(40)
    <3> QED
      BY <3>2 DEF a, b
  <2> QED
    BY <2>2, <2>3, <2>5
<1> HIDE DEF G
<1>3. t \in G
  BY <1>1, <1>2, SeqInduction
<1> QED
  BY <1>3 DEF G

LEMMA WhereNone ==
  ASSUME NEW T, NEW s \in Seq(T), NEW field, NEW values,
         \A i \in DOMAIN s : s[i][field] \notin values
  PROVE  Where(s, field, values) = <<>>
<1> DEFINE U == {x \in T : x[field] \notin values}
           G == {u \in Seq(U) : Where(u, field, values) = <<>>}
<1>1. s \in Seq(U)
  <2>1. DOMAIN s = 1 .. Len(s) /\ Len(s) \in Nat
    OBVIOUS
  <2>2. \A i \in 1 .. Len(s) : s[i] \in U
    BY <2>1
  <2>3. s = [i \in 1 .. Len(s) |-> s[i]]
    OBVIOUS
  <2> HIDE DEF U
  <2> QED
    BY <2>1, <2>2, <2>3
<1>2. <<>> \in G
  BY WhereEmpty
<1>3. \A u \in Seq(U), e \in U : u \in G => Append(u, e) \in G
  <2> SUFFICES ASSUME NEW u \in Seq(U), NEW e \in U, Where(u, field, values) = <<>>
               PROVE  Append(u, e) \in Seq(U) /\ Where(Append(u, e), field, values) = <<>>
    OBVIOUS
  <2>1. e[field] \notin values /\ e \in T /\ u \in Seq(T)
    BY SeqMonotonic
  <2>2. Where(Append(u, e), field, values) =
          Where(u, field, values) \o (IF e[field] \in values THEN <<e>> ELSE <<>>)
    <3>1. \A v \in Seq(T), x \in T :
            Where(Append(v, x), field, values) =
              Where(v, field, values) \o (IF x[field] \in values THEN <<x>> ELSE <<>>)
      BY ONLY WhereAppend
    <3> QED
      BY ONLY <2>1, <3>1
  <2>3. Where(Append(u, e), field, values) = <<>> \o <<>>
    BY <2>1, <2>2
  <2>4. Append(u, e) \in Seq(U)
    BY AppendProperties
  <2> QED
    BY <2>3, <2>4
<1> HIDE DEF G
<1>4. s \in G
  BY <1>1, <1>2, <1>3, SeqInduction
<1> QED
  BY <1>4 DEF G

LEMMA WhereAll ==
  ASSUME NEW T, NEW s \in Seq(T), NEW field, NEW values,
         \A i \in DOMAIN s : s[i][field] \in values
  PROVE  Where(s, field, values) = s
<1> DEFINE U == {x \in T : x[field] \in values}
           G == {u \in Seq(U) : Where(u, field, values) = u}
<1>1. s \in Seq(U)
  <2>1. DOMAIN s = 1 .. Len(s) /\ Len(s) \in Nat
    OBVIOUS
  <2>2. \A i \in 1 .. Len(s) : s[i] \in U
    BY <2>1
  <2>3. s = [i \in 1 .. Len(s) |-> s[i]]
    OBVIOUS
  <2> HIDE DEF U
  <2> QED
    BY <2>1, <2>2, <2>3
<1>2. <<>> \in G
  BY WhereEmpty
<1>3. \A u \in Seq(U), e \in U : u \in G => Append(u, e) \in G
  <2> SUFFICES ASSUME NEW u \in Seq(U), NEW e \in U, Where(u, field, values) = u
               PROVE  Append(u, e) \in Seq(U) /\ Where(Append(u, e), field, values) = Append(u, e)
    OBVIOUS
  <2>1. e[field] \in values /\ e \in T /\ u \in Seq(T)
    BY SeqMonotonic
  <2>2. Where(Append(u, e), field, values) =
          Where(u, field, values) \o (IF e[field] \in values THEN <<e>> ELSE <<>>)
    <3>1. \A v \in Seq(T), x \in T :
            Where(Append(v, x), field, values) =
              Where(v, field, values) \o (IF x[field] \in values THEN <<x>> ELSE <<>>)
      BY ONLY WhereAppend
    <3> QED
      BY ONLY <2>1, <3>1
  <2>3. Where(Append(u, e), field, values) = u \o <<e>>
    BY <2>1, <2>2
  <2>4. Append(u, e) \in Seq(U)
    BY AppendProperties
  <2>5. Append(u, e) = u \o <<e>>
    <3> HIDE DEF U
    <3> QED
      BY AppendIsConcat
  <2> QED
    BY <2>3, <2>4, <2>5
<1> HIDE DEF G
<1>4. s \in G
  BY <1>1, <1>2, <1>3, SeqInduction
<1> QED
  BY <1>4 DEF G

-----------------------------------------------------------------------------
\* What statements write, one after the other.
WrittenBy(stmts) == [i \in 1 .. Len(stmts) |-> Writes(stmts[i])]
Later(stmts) == FlattenSeq(WrittenBy(stmts))

LEMMA WrittenType ==
  ASSUME NEW s \in Seq(Statements)
  PROVE  WrittenBy(s) \in Seq(Seq(Works)) /\ Len(WrittenBy(s)) = Len(s)
<1>1. Len(s) \in Nat /\ \A i \in 1 .. Len(s) : s[i] \in Statements
  OBVIOUS
<1>2. \A i \in 1 .. Len(s) : Writes(s[i]) \in Seq(Works)
  BY <1>1, WritesType
<1> QED
  BY <1>1, <1>2 DEF WrittenBy

LEMMA LaterType ==
  ASSUME NEW s \in Seq(Statements)
  PROVE  Later(s) \in Seq(Works)
BY WrittenType, FlattenType DEF Later

LEMMA LaterConcat ==
  ASSUME NEW s \in Seq(Statements), NEW t \in Seq(Statements)
  PROVE  Later(s \o t) = Later(s) \o Later(t)
<1> DEFINE a == WrittenBy(s)
           b == WrittenBy(t)
           c == WrittenBy(s \o t)
<1>1. /\ s \o t \in Seq(Statements) /\ Len(s \o t) = Len(s) + Len(t)
      /\ \A i \in 1 .. Len(s) + Len(t) :
           \/ i \in 1 .. Len(s) /\ (s \o t)[i] = s[i]
           \/ i - Len(s) \in 1 .. Len(t) /\ (s \o t)[i] = t[i - Len(s)]
  BY StatementsIn
<1>2. /\ a \in Seq(Seq(Works)) /\ Len(a) = Len(s) /\ b \in Seq(Seq(Works)) /\ Len(b) = Len(t)
      /\ c \in Seq(Seq(Works)) /\ Len(c) = Len(s) + Len(t)
  BY <1>1, WrittenType
<1>3. /\ \A i \in 1 .. Len(s) : a[i] = Writes(s[i])
      /\ \A i \in 1 .. Len(t) : b[i] = Writes(t[i])
      /\ \A i \in 1 .. Len(s \o t) : c[i] = Writes((s \o t)[i])
  BY DEF WrittenBy
<1>4. Len(s) \in Nat /\ Len(t) \in Nat
  OBVIOUS
<1> HIDE DEF a, b, c
<1>5. a \o b \in Seq(Seq(Works)) /\ Len(a \o b) = Len(s) + Len(t)
      /\ \A i \in 1 .. Len(s) + Len(t) :
           (a \o b)[i] = IF i <= Len(s) THEN a[i] ELSE b[i - Len(s)]
  <2>1. a \in Seq(Seq(Works)) /\ b \in Seq(Seq(Works))
    BY <1>2
  <2>2. /\ a \o b \in Seq(Seq(Works)) /\ Len(a \o b) = Len(a) + Len(b)
        /\ \A i \in 1 .. Len(a) + Len(b) :
             (a \o b)[i] = IF i <= Len(a) THEN a[i] ELSE b[i - Len(a)]
    BY ONLY <2>1, ConcatProperties
  <2> QED
    BY <1>2, <2>2
<1>6. \A i \in 1 .. Len(s) + Len(t) : c[i] = (a \o b)[i]
  <2> TAKE i \in 1 .. Len(s) + Len(t)
  <2>1. CASE i \in 1 .. Len(s)
    <3>1. (s \o t)[i] = s[i]
      BY <1>1, <1>4, <2>1
    <3> QED
      BY <1>1, <1>3, <1>4, <1>5, <2>1, <3>1
  <2>2. CASE i \notin 1 .. Len(s)
    <3>1. i - Len(s) \in 1 .. Len(t) /\ (s \o t)[i] = t[i - Len(s)] /\ ~(i <= Len(s))
      BY <1>1, <1>4, <2>2
    <3> QED
      BY <1>1, <1>3, <1>4, <1>5, <3>1
  <2> QED
    BY <2>1, <2>2
<1>7. c = a \o b
  BY <1>2, <1>5, <1>6, SeqEqual
<1>8. FlattenSeq(a \o b) = FlattenSeq(a) \o FlattenSeq(b)
  BY <1>2, FlattenConcat
<1> QED
  BY <1>7, <1>8 DEF Later, a, b, c

\* The items that come out of this on one of the outputs.
AnyItems == Items \cup ListingItems
ItemsOf(works) == [i \in 1 .. Len(works) |-> Item(works[i])]
Out(works, to) == ItemsOf(Where(works, "to", {to}))

LEMMA ItemsOfType ==
  ASSUME NEW s \in Seq(Works)
  PROVE  ItemsOf(s) \in Seq(AnyItems) /\ Len(ItemsOf(s)) = Len(s)
         /\ \A i \in 1 .. Len(s) : ItemsOf(s)[i] = Item(s[i])
<1>1. Len(s) \in Nat /\ \A i \in 1 .. Len(s) : s[i] \in Works
  OBVIOUS
<1>2. \A i \in 1 .. Len(s) : Item(s[i]) \in AnyItems
  BY <1>1, ItemType DEF AnyItems
<1> QED
  BY <1>1, <1>2 DEF ItemsOf

LEMMA ItemsOfConcat ==
  ASSUME NEW s \in Seq(Works), NEW t \in Seq(Works)
  PROVE  ItemsOf(s \o t) = ItemsOf(s) \o ItemsOf(t)
<1> DEFINE a == ItemsOf(s)
           b == ItemsOf(t)
           c == ItemsOf(s \o t)
<1>1. /\ s \o t \in Seq(Works) /\ Len(s \o t) = Len(s) + Len(t)
      /\ \A i \in 1 .. Len(s) + Len(t) :
           (s \o t)[i] = IF i <= Len(s) THEN s[i] ELSE t[i - Len(s)]
  BY ConcatProperties
<1>2. /\ a \in Seq(AnyItems) /\ Len(a) = Len(s) /\ b \in Seq(AnyItems) /\ Len(b) = Len(t)
      /\ c \in Seq(AnyItems) /\ Len(c) = Len(s) + Len(t)
      /\ \A i \in 1 .. Len(s) : a[i] = Item(s[i])
      /\ \A i \in 1 .. Len(t) : b[i] = Item(t[i])
      /\ \A i \in 1 .. Len(s) + Len(t) : c[i] = Item((s \o t)[i])
  BY <1>1, ItemsOfType
<1>3. Len(s) \in Nat /\ Len(t) \in Nat
  OBVIOUS
<1> HIDE DEF a, b, c
<1>4. a \o b \in Seq(AnyItems) /\ Len(a \o b) = Len(s) + Len(t)
      /\ \A i \in 1 .. Len(s) + Len(t) :
           (a \o b)[i] = IF i <= Len(s) THEN a[i] ELSE b[i - Len(s)]
  <2>1. a \in Seq(AnyItems) /\ b \in Seq(AnyItems)
    BY <1>2
  <2>2. /\ a \o b \in Seq(AnyItems) /\ Len(a \o b) = Len(a) + Len(b)
        /\ \A i \in 1 .. Len(a) + Len(b) :
             (a \o b)[i] = IF i <= Len(a) THEN a[i] ELSE b[i - Len(a)]
    BY ONLY <2>1, ConcatProperties
  <2> QED
    BY <1>2, <2>2
<1>5. \A i \in 1 .. Len(s) + Len(t) : c[i] = (a \o b)[i]
  <2> TAKE i \in 1 .. Len(s) + Len(t)
  <2>1. CASE i <= Len(s)
    <3>1. i \in 1 .. Len(s) /\ (s \o t)[i] = s[i] /\ (a \o b)[i] = a[i]
      BY <1>1, <1>3, <1>4, <2>1
    <3> QED
      BY <1>2, <3>1
  <2>2. CASE ~(i <= Len(s))
    <3>1. i - Len(s) \in 1 .. Len(t) /\ (s \o t)[i] = t[i - Len(s)]
          /\ (a \o b)[i] = b[i - Len(s)]
      BY <1>1, <1>3, <1>4, <2>2, SMTT(40)
    <3> QED
      BY <1>2, <3>1
  <2> QED
    BY <2>1, <2>2
<1>6. c = a \o b
  BY <1>2, <1>4, <1>5, SeqEqual
<1> QED
  BY <1>6 DEF a, b, c

LEMMA OutType ==
  ASSUME NEW s \in Seq(Works), NEW to
  PROVE  Out(s, to) \in Seq(AnyItems)
<1>1. Where(s, "to", {to}) \in Seq(Works)
  BY WhereType
<1> QED
  BY <1>1, ItemsOfType DEF Out

LEMMA OutConcat ==
  ASSUME NEW s \in Seq(Works), NEW t \in Seq(Works), NEW to
  PROVE  Out(s \o t, to) = Out(s, to) \o Out(t, to)
<1> DEFINE a == Where(s, "to", {to})
           b == Where(t, "to", {to})
<1>1. a \in Seq(Works) /\ b \in Seq(Works)
  BY WhereType
<1>2. Where(s \o t, "to", {to}) = a \o b
  BY WhereConcat
<1> HIDE DEF a, b
<1>3. ItemsOf(a \o b) = ItemsOf(a) \o ItemsOf(b)
  BY <1>1, ItemsOfConcat
<1> QED
  BY <1>2, <1>3 DEF Out, a, b

LEMMA OutEmpty ==
  ASSUME NEW to
  PROVE  Out(<<>>, to) = <<>>
<1>1. Where(<<>>, "to", {to}) = <<>>
  BY WhereEmpty
<1>2. ItemsOf(<<>>) = <<>>
  BY DEF ItemsOf
<1> QED
  BY <1>1, <1>2 DEF Out

LEMMA OutOne ==
  ASSUME NEW w \in Works, NEW to
  PROVE  Out(<<w>>, to) = IF w.to = to THEN <<Item(w)>> ELSE <<>>
<1> DEFINE one == IF w.to = to THEN <<w>> ELSE <<>>
           none == <<>>
<1>1. none \in Seq(Works) /\ Append(none, w) = <<w>>
  OBVIOUS
<1>2. Where(Append(none, w), "to", {to}) =
        Where(none, "to", {to}) \o (IF w["to"] \in {to} THEN <<w>> ELSE <<>>)
  <2> DEFINE V == {to}
  <2>1. none \in Seq(Works)
    BY <1>1
  <2> HIDE DEF none, one, V
  <2>2. Where(Append(none, w), "to", V) =
          Where(none, "to", V) \o (IF w["to"] \in V THEN <<w>> ELSE <<>>)
    BY <2>1, WhereAppend
  <2> QED
    BY <2>2 DEF V
<1>3. (IF w["to"] \in {to} THEN <<w>> ELSE <<>>) = one
  OBVIOUS
<1>4. one \in Seq(Works) /\ <<>> \o one = one
  BY ConcatEmptySeq
<1>5. Where(<<w>>, "to", {to}) = one
  BY <1>1, <1>2, <1>3, <1>4, WhereEmpty
<1>6. Out(<<w>>, to) = ItemsOf(one)
  BY <1>5 DEF Out
<1>7. ItemsOf(one) = IF w.to = to THEN <<Item(w)>> ELSE <<>>
  BY DEF ItemsOf
<1> QED
  BY <1>6, <1>7

-----------------------------------------------------------------------------
\* The output of a program, labelled with its execution.
Named(n, ws) == [i \in 1 .. Len(ws) |-> [ex |-> n, kind |-> ws[i].kind]]
BodyCode(n, body) == [i \in 1 .. Len(body) |-> Statement(n, "run", body[i])]

LEMMA NamedType ==
  ASSUME NEW n \in 1 .. MaxExecs, NEW ws \in Seq(Outputs)
  PROVE  Named(n, ws) \in Seq(AnyItems) /\ Len(Named(n, ws)) = Len(ws)
         /\ \A i \in 1 .. Len(ws) : Named(n, ws)[i] = [ex |-> n, kind |-> ws[i].kind]
<1>1. Len(ws) \in Nat /\ \A i \in 1 .. Len(ws) : ws[i] \in Outputs
  OBVIOUS
<1>2. \A w \in Outputs : [ex |-> n, kind |-> w.kind] \in AnyItems
  BY DEF Outputs, AnyItems, Items, ListingItems
<1>3. \A i \in 1 .. Len(ws) : [ex |-> n, kind |-> ws[i].kind] \in AnyItems
  BY <1>1, <1>2
<1> QED
  BY <1>1, <1>3 DEF Named

LEMMA NamedConcat ==
  ASSUME NEW n \in 1 .. MaxExecs, NEW s \in Seq(Outputs), NEW t \in Seq(Outputs)
  PROVE  Named(n, s \o t) = Named(n, s) \o Named(n, t)
<1> DEFINE a == Named(n, s)
           b == Named(n, t)
           c == Named(n, s \o t)
<1>1. /\ s \o t \in Seq(Outputs) /\ Len(s \o t) = Len(s) + Len(t)
      /\ \A i \in 1 .. Len(s) + Len(t) :
           (s \o t)[i] = IF i <= Len(s) THEN s[i] ELSE t[i - Len(s)]
  BY ConcatProperties
<1>2. /\ a \in Seq(AnyItems) /\ Len(a) = Len(s) /\ b \in Seq(AnyItems) /\ Len(b) = Len(t)
      /\ c \in Seq(AnyItems) /\ Len(c) = Len(s) + Len(t)
      /\ \A i \in 1 .. Len(s) : a[i] = [ex |-> n, kind |-> s[i].kind]
      /\ \A i \in 1 .. Len(t) : b[i] = [ex |-> n, kind |-> t[i].kind]
      /\ \A i \in 1 .. Len(s) + Len(t) : c[i] = [ex |-> n, kind |-> (s \o t)[i].kind]
  BY <1>1, NamedType
<1>3. Len(s) \in Nat /\ Len(t) \in Nat
  OBVIOUS
<1> HIDE DEF a, b, c
<1>4. a \o b \in Seq(AnyItems) /\ Len(a \o b) = Len(s) + Len(t)
      /\ \A i \in 1 .. Len(s) + Len(t) :
           (a \o b)[i] = IF i <= Len(s) THEN a[i] ELSE b[i - Len(s)]
  <2>1. a \in Seq(AnyItems) /\ b \in Seq(AnyItems)
    BY <1>2
  <2>2. /\ a \o b \in Seq(AnyItems) /\ Len(a \o b) = Len(a) + Len(b)
        /\ \A i \in 1 .. Len(a) + Len(b) :
             (a \o b)[i] = IF i <= Len(a) THEN a[i] ELSE b[i - Len(a)]
    BY ONLY <2>1, ConcatProperties
  <2> QED
    BY <1>2, <2>2
<1>5. \A i \in 1 .. Len(s) + Len(t) : c[i] = (a \o b)[i]
  <2> TAKE i \in 1 .. Len(s) + Len(t)
  <2>1. CASE i <= Len(s)
    <3>1. i \in 1 .. Len(s) /\ (s \o t)[i] = s[i] /\ (a \o b)[i] = a[i]
      BY <1>1, <1>3, <1>4, <2>1
    <3> QED
      BY <1>2, <3>1
  <2>2. CASE ~(i <= Len(s))
    <3>1. i - Len(s) \in 1 .. Len(t) /\ (s \o t)[i] = t[i - Len(s)]
          /\ (a \o b)[i] = b[i - Len(s)]
      BY <1>1, <1>3, <1>4, <2>2, SMTT(40)
    <3> QED
      BY <1>2, <3>1
  <2> QED
    BY <2>1, <2>2
<1>6. c = a \o b
  BY <1>2, <1>4, <1>5, SeqEqual
<1> QED
  BY <1>6 DEF a, b, c

LEMMA RunStatement ==
  ASSUME NEW n \in 1 .. MaxExecs, NEW ws \in Seq(Outputs)
  PROVE  /\ Statement(n, "run", ws) \in Statements
         /\ Writes(Statement(n, "run", ws)) \in Seq(Works)
         /\ Len(Writes(Statement(n, "run", ws))) = Len(ws)
         /\ \A i \in 1 .. Len(ws) : Writes(Statement(n, "run", ws))[i] =
                                      [ex |-> n, to |-> ws[i].to, kind |-> ws[i].kind]
<1>1. ws \in Seq(AnyWrite) /\ Len(ws) \in Nat
  BY SeqMonotonic DEF AnyWrite
<1>2. Statement(n, "run", ws) \in Statements
  BY <1>1 DEF Statement, Statements
<1>3. Writes(Statement(n, "run", ws)) \in Seq(Works)
  BY <1>2, WritesType
<1>4. Statement(n, "run", ws).writes = ws /\ Statement(n, "run", ws).ex = n
  BY DEF Statement
<1>5. Writes(Statement(n, "run", ws)) =
        [i \in 1 .. Len(ws) |-> [ex |-> n, to |-> ws[i].to, kind |-> ws[i].kind]]
  BY <1>4 DEF Writes
<1> QED
  BY <1>1, <1>2, <1>3, <1>5

LEMMA WritesAppend ==
  ASSUME NEW n \in 1 .. MaxExecs, NEW ws \in Seq(Outputs), NEW w \in Outputs
  PROVE  LET one == [ex |-> n, to |-> w.to, kind |-> w.kind]
         IN  /\ one \in Works
             /\ Writes(Statement(n, "run", Append(ws, w))) =
                  Writes(Statement(n, "run", ws)) \o <<one>>
<1> DEFINE one == [ex |-> n, to |-> w.to, kind |-> w.kind]
           a == Writes(Statement(n, "run", ws))
           c == Writes(Statement(n, "run", Append(ws, w)))
           k == Len(ws)
<1>1. one \in Works
  BY DEF Outputs, Works
<1>2. /\ k \in Nat /\ Append(ws, w) \in Seq(Outputs) /\ Len(Append(ws, w)) = k + 1
      /\ Append(ws, w)[k + 1] = w /\ \A i \in 1 .. k : Append(ws, w)[i] = ws[i]
  BY AppendProperties
<1>3. a \in Seq(Works) /\ Len(a) = k
      /\ \A i \in 1 .. k : a[i] = [ex |-> n, to |-> ws[i].to, kind |-> ws[i].kind]
  BY RunStatement
<1>4. c \in Seq(Works) /\ Len(c) = k + 1
      /\ \A i \in 1 .. k + 1 :
           c[i] = [ex |-> n, to |-> Append(ws, w)[i].to, kind |-> Append(ws, w)[i].kind]
  BY <1>2, RunStatement
<1> HIDE DEF a, c, one
<1>5. /\ Append(a, one) \in Seq(Works) /\ Len(Append(a, one)) = k + 1
      /\ Append(a, one)[k + 1] = one /\ \A i \in 1 .. k : Append(a, one)[i] = a[i]
  <2>1. /\ Append(a, one) \in Seq(Works) /\ Len(Append(a, one)) = Len(a) + 1
        /\ Append(a, one)[Len(a) + 1] = one /\ \A i \in 1 .. Len(a) : Append(a, one)[i] = a[i]
    BY <1>1, <1>3, AppendProperties
  <2> QED
    BY <1>3, <2>1
<1>6. \A i \in 1 .. k + 1 : c[i] = Append(a, one)[i]
  <2> TAKE i \in 1 .. k + 1
  <2>1. CASE i = k + 1
    <3>1. c[i] = one
      BY <1>2, <1>4, <2>1 DEF one
    <3> QED
      BY <1>5, <2>1, <3>1
  <2>2. CASE i # k + 1
    <3>1. i \in 1 .. k
      BY <1>2, <2>2
    <3>2. c[i] = a[i]
      BY <1>2, <1>3, <1>4, <3>1
    <3> QED
      BY <1>5, <3>1, <3>2
  <2> QED
    BY <2>1, <2>2
<1>7. c = Append(a, one)
  BY <1>4, <1>5, <1>6, SeqEqual
<1>8. Append(a, one) = a \o <<one>>
  BY <1>1, <1>3, AppendIsConcat
<1> QED
  BY <1>1, <1>7, <1>8 DEF a, c, one

LEMMA NamedOne ==
  ASSUME NEW n \in 1 .. MaxExecs, NEW w \in Outputs
  PROVE  Named(n, <<w>>) = <<[ex |-> n, kind |-> w.kind]>> /\ Named(n, <<>>) = <<>>
BY DEF Named

LEMMA OutOfRun ==
  ASSUME NEW n \in 1 .. MaxExecs, NEW to
  PROVE  \A ws \in Seq(Outputs) :
           Out(Writes(Statement(n, "run", ws)), to) = Named(n, Where(ws, "to", {to}))
<1> DEFINE O(ws) == Out(Writes(Statement(n, "run", ws)), to)
           N(ws) == Named(n, Where(ws, "to", {to}))
           G == {ws \in Seq(Outputs) : O(ws) = N(ws)}
<1>1. <<>> \in G
  <2>1. Writes(Statement(n, "run", <<>>)) = <<>>
    BY DEF Writes, Statement
  <2>2. O(<<>>) = <<>>
    BY <2>1, OutEmpty
  <2>3. N(<<>>) = <<>>
    <3>1. Where(<<>>, "to", {to}) = <<>>
      BY WhereEmpty
    <3> QED
      BY <3>1 DEF Named
  <2> QED
    BY <2>2, <2>3
<1>2. \A ws \in Seq(Outputs), w \in Outputs : ws \in G => Append(ws, w) \in G
  <2> SUFFICES ASSUME NEW ws \in Seq(Outputs), NEW w \in Outputs, O(ws) = N(ws)
               PROVE  O(Append(ws, w)) = N(Append(ws, w))
    BY AppendProperties
  <2> DEFINE one == [ex |-> n, to |-> w.to, kind |-> w.kind]
             a == Writes(Statement(n, "run", ws))
             add == IF w.to = to THEN <<w>> ELSE <<>>
             v == Where(ws, "to", {to})
  <2>1. one \in Works /\ a \in Seq(Works)
        /\ Writes(Statement(n, "run", Append(ws, w))) = a \o <<one>>
    BY WritesAppend, RunStatement
  <2>2. O(Append(ws, w)) = Out(a, to) \o Out(<<one>>, to)
    <3> DEFINE b == <<one>>
    <3>1. a \in Seq(Works) /\ b \in Seq(Works)
      BY <2>1
    <3> HIDE DEF a, b
    <3>2. Out(a \o b, to) = Out(a, to) \o Out(b, to)
      BY <3>1, OutConcat
    <3> QED
      BY <2>1, <3>2 DEF b
  <2>3. Out(<<one>>, to) = IF one.to = to THEN <<Item(one)>> ELSE <<>>
    <3> HIDE DEF one
    <3> QED
      BY <2>1, OutOne
  <2>4. Where(Append(ws, w), "to", {to}) = v \o add
    <3> DEFINE V == {to}
    <3> HIDE DEF V
    <3>1. Where(Append(ws, w), "to", V) =
            Where(ws, "to", V) \o (IF w["to"] \in V THEN <<w>> ELSE <<>>)
      BY WhereAppend
    <3> QED
      BY <3>1 DEF V
  <2>5. v \in Seq(Outputs) /\ add \in Seq(Outputs)
    BY WhereType
  <2>6. Named(n, v \o add) = Named(n, v) \o Named(n, add)
    <3> HIDE DEF v, add
    <3> QED
      BY <2>5, NamedConcat
  <2>7. Named(n, add) = Out(<<one>>, to)
    <3>1. Item(one) = [ex |-> n, kind |-> w.kind] /\ one.to = w.to
      BY DEF Item
    <3> QED
      BY <2>3, <3>1, NamedOne
  <2> HIDE DEF a, one, v, add
  <2> QED
    BY <2>2, <2>4, <2>6, <2>7 DEF a, v
<1> HIDE DEF G
<1>3. \A ws \in Seq(Outputs) : ws \in G
  BY <1>1, <1>2, SeqInduction
<1> QED
  BY <1>3 DEF G

LEMMA BodyCodeType ==
  ASSUME NEW n \in 1 .. MaxExecs, NEW b \in Seq(Seq(Outputs))
  PROVE  BodyCode(n, b) \in Seq(Statements) /\ Len(BodyCode(n, b)) = Len(b)
         /\ \A i \in 1 .. Len(b) : BodyCode(n, b)[i] = Statement(n, "run", b[i])
<1>1. Len(b) \in Nat /\ \A i \in 1 .. Len(b) : b[i] \in Seq(Outputs)
  OBVIOUS
<1>2. \A i \in 1 .. Len(b) : Statement(n, "run", b[i]) \in Statements
  BY <1>1, RunStatement
<1> QED
  BY <1>1, <1>2 DEF BodyCode

LEMMA BodyCodeAppend ==
  ASSUME NEW n \in 1 .. MaxExecs, NEW b \in Seq(Seq(Outputs)), NEW ws \in Seq(Outputs)
  PROVE  BodyCode(n, Append(b, ws)) = BodyCode(n, b) \o <<Statement(n, "run", ws)>>
<1> DEFINE a == BodyCode(n, b)
           c == BodyCode(n, Append(b, ws))
           one == Statement(n, "run", ws)
           k == Len(b)
<1>1. /\ k \in Nat /\ Append(b, ws) \in Seq(Seq(Outputs)) /\ Len(Append(b, ws)) = k + 1
      /\ Append(b, ws)[k + 1] = ws /\ \A i \in 1 .. k : Append(b, ws)[i] = b[i]
  BY AppendProperties
<1>2. a \in Seq(Statements) /\ Len(a) = k
      /\ \A i \in 1 .. k : a[i] = Statement(n, "run", b[i])
  BY BodyCodeType
<1>3. c \in Seq(Statements) /\ Len(c) = k + 1
      /\ \A i \in 1 .. k + 1 : c[i] = Statement(n, "run", Append(b, ws)[i])
  BY <1>1, BodyCodeType
<1>4. one \in Statements
  BY RunStatement
<1> HIDE DEF a, c
<1>5. /\ Append(a, one) \in Seq(Statements) /\ Len(Append(a, one)) = k + 1
      /\ Append(a, one)[k + 1] = one /\ \A i \in 1 .. k : Append(a, one)[i] = a[i]
  <2> HIDE DEF one
  <2>1. /\ Append(a, one) \in Seq(Statements) /\ Len(Append(a, one)) = Len(a) + 1
        /\ Append(a, one)[Len(a) + 1] = one /\ \A i \in 1 .. Len(a) : Append(a, one)[i] = a[i]
    BY <1>2, <1>4, AppendProperties
  <2> QED
    BY <1>2, <2>1
<1>6. \A i \in 1 .. k + 1 : c[i] = Append(a, one)[i]
  <2> TAKE i \in 1 .. k + 1
  <2>1. CASE i = k + 1
    BY <1>1, <1>3, <1>5, <2>1
  <2>2. CASE i # k + 1
    <3>1. i \in 1 .. k
      BY <1>1, <2>2
    <3> HIDE DEF one
    <3> QED
      BY <1>1, <1>2, <1>3, <1>5, <3>1
  <2> QED
    BY <2>1, <2>2
<1> HIDE DEF one
<1>7. c = Append(a, one)
  BY <1>3, <1>5, <1>6, SeqEqual
<1>8. Append(a, one) = a \o <<one>>
  BY <1>2, <1>4, AppendIsConcat
<1> QED
  BY <1>7, <1>8 DEF a, c, one

LEMMA LaterOne ==
  ASSUME NEW stmt \in Statements
  PROVE  Later(<<stmt>>) = Writes(stmt) /\ Later(<<>>) = <<>>
<1>1. WrittenBy(<<stmt>>) = <<Writes(stmt)>> /\ WrittenBy(<<>>) = <<>>
  BY DEF WrittenBy
<1>2. Writes(stmt) \in Seq(Works)
  BY WritesType
<1>3. FlattenSeq(<<Writes(stmt)>>) = Writes(stmt)
  BY <1>2, FlattenOne
<1> QED
  BY <1>1, <1>3, FlattenEmpty DEF Later

\* What SAS writes for the user's code is what the program prints.
LEMMA OutOfBody ==
  ASSUME NEW n \in 1 .. MaxExecs, NEW to
  PROVE  \A b \in Seq(Seq(Outputs)) :
           Out(Later(BodyCode(n, b)), to) = Named(n, Where(FlattenSeq(b), "to", {to}))
<1> DEFINE O(b) == Out(Later(BodyCode(n, b)), to)
           N(b) == Named(n, Where(FlattenSeq(b), "to", {to}))
           G == {b \in Seq(Seq(Outputs)) : O(b) = N(b)}
<1>1. <<>> \in G
  <2>1. BodyCode(n, <<>>) = <<>>
    BY DEF BodyCode
  <2>2. Later(<<>>) = <<>>
    <3>1. WrittenBy(<<>>) = <<>>
      BY DEF WrittenBy
    <3> QED
      BY <3>1, FlattenEmpty DEF Later
  <2>3. O(<<>>) = <<>>
    BY <2>1, <2>2, OutEmpty
  <2>4. N(<<>>) = <<>>
    <3>1. Where(<<>>, "to", {to}) = <<>>
      BY WhereEmpty
    <3>2. N(<<>>) = Named(n, <<>>)
      BY <3>1, FlattenEmpty
    <3>3. Named(n, <<>>) = <<>>
      BY DEF Named
    <3> QED
      BY <3>2, <3>3
  <2> QED
    BY <2>3, <2>4
<1>2. \A b \in Seq(Seq(Outputs)), ws \in Seq(Outputs) : b \in G => Append(b, ws) \in G
  <2> SUFFICES ASSUME NEW b \in Seq(Seq(Outputs)), NEW ws \in Seq(Outputs), O(b) = N(b)
               PROVE  O(Append(b, ws)) = N(Append(b, ws))
    BY AppendProperties
  <2> DEFINE stmt == Statement(n, "run", ws)
             a == BodyCode(n, b)
             f == FlattenSeq(b)
             v == Where(f, "to", {to})
             u == Where(ws, "to", {to})
  <2>1. stmt \in Statements /\ a \in Seq(Statements) /\ BodyCode(n, Append(b, ws)) = a \o <<stmt>>
    BY RunStatement, BodyCodeType, BodyCodeAppend
  <2>2. f \in Seq(Outputs) /\ FlattenSeq(Append(b, ws)) = f \o ws
    BY FlattenType, FlattenAppend
  <2>3. v \in Seq(Outputs) /\ u \in Seq(Outputs)
    BY <2>2, WhereType
  <2>4. Out(Writes(stmt), to) = Named(n, u)
    BY OutOfRun
  <2>5. Where(f \o ws, "to", {to}) = v \o u
    <3> HIDE DEF f
    <3> QED
      BY <2>2, WhereConcat
  <2> HIDE DEF stmt, a, f, v, u
  <2>6. Later(a \o <<stmt>>) = Later(a) \o Writes(stmt)
    <3>1. <<stmt>> \in Seq(Statements)
      BY <2>1
    <3> QED
      BY <2>1, <3>1, LaterConcat, LaterOne
  <2>7. Out(Later(a) \o Writes(stmt), to) = Out(Later(a), to) \o Out(Writes(stmt), to)
    <3> DEFINE p == Later(a)
               q == Writes(stmt)
    <3>1. p \in Seq(Works) /\ q \in Seq(Works)
      BY <2>1, LaterType, WritesType
    <3> HIDE DEF p, q
    <3>2. Out(p \o q, to) = Out(p, to) \o Out(q, to)
      BY <3>1, OutConcat
    <3> QED
      BY <3>2 DEF p, q
  <2>8. Named(n, v \o u) = Named(n, v) \o Named(n, u)
    BY <2>3, NamedConcat
  <2>9. O(Append(b, ws)) = Named(n, v) \o Named(n, u)
    BY <2>1, <2>4, <2>6, <2>7 DEF a, v, f
  <2>10. N(Append(b, ws)) = Named(n, v \o u)
    BY <2>2, <2>5
  <2> QED
    BY <2>8, <2>9, <2>10
<1> HIDE DEF G
<1>3. \A b \in Seq(Seq(Outputs)) : b \in G
  BY <1>1, <1>2, SeqInduction
<1> QED
  BY <1>3 DEF G

LEMMA OutOfUserCode ==
  ASSUME NEW n \in 1 .. MaxExecs, NEW prog \in Programs, NEW to
  PROVE  Out(Later(UserCode(n, prog)), to) = Prints(n, prog, to)
<1>1. prog.body \in Seq(Seq(Outputs))
  BY StreamAssumption
<1>2. UserCode(n, prog) = BodyCode(n, prog.body)
  BY DEF UserCode, BodyCode
<1>3. Prints(n, prog, to) = Named(n, Where(FlattenSeq(prog.body), "to", {to}))
  BY DEF Prints, Named
<1> QED
  BY <1>1, <1>2, <1>3, OutOfBody

\* Statements that are not the user's print lines of markers.
MarkerWorks == [ex : 1 .. MaxExecs, to : {"err"}, kind : MarkerKinds]

LEMMA MarkerWritesOnly ==
  ASSUME NEW stmt \in Statements, ~IsUsers(stmt)
  PROVE  Writes(stmt) \in Seq(MarkerWorks)
<1> DEFINE k == Len(stmt.writes)
<1>1. stmt.writes \in Seq(AnyWrite) /\ stmt.ex \in 1 .. MaxExecs
  BY DEF Statements
<1>2. k \in Nat /\ DOMAIN stmt.writes = 1 .. k /\ \A i \in 1 .. k : stmt.writes[i] \in AnyWrite
  BY <1>1
<1>3. \A i \in 1 .. k : stmt.writes[i].kind \in MarkerKinds
  BY <1>2 DEF IsUsers
<1>4. \A w \in AnyWrite : w.kind \in MarkerKinds => w.to = "err"
  BY DEF AnyWrite, MarkerWrites, Outputs, UserKinds, MarkerKinds
<1>5. \A i \in 1 .. k :
        [ex |-> stmt.ex, to |-> stmt.writes[i].to, kind |-> stmt.writes[i].kind] \in MarkerWorks
  BY <1>1, <1>2, <1>3, <1>4 DEF MarkerWorks
<1> QED
  BY <1>2, <1>5 DEF Writes

LEMMA MarkerWorksAre ==
  MarkerWorks \subseteq Works /\ \A w \in MarkerWorks : w.to = "err" /\ w.kind \in MarkerKinds
BY DEF MarkerWorks, Works

\* What is not for the user does not come out on stdout or in the listing, and
\* not among the user's lines.
LEMMA OutOfMarkers ==
  ASSUME NEW s \in Seq(MarkerWorks)
  PROVE  /\ \A to : to # "err" => Out(s, to) = <<>>
         /\ User(Out(s, "err")) = <<>>
<1>1. s \in Seq(Works)
  BY MarkerWorksAre, SeqMonotonic
<1>2. \A to : to # "err" => Out(s, to) = <<>>
  <2> SUFFICES ASSUME NEW to, to # "err" PROVE Out(s, to) = <<>>
    OBVIOUS
  <2> DEFINE V == {to}
  <2>1. \A i \in DOMAIN s : s[i]["to"] \notin V
    <3>1. \A i \in DOMAIN s : s[i] \in MarkerWorks
      OBVIOUS
    <3> QED
      BY <3>1, MarkerWorksAre
  <2> HIDE DEF V
  <2>2. Where(s, "to", V) = <<>>
    BY <2>1, WhereNone
  <2>3. ItemsOf(<<>>) = <<>>
    BY DEF ItemsOf
  <2> QED
    BY <2>2, <2>3 DEF Out, V
<1>3. User(Out(s, "err")) = <<>>
  <2> DEFINE w == Where(s, "to", {"err"})
             o == ItemsOf(w)
  <2>1. w \in Seq(MarkerWorks)
    BY WhereType
  <2>2. w \in Seq(Works)
    BY <2>1, MarkerWorksAre, SeqMonotonic
  <2> HIDE DEF w
  <2>3. o \in Seq(AnyItems) /\ Len(o) = Len(w) /\ \A i \in 1 .. Len(w) : o[i] = Item(w[i])
    BY <2>2, ItemsOfType
  <2>4. \A i \in 1 .. Len(w) : w[i].kind \in MarkerKinds
    <3>1. \A i \in 1 .. Len(w) : w[i] \in MarkerWorks
      BY <2>1
    <3> QED
      BY <3>1, MarkerWorksAre
  <2> HIDE DEF o
  <2>5. \A i \in 1 .. Len(w) : o[i].kind \in MarkerKinds
    <3>1. \A x : Item(x).kind = x.kind
      BY DEF Item
    <3> QED
      BY <2>3, <2>4, <3>1
  <2>6. DOMAIN o = 1 .. Len(w)
    BY <2>3
  <2>7. \A i \in DOMAIN o : o[i]["kind"] \notin UserKinds
    BY <2>5, <2>6 DEF MarkerKinds, UserKinds
  <2> DEFINE V == UserKinds
  <2> HIDE DEF V
  <2>8. Where(o, "kind", V) = <<>>
    <3>1. \A i \in DOMAIN o : o[i]["kind"] \notin V
      BY <2>7 DEF V
    <3> QED
      BY <2>3, <3>1, WhereNone
  <2> QED
    BY <2>8 DEF User, V, Out, o, w
<1> QED
  BY <1>2, <1>3

LEMMA OutOfListingCode ==
  ASSUME NEW n \in 1 .. MaxExecs, NEW prog \in Programs, NEW to
  PROVE  Out(Later(ListingCode(n, prog)), to) = Prints(n, prog, to)
<1> DEFINE open == Statement(n, "printto", <<>>)
           close == Statement(n, "unprintto", <<>>)
           user == UserCode(n, prog)
<1>1. CASE ~prog.manages_ods
  BY <1>1, OutOfUserCode DEF ListingCode
<1>2. CASE prog.manages_ods
  <2>1. ListingCode(n, prog) = <<open>> \o user \o <<close>>
    BY <1>2 DEF ListingCode
  <2>2. open \in Statements /\ close \in Statements
    BY DEF Statement, Statements
  <2>3. Writes(open) = <<>> /\ Writes(close) = <<>>
    BY DEF Writes, Statement
  <2>4. user \in Seq(Statements) /\ Out(Later(user), to) = Prints(n, prog, to)
    BY UserCodeShape, OutOfUserCode
  <2> HIDE DEF open, close, user
  <2> DEFINE a == <<open>>
             b == <<close>>
  <2>5. a \in Seq(Statements) /\ b \in Seq(Statements) /\ Later(a) = <<>> /\ Later(b) = <<>>
    BY <2>2, <2>3, LaterOne
  <2> HIDE DEF a, b
  <2>6. a \o user \in Seq(Statements) /\ Later(a \o user) = <<>> \o Later(user)
    BY <2>4, <2>5, LaterConcat, ConcatProperties
  <2>7. Later(user) \in Seq(Works)
    BY <2>4, LaterType
  <2>8. <<>> \o Later(user) = Later(user) /\ Later(user) \o <<>> = Later(user)
    BY <2>7, ConcatEmptySeq
  <2> DEFINE c == a \o user
  <2>9. c \in Seq(Statements) /\ Later(c) = Later(user)
    BY <2>6, <2>8
  <2> HIDE DEF c
  <2>10. Later(c \o b) = Later(c) \o Later(b)
    BY <2>5, <2>9, LaterConcat
  <2>11. Later(c \o b) = Later(user)
    BY <2>5, <2>8, <2>9, <2>10
  <2> QED
    BY <2>1, <2>4, <2>11 DEF a, b, c
<1> QED
  BY <1>1, <1>2, StreamAssumption

LEMMA PrintsType ==
  ASSUME NEW n \in 1 .. MaxExecs, NEW prog \in Programs, NEW to
  PROVE  /\ Prints(n, prog, to) \in Seq(AnyItems)
         /\ User(Prints(n, prog, "err")) = Prints(n, prog, "err")
<1> DEFINE f == FlattenSeq(prog.body)
<1>1. f \in Seq(Outputs)
  <2> DEFINE b == prog.body
  <2>1. b \in Seq(Seq(Outputs))
    BY StreamAssumption
  <2> HIDE DEF b
  <2>2. FlattenSeq(b) \in Seq(Outputs)
    BY <2>1, FlattenType
  <2> QED
    BY <2>2 DEF b
<1>2. \A dest : Prints(n, prog, dest) = Named(n, Where(f, "to", {dest}))
  BY DEF Prints, Named
<1> HIDE DEF f
<1>3. \A dest : Where(f, "to", {dest}) \in Seq(Outputs)
  BY <1>1, WhereType
<1>4. Prints(n, prog, to) \in Seq(AnyItems)
  BY <1>2, <1>3, NamedType
<1>5. User(Prints(n, prog, "err")) = Prints(n, prog, "err")
  <2> DEFINE V == {"err"}
             U == {x \in Outputs : x["to"] \in V}
             w == Where(f, "to", V)
             p == Named(n, w)
  <2>1. w \in Seq(U)
    <3> HIDE DEF V
    <3> QED
      BY <1>1, WhereOnly
  <2>2. \A x \in U : x.kind \in UserKinds /\ x \in Outputs
    BY DEF Outputs
  <2> HIDE DEF w, U
  <2>3. w \in Seq(Outputs)
    BY <1>3 DEF w
  <2>4. p \in Seq(AnyItems) /\ Len(p) = Len(w)
        /\ \A i \in 1 .. Len(w) : p[i] = [ex |-> n, kind |-> w[i].kind]
    BY <2>3, NamedType
  <2>5. \A i \in 1 .. Len(w) : w[i].kind \in UserKinds
    <3>1. \A i \in 1 .. Len(w) : w[i] \in U
      BY <2>1
    <3> QED
      BY <2>2, <3>1
  <2> HIDE DEF p
  <2>6. DOMAIN p = 1 .. Len(w)
    BY <2>4
  <2>7. \A i \in DOMAIN p : p[i]["kind"] \in UserKinds
    BY <2>4, <2>5, <2>6
  <2> DEFINE K == UserKinds
  <2> HIDE DEF K
  <2>8. Where(p, "kind", K) = p
    <3>1. \A i \in DOMAIN p : p[i]["kind"] \in K
      BY <2>7 DEF K
    <3> QED
      BY <2>4, <3>1, WhereAll
  <2> QED
    BY <1>2, <2>8 DEF User, K, p, w, V
<1> QED
  BY <1>4, <1>5

LEMMA UserConcat ==
  ASSUME NEW s \in Seq(AnyItems), NEW t \in Seq(AnyItems)
  PROVE  User(s \o t) = User(s) \o User(t) /\ User(s) \in Seq(AnyItems) /\ User(t) \in Seq(AnyItems)
<1> DEFINE K == UserKinds
<1> HIDE DEF K
<1>1. Where(s \o t, "kind", K) = Where(s, "kind", K) \o Where(t, "kind", K)
  BY WhereConcat
<1>2. Where(s, "kind", K) \in Seq(AnyItems) /\ Where(t, "kind", K) \in Seq(AnyItems)
  BY WhereType
<1> QED
  BY <1>1, <1>2 DEF User, K

LEMMA OutOfCode ==
  ASSUME NEW n \in 1 .. MaxExecs, NEW prog \in Programs, NEW echo \in Echoes
  PROVE  LET later == Later(WrappedCode(n, prog, echo))
         IN  /\ later \in Seq(Works)
             /\ \A to : to # "err" => Out(later, to) = Prints(n, prog, to)
             /\ User(Out(later, "err")) = Prints(n, prog, "err")
<1> DEFINE a == ListingCode(n, prog)
           b == MarkerCode(n, echo)
           p == Later(a)
           q == Later(b)
<1>1. echo \in BOOLEAN
  BY StreamAssumption
<1>2. a \in Seq(Statements)
  BY ListingCodeShape
<1>3. /\ b \in Seq(Statements) /\ Len(b) = 2 /\ \A i \in 1 .. 2 : ~IsUsers(b[i])
  BY <1>1, MarkerCodeShape
<1>4. \A to : Out(p, to) = Prints(n, prog, to)
  BY OutOfListingCode
<1>5. WrappedCode(n, prog, echo) = a \o b
  BY DEF WrappedCode
<1> HIDE DEF a, b
<1>6. q \in Seq(MarkerWorks)
  <2>1. \A i \in 1 .. Len(b) : Writes(b[i]) \in Seq(MarkerWorks)
    <3>1. \A i \in 1 .. Len(b) : b[i] \in Statements /\ ~IsUsers(b[i])
      BY <1>3
    <3> QED
      BY <3>1, MarkerWritesOnly
  <2> DEFINE w == WrittenBy(b)
  <2>2. w \in Seq(Seq(MarkerWorks))
    BY <1>3, <2>1 DEF WrittenBy
  <2> HIDE DEF w
  <2>3. FlattenSeq(w) \in Seq(MarkerWorks)
    BY <2>2, FlattenType
  <2> QED
    BY <2>3 DEF Later, w
<1>7. Later(a \o b) = p \o q
  BY <1>2, <1>3, LaterConcat
<1>8. p \in Seq(Works) /\ q \in Seq(Works)
  BY <1>2, <1>3, LaterType
<1> HIDE DEF p, q
<1>9. p \o q \in Seq(Works) /\ \A to : Out(p \o q, to) = Out(p, to) \o Out(q, to)
  BY <1>8, OutConcat, ConcatProperties
<1>10. \A to : Out(p, to) \in Seq(AnyItems) /\ Out(q, to) \in Seq(AnyItems)
  BY <1>8, OutType
<1>11. \A to : to # "err" => Out(p \o q, to) = Prints(n, prog, to)
  <2> SUFFICES ASSUME NEW to, to # "err" PROVE Out(p \o q, to) = Prints(n, prog, to)
    OBVIOUS
  <2>1. Out(q, to) = <<>>
    BY <1>6, OutOfMarkers
  <2>2. Out(p \o q, to) = Prints(n, prog, to) \o <<>>
    BY <1>4, <1>9, <2>1
  <2>3. Prints(n, prog, to) \in Seq(AnyItems)
    BY PrintsType
  <2> QED
    BY <2>2, <2>3, ConcatEmptySeq
<1>12. User(Out(p \o q, "err")) = Prints(n, prog, "err")
  <2> DEFINE x == Out(p, "err")
             y == Out(q, "err")
  <2>1. x \in Seq(AnyItems) /\ y \in Seq(AnyItems) /\ Out(p \o q, "err") = x \o y
    BY <1>9, <1>10
  <2>2. User(y) = <<>> /\ x = Prints(n, prog, "err")
    BY <1>4, <1>6, OutOfMarkers
  <2>3. User(x) = x
    BY <2>2, PrintsType
  <2> HIDE DEF x, y
  <2>4. User(x \o y) = User(x) \o User(y)
    BY <2>1, UserConcat
  <2>5. x \o <<>> = x
    BY <2>1, ConcatEmptySeq
  <2> QED
    BY <2>1, <2>2, <2>3, <2>4, <2>5
<1> QED
  BY <1>5, <1>7, <1>9, <1>11, <1>12

-----------------------------------------------------------------------------
(***************************************************************************)
(* What was returned, and what the programs print, grows at its end.       *)
(***************************************************************************)
Returned(rs, field) == [n \in 1 .. Len(rs) |-> rs[n][field]]
Printed(progs, to) == [n \in 1 .. Len(progs) |-> Prints(n, progs[n], to)]

LEMMA ReturnedType ==
  ASSUME NEW rs \in Seq(Results), NEW field \in {"log", "html"}
  PROVE  Returned(rs, field) \in Seq(Seq(Items)) /\ Len(Returned(rs, field)) = Len(rs)
         /\ \A n \in 1 .. Len(rs) : Returned(rs, field)[n] = rs[n][field]
<1>1. Len(rs) \in Nat /\ \A n \in 1 .. Len(rs) : rs[n] \in Results
  OBVIOUS
<1>2. \A r \in Results : r[field] \in Seq(Items)
  BY DEF Results
<1>3. \A n \in 1 .. Len(rs) : rs[n][field] \in Seq(Items)
  BY <1>1, <1>2
<1> QED
  BY <1>1, <1>3 DEF Returned

LEMMA ReturnedAppend ==
  ASSUME NEW rs \in Seq(Results), NEW r \in Results, NEW field \in {"log", "html"}
  PROVE  /\ r[field] \in Seq(Items)
         /\ Returned(Append(rs, r), field) = Append(Returned(rs, field), r[field])
<1> DEFINE a == Returned(rs, field)
           c == Returned(Append(rs, r), field)
           one == r[field]
           k == Len(rs)
<1>1. /\ k \in Nat /\ Append(rs, r) \in Seq(Results) /\ Len(Append(rs, r)) = k + 1
      /\ Append(rs, r)[k + 1] = r /\ \A i \in 1 .. k : Append(rs, r)[i] = rs[i]
  BY AppendProperties
<1>2. a \in Seq(Seq(Items)) /\ Len(a) = k /\ \A i \in 1 .. k : a[i] = rs[i][field]
  BY ReturnedType
<1>3. c \in Seq(Seq(Items)) /\ Len(c) = k + 1
      /\ \A i \in 1 .. k + 1 : c[i] = Append(rs, r)[i][field]
  BY <1>1, ReturnedType
<1>4. one \in Seq(Items)
  BY DEF Results
<1> HIDE DEF a, c, one, k
<1>5. /\ Append(a, one) \in Seq(Seq(Items)) /\ Len(Append(a, one)) = k + 1
      /\ Append(a, one)[k + 1] = one /\ \A i \in 1 .. k : Append(a, one)[i] = a[i]
  BY <1>1, <1>2, <1>4, AppendProperties
<1>6. \A i \in 1 .. k + 1 : c[i] = Append(a, one)[i]
  <2> TAKE i \in 1 .. k + 1
  <2>1. CASE i = k + 1
    BY <1>1, <1>3, <1>5, <2>1 DEF one
  <2>2. CASE i # k + 1
    <3>1. i \in 1 .. k
      BY <1>1, <2>2
    <3> QED
      BY <1>1, <1>2, <1>3, <1>5, <3>1
  <2> QED
    BY <2>1, <2>2
<1>7. c = Append(a, one)
  BY <1>3, <1>5, <1>6, SeqEqual
<1> QED
  BY <1>4, <1>7 DEF a, c, one

LEMMA PrintedType ==
  ASSUME NEW progs \in Seq(Programs), Len(progs) <= MaxExecs, NEW to
  PROVE  Printed(progs, to) \in Seq(Seq(AnyItems)) /\ Len(Printed(progs, to)) = Len(progs)
         /\ \A n \in 1 .. Len(progs) : Printed(progs, to)[n] = Prints(n, progs[n], to)
<1>1. Len(progs) \in Nat /\ \A n \in 1 .. Len(progs) : progs[n] \in Programs /\ n \in 1 .. MaxExecs
  BY Bounds
<1>2. \A n \in 1 .. Len(progs) : Prints(n, progs[n], to) \in Seq(AnyItems)
  BY <1>1, PrintsType
<1> QED
  BY <1>1, <1>2 DEF Printed

LEMMA PrintedAppend ==
  ASSUME NEW progs \in Seq(Programs), Len(progs) < MaxExecs, NEW prog \in Programs, NEW to
  PROVE  /\ Prints(Len(progs) + 1, prog, to) \in Seq(AnyItems)
         /\ Printed(Append(progs, prog), to) =
              Append(Printed(progs, to), Prints(Len(progs) + 1, prog, to))
<1> DEFINE all == Append(progs, prog)
           a == Printed(progs, to)
           c == Printed(all, to)
           k == Len(progs)
           one == Prints(k + 1, prog, to)
<1>1. /\ k \in Nat /\ all \in Seq(Programs) /\ Len(all) = k + 1
      /\ all[k + 1] = prog /\ \A i \in 1 .. k : all[i] = progs[i]
  BY AppendProperties
<1>2. k <= MaxExecs /\ k + 1 <= MaxExecs /\ k + 1 \in 1 .. MaxExecs
  BY <1>1, Bounds
<1>3. one \in Seq(AnyItems)
  BY <1>2, PrintsType
<1>4. a \in Seq(Seq(AnyItems)) /\ Len(a) = k /\ \A i \in 1 .. k : a[i] = Prints(i, progs[i], to)
  BY <1>2, PrintedType
<1>5. c \in Seq(Seq(AnyItems)) /\ Len(c) = k + 1
      /\ \A i \in 1 .. k + 1 : c[i] = Prints(i, all[i], to)
  BY <1>1, <1>2, PrintedType
<1> HIDE DEF a, c, one, k, all
<1>6. /\ Append(a, one) \in Seq(Seq(AnyItems)) /\ Len(Append(a, one)) = k + 1
      /\ Append(a, one)[k + 1] = one /\ \A i \in 1 .. k : Append(a, one)[i] = a[i]
  BY <1>3, <1>4, AppendProperties
<1>7. \A i \in 1 .. k + 1 : c[i] = Append(a, one)[i]
  <2> TAKE i \in 1 .. k + 1
  <2>1. CASE i = k + 1
    BY <1>1, <1>5, <1>6, <2>1 DEF one
  <2>2. CASE i # k + 1
    <3>1. i \in 1 .. k
      BY <1>1, <2>2
    <3> QED
      BY <1>1, <1>4, <1>5, <1>6, <3>1
  <2> QED
    BY <2>1, <2>2
<1>8. c = Append(a, one)
  BY <1>5, <1>6, <1>7, SeqEqual
<1> QED
  BY <1>3, <1>8 DEF a, c, one, k, all

-----------------------------------------------------------------------------
(***************************************************************************)
(* Prefixes.                                                               *)
(***************************************************************************)
LEMMA PrefixOfWhole ==
  ASSUME NEW T, NEW a \in Seq(T), NEW b \in Seq(T)
  PROVE  IsPrefix(a, a \o b)
<1> DEFINE c == a \o b
           n == Len(a)
<1>1. c \in Seq(T) /\ Len(c) = n + Len(b) /\ \A i \in 1 .. n : c[i] = a[i]
  BY ConcatProperties
<1>2. n \in Nat /\ Len(b) \in Nat
  OBVIOUS
<1> HIDE DEF c
<1>3. SubSeq(a, 1, n) \in Seq(T) /\ Len(SubSeq(a, 1, n)) = n
      /\ \A i \in 1 .. n : SubSeq(a, 1, n)[i] = a[i]
  <2>1. \A i \in 1 .. n : a[i] \in T
    OBVIOUS
  <2>2. n \in 0 .. Len(a)
    BY <1>2
  <2> QED
    BY <2>1, <2>2, SubSeqProperties
<1>4. SubSeq(c, 1, n) \in Seq(T) /\ Len(SubSeq(c, 1, n)) = n
      /\ \A i \in 1 .. n : SubSeq(c, 1, n)[i] = c[i]
  <2>1. \A i \in 1 .. n : c[i] \in T
    BY <1>1
  <2>2. n \in 0 .. Len(c)
    BY <1>1, <1>2
  <2> QED
    BY <1>1, <2>1, <2>2, SubSeqProperties
<1>5. SubSeq(a, 1, n) = SubSeq(c, 1, n)
  BY <1>1, <1>3, <1>4, SeqEqual
<1> QED
  BY <1>1, <1>2, <1>5 DEF IsPrefix, c

-----------------------------------------------------------------------------
(***************************************************************************)
(* Reading.                                                                *)
(***************************************************************************)
LEMMA SplitAt ==
  ASSUME NEW T, NEW s \in Seq(T), NEW n \in 0 .. Len(s)
  PROVE  LET a == SubSeq(s, 1, n)
             b == SubSeq(s, n + 1, Len(s))
         IN  /\ a \in Seq(T) /\ Len(a) = n /\ \A i \in 1 .. n : a[i] = s[i]
             /\ b \in Seq(T) /\ Len(b) = Len(s) - n
             /\ \A i \in 1 .. Len(s) - n : b[i] = s[n + i]
             /\ a \o b = s
<1> DEFINE a == SubSeq(s, 1, n)
           b == SubSeq(s, n + 1, Len(s))
<1>1. n \in Nat /\ Len(s) \in Nat /\ n <= Len(s) /\ \A i \in 1 .. Len(s) : s[i] \in T
  OBVIOUS
<1>2. a \in Seq(T) /\ Len(a) = n /\ \A i \in 1 .. n : a[i] = s[i]
  <2>1. \A i \in 1 .. n : s[i] \in T
    BY <1>1
  <2> QED
    BY <1>1, <2>1, SubSeqProperties
<1>3. b \in Seq(T) /\ Len(b) = Len(s) - n /\ \A i \in 1 .. Len(s) - n : b[i] = s[n + i]
  <2>1. \A i \in n + 1 .. Len(s) : s[i] \in T
    BY <1>1
  <2>2. n + 1 \in Int /\ Len(s) \in Int
    BY <1>1
  <2>3. /\ b \in Seq(T) /\ Len(b) = IF n + 1 <= Len(s) THEN Len(s) - (n + 1) + 1 ELSE 0
        /\ \A i \in 1 .. Len(s) - (n + 1) + 1 : b[i] = s[n + 1 + i - 1]
    BY <2>1, <2>2, SubSeqProperties
  <2> HIDE DEF b
  <2> QED
    BY <1>1, <2>3
<1> HIDE DEF a, b
<1>4. /\ a \o b \in Seq(T) /\ Len(a \o b) = Len(a) + Len(b)
      /\ \A i \in 1 .. Len(a) + Len(b) :
           (a \o b)[i] = IF i <= Len(a) THEN a[i] ELSE b[i - Len(a)]
  BY <1>2, <1>3, ConcatProperties
<1>5. \A i \in 1 .. Len(s) : (a \o b)[i] = s[i]
  <2> TAKE i \in 1 .. Len(s)
  <2>1. CASE i <= n
    BY <1>1, <1>2, <1>3, <1>4, <2>1
  <2>2. CASE ~(i <= n)
    <3>1. i - n \in 1 .. Len(s) - n /\ n + (i - n) = i
      BY <1>1, <2>2
    <3>2. b[i - n] = s[i]
      BY <1>3, <3>1
    <3> QED
      BY <1>1, <1>2, <1>3, <1>4, <2>2, <3>2
  <2> QED
    BY <2>1, <2>2
<1>6. a \o b = s
  <2>1. Len(a \o b) = Len(s)
    BY <1>1, <1>2, <1>3, <1>4
  <2> QED
    BY <1>4, <1>5, <2>1, SeqEqual
<1> QED
  BY <1>2, <1>3, <1>6 DEF a, b

LEMMA ChunkThenRest ==
  ASSUME NEW pipe \in Seq(Items)
  PROVE  Chunk(pipe) \o Rest(pipe) = pipe
<1> DEFINE n == IF Len(pipe) < ReadSize THEN Len(pipe) ELSE ReadSize
<1>1. n \in 0 .. Len(pipe) /\ Len(pipe) \in Nat
  BY Bounds
<1>2. Chunk(pipe) = SubSeq(pipe, 1, n)
  BY DEF Chunk
<1> HIDE DEF n
<1>3. /\ Len(SubSeq(pipe, 1, n)) = n
      /\ SubSeq(pipe, 1, n) \o SubSeq(pipe, n + 1, Len(pipe)) = pipe
  BY <1>1, SplitAt
<1> QED
  BY <1>2, <1>3 DEF Rest

\* Only lines of the marker are cut out.
LEMMA UserStrip ==
  ASSUME NEW chunk \in Seq(Items)
  PROVE  User(Strip(chunk)) = User(chunk) /\ Strip(chunk) \in Seq(AnyItems)
         /\ \A i \in DOMAIN Strip(chunk) : \E j \in DOMAIN chunk : Strip(chunk)[i] = chunk[j]
<1>1. CASE Markers(chunk) = {}
  <2>1. Strip(chunk) = chunk
    BY <1>1 DEF Strip
  <2> QED
    BY <2>1, SeqMonotonic DEF AnyItems
<1>2. CASE Markers(chunk) # {}
  <2> DEFINE first == CHOOSE i \in Markers(chunk) : \A j \in Markers(chunk) : i <= j
             last == IF chunk[first].kind = "echo" THEN first ELSE first + 1
             m == Len(chunk)
  <2>1. first \in Markers(chunk) /\ first \in 1 .. m /\ MarkerAt(chunk, first) /\ m \in Nat
    BY <1>2, LeastMarker DEF Markers
  <2>2. Strip(chunk) = SubSeq(chunk, 1, first - 1) \o SubSeq(chunk, last + 1, m)
    BY <1>2 DEF Strip
  <2>3. last \in {first, first + 1} /\ last \in 1 .. m
        /\ \A i \in first .. last : chunk[i].kind \notin UserKinds
    <3>1. CASE chunk[first].kind = "echo"
      <4>1. last = first
        BY <3>1
      <4>2. "echo" \notin UserKinds
        BY DEF UserKinds
      <4> HIDE DEF first, last
      <4> QED
        BY <2>1, <3>1, <4>1, <4>2
    <3>2. CASE chunk[first].kind # "echo"
      <4>1. last = first + 1
        BY <3>2
      <4>2. chunk[first].kind = "mark1" /\ first < m
            /\ chunk[first + 1] = [chunk[first] EXCEPT !.kind = "mark2"]
        BY <2>1, <3>2 DEF MarkerAt
      <4>3. chunk[first + 1].kind = "mark2"
        <5>1. chunk[first] \in Items
          BY <2>1
        <5> HIDE DEF first, last
        <5>2. \A x \in Items : [x EXCEPT !.kind = "mark2"].kind = "mark2"
          BY DEF Items
        <5> QED
          BY <4>2, <5>1, <5>2
      <4>4. "mark1" \notin UserKinds /\ "mark2" \notin UserKinds
        BY DEF UserKinds
      <4> HIDE DEF first, last, m
      <4>5. last \in 1 .. m
        BY <2>1, <4>1, <4>2
      <4>6. \A i \in first .. last : i = first \/ i = first + 1
        BY <2>1, <4>1
      <4> QED
        BY <4>1, <4>2, <4>3, <4>4, <4>5, <4>6
    <3> QED
      BY <3>1, <3>2
  <2> HIDE DEF first, last, m
  <2> DEFINE a == SubSeq(chunk, 1, first - 1)
             b == SubSeq(chunk, first, last)
             c == SubSeq(chunk, last + 1, m)
             ab == SubSeq(chunk, 1, last)
  <2>4. /\ a \in Seq(Items) /\ Len(a) = first - 1 /\ \A i \in 1 .. first - 1 : a[i] = chunk[i]
        /\ c \in Seq(Items) /\ Len(c) = m - last /\ \A i \in 1 .. m - last : c[i] = chunk[last + i]
        /\ ab \in Seq(Items) /\ Len(ab) = last /\ (\A i \in 1 .. last : ab[i] = chunk[i])
        /\ ab \o c = chunk
    <3>1. first - 1 \in 0 .. Len(chunk) /\ last \in 0 .. Len(chunk) /\ m = Len(chunk)
      BY <2>1, <2>3 DEF m
    <3> QED
      BY <3>1, SplitAt, ZenonT(60)
  <2>5. /\ b \in Seq(Items) /\ a \o b = ab /\ \A i \in 1 .. Len(b) : b[i].kind \notin UserKinds
    <3> DEFINE d == SubSeq(ab, first, last)
    <3> HIDE DEF a, ab
    <3>1. first - 1 \in 0 .. Len(ab) /\ first - 1 + 1 = first /\ Len(ab) = last
      BY <2>1, <2>3, <2>4
    <3>2. /\ d \in Seq(Items) /\ Len(d) = last - (first - 1)
          /\ \A i \in 1 .. last - (first - 1) : d[i] = ab[first - 1 + i]
          /\ SubSeq(ab, 1, first - 1) \o d = ab
          /\ SubSeq(ab, 1, first - 1) \in Seq(Items) /\ Len(SubSeq(ab, 1, first - 1)) = first - 1
          /\ \A i \in 1 .. first - 1 : SubSeq(ab, 1, first - 1)[i] = ab[i]
      <4> DEFINE k == first - 1
      <4>1. ab \in Seq(Items) /\ k \in 0 .. Len(ab)
        BY <2>4, <3>1
      <4> HIDE DEF d, k
      <4>2. /\ SubSeq(ab, k + 1, Len(ab)) \in Seq(Items)
            /\ Len(SubSeq(ab, k + 1, Len(ab))) = Len(ab) - k
            /\ \A i \in 1 .. Len(ab) - k :
                 SubSeq(ab, k + 1, Len(ab))[i] = ab[k + i]
            /\ SubSeq(ab, 1, k) \o SubSeq(ab, k + 1, Len(ab)) = ab
            /\ SubSeq(ab, 1, k) \in Seq(Items) /\ Len(SubSeq(ab, 1, k)) = k
            /\ \A i \in 1 .. k : SubSeq(ab, 1, k)[i] = ab[i]
        BY <4>1, SplitAt
      <4> QED
        BY <3>1, <4>2 DEF d, k
    <3> HIDE DEF d
    <3>3. SubSeq(ab, 1, first - 1) = a
      <4>1. \A i \in 1 .. first - 1 : SubSeq(ab, 1, first - 1)[i] = a[i]
        <5> TAKE i \in 1 .. first - 1
        <5>1. i \in 1 .. last
          BY <2>1, <2>3
        <5> QED
          BY <2>4, <3>2, <5>1
      <4> QED
        BY <2>4, <3>2, <4>1, SeqEqual, ZenonT(60)
    <3>4. b \in Seq(Items) /\ Len(b) = last - (first - 1)
          /\ \A i \in 1 .. last - (first - 1) : b[i] = chunk[first + i - 1]
      <4>1. \A i \in first .. last : chunk[i] \in Items
        <5>1. \A i \in first .. last : i \in 1 .. Len(chunk)
          BY <2>1, <2>3 DEF m
        <5> QED
          BY <5>1
      <4>2. first \in Int /\ last \in Int
        BY <2>1, <2>3
      <4>3. /\ b \in Seq(Items) /\ Len(b) = IF first <= last THEN last - first + 1 ELSE 0
            /\ \A i \in 1 .. last - first + 1 : b[i] = chunk[first + i - 1]
        BY <4>1, <4>2, SubSeqProperties
      <4> HIDE DEF b
      <4> QED
        BY <2>1, <2>3, <4>3
    <3> HIDE DEF b
    <3>5. \A i \in 1 .. last - (first - 1) : b[i] = d[i] /\ b[i].kind \notin UserKinds
      <4> TAKE i \in 1 .. last - (first - 1)
      <4>1. first + i - 1 \in first .. last /\ first + i - 1 \in 1 .. last
            /\ first - 1 + i = first + i - 1
        BY <2>1, <2>3
      <4>2. d[i] = chunk[first + i - 1]
        BY <2>4, <3>2, <4>1, ZenonT(60)
      <4> QED
        BY <2>3, <3>4, <4>1, <4>2
    <3>6. b = d
      BY <3>2, <3>4, <3>5, SeqEqual
    <3> QED
      BY <3>2, <3>3, <3>4, <3>5, <3>6
  <2>6. Strip(chunk) = a \o c
    BY <2>2
  <2> HIDE DEF a, b, c, ab
  <2>7. a \in Seq(AnyItems) /\ b \in Seq(AnyItems) /\ c \in Seq(AnyItems)
    BY <2>4, <2>5, SeqMonotonic DEF AnyItems
  <2>8. User(b) = <<>>
    <3>1. DOMAIN b = 1 .. Len(b)
      BY <2>5
    <3> DEFINE K == UserKinds
    <3>2. \A i \in DOMAIN b : b[i]["kind"] \notin K
      BY <2>5, <3>1
    <3> HIDE DEF K
    <3>3. Where(b, "kind", K) = <<>>
      BY <2>7, <3>2, WhereNone
    <3> QED
      BY <3>3 DEF User, K
  <2>9. User(a \o b) = User(a)
    <3> DEFINE u == User(a)
    <3>1. User(a \o b) = u \o User(b) /\ u \in Seq(AnyItems)
      BY <2>7, UserConcat
    <3> HIDE DEF u
    <3>2. u \o <<>> = u
      BY <3>1, ConcatEmptySeq
    <3> QED
      BY <2>8, <3>1, <3>2 DEF u
  <2>10. User(ab \o c) = User(ab) \o User(c) /\ User(a \o c) = User(a) \o User(c)
    <3>1. ab \in Seq(AnyItems)
      BY <2>4, SeqMonotonic DEF AnyItems
    <3> QED
      BY <2>7, <3>1, UserConcat
  <2>11. User(a \o c) = User(chunk)
    BY <2>4, <2>5, <2>9, <2>10
  <2>12. a \o c \in Seq(AnyItems) /\ Len(a \o c) = Len(a) + Len(c)
         /\ \A i \in 1 .. Len(a) + Len(c) :
              (a \o c)[i] = IF i <= Len(a) THEN a[i] ELSE c[i - Len(a)]
    BY <2>7, ConcatProperties
  <2>13. ASSUME NEW i \in DOMAIN (a \o c)
         PROVE  \E j \in DOMAIN chunk : (a \o c)[i] = chunk[j]
    <3>1. i \in 1 .. (first - 1) + (m - last) /\ DOMAIN chunk = 1 .. m
      <4> HIDE DEF m
      <4>1. DOMAIN (a \o c) = 1 .. Len(a \o c)
        BY <2>12
      <4>2. i \in 1 .. Len(a) + Len(c)
        BY <2>12, <2>13, <4>1
      <4> QED
        BY <2>4, <4>2 DEF m
    <3>2. CASE i <= first - 1
      <4>1. i \in 1 .. first - 1 /\ i \in 1 .. m
        BY <2>1, <3>1, <3>2
      <4> QED
        BY <2>4, <2>12, <3>1, <3>2, <4>1
    <3>3. CASE ~(i <= first - 1)
      <4>1. i - (first - 1) \in 1 .. m - last /\ last + (i - (first - 1)) \in 1 .. m
        BY <2>1, <2>3, <3>1, <3>3
      <4>2. (a \o c)[i] = c[i - (first - 1)]
        BY <2>4, <2>12, <3>1, <3>3
      <4>3. \A k \in 1 .. m - last : c[k] = chunk[last + k]
        BY <2>4
      <4>4. (a \o c)[i] = chunk[last + (i - (first - 1))]
        BY <4>1, <4>2, <4>3
      <4> QED
        BY <3>1, <4>1, <4>4
    <3> QED
      BY <3>2, <3>3
  <2> QED
    BY <2>6, <2>11, <2>12, <2>13
<1> QED
  BY <1>1, <1>2

-----------------------------------------------------------------------------
(***************************************************************************)
(* The streams, from what was returned to what SAS still has to write.     *)
(***************************************************************************)
UserLog == User(ReadSoFar("log", log_output) \o stderr)
Html == ReadSoFar("html", html_output) \o stdout

ReadFrom(rs, current, open, field) ==
  FlattenSeq(Returned(rs, field)) \o (IF open THEN current ELSE <<>>)
Due(works, stmts, to) == Out(works \o Later(stmts), to)

LEMMA ReadFromType ==
  ASSUME NEW rs \in Seq(Results), NEW current \in Seq(Items), NEW open \in BOOLEAN,
         NEW field \in {"log", "html"}
  PROVE  /\ FlattenSeq(Returned(rs, field)) \in Seq(Items)
         /\ ReadFrom(rs, current, open, field) \in Seq(Items)
         /\ ReadFrom(rs, current, TRUE, field) = FlattenSeq(Returned(rs, field)) \o current
         /\ ReadFrom(rs, current, FALSE, field) = FlattenSeq(Returned(rs, field))
<1> DEFINE a == FlattenSeq(Returned(rs, field))
           none == <<>>
<1>1. a \in Seq(Items)
  BY ReturnedType, FlattenType
<1>2. none \in Seq(Items)
  OBVIOUS
<1>3. /\ ReadFrom(rs, current, TRUE, field) = a \o current
      /\ ReadFrom(rs, current, FALSE, field) = a \o none
  BY DEF ReadFrom
<1> HIDE DEF a
<1>4. a \o none = a
  BY <1>1, ConcatEmptySeq
<1>5. a \o current \in Seq(Items)
  BY <1>1, ConcatProperties
<1>6. ReadFrom(rs, current, open, field) \in Seq(Items)
  <2>1. CASE open
    BY <1>3, <1>5, <2>1
  <2>2. CASE ~open
    BY <1>1, <1>3, <1>4, <2>2
  <2> QED
    BY <2>1, <2>2
<1> QED
  BY <1>1, <1>3, <1>4, <1>6 DEF a

LEMMA DueSplit ==
  ASSUME NEW t \in Seq(Works), NEW p \in Seq(Statements), NEW to
  PROVE  /\ Due(t, p, to) = Out(t, to) \o Out(Later(p), to)
         /\ Due(t, p, to) \in Seq(AnyItems)
         /\ Out(t, to) \in Seq(AnyItems) /\ Out(Later(p), to) \in Seq(AnyItems)
<1> DEFINE q == Later(p)
<1>1. q \in Seq(Works)
  BY LaterType
<1> HIDE DEF q
<1>2. t \o q \in Seq(Works)
  BY <1>1, ConcatProperties
<1>3. Out(t \o q, to) = Out(t, to) \o Out(q, to) /\ Out(t \o q, to) \in Seq(AnyItems)
      /\ Out(t, to) \in Seq(AnyItems) /\ Out(q, to) \in Seq(AnyItems)
  BY <1>1, <1>2, OutConcat, OutType, ZenonT(60)
<1> QED
  BY <1>3 DEF q, Due

LEMMA StreamsAre ==
  ASSUME Typed
  PROVE  /\ \A to : Coming(to) = Due(todo, Pending, to)
         /\ \A to : Coming(to) \in Seq(AnyItems)
         /\ Pending \in Seq(Statements)
         /\ \A to : AllPrinted(to) = FlattenSeq(Printed(submitted, to))
         /\ \A to : AllPrinted(to) \in Seq(AnyItems)
         /\ \A field, current : ReadSoFar(field, current) =
              ReadFrom(results, current, Len(results) < Len(submitted), field)
         /\ ReadSoFar("log", log_output) \in Seq(Items)
         /\ ReadSoFar("html", html_output) \in Seq(Items)
         /\ UserLog \in Seq(AnyItems) /\ Html \in Seq(AnyItems)
<1>1. \A to : Coming(to) = Due(todo, Pending, to)
  BY DEF Coming, Due, Out, ItemsOf, Later, WrittenBy
<1>2. Pending \in Seq(Statements)
  BY PendingIs
<1>3. \A to : Coming(to) \in Seq(AnyItems)
  BY <1>1, <1>2, DueSplit DEF Typed, SasTyped
<1>4. \A to : AllPrinted(to) = FlattenSeq(Printed(submitted, to))
  BY DEF AllPrinted, Printed
<1>5. \A to : AllPrinted(to) \in Seq(AnyItems)
  <2> TAKE to
  <2>1. Printed(submitted, to) \in Seq(Seq(AnyItems))
    BY PrintedType DEF Typed, KernelTyped
  <2> QED
    BY <1>4, <2>1, FlattenType
<1>6. \A field, current : ReadSoFar(field, current) =
        ReadFrom(results, current, Len(results) < Len(submitted), field)
  BY DEF ReadSoFar, ReadFrom, Returned
<1>7. /\ ReadSoFar("log", log_output) \in Seq(Items)
      /\ ReadSoFar("html", html_output) \in Seq(Items)
  <2> DEFINE open == Len(results) < Len(submitted)
  <2>1. open \in BOOLEAN /\ results \in Seq(Results)
        /\ log_output \in Seq(Items) /\ html_output \in Seq(Items)
    BY DEF Typed, KernelTyped
  <2>2. \A field, current : ReadSoFar(field, current) = ReadFrom(results, current, open, field)
    BY <1>6
  <2> HIDE DEF open
  <2> QED
    BY <2>1, <2>2, ReadFromType
<1>8. UserLog \in Seq(AnyItems) /\ Html \in Seq(AnyItems)
  <2> DEFINE a == ReadSoFar("log", log_output)
             b == ReadSoFar("html", html_output)
  <2>1. a \in Seq(AnyItems) /\ b \in Seq(AnyItems)
        /\ stderr \in Seq(AnyItems) /\ stdout \in Seq(AnyItems)
    BY <1>7, SeqMonotonic DEF AnyItems, Typed, SasTyped
  <2> HIDE DEF a, b
  <2>2. a \o stderr \in Seq(AnyItems) /\ b \o stdout \in Seq(AnyItems)
    BY <2>1, ConcatProperties
  <2> DEFINE c == a \o stderr
             none == <<>>
  <2>3. c \in Seq(AnyItems) /\ none \in Seq(AnyItems)
    BY <2>2
  <2> HIDE DEF c
  <2>4. User(c) \in Seq(AnyItems)
    BY <2>3, UserConcat
  <2> QED
    BY <2>2, <2>4 DEF UserLog, Html, a, b, c
<1> QED
  BY <1>1, <1>2, <1>3, <1>4, <1>5, <1>6, <1>7, <1>8

LEMMA FlowUntouched ==
  ASSUME Pending' = Pending,
         UNCHANGED <<submitted, results, html_output, log_output, stdout, stderr, todo>>
  PROVE  /\ UserLog' = UserLog /\ Html' = Html
         /\ \A to : Coming(to)' = Coming(to) /\ AllPrinted(to)' = AllPrinted(to)
BY DEF UserLog, Html, Coming, AllPrinted, ReadSoFar

LEMMA FlowReadStdout ==
  ASSUME Typed, Placed, ReadStdout
  PROVE  Html' = Html
<1>1. CASE "out" \notin revents
  BY <1>1 DEF ReadStdout, Html, ReadSoFar
<1>2. CASE "out" \in revents
  <2> DEFINE past == FlattenSeq(Returned(results, "html"))
             chunk == Chunk(stdout)
             rest == Rest(stdout)
  <2>1. html_output' = html_output \o chunk /\ stdout' = rest /\ UNCHANGED <<results, submitted>>
    BY <1>2 DEF ReadStdout
  <2>2. chunk \in Seq(Items) /\ rest \in Seq(Items) /\ chunk \o rest = stdout
        /\ html_output \in Seq(Items)
    BY ChunkAndRest, ChunkThenRest DEF Typed, KernelTyped, SasTyped
  <2>3. results \in Seq(Results) /\ Len(results) < Len(submitted)
    BY DEF ReadStdout, Placed, exec_counter, Typed, KernelTyped
  <2> HIDE DEF past, chunk, rest
  <2>4. html_output \o chunk \in Seq(Items)
    BY <2>2, ConcatProperties
  <2>5. past \in Seq(Items)
    BY <2>3, ReturnedType, FlattenType DEF past
  <2>6. Html = (past \o html_output) \o stdout
    BY <2>3 DEF Html, ReadSoFar, Returned, past
  <2>7. Html' = (past \o (html_output \o chunk)) \o rest
    BY <2>1, <2>3 DEF Html, ReadSoFar, Returned, past
  <2>8. (past \o (html_output \o chunk)) \o rest = ((past \o html_output) \o chunk) \o rest
    BY <2>2, <2>5, ConcatAssociative, SMTT(40)
  <2> DEFINE read == past \o html_output
  <2>9. read \in Seq(Items)
    BY <2>2, <2>5, ConcatProperties
  <2> HIDE DEF read
  <2>10. (read \o chunk) \o rest = read \o (chunk \o rest)
    <3>1. read \in Seq(Items) /\ chunk \in Seq(Items) /\ rest \in Seq(Items)
      BY <2>2, <2>9
    <3> QED
      BY ONLY <3>1, Associative
  <2> QED
    BY <2>2, <2>6, <2>7, <2>8, <2>10 DEF read
<1> QED
  BY <1>1, <1>2

LEMMA FlowReadStderr ==
  ASSUME Typed, Placed, ReadStderr
  PROVE  UserLog' = UserLog
<1>1. CASE "err" \notin revents
  BY <1>1 DEF ReadStderr, UserLog, ReadSoFar
<1>2. CASE "err" \in revents
  <2> DEFINE past == FlattenSeq(Returned(results, "log"))
             chunk == Chunk(stderr)
             rest == Rest(stderr)
             kept == Strip(chunk)
  <2>1. log_output' = log_output \o kept /\ stderr' = rest /\ UNCHANGED <<results, submitted>>
    BY <1>2 DEF ReadStderr
  <2>2. chunk \in Seq(Items) /\ rest \in Seq(Items) /\ chunk \o rest = stderr
        /\ log_output \in Seq(Items)
    BY ChunkAndRest, ChunkThenRest DEF Typed, KernelTyped, SasTyped
  <2>3. results \in Seq(Results) /\ Len(results) < Len(submitted)
    BY DEF ReadStderr, Placed, exec_counter, Typed, KernelTyped
  <2>4. kept \in Seq(Items) /\ User(kept) = User(chunk)
    BY <2>2, StripType, UserStrip
  <2>5. past \in Seq(Items)
    BY <2>3, ReturnedType, FlattenType
  <2> HIDE DEF past, chunk, rest, kept
  <2>6. UserLog = User((past \o log_output) \o stderr)
    BY <2>3 DEF UserLog, ReadSoFar, Returned, past
  <2>7. UserLog' = User((past \o (log_output \o kept)) \o rest)
    BY <2>1, <2>3 DEF UserLog, ReadSoFar, Returned, past
  <2>8. past \in Seq(AnyItems) /\ log_output \in Seq(AnyItems) /\ kept \in Seq(AnyItems)
        /\ chunk \in Seq(AnyItems) /\ rest \in Seq(AnyItems)
    BY <2>2, <2>4, <2>5, SeqMonotonic DEF AnyItems
  <2> DEFINE read == past \o log_output
  <2>9. read \in Seq(AnyItems) /\ past \o (log_output \o kept) = read \o kept
    <3>1. past \in Seq(AnyItems) /\ log_output \in Seq(AnyItems) /\ kept \in Seq(AnyItems)
      BY <2>8
    <3>2. (past \o log_output) \o kept = past \o (log_output \o kept)
      BY ONLY <3>1, Associative, SMTT(40)
    <3>3. past \o log_output \in Seq(AnyItems)
      BY ONLY <3>1, ConcatProperties
    <3> QED
      BY <3>2, <3>3
  <2> HIDE DEF read
  <2>10. \A s \in Seq(AnyItems) :
           User((read \o s) \o rest) = (User(read) \o User(s)) \o User(rest)
    <3> TAKE s \in Seq(AnyItems)
    <3>1. read \o s \in Seq(AnyItems)
      BY <2>9, ConcatProperties
    <3> DEFINE t == read \o s
    <3> HIDE DEF t
    <3>2. t \in Seq(AnyItems)
      BY <3>1 DEF t
    <3>3. User(t \o rest) = User(t) \o User(rest)
      BY <2>8, <3>2, UserConcat
    <3>4. User(read \o s) = User(read) \o User(s)
      BY <2>9, UserConcat
    <3> QED
      BY <3>3, <3>4 DEF t
  <2>11. read \o stderr = (read \o chunk) \o rest
    <3>1. read \in Seq(AnyItems) /\ chunk \in Seq(AnyItems) /\ rest \in Seq(AnyItems)
      BY <2>8, <2>9
    <3>2. (read \o chunk) \o rest = read \o (chunk \o rest)
      BY ONLY <3>1, Associative
    <3> QED
      BY <2>2, <3>2
  <2>12. UserLog = User((read \o chunk) \o rest) /\ UserLog' = User((read \o kept) \o rest)
    BY <2>6, <2>7, <2>9, <2>11 DEF read
  <2> QED
    BY <2>4, <2>8, <2>10, <2>12
<1> QED
  BY <1>1, <1>2

LEMMA FlowReturn ==
  ASSUME Typed, Placed, Typed', Return
  PROVE  UserLog' = UserLog /\ Html' = Html
<1> DEFINE r == results'[Len(results) + 1]
<1>1. /\ results \in Seq(Results) /\ results' \in Seq(Results) /\ log_output \in Seq(Items)
      /\ html_output \in Seq(Items)
  BY DEF Typed, KernelTyped
<1>2. /\ results' = Append(results, r) /\ r["log"] = log_output /\ r["html"] = html_output
      /\ Len(results') = Len(results) + 1
      /\ UNCHANGED <<submitted, stderr, stdout, log_output, html_output>>
  BY <1>1 DEF Return
<1>3. Len(results) \in Nat /\ Len(results) = Len(submitted) - 1 /\ Len(submitted) \in Nat
  BY DEF Return, Placed, exec_counter, Typed, KernelTyped
<1>4. r \in Results
  <2>1. Len(results) + 1 \in 1 .. Len(results')
    BY <1>2, <1>3
  <2> QED
    BY <1>1, <2>1
<1>5. (Len(results) < Len(submitted)) = TRUE /\ (Len(results') < Len(submitted')) = FALSE
  BY <1>2, <1>3
<1> HIDE DEF r
<1>6. ASSUME NEW field \in {"log", "html"}, NEW current \in Seq(Items), r[field] = current
      PROVE  ReadFrom(results', current, FALSE, field) = ReadFrom(results, current, TRUE, field)
  <2> DEFINE a == Returned(results, field)
  <2>1. a \in Seq(Seq(Items)) /\ Returned(results', field) = Append(a, current)
    BY <1>1, <1>2, <1>4, <1>6, ReturnedType, ReturnedAppend
  <2> HIDE DEF a
  <2>2. FlattenSeq(Append(a, current)) = FlattenSeq(a) \o current
    BY <2>1, FlattenAppend
  <2>3. ReadFrom(results', current, FALSE, field) = FlattenSeq(Returned(results', field))
    BY <1>1, ReadFromType
  <2>4. ReadFrom(results, current, TRUE, field) = FlattenSeq(a) \o current
    BY <1>1, ReadFromType DEF a
  <2> QED
    BY <2>1, <2>2, <2>3, <2>4
<1>7. /\ ReadSoFar("log", log_output)' = ReadSoFar("log", log_output)
      /\ ReadSoFar("html", html_output)' = ReadSoFar("html", html_output)
  <2>1. /\ ReadSoFar("log", log_output) = ReadFrom(results, log_output, TRUE, "log")
        /\ ReadSoFar("html", html_output) = ReadFrom(results, html_output, TRUE, "html")
    BY <1>5 DEF ReadSoFar, ReadFrom, Returned
  <2>2. /\ ReadSoFar("log", log_output)' = ReadFrom(results', log_output, FALSE, "log")
        /\ ReadSoFar("html", html_output)' = ReadFrom(results', html_output, FALSE, "html")
    BY <1>2, <1>5 DEF ReadSoFar, ReadFrom, Returned
  <2>3. /\ ReadFrom(results', log_output, FALSE, "log") = ReadFrom(results, log_output, TRUE, "log")
        /\ ReadFrom(results', html_output, FALSE, "html")
             = ReadFrom(results, html_output, TRUE, "html")
    BY <1>1, <1>2, <1>6
  <2> QED
    BY <2>1, <2>2, <2>3
<1> QED
  BY <1>2, <1>7 DEF UserLog, Html

LEMMA FlowExecute ==
  ASSUME Typed, Placed, NEW prog \in Programs, NEW echo \in Echoes, Execute(prog, echo)
  PROVE  /\ UserLog' = UserLog /\ Html' = Html
         /\ exec_counter + 1 \in 1 .. MaxExecs
         /\ \A to : Prints(exec_counter + 1, prog, to) \in Seq(AnyItems)
         /\ \A to : AllPrinted(to)' = AllPrinted(to) \o Prints(exec_counter + 1, prog, to)
         /\ User(Coming("err"))' = User(Coming("err")) \o Prints(exec_counter + 1, prog, "err")
         /\ \A to : to # "err" =>
              Coming(to)' = Coming(to) \o Prints(exec_counter + 1, prog, to)
<1> DEFINE n == exec_counter + 1
           code == WrappedCode(n, prog, echo)
<1>1. /\ results \in Seq(Results) /\ submitted \in Seq(Programs) /\ log_output \in Seq(Items)
      /\ html_output \in Seq(Items) /\ stdin \in Seq(Statements) /\ todo \in Seq(Works)
  BY DEF Typed, KernelTyped, SasTyped
<1>2. /\ submitted' = Append(submitted, prog) /\ log_output' = <<>> /\ html_output' = <<>>
      /\ UNCHANGED <<results, stdout, stderr, stdin, todo>> /\ unsent' = code /\ unsent = <<>>
  BY DEF Execute, Placed, sasVars
<1>3. Len(results) = Len(submitted) /\ Len(submitted) \in Nat /\ Len(submitted) < MaxExecs
      /\ Len(submitted') = Len(submitted) + 1
  BY <1>1, <1>2 DEF Execute, Placed, exec_counter
<1>4. n = Len(submitted) + 1 /\ n \in 1 .. MaxExecs
  BY <1>3, Bounds DEF exec_counter
<1>5. (Len(results) < Len(submitted)) = FALSE /\ (Len(results') < Len(submitted')) = TRUE
  BY <1>2, <1>3
<1>6. /\ ReadSoFar("log", log_output)' = ReadSoFar("log", log_output)
      /\ ReadSoFar("html", html_output)' = ReadSoFar("html", html_output)
  <2> DEFINE none == <<>>
  <2>1. none \in Seq(Items)
    OBVIOUS
  <2>2. /\ ReadSoFar("log", log_output) = ReadFrom(results, log_output, FALSE, "log")
        /\ ReadSoFar("html", html_output) = ReadFrom(results, html_output, FALSE, "html")
    BY <1>5 DEF ReadSoFar, ReadFrom, Returned
  <2>3. /\ ReadSoFar("log", log_output)' = ReadFrom(results, none, TRUE, "log")
        /\ ReadSoFar("html", html_output)' = ReadFrom(results, none, TRUE, "html")
    BY <1>2, <1>5 DEF ReadSoFar, ReadFrom, Returned
  <2> HIDE DEF none
  <2>4. ASSUME NEW field \in {"log", "html"}, NEW current \in Seq(Items)
        PROVE  ReadFrom(results, current, FALSE, field) = ReadFrom(results, none, TRUE, field)
    <3> DEFINE a == FlattenSeq(Returned(results, field))
    <3>1. /\ a \in Seq(Items) /\ ReadFrom(results, current, FALSE, field) = a
          /\ ReadFrom(results, none, TRUE, field) = a \o none
      BY <1>1, <2>1, ReadFromType
    <3> HIDE DEF a
    <3>2. a \o none = a
      BY <3>1, ConcatEmptySeq DEF none
    <3> QED
      BY <3>1, <3>2
  <2>5. /\ ReadFrom(results, log_output, FALSE, "log") = ReadFrom(results, none, TRUE, "log")
        /\ ReadFrom(results, html_output, FALSE, "html") = ReadFrom(results, none, TRUE, "html")
    BY <1>1, <2>4
  <2> QED
    BY <2>2, <2>3, <2>5
<1>7. UserLog' = UserLog /\ Html' = Html
  BY <1>2, <1>6 DEF UserLog, Html
<1>8. \A to : Prints(n, prog, to) \in Seq(AnyItems)
              /\ AllPrinted(to)' = AllPrinted(to) \o Prints(n, prog, to)
  <2> TAKE to
  <2> DEFINE a == Printed(submitted, to)
             one == Prints(n, prog, to)
  <2>1. a \in Seq(Seq(AnyItems)) /\ one \in Seq(AnyItems)
        /\ Printed(submitted', to) = Append(a, one)
    <3>1. a \in Seq(Seq(AnyItems))
      BY <1>1, <1>3, Bounds, PrintedType
    <3>2. /\ Prints(Len(submitted) + 1, prog, to) \in Seq(AnyItems)
          /\ Printed(Append(submitted, prog), to) = Append(a, Prints(Len(submitted) + 1, prog, to))
      BY <1>1, <1>3, PrintedAppend
    <3> QED
      BY <1>2, <1>4, <3>1, <3>2
  <2>2. AllPrinted(to) = FlattenSeq(a) /\ AllPrinted(to)' = FlattenSeq(Printed(submitted', to))
    BY DEF AllPrinted, Printed
  <2> HIDE DEF a, one
  <2>3. FlattenSeq(Append(a, one)) = FlattenSeq(a) \o one
    BY <2>1, FlattenAppend
  <2> QED
    BY <2>1, <2>2, <2>3 DEF one
<1>9. /\ code \in Seq(Statements) /\ Later(code) \in Seq(Works)
      /\ \A to : to # "err" => Out(Later(code), to) = Prints(n, prog, to)
      /\ User(Out(Later(code), "err")) = Prints(n, prog, "err")
  BY <1>4, CodeShape, OutOfCode
<1>10. Pending = stdin /\ Pending' = stdin \o code
  BY <1>1, <1>2, ConcatEmptySeq DEF Pending
<1> HIDE DEF n, code
<1>11. \A to : Coming(to) = Due(todo, stdin, to) /\ Coming(to)' = Due(todo, stdin \o code, to)
  BY <1>2, <1>10 DEF Coming, Due, Out, ItemsOf, Later, WrittenBy
<1>12. ASSUME NEW to
       PROVE  /\ Due(todo, stdin \o code, to) = Due(todo, stdin, to) \o Out(Later(code), to)
              /\ Due(todo, stdin, to) \in Seq(AnyItems) /\ Out(Later(code), to) \in Seq(AnyItems)
  <2> DEFINE a == Out(todo, to)
             b == Out(Later(stdin), to)
             c == Out(Later(code), to)
             p == Later(stdin)
             q == Later(code)
  <2>1. stdin \o code \in Seq(Statements) /\ Later(stdin \o code) = p \o q
        /\ p \in Seq(Works) /\ q \in Seq(Works)
    BY <1>1, <1>9, LaterConcat, LaterType, ConcatProperties
  <2>2. Due(todo, stdin, to) = a \o b /\ Due(todo, stdin, to) \in Seq(AnyItems)
        /\ a \in Seq(AnyItems) /\ b \in Seq(AnyItems)
    BY <1>1, DueSplit
  <2> DEFINE all == stdin \o code
  <2> HIDE DEF all, a, p, q
  <2>3. all \in Seq(Statements)
    BY <2>1 DEF all
  <2>4. Due(todo, all, to) = a \o Out(Later(all), to)
    BY <1>1, <2>3, DueSplit DEF a
  <2>5. Out(p \o q, to) = Out(p, to) \o Out(q, to)
    BY <2>1, OutConcat
  <2>6. c \in Seq(AnyItems)
    BY <1>9, OutType
  <2> HIDE DEF b, c
  <2>7. a \o (b \o c) = (a \o b) \o c
    BY ONLY <2>2, <2>6, Associative, SMTT(40)
  <2> QED
    BY <2>1, <2>2, <2>4, <2>5, <2>6, <2>7 DEF all, b, c, p, q
<1>13. User(Coming("err"))' = User(Coming("err")) \o Prints(n, prog, "err")
  <2> DEFINE a == Due(todo, stdin, "err")
             b == Out(Later(code), "err")
  <2>1. a \in Seq(AnyItems) /\ b \in Seq(AnyItems) /\ Due(todo, stdin \o code, "err") = a \o b
    BY <1>12
  <2>2. User(Coming("err")) = User(a) /\ User(Coming("err"))' = User(Due(todo, stdin \o code, "err"))
    BY <1>11 DEF User
  <2>3. User(b) = Prints(n, prog, "err")
    BY <1>9
  <2> HIDE DEF a, b
  <2>4. User(a \o b) = User(a) \o User(b)
    BY <2>1, UserConcat
  <2> QED
    BY <2>1, <2>2, <2>3, <2>4
<1>14. \A to : to # "err" => Coming(to)' = Coming(to) \o Prints(n, prog, to)
  BY <1>9, <1>11, <1>12
<1> QED
  BY <1>4, <1>7, <1>8, <1>13, <1>14 DEF n

LEMMA FlowSasReads ==
  ASSUME Typed, SasReads
  PROVE  /\ UserLog' = UserLog /\ Html' = Html
         /\ \A to : Coming(to)' = Coming(to)
<1> DEFINE stmt == Head(stdin)
           rest == Tail(stdin)
           later == rest \o unsent
           one == <<stmt>>
<1>1. /\ stdin \in Seq(Statements) /\ stdin # <<>> /\ unsent \in Seq(Statements)
      /\ todo = <<>> /\ todo' = Writes(stmt) /\ stdin' = rest
      /\ UNCHANGED <<submitted, results, html_output, log_output, stdout, stderr, unsent>>
  BY DEF SasReads, kernelVars, Typed, KernelTyped, SasTyped
<1>2. /\ stmt \in Statements /\ rest \in Seq(Statements) /\ one \in Seq(Statements)
      /\ stdin = one \o rest
  BY <1>1, HeadFirst
<1>3. Pending = stdin \o unsent /\ Pending' = later
  BY <1>1 DEF Pending
<1>4. UserLog' = UserLog /\ Html' = Html
  BY <1>1 DEF UserLog, Html, ReadSoFar
<1> HIDE DEF rest, one
<1>5. later \in Seq(Statements) /\ Pending = one \o later
  <2>1. rest \o unsent \in Seq(Statements)
    BY <1>1, <1>2, ConcatProperties
  <2>2. (one \o rest) \o unsent = one \o (rest \o unsent)
    <3>1. one \in Seq(Statements) /\ rest \in Seq(Statements) /\ unsent \in Seq(Statements)
      BY <1>1, <1>2
    <3> QED
      BY ONLY <3>1, Associative
  <2> QED
    BY <1>2, <1>3, <2>1, <2>2
<1> HIDE DEF later, stmt
<1>6. Later(Pending) = Writes(stmt) \o Later(later) /\ Writes(stmt) \in Seq(Works)
      /\ Later(later) \in Seq(Works)
  <2>1. Later(one \o later) = Later(one) \o Later(later)
    BY <1>2, <1>5, LaterConcat
  <2>2. Later(one) = Writes(stmt)
    BY <1>2, LaterOne DEF one
  <2> QED
    BY <1>2, <1>5, <2>1, <2>2, LaterType, WritesType
<1>7. \A to : Coming(to) = Out(todo \o Later(Pending), to)
              /\ Coming(to)' = Out(todo' \o Later(Pending'), to)
  BY DEF Coming, Out, ItemsOf, Later, WrittenBy
<1> DEFINE all == Writes(stmt) \o Later(later)
<1>8. all \in Seq(Works)
  BY <1>6, ConcatProperties
<1> HIDE DEF all
<1>9. <<>> \o all = all
  BY <1>8, ConcatEmptySeq
<1>10. todo \o Later(Pending) = all /\ todo' \o Later(Pending') = all
  BY <1>1, <1>3, <1>6, <1>9 DEF all
<1> QED
  BY <1>4, <1>7, <1>10

\* What SAS writes is the first of what was to come.
LEMMA ComingWrites ==
  ASSUME Typed, SasWrites, NEW to
  PROVE  LET w == Head(todo)
             o == Out(<<w>>, to)
         IN  /\ w \in Works /\ o = IF w.to = to THEN <<Item(w)>> ELSE <<>>
             /\ o \in Seq(AnyItems) /\ Coming(to)' \in Seq(AnyItems)
             /\ Coming(to) = o \o Coming(to)'
<1> DEFINE w == Head(todo)
           rest == Tail(todo)
           item == <<Item(w)>>
           one == <<w>>
           none == <<>>
           due == Due(rest, Pending, to)
           a == Out(one, to)
           b == Out(rest, to)
           c == Out(Later(Pending), to)
           all == one \o rest
<1>1. /\ todo \in Seq(Works) /\ todo # <<>> /\ todo' = rest
      /\ Pending' = Pending /\ Pending \in Seq(Statements)
  BY PendingIs DEF SasWrites, kernelVars, Pending, Typed, SasTyped
<1>2. w \in Works /\ rest \in Seq(Works) /\ one \in Seq(Works) /\ todo = one \o rest
  BY <1>1, HeadFirst
<1> HIDE DEF rest, one
<1>3. Coming(to) = Due(todo, Pending, to) /\ Coming(to)' = due
  BY <1>1 DEF Coming, Due, Out, ItemsOf, Later, WrittenBy
<1>4. due = b \o c /\ due \in Seq(AnyItems) /\ b \in Seq(AnyItems) /\ c \in Seq(AnyItems)
  BY <1>1, <1>2, DueSplit
<1>5. all \in Seq(Works)
  BY <1>1, <1>2
<1> HIDE DEF all, c
<1>6. Due(all, Pending, to) = Out(all, to) \o c
  BY <1>1, <1>5, DueSplit DEF c
<1>7. Out(all, to) = a \o b /\ a \in Seq(AnyItems)
  BY <1>2, OutConcat, OutType DEF all
<1>8. a = IF w.to = to THEN item ELSE none
  BY <1>2, OutOne DEF one
<1> HIDE DEF a, b, w, item
<1>9. (a \o b) \o c = a \o (b \o c)
  BY ONLY <1>4, <1>7, Associative
<1>10. Coming(to) = a \o due
  BY <1>2, <1>3, <1>4, <1>6, <1>7, <1>9 DEF all
<1> QED
  BY <1>2, <1>3, <1>4, <1>7, <1>8, <1>10 DEF a, one, w, item

LEMMA FlowSasWrites ==
  ASSUME Typed, SasWrites
  PROVE  /\ UserLog' \o User(Coming("err"))' = UserLog \o User(Coming("err"))
         /\ Html' \o Coming("out")' = Html \o Coming("out")
         /\ \A to : AllPrinted(to)' = AllPrinted(to)
<1> DEFINE w == Head(todo)
           item == <<Item(w)>>
           one == <<w>>
           none == <<>>
           due(to) == Coming(to)'
<1>1. /\ stdout \in Seq(Items) /\ stderr \in Seq(Items)
      /\ UNCHANGED <<submitted, results, html_output, log_output>>
  BY DEF SasWrites, kernelVars, Typed, SasTyped
<1>2. w \in Works
  BY ComingWrites
<1>3. \A to : AllPrinted(to)' = AllPrinted(to)
  BY <1>1 DEF AllPrinted
<1>4. \A to : /\ Coming(to) = Out(one, to) \o due(to) /\ Coming(to)' = due(to)
              /\ due(to) \in Seq(AnyItems) /\ Out(one, to) \in Seq(AnyItems)
              /\ Out(one, to) = IF w.to = to THEN item ELSE none
  BY ComingWrites
<1> HIDE DEF one
<1>5. UserLog' \o User(Coming("err"))' = UserLog \o User(Coming("err"))
  <2> DEFINE read == ReadSoFar("log", log_output)
             d == due("err")
             o == Out(one, "err")
  <2>1. read \in Seq(AnyItems) /\ stderr \in Seq(AnyItems)
    BY StreamsAre, SeqMonotonic DEF AnyItems, Typed, SasTyped
  <2>2. stderr' = stderr \o o
    <3>1. CASE w.to = "err"
      <4>1. stderr' = Append(stderr, Item(w)) /\ Item(w) \in Items
        BY <1>2, <3>1, ItemType DEF SasWrites
      <4>2. o = item
        BY <1>4, <3>1
      <4>3. Append(stderr, Item(w)) = stderr \o <<Item(w)>>
        BY <1>1, <4>1, AppendIsConcat
      <4> QED
        BY <4>1, <4>2, <4>3
    <3>2. CASE w.to # "err"
      <4>1. stderr' = stderr
        BY <1>2, <3>2, ItemType DEF SasWrites
      <4>2. o = <<>>
        BY <1>4, <3>2
      <4>3. stderr \o <<>> = stderr
        BY <1>1, ConcatEmptySeq
      <4> QED
        BY <4>1, <4>2, <4>3
    <3> QED
      BY <3>1, <3>2
  <2>3. Coming("err") = o \o d /\ Coming("err")' = d /\ d \in Seq(AnyItems) /\ o \in Seq(AnyItems)
    BY <1>4
  <2>4. UserLog = User(read \o stderr) /\ UserLog' = User(read \o stderr')
    BY <1>1 DEF UserLog, ReadSoFar
  <2>5. User(Coming("err"))' = User(Coming("err")')
    BY DEF User, Where
  <2> HIDE DEF read, d, o
  <2> DEFINE s == read \o stderr
             so == s \o o
             od == o \o d
  <2>6. s \in Seq(AnyItems)
    BY ONLY <2>1, ConcatProperties
  <2>7. read \o (stderr \o o) = (read \o stderr) \o o
    <3>1. read \in Seq(AnyItems) /\ stderr \in Seq(AnyItems) /\ o \in Seq(AnyItems)
      BY <2>1, <2>3
    <3> QED
      BY ONLY <3>1, Associative
  <2> HIDE DEF s
  <2>8. UserLog = User(s) /\ UserLog' = User(so)
    BY <2>2, <2>4, <2>7 DEF s
  <2>9. User(so) = User(s) \o User(o) /\ User(s) \in Seq(AnyItems) /\ User(o) \in Seq(AnyItems)
    BY <2>3, <2>6, UserConcat
  <2>10. User(od) = User(o) \o User(d) /\ User(d) \in Seq(AnyItems)
    BY <2>3, UserConcat
  <2> DEFINE us == User(s)
             uo == User(o)
             ud == User(d)
  <2>11. (us \o uo) \o ud = us \o (uo \o ud)
    <3>1. us \in Seq(AnyItems) /\ uo \in Seq(AnyItems) /\ ud \in Seq(AnyItems)
      BY <2>9, <2>10
    <3> HIDE DEF us, uo, ud
    <3> QED
      BY ONLY <3>1, Associative
  <2>12. User(Coming("err")) = uo \o ud /\ User(Coming("err"))' = ud
    BY <2>3, <2>5, <2>10
  <2>13. UserLog = us /\ UserLog' = us \o uo
    BY <2>8, <2>9
  <2> HIDE DEF us, uo, ud
  <2> QED
    BY <2>11, <2>12, <2>13
<1>6. Html' \o Coming("out")' = Html \o Coming("out")
  <2> DEFINE read == ReadSoFar("html", html_output)
             d == due("out")
             o == Out(one, "out")
  <2>1. read \in Seq(AnyItems) /\ stdout \in Seq(AnyItems)
    BY StreamsAre, SeqMonotonic DEF AnyItems, Typed, SasTyped
  <2>2. stdout' = stdout \o o
    <3>1. CASE w.to = "out"
      <4>1. stdout' = Append(stdout, Item(w)) /\ Item(w) \in Items
        BY <1>2, <3>1, ItemType DEF SasWrites
      <4>2. o = item
        BY <1>4, <3>1
      <4>3. Append(stdout, Item(w)) = stdout \o <<Item(w)>>
        BY <1>1, <4>1, AppendIsConcat
      <4> QED
        BY <4>1, <4>2, <4>3
    <3>2. CASE w.to # "out"
      <4>1. stdout' = stdout
        BY <1>2, <3>2, ItemType DEF SasWrites
      <4>2. o = <<>>
        BY <1>4, <3>2
      <4>3. stdout \o <<>> = stdout
        BY <1>1, ConcatEmptySeq
      <4> QED
        BY <4>1, <4>2, <4>3
    <3> QED
      BY <3>1, <3>2
  <2>3. Coming("out") = o \o d /\ Coming("out")' = d /\ d \in Seq(AnyItems) /\ o \in Seq(AnyItems)
    BY <1>4
  <2>4. Html = read \o stdout /\ Html' = read \o stdout'
    BY <1>1 DEF Html, ReadSoFar
  <2> HIDE DEF read, d, o
  <2>5. read \o (stdout \o o) = (read \o stdout) \o o /\ read \o stdout \in Seq(AnyItems)
    <3>1. read \o (stdout \o o) = (read \o stdout) \o o
      <4>1. read \in Seq(AnyItems) /\ stdout \in Seq(AnyItems) /\ o \in Seq(AnyItems)
        BY <2>1, <2>3
      <4> QED
        BY ONLY <4>1, Associative
    <3>2. read \o stdout \in Seq(AnyItems)
      BY ONLY <2>1, ConcatProperties
    <3> QED
      BY <3>1, <3>2
  <2> DEFINE s == read \o stdout
  <2>6. s \in Seq(AnyItems) /\ Html = s /\ Html' = s \o o
    BY <2>2, <2>4, <2>5
  <2> HIDE DEF s
  <2>7. (s \o o) \o d = s \o (o \o d)
    BY ONLY <2>3, <2>6, Associative
  <2> QED
    BY <2>3, <2>6, <2>7
<1> QED
  BY <1>3, <1>5, <1>6

-----------------------------------------------------------------------------
(***************************************************************************)
(* What is missing from a stream is still to come from SAS, or lost with   *)
(* it; what was printed before a marker that has been seen is not missing. *)
(***************************************************************************)
LogFlow ==
  \E d \in Seq(AnyItems) :
    /\ UserLog \o d = AllPrinted("err")
    /\ sas = "alive" => d = User(Coming("err"))
    /\ \A n \in 1 .. exec_counter : MarkerSeen(n) => \A i \in DOMAIN d : n < d[i].ex

HtmlFlow ==
  \E d \in Seq(AnyItems) :
    Html \o d = AllPrinted("out") /\ (sas = "alive" => d = Coming("out"))

FlowInv == StreamInv /\ LogFlow /\ HtmlFlow

LEMMA UserSubset ==
  ASSUME NEW V, V \subseteq AnyItems, NEW s \in Seq(V)
  PROVE  User(s) \in Seq({x \in V : x.kind \in UserKinds})
<1> DEFINE K == UserKinds
<1> HIDE DEF K
<1>1. Where(s, "kind", K) \in Seq({x \in V : x["kind"] \in K})
  BY WhereOnly
<1> QED
  BY <1>1 DEF User, K

\* Where what is to come is from.
LEMMA DueFrom ==
  ASSUME NEW U, U \subseteq Works, NEW t \in Seq(U), NEW p \in Seq(Statements),
         \A i \in DOMAIN p : Writes(p[i]) \in Seq(U), NEW to
  PROVE  \A i \in DOMAIN Due(t, p, to) : \E w \in U : w.to = to /\ Due(t, p, to)[i] = Item(w)
<1> DEFINE q == Later(p)
           all == t \o q
           V == {to}
           chosen == Where(all, "to", V)
           W == {w \in U : w["to"] \in V}
<1>1. WrittenBy(p) \in Seq(Seq(U))
  <2>1. Len(p) \in Nat /\ DOMAIN p = 1 .. Len(p)
    OBVIOUS
  <2> QED
    BY <2>1 DEF WrittenBy
<1>2. q \in Seq(U)
  BY <1>1, FlattenType DEF Later
<1> HIDE DEF q
<1>3. all \in Seq(U)
  BY <1>2, ConcatProperties
<1> HIDE DEF all, V
<1>4. chosen \in Seq(W)
  BY <1>3, WhereOnly
<1>5. W \subseteq U
  OBVIOUS
<1> HIDE DEF chosen, W
<1>6. /\ Len(chosen) \in Nat /\ \A i \in 1 .. Len(chosen) : chosen[i] \in W
  BY <1>4
<1>7. Due(t, p, to) = [i \in 1 .. Len(chosen) |-> Item(chosen[i])]
  BY DEF Due, Out, ItemsOf, chosen, V, all, q
<1> QED
  BY <1>5, <1>6, <1>7 DEF W, V

LEMMA DueAfter ==
  ASSUME NEW t \in Seq(Works), NEW p \in Seq(Statements), NEW n,
         \A i \in DOMAIN t : t[i].kind \notin MarkerKinds => n < t[i].ex,
         \A i \in DOMAIN p : IsUsers(p[i]) => n < p[i].ex, NEW to
  PROVE  /\ \A i \in DOMAIN Due(t, p, to) :
              Due(t, p, to)[i].kind \notin MarkerKinds => n < Due(t, p, to)[i].ex
         /\ \A i \in DOMAIN User(Due(t, p, to)) : n < User(Due(t, p, to))[i].ex
<1> DEFINE U == {w \in Works : w.kind \notin MarkerKinds => n < w.ex}
           V == {x \in AnyItems : x.kind \notin MarkerKinds => n < x.ex}
           due == Due(t, p, to)
           user == User(due)
<1>1. t \in Seq(U)
  <2>1. \A i \in DOMAIN t : t[i] \in U
    OBVIOUS
  <2> HIDE DEF U
  <2> QED
    BY <2>1, SeqWithin
<1>2. \A i \in DOMAIN p : Writes(p[i]) \in Seq(U)
  <2> TAKE i \in DOMAIN p
  <2> DEFINE ws == Writes(p[i])
  <2>1. p[i] \in Statements
    OBVIOUS
  <2>2. ws \in Seq(Works) /\ \A j \in DOMAIN ws : ws[j].ex = p[i].ex
    BY <2>1, WritesType
  <2>3. ~IsUsers(p[i]) => \A j \in DOMAIN ws : ws[j].kind \in MarkerKinds
    BY <2>1, MarkerWritesOnly, MarkerWorksAre
  <2>4. \A j \in DOMAIN ws : ws[j] \in Works
    BY <2>2
  <2> HIDE DEF ws
  <2>5. \A j \in DOMAIN ws : ws[j] \in U
    BY <2>2, <2>3, <2>4
  <2> HIDE DEF U
  <2>6. ws \in Seq(U)
    BY <2>2, <2>5, SeqWithin
  <2> QED
    BY <2>6 DEF ws
<1>3. U \subseteq Works
  OBVIOUS
<1>4. \A w \in U : Item(w) \in V
  <2> TAKE w \in U
  <2>1. w \in Works /\ (w.kind \notin MarkerKinds => n < w.ex)
    BY DEF U
  <2>2. Item(w) \in AnyItems /\ Item(w).kind = w.kind /\ Item(w).ex = w.ex
    BY <2>1, ItemType DEF AnyItems, Item
  <2> QED
    BY <2>1, <2>2
<1> HIDE DEF U
<1>5. \A i \in DOMAIN due : \E w \in U : w.to = to /\ due[i] = Item(w)
  BY <1>1, <1>2, <1>3, DueFrom
<1>6. \A i \in DOMAIN due : due[i] \in V
  BY <1>4, <1>5
<1>7. due \in Seq(AnyItems)
  BY DueSplit
<1>8. V \subseteq AnyItems
  OBVIOUS
<1>9. \A x \in V : (x.kind \notin MarkerKinds => n < x.ex) /\ (x.kind \in UserKinds => n < x.ex)
  BY DEF V, UserKinds, MarkerKinds
<1> HIDE DEF V, due
<1>10. due \in Seq(V)
  BY <1>6, <1>7, SeqWithin
<1>11. user \in Seq({x \in V : x.kind \in UserKinds})
  BY <1>8, <1>10, UserSubset
<1>12. \A i \in DOMAIN user : user[i] \in V /\ user[i].kind \in UserKinds
  BY <1>11
<1>13. \A i \in DOMAIN user : n < user[i].ex
  BY <1>9, <1>12
<1>14. \A i \in DOMAIN due : due[i].kind \notin MarkerKinds => n < due[i].ex
  BY <1>6, <1>9
<1> QED
  BY <1>13, <1>14 DEF due

\* Only SAS can make a marker be seen.
LEMMA SeenStays ==
  ASSUME StreamInv, Typed', Placed', [Next]_streamVars, ~SasWrites,
         NEW n \in 1 .. exec_counter', MarkerSeen(n)'
  PROVE  n \in 1 .. exec_counter /\ MarkerSeen(n)
<1> USE DEF StreamInv
<1>1. stderr \in Seq(Items) /\ results \in Seq(Results) /\ exec_counter \in Nat
      /\ \A i \in DOMAIN stderr : stderr[i].ex <= exec_counter
  BY DEF Typed, KernelTyped, SasTyped, Sorted, exec_counter
<1>2. CASE \E prog \in Programs, echo \in Echoes : Execute(prog, echo)
  <2>1. /\ UNCHANGED <<stderr, results>> /\ found_marker' = FALSE /\ Len(results) = exec_counter
        /\ exec_counter' = exec_counter + 1
    BY <1>2 DEF Execute, sasVars, Placed, exec_counter, Typed, KernelTyped
  <2>2. MarkerSeen(n)
    BY <2>1 DEF MarkerSeen
  <2>3. n <= exec_counter
    <3>1. CASE \E i \in DOMAIN stderr : stderr[i].kind \in MarkerKinds /\ stderr[i].ex = n
      BY <1>1, <3>1
    <3>2. CASE n \in DOMAIN results
      BY <1>1, <2>1, <3>2
    <3> QED
      BY <2>1, <3>1, <3>2 DEF MarkerSeen
  <2> QED
    BY <1>1, <2>1, <2>2, <2>3
<1>3. CASE ReadStderr
  <2>1. UNCHANGED <<results, submitted>> /\ exec_counter' = exec_counter
    BY <1>3 DEF ReadStderr, exec_counter
  <2>2. \A i \in DOMAIN stderr' : \E j \in DOMAIN stderr : stderr'[i] = stderr[j]
    BY <1>1, <1>3, ChunkAndRest DEF ReadStderr
  <2>3. found_marker' => MarkerSeen(exec_counter)
    <3> SUFFICES ASSUME found_marker', ~found_marker PROVE MarkerSeen(exec_counter)
      BY DEF MarkerSeen
    <3>1. PICK i \in DOMAIN Chunk(stderr) : MarkerAt(Chunk(stderr), i)
      BY <1>3 DEF ReadStderr, Markers
    <3>2. i \in DOMAIN stderr /\ Chunk(stderr)[i] = stderr[i]
      BY <1>1, ChunkAndRest
    <3>3. stderr[i].ex = exec_counter /\ stderr[i].kind \in MarkerKinds
      BY <3>1, <3>2 DEF MarkerAt, IsCurrent, MarkerKinds
    <3> QED
      BY <3>2, <3>3 DEF MarkerSeen
  <2>4. MarkerSeen(n)
    <3>1. CASE \E i \in DOMAIN stderr' : stderr'[i].kind \in MarkerKinds /\ stderr'[i].ex = n
      BY <2>2, <3>1 DEF MarkerSeen
    <3>2. CASE found_marker' /\ n = exec_counter'
      BY <2>1, <2>3, <3>2
    <3>3. CASE n \in DOMAIN results' /\ results'[n].found
      BY <2>1, <3>3 DEF MarkerSeen
    <3> QED
      BY <3>1, <3>2, <3>3 DEF MarkerSeen
  <2> QED
    BY <2>1, <2>4
<1>4. CASE Return
  <2>1. UNCHANGED <<submitted, stderr, found_marker>> /\ exec_counter' = exec_counter
    BY <1>4 DEF Return, exec_counter
  <2>2. Len(results) = exec_counter - 1 /\ exec_counter \in Nat \ {0}
    BY <1>4 DEF Return, Placed, Typed, KernelTyped, exec_counter
  <2>3. /\ DOMAIN results = 1 .. exec_counter - 1 /\ DOMAIN results' = 1 .. exec_counter
        /\ \A k \in 1 .. exec_counter - 1 : results'[k] = results[k]
        /\ results'[exec_counter].found = found_marker
    BY <1>1, <1>4, <2>2 DEF Return
  <2>4. MarkerSeen(n)
    <3> SUFFICES ASSUME n \in DOMAIN results', results'[n].found PROVE MarkerSeen(n)
      BY <2>1 DEF MarkerSeen
    <3>1. CASE n = exec_counter
      BY <2>3, <3>1 DEF MarkerSeen
    <3>2. CASE n # exec_counter
      BY <2>2, <2>3, <3>2 DEF MarkerSeen
    <3> QED
      BY <3>1, <3>2
  <2> QED
    BY <2>1, <2>4
<1>5. CASE UNCHANGED <<submitted, stderr, results, found_marker>>
  BY <1>5 DEF MarkerSeen, exec_counter
<1> QED
  BY <1>2, <1>3, <1>4, <1>5
  DEF Next, KernelStep, streamVars, kernelVars, sasVars, Send, PollFinds, PollTimesOut, PollHangsUp,
      PollInterrupted, ReadStdout, SasReads, SasDies

LEMMA FlowCases ==
  ASSUME StreamInv, StreamInv', [Next]_streamVars
  PROVE  \/ /\ UserLog' = UserLog /\ Html' = Html /\ sas' = sas
            /\ \A to : Coming(to)' = Coming(to) /\ AllPrinted(to)' = AllPrinted(to)
            /\ ~SasWrites
         \/ \E prog \in Programs, echo \in Echoes : Execute(prog, echo)
         \/ SasWrites
         \/ /\ UserLog' = UserLog /\ Html' = Html /\ sas' = "dead" /\ ~SasWrites
            /\ \A to : AllPrinted(to)' = AllPrinted(to)
<1> USE DEF StreamInv
<1>1. CASE \/ UNCHANGED streamVars
           \/ PollFinds \/ PollTimesOut \/ PollHangsUp \/ PollInterrupted
  <2>1. /\ Pending' = Pending /\ sas' = sas
        /\ UNCHANGED <<submitted, results, html_output, log_output, stdout, stderr, todo>>
    BY <1>1 DEF streamVars, kernelVars, sasVars, PollFinds, PollTimesOut, PollHangsUp,
                PollInterrupted, Pending
  <2> QED
    BY <2>1, FlowUntouched
<1>2. CASE Send
  <2>1. /\ Pending' = Pending /\ sas' = sas
        /\ UNCHANGED <<submitted, results, html_output, log_output, stdout, stderr, todo>>
    BY <1>2, PendingSend DEF Send
  <2> QED
    BY <2>1, FlowUntouched
<1>3. CASE ReadStdout
  <2>1. /\ Pending' = Pending /\ sas' = sas
        /\ UNCHANGED <<submitted, results, log_output, stderr, todo>>
    BY <1>3 DEF ReadStdout, Pending
  <2>2. UserLog' = UserLog /\ \A to : Coming(to)' = Coming(to) /\ AllPrinted(to)' = AllPrinted(to)
    BY <2>1 DEF UserLog, Coming, AllPrinted, ReadSoFar
  <2> QED
    BY <1>3, <2>1, <2>2, FlowReadStdout
<1>4. CASE ReadStderr
  <2>1. /\ Pending' = Pending /\ sas' = sas
        /\ UNCHANGED <<submitted, results, html_output, stdout, todo>>
    BY <1>4 DEF ReadStderr, Pending
  <2>2. Html' = Html /\ \A to : Coming(to)' = Coming(to) /\ AllPrinted(to)' = AllPrinted(to)
    BY <2>1 DEF Html, Coming, AllPrinted, ReadSoFar
  <2> QED
    BY <1>4, <2>1, <2>2, FlowReadStderr
<1>5. CASE Return
  <2>1. Pending' = Pending /\ sas' = sas /\ UNCHANGED <<submitted, todo>>
    BY <1>5 DEF Return, Pending
  <2>2. \A to : Coming(to)' = Coming(to) /\ AllPrinted(to)' = AllPrinted(to)
    BY <2>1 DEF Coming, AllPrinted
  <2> QED
    BY <1>5, <2>1, <2>2, FlowReturn
<1>6. CASE SasReads
  <2>1. sas' = sas /\ UNCHANGED submitted
    BY <1>6 DEF SasReads, kernelVars
  <2>2. \A to : AllPrinted(to)' = AllPrinted(to)
    BY <2>1 DEF AllPrinted
  <2> QED
    BY <1>6, <2>1, <2>2, FlowSasReads
<1>7. CASE SasDies
  <2>1. sas' = "dead" /\ todo' = <<>>
        /\ UNCHANGED <<submitted, results, html_output, log_output, stdout, stderr>>
    BY <1>7 DEF SasDies, kernelVars
  <2>2. UserLog' = UserLog /\ Html' = Html /\ \A to : AllPrinted(to)' = AllPrinted(to)
    BY <2>1 DEF UserLog, Html, AllPrinted, ReadSoFar
  <2> QED
    BY <2>1, <2>2
<1> QED
  BY <1>1, <1>2, <1>3, <1>4, <1>5, <1>6, <1>7 DEF Next, KernelStep

LEMMA FlowInit == Init => LogFlow /\ HtmlFlow
<1> SUFFICES ASSUME Init PROVE LogFlow /\ HtmlFlow
  OBVIOUS
<1> DEFINE none == <<>>
<1>1. none \in Seq(AnyItems) /\ none \o none = none /\ DOMAIN none = {}
  OBVIOUS
<1>2. /\ submitted = <<>> /\ results = <<>> /\ stdout = <<>> /\ stderr = <<>>
      /\ todo = <<>> /\ stdin = <<>> /\ unsent = <<>>
  BY DEF Init
<1>3. Typed
  BY StreamInit DEF StreamInv
<1>4. User(none) = none /\ \A to : Where(none, "to", {to}) = none
  BY WhereEmpty DEF User
<1>5. \A to : AllPrinted(to) = none
  <2> TAKE to
  <2>1. [n \in 1 .. Len(submitted) |-> Prints(n, submitted[n], to)] = <<>>
    BY <1>2
  <2> QED
    BY <2>1, FlattenEmpty DEF AllPrinted
<1>6. \A to : Coming(to) = none
  <2> TAKE to
  <2>1. Pending = none
    BY <1>1, <1>2 DEF Pending
  <2>2. [i \in 1 .. Len(Pending) |-> Writes(Pending[i])] = none
    BY <2>1
  <2>3. FlattenSeq([i \in 1 .. Len(Pending) |-> Writes(Pending[i])]) = none
    BY <2>2, FlattenEmpty
  <2>4. Where(todo \o FlattenSeq([i \in 1 .. Len(Pending) |-> Writes(Pending[i])]), "to", {to}) = none
    BY <1>1, <1>2, <1>4, <2>3
  <2>5. Coming(to) = ItemsOf(
          Where(todo \o FlattenSeq([i \in 1 .. Len(Pending) |-> Writes(Pending[i])]), "to", {to}))
    BY DEF Coming, ItemsOf
  <2>6. ItemsOf(<<>>) = <<>>
    BY DEF ItemsOf
  <2> QED
    BY <2>4, <2>5, <2>6
<1>7. ReadSoFar("log", log_output) = none /\ ReadSoFar("html", html_output) = none
  <2>1. /\ [n \in 1 .. Len(results) |-> results[n]["log"]] = <<>>
        /\ [n \in 1 .. Len(results) |-> results[n]["html"]] = <<>>
    BY <1>2
  <2>2. ~(Len(results) < Len(submitted))
    BY <1>2
  <2> QED
    BY <1>1, <2>1, <2>2, FlattenEmpty DEF ReadSoFar
<1>8. UserLog = none /\ Html = none
  <2>1. ReadSoFar("log", log_output) \o stderr = none /\ ReadSoFar("html", html_output) \o stdout = none
    BY <1>1, <1>2, <1>7
  <2> QED
    BY <1>4, <2>1 DEF UserLog, Html
<1> HIDE DEF none
<1>9. UserLog \o none = AllPrinted("err") /\ none = User(Coming("err"))
      /\ Html \o none = AllPrinted("out") /\ none = Coming("out")
  BY <1>1, <1>4, <1>5, <1>6, <1>8
<1> QED
  BY <1>1, <1>9 DEF LogFlow, HtmlFlow

LEMMA LogFlowStep ==
  ASSUME StreamInv, StreamInv', LogFlow, [Next]_streamVars
  PROVE  LogFlow'
<1> USE DEF StreamInv
<1> DEFINE all == AllPrinted("err")
           next == User(Coming("err"))
<1>1. PICK d \in Seq(AnyItems) :
        /\ UserLog \o d = all
        /\ sas = "alive" => d = next
        /\ \A n \in 1 .. exec_counter : MarkerSeen(n) => \A i \in DOMAIN d : n < d[i].ex
  BY DEF LogFlow
<1>2. UserLog \in Seq(AnyItems) /\ all \in Seq(AnyItems)
  BY StreamsAre
<1>3. CASE sas' = "alive"
  <2>1. UserLog' \o next' = all'
    <3>1. sas = "alive"
      <4>1. sas' = sas \/ sas' = "dead"
        BY DEF Next, KernelStep, Execute, Send, PollFinds, PollTimesOut, PollHangsUp,
               PollInterrupted, ReadStdout, ReadStderr, Return, SasReads, SasWrites, SasDies,
               sasVars, streamVars
      <4> QED
        BY <1>3, <4>1
    <3>2. CASE \E prog \in Programs, echo \in Echoes : Execute(prog, echo)
      <4>1. PICK prog \in Programs, echo \in Echoes : Execute(prog, echo)
        BY <3>2
      <4> DEFINE new == Prints(exec_counter + 1, prog, "err")
      <4>2. UserLog' = UserLog /\ new \in Seq(AnyItems) /\ all' = all \o new /\ next' = next \o new
        BY <4>1, FlowExecute
      <4> HIDE DEF all, next, new
      <4>3. (UserLog \o d) \o new = UserLog \o (d \o new)
        BY ONLY <1>2, <4>2, Associative, SMTT(40)
      <4> QED
        BY <1>1, <3>1, <4>2, <4>3
    <3>3. CASE SasWrites
      BY <1>1, <3>1, <3>3, FlowSasWrites
    <3>4. CASE /\ UserLog' = UserLog /\ \A to : Coming(to)' = Coming(to)
               /\ \A to : AllPrinted(to)' = AllPrinted(to)
      <4>1. next' = next /\ all' = all
        BY <3>4 DEF User, Where
      <4> HIDE DEF next, all
      <4> QED
        BY <1>1, <3>1, <3>4, <4>1
    <3> QED
      BY <1>3, <3>2, <3>3, <3>4, FlowCases
  <2>2. next' \in Seq(AnyItems) /\ next' = User(Due(todo', Pending', "err"))
    <3> DEFINE due == Due(todo', Pending', "err")
    <3>1. todo' \in Seq(Works) /\ Pending' \in Seq(Statements)
      <4>1. /\ todo' \in Seq(Works) /\ stdin' \in Seq(Statements) /\ unsent' \in Seq(Statements)
            /\ Pending' = stdin' \o unsent'
        BY DEF Typed, KernelTyped, SasTyped, Pending
      <4> QED
        BY <4>1, ConcatProperties
    <3>2. Coming("err")' = due
      BY DEF Coming, Due, Out, ItemsOf, Later, WrittenBy
    <3>3. next' = User(due)
      BY <3>2 DEF User, Where
    <3>4. due \in Seq(AnyItems)
      BY <3>1, DueSplit
    <3> HIDE DEF due
    <3>5. User(due) \in Seq(AnyItems)
      BY <3>4, UserConcat
    <3> HIDE DEF next
    <3> QED
      BY <3>3, <3>5 DEF due
  <2>3. ASSUME NEW n \in 1 .. exec_counter', MarkerSeen(n)'
        PROVE  \A i \in DOMAIN next' : n < next'[i].ex
    <3>1. DoneUpTo(n)'
      BY <2>3 DEF Ordered
    <3>2. todo' \in Seq(Works) /\ Pending' \in Seq(Statements)
      <4>1. /\ todo' \in Seq(Works) /\ stdin' \in Seq(Statements) /\ unsent' \in Seq(Statements)
            /\ Pending' = stdin' \o unsent'
        BY DEF Typed, KernelTyped, SasTyped, Pending
      <4> QED
        BY <4>1, ConcatProperties
    <3>3. /\ \A i \in DOMAIN todo' : todo'[i].kind \notin MarkerKinds => n < todo'[i].ex
          /\ \A i \in DOMAIN Pending' : IsUsers(Pending'[i]) => n < Pending'[i].ex
      BY <3>1 DEF DoneUpTo
    <3> HIDE DEF next
    <3> QED
      BY <2>2, <3>2, <3>3, DueAfter
  <2> HIDE DEF all, next
  <2>4. \E e \in Seq(AnyItems) :
          /\ UserLog' \o e = all'
          /\ sas' = "alive" => e = next'
          /\ \A n \in 1 .. exec_counter' : MarkerSeen(n)' => \A i \in DOMAIN e : n < e[i].ex
    BY <2>1, <2>2, <2>3
  <2> QED
    BY <2>4 DEF LogFlow, all, next
<1>4. CASE sas' # "alive"
  <2>0. ~SasWrites
    BY <1>4 DEF SasWrites
  <2>1. ASSUME NEW n \in 1 .. exec_counter', MarkerSeen(n)'
        PROVE  n \in 1 .. exec_counter /\ MarkerSeen(n)
    BY <2>0, <2>1, SeenStays
  <2>2. CASE \E prog \in Programs, echo \in Echoes : Execute(prog, echo)
    <3>1. PICK prog \in Programs, echo \in Echoes : Execute(prog, echo)
      BY <2>2
    <3> DEFINE k == exec_counter + 1
               new == Prints(k, prog, "err")
               e == d \o new
    <3>2. UserLog' = UserLog /\ new \in Seq(AnyItems) /\ all' = all \o new
      BY <3>1, FlowExecute
    <3>3. \A i \in DOMAIN new : new[i].ex = k
      BY DEF Prints
    <3>4. exec_counter \in Nat /\ k = exec_counter + 1
      BY DEF Typed, KernelTyped, exec_counter
    <3> HIDE DEF all, new, k
    <3>5. (UserLog \o d) \o new = UserLog \o (d \o new)
      BY ONLY <1>2, <3>2, Associative, SMTT(40)
    <3>6. /\ e \in Seq(AnyItems) /\ Len(e) = Len(d) + Len(new)
          /\ \A i \in 1 .. Len(d) + Len(new) : e[i] = IF i <= Len(d) THEN d[i] ELSE new[i - Len(d)]
      BY <3>2, ConcatProperties
    <3> HIDE DEF e
    <3>7. ASSUME NEW n \in 1 .. exec_counter', MarkerSeen(n)', NEW i \in DOMAIN e
          PROVE  n < e[i].ex
      <4>1. n \in 1 .. exec_counter /\ MarkerSeen(n)
        BY <2>1, <3>7
      <4>2. i \in 1 .. Len(d) + Len(new) /\ Len(d) \in Nat /\ Len(new) \in Nat
            /\ DOMAIN d = 1 .. Len(d) /\ DOMAIN new = 1 .. Len(new)
        <5>1. DOMAIN e = 1 .. Len(e)
          BY <3>6
        <5> QED
          BY <3>2, <3>6, <5>1
      <4>3. CASE i <= Len(d)
        <5>1. e[i] = d[i] /\ i \in DOMAIN d
          BY <3>6, <4>2, <4>3
        <5> QED
          BY <1>1, <4>1, <5>1
      <4>4. CASE ~(i <= Len(d))
        <5>1. e[i] = new[i - Len(d)] /\ i - Len(d) \in DOMAIN new
          BY <3>6, <4>2, <4>4
        <5> QED
          BY <3>3, <3>4, <4>1, <5>1
      <4> QED
        BY <4>3, <4>4
    <3>8. \E f \in Seq(AnyItems) :
            /\ UserLog' \o f = all'
            /\ \A n \in 1 .. exec_counter' : MarkerSeen(n)' => \A i \in DOMAIN f : n < f[i].ex
      <4>1. UserLog' \o e = all'
        BY <1>1, <3>2, <3>5 DEF e
      <4> QED
        BY <3>6, <3>7, <4>1
    <3> QED
      BY <1>4, <3>8 DEF LogFlow, all
  <2>3. CASE UserLog' = UserLog /\ \A to : AllPrinted(to)' = AllPrinted(to)
    <3>1. all' = all
      BY <2>3
    <3> HIDE DEF all
    <3>2. /\ UserLog' \o d = all'
          /\ \A n \in 1 .. exec_counter' : MarkerSeen(n)' => \A i \in DOMAIN d : n < d[i].ex
      BY <1>1, <2>1, <2>3, <3>1
    <3> QED
      BY <1>4, <3>2 DEF LogFlow, all
  <2> QED
    BY <2>0, <2>2, <2>3, FlowCases
<1> QED
  BY <1>3, <1>4

LEMMA HtmlFlowStep ==
  ASSUME StreamInv, StreamInv', HtmlFlow, [Next]_streamVars
  PROVE  HtmlFlow'
<1> USE DEF StreamInv
<1> DEFINE all == AllPrinted("out")
           next == Coming("out")
<1>1. PICK d \in Seq(AnyItems) : Html \o d = all /\ (sas = "alive" => d = next)
  BY DEF HtmlFlow
<1>2. Html \in Seq(AnyItems) /\ all \in Seq(AnyItems) /\ next \in Seq(AnyItems)
  BY StreamsAre
<1>3. CASE \E prog \in Programs, echo \in Echoes : Execute(prog, echo)
  <2>1. PICK prog \in Programs, echo \in Echoes : Execute(prog, echo)
    BY <1>3
  <2> DEFINE new == Prints(exec_counter + 1, prog, "out")
  <2>2. Html' = Html /\ new \in Seq(AnyItems) /\ all' = all \o new /\ next' = next \o new
    BY <2>1, FlowExecute
  <2>3. sas' = sas
    BY <2>1 DEF Execute, sasVars
  <2> HIDE DEF all, next, new
  <2> DEFINE read == Html
  <2>0. read \in Seq(AnyItems) /\ d \in Seq(AnyItems) /\ new \in Seq(AnyItems)
    BY <1>2, <2>2
  <2> HIDE DEF read
  <2>4. (read \o d) \o new = read \o (d \o new)
    BY ONLY <2>0, Associative, SMTT(40)
  <2>5. d \o new \in Seq(AnyItems)
    BY ONLY <2>0, ConcatProperties
  <2>6. Html' \o (d \o new) = all' /\ (sas' = "alive" => d \o new = next')
    BY <1>1, <2>2, <2>3, <2>4 DEF read
  <2> QED
    BY <2>5, <2>6 DEF HtmlFlow, all, next
<1>4. CASE SasWrites
  <2>1. sas = "alive" /\ sas' = sas
    BY <1>4 DEF SasWrites
  <2>2. Html' \o next' = Html \o next /\ all' = all
    BY <1>4, FlowSasWrites
  <2>3. next' \in Seq(AnyItems)
    <3>1. todo' \in Seq(Works) /\ Pending' \in Seq(Statements)
      <4>1. /\ todo' \in Seq(Works) /\ stdin' \in Seq(Statements) /\ unsent' \in Seq(Statements)
            /\ Pending' = stdin' \o unsent'
        BY DEF Typed, KernelTyped, SasTyped, Pending
      <4> QED
        BY <4>1, ConcatProperties
    <3>2. next' = Due(todo', Pending', "out")
      BY DEF Coming, Due, Out, ItemsOf, Later, WrittenBy
    <3> QED
      BY <3>1, <3>2, DueSplit
  <2> HIDE DEF all, next
  <2>4. Html' \o next' = all'
    BY <1>1, <2>1, <2>2
  <2> QED
    BY <2>3, <2>4 DEF HtmlFlow, all, next
<1>5. CASE /\ Html' = Html /\ \A to : AllPrinted(to)' = AllPrinted(to)
           /\ sas' = "dead" \/ (sas' = sas /\ \A to : Coming(to)' = Coming(to))
  <2>1. all' = all /\ (sas' = "dead" \/ (sas' = sas /\ next' = next))
    BY <1>5
  <2> HIDE DEF all, next
  <2>2. Html' \o d = all' /\ (sas' = "alive" => d = next')
    BY <1>1, <1>5, <2>1
  <2> QED
    BY <2>2 DEF HtmlFlow, all, next
<1> QED
  BY <1>3, <1>4, <1>5, FlowCases

LEMMA FlowInvariant == Spec => []FlowInv
<1>1. Init => FlowInv
  BY StreamInit, FlowInit DEF FlowInv
<1>2. FlowInv /\ [Next]_streamVars => FlowInv'
  BY StreamStep, LogFlowStep, HtmlFlowStep DEF FlowInv
<1> QED
  BY <1>1, <1>2, PTL DEF Spec

\* Whatever the programs, the pipes and the limits, nothing that the user's code logs and
\* no piece of its HTML is lost, repeated or reordered on the way to the results; if SAS
\* dies, what was printed is cut off and no more.
THEOREM StreamStreamsInOrder == Spec => []StreamsInOrder
<1>1. FlowInv => StreamsInOrder
  <2> SUFFICES ASSUME FlowInv PROVE StreamsInOrder
    OBVIOUS
  <2> USE DEF FlowInv, StreamInv
  <2>1. PICK d \in Seq(AnyItems) :
          UserLog \o d = AllPrinted("err") /\ (sas = "alive" => d = User(Coming("err")))
    BY DEF LogFlow
  <2>2. PICK e \in Seq(AnyItems) :
          Html \o e = AllPrinted("out") /\ (sas = "alive" => e = Coming("out"))
    BY DEF HtmlFlow
  <2>3. UserLog \in Seq(AnyItems) /\ Html \in Seq(AnyItems)
    BY StreamsAre
  <2>4. IsPrefix(UserLog, AllPrinted("err")) /\ IsPrefix(Html, AllPrinted("out"))
    BY <2>1, <2>2, <2>3, PrefixOfWhole
  <2> QED
    BY <2>1, <2>2, <2>4 DEF StreamsInOrder, UserLog, Html
<1> QED
  BY <1>1, FlowInvariant, PTL

-----------------------------------------------------------------------------
(***************************************************************************)
(* What the user's code of one execution logged, in a stream.              *)
(***************************************************************************)
Mine(items, n) == Where(User(items), "ex", {n})

LEMMA UserItems ==
  ASSUME NEW V, V \subseteq AnyItems, NEW s \in Seq(V)
  PROVE  /\ User(s) \in Seq(V) /\ User(s) \in Seq(AnyItems)
         /\ \A i \in DOMAIN User(s) : User(s)[i] \in V /\ User(s)[i].kind \in UserKinds
<1> DEFINE W == {x \in V : x.kind \in UserKinds}
           u == User(s)
<1>1. u \in Seq(W)
  BY UserSubset
<1>2. W \subseteq V /\ W \subseteq AnyItems
  OBVIOUS
<1> HIDE DEF u
<1>3. \A i \in DOMAIN u : u[i] \in W
  BY <1>1
<1>4. u \in Seq(V) /\ u \in Seq(AnyItems)
  <2> HIDE DEF W
  <2> QED
    BY <1>1, <1>2, SeqMonotonic
<1> QED
  BY <1>3, <1>4 DEF u

LEMMA UserTwice ==
  ASSUME NEW s \in Seq(AnyItems)
  PROVE  User(User(s)) = User(s)
<1> DEFINE u == User(s)
           K == UserKinds
<1>1. u \in Seq(AnyItems) /\ \A i \in DOMAIN u : u[i]["kind"] \in K
  BY UserItems
<1> HIDE DEF u, K
<1>2. Where(u, "kind", K) = u
  BY <1>1, WhereAll
<1> QED
  BY <1>2 DEF User, u, K

LEMMA MineConcat ==
  ASSUME NEW s \in Seq(AnyItems), NEW t \in Seq(AnyItems), NEW n
  PROVE  /\ Mine(s \o t, n) = Mine(s, n) \o Mine(t, n)
         /\ Mine(s, n) \in Seq(AnyItems) /\ Mine(t, n) \in Seq(AnyItems)
<1> DEFINE a == User(s)
           b == User(t)
           V == {n}
<1>1. User(s \o t) = a \o b /\ a \in Seq(AnyItems) /\ b \in Seq(AnyItems)
  BY UserConcat
<1> HIDE DEF a, b, V
<1>2. Where(a \o b, "ex", V) = Where(a, "ex", V) \o Where(b, "ex", V)
  <2>1. a \in Seq(AnyItems) /\ b \in Seq(AnyItems)
    BY <1>1
  <2> QED
    BY ONLY <2>1, WhereConcat, SMTT(40)
<1>3. Where(a, "ex", V) \in Seq(AnyItems) /\ Where(b, "ex", V) \in Seq(AnyItems)
  BY <1>1, WhereType
<1> QED
  BY <1>1, <1>2, <1>3 DEF Mine, a, b, V

LEMMA MineNone ==
  ASSUME NEW s \in Seq(AnyItems), NEW n,
         \A i \in DOMAIN s : s[i].kind \in UserKinds => s[i].ex # n
  PROVE  Mine(s, n) = <<>>
<1> DEFINE U == {x \in AnyItems : x.kind \in UserKinds => x.ex # n}
           u == User(s)
           V == {n}
<1>1. s \in Seq(U)
  <2>1. \A i \in DOMAIN s : s[i] \in U
    OBVIOUS
  <2> HIDE DEF U
  <2> QED
    BY <2>1, SeqWithin
<1>2. U \subseteq AnyItems
  OBVIOUS
<1> HIDE DEF U, u
<1>3. u \in Seq(AnyItems) /\ \A i \in DOMAIN u : u[i] \in U /\ u[i].kind \in UserKinds
  BY <1>1, <1>2, UserItems DEF u
<1>4. \A i \in DOMAIN u : u[i]["ex"] \notin V
  BY <1>3 DEF U
<1> HIDE DEF V
<1>5. Where(u, "ex", V) = <<>>
  BY <1>3, <1>4, WhereNone
<1> QED
  BY <1>5 DEF Mine, u, V

LEMMA MineAll ==
  ASSUME NEW s \in Seq(AnyItems), NEW n,
         \A i \in DOMAIN s : s[i].kind \in UserKinds => s[i].ex = n
  PROVE  Mine(s, n) = User(s)
<1> DEFINE U == {x \in AnyItems : x.kind \in UserKinds => x.ex = n}
           u == User(s)
           V == {n}
<1>1. s \in Seq(U)
  <2>1. \A i \in DOMAIN s : s[i] \in U
    OBVIOUS
  <2> HIDE DEF U
  <2> QED
    BY <2>1, SeqWithin
<1>2. U \subseteq AnyItems
  OBVIOUS
<1> HIDE DEF U, u
<1>3. u \in Seq(AnyItems) /\ \A i \in DOMAIN u : u[i] \in U /\ u[i].kind \in UserKinds
  BY <1>1, <1>2, UserItems DEF u
<1>4. \A i \in DOMAIN u : u[i]["ex"] \in V
  BY <1>3 DEF U
<1> HIDE DEF V
<1>5. Where(u, "ex", V) = u
  BY <1>3, <1>4, WhereAll
<1> QED
  BY <1>5 DEF Mine, u, V

LEMMA MineOfNothing ==
  ASSUME NEW n
  PROVE  Mine(<<>>, n) = <<>>
<1>1. User(<<>>) = <<>> /\ Where(<<>>, "ex", {n}) = <<>>
  BY WhereEmpty DEF User
<1> QED
  BY <1>1 DEF Mine

LEMMA MineFlattenNone ==
  ASSUME NEW ss \in Seq(Seq(AnyItems)), NEW n,
         \A i \in DOMAIN ss : Mine(ss[i], n) = <<>>
  PROVE  Mine(FlattenSeq(ss), n) = <<>>
<1> DEFINE T == {s \in Seq(AnyItems) : Mine(s, n) = <<>>}
           G == {uu \in Seq(T) : Mine(FlattenSeq(uu), n) = <<>>}
<1>1. ss \in Seq(T)
  <2>1. \A i \in DOMAIN ss : ss[i] \in T
    OBVIOUS
  <2> DEFINE W == Seq(AnyItems)
  <2>2. ss \in Seq(W)
    OBVIOUS
  <2> HIDE DEF T, W
  <2> QED
    BY ONLY <2>1, <2>2, SeqWithin
<1>2. <<>> \in G
  BY FlattenEmpty, MineOfNothing
<1>3. \A uu \in Seq(T), s \in T : uu \in G => Append(uu, s) \in G
  <2> SUFFICES ASSUME NEW uu \in Seq(T), NEW s \in T, Mine(FlattenSeq(uu), n) = <<>>
               PROVE  Append(uu, s) \in Seq(T) /\ Mine(FlattenSeq(Append(uu, s)), n) = <<>>
    OBVIOUS
  <2>1. Append(uu, s) \in Seq(T)
    BY AppendProperties
  <2>2. s \in Seq(AnyItems) /\ Mine(s, n) = <<>>
    OBVIOUS
  <2>3. T \subseteq Seq(AnyItems)
    OBVIOUS
  <2>4. uu \in Seq(Seq(AnyItems))
    <3> HIDE DEF T
    <3> QED
      BY <2>3, SeqMonotonic
  <2> DEFINE f == FlattenSeq(uu)
  <2>5. FlattenSeq(Append(uu, s)) = f \o s
    BY <2>2, <2>4, FlattenAppend
  <2>6. f \in Seq(AnyItems)
    BY <2>4, FlattenType
  <2> HIDE DEF f
  <2>7. Mine(f \o s, n) = Mine(f, n) \o Mine(s, n)
    BY <2>2, <2>6, MineConcat
  <2>8. Mine(f \o s, n) = <<>> \o <<>>
    BY <2>2, <2>7 DEF f
  <2> QED
    BY <2>1, <2>5, <2>8
<1> HIDE DEF G
<1>4. ss \in G
  BY <1>1, <1>2, <1>3, SeqInduction
<1> QED
  BY <1>4 DEF G

\* In a sequence of streams, all that execution n logged is in the n-th.
LEMMA MineFlatten ==
  ASSUME NEW ss \in Seq(Seq(AnyItems)), NEW n \in 1 .. Len(ss),
         \A m \in 1 .. Len(ss) : m # n => Mine(ss[m], n) = <<>>
  PROVE  Mine(FlattenSeq(ss), n) = Mine(ss[n], n)
<1> DEFINE k == n - 1
           a == SubSeq(ss, 1, k)
           bc == SubSeq(ss, k + 1, Len(ss))
           b == Head(bc)
           c == Tail(bc)
           fa == FlattenSeq(a)
           fc == FlattenSeq(c)
<1>1. k \in 0 .. Len(ss) /\ Len(ss) \in Nat /\ n = k + 1 /\ k + 1 <= Len(ss)
  OBVIOUS
<1>2. /\ a \in Seq(Seq(AnyItems)) /\ Len(a) = k /\ \A i \in 1 .. k : a[i] = ss[i]
      /\ bc \in Seq(Seq(AnyItems)) /\ Len(bc) = Len(ss) - k
      /\ \A i \in 1 .. Len(ss) - k : bc[i] = ss[k + i]
      /\ a \o bc = ss
  <2> HIDE DEF k
  <2> QED
    BY <1>1, SplitAt
<1> HIDE DEF k, a, bc
<1>3. /\ b \in Seq(AnyItems) /\ c \in Seq(Seq(AnyItems)) /\ bc = <<b>> \o c
      /\ <<b>> \in Seq(Seq(AnyItems))
  <2>1. bc # <<>>
    BY <1>1, <1>2
  <2> QED
    BY <1>2, <2>1, HeadFirst
<1>4. b = ss[n] /\ Len(c) = Len(ss) - n
      /\ \A i \in 1 .. Len(ss) - n : c[i] = ss[n + i]
  <2>1. bc # <<>> /\ Len(bc) = Len(ss) - k /\ Len(ss) - k \in Nat \ {0}
    BY <1>1, <1>2
  <2>2. b = bc[1] /\ Len(c) = Len(bc) - 1 /\ \A i \in 1 .. Len(bc) - 1 : c[i] = bc[i + 1]
    <3> DEFINE W == Seq(AnyItems)
    <3>1. bc \in Seq(W) /\ bc # <<>>
      BY <1>2, <2>1
    <3> HIDE DEF W
    <3> QED
      BY ONLY <3>1, HeadTailProperties DEF b, c
  <2>3. \A i \in 1 .. Len(ss) - n : c[i] = ss[n + i]
    <3> TAKE i \in 1 .. Len(ss) - n
    <3>1. i \in 1 .. Len(bc) - 1 /\ i + 1 \in 1 .. Len(ss) - k /\ k + (i + 1) = n + i
      BY <1>1, <2>1
    <3> QED
      BY <1>2, <2>2, <3>1
  <2>4. 1 \in 1 .. Len(ss) - k /\ k + 1 = n
    BY <1>1
  <2> QED
    BY <1>1, <1>2, <2>1, <2>2, <2>3, <2>4, SMTT(40)
<1> HIDE DEF b, c
<1>5. Mine(fa, n) = <<>>
  <2>1. \A i \in DOMAIN a : Mine(a[i], n) = <<>>
    <3> TAKE i \in DOMAIN a
    <3>1. i \in 1 .. k /\ i \in 1 .. Len(ss) /\ i # n
      <4>1. DOMAIN a = 1 .. k
        BY <1>2
      <4> QED
        BY <1>1, <4>1
    <3> QED
      BY <1>2, <3>1
  <2> QED
    BY <1>2, <2>1, MineFlattenNone
<1>6. Mine(fc, n) = <<>>
  <2>1. \A i \in DOMAIN c : Mine(c[i], n) = <<>>
    <3> TAKE i \in DOMAIN c
    <3>1. i \in 1 .. Len(ss) - n /\ n + i \in 1 .. Len(ss) /\ n + i # n
      <4>1. DOMAIN c = 1 .. Len(ss) - n
        BY <1>3, <1>4
      <4> QED
        BY <1>1, <4>1
    <3> QED
      BY <1>4, <3>1
  <2> QED
    BY <1>3, <2>1, MineFlattenNone
<1>7. fa \in Seq(AnyItems) /\ fc \in Seq(AnyItems)
  BY <1>2, <1>3, FlattenType
<1>8. FlattenSeq(ss) = fa \o (b \o fc)
  <2> DEFINE one == <<b>>
             f == FlattenSeq(bc)
  <2>1. FlattenSeq(a \o bc) = fa \o f
    BY <1>2, FlattenConcat
  <2>2. FlattenSeq(one) = b
    BY <1>3, FlattenOne
  <2>3. one \in Seq(Seq(AnyItems)) /\ bc = one \o c
    BY <1>3
  <2> HIDE DEF one
  <2>4. FlattenSeq(one \o c) = FlattenSeq(one) \o fc
    BY <1>3, <2>3, FlattenConcat
  <2> QED
    BY <1>2, <2>1, <2>2, <2>3, <2>4
<1> HIDE DEF fa, fc
<1> DEFINE d == b \o fc
           x == Mine(b, n)
<1>9. d \in Seq(AnyItems) /\ Mine(d, n) = x \o Mine(fc, n) /\ x \in Seq(AnyItems)
  BY <1>3, <1>7, MineConcat, ConcatProperties
<1> HIDE DEF d
<1>10. Mine(fa \o d, n) = Mine(fa, n) \o Mine(d, n) /\ Mine(d, n) \in Seq(AnyItems)
  BY <1>7, <1>9, MineConcat
<1> HIDE DEF x
<1>11. x \o <<>> = x /\ <<>> \o x = x
  BY <1>9, ConcatEmptySeq
<1>12. Mine(fa \o d, n) = x
  BY <1>5, <1>6, <1>9, <1>10, <1>11
<1> QED
  BY <1>4, <1>8, <1>12 DEF d, x

\* Errors are the user's.
LEMMA HasError ==
  \A s \in Seq(AnyItems) : Has(s, "error") <=> Has(User(s), "error")
<1> DEFINE K == UserKinds
           G == {s \in Seq(AnyItems) : Has(s, "error") <=> Has(Where(s, "kind", K), "error")}
<1>1. <<>> \in G
  BY WhereEmpty
<1>2. \A s \in Seq(AnyItems), e \in AnyItems : s \in G => Append(s, e) \in G
  <2> SUFFICES ASSUME NEW s \in Seq(AnyItems), NEW e \in AnyItems,
                      Has(s, "error") <=> Has(Where(s, "kind", K), "error")
               PROVE  /\ Append(s, e) \in Seq(AnyItems)
                      /\ Has(Append(s, e), "error") <=> Has(Where(Append(s, e), "kind", K), "error")
    OBVIOUS
  <2> DEFINE u == Where(s, "kind", K)
             one == IF e["kind"] \in K THEN <<e>> ELSE <<>>
             t == Append(s, e)
  <2>1. u \in Seq(AnyItems)
    BY WhereType
  <2>2. Where(t, "kind", K) = u \o one
    <3> HIDE DEF K
    <3> QED
      BY WhereAppend
  <2>3. /\ t \in Seq(AnyItems) /\ Len(t) = Len(s) + 1 /\ t[Len(s) + 1] = e
        /\ \A i \in 1 .. Len(s) : t[i] = s[i]
    BY AppendProperties
  <2>4. Has(t, "error") <=> Has(s, "error") \/ e.kind = "error"
    <3>1. Len(s) \in Nat /\ DOMAIN s = 1 .. Len(s) /\ DOMAIN t = 1 .. Len(s) + 1
      BY <2>3
    <3> HIDE DEF t
    <3>2. Has(s, "error") => Has(t, "error")
      BY <2>3, <3>1 DEF Has
    <3>3. e.kind = "error" => Has(t, "error")
      <4>1. Len(s) + 1 \in DOMAIN t
        BY <3>1
      <4> QED
        BY <2>3, <4>1 DEF Has
    <3>4. ASSUME NEW i \in DOMAIN t, t[i].kind = "error"
          PROVE  Has(s, "error") \/ e.kind = "error"
      <4>1. i = Len(s) + 1 \/ i \in 1 .. Len(s)
        BY <3>1
      <4> QED
        BY <2>3, <3>1, <3>4, <4>1 DEF Has
    <3> QED
      BY <3>2, <3>3, <3>4 DEF Has
  <2> HIDE DEF u
  <2>5. CASE e["kind"] \in K
    <3>1. one = <<e>>
      BY <2>5
    <3>2. u \o <<e>> = Append(u, e)
      BY <2>1, AppendIsConcat
    <3> DEFINE v == Append(u, e)
    <3>3. /\ v \in Seq(AnyItems) /\ Len(v) = Len(u) + 1 /\ v[Len(u) + 1] = e
          /\ \A i \in 1 .. Len(u) : v[i] = u[i]
      BY <2>1, AppendProperties
    <3>4. Len(u) \in Nat /\ DOMAIN u = 1 .. Len(u) /\ DOMAIN v = 1 .. Len(u) + 1
      BY <2>1, <3>3
    <3> HIDE DEF v
    <3>5. Has(u, "error") => Has(v, "error")
      BY <3>3, <3>4 DEF Has
    <3>6. e.kind = "error" => Has(v, "error")
      <4>1. Len(u) + 1 \in DOMAIN v
        BY <3>4
      <4> QED
        BY <3>3, <4>1 DEF Has
    <3>7. ASSUME NEW i \in DOMAIN v, v[i].kind = "error"
          PROVE  Has(u, "error") \/ e.kind = "error"
      <4>1. i = Len(u) + 1 \/ i \in 1 .. Len(u)
        BY <3>4
      <4> QED
        BY <3>3, <3>4, <3>7, <4>1 DEF Has
    <3>8. Has(v, "error") <=> Has(u, "error") \/ e.kind = "error"
      BY <3>5, <3>6, <3>7 DEF Has
    <3> QED
      BY <2>2, <2>3, <2>4, <3>1, <3>2, <3>8 DEF u, v
  <2>6. CASE e["kind"] \notin K
    <3>1. u \o one = u
      BY <2>1, <2>6, ConcatEmptySeq
    <3>2. e.kind # "error"
      BY <2>6 DEF UserKinds
    <3> QED
      <4>1. Where(t, "kind", K) = Where(s, "kind", K)
        BY <2>2, <3>1 DEF u
      <4> HIDE DEF t, K
      <4> QED
        BY <2>3, <2>4, <3>2, <4>1 DEF t
  <2> QED
    BY <2>5, <2>6
<1> HIDE DEF G
<1>3. \A s \in Seq(AnyItems) : s \in G
  BY <1>1, <1>2, SeqInduction
<1> QED
  BY <1>3 DEF G, User

-----------------------------------------------------------------------------
(***************************************************************************)
(* Which execution a line in a log belongs to.                             *)
(***************************************************************************)
LogUpTo(items, n) == \A i \in DOMAIN items : items[i].ex <= n
LogAfter(items, n) == \A i \in DOMAIN items : items[i].kind \in UserKinds => n < items[i].ex

MarkerRead(n) ==
  \/ found_marker /\ n = exec_counter
  \/ n \in DOMAIN results /\ results[n].found

\* A log holds nothing of a later execution; after a marker was read, or in the pipe
\* behind it, there is nothing more of its execution or of one before.
Owned ==
  /\ LogUpTo(log_output, exec_counter)
  /\ \A m \in DOMAIN results : LogUpTo(results[m].log, m)
  /\ \A n \in 1 .. exec_counter : MarkerRead(n) => LogAfter(stderr, n)
  /\ \A i, j \in DOMAIN stderr :
       i < j /\ stderr[i].kind \in MarkerKinds /\ stderr[j].kind \in UserKinds =>
         stderr[i].ex < stderr[j].ex
  /\ at # "idle" =>
       \A n \in DOMAIN results : results[n].found => LogAfter(log_output, n)
  /\ \A n, m \in DOMAIN results : n < m /\ results[n].found => LogAfter(results[m].log, n)
  /\ \A m \in DOMAIN results : results[m].is_error = Has(results[m].log, "error")

LEMMA ChunkIndex ==
  ASSUME NEW pipe \in Seq(Items)
  PROVE  \E k \in 0 .. Len(pipe) :
           /\ DOMAIN pipe = 1 .. Len(pipe) /\ Len(pipe) \in Nat
           /\ DOMAIN Chunk(pipe) = 1 .. k /\ \A i \in 1 .. k : Chunk(pipe)[i] = pipe[i]
           /\ DOMAIN Rest(pipe) = 1 .. Len(pipe) - k
           /\ \A i \in 1 .. Len(pipe) - k : Rest(pipe)[i] = pipe[k + i]
<1> DEFINE k == IF Len(pipe) < ReadSize THEN Len(pipe) ELSE ReadSize
<1>1. k \in 0 .. Len(pipe) /\ Len(pipe) \in Nat /\ DOMAIN pipe = 1 .. Len(pipe)
  BY Bounds
<1>2. Chunk(pipe) = SubSeq(pipe, 1, k)
  BY DEF Chunk
<1> HIDE DEF k
<1> DEFINE a == SubSeq(pipe, 1, k)
           b == SubSeq(pipe, k + 1, Len(pipe))
<1>3. /\ a \in Seq(Items) /\ Len(a) = k /\ (\A i \in 1 .. k : a[i] = pipe[i])
      /\ b \in Seq(Items) /\ Len(b) = Len(pipe) - k
      /\ \A i \in 1 .. Len(pipe) - k : b[i] = pipe[k + i]
  BY <1>1, SplitAt
<1>4. Rest(pipe) = b
  BY <1>2, <1>3 DEF Rest
<1> HIDE DEF a, b
<1>5. DOMAIN a = 1 .. k /\ DOMAIN b = 1 .. Len(pipe) - k
  BY <1>3
<1>6. Chunk(pipe) = a
  BY <1>2 DEF a
<1> QED
  BY <1>1, <1>3, <1>4, <1>5, <1>6

LEMMA InConcat ==
  ASSUME NEW T, NEW s \in Seq(T), NEW t \in Seq(T), NEW i \in DOMAIN (s \o t)
  PROVE  (\E j \in DOMAIN s : (s \o t)[i] = s[j]) \/ (\E j \in DOMAIN t : (s \o t)[i] = t[j])
<1> DEFINE c == s \o t
<1>1. /\ c \in Seq(T) /\ Len(c) = Len(s) + Len(t)
      /\ \A k \in 1 .. Len(s) + Len(t) : c[k] = IF k <= Len(s) THEN s[k] ELSE t[k - Len(s)]
  BY ConcatProperties
<1> HIDE DEF c
<1>2. /\ DOMAIN s = 1 .. Len(s) /\ DOMAIN t = 1 .. Len(t) /\ Len(s) \in Nat /\ Len(t) \in Nat
      /\ DOMAIN c = 1 .. Len(s) + Len(t)
  BY <1>1
<1>3. i \in 1 .. Len(s) + Len(t)
  BY <1>2 DEF c
<1>4. CASE i <= Len(s)
  BY <1>1, <1>2, <1>3, <1>4 DEF c
<1>5. CASE ~(i <= Len(s))
  <2>1. i - Len(s) \in DOMAIN t /\ c[i] = t[i - Len(s)]
    BY <1>1, <1>2, <1>3, <1>5
  <2> QED
    BY <2>1 DEF c
<1> QED
  BY <1>4, <1>5

LEMMA OwnedReadStderr ==
  ASSUME StreamInv, Owned, ReadStderr
  PROVE  Owned'
<1> USE DEF StreamInv
<1>1. /\ UNCHANGED <<results, submitted>> /\ exec_counter' = exec_counter /\ at = "err"
      /\ stderr \in Seq(Items) /\ log_output \in Seq(Items) /\ Len(results) = exec_counter - 1
      /\ results \in Seq(Results) /\ exec_counter \in Nat \ {0}
      /\ \A i \in DOMAIN stderr : stderr[i].ex <= exec_counter
  BY DEF ReadStderr, exec_counter, Typed, KernelTyped, SasTyped, Placed, Sorted
<1>2. DOMAIN results = 1 .. exec_counter - 1
  BY <1>1
<1>3. CASE "err" \notin revents
  BY <1>1, <1>3 DEF ReadStderr, Owned, MarkerRead
<1>4. CASE "err" \in revents
  <2> DEFINE chunk == Chunk(stderr)
             rest == Rest(stderr)
             kept == Strip(chunk)
  <2>1. /\ log_output' = log_output \o kept /\ stderr' = rest
        /\ found_marker' = (found_marker \/ Markers(chunk) # {})
    BY <1>4 DEF ReadStderr
  <2>2. PICK k \in 0 .. Len(stderr) :
          /\ DOMAIN stderr = 1 .. Len(stderr) /\ Len(stderr) \in Nat
          /\ DOMAIN chunk = 1 .. k /\ \A i \in 1 .. k : chunk[i] = stderr[i]
          /\ DOMAIN rest = 1 .. Len(stderr) - k
          /\ \A i \in 1 .. Len(stderr) - k : rest[i] = stderr[k + i]
    BY <1>1, ChunkIndex
  <2>3. chunk \in Seq(Items) /\ kept \in Seq(Items)
        /\ \A i \in DOMAIN kept : \E j \in DOMAIN chunk : kept[i] = chunk[j]
    BY <1>1, ChunkAndRest, UserStrip, StripType
  <2>4. ASSUME NEW i \in Markers(chunk)
        PROVE  i \in 1 .. k /\ stderr[i].ex = exec_counter /\ stderr[i].kind \in MarkerKinds
    BY <2>2 DEF Markers, MarkerAt, IsCurrent, MarkerKinds
  <2> HIDE DEF chunk, rest, kept
  <2>5. ASSUME NEW i \in DOMAIN kept PROVE \E j \in DOMAIN stderr : kept[i] = stderr[j]
    <3>1. PICK j \in DOMAIN chunk : kept[i] = chunk[j]
      BY <2>3
    <3>2. j \in 1 .. k /\ j \in 1 .. Len(stderr)
      BY <2>2
    <3> QED
      BY <2>2, <3>1, <3>2
  <2>6. ASSUME NEW i \in DOMAIN log_output'
        PROVE  \/ \E j \in DOMAIN log_output : log_output'[i] = log_output[j]
               \/ \E j \in DOMAIN stderr : log_output'[i] = stderr[j]
    <3>1. \/ \E j \in DOMAIN log_output : (log_output \o kept)[i] = log_output[j]
          \/ \E j \in DOMAIN kept : (log_output \o kept)[i] = kept[j]
      <4>1. log_output \in Seq(Items) /\ kept \in Seq(Items) /\ i \in DOMAIN (log_output \o kept)
        BY <1>1, <2>1, <2>3, <2>6
      <4> QED
        BY ONLY <4>1, InConcat, SMTT(40)
    <3> QED
      BY <2>1, <2>5, <3>1
  <2>7. LogUpTo(log_output, exec_counter)'
    BY <1>1, <2>6 DEF LogUpTo, Owned
  <2>8. ASSUME NEW n \in DOMAIN results, results[n].found
        PROVE  LogAfter(log_output, n)'
    <3>1. LogAfter(stderr, n) /\ LogAfter(log_output, n)
      <4>1. n \in 1 .. exec_counter /\ MarkerRead(n)
        BY <1>1, <1>2, <2>8 DEF MarkerRead
      <4> QED
        BY <1>1, <2>8, <4>1 DEF Owned
    <3> QED
      BY <2>6, <3>1 DEF LogAfter
  <2>9. ASSUME NEW n \in 1 .. exec_counter, MarkerRead(n)'
        PROVE  LogAfter(stderr, n)'
    <3> SUFFICES ASSUME NEW j \in DOMAIN rest, rest[j].kind \in UserKinds
                 PROVE  n < rest[j].ex
      BY <2>1 DEF LogAfter
    <3>1. k + j \in DOMAIN stderr /\ rest[j] = stderr[k + j] /\ j \in Nat \ {0}
      BY <2>2
    <3>2. CASE MarkerRead(n)
      BY <3>1, <3>2 DEF Owned, LogAfter
    <3>3. CASE ~MarkerRead(n)
      <4>1. n = exec_counter /\ Markers(chunk) # {}
        BY <1>1, <2>1, <2>9, <3>3 DEF MarkerRead
      <4>2. PICK i \in Markers(chunk) : TRUE
        BY <4>1
      <4>3. i \in DOMAIN stderr /\ i < k + j /\ stderr[i].ex = n /\ stderr[i].kind \in MarkerKinds
        BY <2>2, <2>4, <3>1, <4>1
      <4> QED
        BY <3>1, <4>3 DEF Owned
    <3> QED
      BY <3>2, <3>3
  <2>10. ASSUME NEW i \in DOMAIN rest, NEW j \in DOMAIN rest, i < j,
                rest[i].kind \in MarkerKinds, rest[j].kind \in UserKinds
         PROVE  rest[i].ex < rest[j].ex
    <3>1. k + i \in DOMAIN stderr /\ k + j \in DOMAIN stderr /\ k + i < k + j
          /\ rest[i] = stderr[k + i] /\ rest[j] = stderr[k + j]
      BY <2>2, <2>10
    <3> QED
      BY <2>10, <3>1 DEF Owned
  <2> QED
    BY <1>1, <2>1, <2>7, <2>8, <2>9, <2>10 DEF Owned
<1> QED
  BY <1>3, <1>4

LEMMA OwnedReturn ==
  ASSUME StreamInv, Owned, Return
  PROVE  Owned'
<1> USE DEF StreamInv
<1>1. /\ UNCHANGED <<submitted, stderr, found_marker, log_output>>
      /\ exec_counter' = exec_counter /\ at = "return" /\ at' = "idle"
  BY DEF Return, exec_counter
<1>2. Len(results) = exec_counter - 1 /\ exec_counter \in Nat \ {0} /\ results \in Seq(Results)
  BY DEF Return, Placed, Typed, KernelTyped, exec_counter
<1>3. /\ DOMAIN results = 1 .. exec_counter - 1 /\ DOMAIN results' = 1 .. exec_counter
      /\ \A n \in 1 .. exec_counter - 1 : results'[n] = results[n]
      /\ results'[exec_counter].found = found_marker
      /\ results'[exec_counter].log = log_output
      /\ results'[exec_counter].is_error = Has(log_output, "error")
  BY <1>2 DEF Return
<1>4. \A n \in 1 .. exec_counter : n = exec_counter \/ n \in 1 .. exec_counter - 1
  BY <1>2
<1>5. \A n : MarkerRead(n)' => MarkerRead(n)
  BY <1>1, <1>3, <1>4 DEF MarkerRead
<1>6. \A m \in DOMAIN results' : LogUpTo(results'[m].log, m)
  BY <1>3, <1>4 DEF Owned
<1>7. \A m \in DOMAIN results' : results'[m].is_error = Has(results'[m].log, "error")
  BY <1>3, <1>4 DEF Owned
<1>8. ASSUME NEW n \in DOMAIN results', NEW m \in DOMAIN results', n < m, results'[n].found
      PROVE  LogAfter(results'[m].log, n)
  <2>1. n \in 1 .. exec_counter - 1
    BY <1>2, <1>3, <1>8
  <2>2. CASE m = exec_counter
    BY <1>1, <1>3, <1>8, <2>1, <2>2 DEF Owned
  <2>3. CASE m \in 1 .. exec_counter - 1
    BY <1>3, <1>8, <2>1, <2>3 DEF Owned
  <2> QED
    BY <1>3, <1>4, <2>2, <2>3
<1> QED
  BY <1>1, <1>5, <1>6, <1>7, <1>8 DEF Owned, LogUpTo, LogAfter

LEMMA OwnedSasWrites ==
  ASSUME StreamInv, Owned, SasWrites
  PROVE  Owned'
<1> USE DEF StreamInv
<1> DEFINE w == Head(todo)
<1>1. /\ UNCHANGED <<submitted, results, found_marker, log_output, at>>
      /\ exec_counter' = exec_counter /\ todo \in Seq(Works) /\ todo # <<>>
      /\ stderr \in Seq(Items)
      /\ \A i \in DOMAIN stderr : stderr[i].ex <= exec_counter
  BY DEF SasWrites, kernelVars, exec_counter, Typed, SasTyped, Sorted
<1>2. 1 \in DOMAIN todo /\ todo[1] = w /\ w \in Works
  BY <1>1, HeadTailProperties
<1>3. stderr' = stderr \/ (stderr' = Append(stderr, Item(w)) /\ w.to = "err")
  <2>1. CASE w.to = "out"
    BY <2>1 DEF SasWrites
  <2>2. CASE w.to = "err"
    BY <2>2 DEF SasWrites
  <2>3. CASE w.to = "lst"
    BY <2>3 DEF SasWrites
  <2> QED
    BY <1>2, <2>1, <2>2, <2>3, ItemType
<1>4. ASSUME NEW n \in 1 .. exec_counter, MarkerSeen(n), w.kind \in UserKinds
      PROVE  n < w.ex
  <2>1. w.kind \notin MarkerKinds
    BY <1>4 DEF UserKinds, MarkerKinds
  <2> QED
    BY <1>2, <1>4, <2>1 DEF Ordered, DoneUpTo
<1> HIDE DEF w
<1>5. CASE stderr' = stderr
  BY <1>1, <1>5 DEF Owned, MarkerRead
<1>6. CASE stderr' = Append(stderr, Item(w)) /\ w.to = "err"
  <2> DEFINE k == Len(stderr)
  <2>1. Item(w) \in Items /\ Item(w).ex = w.ex /\ Item(w).kind = w.kind
    BY <1>2, <1>6, ItemType DEF Item
  <2>2. /\ DOMAIN stderr' = 1 .. k + 1 /\ DOMAIN stderr = 1 .. k /\ k \in Nat
        /\ stderr'[k + 1].ex = w.ex /\ stderr'[k + 1].kind = w.kind
        /\ \A i \in 1 .. k : stderr'[i] = stderr[i]
    <3>1. /\ stderr' \in Seq(Items) /\ Len(stderr') = k + 1 /\ stderr'[k + 1] = Item(w)
          /\ \A i \in 1 .. k : stderr'[i] = stderr[i]
      BY <1>1, <1>6, <2>1, AppendProperties
    <3> QED
      BY <1>1, <2>1, <3>1
  <2> HIDE DEF k
  <2>3. \A i \in 1 .. k + 1 : i = k + 1 \/ i \in 1 .. k
    BY <2>2
  <2>4. ASSUME NEW n \in 1 .. exec_counter, MarkerRead(n) PROVE LogAfter(stderr', n)
    <3>1. LogAfter(stderr, n) /\ MarkerSeen(n)
      BY <2>4 DEF Owned, MarkerRead, MarkerSeen
    <3>2. w.kind \in UserKinds => n < w.ex
      BY <1>4, <3>1
    <3> QED
      BY <2>2, <2>3, <3>1, <3>2 DEF LogAfter
  <2>5. ASSUME NEW i \in DOMAIN stderr', NEW j \in DOMAIN stderr', i < j,
               stderr'[i].kind \in MarkerKinds, stderr'[j].kind \in UserKinds
        PROVE  stderr'[i].ex < stderr'[j].ex
    <3>1. i \in 1 .. k
      BY <2>2, <2>5
    <3>2. CASE j \in 1 .. k
      BY <2>2, <2>5, <3>1, <3>2 DEF Owned
    <3>3. CASE j = k + 1
      <4>1. stderr[i].kind \in MarkerKinds /\ stderr[i] = stderr'[i] /\ stderr[i] \in Items
        BY <1>1, <2>2, <2>5, <3>1
      <4>2. stderr[i].ex \in 1 .. exec_counter
        <5>1. \A x \in Items : x.ex \in Nat \ {0}
          BY Bounds DEF Items
        <5>2. stderr[i].ex <= exec_counter /\ exec_counter \in Nat
          BY <1>1, <2>2, <3>1 DEF exec_counter, Typed, KernelTyped
        <5> QED
          BY <4>1, <5>1, <5>2
      <4>3. MarkerSeen(stderr[i].ex)
        BY <2>2, <3>1, <4>1 DEF MarkerSeen
      <4> QED
        BY <1>4, <2>2, <2>5, <3>3, <4>1, <4>2, <4>3
    <3> QED
      BY <2>2, <2>3, <3>2, <3>3
  <2> QED
    BY <1>1, <2>4, <2>5 DEF Owned, MarkerRead
<1> QED
  BY <1>3, <1>5, <1>6

LEMMA OwnedStep ==
  ASSUME StreamInv, Owned, [Next]_streamVars
  PROVE  Owned'
<1>1. CASE \E prog \in Programs, echo \in Echoes : Execute(prog, echo)
  <2>1. /\ UNCHANGED <<results, stderr>> /\ log_output' = <<>> /\ found_marker' = FALSE
        /\ exec_counter' = exec_counter + 1 /\ exec_counter \in Nat
        /\ Len(results) = exec_counter
    BY <1>1 DEF Execute, sasVars, exec_counter, StreamInv, Typed, KernelTyped, Placed
  <2>2. DOMAIN results = 1 .. exec_counter
    BY <2>1 DEF StreamInv, Typed, KernelTyped
  <2>3. \A n \in 1 .. exec_counter' : MarkerRead(n)' => n \in 1 .. exec_counter /\ MarkerRead(n)
    BY <2>1, <2>2 DEF MarkerRead
  <2>4. LogUpTo(log_output', exec_counter') /\ \A n : LogAfter(log_output', n)
    BY <2>1 DEF LogUpTo, LogAfter
  <2> QED
    BY <2>1, <2>3, <2>4 DEF Owned
<1>2. CASE /\ UNCHANGED <<submitted, results, log_output, stderr, found_marker>>
           /\ (at' = "idle") <=> (at = "idle")
  BY <1>2 DEF Owned, MarkerRead, exec_counter
<1>3. \/ \E prog \in Programs, echo \in Echoes : Execute(prog, echo)
      \/ ReadStderr \/ Return \/ SasWrites
      \/ /\ UNCHANGED <<submitted, results, log_output, stderr, found_marker>>
         /\ (at' = "idle") <=> (at = "idle")
  BY DEF Next, KernelStep, streamVars, kernelVars, sasVars, Send, PollFinds, PollTimesOut,
         PollHangsUp, PollInterrupted, ReadStdout, SasReads, SasDies
<1> QED
  BY <1>1, <1>2, <1>3, OwnedReadStderr, OwnedReturn, OwnedSasWrites

LEMMA CleanLog ==
  ASSUME FlowInv, Owned, NEW n \in 1 .. Len(results), Clean(n)
  PROVE  User(results[n].log) = Prints(n, submitted[n], "err")
<1> USE DEF FlowInv, StreamInv
<1> DEFINE logs == Returned(results, "log")
           flat == FlattenSeq(logs)
           open == Len(results) < Len(submitted)
           current == IF open THEN log_output ELSE <<>>
           read == flat \o current
           raw == read \o stderr
           mine == User(results[n].log)
           printed == Printed(submitted, "err")
           prog == submitted[n]
<1>1. /\ results \in Seq(Results) /\ log_output \in Seq(Items) /\ stderr \in Seq(Items)
      /\ submitted \in Seq(Programs) /\ Len(submitted) <= MaxExecs
      /\ Len(results) \in Nat /\ DOMAIN results = 1 .. Len(results)
      /\ n \in DOMAIN results /\ results[n].found
  BY DEF Typed, KernelTyped, SasTyped, Clean
<1>2. /\ exec_counter \in Nat /\ n \in 1 .. exec_counter /\ Len(submitted) = exec_counter
      /\ Len(results) <= exec_counter
      /\ at = "idle" => Len(results) = exec_counter
      /\ n \in 1 .. MaxExecs /\ prog \in Programs
  BY <1>1, Bounds DEF Placed, exec_counter
<1>3. MarkerSeen(n) /\ MarkerRead(n)
  BY <1>1 DEF MarkerSeen, MarkerRead
<1>4. PICK d \in Seq(AnyItems) :
        UserLog \o d = AllPrinted("err") /\ \A i \in DOMAIN d : n < d[i].ex
  BY <1>2, <1>3 DEF LogFlow
<1>5. /\ logs \in Seq(Seq(AnyItems)) /\ Len(logs) = Len(results)
      /\ \A m \in 1 .. Len(results) : logs[m] = results[m].log
      /\ \A m \in 1 .. Len(results) : results[m].log \in Seq(AnyItems)
  <2> DEFINE A == Seq(Items)
             B == Seq(AnyItems)
  <2>1. A \subseteq B
    BY SeqMonotonic DEF AnyItems
  <2>2. logs \in Seq(A) /\ Len(logs) = Len(results)
        /\ \A m \in 1 .. Len(results) : logs[m] = results[m]["log"]
    BY <1>1, ReturnedType
  <2>3. \A m \in 1 .. Len(logs) : logs[m] \in A
    BY <2>2
  <2> HIDE DEF A, B, logs
  <2>4. logs \in Seq(B)
    BY <2>1, <2>2, SeqMonotonic
  <2> QED
    BY <2>1, <2>2, <2>3, <2>4 DEF B
<1>6. /\ current \in Seq(AnyItems) /\ stderr \in Seq(AnyItems)
      /\ flat \in Seq(AnyItems)
  <2>1. log_output \in Seq(AnyItems) /\ stderr \in Seq(AnyItems)
    BY <1>1, SeqMonotonic DEF AnyItems
  <2>2. flat \in Seq(AnyItems)
    BY <1>5, FlattenType
  <2> QED
    BY <2>1, <2>2
<1>7. UserLog = User(raw)
  BY DEF UserLog, ReadSoFar, Returned
\* Whose lines are where.
<1>8. Mine(current, n) = <<>>
  <2>1. \A i \in DOMAIN current : current[i].kind \in UserKinds => current[i].ex # n
    <3>1. CASE open
      <4>1. LogAfter(log_output, n)
        <5> DEFINE k == Len(results)
                   e == exec_counter
        <5>1. k \in Nat /\ e \in Nat /\ k < e /\ n \in 1 .. k /\ (at = "idle" => k = e)
          BY <1>1, <1>2, <3>1
        <5> HIDE DEF k, e
        <5>2. at # "idle" /\ n \in 1 .. e - 1
          BY <5>1
        <5> QED
          BY <1>1, <5>2 DEF Owned, e
      <4>2. \A i \in DOMAIN log_output : log_output[i].kind \in UserKinds => n < log_output[i].ex
        BY <4>1 DEF LogAfter
      <4>3. current = log_output
        BY <3>1
      <4> QED
        BY <1>2, <4>2, <4>3
    <3>2. CASE ~open
      BY <3>2
    <3> QED
      BY <3>1, <3>2
  <2> HIDE DEF current
  <2> QED
    BY <1>6, <2>1, MineNone
<1>9. Mine(stderr, n) = <<>>
  <2>1. \A i \in DOMAIN stderr : stderr[i].kind \in UserKinds => n < stderr[i].ex
    BY <1>2, <1>3 DEF Owned, LogAfter
  <2>2. \A i \in DOMAIN stderr : stderr[i].kind \in UserKinds => stderr[i].ex # n
    BY <1>2, <2>1
  <2> QED
    BY <1>6, <2>2, MineNone
<1>10. Mine(d, n) = <<>>
  <2>1. \A i \in DOMAIN d : d[i].kind \in UserKinds => d[i].ex # n
    BY <1>2, <1>4
  <2> QED
    BY <2>1, MineNone
<1>11. \A m \in 1 .. Len(logs) : m # n => Mine(logs[m], n) = <<>>
  <2> TAKE m \in 1 .. Len(logs)
  <2> HAVE m # n
  <2>1. logs[m] = results[m].log /\ results[m].log \in Seq(AnyItems) /\ m \in DOMAIN results
    BY <1>1, <1>5
  <2> DEFINE s == results[m].log
  <2>2. CASE m < n
    <3>1. \A i \in DOMAIN s : s[i].ex <= m
      BY <2>1 DEF Owned, LogUpTo
    <3>2. \A i \in DOMAIN s : s[i].ex \in Nat
      <4>1. \A i \in DOMAIN s : s[i] \in AnyItems
        BY <2>1
      <4>2. \A x \in AnyItems : x.ex \in Nat
        BY Bounds DEF AnyItems, Items, ListingItems
      <4> QED
        BY <4>1, <4>2
    <3>3. \A i \in DOMAIN s : s[i].kind \in UserKinds => s[i].ex # n
      BY <2>2, <3>1, <3>2
    <3> HIDE DEF s
    <3>4. Mine(s, n) = <<>>
      BY <2>1, <3>3, MineNone DEF s
    <3> QED
      BY <2>1, <3>4 DEF s
  <2>3. CASE n < m
    <3>1. \A i \in DOMAIN s : s[i].kind \in UserKinds => n < s[i].ex
      BY <1>1, <2>1, <2>3 DEF Owned, LogAfter
    <3>2. \A i \in DOMAIN s : s[i].kind \in UserKinds => s[i].ex # n
      BY <3>1
    <3> HIDE DEF s
    <3>3. Mine(s, n) = <<>>
      BY <2>1, <3>2, MineNone DEF s
    <3> QED
      BY <2>1, <3>3 DEF s
  <2> QED
    BY <1>1, <1>2, <2>1, <2>2, <2>3
<1>12. Mine(logs[n], n) = mine
  <2> DEFINE s == results[n].log
  <2>1. logs[n] = s /\ s \in Seq(AnyItems) /\ \A i \in DOMAIN s : s[i].ex <= n
    BY <1>1, <1>5 DEF Owned, LogUpTo
  <2>2. \A i \in DOMAIN s : s[i].ex \in Nat \ {0}
    <3>1. \A i \in DOMAIN s : s[i] \in AnyItems
      BY <2>1
    <3>2. \A x \in AnyItems : x.ex \in Nat \ {0}
      BY Bounds DEF AnyItems, Items, ListingItems
    <3> QED
      BY <3>1, <3>2
  <2>3. \A i \in DOMAIN s : s[i].kind \in UserKinds => s[i].ex = n
    <3>1. CASE n = 1
      BY <2>1, <2>2, <3>1
    <3>2. CASE n # 1
      <4>1. n - 1 \in DOMAIN results /\ results[n - 1].found /\ n - 1 < n
        <5>1. n - 1 \in 1 .. n /\ n - 1 < n /\ n - 1 \in 1 .. Len(results)
          <6> DEFINE k == Len(results)
          <6>1. k \in Nat /\ n \in 1 .. k /\ n # 1
            BY <1>1, <3>2
          <6> HIDE DEF k
          <6>2. n - 1 \in 1 .. n /\ n - 1 < n /\ n - 1 \in 1 .. k
            BY <6>1
          <6> QED
            BY <6>2 DEF k
        <5>2. \A m \in 1 .. n : results[m].found
          BY DEF Clean
        <5> QED
          BY <1>1, <5>1, <5>2
      <4>2. \A i \in DOMAIN s : s[i].kind \in UserKinds => n - 1 < s[i].ex
        BY <1>1, <4>1 DEF Owned, LogAfter
      <4> QED
        BY <1>2, <2>1, <2>2, <4>2
    <3> QED
      BY <3>1, <3>2
  <2> HIDE DEF s
  <2>4. Mine(s, n) = User(s)
    BY <2>1, <2>3, MineAll
  <2> QED
    BY <2>1, <2>4 DEF s
<1>13. mine \in Seq(AnyItems)
  <2> DEFINE s == results[n].log
  <2>1. s \in Seq(AnyItems)
    BY <1>5
  <2> HIDE DEF s
  <2>2. User(s) \in Seq(AnyItems)
    BY <2>1, UserItems
  <2> QED
    BY <2>2 DEF s
\* Both sides of the equation.
<1>14. Mine(UserLog \o d, n) = mine
  <2> HIDE DEF logs, current, mine
  <2>1. Mine(flat, n) = mine
    <3>1. n \in 1 .. Len(logs)
      BY <1>5
    <3>2. Mine(FlattenSeq(logs), n) = Mine(logs[n], n)
      BY <1>5, <1>11, <3>1, MineFlatten
    <3> QED
      BY <1>12, <3>2
  <2> HIDE DEF flat
  <2>2. mine \o <<>> = mine
    BY <1>13, ConcatEmptySeq
  <2>3. read \in Seq(AnyItems) /\ Mine(read, n) = Mine(flat, n) \o Mine(current, n)
    BY <1>6, MineConcat, ConcatProperties, ZenonT(60)
  <2> HIDE DEF read
  <2>4. raw \in Seq(AnyItems) /\ Mine(raw, n) = Mine(read, n) \o Mine(stderr, n)
    BY <1>6, <2>3, MineConcat, ConcatProperties
  <2>5. Mine(raw, n) = mine
    BY <1>8, <1>9, <2>1, <2>2, <2>3, <2>4
  <2> HIDE DEF raw
  <2> DEFINE u == User(raw)
  <2>6. u \in Seq(AnyItems) /\ User(u) = u
    BY <2>4, UserItems, UserTwice
  <2>7. Mine(u, n) = mine
    BY <2>5, <2>6 DEF Mine
  <2>8. UserLog = u
    BY <1>7
  <2> HIDE DEF u
  <2>9. Mine(u \o d, n) = Mine(u, n) \o Mine(d, n)
    BY <2>6, MineConcat
  <2> QED
    BY <1>10, <2>2, <2>7, <2>8, <2>9
<1>15. Mine(AllPrinted("err"), n) = Prints(n, prog, "err")
  <2>1. /\ printed \in Seq(Seq(AnyItems)) /\ Len(printed) = exec_counter
        /\ \A m \in 1 .. exec_counter : printed[m] = Prints(m, submitted[m], "err")
    BY <1>1, <1>2, PrintedType
  <2>2. AllPrinted("err") = FlattenSeq(printed)
    BY DEF AllPrinted, Printed
  <2>3. ASSUME NEW m \in 1 .. exec_counter
        PROVE  /\ printed[m] \in Seq(AnyItems) /\ User(printed[m]) = printed[m]
               /\ \A i \in DOMAIN printed[m] : printed[m][i].ex = m
    <3>1. m \in 1 .. MaxExecs /\ submitted[m] \in Programs
      <4>1. m \in 1 .. Len(submitted) /\ Len(submitted) \in Nat
        BY <1>1, <1>2
      <4> QED
        BY <1>1, <4>1, Bounds
    <3>2. Prints(m, submitted[m], "err") \in Seq(AnyItems)
          /\ User(Prints(m, submitted[m], "err")) = Prints(m, submitted[m], "err")
      BY <3>1, PrintsType
    <3>3. \A i \in DOMAIN Prints(m, submitted[m], "err") : Prints(m, submitted[m], "err")[i].ex = m
      BY DEF Prints
    <3> QED
      BY <2>1, <3>2, <3>3
  <2> HIDE DEF printed
  <2>4. ASSUME NEW m \in 1 .. exec_counter, m # n PROVE Mine(printed[m], n) = <<>>
    <3> DEFINE s == printed[m]
    <3>1. s \in Seq(AnyItems) /\ \A i \in DOMAIN s : s[i].kind \in UserKinds => s[i].ex # n
      BY <2>3, <2>4
    <3> HIDE DEF s
    <3>2. Mine(s, n) = <<>>
      BY <3>1, MineNone
    <3> QED
      BY <3>2 DEF s
  <2>5. Mine(printed[n], n) = printed[n]
    <3> DEFINE s == printed[n]
    <3>1. s \in Seq(AnyItems) /\ \A i \in DOMAIN s : s[i].kind \in UserKinds => s[i].ex = n
      BY <1>2, <2>3
    <3>2. User(s) = s
      BY <1>2, <2>3
    <3> HIDE DEF s
    <3>3. Mine(s, n) = User(s)
      BY <3>1, MineAll
    <3> QED
      BY <3>2, <3>3 DEF s
  <2>6. Mine(FlattenSeq(printed), n) = Mine(printed[n], n)
    <3>1. n \in 1 .. Len(printed) /\ \A m \in 1 .. Len(printed) : m # n => Mine(printed[m], n) = <<>>
      BY <1>2, <2>1, <2>4
    <3> QED
      BY <2>1, <3>1, MineFlatten
  <2> QED
    BY <1>2, <2>1, <2>2, <2>5, <2>6
<1> QED
  BY <1>4, <1>14, <1>15

-----------------------------------------------------------------------------
(***************************************************************************)
(* The listing: which file SAS has open while the statements that are      *)
(* still to come run.                                                      *)
(***************************************************************************)

\* The file that is open after a statement, when p was open before it.
Switched(stmt, p) ==
  CASE stmt.does = "printto" -> stmt.ex [] stmt.does = "unprintto" -> 0 [] OTHER -> p

\* The file that an execution's listing belongs in.
Target(progs, n) == IF progs[n].manages_ods THEN n ELSE 0

\* With f[i] open after i of these statements, the user's run while the file of
\* their execution is open.
Switches(f, stmts, progs) ==
  \A i \in 1 .. Len(stmts) :
    /\ f[i] = Switched(stmts[i], f[i - 1])
    /\ stmts[i].does = "run" /\ IsUsers(stmts[i]) => f[i - 1] = Target(progs, stmts[i].ex)

LEMMA SwitchesConcat ==
  ASSUME NEW s \in Seq(Statements), NEW t \in Seq(Statements), NEW progs,
         NEW f, Switches(f, s, progs), NEW g, Switches(g, t, progs), f[Len(s)] = g[0]
  PROVE  \E h : h[0] = f[0] /\ h[Len(s \o t)] = g[Len(t)] /\ Switches(h, s \o t, progs)
<1> DEFINE k == Len(s)
           m == Len(t)
           all == s \o t
           h == [i \in 0 .. k + m |-> IF i <= k THEN f[i] ELSE g[i - k]]
<1>1. k \in Nat /\ m \in Nat /\ f[k] = g[0]
  OBVIOUS
<1>2. /\ Len(all) = k + m /\ \A i \in 1 .. k : all[i] = s[i]
      /\ \A i \in 1 .. m : all[k + i] = t[i]
  BY StatementsIn
<1> HIDE DEF k, m, all
<1>3. h[0] = f[0] /\ \A i \in 0 .. k : h[i] = f[i]
  BY <1>1
<1>4. \A i \in 0 .. m : h[k + i] = g[i]
  <2> TAKE i \in 0 .. m
  <2>1. k + i \in 0 .. k + m /\ (k + i) - k = i /\ (k + i <= k => i = 0)
    BY <1>1
  <2> QED
    BY <1>1, <2>1
<1> HIDE DEF h
<1>5. ASSUME NEW i \in 1 .. Len(all)
      PROVE  /\ h[i] = Switched(all[i], h[i - 1])
             /\ all[i].does = "run" /\ IsUsers(all[i]) => h[i - 1] = Target(progs, all[i].ex)
  <2>1. CASE i \in 1 .. k
    <3>1. i \in 0 .. k /\ i - 1 \in 0 .. k
      BY <1>1, <2>1
    <3>2. h[i] = f[i] /\ h[i - 1] = f[i - 1] /\ all[i] = s[i]
      BY <1>2, <1>3, <2>1, <3>1
    <3> QED
      BY <2>1, <3>2 DEF Switches, k
  <2>2. CASE i \notin 1 .. k
    <3> DEFINE j == i - k
    <3>1. j \in 1 .. m /\ j \in 0 .. m /\ j - 1 \in 0 .. m /\ k + j = i /\ k + (j - 1) = i - 1
      BY <1>1, <1>2, <2>2
    <3> HIDE DEF j
    <3>2. h[i] = g[j] /\ h[i - 1] = g[j - 1] /\ all[i] = t[j]
      BY <1>2, <1>4, <3>1
    <3> QED
      BY <3>1, <3>2 DEF Switches, m
  <2> QED
    BY <2>1, <2>2
<1>6. h[Len(all)] = g[m]
  BY <1>1, <1>2, <1>4
<1>7. Switches(h, all, progs)
  BY <1>5 DEF Switches
<1> QED
  BY <1>3, <1>6, <1>7 DEF all, m

\* Where the statements of a cell's code are.
LEMMA CodeParts ==
  ASSUME NEW n \in 1 .. MaxExecs, NEW prog \in Programs, NEW echo \in Echoes
  PROVE  LET code == WrappedCode(n, prog, echo)
         IN  /\ code \in Seq(Statements)
             /\ \A i \in 1 .. Len(code) : code[i].ex = n
             /\ ~prog.manages_ods => \A i \in 1 .. Len(code) : code[i].does = "run"
             /\ prog.manages_ods => \E k \in Nat :
                  /\ k + 2 <= Len(code)
                  /\ code[1].does = "printto" /\ code[1].writes = <<>>
                  /\ code[k + 2].does = "unprintto" /\ code[k + 2].writes = <<>>
                  /\ \A i \in 1 .. Len(code) : i # 1 /\ i # k + 2 => code[i].does = "run"
                  /\ \A i \in k + 3 .. Len(code) : ~IsUsers(code[i])
<1> DEFINE user == UserCode(n, prog)
           marker == MarkerCode(n, echo)
           open == <<Statement(n, "printto", <<>>)>>
           close == <<Statement(n, "unprintto", <<>>)>>
           first == open \o user
           inner == first \o close
           listing_ == ListingCode(n, prog)
           code == listing_ \o marker
<1>1. echo \in BOOLEAN
  BY StreamAssumption
<1>2. /\ user \in Seq(Statements) /\ \A i \in 1 .. Len(user) : user[i].ex = n
      /\ \A i \in 1 .. Len(user) : user[i].does = "run"
  <2>1. user \in Seq(Statements) /\ \A i \in 1 .. Len(user) : user[i].ex = n
    BY UserCodeShape DEF IsOf
  <2> QED
    BY <2>1 DEF UserCode, Statement
<1>3. /\ marker \in Seq(Statements) /\ Len(marker) = 2
      /\ \A i \in 1 .. 2 : marker[i].ex = n /\ ~IsUsers(marker[i]) /\ marker[i].does = "run"
  BY <1>1, MarkerCodeShape DEF IsOf, IsUsers
<1>4. /\ open \in Seq(Statements) /\ Len(open) = 1 /\ close \in Seq(Statements) /\ Len(close) = 1
      /\ open[1].ex = n /\ open[1].does = "printto" /\ open[1].writes = <<>>
      /\ close[1].ex = n /\ close[1].does = "unprintto" /\ close[1].writes = <<>>
  BY DEF Statement, Statements
<1>5. WrappedCode(n, prog, echo) = code /\ (~prog.manages_ods => listing_ = user)
      /\ (prog.manages_ods => listing_ = inner)
  BY DEF WrappedCode, ListingCode
<1> DEFINE k == Len(user)
<1>6. k \in Nat
  BY <1>2
<1> HIDE DEF user, marker, open, close, listing_
<1>7. CASE ~prog.manages_ods
  <2>1. /\ listing_ \in Seq(Statements)
        /\ \A i \in 1 .. Len(listing_) : listing_[i].ex = n /\ listing_[i].does = "run"
    BY <1>2, <1>5, <1>7
  <2> HIDE DEF code
  <2>2. /\ code \in Seq(Statements)
        /\ \A i \in 1 .. Len(code) : code[i].ex = n /\ code[i].does = "run"
    <3>1. /\ code \in Seq(Statements) /\ Len(code) = Len(listing_) + 2
          /\ \A i \in 1 .. Len(listing_) + 2 :
               \/ i \in 1 .. Len(listing_) /\ code[i] = listing_[i]
               \/ i - Len(listing_) \in 1 .. 2 /\ code[i] = marker[i - Len(listing_)]
      <4>1. /\ listing_ \o marker \in Seq(Statements)
            /\ Len(listing_ \o marker) = Len(listing_) + Len(marker)
            /\ \A i \in 1 .. Len(listing_) + Len(marker) :
                 \/ i \in 1 .. Len(listing_) /\ (listing_ \o marker)[i] = listing_[i]
                 \/ /\ i - Len(listing_) \in 1 .. Len(marker)
                    /\ (listing_ \o marker)[i] = marker[i - Len(listing_)]
        BY <1>3, <2>1, StatementsIn
      <4> QED
        BY <1>3, <4>1 DEF code
    <3>2. \A i \in 1 .. Len(listing_) + 2 : code[i].ex = n /\ code[i].does = "run"
      <4> TAKE i \in 1 .. Len(listing_) + 2
      <4>1. CASE i \in 1 .. Len(listing_) /\ code[i] = listing_[i]
        BY <2>1, <4>1
      <4>2. CASE i - Len(listing_) \in 1 .. 2 /\ code[i] = marker[i - Len(listing_)]
        BY <1>3, <4>2
      <4> QED
        BY <3>1, <4>1, <4>2
    <3> QED
      BY <3>1, <3>2
  <2> QED
    BY <1>5, <1>7, <2>2
<1>8. CASE prog.manages_ods
  <2>1. /\ first \in Seq(Statements) /\ Len(first) = k + 1
        /\ first[1] = open[1] /\ \A i \in 1 .. k : first[1 + i] = user[i]
    <3>1. /\ first \in Seq(Statements) /\ Len(first) = Len(open) + Len(user)
          /\ \A i \in 1 .. Len(open) : first[i] = open[i]
          /\ \A i \in 1 .. Len(user) : first[Len(open) + i] = user[i]
      BY <1>2, <1>4, StatementsIn
    <3> HIDE DEF first
    <3> QED
      BY <1>4, <1>6, <3>1
  <2>2. \A i \in 1 .. k + 1 : first[i].ex = n /\ (i # 1 => first[i].does = "run")
    <3> TAKE i \in 1 .. k + 1
    <3>1. i = 1 \/ (i - 1 \in 1 .. k /\ 1 + (i - 1) = i)
      BY <1>6
    <3> QED
      BY <1>2, <1>4, <2>1, <3>1
  <2> HIDE DEF first
  <2>3. /\ inner \in Seq(Statements) /\ Len(inner) = k + 2
        /\ \A i \in 1 .. k + 1 : inner[i] = first[i]
        /\ \A i \in 1 .. 1 : inner[k + 1 + i] = close[i]
    <3>1. /\ inner \in Seq(Statements) /\ Len(inner) = Len(first) + Len(close)
          /\ \A i \in 1 .. Len(first) : inner[i] = first[i]
          /\ \A i \in 1 .. Len(close) : inner[Len(first) + i] = close[i]
      BY <1>4, <2>1, StatementsIn
    <3> QED
      BY <1>4, <1>6, <2>1, <3>1
  <2> HIDE DEF inner
  <2>4. /\ code \in Seq(Statements) /\ Len(code) = k + 4
        /\ \A i \in 1 .. k + 2 : code[i] = inner[i]
        /\ \A i \in 1 .. 2 : code[k + 2 + i] = marker[i]
    <3>1. code = inner \o marker
      BY <1>5, <1>8
    <3>2. LET c == inner \o marker
          IN  /\ c \in Seq(Statements) /\ Len(c) = Len(inner) + Len(marker)
              /\ \A i \in 1 .. Len(inner) : c[i] = inner[i]
              /\ \A i \in 1 .. Len(marker) : c[Len(inner) + i] = marker[i]
      BY <1>3, <2>3, StatementsIn
    <3> HIDE DEF code
    <3> QED
      BY <1>3, <1>6, <2>3, <3>1, <3>2
  <2> HIDE DEF code
  <2>5. code[1].does = "printto" /\ code[1].writes = <<>>
    BY <1>4, <1>6, <2>1, <2>3, <2>4
  <2>6. code[k + 2].does = "unprintto" /\ code[k + 2].writes = <<>> /\ code[k + 2].ex = n
    <3>1. k + 1 + 1 = k + 2 /\ k + 2 \in 1 .. k + 2
      BY <1>6
    <3> QED
      BY <1>4, <2>3, <2>4, <3>1
  <2>7. \A i \in 1 .. k + 1 : code[i].ex = n /\ (i # 1 => code[i].does = "run")
    BY <1>6, <2>2, <2>3, <2>4
  <2>8. \A i \in k + 3 .. k + 4 : code[i].ex = n /\ code[i].does = "run" /\ ~IsUsers(code[i])
    <3> TAKE i \in k + 3 .. k + 4
    <3> DEFINE j == i - (k + 2)
    <3>1. j \in 1 .. 2 /\ k + 2 + j = i
      BY <1>6
    <3> HIDE DEF j
    <3> QED
      BY <1>3, <2>4, <3>1
  <2>9. \A i \in 1 .. k + 4 : i \in 1 .. k + 1 \/ i = k + 2 \/ i \in k + 3 .. k + 4
    BY <1>6
  <2>10. k + 2 <= k + 4
    BY <1>6
  <2> HIDE DEF k
  <2> QED
    BY <1>5, <1>6, <1>8, <2>4, <2>5, <2>6, <2>7, <2>8, <2>9, <2>10
<1> QED
  BY <1>7, <1>8, StreamAssumption

\* A cell's code leaves no file open, and its user's statements run in their own.
LEMMA CodeSwitches ==
  ASSUME NEW n \in 1 .. MaxExecs, NEW prog \in Programs, NEW echo \in Echoes,
         NEW progs, progs[n] = prog
  PROVE  LET code == WrappedCode(n, prog, echo)
         IN  \E h : h[0] = 0 /\ h[Len(code)] = 0 /\ Switches(h, code, progs)
<1> DEFINE code == WrappedCode(n, prog, echo)
           m == Len(code)
<1>1. code \in Seq(Statements) /\ \A i \in 1 .. m : code[i].ex = n
  BY CodeParts
<1>2. m \in Nat /\ n \in Nat
  BY <1>1, Bounds
<1>3. CASE ~prog.manages_ods
  <2> DEFINE h == [i \in 0 .. m |-> 0]
  <2>1. \A i \in 1 .. m : code[i].does = "run"
    BY <1>3, CodeParts
  <2> HIDE DEF code
  <2>2. h[0] = 0 /\ h[m] = 0
    BY <1>2
  <2>3. ASSUME NEW i \in 1 .. m
        PROVE  /\ h[i] = Switched(code[i], h[i - 1])
               /\ code[i].does = "run" /\ IsUsers(code[i]) => h[i - 1] = Target(progs, code[i].ex)
    <3>1. h[i] = 0 /\ h[i - 1] = 0
      BY <1>2
    <3> QED
      BY <1>1, <1>3, <2>1, <3>1 DEF Switched, Target
  <2> HIDE DEF h
  <2>4. Switches(h, code, progs)
    BY <2>3 DEF Switches
  <2> QED
    BY <2>2, <2>4 DEF code
<1>4. CASE prog.manages_ods
  <2>1. PICK k \in Nat :
          /\ k + 2 <= m /\ code[1].does = "printto" /\ code[k + 2].does = "unprintto"
          /\ \A i \in 1 .. m : i # 1 /\ i # k + 2 => code[i].does = "run"
          /\ \A i \in k + 3 .. m : ~IsUsers(code[i])
    BY <1>4, CodeParts
  <2> DEFINE h == [i \in 0 .. m |-> IF i \in 1 .. k + 1 THEN n ELSE 0]
  <2> HIDE DEF code, m
  <2>2. h[0] = 0 /\ h[m] = 0
    BY <1>2, <2>1
  <2>3. ASSUME NEW i \in 1 .. m
        PROVE  /\ h[i] = Switched(code[i], h[i - 1])
               /\ code[i].does = "run" /\ IsUsers(code[i]) => h[i - 1] = Target(progs, code[i].ex)
    <3>1. CASE i = 1
      <4>1. h[i] = n
        BY <1>2, <2>1, <3>1
      <4>2. code[i].does = "printto" /\ code[i].ex = n
        BY <1>1, <2>1, <3>1
      <4> QED
        BY <4>1, <4>2 DEF Switched
    <3>2. CASE i = k + 2
      <4>1. h[i] = 0 /\ code[i].does = "unprintto"
        BY <1>2, <2>1, <3>2
      <4> QED
        BY <4>1 DEF Switched
    <3>3. CASE i \in 2 .. k + 1
      <4>1. h[i] = n /\ h[i - 1] = n /\ code[i].does = "run"
        BY <1>2, <2>1, <3>3
      <4> QED
        BY <1>1, <1>4, <4>1 DEF Switched, Target
    <3>4. CASE i \in k + 3 .. m
      <4>1. h[i] = 0 /\ h[i - 1] = 0 /\ code[i].does = "run"
        BY <1>2, <2>1, <3>4
      <4> QED
        BY <2>1, <3>4, <4>1 DEF Switched
    <3> QED
      BY <1>2, <2>1, <3>1, <3>2, <3>3, <3>4
  <2> HIDE DEF h
  <2>4. Switches(h, code, progs)
    BY <2>3 DEF Switches, m
  <2> QED
    BY <2>2, <2>4 DEF code, m
<1> QED
  BY <1>3, <1>4, StreamAssumption

\* While SAS lives: it has the file of an execution open just while it runs that
\* execution's code, and opens it once.
Bracketed ==
  sas = "alive" =>
    /\ printto <= exec_counter
    /\ \E f : f[0] = printto /\ f[Len(Pending)] = 0 /\ Switches(f, Pending, submitted)
    /\ \A i \in DOMAIN todo :
         todo[i].kind \notin MarkerKinds => printto = Target(submitted, todo[i].ex)
    /\ \A i \in 1 .. Len(Pending) :
         /\ Pending[i].does # "run" => Pending[i].writes = <<>>
         /\ Pending[i].does = "printto" =>
              /\ Pending[i].ex \notin DOMAIN listing
              /\ \A j \in 1 .. Len(Pending) :
                   j # i /\ Pending[j].does = "printto" => Pending[j].ex # Pending[i].ex
    /\ at # "idle" /\ printto = exec_counter => printto \in DOMAIN listing

LEMMA BracketedInit == Init => Bracketed
<1> SUFFICES ASSUME Init PROVE Bracketed
  OBVIOUS
<1> DEFINE none == <<>>
           f == [i \in {0} |-> 0]
<1>1. /\ at = "idle" /\ todo = none /\ printto = 0 /\ exec_counter = 0
      /\ stdin = none /\ unsent = none
  BY DEF Init, exec_counter
<1>2. Pending = none /\ Len(Pending) = 0 /\ DOMAIN todo = {}
  BY <1>1 DEF Pending
<1>3. f[0] = 0 /\ Switches(f, Pending, submitted)
  BY <1>2 DEF Switches
<1> HIDE DEF f
<1> QED
  BY <1>1, <1>2, <1>3 DEF Bracketed

LEMMA BracketedUntouched ==
  ASSUME Bracketed, Pending' = Pending, UNCHANGED <<submitted, todo, printto, sas>>,
         DOMAIN listing' \subseteq DOMAIN listing,
         at' # "idle" => at # "idle" /\ DOMAIN listing' = DOMAIN listing
  PROVE  Bracketed'
BY DEF Bracketed, exec_counter

LEMMA BracketedSasWrites ==
  ASSUME Typed, Bracketed, SasWrites
  PROVE  Bracketed'
<1>1. /\ todo \in Seq(Works) /\ todo # <<>> /\ todo' = Tail(todo)
      /\ Pending' = Pending /\ UNCHANGED <<submitted, printto, at, sas>>
  BY DEF SasWrites, kernelVars, Pending, Typed, SasTyped
<1>2. \A i \in DOMAIN todo' : i + 1 \in DOMAIN todo /\ todo'[i] = todo[i + 1]
  BY <1>1
<1>3. DOMAIN listing' = DOMAIN listing
  <2>1. Head(todo) \in Works
    BY <1>1, HeadTailProperties
  <2> QED
    BY <2>1, ItemType DEF SasWrites
<1>4. \A i \in DOMAIN todo' : \E j \in DOMAIN todo : todo'[i] = todo[j]
  BY <1>2
<1> QED
  BY <1>1, <1>3, <1>4 DEF Bracketed, exec_counter

LEMMA BracketedSasReads ==
  ASSUME StreamInv, Bracketed, SasReads
  PROVE  Bracketed'
<1> USE DEF StreamInv
<1> DEFINE stmt == Head(stdin)
           k == Len(Pending)
<1>1. /\ sas = "alive" /\ UNCHANGED <<submitted, at, sas>> /\ exec_counter' = exec_counter
      /\ todo' = Writes(stmt) /\ printto' = Switched(stmt, printto)
      /\ stmt.does # "printto" => listing' = listing
      /\ stmt.does = "printto" => DOMAIN listing' = DOMAIN listing \cup {stmt.ex}
      /\ Pending \in Seq(Statements) /\ stdin \in Seq(Statements) /\ stdin # <<>>
  BY PendingIs DEF SasReads, kernelVars, Switched, exec_counter, Typed, SasTyped
<1>2. /\ k \in Nat /\ DOMAIN Pending = 1 .. k /\ 1 \in 1 .. k /\ Pending[1] = stmt
      /\ Len(Pending') = k - 1 /\ DOMAIN Pending' = 1 .. k - 1
      /\ \A i \in 1 .. k - 1 : Pending'[i] = Pending[i + 1]
  <2>1. /\ stdin' = Tail(stdin) /\ unsent' = unsent /\ unsent \in Seq(Statements)
    BY DEF SasReads, kernelVars, Typed, KernelTyped
  <2>2. /\ Tail(stdin) \in Seq(Statements) /\ Len(Tail(stdin)) = Len(stdin) - 1
        /\ Len(stdin) \in Nat \ {0} /\ Len(unsent) \in Nat
    BY <1>1, <2>1, HeadTailProperties
  <2>3. Pending' = Tail(stdin) \o unsent
    BY <2>1 DEF Pending
  <2> DEFINE rest == Tail(stdin)
  <2>4. /\ Pending' \in Seq(Statements) /\ Len(Pending') = Len(stdin) - 1 + Len(unsent)
    <3>1. rest \in Seq(Statements) /\ Len(rest) = Len(stdin) - 1
      BY <2>2
    <3> HIDE DEF rest
    <3>2. rest \o unsent \in Seq(Statements) /\ Len(rest \o unsent) = Len(rest) + Len(unsent)
      BY <2>1, <3>1, StatementsIn
    <3>3. Pending' = rest \o unsent
      BY <2>3 DEF rest
    <3> QED
      BY <3>1, <3>2, <3>3
  <2>5. k = Len(stdin) + Len(unsent)
    BY <1>1, <2>1, StatementsIn DEF Pending
  <2>6. /\ 1 \in DOMAIN Pending /\ Pending[1] = stmt
        /\ \A i \in DOMAIN Pending' : i + 1 \in DOMAIN Pending /\ Pending'[i] = Pending[i + 1]
    BY PendingReads
  <2>7. DOMAIN Pending' = 1 .. Len(Pending') /\ DOMAIN Pending = 1 .. Len(Pending)
    BY <1>1, <2>4
  <2>8. k \in Nat /\ Len(Pending') = k - 1
    BY <2>2, <2>4, <2>5
  <2> QED
    BY <2>6, <2>7, <2>8
<1>3. PICK f : f[0] = printto /\ f[k] = 0 /\ Switches(f, Pending, submitted)
  BY <1>1 DEF Bracketed
<1>4. stmt \in Statements /\ stmt.ex \in 1 .. exec_counter
  <2>1. stmt \in Statements /\ stmt.ex \in Nat \ {0}
    BY <1>2, PendingType
  <2>2. stmt.ex <= exec_counter /\ exec_counter \in Nat
    BY <1>2, SMTT(40) DEF Sorted, Typed, KernelTyped, exec_counter
  <2> QED
    BY <2>1, <2>2
<1> HIDE DEF stmt, k
<1>5. \E g : g[0] = printto' /\ g[k - 1] = 0 /\ Switches(g, Pending', submitted)
  <2> DEFINE g == [i \in 0 .. k - 1 |-> f[i + 1]]
  <2>1. g[0] = f[1] /\ g[k - 1] = f[k]
    BY <1>2
  <2>2. f[1] = printto'
    BY <1>1, <1>2, <1>3 DEF Switches, k
  <2>3. ASSUME NEW i \in 1 .. k - 1
        PROVE  /\ g[i] = Switched(Pending'[i], g[i - 1])
               /\ Pending'[i].does = "run" /\ IsUsers(Pending'[i]) =>
                    g[i - 1] = Target(submitted, Pending'[i].ex)
    <3> DEFINE j == i + 1
    <3>1. j \in 1 .. k /\ g[i] = f[j] /\ g[i - 1] = f[j - 1] /\ Pending'[i] = Pending[j]
      BY <1>2
    <3> HIDE DEF j, g
    <3> QED
      BY <1>3, <3>1 DEF Switches, k
  <2> HIDE DEF g
  <2>4. Switches(g, Pending', submitted)
    BY <1>2, <2>3 DEF Switches
  <2> QED
    BY <1>3, <2>1, <2>2, <2>4
<1>6. \A i \in DOMAIN todo' :
        todo'[i].kind \notin MarkerKinds => printto' = Target(submitted, todo'[i].ex)
  <2> SUFFICES ASSUME NEW i \in DOMAIN todo', todo'[i].kind \notin MarkerKinds
               PROVE  printto' = Target(submitted, todo'[i].ex)
    OBVIOUS
  <2>1. i \in DOMAIN stmt.writes /\ todo'[i].ex = stmt.ex
        /\ todo'[i].kind = stmt.writes[i].kind
    BY <1>1, <1>4, WritesType
  <2>2. stmt.writes # <<>>
    BY <2>1
  <2>3. stmt.does = "run"
    BY <1>1, <1>2, <2>2 DEF Bracketed, k
  <2>4. IsUsers(stmt)
    BY <2>1 DEF IsUsers
  <2>5. printto = Target(submitted, stmt.ex)
    BY <1>2, <1>3, <2>3, <2>4 DEF Switches, k
  <2> QED
    BY <1>1, <2>1, <2>3, <2>5 DEF Switched
<1>7. ASSUME NEW i \in 1 .. k - 1
      PROVE  /\ Pending'[i].does # "run" => Pending'[i].writes = <<>>
             /\ Pending'[i].does = "printto" =>
                  /\ Pending'[i].ex \notin DOMAIN listing'
                  /\ \A j \in 1 .. k - 1 :
                       j # i /\ Pending'[j].does = "printto" => Pending'[j].ex # Pending'[i].ex
  <2> DEFINE a == i + 1
  <2>1. a \in 1 .. k /\ a # 1 /\ Pending'[i] = Pending[a]
    BY <1>2
  <2>2. \A j \in 1 .. k - 1 : j # i =>
          \E b \in 1 .. k : b # a /\ Pending'[j] = Pending[b]
    <3> TAKE j \in 1 .. k - 1
    <3> HAVE j # i
    <3>1. j + 1 \in 1 .. k /\ j + 1 # a /\ Pending'[j] = Pending[j + 1]
      BY <1>2
    <3> QED
      BY <3>1
  <2> HIDE DEF a
  <2>3. /\ Pending[a].does # "run" => Pending[a].writes = <<>>
        /\ Pending[a].does = "printto" =>
             /\ Pending[a].ex \notin DOMAIN listing
             /\ \A b \in 1 .. k :
                  b # a /\ Pending[b].does = "printto" => Pending[b].ex # Pending[a].ex
    BY <1>1, <2>1 DEF Bracketed, k
  <2>4. Pending[a].does = "printto" => Pending[a].ex \notin DOMAIN listing'
    <3>1. stmt.does = "printto" /\ Pending[a].does = "printto" => stmt.ex # Pending[a].ex
      BY <1>2, <2>1, <2>3
    <3> QED
      BY <1>1, <2>3, <3>1
  <2> QED
    BY <2>1, <2>2, <2>3, <2>4
<1>8. printto' <= exec_counter
  BY <1>1, <1>4 DEF Switched, Bracketed, Typed, KernelTyped, exec_counter
<1>9. at # "idle" /\ printto' = exec_counter => printto' \in DOMAIN listing'
  <2> SUFFICES ASSUME at # "idle", printto' = exec_counter PROVE printto' \in DOMAIN listing'
    OBVIOUS
  <2>1. exec_counter # 0
    BY DEF Placed, exec_counter, Typed, KernelTyped
  <2>2. CASE stmt.does = "printto"
    BY <1>1, <2>2 DEF Switched
  <2>3. CASE stmt.does # "printto"
    <3>1. printto' = printto
      BY <1>1, <2>1, <2>3 DEF Switched
    <3> QED
      BY <1>1, <2>3, <3>1 DEF Bracketed
  <2> QED
    BY <2>2, <2>3
<1> QED
  BY <1>1, <1>2, <1>5, <1>6, <1>7, <1>8, <1>9 DEF Bracketed

LEMMA BracketedExecute ==
  ASSUME StreamInv, Bracketed, NEW prog \in Programs, NEW echo \in Echoes, Execute(prog, echo)
  PROVE  Bracketed'
<1> USE DEF StreamInv
<1> DEFINE n == exec_counter + 1
           code == WrappedCode(n, prog, echo)
           all == Pending \o code
           k == Len(Pending)
           m == Len(code)
<1>1. /\ UNCHANGED <<todo, printto, listing, sas, stdin>> /\ unsent = <<>> /\ unsent' = code
      /\ stdin \in Seq(Statements) /\ Pending \in Seq(Statements)
      /\ exec_counter \in Nat /\ k \in Nat /\ DOMAIN Pending = 1 .. k
      /\ printto \in 0 .. MaxExecs
  BY PendingIs DEF Execute, sasVars, Placed, Typed, KernelTyped, SasTyped, exec_counter
<1>2. /\ exec_counter' = n /\ n \in 1 .. MaxExecs /\ submitted'[n] = prog
      /\ \A e \in 1 .. exec_counter : submitted'[e] = submitted[e]
  BY PendingExecute
<1>3. code \in Seq(Statements) /\ m \in Nat /\ \A i \in 1 .. m : code[i].ex = n
  BY <1>2, CodeParts
<1>4. Pending' = all
  <2>1. Pending = stdin
    BY <1>1, ConcatEmptySeq DEF Pending
  <2> QED
    BY <1>1, <2>1 DEF Pending
<1>5. \A i \in 1 .. k : Pending[i].ex \in 1 .. exec_counter
  BY <1>1, PendingType DEF Sorted
<1>6. \A e \in 1 .. exec_counter : Target(submitted', e) = Target(submitted, e)
  BY <1>2 DEF Target
<1>7. SUFFICES ASSUME sas = "alive"
               PROVE  /\ printto <= n
                      /\ \E f : f[0] = printto /\ f[Len(all)] = 0 /\ Switches(f, all, submitted')
                      /\ \A i \in DOMAIN todo : todo[i].kind \notin MarkerKinds =>
                           printto = Target(submitted', todo[i].ex)
                      /\ \A i \in 1 .. Len(all) :
                           /\ all[i].does # "run" => all[i].writes = <<>>
                           /\ all[i].does = "printto" =>
                                /\ all[i].ex \notin DOMAIN listing
                                /\ \A j \in 1 .. Len(all) :
                                     j # i /\ all[j].does = "printto" => all[j].ex # all[i].ex
                      /\ printto = n => printto \in DOMAIN listing
  BY <1>1, <1>2, <1>4 DEF Bracketed
<1>8. printto <= exec_counter
  BY <1>7 DEF Bracketed
<1>9. \E f : f[0] = printto /\ f[Len(all)] = 0 /\ Switches(f, all, submitted')
  <2>1. PICK f : f[0] = printto /\ f[k] = 0 /\ Switches(f, Pending, submitted)
    BY <1>7 DEF Bracketed
  <2>2. Switches(f, Pending, submitted')
    BY <1>5, <1>6, <2>1 DEF Switches
  <2>3. PICK h : h[0] = 0 /\ h[m] = 0 /\ Switches(h, code, submitted')
    BY <1>2, CodeSwitches
  <2> DEFINE next == submitted'
             before == Pending
  <2>4. before \in Seq(Statements) /\ Switches(f, before, next) /\ Switches(h, code, next)
        /\ f[Len(before)] = h[0]
    BY <1>1, <2>1, <2>2, <2>3
  <2> HIDE DEF next, before, code
  <2>5. \E g : g[0] = f[0] /\ g[Len(before \o code)] = h[Len(code)] /\ Switches(g, before \o code, next)
    BY <1>3, <2>4, SwitchesConcat
  <2> QED
    BY <2>1, <2>3, <2>5 DEF next, before
<1>10. ASSUME NEW i \in DOMAIN todo, todo[i].kind \notin MarkerKinds
       PROVE  printto = Target(submitted', todo[i].ex)
  <2>1. todo[i].ex \in 1 .. exec_counter
    <3>1. todo[i] \in Works
      BY DEF Typed, SasTyped
    <3>2. todo[i].ex \in 1 .. MaxExecs
      BY <3>1, ItemType
    <3> QED
      BY <1>1, <3>2, Bounds DEF Sorted
  <2> QED
    BY <1>6, <1>7, <1>10, <2>1 DEF Bracketed
<1>11. /\ Len(all) = k + m
       /\ \A i \in 1 .. k + m : \/ i \in 1 .. k /\ all[i] = Pending[i]
                                \/ i \notin 1 .. k /\ i - k \in 1 .. m /\ all[i] = code[i - k]
  <2> HIDE DEF code
  <2>1. /\ Len(all) = k + m
        /\ \A i \in 1 .. k + m : \/ i \in 1 .. k /\ all[i] = Pending[i]
                                 \/ i - k \in 1 .. m /\ all[i] = code[i - k]
    BY <1>1, <1>3, StatementsIn
  <2> HIDE DEF all
  <2> QED
    BY <1>1, <1>3, <2>1
<1>12. \A i \in 1 .. m : /\ code[i].does # "run" => code[i].writes = <<>>
                         /\ code[i].does = "printto" => i = 1
  <2>1. CASE prog.manages_ods
    <3>1. PICK l \in Nat :
            /\ l + 2 <= m
            /\ code[1].does = "printto" /\ code[1].writes = <<>>
            /\ code[l + 2].does = "unprintto" /\ code[l + 2].writes = <<>>
            /\ \A i \in 1 .. m : i # 1 /\ i # l + 2 => code[i].does = "run"
      BY <1>2, <2>1, CodeParts
    <3> QED
      BY <3>1
  <2>2. CASE ~prog.manages_ods
    <3>1. \A i \in 1 .. m : code[i].does = "run"
      BY <1>2, <2>2, CodeParts
    <3> QED
      BY <3>1
  <2> QED
    BY <2>1, <2>2, StreamAssumption
<1>13. n \notin DOMAIN listing
  BY <1>1, <1>2 DEF Sorted
<1> HIDE DEF code, all, k, m
<1>14. ASSUME NEW i \in 1 .. Len(all), all[i].does # "run"
       PROVE  /\ all[i].writes = <<>>
              /\ all[i].does = "printto" => all[i].ex \notin DOMAIN listing
  <2>1. CASE i \in 1 .. k /\ all[i] = Pending[i]
    BY <1>7, <1>14, <2>1 DEF Bracketed, k
  <2>2. CASE i - k \in 1 .. m /\ all[i] = code[i - k]
    BY <1>3, <1>12, <1>13, <1>14, <2>2
  <2> QED
    BY <1>11, <1>14, <2>1, <2>2
<1>15. ASSUME NEW i \in 1 .. Len(all), all[i].does = "printto",
              NEW j \in 1 .. Len(all), all[j].does = "printto", j # i
       PROVE  all[j].ex # all[i].ex
  <2>1. CASE i \in 1 .. k /\ j \in 1 .. k
    <3>1. all[i] = Pending[i] /\ all[j] = Pending[j]
      BY <1>11, <2>1
    <3> QED
      BY <1>7, <1>15, <2>1, <3>1 DEF Bracketed, k
  <2>2. \A a \in 1 .. Len(all) : a \in 1 .. k => all[a].ex \in 1 .. exec_counter
    BY <1>5, <1>11
  <2>3. \A a \in 1 .. Len(all) : a \notin 1 .. k /\ all[a].does = "printto" =>
          all[a].ex = n /\ a - k = 1
    BY <1>3, <1>11, <1>12
  <2>4. n \notin 1 .. exec_counter
    BY <1>1
  <2>5. ~(i \notin 1 .. k /\ j \notin 1 .. k)
    BY <1>1, <1>15, <2>3, <1>11, <1>3
  <2> QED
    BY <1>15, <2>1, <2>2, <2>3, <2>4, <2>5
<1>16. printto <= n /\ printto # n
  BY <1>1, <1>8
<1> QED
  BY <1>9, <1>10, <1>14, <1>15, <1>16

LEMMA BracketedStep ==
  ASSUME StreamInv, StreamInv', Bracketed, [Next]_streamVars
  PROVE  Bracketed'
<1> USE DEF StreamInv
<1>1. CASE \E prog \in Programs, echo \in Echoes : Execute(prog, echo)
  BY <1>1, BracketedExecute
<1>2. CASE SasReads
  BY <1>2, BracketedSasReads
<1>3. CASE SasWrites
  BY <1>3, BracketedSasWrites
<1>4. CASE SasDies
  BY <1>4 DEF SasDies, Bracketed
<1>5. CASE Return
  <2>1. /\ Pending' = Pending /\ UNCHANGED <<submitted, todo, printto, sas>> /\ at' = "idle"
    BY <1>5 DEF Return, Pending
  <2>2. DOMAIN listing' \subseteq DOMAIN listing
    BY <1>5 DEF Return, Restrict
  <2> QED
    BY <2>1, <2>2, BracketedUntouched
<1>6. CASE \/ UNCHANGED streamVars \/ Send
           \/ PollFinds \/ PollTimesOut \/ PollHangsUp \/ PollInterrupted
           \/ ReadStdout \/ ReadStderr
  <2>1. Pending' = Pending
    <3>1. CASE Send
      BY <3>1, PendingSend
    <3>2. CASE ~Send
      BY <1>6, <3>2 DEF Pending, streamVars, kernelVars, sasVars, PollFinds, PollTimesOut,
                        PollHangsUp, PollInterrupted, ReadStdout, ReadStderr
    <3> QED
      BY <3>1, <3>2
  <2>2. UNCHANGED <<submitted, todo, printto, sas, listing>> /\ (at' # "idle" => at # "idle")
    BY <1>6 DEF streamVars, kernelVars, sasVars, Send, PollFinds, PollTimesOut, PollHangsUp,
                PollInterrupted, ReadStdout, ReadStderr
  <2> QED
    BY <2>1, <2>2, BracketedUntouched
<1> QED
  BY <1>1, <1>2, <1>3, <1>4, <1>5, <1>6 DEF Next, KernelStep

\* The listing file of an execution, and what is still to come for it.
Kept(n) == IF n \in DOMAIN listing THEN listing[n] ELSE <<>>

LinesOf(items, n) == Where(items, "ex", {n})

\* What the file holds and what is still to come make the listing of the present
\* execution, and nothing is to come once its marker is out.
ListingFlow ==
  at # "idle" /\ submitted[exec_counter].manages_ods =>
    \E d \in Seq(AnyItems) :
      /\ Kept(exec_counter) \o d = Prints(exec_counter, submitted[exec_counter], "lst")
      /\ sas = "alive" => d = LinesOf(Coming("lst"), exec_counter)
      /\ MarkerSeen(exec_counter) => d = <<>>

ListingsExact ==
  \A n \in DOMAIN results : results[n].found /\ submitted[n].manages_ods =>
    results[n].listing = Prints(n, submitted[n], "lst")

LEMMA KeptType ==
  ASSUME Typed, NEW n
  PROVE  Kept(n) \in Seq(ListingItems) /\ Kept(n) \in Seq(AnyItems)
<1>1. Kept(n) \in Seq(ListingItems)
  BY EmptySeq DEF Kept, Typed, ListingTyped
<1> QED
  BY <1>1, SeqMonotonic DEF AnyItems

LEMMA LinesOfConcat ==
  ASSUME NEW s \in Seq(AnyItems), NEW t \in Seq(AnyItems), NEW n
  PROVE  /\ LinesOf(s \o t, n) = LinesOf(s, n) \o LinesOf(t, n)
         /\ LinesOf(s, n) \in Seq(AnyItems) /\ LinesOf(t, n) \in Seq(AnyItems)
<1> DEFINE V == {n}
<1> HIDE DEF V
<1>1. Where(s \o t, "ex", V) = Where(s, "ex", V) \o Where(t, "ex", V)
  BY WhereConcat
<1>2. Where(s, "ex", V) \in Seq(AnyItems) /\ Where(t, "ex", V) \in Seq(AnyItems)
  BY WhereType
<1> QED
  BY <1>1, <1>2 DEF LinesOf, V

LEMMA LinesOfNone ==
  ASSUME NEW s \in Seq(AnyItems), NEW n, \A i \in DOMAIN s : s[i].ex # n
  PROVE  LinesOf(s, n) = <<>>
<1> DEFINE V == {n}
<1>1. \A i \in DOMAIN s : s[i]["ex"] \notin V
  OBVIOUS
<1> HIDE DEF V
<1>2. Where(s, "ex", V) = <<>>
  BY <1>1, WhereNone
<1> QED
  BY <1>2 DEF LinesOf, V

LEMMA LinesOfAll ==
  ASSUME NEW s \in Seq(AnyItems), NEW n, \A i \in DOMAIN s : s[i].ex = n
  PROVE  LinesOf(s, n) = s
<1> DEFINE V == {n}
<1>1. \A i \in DOMAIN s : s[i]["ex"] \in V
  OBVIOUS
<1> HIDE DEF V
<1>2. Where(s, "ex", V) = s
  BY <1>1, WhereAll
<1> QED
  BY <1>2 DEF LinesOf, V

\* All lines to come belong to an execution that began.
LEMMA ComingUpTo ==
  ASSUME Typed, Sorted, NEW to
  PROVE  \A i \in DOMAIN Coming(to) : Coming(to)[i].ex <= exec_counter
<1> DEFINE U == {w \in Works : w.ex <= exec_counter}
           due == Due(todo, Pending, to)
<1>1. todo \in Seq(U)
  <2>1. todo \in Seq(Works) /\ \A i \in DOMAIN todo : todo[i].ex <= exec_counter
    BY DEF Typed, SasTyped, Sorted
  <2>2. \A i \in DOMAIN todo : todo[i] \in U
    BY <2>1
  <2> HIDE DEF U
  <2> QED
    BY <2>1, <2>2, SeqWithin
<1>2. ASSUME NEW i \in DOMAIN Pending PROVE Writes(Pending[i]) \in Seq(U)
  <2> DEFINE ws == Writes(Pending[i])
  <2>1. Pending[i] \in Statements /\ Pending[i].ex <= exec_counter
    BY PendingType DEF Sorted
  <2>2. ws \in Seq(Works) /\ \A j \in DOMAIN ws : ws[j].ex = Pending[i].ex
    BY <2>1, WritesType
  <2> HIDE DEF ws
  <2>3. \A j \in DOMAIN ws : ws[j] \in U
    BY <2>1, <2>2
  <2> HIDE DEF U
  <2>4. ws \in Seq(U)
    BY <2>2, <2>3, SeqWithin
  <2> QED
    BY <2>4 DEF ws
<1>3. U \subseteq Works /\ \A w \in U : Item(w).ex <= exec_counter
  BY DEF Item
<1>4. Pending \in Seq(Statements) /\ Coming(to) = due
  BY StreamsAre
<1> DEFINE p == Pending
           t == todo
<1>5. p \in Seq(Statements) /\ t \in Seq(U) /\ U \subseteq Works
      /\ \A i \in DOMAIN p : Writes(p[i]) \in Seq(U)
  BY <1>1, <1>2, <1>3, <1>4
<1> HIDE DEF U, p, t
<1>6. \A i \in DOMAIN Due(t, p, to) : \E w \in U : w.to = to /\ Due(t, p, to)[i] = Item(w)
  BY <1>5, DueFrom
<1> QED
  BY <1>3, <1>4, <1>6 DEF p, t

\* Once a marker is out, no line of its execution's listing is to come.
LEMMA NoLineAfterMarker ==
  ASSUME NEW t \in Seq(Works), NEW p \in Seq(Statements), NEW n \in Int,
         \A i \in DOMAIN t : t[i].kind \notin MarkerKinds => n < t[i].ex,
         \A i \in DOMAIN p : IsUsers(p[i]) => n < p[i].ex
  PROVE  LinesOf(Due(t, p, "lst"), n) = <<>>
<1> DEFINE due == Due(t, p, "lst")
<1>1. due \in Seq(AnyItems)
  BY DueSplit
<1>2. \A i \in DOMAIN due : due[i].kind \notin MarkerKinds => n < due[i].ex
  BY DueAfter
<1>3. \A i \in DOMAIN due : due[i].kind = "line"
  <2>1. Works \subseteq Works /\ \A i \in DOMAIN p : Writes(p[i]) \in Seq(Works)
    <3>1. \A i \in DOMAIN p : p[i] \in Statements
      OBVIOUS
    <3> QED
      BY <3>1, WritesType
  <2>2. \A i \in DOMAIN Due(t, p, "lst") :
          \E w \in Works : w.to = "lst" /\ Due(t, p, "lst")[i] = Item(w)
    BY <2>1, DueFrom
  <2>3. \A w \in Works : w.to = "lst" => Item(w).kind = "line"
    BY DEF Works, Item
  <2> QED
    BY <2>2, <2>3
<1>4. \A i \in DOMAIN due : due[i].ex # n
  <2>1. "line" \notin MarkerKinds
    BY DEF MarkerKinds
  <2> HIDE DEF due
  <2> QED
    BY <1>2, <1>3, <2>1
<1> HIDE DEF due
<1>5. LinesOf(due, n) = <<>>
  BY <1>1, <1>4, LinesOfNone
<1> QED
  BY <1>5 DEF due

LEMMA ListingFlowExecute ==
  ASSUME StreamInv, StreamInv', NEW prog \in Programs, NEW echo \in Echoes, Execute(prog, echo),
         NEW n, n = exec_counter + 1
  PROVE  ListingFlow'
<1> USE DEF StreamInv
<1> DEFINE d == Prints(n, prog, "lst")
           due == Coming("lst")
           none == <<>>
<1>1. exec_counter' = n /\ n \in 1 .. MaxExecs /\ submitted'[n] = prog
  BY PendingExecute
<1>2. exec_counter \in Nat
  BY DEF Typed, KernelTyped, exec_counter
<1>3. d \in Seq(AnyItems) /\ \A i \in DOMAIN d : d[i].ex = n
  <2>1. d \in Seq(AnyItems)
    BY <1>1, PrintsType
  <2> QED
    BY <2>1 DEF Prints
<1>4. Kept(n)' = none
  BY <1>1, <1>2 DEF Execute, sasVars, Sorted, Kept
<1>5. ~MarkerSeen(n)'
  <2>1. [Next]_streamVars /\ ~SasWrites
    BY DEF Next, Execute, SasWrites, kernelVars
  <2>2. n \in 1 .. exec_counter' /\ n \notin 1 .. exec_counter
    BY <1>1, <1>2
  <2> QED
    BY <2>1, <2>2, SeenStays
<1>6. due \in Seq(AnyItems) /\ Coming("lst")' = due \o d
  BY StreamsAre, FlowExecute
<1>7. \A i \in DOMAIN due : due[i].ex # n
  <2>1. \A i \in DOMAIN due : due[i].ex <= exec_counter
    BY ComingUpTo
  <2> HIDE DEF due
  <2> QED
    BY <1>2, <2>1
<1> HIDE DEF due, d
<1>8. LinesOf(due, n) = none /\ LinesOf(d, n) = d /\ none \o d = d
  BY <1>3, <1>6, <1>7, LinesOfNone, LinesOfAll, ConcatEmptySeq
<1>9. LinesOf(due \o d, n) = LinesOf(due, n) \o LinesOf(d, n)
  BY <1>3, <1>6, LinesOfConcat
<1>10. LinesOf(Coming("lst")', n) = d
  BY <1>6, <1>8, <1>9
<1>11. /\ Kept(n)' \o d = Prints(n, prog, "lst")
       /\ MarkerSeen(n)' => d = <<>>
  BY <1>4, <1>5, <1>8 DEF d
<1> QED
  BY <1>1, <1>3, <1>10, <1>11 DEF ListingFlow

LEMMA ListingFlowSasWrites ==
  ASSUME StreamInv, StreamInv', Bracketed, ListingFlow, SasWrites,
         NEW n, n = exec_counter
  PROVE  ListingFlow'
<1> USE DEF StreamInv
<1> DEFINE w == Head(todo)
           o == Out(<<w>>, "lst")
           later == Coming("lst")'
           more == LinesOf(o, n)
           d == LinesOf(later, n)
           none == <<>>
           one == <<Item(w)>>
           whole == Prints(n, submitted[n], "lst")
<1>1. /\ sas = "alive" /\ UNCHANGED <<submitted, at, sas, printto>> /\ exec_counter' = n
      /\ todo \in Seq(Works) /\ todo # <<>>
  BY DEF SasWrites, kernelVars, exec_counter, Typed, SasTyped
<1>2. SUFFICES ASSUME at # "idle", submitted[n].manages_ods
               PROVE  \E e \in Seq(AnyItems) :
                        /\ Kept(n)' \o e = whole
                        /\ e = LinesOf(later, n)
                        /\ MarkerSeen(n)' => e = none
  BY <1>1 DEF ListingFlow
<1>3. /\ w \in Works /\ o = IF w.to = "lst" THEN one ELSE none
      /\ o \in Seq(AnyItems) /\ later \in Seq(AnyItems) /\ Coming("lst") = o \o later
  BY ComingWrites
<1>4. n \in 1 .. MaxExecs /\ n \in Nat /\ n # 0
  BY <1>2, Bounds, SMTT(40) DEF Placed, Typed, KernelTyped, exec_counter
<1> HIDE DEF o, later
<1>5. more \in Seq(AnyItems) /\ d \in Seq(AnyItems) /\ LinesOf(o \o later, n) = more \o d
  BY <1>3, LinesOfConcat
<1>6. Kept(n) \in Seq(AnyItems) /\ Kept(n) \in Seq(ListingItems)
  BY KeptType
<1>7. Kept(n) \o (more \o d) = whole
  BY <1>1, <1>2, <1>3, <1>5 DEF ListingFlow
<1>8. Kept(n)' = Kept(n) \o more
  <2>1. CASE w.to # "lst"
    <3>1. listing' = listing /\ o = none
      BY <1>3, <2>1, ItemType DEF SasWrites
    <3>2. more = none
      <4>1. \A i \in DOMAIN o : o[i].ex # n
        BY <3>1
      <4> QED
        BY <1>3, <4>1, LinesOfNone
    <3>3. Kept(n) \o none = Kept(n)
      BY <1>6, ConcatEmptySeq
    <3> QED
      BY <3>1, <3>2, <3>3 DEF Kept
  <2>2. CASE w.to = "lst"
    <3>1. /\ o = one /\ Len(o) = 1 /\ o[1] = Item(w) /\ Item(w).ex = w.ex
          /\ listing' = IF printto \in DOMAIN listing
                        THEN [listing EXCEPT ![printto] = Append(@, Item(w))] ELSE listing
      BY <1>3, <2>2 DEF SasWrites, Item
    <3>2. printto = Target(submitted, w.ex)
      <4>1. 1 \in DOMAIN todo /\ todo[1] = w /\ w.kind = "line" /\ w.kind \notin MarkerKinds
        BY <1>1, <1>3, <2>2, HeadTailProperties DEF Works, MarkerKinds
      <4> QED
        BY <1>1, <4>1 DEF Bracketed
    <3>3. \A i \in DOMAIN o : o[i].ex = w.ex
      BY <3>1
    <3>4. CASE w.ex = n
      <4>1. printto = n /\ n \in DOMAIN listing
        BY <1>1, <1>2, <3>2, <3>4 DEF Bracketed, Target
      <4>2. Kept(n) = listing[n] /\ Kept(n)' = Append(listing[n], Item(w))
        BY <3>1, <4>1 DEF Kept, Typed, ListingTyped
      <4>3. more = one
        BY <1>3, <3>1, <3>3, <3>4, LinesOfAll
      <4>4. Item(w) \in ListingItems
        BY <1>3, <2>2, ItemType
      <4>5. Append(Kept(n), Item(w)) = Kept(n) \o <<Item(w)>>
        BY <1>6, <4>4, AppendIsConcat
      <4> QED
        BY <4>2, <4>3, <4>5
    <3>5. CASE w.ex # n
      <4>1. printto # n
        BY <1>4, <3>2, <3>5 DEF Target
      <4>2. Kept(n)' = Kept(n)
        BY <3>1, <4>1 DEF Kept, Typed, ListingTyped
      <4>3. more = none
        BY <1>3, <3>3, <3>5, LinesOfNone
      <4>4. Kept(n) \o none = Kept(n)
        BY <1>6, ConcatEmptySeq
      <4> QED
        BY <4>2, <4>3, <4>4
    <3> QED
      BY <3>4, <3>5
  <2> QED
    BY <2>1, <2>2
<1>9. MarkerSeen(n)' => d = none
  <2> SUFFICES ASSUME MarkerSeen(n)' PROVE d = none
    OBVIOUS
  <2>1. DoneUpTo(n)'
    BY <1>1, <1>4 DEF Ordered
  <2>2. todo' \in Seq(Works) /\ Pending' \in Seq(Statements)
    <3>1. todo' \in Seq(Works)
      BY DEF Typed, SasTyped
    <3>2. Pending' = Pending
      BY DEF SasWrites, kernelVars, Pending
    <3> QED
      BY <3>1, <3>2, PendingIs
  <2>3. Coming("lst")' = Due(todo', Pending', "lst")
    BY DEF Coming, Due, Out, ItemsOf, Later, WrittenBy
  <2>4. /\ \A i \in DOMAIN todo' : todo'[i].kind \notin MarkerKinds => n < todo'[i].ex
        /\ \A i \in DOMAIN Pending' : IsUsers(Pending'[i]) => n < Pending'[i].ex
    BY <2>1 DEF DoneUpTo
  <2>5. LinesOf(Due(todo', Pending', "lst"), n) = <<>>
    BY <1>4, <2>2, <2>4, NoLineAfterMarker
  <2> QED
    BY <2>3, <2>5 DEF later
<1> DEFINE kept == Kept(n)
<1>10. kept \in Seq(AnyItems) /\ more \in Seq(AnyItems) /\ d \in Seq(AnyItems)
  BY <1>5, <1>6
<1> HIDE DEF kept, more, d
<1>11. (kept \o more) \o d = kept \o (more \o d)
  BY ONLY <1>10, Associative
<1>12. Kept(n)' \o d = whole
  BY <1>7, <1>8, <1>11 DEF kept
<1>13. d = LinesOf(later, n)
  BY DEF d
<1> HIDE DEF whole
<1> QED
  BY <1>9, <1>10, <1>12, <1>13

LEMMA ListingFlowStep ==
  ASSUME StreamInv, StreamInv', Bracketed, ListingFlow, [Next]_streamVars
  PROVE  ListingFlow'
<1> USE DEF StreamInv
<1>1. CASE \E prog \in Programs, echo \in Echoes : Execute(prog, echo)
  <2>1. PICK n \in Nat : n = exec_counter + 1
    BY DEF Typed, KernelTyped, exec_counter
  <2> QED
    BY <1>1, <2>1, ListingFlowExecute
<1>2. CASE SasWrites
  <2>1. PICK n : n = exec_counter
    OBVIOUS
  <2> QED
    BY <1>2, <2>1, ListingFlowSasWrites
<1>3. CASE Return
  BY <1>3 DEF Return, ListingFlow
<1>4. CASE /\ ~SasWrites /\ ~Return
           /\ ~(\E prog \in Programs, echo \in Echoes : Execute(prog, echo))
  <2>1. PICK n : n = exec_counter
    OBVIOUS
  <2>2. UNCHANGED submitted /\ exec_counter' = n /\ (at' # "idle" => at # "idle")
    BY <1>4, <2>1 DEF Next, KernelStep, streamVars, kernelVars, sasVars, Send, PollFinds,
       PollTimesOut, PollHangsUp, PollInterrupted, ReadStdout, ReadStderr, SasReads, SasDies,
       exec_counter
  <2>3. Kept(n)' = Kept(n)
    <3>1. CASE SasReads
      <4>1. Head(stdin) = Pending[1] /\ 1 \in 1 .. Len(Pending)
        BY <3>1, PendingReads, PendingIs
      <4>2. Head(stdin).does = "printto" => Head(stdin).ex \notin DOMAIN listing
        BY <3>1, <4>1 DEF Bracketed, SasReads
      <4> QED
        BY <3>1, <4>2 DEF SasReads, Kept
    <3>2. CASE ~SasReads
      BY <1>4, <3>2 DEF Kept, Next, KernelStep, streamVars, kernelVars, sasVars, Send,
         PollFinds, PollTimesOut, PollHangsUp, PollInterrupted, ReadStdout, ReadStderr, SasDies
    <3> QED
      BY <3>1, <3>2
  <2>4. sas' = "alive" => sas = "alive" /\ Coming("lst")' = Coming("lst")
    BY <1>4, FlowCases
  <2> SUFFICES ASSUME at # "idle", submitted[n].manages_ods
               PROVE  \E d \in Seq(AnyItems) :
                        /\ Kept(n) \o d = Prints(n, submitted[n], "lst")
                        /\ sas' = "alive" => d = LinesOf(Coming("lst")', n)
                        /\ MarkerSeen(n)' => d = <<>>
    BY <2>2, <2>3 DEF ListingFlow
  <2>5. PICK d \in Seq(AnyItems) :
          /\ Kept(n) \o d = Prints(n, submitted[n], "lst")
          /\ sas = "alive" => d = LinesOf(Coming("lst"), n)
          /\ MarkerSeen(n) => d = <<>>
    BY <2>1 DEF ListingFlow
  <2>6. MarkerSeen(n)' => MarkerSeen(n)
    <3>1. n \in 1 .. exec_counter'
      BY <2>1, <2>2 DEF Placed, Typed, KernelTyped, exec_counter
    <3> QED
      BY <1>4, <3>1, SeenStays
  <2> QED
    BY <2>4, <2>5, <2>6
<1> QED
  BY <1>1, <1>2, <1>3, <1>4

LEMMA ListingsExactStep ==
  ASSUME StreamInv, ListingFlow, ListingsExact, [Next]_streamVars
  PROVE  ListingsExact'
<1> USE DEF StreamInv
<1>1. CASE Return
  <2>1. PICK n : n = exec_counter
    OBVIOUS
  <2>2. /\ results \in Seq(Results) /\ Len(results) = n - 1 /\ n \in Nat \ {0}
        /\ UNCHANGED submitted /\ at # "idle"
    BY <1>1, <2>1 DEF Return, Placed, Typed, KernelTyped, exec_counter
  <2>3. /\ DOMAIN results = 1 .. n - 1 /\ DOMAIN results' = 1 .. n
        /\ \A k \in 1 .. n - 1 : results'[k] = results[k]
        /\ results'[n].found = found_marker
        /\ submitted[n].manages_ods => results'[n].listing = Kept(n)
    BY <1>1, <2>1, <2>2 DEF Return, Kept, ManagesOds
  <2>4. ASSUME found_marker, submitted[n].manages_ods
        PROVE  Kept(n) = Prints(n, submitted[n], "lst")
    <3>1. PICK d \in Seq(AnyItems) :
            /\ Kept(n) \o d = Prints(n, submitted[n], "lst")
            /\ MarkerSeen(n) => d = <<>>
      BY <2>1, <2>2, <2>4 DEF ListingFlow
    <3>2. MarkerSeen(n)
      BY <2>1, <2>4 DEF MarkerSeen
    <3>3. Kept(n) \in Seq(AnyItems)
      BY KeptType
    <3>4. Kept(n) \o <<>> = Kept(n)
      BY <3>3, ConcatEmptySeq
    <3> QED
      BY <3>1, <3>2, <3>4
  <2>5. \A m \in 1 .. n : m = n \/ m \in 1 .. n - 1
    BY <2>2
  <2> QED
    BY <2>2, <2>3, <2>4, <2>5 DEF ListingsExact
<1>2. CASE \E prog \in Programs, echo \in Echoes : Execute(prog, echo)
  <2>1. results' = results /\ submitted \in Seq(Programs) /\ Len(results) = Len(submitted)
        /\ results \in Seq(Results)
    BY <1>2 DEF Execute, Placed, Typed, KernelTyped, exec_counter
  <2>2. \A n \in DOMAIN results : submitted'[n] = submitted[n]
    <3>1. \A n \in 1 .. exec_counter : submitted'[n] = submitted[n]
      BY <1>2, PendingExecute
    <3> QED
      BY <2>1, <3>1 DEF exec_counter
  <2> QED
    BY <2>1, <2>2 DEF ListingsExact
<1>3. CASE UNCHANGED <<results, submitted>>
  BY <1>3 DEF ListingsExact
<1> QED
  BY <1>1, <1>2, <1>3 DEF Next, KernelStep, streamVars, kernelVars, sasVars, Send, PollFinds,
     PollTimesOut, PollHangsUp, PollInterrupted, ReadStdout, ReadStderr, SasReads, SasWrites,
     SasDies

\* The inductive invariant of the results.
ExactInv == FlowInv /\ Owned /\ Bracketed /\ ListingFlow /\ ListingsExact

LEMMA ExactInit == Init => Owned /\ ListingFlow /\ ListingsExact
<1> SUFFICES ASSUME Init PROVE Owned /\ ListingFlow /\ ListingsExact
  OBVIOUS
<1>1. /\ at = "idle" /\ results = <<>> /\ log_output = <<>> /\ stderr = <<>>
      /\ found_marker = FALSE /\ exec_counter = 0
  BY DEF Init, exec_counter
<1> QED
  BY <1>1 DEF Owned, LogUpTo, LogAfter, ListingFlow, ListingsExact

LEMMA ExactInvariant == Spec => []ExactInv
<1>1. Init => Owned /\ Bracketed /\ ListingFlow /\ ListingsExact
  BY ExactInit, BracketedInit
<1>2. FlowInv /\ FlowInv' /\ Owned /\ Bracketed /\ ListingFlow /\ ListingsExact
        /\ [Next]_streamVars
      => Owned' /\ Bracketed' /\ ListingFlow' /\ ListingsExact'
  BY OwnedStep, BracketedStep, ListingFlowStep, ListingsExactStep DEF FlowInv
<1> QED
  BY <1>1, <1>2, FlowInvariant, PTL DEF Spec, ExactInv

\* While every execution so far ended on its marker, whatever the programs print
\* and however reads cut the streams: what sas_session::impl::execute returns is the
\* log and the listing of its own code, complete and in order, and is an error if
\* and only if that code logged one.
THEOREM StreamCleanRunExact == Spec => []CleanRunExact
<1>1. ExactInv => CleanRunExact
  <2> SUFFICES ASSUME ExactInv, NEW n \in 1 .. Len(results), Clean(n)
               PROVE  /\ User(results[n].log) = Prints(n, submitted[n], "err")
                      /\ submitted[n].manages_ods =>
                           results[n].listing = Prints(n, submitted[n], "lst")
                      /\ results[n].is_error <=> Has(Prints(n, submitted[n], "err"), "error")
    BY DEF CleanRunExact
  <2>1. User(results[n].log) = Prints(n, submitted[n], "err")
    BY CleanLog DEF ExactInv
  <2>2. results \in Seq(Results) /\ n \in DOMAIN results
    BY DEF ExactInv, FlowInv, StreamInv, Typed, KernelTyped
  <2>3. results[n].found
    BY <2>2 DEF Clean
  <2>4. submitted[n].manages_ods => results[n].listing = Prints(n, submitted[n], "lst")
    BY <2>2, <2>3 DEF ExactInv, ListingsExact
  <2>5. results[n].is_error <=> Has(results[n].log, "error")
    BY <2>2 DEF ExactInv, Owned
  <2>6. results[n].log \in Seq(AnyItems)
    <3>1. results[n] \in Results
      BY <2>2
    <3>2. results[n].log \in Seq(Items)
      BY <3>1 DEF Results
    <3> QED
      BY <3>2, SeqMonotonic DEF AnyItems
  <2>7. Has(results[n].log, "error") <=> Has(User(results[n].log), "error")
    BY <2>6, HasError
  <2> QED
    BY <2>1, <2>4, <2>5, <2>7
<1> QED
  BY <1>1, ExactInvariant, PTL

=============================================================================
