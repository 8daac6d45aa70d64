-------------------------- MODULE StreamJobs_proof --------------------------
(***************************************************************************)
(* For any programs, pipes and limits: every step that execute and SAS     *)
(* take on the streams is a step that SasSession allows, or none.          *)
(*                                                                         *)
(* What has to be known for it: while SAS lives, the markers that are      *)
(* still to come are those of the executions behind the last finished one, *)
(* each once and in order.                                                 *)
(***************************************************************************)
EXTENDS StreamJobs, ExecuteStream_proof

StartKinds == {"echo", "mark1"}

\* The statement that makes the session count its execution as finished.
Starts(stmt) == \E i \in DOMAIN stmt.writes : stmt.writes[i].kind \in StartKinds

\* How much of the latest code has been sent.
SendingInv ==
  /\ \A i \in DOMAIN unsent : unsent[i].ex = exec_counter
  /\ at \in {"send", "killed"} => exec_counter > 0 /\ unsent # <<>>
  /\ NothingSent => Len(unsent) > 1
  /\ at = "send" =>
       Len(unsent) <= Len(WrappedCode(exec_counter, submitted[exec_counter], FALSE))

\* What the latest result and the variables of execute have in common.
ResultKept ==
  IF at # "idle" THEN TRUE
  ELSE IF exec_counter = 0 THEN log_output = <<>> /\ ~found_marker
  ELSE results[exec_counter].log = log_output /\ results[exec_counter].found = found_marker

\* SAS only works on what has been sent.
OnlySent ==
  /\ Finished \subseteq 1 .. JobsSent
  /\ \A i \in DOMAIN stdin : stdin[i].ex <= JobsSent
  /\ \A i \in DOMAIN todo : todo[i].ex <= JobsSent

\* The markers that are still to come.
MarkersToCome ==
  sas = "alive" =>
    /\ \A i \in DOMAIN Pending : Starts(Pending[i]) => LastFinished < Pending[i].ex
    /\ \A i, j \in DOMAIN Pending :
         i < j /\ Starts(Pending[i]) /\ Starts(Pending[j]) => Pending[i].ex < Pending[j].ex
    /\ \A k \in DOMAIN todo : todo[k].kind \in StartKinds =>
         /\ todo[k].ex <= LastFinished + 1
         /\ \A i \in DOMAIN Pending : Starts(Pending[i]) => todo[k].ex < Pending[i].ex
         /\ \A l \in DOMAIN todo : todo[l].ex = todo[k].ex
    /\ \A n \in LastFinished + 1 .. exec_counter :
         \/ \E i \in DOMAIN Pending : Starts(Pending[i]) /\ Pending[i].ex = n
         \/ \E k \in DOMAIN todo : todo[k].kind \in StartKinds /\ todo[k].ex = n

JobsInv == SendingInv /\ ResultKept /\ OnlySent /\ MarkersToCome

-----------------------------------------------------------------------------
(***************************************************************************)
(* The last finished execution.                                            *)
(***************************************************************************)

LEMMA MaxIsGreatest ==
  ASSUME NEW N \in Nat, NEW S, S \subseteq 0 .. N, S # {}
  PROVE  Max(S) \in S /\ \A y \in S : y <= Max(S)
<1> DEFINE T == {k \in 0 .. N : N - k \in S}
<1>1. T \subseteq Nat /\ T # {}
  <2>1. PICK y \in S : TRUE
    OBVIOUS
  <2>2. N - y \in 0 .. N /\ N - (N - y) = y
    OBVIOUS
  <2> QED
    BY <2>1, <2>2
<1>2. PICK k \in T : \A j \in T : ~(<<j, k>> \in OpToRel(<, Nat))
  <2> HIDE DEF T
  <2> QED
    BY <1>1, NatLessThanWellFounded, WFMin
<1>3. \A j \in T : k <= j
  <2> TAKE j \in T
  <2>1. k \in Nat /\ j \in Nat /\ ~(j < k)
    BY <1>1, <1>2 DEF OpToRel
  <2> QED
    BY <2>1
<1>4. N - k \in S /\ \A y \in S : y <= N - k
  <2>1. k \in 0 .. N /\ N - k \in S
    BY <1>2
  <2>2. ASSUME NEW y \in S PROVE y <= N - k
    <3>1. y \in 0 .. N /\ N - y \in T
      OBVIOUS
    <3>2. k <= N - y
      BY <1>3, <3>1
    <3> QED
      BY <2>1, <3>1, <3>2
  <2> QED
    BY <2>1, <2>2
<1> QED
  BY <1>4 DEF Max

LEMMA LastIs ==
  ASSUME NEW N \in Nat, NEW S, S \subseteq 1 .. N
  PROVE  /\ Max(S \cup {0}) \in 0 .. N
         /\ Max(S \cup {0}) \in S \cup {0}
         /\ \A n \in S : n <= Max(S \cup {0})
<1>1. S \cup {0} \subseteq 0 .. N /\ S \cup {0} # {}
  OBVIOUS
<1> QED
  BY <1>1, MaxIsGreatest

LEMMA JobsSentType ==
  ASSUME StreamInv, JobsInv
  PROVE  /\ exec_counter \in Nat /\ exec_counter <= MaxExecs
         /\ JobsSent \in Nat /\ JobsSent = IF NothingSent THEN exec_counter - 1 ELSE exec_counter
         /\ LastFinished \in 0 .. JobsSent
         /\ LastFinished \in Finished \cup {0}
         /\ \A n \in Finished : n <= LastFinished
<1>1. exec_counter \in Nat /\ exec_counter <= MaxExecs
  BY DEF StreamInv, Typed, KernelTyped, exec_counter
<1>2. JobsSent \in Nat
  <2>1. NothingSent => exec_counter > 0
    BY DEF JobsInv, SendingInv, NothingSent
  <2> QED
    BY <1>1, <2>1 DEF JobsSent
<1>3. Finished \subseteq 1 .. JobsSent
  BY DEF JobsInv, OnlySent
<1> QED
  BY <1>1, <1>2, <1>3, LastIs DEF LastFinished, JobsSent

\* When execution n finishes next, or has finished already.
LEMMA LastGrows ==
  ASSUME NEW N \in Nat, NEW S, S \subseteq 1 .. N, NEW n \in 1 .. N,
         n <= Max(S \cup {0}) + 1
  PROVE  Max((S \cup {n}) \cup {0}) = IF n <= Max(S \cup {0}) THEN Max(S \cup {0}) ELSE n
<1> DEFINE old == Max(S \cup {0})
           new == Max((S \cup {n}) \cup {0})
<1>1. old \in 0 .. N /\ old \in S \cup {0} /\ \A y \in S : y <= old
  BY LastIs
<1>2. S \cup {n} \subseteq 1 .. N
  OBVIOUS
<1>3. new \in 0 .. N /\ new \in (S \cup {n}) \cup {0} /\ \A y \in S \cup {n} : y <= new
  BY <1>2, LastIs
<1> HIDE DEF old, new
<1>4. n <= old + 1
  BY DEF old
<1>5. new = IF n <= old THEN old ELSE n
  BY <1>1, <1>3, <1>4
<1> QED
  BY <1>5 DEF old, new

LEMMA FinishedSame ==
  ASSUME UNCHANGED <<submitted, results, log_output, found_marker, stderr>>
  PROVE  Finished' = Finished /\ LastFinished' = LastFinished
BY DEF Finished, InResults, Marked, LastFinished, exec_counter

LEMMA MarkedConcat ==
  ASSUME NEW s \in Seq(Items), NEW t \in Seq(Items)
  PROVE  Marked(s \o t) = Marked(s) \cup Marked(t)
<1>1. /\ s \o t \in Seq(Items) /\ Len(s) \in Nat /\ Len(t) \in Nat
      /\ Len(s \o t) = Len(s) + Len(t)
      /\ \A i \in 1 .. Len(s) : (s \o t)[i] = s[i]
      /\ \A i \in 1 .. Len(t) : (s \o t)[Len(s) + i] = t[i]
  BY ConcatProperties
<1> DEFINE u == s \o t
<1>2. DOMAIN u = 1 .. Len(s) + Len(t) /\ DOMAIN s = 1 .. Len(s) /\ DOMAIN t = 1 .. Len(t)
  BY <1>1
<1> HIDE DEF u
<1>3. ASSUME NEW n \in Marked(u) PROVE n \in Marked(s) \cup Marked(t)
  <2>1. PICK i \in DOMAIN u : u[i].kind \in {"echo", "mark1"} /\ u[i].ex = n
    BY <1>3 DEF Marked
  <2>2. CASE i \in 1 .. Len(s)
    BY <1>1, <1>2, <2>1, <2>2 DEF Marked, u
  <2>3. CASE i \notin 1 .. Len(s)
    <3>1. i - Len(s) \in 1 .. Len(t) /\ Len(s) + (i - Len(s)) = i
      BY <1>1, <1>2, <2>3
    <3>2. u[i] = t[i - Len(s)]
      BY <1>1, <3>1 DEF u
    <3> QED
      BY <1>2, <2>1, <3>1, <3>2 DEF Marked
  <2> QED
    BY <2>2, <2>3
<1>4. ASSUME NEW n \in Marked(s) PROVE n \in Marked(u)
  <2>1. PICK i \in DOMAIN s : s[i].kind \in {"echo", "mark1"} /\ s[i].ex = n
    BY <1>4 DEF Marked
  <2>2. i \in DOMAIN u /\ u[i] = s[i]
    BY <1>1, <1>2 DEF u
  <2> QED
    BY <2>1, <2>2 DEF Marked
<1>5. ASSUME NEW n \in Marked(t) PROVE n \in Marked(u)
  <2>1. PICK i \in DOMAIN t : t[i].kind \in {"echo", "mark1"} /\ t[i].ex = n
    BY <1>5 DEF Marked
  <2>2. Len(s) + i \in DOMAIN u /\ u[Len(s) + i] = t[i]
    BY <1>1, <1>2 DEF u
  <2> QED
    BY <2>1, <2>2 DEF Marked
<1> QED
  BY <1>3, <1>4, <1>5 DEF u

LEMMA LogMarks ==
  ASSUME StreamInv
  PROVE  Marked(log_output) \subseteq 1 .. MaxExecs
<1> SUFFICES ASSUME NEW i \in DOMAIN log_output PROVE log_output[i].ex \in 1 .. MaxExecs
  BY DEF Marked
<1>1. log_output[i] \in Items
  BY DEF StreamInv, Typed, KernelTyped
<1> QED
  BY <1>1 DEF Items

LEMMA FinishedExecute ==
  ASSUME StreamInv, ResultKept, NEW prog \in Programs, NEW echo \in Echoes, Execute(prog, echo)
  PROVE  Finished' = Finished /\ LastFinished' = LastFinished
<1>1. /\ UNCHANGED <<results, stderr>> /\ log_output' = <<>> /\ ~found_marker'
      /\ at = "idle" /\ Len(results) = exec_counter /\ exec_counter \in Nat
  BY DEF Execute, sasVars, StreamInv, Typed, KernelTyped, Placed, exec_counter
<1>2. Marked(<<>>) = {}
  BY DEF Marked
<1>3. InResults' = InResults
  BY <1>1 DEF InResults
<1>4. Marked(log_output) \subseteq 1 .. MaxExecs
  BY LogMarks
<1>5. Marked(log_output) \subseteq InResults /\ (found_marker => exec_counter \in InResults)
  <2>1. CASE exec_counter = 0
    BY <1>1, <1>2, <2>1 DEF ResultKept
  <2>2. CASE exec_counter # 0
    <3>1. exec_counter \in 1 .. Len(results) /\ exec_counter \in 1 .. MaxExecs
      BY <1>1, <2>2, Bounds DEF StreamInv, Typed, KernelTyped, exec_counter
    <3>2. results[exec_counter].log = log_output /\ results[exec_counter].found = found_marker
      BY <1>1, <2>2 DEF ResultKept
    <3> QED
      BY <1>4, <3>1, <3>2 DEF InResults
  <2> QED
    BY <2>1, <2>2
<1>6. Finished' = Finished
  BY <1>1, <1>2, <1>3, <1>5 DEF Finished
<1> QED
  BY <1>6 DEF LastFinished

LEMMA FinishedReturn ==
  ASSUME StreamInv, Return
  PROVE  Finished' = Finished /\ LastFinished' = LastFinished
<1>1. /\ UNCHANGED <<submitted, stderr, log_output, found_marker>> /\ exec_counter' = exec_counter
      /\ Len(results) = exec_counter - 1 /\ results \in Seq(Results)
      /\ exec_counter \in Nat \ {0}
  BY DEF Return, StreamInv, Placed, Typed, KernelTyped, exec_counter
<1>2. /\ Len(results') = exec_counter
      /\ \A n \in 1 .. exec_counter - 1 : results'[n] = results[n]
      /\ results'[exec_counter].found = found_marker
      /\ results'[exec_counter].log = log_output
  BY <1>1 DEF Return
<1>3. Marked(log_output) \subseteq 1 .. MaxExecs /\ exec_counter \in 1 .. MaxExecs
  BY <1>1, LogMarks, Bounds DEF StreamInv, Typed, KernelTyped, exec_counter
<1>4. InResults' = InResults \cup Marked(log_output)
                     \cup (IF found_marker THEN {exec_counter} ELSE {})
  <2>1. \A n \in 1 .. MaxExecs :
          (\E m \in 1 .. exec_counter :
             n \in Marked(results'[m].log) \/ (n = m /\ results'[m].found))
          <=> \/ \E m \in 1 .. exec_counter - 1 :
                   n \in Marked(results[m].log) \/ (n = m /\ results[m].found)
              \/ n \in Marked(log_output)
              \/ n = exec_counter /\ found_marker
    BY <1>1, <1>2
  <2>2. InResults' = {n \in 1 .. MaxExecs : \E m \in 1 .. exec_counter :
                        n \in Marked(results'[m].log) \/ (n = m /\ results'[m].found)}
    BY <1>2 DEF InResults, Marked
  <2>3. InResults = {n \in 1 .. MaxExecs : \E m \in 1 .. exec_counter - 1 :
                        n \in Marked(results[m].log) \/ (n = m /\ results[m].found)}
    BY <1>1 DEF InResults
  <2> QED
    BY <1>3, <2>1, <2>2, <2>3
<1>5. Finished' = Finished
  BY <1>1, <1>4 DEF Finished
<1> QED
  BY <1>5 DEF LastFinished

LEMMA MarkedIs ==
  ASSUME NEW s \in Seq(Items), NEW n
  PROVE  n \in Marked(s) <=> \E i \in 1 .. Len(s) : s[i].kind \in StartKinds /\ s[i].ex = n
BY DEF Marked, StartKinds

LEMMA MarkedSubSeq ==
  ASSUME NEW s \in Seq(Items), NEW a \in 1 .. Len(s) + 1, NEW b \in 0 .. Len(s)
  PROVE  /\ SubSeq(s, a, b) \in Seq(Items)
         /\ \A n : n \in Marked(SubSeq(s, a, b)) <=>
              \E i \in a .. b : s[i].kind \in StartKinds /\ s[i].ex = n
<1> DEFINE part == SubSeq(s, a, b)
<1>1. Len(s) \in Nat /\ \A i \in a .. b : s[i] \in Items
  OBVIOUS
<1>2. /\ part \in Seq(Items) /\ Len(part) = (IF a <= b THEN b - a + 1 ELSE 0)
      /\ \A i \in 1 .. b - a + 1 : part[i] = s[a + i - 1]
  BY <1>1, SubSeqProperties
<1> HIDE DEF part
<1>3. ASSUME NEW n, n \in Marked(part)
      PROVE  \E i \in a .. b : s[i].kind \in StartKinds /\ s[i].ex = n
  <2>1. PICK i \in 1 .. Len(part) : part[i].kind \in StartKinds /\ part[i].ex = n
    BY <1>2, <1>3, MarkedIs
  <2>2. a + i - 1 \in a .. b /\ part[i] = s[a + i - 1]
    BY <1>1, <1>2
  <2> QED
    BY <2>1, <2>2
<1>4. ASSUME NEW n, NEW i \in a .. b, s[i].kind \in StartKinds, s[i].ex = n
      PROVE  n \in Marked(part)
  <2>1. i - a + 1 \in 1 .. Len(part) /\ i - a + 1 \in 1 .. b - a + 1 /\ a + (i - a + 1) - 1 = i
    BY <1>1, <1>2
  <2>2. part[i - a + 1] = s[i]
    BY <1>2, <2>1
  <2> QED
    BY <1>2, <1>4, <2>1, <2>2, MarkedIs
<1> QED
  BY <1>2, <1>3, <1>4 DEF part

LEMMA ChunkMarks ==
  ASSUME NEW pipe \in Seq(Items)
  PROVE  Marked(pipe) = Marked(Chunk(pipe)) \cup Marked(Rest(pipe))
<1> DEFINE n == IF Len(pipe) < ReadSize THEN Len(pipe) ELSE ReadSize
<1>1. n \in 0 .. Len(pipe) /\ Len(pipe) \in Nat
  BY Bounds
<1>2. Chunk(pipe) = SubSeq(pipe, 1, n)
  BY DEF Chunk
<1> HIDE DEF n
<1>3. Len(Chunk(pipe)) = n
  <2>1. \A i \in 1 .. n : pipe[i] \in Items
    BY <1>1
  <2> QED
    BY <1>1, <1>2, <2>1, SubSeqProperties
<1>4. Rest(pipe) = SubSeq(pipe, n + 1, Len(pipe))
  BY <1>3 DEF Rest
<1>5. \A m : m \in Marked(Chunk(pipe)) <=>
        \E i \in 1 .. n : pipe[i].kind \in StartKinds /\ pipe[i].ex = m
  BY <1>1, <1>2, MarkedSubSeq
<1>6. \A m : m \in Marked(Rest(pipe)) <=>
        \E i \in n + 1 .. Len(pipe) : pipe[i].kind \in StartKinds /\ pipe[i].ex = m
  <2>1. n + 1 \in 1 .. Len(pipe) + 1 /\ Len(pipe) \in 0 .. Len(pipe)
    BY <1>1
  <2> QED
    BY <1>4, <2>1, MarkedSubSeq, SMTT(40)
<1>7. \A i : i \in 1 .. Len(pipe) <=> i \in 1 .. n \/ i \in n + 1 .. Len(pipe)
  BY <1>1
<1>8. \A m : m \in Marked(pipe) <=> m \in Marked(Chunk(pipe)) \/ m \in Marked(Rest(pipe))
  BY <1>5, <1>6, <1>7, MarkedIs
<1> QED
  BY <1>8

\* What is cut out of a chunk is one marker, that of the execution in progress.
LEMMA StripMarks ==
  ASSUME NEW chunk \in Seq(Items)
  PROVE  Marked(chunk) =
           Marked(Strip(chunk)) \cup (IF Markers(chunk) # {} THEN {exec_counter} ELSE {})
<1>1. CASE Markers(chunk) = {}
  BY <1>1 DEF Strip
<1>2. CASE Markers(chunk) # {}
  <2> DEFINE first == CHOOSE i \in Markers(chunk) : \A j \in Markers(chunk) : i <= j
             last == IF chunk[first].kind = "echo" THEN first ELSE first + 1
             before == SubSeq(chunk, 1, first - 1)
             behind == SubSeq(chunk, last + 1, Len(chunk))
  <2>1. first \in Markers(chunk)
    BY <1>2, LeastMarker
  <2>2. Strip(chunk) = before \o behind
    BY <1>2 DEF Strip
  <2> HIDE DEF first
  <2>3. /\ first \in 1 .. Len(chunk) /\ Len(chunk) \in Nat
        /\ chunk[first].ex = exec_counter /\ chunk[first].kind \in StartKinds
        /\ chunk[first].kind # "echo" => first < Len(chunk) /\ chunk[first + 1].kind = "mark2"
    <3>1. first \in 1 .. Len(chunk) /\ MarkerAt(chunk, first) /\ Len(chunk) \in Nat
      BY <2>1 DEF Markers
    <3>2. chunk[first] \in Items
      BY <3>1
    <3> QED
      BY <3>1, <3>2 DEF MarkerAt, IsCurrent, StartKinds, Items
  <2>4. last \in first .. Len(chunk) /\ \A i \in first + 1 .. last : chunk[i].kind \notin StartKinds
    BY <2>3 DEF StartKinds
  <2> HIDE DEF last
  <2>5. /\ before \in Seq(Items)
        /\ \A n : n \in Marked(before) <=>
             \E i \in 1 .. first - 1 : chunk[i].kind \in StartKinds /\ chunk[i].ex = n
    <3>1. 1 \in 1 .. Len(chunk) + 1 /\ first - 1 \in 0 .. Len(chunk)
      BY <2>3
    <3> QED
      BY <3>1, MarkedSubSeq
  <2>6. /\ behind \in Seq(Items)
        /\ \A n : n \in Marked(behind) <=>
             \E i \in last + 1 .. Len(chunk) : chunk[i].kind \in StartKinds /\ chunk[i].ex = n
    <3>1. last + 1 \in 1 .. Len(chunk) + 1 /\ Len(chunk) \in 0 .. Len(chunk)
      BY <2>3, <2>4
    <3> QED
      BY <3>1, MarkedSubSeq
  <2>7. Marked(Strip(chunk)) = Marked(before) \cup Marked(behind)
    BY <2>2, <2>5, <2>6, MarkedConcat
  <2> HIDE DEF before, behind
  <2>8. ASSUME NEW n
        PROVE  n \in Marked(chunk) <=> n \in Marked(before) \/ n \in Marked(behind) \/ n = exec_counter
    <3>1. \A i : i \in 1 .. Len(chunk) <=>
            \/ i \in 1 .. first - 1 \/ i = first
            \/ i \in first + 1 .. last \/ i \in last + 1 .. Len(chunk)
      BY <2>3, <2>4
    <3>2. ASSUME n \in Marked(chunk)
          PROVE  n \in Marked(before) \/ n \in Marked(behind) \/ n = exec_counter
      <4>1. PICK i \in 1 .. Len(chunk) : chunk[i].kind \in StartKinds /\ chunk[i].ex = n
        BY <3>2, MarkedIs
      <4>2. CASE i \in 1 .. first - 1
        BY <2>5, <4>1, <4>2
      <4>3. CASE i \in last + 1 .. Len(chunk)
        BY <2>6, <4>1, <4>3
      <4> QED
        BY <2>3, <2>4, <3>1, <4>1, <4>2, <4>3
    <3>3. ASSUME n \in Marked(before) PROVE n \in Marked(chunk)
      <4>1. PICK i \in 1 .. first - 1 : chunk[i].kind \in StartKinds /\ chunk[i].ex = n
        BY <2>5, <3>3
      <4>2. i \in 1 .. Len(chunk)
        BY <2>3
      <4> QED
        BY <4>1, <4>2, MarkedIs
    <3>4. ASSUME n \in Marked(behind) PROVE n \in Marked(chunk)
      <4>1. PICK i \in last + 1 .. Len(chunk) : chunk[i].kind \in StartKinds /\ chunk[i].ex = n
        BY <2>6, <3>4
      <4>2. i \in 1 .. Len(chunk)
        BY <2>3, <2>4
      <4> QED
        BY <4>1, <4>2, MarkedIs
    <3>5. exec_counter \in Marked(chunk)
      BY <2>3, MarkedIs
    <3> QED
      BY <3>2, <3>3, <3>4, <3>5
  <2> QED
    BY <1>2, <2>7, <2>8
<1> QED
  BY <1>1, <1>2

LEMMA FinishedReadStderr ==
  ASSUME StreamInv, ReadStderr
  PROVE  Finished' = Finished /\ LastFinished' = LastFinished
<1>1. /\ UNCHANGED <<results, submitted>> /\ stderr \in Seq(Items) /\ log_output \in Seq(Items)
      /\ found_marker \in BOOLEAN /\ exec_counter' = exec_counter
  BY DEF ReadStderr, StreamInv, Typed, KernelTyped, SasTyped, exec_counter
<1>2. InResults' = InResults
  BY <1>1 DEF InResults
<1>3. CASE "err" \notin revents
  BY <1>1, <1>2, <1>3 DEF ReadStderr, Finished, LastFinished
<1>4. CASE "err" \in revents
  <2> DEFINE chunk == Chunk(stderr)
  <2>1. chunk \in Seq(Items) /\ Strip(chunk) \in Seq(Items)
    BY <1>1, ChunkAndRest, StripType
  <2>2. /\ log_output' = log_output \o Strip(chunk) /\ stderr' = Rest(stderr)
        /\ found_marker' = (found_marker \/ Markers(chunk) # {})
    BY <1>4 DEF ReadStderr
  <2>3. Marked(stderr) = Marked(chunk) \cup Marked(stderr')
    BY <1>1, <2>2, ChunkMarks
  <2>4. Marked(chunk) =
          Marked(Strip(chunk)) \cup (IF Markers(chunk) # {} THEN {exec_counter} ELSE {})
    BY <2>1, StripMarks
  <2>5. Marked(log_output') = Marked(log_output) \cup Marked(Strip(chunk))
    BY <1>1, <2>1, <2>2, MarkedConcat
  <2> HIDE DEF chunk
  <2>6. Finished' = Finished
    BY <1>1, <1>2, <2>2, <2>3, <2>4, <2>5 DEF Finished
  <2> QED
    BY <2>6 DEF LastFinished
<1> QED
  BY <1>3, <1>4

LEMMA FinishedSasWrites ==
  ASSUME StreamInv, SasWrites
  PROVE  Finished' = Finished \cup (IF Head(todo).kind \in StartKinds THEN {Head(todo).ex} ELSE {})
<1> DEFINE w == Head(todo)
<1>1. UNCHANGED <<results, submitted, log_output, found_marker>> /\ exec_counter' = exec_counter
  BY DEF SasWrites, kernelVars, exec_counter
<1>2. InResults' = InResults
  BY <1>1 DEF InResults
<1>3. w \in Works /\ stderr \in Seq(Items)
  BY HeadTailProperties DEF SasWrites, StreamInv, Typed, SasTyped
<1>4. CASE w.to # "err"
  <2>1. w.kind \notin StartKinds
    BY <1>3, <1>4 DEF Works, StartKinds
  <2>2. stderr' = stderr
    <3>1. w.to \in {"out", "lst"}
      BY <1>3, <1>4, ItemType
    <3>2. CASE w.to = "out"
      BY <3>2 DEF SasWrites
    <3>3. CASE w.to = "lst"
      BY <3>3 DEF SasWrites
    <3> QED
      BY <3>1, <3>2, <3>3
  <2> QED
    BY <1>1, <1>2, <2>1, <2>2 DEF Finished
<1>5. CASE w.to = "err"
  <2>1. stderr' = Append(stderr, Item(w))
    BY <1>5 DEF SasWrites
  <2>2. Item(w) \in Items /\ Item(w).ex = w.ex /\ Item(w).kind = w.kind
    BY <1>3, <1>5, ItemType DEF Item
  <2>3. <<Item(w)>> \in Seq(Items) /\ stderr' = stderr \o <<Item(w)>>
    BY <1>3, <2>1, <2>2, AppendIsConcat
  <2>4. Marked(stderr') = Marked(stderr) \cup Marked(<<Item(w)>>)
    BY <1>3, <2>3, MarkedConcat
  <2>5. Marked(<<Item(w)>>) = IF w.kind \in StartKinds THEN {w.ex} ELSE {}
    <3> DEFINE one == <<Item(w)>>
    <3>1. Len(one) = 1 /\ one[1] = Item(w) /\ one \in Seq(Items)
      BY <2>2
    <3> HIDE DEF one, w
    <3>2. \A n : n \in Marked(one) <=> w.kind \in StartKinds /\ n = w.ex
      BY <2>2, <3>1, MarkedIs
    <3> QED
      BY <3>2 DEF one
  <2> HIDE DEF w
  <2> QED
    BY <1>1, <1>2, <2>4, <2>5 DEF Finished, w
<1> QED
  BY <1>4, <1>5

-----------------------------------------------------------------------------
(***************************************************************************)
(* The code that is sent has one statement that starts the marker.         *)
(***************************************************************************)

LEMMA MarkerCodeStarts ==
  ASSUME NEW n \in 1 .. MaxExecs, NEW echo \in BOOLEAN
  PROVE  /\ Len(MarkerCode(n, echo)) = 2
         /\ Starts(MarkerCode(n, echo)[1]) /\ ~Starts(MarkerCode(n, echo)[2])
<1> DEFINE half == <<Log("mark1"), Log("mark2")>>
           first == (IF echo THEN <<Log("echo")>> ELSE <<>>) \o half
           second == <<Log("note")>>
<1>1. MarkerCode(n, echo) = <<Statement(n, "run", first), Statement(n, "run", second)>>
  BY DEF MarkerCode
<1>2. 1 \in DOMAIN first /\ first[1].kind \in StartKinds
  <2>1. CASE echo
    <3>1. first = <<Log("echo")>> \o half
      BY <2>1
    <3> QED
      BY <3>1 DEF Log, StartKinds
  <2>2. CASE ~echo
    <3>1. first = <<>> \o half
      BY <2>2
    <3> QED
      BY <3>1 DEF Log, StartKinds
  <2> QED
    BY <2>1, <2>2
<1>3. \A i \in DOMAIN second : second[i].kind \notin StartKinds
  BY DEF Log, StartKinds
<1> HIDE DEF first, second
<1> QED
  BY <1>1, <1>2, <1>3 DEF Starts, Statement

LEMMA JobShape ==
  ASSUME NEW n \in 1 .. MaxExecs, NEW prog \in Programs, NEW echo \in BOOLEAN
  PROVE  LET code == WrappedCode(n, prog, echo)
         IN  /\ code \in Seq(Statements) /\ Len(code) \in Nat /\ Len(code) > 1
             /\ Len(code) = Len(ListingCode(n, prog)) + 2
             /\ \A i \in 1 .. Len(code) : IsOf(code[i], n, prog)
             /\ Starts(code[Len(code) - 1])
             /\ \A i \in 1 .. Len(code) : Starts(code[i]) => i = Len(code) - 1
<1> DEFINE user == ListingCode(n, prog)
           marker == MarkerCode(n, echo)
           code == user \o marker
<1>1. /\ user \in Seq(Statements)
      /\ \A i \in 1 .. Len(user) : IsOf(user[i], n, prog) /\ ~PrintsMarker(user[i])
  BY ListingCodeShape
<1>2. \A stmt : Starts(stmt) => PrintsMarker(stmt)
  BY DEF Starts, PrintsMarker, StartKinds, MarkerKinds
<1>3. /\ marker \in Seq(Statements) /\ Len(marker) = 2
      /\ \A i \in 1 .. 2 : IsOf(marker[i], n, prog)
      /\ Starts(marker[1]) /\ ~Starts(marker[2])
  BY MarkerCodeShape, MarkerCodeStarts
<1>4. WrappedCode(n, prog, echo) = code
  BY DEF WrappedCode
<1> HIDE DEF user, marker
<1>5. /\ code \in Seq(Statements) /\ Len(user) \in Nat /\ Len(code) = Len(user) + 2
      /\ \A i \in 1 .. Len(marker) : code[Len(user) + i] = marker[i]
      /\ \A i \in 1 .. Len(code) :
           \/ i \in 1 .. Len(user) /\ code[i] = user[i]
           \/ i - Len(user) \in 1 .. Len(marker) /\ code[i] = marker[i - Len(user)]
  <2>1. Len(user) \in Nat
    BY <1>1
  <2>2. user \o marker \in Seq(Statements) /\ Len(user \o marker) = Len(user) + Len(marker)
    BY <1>1, <1>3, StatementsIn
  <2>3. /\ \A i \in 1 .. Len(marker) : (user \o marker)[Len(user) + i] = marker[i]
        /\ \A i \in 1 .. Len(user) + Len(marker) :
             \/ i \in 1 .. Len(user) /\ (user \o marker)[i] = user[i]
             \/ i - Len(user) \in 1 .. Len(marker) /\ (user \o marker)[i] = marker[i - Len(user)]
    BY <1>1, <1>3, StatementsIn
  <2> QED
    BY <1>3, <2>1, <2>2, <2>3
<1> HIDE DEF code
<1>6. \A i \in 1 .. Len(code) : IsOf(code[i], n, prog)
  BY <1>1, <1>3, <1>5
<1>7. Starts(code[Len(code) - 1])
  BY <1>3, <1>5
<1>8. ASSUME NEW i \in 1 .. Len(code), Starts(code[i]) PROVE i = Len(code) - 1
  BY <1>1, <1>2, <1>3, <1>5, <1>8
<1> QED
  BY <1>4, <1>5, <1>6, <1>7, <1>8 DEF user

LEMMA PendingStarts ==
  ASSUME StreamInv, NEW prog \in Programs, NEW echo \in Echoes, Execute(prog, echo)
  PROVE  \E s \in DOMAIN Pending' :
           /\ s \notin DOMAIN Pending
           /\ Starts(Pending'[s]) /\ Pending'[s].ex = exec_counter'
           /\ \A i \in DOMAIN Pending' : i \notin DOMAIN Pending /\ Starts(Pending'[i]) => i = s
<1> DEFINE code == WrappedCode(exec_counter + 1, prog, echo)
<1>1. /\ exec_counter' = exec_counter + 1 /\ exec_counter' \in 1 .. MaxExecs
      /\ echo \in BOOLEAN /\ Typed
  BY PendingExecute, StreamAssumption DEF StreamInv
<1>2. /\ code \in Seq(Statements) /\ Len(code) \in Nat /\ Len(code) > 1
      /\ Starts(code[Len(code) - 1])
      /\ \A i \in 1 .. Len(code) : code[i].ex = exec_counter'
      /\ \A i \in 1 .. Len(code) : Starts(code[i]) => i = Len(code) - 1
  BY <1>1, JobShape DEF IsOf
<1>3. Pending' = stdin \o code /\ unsent = <<>> /\ stdin \in Seq(Statements)
  BY DEF Execute, Pending, sasVars, StreamInv, Placed, Typed, SasTyped
<1> HIDE DEF code
<1> DEFINE all == stdin \o code
<1>4. /\ Len(stdin) \in Nat /\ DOMAIN all = 1 .. Len(stdin) + Len(code)
      /\ \A i \in 1 .. Len(code) : all[Len(stdin) + i] = code[i]
      /\ DOMAIN Pending = 1 .. Len(stdin)
  BY <1>1, <1>2, <1>3, StatementsIn, PendingIs
<1>5. Pending' = all
  BY <1>3
<1> HIDE DEF all
<1> DEFINE s == Len(stdin) + (Len(code) - 1)
<1>6. s \in DOMAIN all /\ s \notin DOMAIN Pending /\ all[s] = code[Len(code) - 1]
  BY <1>2, <1>4
<1>7. ASSUME NEW i \in DOMAIN all, i \notin DOMAIN Pending, Starts(all[i])
      PROVE  i = s
  <2>1. i - Len(stdin) \in 1 .. Len(code) /\ Len(stdin) + (i - Len(stdin)) = i
    BY <1>2, <1>4, <1>7
  <2>2. all[i] = code[i - Len(stdin)]
    BY <1>4, <2>1
  <2> QED
    BY <1>2, <1>4, <1>7, <2>1, <2>2
<1>8. Len(code) - 1 \in 1 .. Len(code)
  BY <1>2
<1> QED
  BY <1>2, <1>5, <1>6, <1>7, <1>8

-----------------------------------------------------------------------------
(***************************************************************************)
(* JobsInv is an invariant.                                                *)
(***************************************************************************)

LEMMA JobsInit == Init => JobsInv
<1> SUFFICES ASSUME Init PROVE JobsInv
  OBVIOUS
<1>1. /\ exec_counter = 0 /\ ~NothingSent /\ JobsSent = 0
      /\ unsent = <<>> /\ stdin = <<>> /\ todo = <<>> /\ at = "idle"
      /\ log_output = <<>> /\ found_marker = FALSE /\ stderr = <<>> /\ results = <<>>
  BY DEF Init, exec_counter, NothingSent, JobsSent
<1>2. Marked(<<>>) = {} /\ InResults = {}
  BY <1>1 DEF Marked, InResults
<1>3. Finished = {}
  BY <1>1, <1>2 DEF Finished
<1>4. LastFinished = 0
  <2>1. LastFinished \in 0 .. 0
    BY <1>3, LastIs DEF LastFinished
  <2> QED
    BY <2>1
<1>5. Pending = <<>>
  BY <1>1 DEF Pending
<1>6. SendingInv /\ ResultKept /\ OnlySent
  BY <1>1, <1>3 DEF SendingInv, ResultKept, OnlySent
<1>7. MarkersToCome
  BY <1>1, <1>4, <1>5 DEF MarkersToCome
<1> QED
  BY <1>6, <1>7 DEF JobsInv

\* Steps that neither send code nor touch what SAS has to do.
LEMMA JobsUntouched ==
  ASSUME StreamInv, JobsInv, ResultKept',
         at \notin {"send", "killed"}, at' \notin {"send", "killed"},
         UNCHANGED <<submitted, unsent, sas, stdin, todo>>,
         Finished' = Finished, LastFinished' = LastFinished
  PROVE  JobsInv' /\ JobsSent' = JobsSent
<1>1. ~NothingSent /\ ~NothingSent' /\ exec_counter' = exec_counter /\ Pending' = Pending
  BY DEF NothingSent, exec_counter, Pending
<1>2. JobsSent' = JobsSent
  BY <1>1 DEF JobsSent
<1>3. SendingInv'
  BY <1>1 DEF JobsInv, SendingInv
<1>4. OnlySent'
  BY <1>2 DEF JobsInv, OnlySent
<1>5. MarkersToCome'
  BY <1>1 DEF JobsInv, MarkersToCome
<1> QED
  BY <1>2, <1>3, <1>4, <1>5 DEF JobsInv

LEMMA JobsReading ==
  ASSUME StreamInv, JobsInv,
         PollFinds \/ PollTimesOut \/ PollHangsUp \/ PollInterrupted \/ ReadStdout \/ ReadStderr
  PROVE  JobsInv' /\ JobsSent' = JobsSent /\ Finished' = Finished /\ LastFinished' = LastFinished
<1>1. /\ at \in {"poll", "out", "err"} /\ at' \in {"poll", "out", "err", "return"}
      /\ UNCHANGED <<submitted, unsent, sas, stdin, todo>>
  BY DEF PollFinds, PollTimesOut, PollHangsUp, PollInterrupted, ReadStdout, ReadStderr, sasVars
<1>2. Finished' = Finished /\ LastFinished' = LastFinished
  <2>1. CASE ReadStderr
    BY <2>1, FinishedReadStderr
  <2>2. CASE ~ReadStderr
    <3>1. UNCHANGED <<submitted, results, log_output, found_marker, stderr>>
      BY <2>2 DEF PollFinds, PollTimesOut, PollHangsUp, PollInterrupted, ReadStdout, sasVars
    <3> QED
      BY <3>1, FinishedSame
  <2> QED
    BY <2>1, <2>2
<1>3. ResultKept'
  BY <1>1 DEF ResultKept
<1> QED
  BY <1>1, <1>2, <1>3, JobsUntouched

LEMMA JobsReturn ==
  ASSUME StreamInv, JobsInv, Return
  PROVE  JobsInv' /\ JobsSent' = JobsSent /\ Finished' = Finished /\ LastFinished' = LastFinished
<1>1. /\ at = "return" /\ at' = "idle" /\ UNCHANGED <<submitted, unsent, sas, stdin, todo>>
      /\ exec_counter' = exec_counter /\ UNCHANGED <<log_output, found_marker>>
  BY DEF Return, exec_counter
<1>2. /\ Len(results) = exec_counter - 1 /\ results \in Seq(Results)
      /\ exec_counter \in Nat \ {0}
  BY <1>1 DEF StreamInv, Placed, Typed, KernelTyped, exec_counter
<1>3. /\ results'[exec_counter].found = found_marker
      /\ results'[exec_counter].log = log_output
  BY <1>2 DEF Return
<1>4. ResultKept'
  BY <1>1, <1>2, <1>3 DEF ResultKept
<1> QED
  BY <1>1, <1>4, FinishedReturn, JobsUntouched

LEMMA JobsStutter ==
  ASSUME StreamInv, JobsInv, UNCHANGED streamVars
  PROVE  JobsInv' /\ JobsSent' = JobsSent /\ Finished' = Finished /\ LastFinished' = LastFinished
<1>1. /\ UNCHANGED <<at, submitted, results, unsent, log_output, found_marker, sas, stdin, stderr, todo>>
      /\ exec_counter' = exec_counter /\ Pending' = Pending
  BY DEF streamVars, kernelVars, sasVars, exec_counter, Pending
<1>2. Finished' = Finished /\ LastFinished' = LastFinished
  BY <1>1, FinishedSame
<1>3. (NothingSent <=> NothingSent') /\ JobsSent' = JobsSent
  BY <1>1 DEF NothingSent, JobsSent
<1>4. SendingInv' /\ ResultKept'
  BY <1>1, <1>3 DEF JobsInv, SendingInv, ResultKept
<1>5. OnlySent' /\ MarkersToCome'
  BY <1>1, <1>2, <1>3 DEF JobsInv, OnlySent, MarkersToCome
<1> QED
  BY <1>2, <1>3, <1>4, <1>5 DEF JobsInv

\* SAS is sent the next statement, or it is dead and the kernel is killed.
LEMMA JobsSend ==
  ASSUME StreamInv, JobsInv, Send
  PROVE  /\ JobsInv' /\ Finished' = Finished /\ LastFinished' = LastFinished
         /\ exec_counter' = exec_counter
         /\ NothingSent' <=> NothingSent /\ sas = "dead"
         /\ sas = "alive" /\ NothingSent => at' = "send"
<1>1. /\ UNCHANGED <<submitted, results, log_output, found_marker, sas, stderr, todo>>
      /\ exec_counter' = exec_counter /\ Pending' = Pending
      /\ at = "send" /\ unsent # <<>> /\ unsent \in Seq(Statements) /\ stdin \in Seq(Statements)
      /\ sas \in {"alive", "dead"}
  BY PendingSend DEF Send, StreamInv, Typed, KernelTyped, SasTyped, exec_counter
<1>2. Finished' = Finished /\ LastFinished' = LastFinished
  BY <1>1, FinishedSame
<1> DEFINE whole == Len(WrappedCode(exec_counter, submitted[exec_counter], FALSE))
<1>3. /\ NothingSent <=> Len(unsent) = whole
      /\ NothingSent' <=> at' \in {"send", "killed"} /\ Len(unsent') = whole
      /\ Len(unsent) <= whole
      /\ exec_counter > 0 /\ \A i \in DOMAIN unsent : unsent[i].ex = exec_counter
      /\ NothingSent => Len(unsent) > 1
  BY <1>1 DEF NothingSent, JobsInv, SendingInv
<1>4. whole \in Nat
  <2>1. exec_counter \in 1 .. MaxExecs /\ submitted[exec_counter] \in Programs
    BY <1>3 DEF StreamInv, Typed, KernelTyped, exec_counter
  <2> QED
    BY <2>1, JobShape
<1> HIDE DEF whole
<1>5. CASE sas = "alive"
  <2>1. /\ stdin' = Append(stdin, Head(unsent)) /\ unsent' = Tail(unsent)
        /\ at' = IF Len(unsent) = 1 THEN "poll" ELSE "send"
    BY <1>1, <1>5 DEF Send
  <2>2. /\ Len(unsent) \in Nat \ {0} /\ Len(unsent') = Len(unsent) - 1
        /\ DOMAIN unsent' = 1 .. Len(unsent) - 1 /\ DOMAIN unsent = 1 .. Len(unsent)
        /\ \A i \in 1 .. Len(unsent) - 1 : unsent'[i] = unsent[i + 1]
        /\ Head(unsent) = unsent[1]
    BY <1>1, <2>1, HeadTailProperties, EmptySeq
  <2>3. ~NothingSent'
    BY <1>3, <1>4, <2>2
  <2>4. JobsSent' = exec_counter /\ JobsSent <= exec_counter
    BY <1>1, <2>3, JobsSentType DEF JobsSent
  <2>5. SendingInv'
    <3>1. \A i \in DOMAIN unsent' : unsent'[i].ex = exec_counter
      BY <1>3, <2>2
    <3>2. at' \in {"send", "killed"} => unsent' # <<>>
      BY <2>1, <2>2, EmptySeq
    <3>3. Len(unsent') <= whole
      BY <1>3, <1>4, <2>2
    <3> QED
      BY <1>1, <1>3, <2>3, <3>1, <3>2, <3>3 DEF SendingInv, whole
  <2>6. ResultKept'
    BY <2>1 DEF ResultKept
  <2>7. OnlySent'
    <3>1. \A i \in DOMAIN stdin' : stdin'[i].ex <= exec_counter
      <4>1. Head(unsent) \in Statements /\ Head(unsent).ex = exec_counter
        BY <1>1, <1>3, <2>2
      <4>2. ASSUME NEW i \in DOMAIN stdin'
            PROVE  (i \in DOMAIN stdin /\ stdin'[i] = stdin[i]) \/ stdin'[i] = Head(unsent)
        BY <1>1, <2>1, <4>1, AppendProperties
      <4>3. exec_counter \in Nat /\ JobsSent \in Nat
        BY JobsSentType
      <4>4. \A i \in DOMAIN stdin : stdin[i].ex <= exec_counter
        <5> TAKE i \in DOMAIN stdin
        <5>1. stdin[i] \in Statements
          BY <1>1
        <5>2. stdin[i].ex \in Nat /\ stdin[i].ex <= JobsSent
          BY <5>1, Bounds DEF Statements, JobsInv, OnlySent
        <5> QED
          BY <2>4, <4>3, <5>2
      <4> QED
        BY <4>1, <4>2, <4>3, <4>4
    <3>2. \A i \in DOMAIN todo' : todo'[i].ex <= exec_counter
      BY <1>1 DEF StreamInv, Sorted
    <3>3. Finished' \subseteq 1 .. exec_counter
      BY <1>2, <2>4, JobsSentType DEF JobsInv, OnlySent
    <3> QED
      BY <2>4, <3>1, <3>2, <3>3 DEF OnlySent
  <2>8. MarkersToCome'
    BY <1>1, <1>2 DEF JobsInv, MarkersToCome
  <2> QED
    BY <1>1, <1>2, <1>3, <1>5, <2>1, <2>3, <2>5, <2>6, <2>7, <2>8 DEF JobsInv
<1>6. CASE sas = "dead"
  <2>1. at' = "killed" /\ UNCHANGED <<stdin, unsent>>
    BY <1>6 DEF Send
  <2>2. (NothingSent' <=> NothingSent) /\ JobsSent' = JobsSent
    BY <1>1, <1>3, <2>1 DEF JobsSent
  <2>3. SendingInv' /\ ResultKept' /\ OnlySent' /\ MarkersToCome'
    BY <1>1, <1>2, <1>3, <2>1, <2>2
    DEF JobsInv, SendingInv, ResultKept, OnlySent, MarkersToCome
  <2> QED
    BY <1>1, <1>2, <1>6, <2>2, <2>3 DEF JobsInv
<1> QED
  BY <1>1, <1>5, <1>6

LEMMA JobsExecute ==
  ASSUME StreamInv, JobsInv, NEW prog \in Programs, NEW echo \in Echoes, Execute(prog, echo)
  PROVE  /\ JobsInv' /\ JobsSent' = JobsSent /\ Finished' = Finished /\ LastFinished' = LastFinished
         /\ NothingSent' /\ exec_counter' = exec_counter + 1
<1>1. /\ at = "idle" /\ at' = "send" /\ UNCHANGED <<sas, stdin, todo, stderr>>
      /\ unsent' = WrappedCode(exec_counter + 1, prog, echo) /\ ~NothingSent
      /\ unsent = <<>>
  BY DEF Execute, sasVars, NothingSent, StreamInv, Placed
<1>2. /\ exec_counter' = exec_counter + 1 /\ exec_counter' \in 1 .. MaxExecs
      /\ submitted'[exec_counter'] = prog /\ exec_counter \in Nat
      /\ echo \in BOOLEAN /\ FALSE \in BOOLEAN
  BY PendingExecute, StreamAssumption, JobsSentType DEF StreamInv
<1>3. /\ Len(WrappedCode(exec_counter', prog, FALSE)) = Len(ListingCode(exec_counter', prog)) + 2
      /\ Len(unsent') = Len(ListingCode(exec_counter', prog)) + 2
      /\ Len(unsent') \in Nat /\ Len(unsent') > 1
      /\ unsent' \in Seq(Statements)
      /\ \A i \in DOMAIN unsent' : unsent'[i].ex = exec_counter'
  <2>1. Len(WrappedCode(exec_counter', prog, FALSE)) = Len(ListingCode(exec_counter', prog)) + 2
    BY <1>2, JobShape
  <2>2. /\ unsent' \in Seq(Statements) /\ Len(unsent') \in Nat /\ Len(unsent') > 1
        /\ Len(unsent') = Len(ListingCode(exec_counter', prog)) + 2
        /\ \A i \in 1 .. Len(unsent') : unsent'[i].ex = exec_counter'
    BY <1>1, <1>2, JobShape DEF IsOf
  <2>3. DOMAIN unsent' = 1 .. Len(unsent')
    BY <2>2
  <2> QED
    BY <2>1, <2>2, <2>3
<1>4. NothingSent'
  BY <1>1, <1>2, <1>3 DEF NothingSent
<1>5. JobsSent' = exec_counter /\ JobsSent = exec_counter
  BY <1>1, <1>2, <1>4 DEF JobsSent
<1>6. Finished' = Finished /\ LastFinished' = LastFinished
  BY FinishedExecute DEF JobsInv
<1>7. SendingInv'
  <2>1. unsent' # <<>>
    BY <1>3
  <2>2. Len(unsent') <= Len(WrappedCode(exec_counter', submitted'[exec_counter'], FALSE))
    <3>1. Len(WrappedCode(exec_counter', submitted'[exec_counter'], FALSE)) = Len(unsent')
      BY <1>2, <1>3
    <3>2. \A m, n : m \in Nat /\ n = m => m <= n
      OBVIOUS
    <3> QED
      BY <1>3, <3>1, <3>2
  <2>3. exec_counter' > 0
    BY <1>2
  <2>4. (\A i \in DOMAIN unsent : unsent[i].ex = exec_counter)'
    BY <1>3
  <2> QED
    BY <1>1, <1>3, <2>1, <2>2, <2>3, <2>4 DEF SendingInv
<1>8. ResultKept'
  BY <1>1 DEF ResultKept
<1>9. OnlySent'
  BY <1>1, <1>5, <1>6 DEF JobsInv, OnlySent
<1>10. MarkersToCome'
  <2> SUFFICES ASSUME sas = "alive" PROVE MarkersToCome'
    BY <1>1 DEF MarkersToCome
  <2>1. PICK s \in DOMAIN Pending' :
           /\ s \notin DOMAIN Pending
           /\ Starts(Pending'[s]) /\ Pending'[s].ex = exec_counter'
           /\ \A i \in DOMAIN Pending' : i \notin DOMAIN Pending /\ Starts(Pending'[i]) => i = s
    BY PendingStarts
  <2>2. /\ \A i \in DOMAIN Pending' : i \in DOMAIN Pending => Pending'[i] = Pending[i]
        /\ \A i, j \in DOMAIN Pending' : i < j /\ j \in DOMAIN Pending => i \in DOMAIN Pending
        /\ \A i \in DOMAIN Pending : Pending[i].ex <= exec_counter /\ Pending[i].ex \in Nat
        /\ Typed
    BY PendingExecute, PendingType DEF StreamInv, Sorted
  <2>3. DOMAIN Pending \subseteq DOMAIN Pending' /\ DOMAIN Pending' \subseteq Nat
    <3>1. DOMAIN Pending = 1 .. Len(stdin) /\ Len(stdin) \in Nat
      BY <1>1, <2>2, PendingIs
    <3>2. /\ stdin \in Seq(Statements) /\ Pending' = stdin \o unsent'
          /\ Len(unsent') \in Nat
      BY <1>1, <1>3 DEF Pending, StreamInv, Typed, SasTyped
    <3>3. DOMAIN Pending' = 1 .. Len(stdin) + Len(unsent')
      <4> DEFINE code == unsent'
                 all == stdin \o code
      <4>1. code \in Seq(Statements) /\ Pending' = all
        BY <1>3, <3>2
      <4> HIDE DEF code
      <4>2. all \in Seq(Statements) /\ Len(all) = Len(stdin) + Len(code)
        BY <3>2, <4>1, StatementsIn
      <4> HIDE DEF all
      <4>3. DOMAIN all = 1 .. Len(all)
        BY <4>2
      <4> QED
        BY <4>1, <4>2, <4>3 DEF code
    <3> QED
      BY <3>1, <3>2, <3>3
  <2>4. LastFinished \in Nat /\ LastFinished <= exec_counter
    BY <1>5, JobsSentType
  <2>5. \A i \in DOMAIN Pending' : Starts(Pending'[i]) =>
          (i \in DOMAIN Pending /\ Pending'[i] = Pending[i]) \/ i = s
    BY <2>1, <2>2
  <2>6. \A k \in DOMAIN todo : todo[k].ex <= exec_counter /\ todo[k].ex \in Nat
    <3> TAKE k \in DOMAIN todo
    <3>1. todo[k] \in Works
      BY DEF StreamInv, Typed, SasTyped
    <3> QED
      BY <3>1, ItemType, Bounds DEF StreamInv, Sorted
  <2>7. /\ \A i \in DOMAIN Pending : Starts(Pending[i]) => LastFinished < Pending[i].ex
        /\ \A i, j \in DOMAIN Pending :
             i < j /\ Starts(Pending[i]) /\ Starts(Pending[j]) => Pending[i].ex < Pending[j].ex
        /\ \A k \in DOMAIN todo : todo[k].kind \in StartKinds =>
             /\ todo[k].ex <= LastFinished + 1
             /\ \A i \in DOMAIN Pending : Starts(Pending[i]) => todo[k].ex < Pending[i].ex
             /\ \A l \in DOMAIN todo : todo[l].ex = todo[k].ex
        /\ \A n \in LastFinished + 1 .. exec_counter :
             \/ \E i \in DOMAIN Pending : Starts(Pending[i]) /\ Pending[i].ex = n
             \/ \E k \in DOMAIN todo : todo[k].kind \in StartKinds /\ todo[k].ex = n
    BY DEF JobsInv, MarkersToCome
  <2>8. \A i \in DOMAIN Pending' : Starts(Pending'[i]) => LastFinished < Pending'[i].ex
    BY <1>2, <2>1, <2>4, <2>5, <2>7
  <2>9. ASSUME NEW i \in DOMAIN Pending', NEW j \in DOMAIN Pending', i < j,
               Starts(Pending'[i]), Starts(Pending'[j])
        PROVE  Pending'[i].ex < Pending'[j].ex
    <3>1. CASE j \in DOMAIN Pending
      BY <2>2, <2>7, <2>9, <3>1
    <3>2. CASE j \notin DOMAIN Pending
      <4>1. j = s /\ i # j
        BY <2>3, <2>5, <2>9, <3>2
      <4>2. i \in DOMAIN Pending /\ Pending'[i] = Pending[i]
        BY <2>5, <2>9, <4>1
      <4> QED
        BY <1>2, <2>1, <2>2, <4>1, <4>2
    <3> QED
      BY <3>1, <3>2
  <2>10. \A k \in DOMAIN todo : todo[k].kind \in StartKinds =>
           \A i \in DOMAIN Pending' : Starts(Pending'[i]) => todo[k].ex < Pending'[i].ex
    BY <1>2, <2>1, <2>5, <2>6, <2>7
  <2>11. ASSUME NEW n \in LastFinished + 1 .. exec_counter'
         PROVE  \/ \E i \in DOMAIN Pending' : Starts(Pending'[i]) /\ Pending'[i].ex = n
                \/ \E k \in DOMAIN todo : todo[k].kind \in StartKinds /\ todo[k].ex = n
    <3>1. CASE n = exec_counter'
      BY <2>1, <3>1
    <3>2. CASE n # exec_counter'
      <4>1. n \in LastFinished + 1 .. exec_counter
        BY <1>2, <2>4, <3>2
      <4> QED
        BY <2>2, <2>3, <2>7, <4>1
    <3> QED
      BY <3>1, <3>2
  <2>12. todo' = todo /\ LastFinished' = LastFinished
    BY <1>1, <1>6
  <2> QED
    BY <2>7, <2>8, <2>9, <2>10, <2>11, <2>12 DEF MarkersToCome
<1> QED
  BY <1>2, <1>4, <1>5, <1>6, <1>7, <1>8, <1>9, <1>10 DEF JobsInv

LEMMA JobsSasReads ==
  ASSUME StreamInv, JobsInv, SasReads
  PROVE  JobsInv' /\ JobsSent' = JobsSent /\ Finished' = Finished /\ LastFinished' = LastFinished
<1> DEFINE stmt == Head(stdin)
<1>1. /\ UNCHANGED <<at, submitted, results, unsent, log_output, found_marker, sas, stderr>>
      /\ exec_counter' = exec_counter /\ sas = "alive" /\ todo = <<>>
      /\ stdin \in Seq(Statements) /\ stdin # <<>> /\ stdin' = Tail(stdin)
      /\ todo' = Writes(stmt) /\ Typed
  BY DEF SasReads, kernelVars, exec_counter, StreamInv, Typed, SasTyped
<1>2. Finished' = Finished /\ LastFinished' = LastFinished
  BY <1>1, FinishedSame
<1>3. (NothingSent <=> NothingSent') /\ JobsSent' = JobsSent
  BY <1>1 DEF NothingSent, JobsSent
<1>4. /\ stmt = stdin[1] /\ 1 \in DOMAIN stdin
      /\ \A i \in DOMAIN stdin' : i + 1 \in DOMAIN stdin /\ stdin'[i] = stdin[i + 1]
  BY <1>1, HeadTailProperties, EmptySeq
<1>5. stmt \in Statements /\ stmt.ex \in Nat /\ stmt.ex <= JobsSent
  <2>1. stmt \in Statements
    BY <1>1, <1>4
  <2> QED
    BY <1>4, <2>1, Bounds DEF Statements, JobsInv, OnlySent
<1>6. /\ 1 \in DOMAIN Pending /\ Pending[1] = stmt
      /\ \A i \in DOMAIN Pending' : /\ i \in Nat \ {0} /\ i + 1 \in DOMAIN Pending
                                    /\ Pending'[i] = Pending[i + 1]
  BY <1>1, PendingReads
<1> HIDE DEF stmt
<1>7. /\ DOMAIN todo' = DOMAIN stmt.writes
      /\ \A i \in DOMAIN todo' : todo'[i].ex = stmt.ex /\ todo'[i].kind = stmt.writes[i].kind
  BY <1>1, <1>5, WritesType
<1>8. SendingInv' /\ ResultKept'
  BY <1>1, <1>3 DEF JobsInv, SendingInv, ResultKept
<1>9. OnlySent'
  BY <1>2, <1>3, <1>4, <1>5, <1>7 DEF JobsInv, OnlySent
<1>10. MarkersToCome'
  <2>1. /\ LastFinished \in Nat /\ LastFinished <= exec_counter /\ exec_counter \in Nat
        /\ stmt.ex <= exec_counter
    <3>1. JobsSent <= exec_counter /\ JobsSent \in Nat
      BY JobsSentType
    <3> QED
      BY <1>5, <3>1, JobsSentType
  <2>2. /\ \A i \in DOMAIN Pending : Starts(Pending[i]) => LastFinished < Pending[i].ex
        /\ \A i, j \in DOMAIN Pending :
             i < j /\ Starts(Pending[i]) /\ Starts(Pending[j]) => Pending[i].ex < Pending[j].ex
        /\ \A n \in LastFinished + 1 .. exec_counter :
             \E i \in DOMAIN Pending : Starts(Pending[i]) /\ Pending[i].ex = n
    BY <1>1 DEF JobsInv, MarkersToCome
  <2>3. \A i \in DOMAIN Pending : i \in Nat \ {0} /\ (i # 1 => i - 1 \in DOMAIN Pending')
    <3>1. /\ DOMAIN Pending = 1 .. Len(stdin) + Len(unsent)
          /\ Len(stdin) \in Nat /\ Len(unsent) \in Nat
      BY <1>1, PendingIs
    <3>2. DOMAIN Pending' = 1 .. Len(stdin') + Len(unsent') /\ Typed'
      <4>1. Typed'
        BY TypedStep DEF StreamInv, Next
      <4>2. /\ stdin' \in Seq(Statements) /\ unsent' \in Seq(Statements)
            /\ Pending' = stdin' \o unsent'
        BY <4>1 DEF Typed, KernelTyped, SasTyped, Pending
      <4> QED
        BY <4>1, <4>2, StatementsIn
    <3>3. Len(stdin') = Len(stdin) - 1 /\ unsent' = unsent
      BY <1>1, HeadTailProperties
    <3> QED
      BY <3>1, <3>2, <3>3
  <2>4. ASSUME NEW i \in DOMAIN Pending', NEW j \in DOMAIN Pending', i < j,
               Starts(Pending'[i]), Starts(Pending'[j])
        PROVE  Pending'[i].ex < Pending'[j].ex
    <3>1. i + 1 < j + 1
      BY <1>6, <2>4
    <3> QED
      BY <1>6, <2>2, <2>4, <3>1
  <2>5. \A i \in DOMAIN Pending' : Starts(Pending'[i]) => LastFinished < Pending'[i].ex
    BY <1>6, <2>2
  <2>6. ASSUME NEW k \in DOMAIN todo', todo'[k].kind \in StartKinds
        PROVE  Starts(stmt) /\ todo'[k].ex = stmt.ex
    BY <1>7, <2>6 DEF Starts
  <2>7. Starts(stmt) => \A i \in DOMAIN Pending' : Starts(Pending'[i]) => stmt.ex < Pending'[i].ex
    <3> SUFFICES ASSUME Starts(stmt), NEW i \in DOMAIN Pending', Starts(Pending'[i])
                 PROVE  stmt.ex < Pending'[i].ex
      OBVIOUS
    <3>1. 1 < i + 1
      BY <1>6
    <3> QED
      BY <1>6, <2>2, <3>1
  <2>8. Starts(stmt) => stmt.ex <= LastFinished + 1
    <3> SUFFICES ASSUME Starts(stmt), stmt.ex > LastFinished + 1 PROVE FALSE
      BY <1>5, <2>1
    <3>1. LastFinished + 1 \in LastFinished + 1 .. exec_counter
      BY <1>5, <2>1
    <3>2. PICK i \in DOMAIN Pending : Starts(Pending[i]) /\ Pending[i].ex = LastFinished + 1
      BY <2>2, <3>1
    <3>3. i # 1 /\ 1 < i
      BY <1>5, <1>6, <2>1, <2>3, <3>2
    <3>4. stmt.ex < Pending[i].ex
      BY <1>6, <2>2, <3>2, <3>3
    <3> QED
      BY <1>5, <2>1, <3>2, <3>4
  <2>9. ASSUME NEW n \in LastFinished + 1 .. exec_counter
        PROVE  \/ \E i \in DOMAIN Pending' : Starts(Pending'[i]) /\ Pending'[i].ex = n
               \/ \E k \in DOMAIN todo' : todo'[k].kind \in StartKinds /\ todo'[k].ex = n
    <3>1. PICK i \in DOMAIN Pending : Starts(Pending[i]) /\ Pending[i].ex = n
      BY <2>2
    <3>2. CASE i = 1
      BY <1>6, <1>7, <3>1, <3>2 DEF Starts
    <3>3. CASE i # 1
      <4>1. i - 1 \in DOMAIN Pending' /\ (i - 1) + 1 = i
        BY <2>3, <3>3
      <4> QED
        BY <1>6, <3>1, <4>1
    <3> QED
      BY <3>2, <3>3
  <2>10. ASSUME NEW k \in DOMAIN todo', todo'[k].kind \in StartKinds
         PROVE  /\ todo'[k].ex <= LastFinished + 1
                /\ \A i \in DOMAIN Pending' : Starts(Pending'[i]) => todo'[k].ex < Pending'[i].ex
                /\ \A l \in DOMAIN todo' : todo'[l].ex = todo'[k].ex
    BY <1>7, <2>6, <2>7, <2>8, <2>10
  <2> QED
    BY <1>1, <1>2, <2>4, <2>5, <2>9, <2>10 DEF MarkersToCome
<1> QED
  BY <1>2, <1>3, <1>8, <1>9, <1>10 DEF JobsInv

\* A line that starts the marker either finishes the next execution, or it is the
\* second such line of the execution that has just finished.
LEMMA JobsSasWrites ==
  ASSUME StreamInv, JobsInv, SasWrites
  PROVE  /\ JobsInv' /\ JobsSent' = JobsSent
         /\ \/ LastFinished' = LastFinished
            \/ LastFinished' = LastFinished + 1 /\ LastFinished < JobsSent
<1> DEFINE w == Head(todo)
<1>1. /\ UNCHANGED <<at, submitted, results, unsent, log_output, found_marker, sas, stdin>>
      /\ exec_counter' = exec_counter /\ Pending' = Pending /\ sas = "alive"
      /\ todo \in Seq(Works) /\ todo # <<>> /\ todo' = Tail(todo)
  BY DEF SasWrites, kernelVars, exec_counter, StreamInv, Typed, SasTyped, Pending
<1>2. /\ w = todo[1] /\ 1 \in DOMAIN todo
      /\ \A i \in DOMAIN todo' : i + 1 \in DOMAIN todo /\ todo'[i] = todo[i + 1]
      /\ \A i \in DOMAIN todo : i \in Nat \ {0} /\ (i # 1 => i - 1 \in DOMAIN todo')
  BY <1>1, HeadTailProperties, EmptySeq
<1>3. w.ex \in Nat \ {0} /\ w.ex <= JobsSent
  <2>1. w \in Works
    BY <1>1, <1>2
  <2> QED
    BY <1>2, <2>1, ItemType, Bounds DEF JobsInv, OnlySent
<1>4. (NothingSent <=> NothingSent') /\ JobsSent' = JobsSent
  BY <1>1 DEF NothingSent, JobsSent
<1>5. Finished' = Finished \cup (IF w.kind \in StartKinds THEN {w.ex} ELSE {})
  BY FinishedSasWrites
<1> HIDE DEF w
<1>6. /\ JobsSent \in Nat /\ Finished \subseteq 1 .. JobsSent /\ LastFinished \in 0 .. JobsSent
      /\ exec_counter \in Nat
  BY JobsSentType DEF JobsInv, OnlySent
<1>7. w.kind \in StartKinds =>
        /\ w.ex <= LastFinished + 1
        /\ \A i \in DOMAIN Pending : Starts(Pending[i]) => w.ex < Pending[i].ex
        /\ \A l \in DOMAIN todo : todo[l].ex = w.ex
  BY <1>1, <1>2 DEF JobsInv, MarkersToCome
<1>8. LastFinished' = IF w.kind \in StartKinds /\ w.ex > LastFinished THEN w.ex ELSE LastFinished
  <2>1. CASE w.kind \in StartKinds
    <3>1. Finished' = Finished \cup {w.ex} /\ w.ex \in 1 .. JobsSent
      BY <1>3, <1>5, <1>6, <2>1
    <3>2. Max((Finished \cup {w.ex}) \cup {0}) = IF w.ex <= LastFinished THEN LastFinished ELSE w.ex
      <4>1. w.ex <= Max(Finished \cup {0}) + 1
        BY <1>7, <2>1 DEF LastFinished
      <4> QED
        BY <1>6, <3>1, <4>1, LastGrows DEF LastFinished
    <3>3. LastFinished' = Max((Finished \cup {w.ex}) \cup {0})
      BY <3>1 DEF LastFinished
    <3> QED
      BY <1>3, <1>6, <2>1, <3>2, <3>3
  <2>2. CASE w.kind \notin StartKinds
    BY <1>5, <2>2 DEF LastFinished
  <2> QED
    BY <2>1, <2>2
<1>9. \/ LastFinished' = LastFinished
      \/ LastFinished' = LastFinished + 1 /\ LastFinished < JobsSent
  BY <1>3, <1>6, <1>7, <1>8
<1>10. SendingInv' /\ ResultKept'
  BY <1>1, <1>4 DEF JobsInv, SendingInv, ResultKept
<1>11. OnlySent'
  <2>1. Finished' \subseteq 1 .. JobsSent
    <3>1. w.ex \in 1 .. JobsSent
      BY <1>3, <1>6
    <3>2. Finished' \subseteq Finished \cup {w.ex}
      BY <1>5
    <3> QED
      BY <1>6, <3>1, <3>2
  <2>2. \A i \in DOMAIN todo' : todo'[i].ex <= JobsSent
    BY <1>2 DEF JobsInv, OnlySent
  <2>3. \A i \in DOMAIN stdin' : stdin'[i].ex <= JobsSent
    BY <1>1 DEF JobsInv, OnlySent
  <2> QED
    BY <1>4, <2>1, <2>2, <2>3 DEF OnlySent
<1>12. MarkersToCome'
  <2>1. /\ \A i \in DOMAIN Pending : Starts(Pending[i]) => LastFinished < Pending[i].ex
        /\ \A i, j \in DOMAIN Pending :
             i < j /\ Starts(Pending[i]) /\ Starts(Pending[j]) => Pending[i].ex < Pending[j].ex
        /\ \A k \in DOMAIN todo : todo[k].kind \in StartKinds =>
             /\ todo[k].ex <= LastFinished + 1
             /\ \A i \in DOMAIN Pending : Starts(Pending[i]) => todo[k].ex < Pending[i].ex
             /\ \A l \in DOMAIN todo : todo[l].ex = todo[k].ex
        /\ \A n \in LastFinished + 1 .. exec_counter :
             \/ \E i \in DOMAIN Pending : Starts(Pending[i]) /\ Pending[i].ex = n
             \/ \E k \in DOMAIN todo : todo[k].kind \in StartKinds /\ todo[k].ex = n
    BY <1>1 DEF JobsInv, MarkersToCome
  <2>2. LastFinished' \in Nat /\ LastFinished <= LastFinished' /\ LastFinished \in Nat
    BY <1>6, <1>9
  <2>3. \A i \in DOMAIN Pending : Starts(Pending[i]) => LastFinished' < Pending[i].ex
    BY <1>7, <1>8, <2>1
  <2>4. ASSUME NEW k \in DOMAIN todo', todo'[k].kind \in StartKinds
        PROVE  /\ todo'[k].ex <= LastFinished' + 1
               /\ \A i \in DOMAIN Pending : Starts(Pending[i]) => todo'[k].ex < Pending[i].ex
               /\ \A l \in DOMAIN todo' : todo'[l].ex = todo'[k].ex
    <3>1. /\ k + 1 \in DOMAIN todo /\ todo'[k] = todo[k + 1]
          /\ \A l \in DOMAIN todo' : l + 1 \in DOMAIN todo /\ todo'[l] = todo[l + 1]
      BY <1>2
    <3>2. todo'[k].ex \in Nat
      <4>1. todo[k + 1] \in Works
        BY <1>1, <3>1
      <4> QED
        BY <3>1, <4>1, ItemType, Bounds
    <3>3. todo'[k].ex <= LastFinished + 1
      BY <2>1, <2>4, <3>1
    <3>4. todo'[k].ex <= LastFinished' + 1
      BY <2>2, <3>2, <3>3
    <3> QED
      BY <2>1, <2>4, <3>1, <3>4
  <2>5. ASSUME NEW n \in LastFinished' + 1 .. exec_counter
        PROVE  \/ \E i \in DOMAIN Pending : Starts(Pending[i]) /\ Pending[i].ex = n
               \/ \E k \in DOMAIN todo' : todo'[k].kind \in StartKinds /\ todo'[k].ex = n
    <3>1. n \in LastFinished + 1 .. exec_counter
      <4>1. \A a, b, c \in Nat : \A m \in b + 1 .. c : a <= b => m \in a + 1 .. c
        OBVIOUS
      <4> QED
        BY <1>6, <2>2, <4>1
    <3> SUFFICES ASSUME NEW k \in DOMAIN todo, todo[k].kind \in StartKinds, todo[k].ex = n
                 PROVE  \E l \in DOMAIN todo' : todo'[l].kind \in StartKinds /\ todo'[l].ex = n
      BY <2>1, <3>1
    <3>2. k # 1
      BY <1>2, <1>3, <1>6, <1>8, <2>2
    <3>3. k - 1 \in DOMAIN todo' /\ (k - 1) + 1 = k
      BY <1>2, <3>2
    <3>4. todo'[k - 1] = todo[k]
      BY <1>2, <3>3
    <3> QED
      BY <3>3, <3>4
  <2> QED
    BY <1>1, <2>1, <2>3, <2>4, <2>5 DEF MarkersToCome
<1> QED
  BY <1>4, <1>9, <1>10, <1>11, <1>12 DEF JobsInv

LEMMA JobsSasDies ==
  ASSUME StreamInv, JobsInv, SasDies
  PROVE  JobsInv' /\ JobsSent' = JobsSent /\ Finished' = Finished /\ LastFinished' = LastFinished
<1>1. /\ UNCHANGED <<at, submitted, results, unsent, log_output, found_marker, stderr>>
      /\ exec_counter' = exec_counter /\ sas' = "dead" /\ todo' = <<>> /\ stdin' = <<>>
  BY DEF SasDies, kernelVars, exec_counter
<1>2. Finished' = Finished /\ LastFinished' = LastFinished
  BY <1>1, FinishedSame
<1>3. (NothingSent <=> NothingSent') /\ JobsSent' = JobsSent
  BY <1>1 DEF NothingSent, JobsSent
<1>4. SendingInv' /\ ResultKept'
  BY <1>1, <1>3 DEF JobsInv, SendingInv, ResultKept
<1>5. OnlySent' /\ MarkersToCome'
  BY <1>1, <1>2, <1>3 DEF JobsInv, OnlySent, MarkersToCome
<1> QED
  BY <1>2, <1>3, <1>4, <1>5 DEF JobsInv

LEMMA JobsStep == StreamInv /\ JobsInv /\ [Next]_streamVars => JobsInv'
<1> SUFFICES ASSUME StreamInv, JobsInv, [Next]_streamVars PROVE JobsInv'
  OBVIOUS
<1>1. CASE \E prog \in Programs, echo \in Echoes : Execute(prog, echo)
  BY <1>1, JobsExecute
<1>2. CASE KernelStep \/ PollInterrupted
  BY <1>2, JobsSend, JobsReading, JobsReturn DEF KernelStep
<1>3. CASE SasReads \/ SasWrites \/ SasDies
  BY <1>3, JobsSasReads, JobsSasWrites, JobsSasDies
<1>4. CASE UNCHANGED streamVars
  BY <1>4, JobsStutter
<1> QED
  BY <1>1, <1>2, <1>3, <1>4 DEF Next

-----------------------------------------------------------------------------
(***************************************************************************)
(* Every step is a step of the session, or none.                           *)
(***************************************************************************)

LEMMA LabelIs ==
  /\ at \in {"poll", "out", "err"} => Label = "wait"
  /\ at \in {"return", "idle"} => Label = "ready"
  /\ at = "send" => Label = IF NothingSent THEN "send" ELSE "sending"
  /\ at = "killed" => Label = "killed"
  /\ at' \in {"poll", "out", "err"} => Label' = "wait"
  /\ at' \in {"return", "idle"} => Label' = "ready"
  /\ at' = "send" => Label' = IF NothingSent' THEN "send" ELSE "sending"
  /\ at' = "killed" => Label' = "killed"
BY DEF Label

LEMMA HowReturnedIs ==
  /\ Label # "ready" => HowReturned = "none"
  /\ Label' # "ready" => HowReturned' = "none"
  /\ Label' = "ready" /\ at' # "killed" /\ submitted' # <<>> =>
       HowReturned' = IF found_marker' THEN "marker"
                      ELSE IF timeout_count' >= MaxTimeouts THEN "timeout" ELSE "pollerror"
BY DEF HowReturned

\* Who has to wait for room in a pipe.
LEMMA BlockedIs ==
  /\ Blocked \subseteq {"kernel", "sas"}
  /\ "kernel" \in Blocked <=> sas = "alive" /\ KernelWaits
  /\ "sas" \in Blocked <=> sas = "alive" /\ SasWaits
  /\ sas # "alive" => Blocked = {}
BY DEF Blocked

LEMMA BlockedWillBe ==
  /\ Blocked' \subseteq {"kernel", "sas"}
  /\ "kernel" \in Blocked' <=> sas' = "alive" /\ KernelWaits'
  /\ "sas" \in Blocked' <=> sas' = "alive" /\ SasWaits'
  /\ sas' # "alive" => Blocked' = {}
BY DEF Blocked

LEMMA BlockedType == Blocked \subseteq {"kernel", "sas"} /\ Blocked' \subseteq {"kernel", "sas"}
BY DEF Blocked

LEMMA SameNames ==
  ASSUME NEW S, NEW T, S \subseteq {"kernel", "sas"}, T \subseteq {"kernel", "sas"},
         "kernel" \in S <=> "kernel" \in T, "sas" \in S <=> "sas" \in T
  PROVE  S = T
<1>1. ASSUME NEW x PROVE x \in S <=> x \in T
  OBVIOUS
<1> QED
  BY <1>1

LEMMA SasAdded ==
  ASSUME "kernel" \in Blocked' <=> "kernel" \in Blocked, "sas" \notin Blocked
  PROVE  Blocked' = Blocked \/ Blocked' = Blocked \cup {"sas"}
<1>1. CASE "sas" \in Blocked'
  <2>1. /\ Blocked \cup {"sas"} \subseteq {"kernel", "sas"}
        /\ "kernel" \in Blocked' <=> "kernel" \in Blocked \cup {"sas"}
        /\ "sas" \in Blocked' <=> "sas" \in Blocked \cup {"sas"}
    BY <1>1, BlockedType
  <2> QED
    BY <2>1, BlockedType, SameNames
<1>2. CASE "sas" \notin Blocked'
  BY <1>2, BlockedType, SameNames
<1> QED
  BY <1>1, <1>2

LEMMA BlockedSame ==
  ASSUME sas' = sas, KernelWaits' <=> KernelWaits, SasWaits' <=> SasWaits
  PROVE  Blocked' = Blocked
BY DEF Blocked

\* Reading makes room in the output pipes, and no more.
LEMMA ReadMakesRoom ==
  ASSUME NEW pipe \in Seq(Items)
  PROVE  Len(pipe) \in Nat /\ Len(Rest(pipe)) \in Nat /\ Len(Rest(pipe)) <= Len(pipe)
<1> DEFINE n == Len(Chunk(pipe))
<1>1. n \in 0 .. Len(pipe) /\ Len(pipe) \in Nat
  <2> DEFINE k == IF Len(pipe) < ReadSize THEN Len(pipe) ELSE ReadSize
  <2>1. k \in 0 .. Len(pipe) /\ \A i \in 1 .. k : pipe[i] \in Items
    BY Bounds
  <2> HIDE DEF k
  <2>2. Len(SubSeq(pipe, 1, k)) = k
    BY <2>1, SubSeqProperties
  <2> QED
    BY <2>1, <2>2 DEF Chunk, k
<1> HIDE DEF n
<1>2. \A i \in n + 1 .. Len(pipe) : pipe[i] \in Items
  BY <1>1
<1>3. Len(SubSeq(pipe, n + 1, Len(pipe))) = IF n + 1 <= Len(pipe) THEN Len(pipe) - n ELSE 0
  BY <1>1, <1>2, SubSeqProperties
<1> QED
  BY <1>1, <1>3 DEF Rest, n

\* What the steps of the session may see of a step of the streams.
LEMMA SameJobs ==
  ASSUME Label' = Label, HowReturned' = HowReturned, sas' = sas,
         JobsSent' = JobsSent, LastFinished' = LastFinished, Blocked' = Blocked,
         (at = "send" /\ NothingSent) <=> (at' = "send" /\ NothingSent'),
         exec_counter' = exec_counter
  PROVE  UNCHANGED Session!sessionVars
BY DEF Session!sessionVars

LEMMA ExecuteIsStep ==
  ASSUME StreamInv, JobsInv, NEW prog \in Programs, NEW echo \in Echoes, Execute(prog, echo)
  PROVE  Session!Execute
<1>1. /\ at = "idle" /\ at' = "send" /\ sas' = sas /\ exec_counter < MaxExecs
      /\ exec_counter \in Nat
  BY JobsSentType DEF Execute, sasVars
<1>2. /\ JobsSent' = JobsSent /\ LastFinished' = LastFinished
      /\ NothingSent' /\ exec_counter' = exec_counter + 1
  BY JobsExecute
<1>3. Label = "ready" /\ Label' = "send" /\ HowReturned' = "none"
  BY <1>1, <1>2, LabelIs, HowReturnedIs
<1>4. Blocked' = Blocked
  <2>1. ~KernelWaits /\ ~KernelWaits'
    BY <1>1, <1>2 DEF KernelWaits
  <2>2. SasWaits' <=> SasWaits
    BY DEF Execute, sasVars, SasWaits
  <2> QED
    BY <1>1, <2>1, <2>2, BlockedSame
<1> QED
  BY <1>1, <1>2, <1>3, <1>4 DEF Session!Execute, Session!Begin

LEMMA SendIsStep ==
  ASSUME StreamInv, JobsInv, Send
  PROVE  [Session!SessionNext]_Session!sessionVars
<1>1. /\ at = "send" /\ sas' = sas /\ exec_counter' = exec_counter /\ LastFinished' = LastFinished
      /\ NothingSent' <=> NothingSent /\ sas = "dead"
      /\ sas = "alive" /\ NothingSent => at' = "send"
      /\ sas = "alive" => at' \in {"send", "poll"}
      /\ sas # "alive" => at' = "killed"
      /\ sas \in {"alive", "dead"}
      /\ sas = "alive" => at' = IF Len(unsent) = 1 THEN "poll" ELSE "send"
  BY JobsSend DEF Send, StreamInv, Typed, SasTyped
<1>2. /\ exec_counter \in Nat /\ JobsSent \in Nat /\ LastFinished \in 0 .. JobsSent
      /\ JobsSent = IF NothingSent THEN exec_counter - 1 ELSE exec_counter
      /\ JobsSent' = IF NothingSent' THEN exec_counter - 1 ELSE exec_counter
  BY <1>1, JobsSentType DEF JobsSent
<1>3. Label = (IF NothingSent THEN "send" ELSE "sending") /\ HowReturned = "none"
  BY <1>1, LabelIs, HowReturnedIs
<1>4. Label' # "ready" /\ HowReturned' = "none"
  BY <1>1, LabelIs, HowReturnedIs
<1>12. SasWaits' <=> SasWaits
  BY DEF Send, SasWaits
<1>10. /\ Len(unsent) \in Nat \ {0} /\ Len(stdin) \in Nat /\ StdinCap \in Nat
       /\ sas = "alive" => /\ Len(stdin) < StdinCap
                           /\ Len(unsent') = Len(unsent) - 1 /\ Len(stdin') = Len(stdin) + 1
  <2>1. /\ unsent \in Seq(Statements) /\ unsent # <<>> /\ stdin \in Seq(Statements)
    BY DEF Send, StreamInv, Typed, KernelTyped, SasTyped
  <2>2. Len(unsent) # 0
    BY <2>1, EmptySeq
  <2>3. sas = "alive" => /\ Len(stdin) < StdinCap /\ unsent' = Tail(unsent)
                         /\ stdin' = Append(stdin, Head(unsent))
    BY DEF Send
  <2>4. Len(Tail(unsent)) = Len(unsent) - 1 /\ Head(unsent) \in Statements
    BY <2>1, HeadTailProperties
  <2>5. Len(Append(stdin, Head(unsent))) = Len(stdin) + 1
    BY <2>1, <2>4, AppendProperties
  <2>6. Len(unsent) \in Nat /\ Len(stdin) \in Nat /\ StdinCap \in Nat
    BY <2>1, Bounds
  <2>7. CASE sas = "alive"
    <3>1. Len(unsent') = Len(unsent) - 1 /\ Len(stdin') = Len(stdin) + 1
      BY <2>3, <2>4, <2>5, <2>7
    <3> QED
      BY <2>2, <2>3, <2>6, <2>7, <3>1
  <2> QED
    BY <2>2, <2>6, <2>7
<1>11. sas = "dead" => Blocked = {} /\ Blocked' = {}
  BY <1>1, BlockedIs, BlockedWillBe
<1>5. CASE NothingSent /\ sas = "alive"
  <2>1. Label' = "sending" /\ at' = "send" /\ ~NothingSent'
    BY <1>1, <1>5, LabelIs
  <2>2. JobsSent' = JobsSent + 1 /\ JobsSent + 1 = exec_counter
    BY <1>2, <1>5, <2>1
  <2> DEFINE before == [i \in 1 .. JobsSent - LastFinished |-> LastFinished + i]
             after == [i \in 1 .. JobsSent + 1 - LastFinished |-> LastFinished + i]
  <2>3. after = Append(before, JobsSent + 1)
    <3>1. Len(before) = JobsSent - LastFinished /\ Len(after) = JobsSent - LastFinished + 1
      BY <1>2
    <3> QED
      BY <1>2, <3>1
  <2>4. [i \in 1 .. JobsSent' - LastFinished' |-> LastFinished' + i] = after
    BY <1>1, <1>2, <2>2
  <2>6. Blocked' = Blocked \/ Blocked' = Blocked \cup {"kernel"}
    <3>1. "sas" \in Blocked' <=> "sas" \in Blocked
      BY <1>1, <1>12, BlockedIs, BlockedWillBe
    <3>2. "kernel" \notin Blocked
      BY <1>5, BlockedIs DEF KernelWaits
    <3>3. CASE "kernel" \in Blocked'
      <4>1. /\ Blocked \cup {"kernel"} \subseteq {"kernel", "sas"}
            /\ "kernel" \in Blocked' <=> "kernel" \in Blocked \cup {"kernel"}
            /\ "sas" \in Blocked' <=> "sas" \in Blocked \cup {"kernel"}
        BY <3>1, <3>3, BlockedType
      <4> QED
        BY <4>1, BlockedType, SameNames
    <3>4. CASE "kernel" \notin Blocked'
      BY <3>1, <3>2, <3>4, BlockedType, SameNames
    <3> QED
      BY <3>3, <3>4
  <2>5. Session!SendCode
    BY <1>1, <1>2, <1>3, <1>4, <1>5, <2>1, <2>2, <2>3, <2>4, <2>6
    DEF Session!SendCode, Session!Goto, Session!MayNotFit
  <2> QED
    BY <2>5 DEF Session!SessionNext, Session!KernelStep
<1>6. CASE NothingSent /\ sas = "dead"
  <2>1. Label' = "killed" /\ JobsSent' = JobsSent /\ at' = "killed"
    BY <1>1, <1>2, <1>6, LabelIs
  <2>2. Session!SendCode
    BY <1>1, <1>2, <1>3, <1>4, <1>6, <1>11, <2>1 DEF Session!SendCode, Session!Killed
  <2> QED
    BY <2>2 DEF Session!SessionNext, Session!KernelStep
<1>7. CASE ~NothingSent /\ sas = "dead"
  <2>1. Label' = "killed" /\ JobsSent' = JobsSent /\ at' = "killed"
    BY <1>1, <1>2, <1>7, LabelIs
  <2>2. Session!FinishSending
    BY <1>1, <1>2, <1>3, <1>4, <1>7, <1>11, <2>1 DEF Session!FinishSending, Session!Killed
  <2> QED
    BY <2>2 DEF Session!SessionNext, Session!KernelStep
<1>8. CASE ~NothingSent /\ sas = "alive" /\ at' = "poll"
  <2>1. Label' = "wait" /\ JobsSent' = JobsSent
    BY <1>1, <1>2, <1>8, LabelIs
  <2>3. ~KernelWaits /\ ~KernelWaits'
    <3>1. Len(unsent) = 1 /\ ~(Len(unsent) > StdinCap - Len(stdin))
      <4>1. Len(unsent) = 1
        BY <1>1, <1>8
      <4> QED
        BY <1>8, <1>10, <4>1
    <3> QED
      BY <1>8, <3>1 DEF KernelWaits
  <2>4. Blocked' = Blocked /\ "kernel" \notin Blocked
    BY <1>1, <1>12, <2>3, BlockedIs, BlockedSame
  <2>2. Session!FinishSending
    BY <1>1, <1>2, <1>3, <1>4, <1>8, <2>1, <2>4 DEF Session!FinishSending, Session!Goto
  <2> QED
    BY <2>2 DEF Session!SessionNext, Session!KernelStep
<1>9. CASE ~NothingSent /\ sas = "alive" /\ at' = "send"
  <2>1. Label' = "sending" /\ JobsSent' = JobsSent /\ ~NothingSent'
    BY <1>1, <1>2, <1>9, LabelIs
  <2>2. KernelWaits' <=> KernelWaits
    BY <1>1, <1>9, <1>10, <2>1 DEF KernelWaits
  <2>3. Blocked' = Blocked
    BY <1>1, <1>12, <2>2, BlockedSame
  <2> QED
    BY <1>1, <1>3, <1>4, <1>9, <2>1, <2>3, SameJobs
<1> QED
  BY <1>1, <1>5, <1>6, <1>7, <1>8, <1>9

\* Reading and polling go on, or the wait ends.
LEMMA ReadingIsStep ==
  ASSUME StreamInv, JobsInv,
         PollFinds \/ PollTimesOut \/ PollHangsUp \/ PollInterrupted \/ ReadStdout \/ ReadStderr
  PROVE  [Session!SessionNext]_Session!sessionVars
<1>1. /\ at \in {"poll", "out", "err"} /\ at' \in {"poll", "out", "err", "return"}
      /\ UNCHANGED <<sas, submitted>> /\ exec_counter' = exec_counter
  BY DEF PollFinds, PollTimesOut, PollHangsUp, PollInterrupted, ReadStdout, ReadStderr, sasVars,
         exec_counter
<1>2. JobsSent' = JobsSent /\ Finished' = Finished /\ LastFinished' = LastFinished
  BY JobsReading
<1>3. /\ exec_counter \in Nat /\ JobsSent = exec_counter
      /\ LastFinished \in 0 .. JobsSent /\ \A n \in Finished : n <= LastFinished
  BY <1>1, JobsSentType DEF NothingSent
<1>4. Label = "wait" /\ HowReturned = "none"
  BY <1>1, LabelIs, HowReturnedIs
<1>7. /\ Blocked \subseteq {"kernel", "sas"} /\ "kernel" \notin Blocked /\ "kernel" \notin Blocked'
      /\ Blocked' \subseteq {"kernel", "sas"}
  BY <1>1, BlockedIs, BlockedWillBe DEF KernelWaits
<1>8. \/ Blocked' = Blocked
      \/ (ReadStdout \/ ReadStderr) /\ Blocked' = Blocked \ {"sas"}
  <2>1. CASE PollFinds \/ PollTimesOut \/ PollHangsUp \/ PollInterrupted
    <3>1. SasWaits' <=> SasWaits
      BY <2>1 DEF PollFinds, PollTimesOut, PollHangsUp, PollInterrupted, sasVars, SasWaits
    <3>2. KernelWaits' <=> KernelWaits
      BY <1>1 DEF KernelWaits
    <3>3. sas' = sas
      BY <1>1
    <3>4. Blocked' = Blocked
      BY <3>1, <3>2, <3>3, BlockedSame
    <3> QED
      BY <3>4
  <2>2. CASE ReadStdout \/ ReadStderr
    <3>1. stdout \in Seq(Items) /\ stderr \in Seq(Items) /\ PipeCap \in Nat
      BY Bounds DEF StreamInv, Typed, SasTyped
    <3>2. /\ Len(stdout) \in Nat /\ Len(stderr) \in Nat
          /\ Len(stdout) <= PipeCap /\ Len(stderr) <= PipeCap
          /\ Len(Rest(stdout)) \in Nat /\ Len(Rest(stdout)) <= Len(stdout)
          /\ Len(Rest(stderr)) \in Nat /\ Len(Rest(stderr)) <= Len(stderr)
      BY <3>1, ReadMakesRoom DEF StreamInv, Typed, SasTyped
    <3>3. /\ stdout' \in {stdout, Rest(stdout)} /\ stderr' \in {stderr, Rest(stderr)}
          /\ todo' = todo
      BY <2>2 DEF ReadStdout, ReadStderr
    <3>4. /\ Len(stdout') = PipeCap => Len(stdout) = PipeCap
          /\ Len(stderr') = PipeCap => Len(stderr) = PipeCap
      BY <3>1, <3>2, <3>3
    <3>5. SasWaits' => SasWaits
      BY <3>3, <3>4 DEF SasWaits
    <3>6. "sas" \in Blocked' => "sas" \in Blocked
      BY <1>1, <3>5, BlockedIs, BlockedWillBe
    <3>7. CASE "sas" \in Blocked => "sas" \in Blocked'
      <4>1. Blocked' = Blocked
        BY <1>7, <3>6, <3>7, SameNames
      <4> QED
        BY <4>1
    <3>8. CASE "sas" \in Blocked /\ "sas" \notin Blocked'
      <4>1. /\ Blocked \ {"sas"} \subseteq {"kernel", "sas"}
            /\ "kernel" \in Blocked' <=> "kernel" \in Blocked \ {"sas"}
            /\ "sas" \in Blocked' <=> "sas" \in Blocked \ {"sas"}
        BY <1>7, <3>8
      <4> QED
        BY <1>7, <2>2, <4>1, SameNames
    <3> QED
      BY <3>7, <3>8
  <2> QED
    BY <2>1, <2>2
<1>9. PollTimesOut => "sas" \notin Blocked /\ Blocked' = Blocked
  <2> SUFFICES ASSUME PollTimesOut PROVE "sas" \notin Blocked /\ Blocked' = Blocked
    OBVIOUS
  <2>1. stdout = <<>> /\ stderr = <<>>
    BY DEF PollTimesOut, Readable
  <2>2. Len(stdout) = 0 /\ Len(stderr) = 0 /\ PipeCap # 0
    BY <2>1, EmptySeq, Bounds
  <2> QED
    BY <1>7, <1>8, <2>2, BlockedIs DEF SasWaits
<1>5. CASE at' # "return"
  <2>1. Label' = "wait" /\ HowReturned' = "none"
    BY <1>1, <1>5, LabelIs, HowReturnedIs
  <2>2. CASE Blocked' = Blocked
    BY <1>1, <1>2, <1>4, <2>1, <2>2, SameJobs
  <2>3. CASE "sas" \in Blocked /\ Blocked' = Blocked \ {"sas"}
    <3>1. Session!KernelReads
      BY <1>1, <1>2, <1>4, <2>1, <2>3 DEF Session!KernelReads, Session!AfterRead
    <3> QED
      BY <3>1 DEF Session!SessionNext
  <2> QED
    BY <1>8, <2>2, <2>3
<1>6. CASE at' = "return"
  <2>1. Label' = "ready" /\ submitted' # <<>>
    <3>1. Len(results) = exec_counter - 1 /\ Len(results) \in Nat
      BY <1>1 DEF StreamInv, Placed, Typed, KernelTyped
    <3>2. submitted # <<>>
      BY <1>3, <3>1 DEF exec_counter
    <3> QED
      BY <1>1, <1>6, <3>2, LabelIs
  <2>2. HowReturned' = IF found_marker' THEN "marker"
                       ELSE IF timeout_count' >= MaxTimeouts THEN "timeout" ELSE "pollerror"
    BY <1>6, <2>1, HowReturnedIs
  <2>3. CASE found_marker'
    <3>1. exec_counter' \in Finished'
      BY <2>3 DEF Finished
    <3>2. LastFinished = exec_counter
      BY <1>1, <1>2, <1>3, <3>1
    <3>3. Session!MarkerSeen
      BY <1>1, <1>2, <1>3, <1>4, <1>6, <1>8, <2>1, <2>2, <2>3, <3>2
      DEF Session!MarkerSeen, Session!AfterRead, Session!Wait, Session!Return
    <3> QED
      BY <3>3 DEF Session!SessionNext, Session!KernelStep
  <2>4. CASE ~found_marker' /\ timeout_count' >= MaxTimeouts
    <3>1. sas = "alive" /\ PollTimesOut
      <4>1. timeout_count < MaxTimeouts /\ timeout_count \in Nat /\ MaxTimeouts \in Nat
        BY <1>1, Bounds DEF StreamInv, Placed, Typed, KernelTyped
      <4>2. timeout_count' # timeout_count
        BY <2>4, <4>1
      <4> QED
        BY <4>2 DEF PollFinds, PollTimesOut, PollHangsUp, PollInterrupted, ReadStdout, ReadStderr
    <3>2. Session!TimesOut
      BY <1>1, <1>2, <1>3, <1>4, <1>6, <1>9, <2>1, <2>2, <2>4, <3>1
      DEF Session!TimesOut, Session!Wait, Session!Return
    <3> QED
      BY <3>2 DEF Session!SessionNext
  <2>5. CASE ~found_marker' /\ ~(timeout_count' >= MaxTimeouts)
    <3>2. Blocked' = Blocked
      <4>1. ~ReadStdout /\ ~ReadStderr
        BY <1>6, <2>5 DEF ReadStdout, ReadStderr
      <4> QED
        BY <1>8, <4>1
    <3>1. Session!PollError
      BY <1>1, <1>2, <1>3, <1>4, <1>6, <2>1, <2>2, <2>5, <3>2
      DEF Session!PollError, Session!Wait, Session!Return
    <3> QED
      BY <3>1 DEF Session!SessionNext
  <2> QED
    BY <2>3, <2>4, <2>5
<1> QED
  BY <1>5, <1>6

LEMMA ReturnIsNone ==
  ASSUME StreamInv, JobsInv, Return
  PROVE  UNCHANGED Session!sessionVars
<1>1. /\ at = "return" /\ at' = "idle"
      /\ UNCHANGED <<sas, submitted, found_marker, timeout_count>> /\ exec_counter' = exec_counter
  BY DEF Return, exec_counter
<1>2. JobsSent' = JobsSent /\ LastFinished' = LastFinished
  BY JobsReturn
<1>3. Label = "ready" /\ Label' = "ready"
  BY <1>1, LabelIs
<1>4. HowReturned' = HowReturned
  BY <1>1, <1>3 DEF HowReturned
<1>5. Blocked' = Blocked
  <2>1. SasWaits' <=> SasWaits
    BY DEF Return, SasWaits
  <2> QED
    BY <1>1, <2>1, BlockedSame DEF KernelWaits
<1> QED
  BY <1>1, <1>2, <1>3, <1>4, <1>5, SameJobs

LEMMA TailOfJobs ==
  ASSUME NEW s \in Nat, NEW l \in Nat, l < s
  PROVE  Tail([i \in 1 .. s - l |-> l + i]) = [i \in 1 .. s - (l + 1) |-> (l + 1) + i]
<1> DEFINE before == [i \in 1 .. s - l |-> l + i]
           after == [i \in 1 .. s - (l + 1) |-> (l + 1) + i]
<1>1. /\ before \in Seq(Nat) /\ Len(before) = s - l /\ \A i \in 1 .. s - l : before[i] = l + i
      /\ after \in Seq(Nat) /\ Len(after) = s - (l + 1)
      /\ \A i \in 1 .. s - (l + 1) : after[i] = (l + 1) + i
  OBVIOUS
<1> HIDE DEF before, after
<1>2. before # <<>>
  BY <1>1, EmptySeq
<1>3. /\ Tail(before) \in Seq(Nat) /\ Len(Tail(before)) = Len(before) - 1
      /\ \A i \in 1 .. Len(Tail(before)) : Tail(before)[i] = before[i + 1]
  BY <1>1, <1>2, HeadTailProperties
<1>4. /\ Len(Tail(before)) = Len(after)
      /\ \A i \in 1 .. Len(Tail(before)) : Tail(before)[i] = after[i]
  BY <1>1, <1>3
<1>5. Tail(before) = after
  BY <1>1, <1>3, <1>4, SeqEqual
<1> QED
  BY <1>5 DEF before, after

LEMMA LabelIsNever ==
  StreamInv => Label \notin {"waitpid", "endsas", "close"}
BY DEF Label, StreamInv, Typed, KernelTyped

\* SAS goes on to an item for which there is no room.
LEMMA SasBlocksStep ==
  ASSUME StreamInv, sas = "alive", sas' = sas, Label' = Label, HowReturned' = HowReturned,
         JobsSent' = JobsSent, LastFinished' = LastFinished, exec_counter' = exec_counter,
         at' = at, NothingSent' <=> NothingSent,
         "sas" \notin Blocked, Blocked' = Blocked \cup {"sas"}
  PROVE  [Session!SessionNext]_Session!sessionVars
<1>1. Session!SasBlocks
  BY LabelIsNever DEF Session!SasBlocks, Session!SasRuns, Session!Owned
<1> QED
  BY <1>1 DEF Session!SessionNext, Session!SasStep

LEMMA SasIsStep ==
  ASSUME StreamInv, JobsInv, SasReads \/ SasWrites \/ SasDies
  PROVE  [Session!SessionNext]_Session!sessionVars
<1>1. /\ UNCHANGED <<at, unsent, submitted, found_marker, timeout_count>>
      /\ exec_counter' = exec_counter /\ sas = "alive"
  BY DEF SasReads, SasWrites, SasDies, kernelVars, exec_counter
<1>2. /\ NothingSent <=> NothingSent'
      /\ Label' = Label /\ HowReturned' = HowReturned
  <2>1. NothingSent <=> NothingSent'
    BY <1>1 DEF NothingSent
  <2>2. Label' = Label
    BY <1>1, <2>1 DEF Label
  <2> QED
    BY <1>1, <2>1, <2>2 DEF HowReturned
<1>3. JobsSent' = JobsSent
  BY JobsSasReads, JobsSasWrites, JobsSasDies
<1>4. exec_counter \in Nat /\ JobsSent \in Nat /\ LastFinished \in 0 .. JobsSent
  BY JobsSentType
<1>8. CASE SasReads
  <2>1. sas' = sas /\ LastFinished' = LastFinished /\ todo = <<>>
    BY <1>8, JobsSasReads DEF SasReads
  <2>2. "sas" \notin Blocked
    BY <2>1, BlockedIs DEF SasWaits
  <2>3. KernelWaits' => KernelWaits
    <3>1. stdin \in Seq(Statements) /\ stdin # <<>> /\ stdin' = Tail(stdin)
          /\ unsent \in Seq(Statements) /\ StdinCap \in Nat
      BY <1>8, Bounds DEF SasReads, StreamInv, Typed, KernelTyped, SasTyped
    <3>2. Len(stdin') = Len(stdin) - 1 /\ Len(stdin) \in Nat /\ Len(unsent) \in Nat
      BY <3>1, HeadTailProperties
    <3> QED
      BY <1>1, <1>2, <3>1, <3>2 DEF KernelWaits
  <2>4. CASE Blocked' = Blocked
    BY <1>1, <1>2, <1>3, <2>1, <2>4, SameJobs
  <2>5. CASE "kernel" \in Blocked /\ "kernel" \notin Blocked'
    <3>1. Blocked' = {} \/ Blocked' = {"sas"}
      BY <2>5, BlockedWillBe
    <3>2. Session!SasReads
      BY <1>1, <1>2, <1>3, <1>4, <2>1, <2>2, <2>5, <3>1, LabelIsNever
      DEF Session!SasReads, Session!SasRuns, Session!Owned, Session!MayBlock
    <3> QED
      BY <3>2 DEF Session!SessionNext, Session!SasStep
  <2>6. CASE Blocked' # Blocked /\ ("kernel" \in Blocked => "kernel" \in Blocked')
    <3>2. "kernel" \in Blocked' => "kernel" \in Blocked
      BY <1>1, <2>3, BlockedIs, BlockedWillBe
    <3>1. Blocked' = Blocked \cup {"sas"}
      BY <2>2, <2>6, <3>2, BlockedType, SasAdded
    <3> QED
      BY <1>1, <1>2, <1>3, <1>4, <2>1, <2>2, <3>1, SasBlocksStep
  <2> QED
    BY <2>4, <2>5, <2>6
<1>9. SasWrites => /\ sas' = sas /\ "sas" \notin Blocked
                   /\ Blocked' = Blocked \/ Blocked' = Blocked \cup {"sas"}
  <2> SUFFICES ASSUME SasWrites
               PROVE  /\ sas' = sas /\ "sas" \notin Blocked
                      /\ Blocked' = Blocked \/ Blocked' = Blocked \cup {"sas"}
    OBVIOUS
  <2>1. sas' = sas /\ stdin' = stdin
    BY DEF SasWrites
  <2>2. ~SasWaits
    <3>1. Len(stdout) <= PipeCap /\ Len(stderr) <= PipeCap
      BY DEF StreamInv, Typed, SasTyped
    <3>2. /\ Head(todo).to = "out" => Len(stdout) < PipeCap
          /\ Head(todo).to = "err" => Len(stderr) < PipeCap
      BY DEF SasWrites
    <3>3. PipeCap \in Nat /\ stdout \in Seq(Items) /\ stderr \in Seq(Items)
      BY Bounds DEF StreamInv, Typed, SasTyped
    <3>4. Len(stdout) \in Nat /\ Len(stderr) \in Nat
      BY <3>3
    <3> QED
      BY <3>2, <3>3, <3>4 DEF SasWaits
  <2>3. KernelWaits' <=> KernelWaits
    BY <1>1, <1>2, <2>1 DEF KernelWaits
  <2>4. /\ "kernel" \in Blocked' <=> "kernel" \in Blocked
        /\ "sas" \notin Blocked
    BY <1>1, <2>1, <2>2, <2>3, BlockedIs, BlockedWillBe
  <2>5. Blocked' = Blocked \/ Blocked' = Blocked \cup {"sas"}
    BY <2>4, BlockedType, SasAdded
  <2> QED
    BY <2>1, <2>4, <2>5
<1>5. CASE SasWrites /\ LastFinished' = LastFinished
  <2>1. CASE Blocked' = Blocked
    BY <1>1, <1>2, <1>3, <1>5, <1>9, <2>1, SameJobs
  <2>2. CASE Blocked' = Blocked \cup {"sas"}
    BY <1>1, <1>2, <1>3, <1>4, <1>5, <1>9, <2>2, SasBlocksStep
  <2> QED
    BY <1>5, <1>9, <2>1, <2>2
<1>6. CASE SasWrites /\ LastFinished' = LastFinished + 1 /\ LastFinished < JobsSent
  <2> DEFINE before == [i \in 1 .. JobsSent - LastFinished |-> LastFinished + i]
  <2>1. /\ Len(before) = JobsSent - LastFinished /\ before # <<>>
        /\ Head(before) = LastFinished + 1
    BY <1>4, <1>6
  <2>2. [i \in 1 .. JobsSent' - LastFinished' |-> LastFinished' + i] = Tail(before)
    <3>1. Tail(before) = [i \in 1 .. JobsSent - (LastFinished + 1) |-> (LastFinished + 1) + i]
      BY <1>4, <1>6, TailOfJobs, SMTT(40)
    <3> QED
      BY <1>3, <1>4, <1>6, <3>1
  <2>3. sas' = sas
    BY <1>6 DEF SasWrites
  <2>5. Label # "waitpid" /\ "sas" \notin Blocked
        /\ (Blocked' = Blocked \/ Blocked' = Blocked \cup {"sas"})
    BY <1>6, <1>9, LabelIsNever
  <2>6. Session!SasRuns
    BY <1>1, <2>5 DEF Session!SasRuns, Session!Owned
  <2>7. Session!MayBlock(Blocked)
    BY <2>5 DEF Session!MayBlock
  <2>8. before # <<>> /\ Head(before) # Session!EndSasCmd /\ LastFinished' = Head(before)
    <3>1. LastFinished + 1 # 0
      BY <1>4
    <3> QED
      BY <1>6, <2>1, <3>1 DEF Session!EndSasCmd
  <2>9. /\ UNCHANGED <<at, sas, Label, HowReturned>> /\ exec_counter' = exec_counter
        /\ NothingSent <=> NothingSent'
    BY <1>1, <1>2, <2>3
  <2>4. Session!SasFinishes
    BY <2>2, <2>6, <2>7, <2>8, <2>9 DEF Session!SasFinishes
  <2> QED
    BY <2>4 DEF Session!SessionNext, Session!SasStep
<1>7. CASE SasDies
  <2>1. sas' = "dead" /\ LastFinished' = LastFinished
    BY <1>7, JobsSasDies DEF SasDies
  <2>2. Session!SasDies(1)
    BY <1>1, <1>2, <1>3, <2>1, BlockedWillBe DEF Session!SasDies
  <2>3. Session!SasExits
    BY <2>2 DEF Session!SasExits
  <2> QED
    BY <2>3 DEF Session!SessionNext
<1> QED
  BY <1>5, <1>6, <1>7, <1>8, JobsSasWrites

\* For any programs, pipes and limits: whatever SAS prints and however its output is
\* cut into reads, execute and SAS only take the steps that the session knows of.
THEOREM StreamsImplementSession == Spec => ImplementsSession
<1>1. StreamInv /\ JobsInv /\ [Next]_streamVars => [Session!SessionNext]_Session!sessionVars
  <2> SUFFICES ASSUME StreamInv, JobsInv, [Next]_streamVars
               PROVE  [Session!SessionNext]_Session!sessionVars
    OBVIOUS
  <2>1. CASE \E prog \in Programs, echo \in Echoes : Execute(prog, echo)
    BY <2>1, ExecuteIsStep DEF Session!SessionNext
  <2>2. CASE KernelStep \/ PollInterrupted
    BY <2>2, SendIsStep, ReadingIsStep, ReturnIsNone DEF KernelStep
  <2>3. CASE SasReads \/ SasWrites \/ SasDies
    BY <2>3, SasIsStep
  <2>4. CASE UNCHANGED streamVars
    <3>1. /\ UNCHANGED <<at, unsent, submitted, sas, found_marker, timeout_count>>
          /\ exec_counter' = exec_counter
      BY <2>4 DEF streamVars, kernelVars, sasVars, exec_counter
    <3>2. JobsSent' = JobsSent /\ LastFinished' = LastFinished
      BY <2>4, JobsStutter
    <3>3. NothingSent <=> NothingSent'
      BY <3>1 DEF NothingSent
    <3>4. Label' = Label
      BY <3>1, <3>3 DEF Label
    <3>5. HowReturned' = HowReturned
      BY <3>1, <3>4 DEF HowReturned
    <3>6. Blocked' = Blocked
      <4>1. (KernelWaits' <=> KernelWaits) /\ (SasWaits' <=> SasWaits)
        BY <2>4, <3>3 DEF streamVars, kernelVars, sasVars, KernelWaits, SasWaits
      <4> QED
        BY <3>1, <4>1, BlockedSame
    <3> QED
      BY <3>1, <3>2, <3>3, <3>4, <3>5, <3>6, SameJobs
  <2> QED
    BY <2>1, <2>2, <2>3, <2>4 DEF Next
<1>2. Spec => []JobsInv
  BY StreamInvariant, JobsInit, JobsStep, PTL DEF Spec
<1> QED
  BY <1>1, <1>2, StreamInvariant, PTL DEF Spec, ImplementsSession
=============================================================================
