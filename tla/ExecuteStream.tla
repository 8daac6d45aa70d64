---------------------------- MODULE ExecuteStream ----------------------------
(***************************************************************************)
(* What sas_session::impl::execute exchanges with one SAS process: the     *)
(* wrapped code goes down the stdin pipe; the HTML comes back through the  *)
(* stdout pipe, the log through the stderr pipe, the listing through a     *)
(* temporary file; and execute polls and reads both pipes until it has     *)
(* seen its marker and the end of the HTML, or gives up.                   *)
(*                                                                         *)
(* A stream is a sequence of items.  An item belongs to an execution `ex'  *)
(* and has a kind: "text" and "error" are lines that the user's code logs, *)
(* "note" any other log line, "echo" the source line of the marker that    *)
(* SAS copies to the log, "mark1" and "mark2" the two halves of the marker *)
(* line; "open", "body" and "close" are pieces of HTML, "line" a line of   *)
(* the listing.  The SAS process is external: it is modelled from what     *)
(* execute expects of it.                                                  *)
(***************************************************************************)
EXTENDS Integers, Sequences, SequencesExt

CONSTANTS
  Programs,       \* the programs that a cell may hold
  MaxExecs,       \* bound on the number of executions
  PipeCap,        \* items that fit into the stdout and the stderr pipe
  StdinCap,       \* statements that fit into the stdin pipe
  ReadSize,       \* items that fit into the buffer of a read()
  MaxTimeouts,    \* max_timeouts
  MaxEmptyReads,  \* max_empty_reads
  Echoes,         \* does SAS copy source lines to the log? (its option SOURCE)
  SasMayDie,      \* may SAS end on its own?
  MaxSignals      \* bound on the signals that interrupt poll()

(***************************************************************************)
(* A program is a sequence of statements with the output of each, and says *)
(* whether it mentions an ODS destination.                                 *)
(***************************************************************************)
UserKinds == {"text", "error"}
MarkerKinds == {"echo", "mark1", "mark2", "note"}
Outputs == [to : {"err"}, kind : UserKinds]
             \cup [to : {"out"}, kind : {"open", "body", "close"}]
             \cup [to : {"lst"}, kind : {"line"}]

ASSUME StreamAssumption ==
  /\ \A p \in Programs : /\ p.manages_ods \in BOOLEAN
                         /\ p.body \in Seq(Seq(Outputs))
  /\ {MaxExecs, MaxSignals} \subseteq Nat
  /\ {PipeCap, StdinCap, ReadSize, MaxTimeouts, MaxEmptyReads} \subseteq Nat \ {0}
  /\ Echoes \subseteq BOOLEAN /\ SasMayDie \in BOOLEAN

VARIABLES
  at,          \* where the kernel thread is
  submitted,   \* the programs of all executions so far
  results,     \* what execute has returned for them
  unsent,      \* statements that are still to be written to SAS
  html_output, log_output,
  found_marker, has_html_start, found_html_end,
  timeout_count, consecutive_empty_reads,
  revents,     \* the pipes that the last poll() found readable
  sas,         \* is SAS alive?
  stdin, stdout, stderr,   \* what is in the pipes
  todo,        \* what SAS still has to write for its present statement
  printto,     \* execution whose listing file is open in SAS, 0 if none
  listing,     \* the listing files that exist, by execution
  signals

kernelVars == <<at, submitted, results, unsent, html_output, log_output, found_marker,
                has_html_start, found_html_end, timeout_count,
                consecutive_empty_reads, revents>>
sasVars == <<sas, stdin, stdout, stderr, todo, printto, listing>>
streamVars == <<kernelVars, sasVars, signals>>

exec_counter == Len(submitted)

Init ==
  /\ at = "idle" /\ submitted = <<>> /\ results = <<>> /\ unsent = <<>>
  /\ html_output = <<>> /\ log_output = <<>>
  /\ found_marker = FALSE /\ has_html_start = FALSE /\ found_html_end = FALSE
  /\ timeout_count = 0 /\ consecutive_empty_reads = 0 /\ revents = {}
  /\ sas = "alive" /\ stdin = <<>> /\ stdout = <<>> /\ stderr = <<>>
  /\ todo = <<>> /\ printto = 0
  /\ listing = <<>>   \* no file: the function with an empty domain
  /\ signals = 0

-----------------------------------------------------------------------------
(***************************************************************************)
(* The code that is sent: the user's statements between a PROC PRINTTO     *)
(* that collects the listing, if the user manages ODS, and the marker.     *)
(***************************************************************************)
Statement(n, does, writes) == [ex |-> n, does |-> does, writes |-> writes]

UserCode(n, prog) ==
  [i \in 1 .. Len(prog.body) |-> Statement(n, "run", prog.body[i])]

Log(kind) == [to |-> "err", kind |-> kind]

MarkerCode(n, echo) ==
  << Statement(n, "run", (IF echo THEN <<Log("echo")>> ELSE <<>>)
                           \o <<Log("mark1"), Log("mark2")>>),
     Statement(n, "run", <<Log("note")>>) >>

ListingCode(n, prog) ==
  IF prog.manages_ods
  THEN << Statement(n, "printto", <<>>) >> \o UserCode(n, prog)
         \o << Statement(n, "unprintto", <<>>) >>
  ELSE UserCode(n, prog)

\* Mutant: the marker is sent before the code.
WrappedCode_MarkerFirst(n, prog, echo) == MarkerCode(n, echo) \o ListingCode(n, prog)

WrappedCode(n, prog, echo) == ListingCode(n, prog) \o MarkerCode(n, echo)

Execute(prog, echo) ==
  /\ at = "idle" /\ exec_counter < MaxExecs
  /\ submitted' = Append(submitted, prog)
  /\ unsent' = WrappedCode(exec_counter + 1, prog, echo)
  /\ at' = "send"
  /\ html_output' = <<>> /\ log_output' = <<>>
  /\ found_marker' = FALSE /\ has_html_start' = FALSE /\ found_html_end' = FALSE
  /\ timeout_count' = 0 /\ consecutive_empty_reads' = 0 /\ revents' = {}
  /\ UNCHANGED <<results, sasVars, signals>>

\* fprintf() blocks while the pipe is full, and nothing is read meanwhile.
Send ==
  /\ at = "send" /\ unsent # <<>>
  /\ IF sas = "alive"
     THEN /\ Len(stdin) < StdinCap
          /\ stdin' = Append(stdin, Head(unsent))
          /\ unsent' = Tail(unsent)
          /\ at' = (IF Len(unsent) = 1 THEN "poll" ELSE "send")
     ELSE at' = "killed" /\ UNCHANGED <<stdin, unsent>>   \* SIGPIPE
  /\ UNCHANGED <<submitted, results, html_output, log_output, found_marker,
                 has_html_start, found_html_end, timeout_count, consecutive_empty_reads,
                 revents, sas, stdout, stderr, todo, printto, listing, signals>>

-----------------------------------------------------------------------------
(***************************************************************************)
(* The loop: poll, then at most one read of each pipe.                     *)
(***************************************************************************)
Readable == (IF stdout # <<>> THEN {"out"} ELSE {}) \cup (IF stderr # <<>> THEN {"err"} ELSE {})

PollFinds ==
  /\ at = "poll" /\ Readable # {}
  /\ revents' = Readable
  /\ consecutive_empty_reads' = 0
  /\ at' = "out"
  /\ UNCHANGED <<submitted, results, unsent, html_output, log_output, found_marker,
                 has_html_start, found_html_end, timeout_count, sasVars, signals>>

CountTimeout_Reset == timeout_count' = 0   \* mutant
CountTimeout == timeout_count' = timeout_count + 1

GivesUp_TooLate(timeouts, empty) ==   \* mutant: > for >=
  timeouts > MaxTimeouts
GivesUp(timeouts, empty) ==
  \/ found_marker /\ empty >= MaxEmptyReads
  \/ timeouts >= MaxTimeouts

\* A second went by and both pipes are empty.  The count of empty reads is only
\* compared with its maximum, so it need not grow beyond that.
PollTimesOut ==
  /\ at = "poll" /\ Readable = {} /\ sas = "alive"
  /\ CountTimeout
  /\ consecutive_empty_reads' = (IF consecutive_empty_reads < MaxEmptyReads
                                  THEN consecutive_empty_reads + 1 ELSE MaxEmptyReads)
  /\ at' = (IF GivesUp(timeout_count', consecutive_empty_reads') THEN "return" ELSE "poll")
  /\ UNCHANGED <<submitted, results, unsent, html_output, log_output, found_marker,
                 has_html_start, found_html_end, revents, sasVars, signals>>

\* Once SAS is gone, poll() returns at once with POLLHUP and nothing to read.
PollHangsUp ==
  /\ at = "poll" /\ Readable = {} /\ sas = "dead"
  /\ consecutive_empty_reads' = 0
  /\ UNCHANGED <<at, submitted, results, unsent, html_output, log_output, found_marker,
                 has_html_start, found_html_end, timeout_count, revents, sasVars, signals>>

PollInterrupted ==
  /\ at = "poll" /\ signals < MaxSignals
  /\ signals' = signals + 1
  /\ at' = "return"
  /\ UNCHANGED <<submitted, results, unsent, html_output, log_output, found_marker,
                 has_html_start, found_html_end, timeout_count, consecutive_empty_reads,
                 revents, sasVars>>

Chunk(pipe) == SubSeq(pipe, 1, IF Len(pipe) < ReadSize THEN Len(pipe) ELSE ReadSize)
Rest(pipe) == SubSeq(pipe, Len(Chunk(pipe)) + 1, Len(pipe))

Has(items, kind) == \E i \in DOMAIN items : items[i].kind = kind

ReadStdout ==
  /\ at = "out"
  /\ IF "out" \in revents
     THEN /\ html_output' = html_output \o Chunk(stdout)
          /\ stdout' = Rest(stdout)
          /\ has_html_start' = (has_html_start \/ Has(html_output', "open"))
          /\ found_html_end' =
               (found_html_end \/ (has_html_start' /\ Has(html_output', "close")))
     ELSE UNCHANGED <<html_output, stdout, has_html_start, found_html_end>>
  /\ at' = "err"
  /\ UNCHANGED <<submitted, results, unsent, log_output, found_marker, timeout_count,
                 consecutive_empty_reads, revents, sas, stdin, stderr, todo, printto,
                 listing, signals>>

(***************************************************************************)
(* The marker of this execution in one chunk: the line that SAS echoes, or *)
(* both halves of the line that it prints.  Its first line is cut out.     *)
(***************************************************************************)
IsCurrent_Any(item) == TRUE   \* mutant: the same marker for all executions
IsCurrent(item) == item.ex = exec_counter

MarkerAt(chunk, i) ==
  /\ IsCurrent(chunk[i])
  /\ \/ chunk[i].kind = "echo"
     \/ /\ chunk[i].kind = "mark1" /\ i < Len(chunk)
        /\ chunk[i + 1] = [chunk[i] EXCEPT !.kind = "mark2"]

Markers(chunk) == {i \in DOMAIN chunk : MarkerAt(chunk, i)}

\* Mutant: what stands before the marker in the chunk is dropped too.
Strip_Before(chunk) ==
  IF Markers(chunk) = {} THEN chunk ELSE <<>>

Strip(chunk) ==
  IF Markers(chunk) = {} THEN chunk
  ELSE LET first == CHOOSE i \in Markers(chunk) : \A j \in Markers(chunk) : i <= j
           last == IF chunk[first].kind = "echo" THEN first ELSE first + 1
       IN  SubSeq(chunk, 1, first - 1) \o SubSeq(chunk, last + 1, Len(chunk))

ReadStderr ==
  /\ at = "err"
  /\ IF "err" \in revents
     THEN /\ log_output' = log_output \o Strip(Chunk(stderr))
          /\ stderr' = Rest(stderr)
          /\ found_marker' = (found_marker \/ Markers(Chunk(stderr)) # {})
     ELSE UNCHANGED <<log_output, stderr, found_marker>>
  /\ at' = (IF found_marker' /\ (has_html_start => found_html_end) THEN "return" ELSE "poll")
  /\ UNCHANGED <<submitted, results, unsent, html_output, has_html_start, found_html_end,
                 timeout_count, consecutive_empty_reads, revents, sas, stdin, stdout,
                 todo, printto, listing, signals>>

-----------------------------------------------------------------------------
(***************************************************************************)
(* The result.  If the user manages ODS, the listing file is read and      *)
(* removed, whatever SAS does with it meanwhile.                           *)
(***************************************************************************)
ManagesOds == submitted[exec_counter].manages_ods

Return ==
  /\ at = "return"
  /\ at' = "idle"
  /\ results' = Append(results,
       [found    |-> found_marker,
        log      |-> log_output,
        html     |-> html_output,
        listing  |-> IF ManagesOds /\ exec_counter \in DOMAIN listing
                     THEN listing[exec_counter] ELSE <<>>,
        is_error |-> Has(log_output, "error")])
  /\ listing' = (IF ManagesOds THEN Restrict(listing, DOMAIN listing \ {exec_counter})
                                 ELSE listing)
  /\ UNCHANGED <<submitted, unsent, html_output, log_output, found_marker, has_html_start,
                 found_html_end, timeout_count, consecutive_empty_reads, revents, sas, stdin,
                 stdout, stderr, todo, printto, signals>>

-----------------------------------------------------------------------------
(***************************************************************************)
(* SAS: one statement after the other, each output in its turn.            *)
(***************************************************************************)
Writes(stmt) ==
  [i \in 1 .. Len(stmt.writes) |->
     [ex |-> stmt.ex, to |-> stmt.writes[i].to, kind |-> stmt.writes[i].kind]]

SasReads ==
  /\ sas = "alive" /\ todo = <<>> /\ stdin # <<>>
  /\ LET stmt == Head(stdin)
     IN  /\ todo' = Writes(stmt)
         /\ printto' = (CASE stmt.does = "printto" -> stmt.ex
                          [] stmt.does = "unprintto" -> 0
                          [] OTHER -> printto)
         /\ listing' = (IF stmt.does = "printto"
                        THEN [n \in DOMAIN listing \cup {stmt.ex} |->
                                IF n = stmt.ex THEN <<>> ELSE listing[n]]
                        ELSE listing)
  /\ stdin' = Tail(stdin)
  /\ UNCHANGED <<kernelVars, sas, stdout, stderr, signals>>

Item(write) == [ex |-> write.ex, kind |-> write.kind]

SasWrites ==
  /\ sas = "alive" /\ todo # <<>>
  /\ LET w == Head(todo)
     IN  CASE w.to = "out" -> /\ Len(stdout) < PipeCap
                              /\ stdout' = Append(stdout, Item(w))
                              /\ UNCHANGED <<stderr, listing>>
           [] w.to = "err" -> /\ Len(stderr) < PipeCap
                              /\ stderr' = Append(stderr, Item(w))
                              /\ UNCHANGED <<stdout, listing>>
           [] w.to = "lst" ->
                /\ listing' = (IF printto \in DOMAIN listing
                               THEN [listing EXCEPT ![printto] = Append(@, Item(w))]
                               ELSE listing)   \* closed, or removed while open
                /\ UNCHANGED <<stdout, stderr>>
  /\ todo' = Tail(todo)
  /\ UNCHANGED <<kernelVars, sas, stdin, printto, signals>>

SasDies ==
  /\ SasMayDie /\ sas = "alive"
  /\ sas' = "dead" /\ todo' = <<>> /\ stdin' = <<>> /\ printto' = 0
  /\ UNCHANGED <<kernelVars, stdout, stderr, listing, signals>>

-----------------------------------------------------------------------------
KernelStep ==
  \/ Send
  \/ PollFinds \/ PollTimesOut \/ PollHangsUp
  \/ ReadStdout \/ ReadStderr
  \/ Return

Next ==
  \/ \E prog \in Programs, echo \in Echoes : Execute(prog, echo)
  \/ KernelStep \/ PollInterrupted
  \/ SasReads \/ SasWrites \/ SasDies

Spec == Init /\ [][Next]_streamVars

\* Neither the kernel thread nor a live SAS stops, but for what blocks them.
FairSpec ==
  Spec /\ WF_streamVars(KernelStep) /\ WF_streamVars(SasReads) /\ WF_streamVars(SasWrites)

-----------------------------------------------------------------------------
(***************************************************************************)
(* Safety.                                                                 *)
(***************************************************************************)
Items == [ex : 1 .. MaxExecs,
          kind : UserKinds \cup MarkerKinds \cup {"open", "body", "close"}]

TypeOK ==
  /\ at \in {"idle", "send", "poll", "out", "err", "return", "killed"}
  /\ submitted \in Seq(Programs)
  /\ Len(results) \in {Len(submitted), Len(submitted) - 1}
  /\ {html_output, log_output} \subseteq Seq(Items)
  /\ {found_marker, has_html_start, found_html_end} \subseteq BOOLEAN
  /\ timeout_count \in 0 .. MaxTimeouts
  /\ consecutive_empty_reads \in 0 .. MaxEmptyReads
  /\ revents \subseteq {"out", "err"}
  /\ sas \in {"alive", "dead"}
  /\ Len(stdin) <= StdinCap
  /\ {stdout, stderr} \subseteq Seq(Items) /\ Len(stdout) <= PipeCap /\ Len(stderr) <= PipeCap
  /\ printto \in 0 .. MaxExecs
  /\ DOMAIN listing \subseteq 1 .. MaxExecs
  /\ signals \in 0 .. MaxSignals

\* The records of s whose field has one of these values.
Where(s, field, values) ==
  FlattenSeq([i \in 1 .. Len(s) |-> IF s[i][field] \in values THEN <<s[i]>> ELSE <<>>])

\* What an execution's program prints to one of the three outputs.
Prints(n, prog, to) ==
  LET writes == Where(FlattenSeq(prog.body), "to", {to})
  IN  [i \in 1 .. Len(writes) |-> [ex |-> n, kind |-> writes[i].kind]]

AllPrinted(to) == FlattenSeq([n \in 1 .. Len(submitted) |-> Prints(n, submitted[n], to)])

User(items) == Where(items, "kind", UserKinds)

Pending == stdin \o unsent

\* What is still to come from SAS: the rest of its statement, then its input.
Coming(to) ==
  LET later == FlattenSeq([i \in 1 .. Len(Pending) |-> Writes(Pending[i])])
      writes == Where(todo \o later, "to", {to})
  IN  [i \in 1 .. Len(writes) |-> Item(writes[i])]

ReadSoFar(field, current) ==
  FlattenSeq([n \in 1 .. Len(results) |-> results[n][field]])
    \o (IF Len(results) < Len(submitted) THEN current ELSE <<>>)

\* Cutting out the marker line, giving up, and reading on in the next call
\* neither lose, repeat nor reorder a line that the user's code logged, nor a
\* piece of its HTML: what was returned, what is in the pipes and what is
\* still to come is everything the programs print, in order.
StreamsInOrder ==
  LET log == User(ReadSoFar("log", log_output) \o stderr)
      html == ReadSoFar("html", html_output) \o stdout
  IN  IF sas = "alive"
      THEN /\ log \o User(Coming("err")) = AllPrinted("err")
           /\ html \o Coming("out") = AllPrinted("out")
      ELSE /\ IsPrefix(log, AllPrinted("err"))
           /\ IsPrefix(html, AllPrinted("out"))

Clean(n) == \A m \in 1 .. n : results[m].found

\* As long as every execution so far ended on its marker, each result holds
\* exactly the log and the listing of its own program, and is an error if and
\* only if that program logged one.
CleanRunExact ==
  \A n \in 1 .. Len(results) : Clean(n) =>
    /\ User(results[n].log) = Prints(n, submitted[n], "err")
    /\ submitted[n].manages_ods => results[n].listing = Prints(n, submitted[n], "lst")
    /\ results[n].is_error <=> Has(Prints(n, submitted[n], "err"), "error")

\* Also after executions that were given up: when execute has found its
\* marker, SAS has run all the code that it was ever sent and has closed the
\* listing; nothing but lines of markers is still to come.
MarkerMeansFinished ==
  at = "return" /\ found_marker =>
    /\ \A w \in ToSet(todo) : w.kind \in MarkerKinds
    /\ \A stmt \in ToSet(Pending) :
         stmt.does = "run" /\ \A w \in ToSet(stmt.writes) : w.kind \in MarkerKinds

\* An execution that found its marker returns all the HTML of its program,
\* and no other.
HtmlComplete ==
  \A n \in 1 .. Len(results) : Clean(n) => results[n].html = Prints(n, submitted[n], "out")

\* A listing file outlives its execution only if that was given up before
\* SAS had come to the file.
ListingRemoved ==
  \A n \in 1 .. Len(results) : n \in DOMAIN listing => ~results[n].found

-----------------------------------------------------------------------------
(***************************************************************************)
(* Liveness.                                                               *)
(***************************************************************************)

\* The kernel cannot write because SAS does not read, and SAS does not read
\* because it cannot write: nobody empties its output pipes meanwhile.
EachWaitsForTheOther ==
  /\ at = "send" /\ Len(stdin) = StdinCap
  /\ todo # <<>>
  /\ \/ Head(todo).to = "out" /\ Len(stdout) = PipeCap
     \/ Head(todo).to = "err" /\ Len(stderr) = PipeCap

\* Every execution returns, full output pipes and split markers included,
\* unless SAS ends or the code does not fit into the pipes.
ExecuteReturns == at # "idle" ~> at = "idle" \/ sas = "dead" \/ EachWaitsForTheOther

\* Waiting for the output comes to an end.
WaitEnds == at = "poll" ~> at \notin {"poll", "out", "err"}
=============================================================================
