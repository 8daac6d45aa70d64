# xeus-sas in TLA+

xeus-sas is a Jupyter kernel for SAS. It starts one SAS process, writes the code of each cell to
its standard input, and reads HTML from its standard output and the log from its standard error.
This directory holds a formal model of that program: TLA+ modules, TLC configurations that check
them on small instances, and proofs that TLAPS checks for every instance. Paths such as
`src/sas_session.cpp` are relative to the repository.

## 1. Inventory

| Component | Code | State | Operations |
|---|---|---|---|
| SAS process lifecycle | `sas_session::impl` in `src/sas_session.cpp` (24-212, 984-1173) | `m_initialized`, `m_sas_pid`, three `FILE*`, open descriptors, the child | `execute` (lazy start), `shutdown`, `restart`, `interrupt`, `is_ready`, destructor |
| Request handling and interrupts | `src/xinterpreter.cpp` (31-88, 438-444), `src/main.cpp` | `g_interrupt_requested`, the request in progress | execute and shutdown requests, SIGINT handler, `handle_interrupt` |
| Streams of `execute` | `src/sas_session.cpp` 214-443, 942-986 | three pipes, `found_marker`, `has_html_start`, `found_html_end`, two counters, the listing file | send the wrapped code, poll, read, give up, return |
| HTML extraction and clean-up | `src/sas_session.cpp` 445-703 | `html_output`, `clean_html`, positions in it | cut out the document, then six passes over it |
| HTML tables | `src/sas_session.cpp` 705-901 | `grid`, `cell_occupied`, `current_row`, `current_col` | parse a row, place a cell, write the table |
| Log parser | `src/sas_parser.cpp` | none | `contains_error`, `extract_graph_files`, `colorize_log`, `should_show_listing`, ... |
| Reply and display | `src/xinterpreter.cpp` 88-298, 446-484 | the result, what was published | HTML, listing, log or graphics; the reply |
| Completion, inspection | `src/completion.cpp`, `src/inspection.cpp` | none | `get_completions`, `get_inspection` |
| Is-complete, kernel information | `src/xinterpreter.cpp` 340-436 | none | a count of steps and ends, constants |
| Batch mode | `src/sas_session.cpp` 994-1075 | temporary files | compiled on Windows only |
| Build files, kernel specification, tests | `CMakeLists.txt`, `cmake/`, `share/`, `test/` | none | |

How they interact. The xeus framework (external) dispatches one request at a time on the main
thread. `execute_request_impl` first exchanges the interrupt flag for false, restarts the session
if it was set, then calls `sas_session::execute` and turns the result into a reply. The SIGINT
handler runs on the same thread between any two instructions and only sets the flag. The SAS
process runs concurrently and is connected by three pipes of bounded size, and by a temporary file
when the user's code manages ODS destinations. Completion and inspection run between executions;
the one call they could make to the session (`get_macro`) is dead code, see section 4.

What is hard. (1) System calls fail in the middle of `initialize_session`, which throws and leaves
members and descriptors as they are. (2) SAS may die at any moment, by itself, by a Ctrl-C that
reaches the whole process group, or because its output pipes were closed; while it lives, each side
may block in a write to a full pipe. (3) A SIGINT may arrive
before, during or after the step that looks at the flag, and makes `poll()` fail in spite of
`SA_RESTART`. (4) The end of an execution is found in two unsynchronised streams, read in chunks.
(5) An execution that was given up goes on in SAS, and its output arrives in the next one.
(6) The HTML is edited as a string by passes that each assume one table, and may begin or end
anywhere; the columns of a table are not in its text. (7) The log is searched with several regular
expressions that do not agree. (8) Completion works out its context afresh for every key.

What makes each component correct:

* lifecycle: no call uses what it does not have; one SAS process; no descriptor or process is left
  behind; a write never goes to a pipe without a reader; calls return;
* requests: an interrupt is neither lost nor served twice; a loss of state is announced; every request
  is answered;
* streams: nothing is lost, repeated or reordered, results hold the output of their own program,
  the marker means that the program was run, waiting ends;
* extraction: what is shown is what was read, still well nested, and every loop ends;
* tables: flattening moves no cell to another column or row;
* display: each result is shown once and as what it is, the message is that of the failure;
* completion, inspection, is-complete: what is offered fits where it is put and does not vanish while
  one types, help is about the place of the cursor, no cell asks for more lines for ever.

## 2. Modules

`SasSession` - the lifecycle. `op` is the public call in progress and `pc` the system call that it
has reached, so that SAS and a signal can interleave between any two system calls. `execute`,
`shutdown`, `restart` and `interrupt` are actions; the steps of `initialize_session` (`OpenPipes`,
`PipeFails`, `ForkChild`, `ForkFails`, `OpenStreams`, `FdopenFails`) change exactly the members that
the code has changed when it throws there. SAS is external: it takes jobs from its input in order,
prints their markers, obeys `endsas;`, loses its output pipes, or just ends. `blocked` says who waits
in a write to a full pipe: the kernel in the `fprintf` of the code (`FinishSending`) or of `endsas;`
(`SendEndSas`), SAS in any write. SAS frees the kernel by reading on (`SasReads`), the kernel frees SAS
by reading both of its pipes (`KernelReads`), which it does only in the polling loop, or by closing
them. Whether a write fits is left open; only `endsas;` into an empty pipe always does. The constant
`Faults` says which faults may happen, `"full"` for full pipes among them; every property that needs a
fault to be absent is checked, and proved, with exactly that fault absent.

`Interpreter` - extends `SasSession`, sharing its variables: a handler starts a call of the session
and goes on when the call has come back, so that the interpreter is a session by construction (lemma
`InterpreterIsSession`). `Exchange` is the atomic exchange of the flag. `stale`
(processes that were there when a SIGINT arrived), `owner` and `warned` are history variables that
the properties need. The client may also call `interrupt()` between requests (`ClientInterrupts`).
`Stranded` names the three places where the kernel thread may stay for good (section 3, Fairness).

`KernelService` - what interpreter, session and SAS together promise to a front end, with no system
call in it: a request is accepted, its code runs exactly once and is then answered; it runs in the
process that holds the user's state, or the user has been told that the state is lost; it never runs
in a process that was interrupted before the request was accepted; the kernel may break, but then it
answers nothing more. `Interpreter` instantiates it under a refinement mapping (`Service`): `phase`
from `stage` and `pc`, `holder` from `owner`, `told` from `warned`, `interrupted` from `stale`.

`ExecuteStream` - one SAS process and what `execute` exchanges with it. Bytes are abstracted to
items that know their execution and kind; a chunk is at most `ReadSize` items, the marker line is two
items so that a read can split it, and `echo` is the source line in which SAS repeats the `%put`
statement (option SOURCE). The first closing tag after an opening one counts as the end of the HTML,
as in the code. The listing is a file that SAS creates when it reads PROC PRINTTO and that `execute`
removes.

`StreamJobs` - the refinement between the two levels of `execute`: `Session` instantiates
`SasSession` with a state computed from pipes, items and counters of `ExecuteStream` (how many jobs
have been sent, how many markers SAS has written, whose next write does not fit), and
`ImplementsSession` says that every step of the streams is a step of the session or none. So a marker
that is found by accident, a job that is sent twice, a wait that ends without reason or a full pipe of
which `SasSession` knows nothing would show. It starts from a session that has been
initialized, and speaks of one SAS process.

`HtmlExtract` - from what was read to `clean_html`: one action per pass, or per round where
a pass is a loop over the text that it changes, over a sequence of tags, rows, pictures and texts. `ExtractInit` is what `ExecuteStream` may leave: any rest of one output, then any
beginning of the next (`stream_html` shows that both happen). Each `find()`, `rfind()`, `erase()` and
`substr()` is there, with the two places where an offset of `npos` wraps around; what the passes do
with the positions they find is one operator, `Replace`. Of the attributes a tag may have `style` and
`aria-label`, whose two loops take one of them away in each round (`RemoveStyle`, `RemoveLabel`);
`<tr>` with its cells is one row, since the cells are the matter of `TableFlatten`. `Printed`
says what SAS prints: elements are closed and hold what belongs into them, a body comes right behind
its header, and nothing ends before the start tag. What is read of two such outputs need not be so.
Of the properties, `NestingKept` runs an automaton over the text: a `Place` is what is open (a document,
so many divisions, in these a title or a table, in this one of its parts), `Behind` is the place behind
a tag, and a text is well nested if it leads from outside to outside. `ExtractionAdvances` compares the
passes, and within a loop what is still `Ahead`.

`ResultDisplay` - from the result of `execute` to the reply. A log is a sequence of lines of ten
kinds, which are those that the regular expressions tell apart; `Matches`, `IsBenign`,
`HasErrorText` and `Colour` say which expression takes which. A listing is white space, a text, or end
markers and nothing else (which SAS may have written to it: `xinterpreter.cpp:216` strips them).

`Editor` - completion, inspection and is-complete over a text that is a sequence of characters, since
`find()` finds a word within another one too (the T in `DATA T(`). The alphabet and the tables of
keywords are cut down; several letters are typed at a time (`Strokes`), and a letter outside ASCII is
one character for the client and two bytes for the kernel. `Requests` composes `ResultDisplay` and
`Editor`: one request at a time, cell after cell.

`TableFlatten` - the pass that rebuilds a table without spans, one action per row and per cell. The
input is a layout, a set of tiles that cover rectangles; the code only ever sees which cells begin in
which row, and their spans. `NextFree` is `find_next_col`, `Filled` the double loop over the spanned
slots, `Rebuild` the output. `cell_occupied` is the domain of `grid`, as both are assigned together.
Rows and cells without an end tag, nested tables and spans that are not positive numbers, none of
which SAS writes, are not in the input.

The `_proof` modules hold the theorems: `SasSession_proof`, `Interpreter_proof`,
`ExecuteStream_proof`, `StreamJobs_proof`, `HtmlExtract_proof`, `Requests_proof` (with everything about
`ResultDisplay` and `Editor`, whose steps are those of `Requests`) and `TableFlatten_proof`.
`SequenceLemmas` is what they share: how `FlattenSeq` treats `\o` and `Append`, and induction over
numbers and sequences. The `MC` modules hold the sets of faults, programs, outputs, layouts and
keystrokes for TLC. Operators such as `Exchange_Kept`, which stand just before the definition they vary,
are mutations: none of them is used by a specification.

## 3. Runs

| Run | Shows | Bounds and faults | States |
|---|---|---|---|
| `interp_faults` | `InterpreterTypeOK`, `NoLostInterrupt`, `HandlesValid`, `MarkerMeansIdle`, `CallComesBack`, `RequestAnswered` | all faults, full pipes included, 3 processes, 3 executions, 12 descriptors, 2 SIGINTs | 833 927 |
| `interp_state` | `RestartsBounded`, `SingleSas`, `DescriptorBalance`, `CleanShutdown`, `StateLossReported`, `KernelServes` | SAS may die alone or with its group, full pipes, 4 processes, 4 executions, 12 descriptors, 2 SIGINTs | 64 980 |
| `interp_group` | `RestartSurvived` **fails** | SIGINT to the process group | |
| `session_busy_restart` | `RestartCompletes` **fails** | no faults | |
| `stream` | `TypeOK`, `StreamsInOrder`, `CleanRunExact`, `MarkerMeansFinished`, `ListingRemoved`, `ImplementsSession`, `ExecuteReturns` | pipes of 3, reads of 2, SAS may die, one interrupted `poll()` | 310 085 |
| `stream_html` | `HtmlComplete` **fails** | one program with two fragments of HTML | |
| `stream_hangup` | `WaitEnds` **fails** | SAS may die | |
| `html_extract` | `ExtractTypeOK`, `ContentKept`, `NestingKept`, `ColgroupsEndFound`, `Simplified`, `ExtractionAdvances`, `ExtractionEnds` | any rest of one of five outputs, then any beginning of another | 97 919 |
| `html_rows` | `ContentShown` **fails** | one output with two tables | |
| `table_flatten` | `TableTypeOK`, `CellsInPlace`, `TableKept` | all tilings of 3 x 3, tiles at the right border optional | 13 779 |
| `requests` | `RequestsTypeOK`, `OneMainOutput`, `MessageFits`, `GraphsInOrder`, `CompletionFits`, `StaysOffered`, `InspectionRight`, `RunCompletes` | logs of 3 lines of 10 kinds, texts of 4 strokes out of 14 | 689 843 |
| `requests_macro` | `MacroOffered` **fails** | texts of 4 strokes | |

Why the bounds are enough. Process ids limit the number of forks: three allow two SIGINTs, each with
a restart (`interp_faults`), four a failure between them as well (`interp_state`). Six descriptors are
what `initialize_session` holds open at its peak; twelve leave room for a session that was not shut
down beside it, or for what two failed attempts left, and are then too few, so that `pipe()` fails. `MaxTimeouts` is 2 for 30 and `MaxEmptyReads` 1 for 5: the code only
compares the counters, and both comparisons are reached on both sides. A pipe of three items and a
read of two make a full pipe, a split marker and a marker in the middle of a chunk all happen. Two
executions are needed for one to see what the other left; the safety of the streams was once checked
with three (10.5 million states, no error). The table run was repeated for 3 x 4 and 4 x 3. The five
outputs of `html_extract` have each kind of tag, with and without column groups, captions and
titles, and one has two tables; cut at every token they give every order of unmatched tags that the
passes can meet. Three lines of log let a line of one kind stand before and behind one of another;
four strokes are a context, the beginning of a word and its continuation.

Deadlock is not checked. The kernel stops for good when SIGPIPE has ended it (`pc = "killed"`,
`at = "killed"`), when its requests, executions, forks or signals are used up (a bound of the model),
when both sides wait on full pipes, or when the table or the HTML has been
written. `requests` has no such state, and there it is checked.

Fairness. The kernel thread takes its next step unless a system call blocks it: a full pipe, an input
without anything to read, `waitpid()`. `LazySasSpec` assumes besides only that SAS obeys `endsas;` once
it comes to it. `AnswerSpec` assumes that SAS gets on with its input, which is an assumption on the
user's code: it comes to the end of each job, and it reads on while its input is full. The first is
strong fairness (`SF` of `SasFinishes`), since a SAS that writes more than a pipe holds is stopped and
released again and again before its job is done; each time the kernel has read. That it will be
read is *not* assumed: where nobody reads, SAS stays blocked, and nothing of it is fair. No time limit is
relied on (`TimesOut` is possible at any moment, and never due), and requests, signals, faults and the death of
SAS are not fair either. In `ExecuteStream` the kernel thread and a live SAS are fair, and a full
pipe disables the writer. `HtmlExtract` is sequential code, which is weakly fair.

The conclusions say what else may happen. `CallComesBack` and `RequestAnswered` end in a return, in a
reply (or the exception of a failing `initialize_session`, after which there is none), or in `Stranded`,
which is one of three: SIGPIPE has ended the kernel; the polling loop watches the pipes of a SAS that has
ended, as `stream_hangup` shows; or `EachWaitsForTheOther`, where the kernel writes code (line 279) or
`endsas;` (line 1105) into a full pipe while SAS, which would have to read it, writes into a full pipe
that only the kernel reads. The last is a real defect of the code, and needs no fault but much code and
much log. `ExecuteReturns` ends in a return, a dead SAS, or the same state, item by item.

## 4. What fails

Each of these runs checks one statement of the repository and finds a behaviour that contradicts it.

* `session_busy_restart`: `restart()` does not kill SAS, as `include/xeus-sas/sas_session.hpp:88`
  says; it queues `endsas;` behind the job and blocks in `waitpid()` (`src/sas_session.cpp:1129`).
* `interp_group`: the child is in the kernel's process group, so a Ctrl-C during an execution reaches it
  as well. `poll()` fails and the execution is answered; the next request finds the flag and restarts
  the session, `shutdown()` writes `endsas;` (`src/sas_session.cpp:1105`) to a SAS that has ended, and
  SIGPIPE ends the kernel. `src/main.cpp:26` says that the handler prevents the signal from reaching
  SAS, and line 27 that it restarts the session to recover.
* `stream_html`: `src/sas_session.cpp:289` says that the loop waits for the complete HTML; it stops
  at the first `</div>` or `</table>`, and the rest is read by the next execution.
* `stream_hangup`: after the death of SAS `poll()` reports POLLHUP without data; neither limit counts
  that, so the "30 seconds total" of `src/sas_session.cpp:317` never end.
* `html_rows`: the column groups of two tables are merged as if they were those of one
  (`src/sas_session.cpp:507`, 549), and the rows of the first table are lost.
* `requests_macro`: after `%` macro keywords are offered (`include/xeus-sas/completion.hpp:141`), but
  in a DATA step they are gone with the next letter, since the context is then that of the DATA step.

The models show some more, which no run is spent on. After a failed `fork()` six descriptors stay
open, and after a failed `fdopen()` the child is orphaned: this is why `DescriptorBalance` is claimed
without failing system calls and `SingleSas` without a failing `fdopen()`. A restart that fails in
`initialize_session` clears the flag and warns of nothing (`StateLossReported` is claimed without it).
A SIGINT without a further request is never acted upon. `is_ready()` only says that a path was found.
A timeout is answered as success. When SAS echoes the `%put` statement, the echo is taken for the
marker, and the marker line itself appears in the log of the next cell. A listing file that SAS
creates after a timeout stays (`ListingRemoved` says that only a timeout can cause this). Code and log
that overflow both pipes block kernel and SAS on each other; so does the `endsas;` of a shutdown or a
restart behind an execution that was given up (`EachWaitsForTheOther`).

In the HTML: the last `</div>` ends it, so a table on its own behind a title is cut off (`Framed`
excludes it); the header of a later table goes into the first body when the first table has no header
(`HeaderFits`); the rebuilt table is followed by the old `</table>` (`NestingKept` allows just this
one, and claims nothing if the column groups are those of several tables), and captions with a text, which the pass before keeps, are dropped with everything else that is
no row. When an output of an earlier execution comes first, the end of the column groups may not be
found, and the text is repeated (`ColgroupsEndFound` is claimed without it).

In the replies: a line `ERROR 180-322: ...`, which is how SAS reports a statement that is not valid, is
red but no error for `contains_error`, whose expression wants a colon right behind the number
(`src/sas_parser.cpp:60`). Without another error line the request is answered as a success, although
`test/test_session.cpp:29-38` expects an error for such code; `Std Error: 0.25` on the other hand is one.
So the models claim nothing of the kind that every failure makes the request fail. The message in the
reply is that of the first line with ERROR in upper case, a benign one or a dump with `_ERROR_=1`
included (`MessageFits` names exactly these). A listing that holds nothing but end markers is stripped
until nothing is left and then not shown, and the log is not shown in its place
(`src/xinterpreter.cpp:216-224`; `OneMainOutput` names this case). With HTML neither listing nor log is
visible. Only SVG graphs are shown as images, others as a path, although `README.md` speaks of embedded
PNG images (`GraphsInOrder` is about their order). Completion ranges are wrong behind a letter outside
ASCII. No context is "function", so the tables of functions are never offered. Help for macro variables,
which `include/xeus-sas/inspection.hpp` announces (17, 112-118, 152), is dead code: `%` belongs to no
identifier, so `src/inspection.cpp:325` never finds one. Help takes the first place where the letters of
the identifier stand, within another word too: in `DATA T(` the T of DATA is found first, so that T is a
data set and not a function; and whatever begins with a procedure's name after PROC may be classed by
that one. `InspectionRight` therefore claims something only where the letters stand once.
Is-complete does not see `Proc` or two steps in one line.

## 5. Proofs

Everything in `*_proof.tla` holds for every value of the constants that satisfies their assumptions
(`SessionAssumption`, `SignalsAssumption`, `StreamAssumption`, `TableAssumption`,
`ExtractAssumption`, and `DisplayAssumption` and `EditorAssumption` for the requests). Of the runs'
properties all are proved but the liveness properties: every invariant and every action property.

*Session.* `HandlesValid` is not inductive: that the child of an initialized session is unreaped
depends on where the call in progress is. The invariant adds, per value of `pc`, which streams and
descriptors are there (`Life`), that the jobs in the input are newer than what has finished and in
order (`InputOrdered`, from which `MarkerMeansIdle` follows after any number of executions that were
given up), and the types. `OnlyOwn`, `FdsExact` and `AliveUntilAsked` are proved on top of it, each
under the assumption that the fault it excludes is not in `Faults`; they give `SingleSas`,
`DescriptorBalance`, `NeverKilled` and `CleanShutdown`. The last is an action property:
the step that ends a shutdown (`ShutdownEnds`) leaves neither a process nor an open stream.

*Interpreter.* Every step of the interpreter is a step of the session or leaves it alone, by the way the
two are composed (`InterpreterStep`, `InterpreterIsSession`); so what is proved of the session holds for
the interpreter too. `NoLostInterrupt` needs `InterruptPending` (which process a restart is about to
replace), `StateLossReported` needs `StateKnown` (who owns the latest code at each stage).
`KernelServes` maps each step to one of `KernelService` or to a stutter, given `AvoidsBarred`: the
process that is about to get the code is not among those that were interrupted before the request,
which holds because the exchange of the flag comes before the restart and the restart before the code.
`RestartsBounded` needs `ForksPaid`: the processes that were ever forked, and the fork that a pending
flag or a restart under way still owes, are at most the SIGINTs and one. Both assume that
`initialize_session` does not fail.

*Streams.* `MarkerMeansFinished` looks at one moment only; it is true because statements never overtake
each other. `StreamInv` therefore says of the whole way through SAS (its input, the statement it works
on, the stderr pipe): where a line of the marker of execution n has come, no code of n or of an earlier
execution is behind it (`Ordered`); every statement is either the user's or the marker's and belongs to
an execution that began (`Sorted`). `ListingRemoved` follows too: SAS creates the file of n only by
code of n, and that can no longer come once the marker of n has been found.

*Streams as jobs.* For `StreamsImplementSession` one has to know which markers are still to come:
while SAS lives, they are those of the executions behind the last finished one, each once and in order
(`MarkersToCome`), and SAS works on nothing that has not been sent (`OnlySent`). Then a marker that SAS
writes is either that of the next job, or the line of which the echo came just before. Reading moves
markers from the pipe to the log or to `found_marker` and loses none (`StripMarks`,
`FinishedReadStderr`), so a read is a step of the session only in that it may make room (`KernelReads`). Of the kernel thread, `SendingInv` says how
much of the latest code is still unsent. Both hold for any programs, echoes and sizes of pipes and
buffers, and with a SAS that dies.

*What the streams carry.* `StreamsInOrder` and `CleanRunExact` speak of concatenations over all
executions. `FlowInv` says: what was returned, read and not yet read, followed by some rest `d`, is all
that the programs print; while SAS lives, `d` is exactly what its input still makes it print (`Coming`);
and where a marker has come, `d` holds nothing of its execution or an earlier one. So a step only moves
items from one of these places to the next, which lemmas about `FlattenSeq` show one step at a time.
`CleanRunExact` needs three more facts. `Owned`: a log holds nothing of a later execution, and nothing
of an earlier one whose marker was read. `Bracketed`: SAS has the listing file of an execution open
while it runs that execution's code and at no other time, and opens it once; a function from positions
in the input to the file that is open there is the witness. `ListingFlow`: the file and what is still to
come make the listing, and nothing is to come once the marker is out.

*HTML.* Nothing is assumed of where the text begins and ends, so that tags without their partner are
everywhere. What survives is `Only`: behind an opening tag, the first thing that does not belong inside
is its closing tag, if anything follows at all. It holds for what is printed, for any part of it, for
two parts one behind the other, and after any edit that begins outside of the element (`OnlySpliced`);
`Spliced` describes such an edit by positions. `ShapeInv` says which elements are still `Only` and which
are gone before each pass; `ExtractTypeOK` (the search for captions never leaves the text) and
`Simplified` follow. The proof also covers a text that begins with the end of another output. For the
rest nothing of another output comes first: `ExactInv` says that what was cut out then ends with a
closing tag, from which `ColgroupsEndFound` follows. `KeptInv` says what the text shows, compared with
the output, and what it needs for this to last: the column groups stand together, no body comes before
the first header (`Fits`), a table holds no picture (`Tabled`). The passes that cut something out take
nothing that is shown; the header is the hard one, since it moves: with its tags and the one behind
which it is put gone, the texts before and after are equal (`MovedContent`). `ContentKept` follows. That
an edit keeps these conditions is shown by `InOrder`: which position of the new text comes from which of
the old.

`NestingKept` assumes nothing of what SAS prints, only that the text was well nested when it was read.
That a text leads from one place to another is a relation (`Leads`) that is put together from its parts
and taken apart again (`LeadsJoin`, `LeadsPart`), so an edit that replaces one part by another that
leads from the same place to the same place keeps the rest (`NestReplaced`). What remains is to find
these places. A tag that leads astray does so for good, so in a well nested text each opening tag stands
where it may, and the first closing tag of its kind behind it is its own (`NestClosed`, `NestTable`);
hence a group, a title, a caption or a table can be cut out or replaced as a whole, and the header
can be put behind the tag that opens the body, as rows lead nowhere (`NestHeader`). That what is cut out
of the text read is itself well nested (`NestExtract`) is the longest part: nothing is open before the
first start tag or behind the last end tag, which the code searches for independently of each other;
this is shown for documents, for divisions, and for tables where neither of these occurs. From the first
column group to the last nothing but parts of one table is opened or closed, by `ColumnsOfOneTable`, so
merging them leads back into that table. `NestInv` carries all this from pass to pass.

`ExtractionAdvances` stands in for the liveness that cannot be proved. Its measure is the order of the
passes and, within four loops, what is still to be searched: the length of the text for titles and
captions (`TitlesAdvance`, `CaptionsAdvance`; the second also goes down where a caption is never closed),
the tags that have the attribute for styles and labels (`AttributesAdvance`). The column groups are
counted in one step of the model, and the loops over rows and cells are those of `TableFlatten`. With
the weak fairness of sequential code, `ExtractionEnds` follows by hand, and TLC checks it.

*Results.* Everything hangs on the first line of the log that one or the other expression finds.
`IsFirst` says which line this is, `FirstOf` that the operators return it for a log of any length,
`MessageOfFailure` how the two lines lie to each other, `FailureInv` what the handler knows and has
shown at each stage. `MessageFits` follows. For `OneMainOutput` and `GraphsInOrder`,
`GraphsInv` says: at any moment some graphs have been shown and the others are still to come, the two
together are those that the log names, and what was published is the main output followed by those of
the shown ones that could be read (`SomeShown`).

*Editor.* `EditorInv` says that the answer is the one that belongs to the text, so that everything else
is about operators over a text of any length. `CompletionFits`: what stands between the start of the
word and the cursor is a word, and without letters outside ASCII a byte is a character (`CodeOfAscii`).
`InspectionRight`: if the letters of the identifier stand in one place only, to look for it with
something before it is to look at what is before that place (`PlacedWord`). `StaysOffered`, an action property: what the
context is read from ends in a blank or a semicolon, and what ends in no letter stands where it stood
when letters are added (`OccurrencesStay`); so the context is the same (`SameContext`), and only the
last word has grown, towards the offer. `RunCompletes`: each `RUN;` that is appended stands on a line of
its own, so it is counted once, and as many as there are open steps suffice (`RunsCounted`, by an
injection of numbers into lines; `BeginsStay`: no new step begins).

*Tables.* `GridInv` says that the grid holds exactly the tiles placed so far, each where it belongs,
and that the cells still to come in this row begin at or after `current_col`. The heart is
`FreeIsLeft`: the column at which `find_next_col` stops is the column of the cell in its layout, since
everything to its left has been placed and nothing placed reaches into it. `DownwardClosed` then shows
that leaving out empty slots moves nothing. `FlattenedTableKept` is thereby proved for tables of any
size.

What sequences do under induction. The induction theorems of the library take the statement as a
parameter and cannot be used here. `UpToInduction` and `SeqInduction` take the *set* of the numbers, or
of the sequences, for which the statement holds; so `FlattenSeq` and selections of a sequence (written
as `FlattenSeq` of sequences of one or no element) come within reach.

The assumptions. `ExtractAssumption` is about SAS and not about the code: the passes are written for
what SAS prints, and `Printed` says of this what the properties need. No theorem assumes anything of
where the reading stopped. `ContentKept` claims nothing of an output that is not `Tame`; the three
conditions are those under which the passes do what they are for, and section 4 names what happens
without them.

Only model-checked: the liveness properties `CallComesBack`, `RequestAnswered`, `ExecuteReturns` and
`ExtractionEnds`. Fairness speaks of ENABLED, which the provers do not reach. For the last of them the
step that a proof by hand would rest on is proved (`ExtractionAdvances`); for the others the states in
which a call may stay are named in the properties themselves.

## 6. Plan

The order follows how much of the kernel's behaviour hangs on a part: lifecycle, interpreter, streams,
tables, the service they promise, extraction, display and editor, each done, and each with its safety
properties proved. What would come next: a measure, as for the extraction, for the calls that are to
come back; `ListingFiles`, two kernels on one machine whose counters both start at 1 and who read and
remove each other's listing (line 251); exceptions of `std::stoi` as a fault of `Interpreter`.

## 7. Not modelled

The xeus framework, the Windows batch mode (and `parse_execution_output`, `extract_warnings`,
`strip_ansi_codes` and `generate_execution_marker`, which nothing else calls but tests), the search for
the SAS executable, debug output, CSS, help texts and wording have no state or are third-party. Of
strings only what the code distinguishes is there: no text of a cell contains a tag or ` style=`, no
line of the log breaks off behind `ERROR:`, a listing is white space or has a text besides markers, and
spans and error codes are numbers that fit an `int` (otherwise `std::stoi` throws, the exception leaves
`execute_request_impl`, and xeus sends no reply, as after a failing `initialize_session`). A cursor is
at the end of the text for completion and anywhere for inspection. Requests about a text do not
depend on each other, so that one is asked between two strokes.
