---------------------------- MODULE ResultDisplay ----------------------------
(***************************************************************************)
(* What becomes of the result of one execution: the log is searched for    *)
(* errors, a message and graph files (the end of execute, sas_parser.cpp), *)
(* then execute_request_impl publishes what is to be shown and answers.    *)
(*                                                                         *)
(* A log is a sequence of lines, each of them a kind:                      *)
(*   "error"     ERROR: File WORK.A.DATA does not exist.                   *)
(*   "coded"     ERROR 180: Statement is not valid.                        *)
(*   "numbered"  ERROR 180-322: Statement is not valid.                    *)
(*   "benign"    ERROR: Expecting page 1 (one of the patterns to ignore)   *)
(*   "lower"     Std Error: 0.25                                           *)
(*   "dump"      A=. _ERROR_=1 _N_=1                                       *)
(*   "warning"   WARNING: ...                                              *)
(*   "png", "svg"  NOTE: Writing HTML Body file: a.png, or a.svg           *)
(*   "other"     anything else                                             *)
(* No line breaks off right behind ERROR: and no error code is too large   *)
(* for an int.                                                             *)
(***************************************************************************)
EXTENDS Integers, Sequences, FiniteSets, SequencesExt

CONSTANT MaxLines   \* bound: lines of the log of one execution

ASSUME DisplayAssumption == MaxLines \in Nat

VARIABLES
  stage,          \* "idle", "execute", "show", "graphs", "answer" or "answered"
  silent,
  log, listing, html,   \* of the result
  is_error,
  error_message,  \* the line of the log it was taken from, 0 if it is empty
  readable,       \* lines of the log whose graph file can be opened
  graph_files,    \* lines of the log with the graphs that are still to be shown
  shown,          \* what was published for this request
  response

displayVars ==
  <<stage, silent, log, listing, html, is_error, error_message, readable, graph_files,
    shown, response>>

Kinds == {"error", "coded", "numbered", "benign", "lower", "dump", "warning", "png", "svg",
          "other"}
Listings == {"blank", "markers", "text"}   \* "markers": only end markers, which are stripped
Htmls == {"none", "empty", "text"}   \* HTML was extracted ("empty": has_html, but no text)

DisplayInit ==
  /\ stage = "idle" /\ silent = FALSE
  /\ log = <<>> /\ listing = "blank" /\ html = "none"
  /\ is_error = FALSE /\ error_message = 0
  /\ readable = {} /\ graph_files = <<>>
  /\ shown = <<>> /\ response = [status |-> "none", evalue |-> 0]

-----------------------------------------------------------------------------
\* The regular expression of contains_error ignores the case and needs a colon
\* behind ERROR, or behind ERROR and a number.
Matches(kind) == kind \in {"error", "coded", "benign", "lower"}

IsBenign(kind) == kind = "benign"

ErrorAt(lines) == SelectInSeq(lines, LAMBDA kind : Matches(kind) /\ ~IsBenign(kind))

\* The one for the message wants upper case and something behind it.
HasErrorText(kind) == kind \in {"error", "coded", "numbered", "benign", "dump"}
MessageAt_Last(lines) == SelectLastInSeq(lines, HasErrorText)   \* mutant

\* Mutant: nobody asks whether the message was found.
MessageAt_Unchecked(lines) ==
  IF \E n \in DOMAIN lines : HasErrorText(lines[n]) THEN SelectInSeq(lines, HasErrorText)
  ELSE Len(lines) + 1

MessageAt(lines) == SelectInSeq(lines, HasErrorText)

GraphsAt(lines) ==
  FlattenSeq([n \in 1 .. Len(lines) |-> IF lines[n] \in {"png", "svg"} THEN <<n>> ELSE <<>>])

Receive ==
  /\ stage = "idle" /\ stage' = "execute"
  /\ silent' \in BOOLEAN
  /\ UNCHANGED <<log, listing, html, is_error, error_message, readable, graph_files, shown,
                 response>>

\* The session returns.
Result ==
  /\ stage = "execute" /\ stage' = "show"
  /\ \E n \in 0 .. MaxLines : log' \in [1 .. n -> Kinds]
  /\ listing' \in Listings /\ html' \in Htmls
  /\ is_error' = (ErrorAt(log') # 0)
  /\ error_message' = IF is_error' THEN MessageAt(log') ELSE 0
  /\ graph_files' = GraphsAt(log')
  /\ readable' \in SUBSET ToSet(graph_files')
  /\ UNCHANGED <<silent, shown, response>>

-----------------------------------------------------------------------------
Colour(kind) ==
  CASE HasErrorText(kind) -> "red"
    [] kind = "warning" -> "yellow"
    [] kind \in {"png", "svg"} -> "blue"
    [] OTHER -> "plain"

Colorized(lines) == [n \in DOMAIN lines |-> Colour(lines[n])]

HasHtml_Extracted == html # "none"   \* mutant: the extracted text may be empty
HasHtml == html = "text"

ShouldShowListing == ~is_error /\ listing # "blank"

Publish(output) == shown' = Append(shown, output)

ShowError ==
  /\ stage = "show" /\ is_error /\ stage' = "answer"
  /\ IF silent THEN UNCHANGED shown ELSE Publish([what |-> "stderr", lines |-> Colorized(log)])
  /\ UNCHANGED <<silent, log, listing, html, is_error, error_message, readable, graph_files,
                 response>>

ShowHtml == HasHtml /\ Publish([what |-> "html", lines |-> <<>>])
ShowListing ==
  /\ ~HasHtml /\ ShouldShowListing
  /\ IF listing = "markers" THEN UNCHANGED shown
     ELSE Publish([what |-> "listing", lines |-> <<>>])
ShowLog ==
  /\ ~HasHtml /\ ~ShouldShowListing
  /\ IF log = <<>> THEN UNCHANGED shown
     ELSE Publish([what |-> "stdout", lines |-> Colorized(log)])

ShowResult ==
  /\ stage = "show" /\ ~is_error
  /\ \/ silent /\ stage' = "answer" /\ UNCHANGED shown
     \/ ~silent /\ stage' = "graphs" /\ (ShowHtml \/ ShowListing \/ ShowLog)
  /\ UNCHANGED <<silent, log, listing, html, is_error, error_message, readable, graph_files,
                 response>>

\* A file that cannot be opened is passed over.  Only SVG is shown as an image.
Graph(n) ==
  [what |-> IF log[n] = "svg" THEN "image" ELSE "path", lines |-> <<n>>]

AfterUnreadable_Stop == <<>>   \* mutant: return instead of continue
AfterUnreadable == Tail(graph_files)

DisplayGraph ==
  /\ stage = "graphs"
  /\ \/ graph_files = <<>> /\ stage' = "answer" /\ UNCHANGED <<graph_files, shown>>
     \/ /\ graph_files # <<>> /\ Head(graph_files) \in readable
        /\ graph_files' = Tail(graph_files) /\ Publish(Graph(Head(graph_files)))
        /\ UNCHANGED stage
     \/ /\ graph_files # <<>> /\ Head(graph_files) \notin readable
        /\ graph_files' = AfterUnreadable
        /\ UNCHANGED <<stage, shown>>
  /\ UNCHANGED <<silent, log, listing, html, is_error, error_message, readable, response>>

Respond ==
  /\ stage = "answer" /\ stage' = "answered"
  /\ response' = IF is_error THEN [status |-> "error", evalue |-> error_message]
                 ELSE [status |-> "ok", evalue |-> 0]
  /\ UNCHANGED <<silent, log, listing, html, is_error, error_message, readable, graph_files,
                 shown>>

\* The client turns to the next cell; nothing of this result is kept.
NextCell ==
  /\ stage = "answered" /\ stage' = "idle"
  /\ silent' = FALSE /\ log' = <<>> /\ listing' = "blank" /\ html' = "none"
  /\ is_error' = FALSE /\ error_message' = 0 /\ readable' = {} /\ graph_files' = <<>>
  /\ shown' = <<>> /\ response' = [status |-> "none", evalue |-> 0]

Handle ==
  \/ Result \/ ShowError \/ ShowResult \/ DisplayGraph \/ Respond \/ NextCell

DisplayNext == Receive \/ Handle

-----------------------------------------------------------------------------
(***************************************************************************)
(* Properties.                                                             *)
(***************************************************************************)
DisplayTypeOK ==
  /\ stage \in {"idle", "execute", "show", "graphs", "answer", "answered"}
  /\ silent \in BOOLEAN /\ is_error \in BOOLEAN
  /\ log \in Seq(Kinds) /\ listing \in Listings /\ html \in Htmls
  /\ error_message \in 0 .. Len(log)
  /\ readable \subseteq DOMAIN log /\ ToSet(graph_files) \subseteq DOMAIN log
  /\ \A i \in DOMAIN shown :
       shown[i].what \in {"stderr", "html", "listing", "stdout", "image", "path"}
  /\ response \in [status : {"none", "ok", "error"}, evalue : 0 .. MaxLines]

Main == {i \in DOMAIN shown : shown[i].what \notin {"image", "path"}}

\* Unless the request is silent there is one main output, the HTML only if any text
\* was extracted, which has_html does not say.  There is none only if there is no
\* HTML, and log and listing are empty or the listing holds end markers and nothing
\* else: then the log is not shown in its place.
OneMainOutput ==
  response.status # "none" =>
    IF silent THEN shown = <<>>
    ELSE /\ \A i, j \in Main : i = j
         /\ Main = {} =>
              html # "text" /\ (listing = "markers" \/ (log = <<>> /\ listing = "blank"))
         /\ \A i \in Main : shown[i].what = "html" => html = "text"

\* The first line that makes a request fail, which a warning, a benign error, the
\* _ERROR_=1 of a dump and also a line "ERROR 180-322:" do not.
Failure == SelectInSeq(log, LAMBDA kind : kind \in {"error", "coded", "lower"})

\* The message of the reply is that of the error that made the request fail.  The
\* search for it is another one than the search for the error, so that it misses
\* an error in lower case and finds a benign or other line with ERROR before it.
MessageFits ==
  response.status = "error" =>
    \/ response.evalue = Failure
    \/ log[Failure] = "lower"
    \/ \E n \in 1 .. Failure - 1 :
         log[n] \in {"benign", "numbered", "dump"} /\ response.evalue = n

\* The graphs of the log that can be read, in its order.
ReadableGraphs ==
  FlattenSeq([n \in 1 .. Len(log) |-> IF n \in readable THEN <<Graph(n)>> ELSE <<>>])

\* The graphs of a request that did not fail are shown in the order of the log,
\* after the main output, each once, those that can be read.
GraphsInOrder ==
  response.status = "ok" /\ ~silent =>
    \/ shown = ReadableGraphs
    \/ shown # <<>> /\ 1 \in Main /\ Tail(shown) = ReadableGraphs
=============================================================================
