--------------------------- MODULE MCExecuteStream ---------------------------
(* Model-checking programs for ExecuteStream. *)
EXTENDS StreamJobs

LogText == [to |-> "err", kind |-> "text"]
LogError == [to |-> "err", kind |-> "error"]
Html(kind) == [to |-> "out", kind |-> kind]
ListingLine == [to |-> "lst", kind |-> "line"]

\* A DATA step that logs an error after a line of text.
DataStep == [manages_ods |-> FALSE, body |-> <<<<LogText>>, <<LogError>>>>]

\* A procedure: a title container, then a table, each a fragment of its own.
Report == [manages_ods |-> FALSE,
           body |-> <<<<Html("open"), Html("close"), Html("open"), Html("close"), LogText>>>>]

\* A procedure that prints to the listing.
Listing == [manages_ods |-> TRUE, body |-> <<<<ListingLine, LogText>>>>]

AllPrograms == {DataStep, Report, Listing}
OnlyReport == {Report}
OnlyListing == {Listing}
OnlyDataStep == {DataStep}
=============================================================================
