------------------------------ MODULE Requests ------------------------------
(***************************************************************************)
(* One cell after the other: while no execution runs the client types and  *)
(* asks about the text, then it sends the cell and gets outputs and reply. *)
(* The kernel serves one request at a time.                                *)
(***************************************************************************)
EXTENDS ResultDisplay, Editor

requestsVars == <<displayVars, editorVars>>

RequestsInit == DisplayInit /\ EditorInit

Edit == stage = "idle" /\ EditorNext /\ UNCHANGED displayVars

\* The client clears the cell when it sends it.
Send == Receive /\ text' = <<>> /\ strokes' = 0 /\ answer' = None

Serve == Handle /\ UNCHANGED editorVars

RequestsNext == Edit \/ Send \/ Serve

RequestsSpec == RequestsInit /\ [][RequestsNext]_requestsVars

RequestsTypeOK == DisplayTypeOK /\ EditorTypeOK
=============================================================================
