---------------------------- MODULE MCSasSession ----------------------------
(* Model-checking constants for SasSession. *)
EXTENDS SasSession

NoFaults == {}
=============================================================================
