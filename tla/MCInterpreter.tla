---------------------------- MODULE MCInterpreter ----------------------------
(* Model-checking constants for Interpreter: process ids are interchangeable. *)
EXTENDS Interpreter, TLC

AllFaults == FaultKinds

PidSymmetry == Permutations(Pids)
=============================================================================
