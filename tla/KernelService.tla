---------------------------- MODULE KernelService ----------------------------
(***************************************************************************)
(* What the kernel promises to a front end, without streams, descriptors   *)
(* or system calls.  The code of every request that is answered has been   *)
(* given to SAS exactly once; it runs in the process that holds the state  *)
(* of the code before it, unless the user has been told that this state    *)
(* was lost; and it never runs in a process that was interrupted before    *)
(* the request was accepted.  The kernel may break, but never in between.  *)
(***************************************************************************)
CONSTANTS Procs, NoProc

VARIABLES
  phase,        \* what becomes of the current request
  holder,       \* the process with the state of the user's code, or NoProc
  told,         \* has the user been told since then that it is lost?
  interrupted,  \* the processes that were there when an interrupt came
  barred        \* those of them that may not get the code of this request

serviceVars == <<phase, holder, told, interrupted, barred>>

ServiceInit ==
  /\ phase = "idle"
  /\ holder = NoProc /\ told = FALSE
  /\ interrupted = {} /\ barred = {}

Accept ==
  /\ phase = "idle" /\ phase' = "accepted"
  /\ barred' = interrupted
  /\ UNCHANGED <<holder, told, interrupted>>

Warn ==
  /\ phase = "accepted"
  /\ told' = TRUE
  /\ UNCHANGED <<phase, holder, interrupted, barred>>

Run(p) ==
  /\ phase = "accepted" /\ phase' \in {"ran", "broken"}
  /\ holder \in {NoProc, p} \/ told
  /\ p \notin barred
  /\ holder' = p /\ told' = FALSE
  /\ UNCHANGED <<interrupted, barred>>

Answer ==
  /\ phase = "ran" /\ phase' = "idle"
  /\ UNCHANGED <<holder, told, interrupted, barred>>

InterruptArrives ==
  /\ phase # "broken"
  /\ interrupted' \in SUBSET Procs /\ interrupted \subseteq interrupted'
  /\ UNCHANGED <<phase, holder, told, barred>>

Close ==
  /\ phase = "idle" /\ phase' = "closed"
  /\ UNCHANGED <<holder, told, interrupted, barred>>

\* The kernel writes to a SAS that has ended, and SIGPIPE ends the kernel.
Break ==
  /\ phase \in {"accepted", "ran", "closed"} /\ phase' = "broken"
  /\ UNCHANGED <<holder, told, interrupted, barred>>

ServiceNext ==
  \/ Accept \/ Warn \/ Answer \/ Close \/ Break \/ InterruptArrives
  \/ \E p \in Procs : Run(p)

ServiceSpec == ServiceInit /\ [][ServiceNext]_serviceVars
=============================================================================
