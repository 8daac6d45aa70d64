------------------------------ MODULE StreamJobs ------------------------------
(***************************************************************************)
(* The bytes of ExecuteStream implement the jobs of SasSession: between    *)
(* two restarts, polling, chunks, split and stale markers, full pipes and  *)
(* a dying SAS amount to the few steps that SasSession knows of execute.   *)
(***************************************************************************)
EXTENDS ExecuteStream, FiniteSetsExt

\* Nothing of the latest code has been written yet.
NothingSent ==
  /\ at \in {"send", "killed"}
  /\ Len(unsent) = Len(WrappedCode(exec_counter, submitted[exec_counter], FALSE))

JobsSent == IF NothingSent THEN exec_counter - 1 ELSE exec_counter

\* The executions whose marker, or the echo of it, SAS has written.
Marked(items) ==
  {items[i].ex : i \in {j \in DOMAIN items : items[j].kind \in {"echo", "mark1"}}}

InResults ==
  {n \in 1 .. MaxExecs : \E m \in 1 .. Len(results) :
     n \in Marked(results[m].log) \/ (n = m /\ results[m].found)}

Finished ==
  Marked(stderr) \cup Marked(log_output) \cup InResults
    \cup (IF found_marker THEN {exec_counter} ELSE {})

LastFinished == Max(Finished \cup {0})

Label ==
  CASE at = "send" -> IF NothingSent THEN "send" ELSE "sending"
    [] at \in {"poll", "out", "err"} -> "wait"
    [] at \in {"return", "idle"} -> "ready"
    [] at = "killed" -> "killed"

HowReturned ==
  CASE at = "killed" \/ Label # "ready" \/ submitted = <<>> -> "none"
    [] Label = "ready" /\ found_marker -> "marker"
    [] Label = "ready" /\ ~found_marker /\ timeout_count >= MaxTimeouts -> "timeout"
    [] OTHER -> "pollerror"

\* What is still to be written does not fit into stdin, however little of it SAS has
\* read so far.
KernelWaits == at = "send" /\ ~NothingSent /\ Len(unsent) > StdinCap - Len(stdin)

\* The next item of SAS goes to a pipe that is full.
SasWaits ==
  /\ todo # <<>>
  /\ \/ Head(todo).to = "out" /\ Len(stdout) = PipeCap
     \/ Head(todo).to = "err" /\ Len(stderr) = PipeCap

Blocked ==
  {p \in {"kernel", "sas"} : sas = "alive" /\ (p = "kernel" => KernelWaits)
                                           /\ (p = "sas" => SasWaits)}

Session == INSTANCE SasSession WITH
  Pids <- {1}, NoPid <- 0, MaxFds <- 3, Faults <- {"exit", "full"},
  op <- IF Label = "ready" THEN "none" ELSE "execute",
  pc <- Label,
  outcome <- HowReturned,
  m_initialized <- TRUE, m_sas_pid <- 1,
  streams <- {"stdin", "stdout", "stderr"}, fds <- 3,
  child <- [p \in {1} |-> IF sas = "alive" THEN "alive" ELSE "zombie"],
  input <- [i \in 1 .. JobsSent - LastFinished |-> LastFinished + i],
  blocked <- Blocked,
  exec_counter <- IF at = "send" /\ NothingSent THEN exec_counter - 1 ELSE exec_counter,
  finished <- LastFinished

\* Every step of the streams is a step of a session that has been initialized,
\* or none: execute hands over its job once, waits, and comes back because of
\* its own marker, its time limit or a failing poll(), and of nothing else; and
\* kernel and SAS wait for each other only where the session has them wait.
ImplementsSession == [][Session!SessionNext]_Session!sessionVars
=============================================================================
