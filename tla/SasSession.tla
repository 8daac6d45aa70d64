------------------------------ MODULE SasSession ------------------------------
(***************************************************************************)
(* The lifecycle of the SAS child process that sas_session::impl owns:     *)
(* lazy start on the first execute, shutdown, restart, interrupt, and what *)
(* a failing system call or a dying child leaves behind.                   *)
(*                                                                         *)
(* One thread of the kernel calls the session, one call at a time: `op' is *)
(* the public call in progress and `pc' the system call it has reached.    *)
(* The SAS process runs concurrently.  The bytes exchanged by execute are  *)
(* abstracted to jobs here; module ExecuteStream models them.              *)
(***************************************************************************)
EXTENDS Integers, Sequences, FiniteSets

CONSTANTS
  Pids,      \* process ids that fork() can return (bounds the number of forks)
  NoPid,     \* the value -1 of m_sas_pid
  MaxExecs,  \* bound on the calls of execute
  MaxFds,    \* descriptors that the kernel process may still open
  Faults     \* the failures that the environment may inject

(***************************************************************************)
(* "pipe", "fork", "fdopen": that call may fail.  "exit": SAS may end on   *)
(* its own (execlp failed, a crash, user code that ends SAS).  "group": a  *)
(* SIGINT may be sent to the whole process group, SAS included.            *)
(* "interrupt": somebody calls interrupt(), which no code under src/ does. *)
(* "full": what is written to a pipe may not fit into it.                  *)
(***************************************************************************)
FaultKinds == {"pipe", "fork", "fdopen", "exit", "group", "interrupt", "full"}

ASSUME SessionAssumption ==
  /\ NoPid \notin Pids
  /\ MaxExecs \in Nat
  /\ MaxFds \in Nat
  /\ Faults \subseteq FaultKinds

VARIABLES
  op,             \* the public call in progress, "none" between calls
  pc,             \* where that call is; "killed" once a signal ended the kernel
  outcome,        \* how the last call came back
  m_initialized,
  m_sas_pid,
  streams,        \* which of m_sas_stdin, m_sas_stdout, m_sas_stderr are open
  fds,            \* number of descriptors the session has open
  child,          \* what became of every process
  input,          \* unread commands in the stdin pipe of m_sas_pid
  blocked,        \* who has to wait in a write to a full pipe: "kernel" when what
                  \* it writes does not fit into stdin, "sas" at stdout or stderr
  exec_counter,   \* the static counter that numbers the executions
  finished        \* last execution whose marker SAS has printed, 0 if none

sessionVars == <<op, pc, outcome, m_initialized, m_sas_pid, streams, fds,
                 child, input, blocked, exec_counter, finished>>

AllStreams == {"stdin", "stdout", "stderr"}

\* The command "endsas;", beside the numbers of the executions.
EndSasCmd == 0

SessionTypeOK ==
  /\ op \in {"none", "execute", "shutdown", "restart"}
  /\ pc \in {"ready", "pipe", "fork", "fdopen", "send", "sending", "wait",
             "endsas", "close", "waitpid", "killed"}
  /\ outcome \in {"none", "done", "threw", "marker", "timeout", "pollerror"}
  /\ m_initialized \in BOOLEAN
  /\ m_sas_pid \in Pids \cup {NoPid}
  /\ streams \subseteq AllStreams
  /\ fds \in 0 .. MaxFds
  /\ child \in [Pids -> {"unborn", "alive", "zombie", "reaped"}]
  /\ input \in Seq(0 .. MaxExecs)
  /\ blocked \subseteq {"kernel", "sas"}
  /\ exec_counter \in 0 .. MaxExecs
  /\ finished \in 0 .. MaxExecs

SessionInit ==
  /\ op = "none" /\ pc = "ready" /\ outcome = "none"
  /\ m_initialized = FALSE
  /\ m_sas_pid = NoPid
  /\ streams = {} /\ fds = 0
  /\ child = [p \in Pids |-> "unborn"]
  /\ input = <<>> /\ blocked = {}
  /\ exec_counter = 0 /\ finished = 0

-----------------------------------------------------------------------------
(***************************************************************************)
(* How a call begins and ends.                                             *)
(***************************************************************************)
Begin(call, label) ==
  pc = "ready" /\ op = "none" /\ op' = call /\ pc' = label /\ outcome' = "none"

Goto(label) == pc' = label /\ UNCHANGED <<op, outcome>>

Return(how) == pc' = "ready" /\ op' = "none" /\ outcome' = how

\* Writing to a pipe that nobody reads raises SIGPIPE, which no code handles.
Killed == pc' = "killed" /\ UNCHANGED <<op, outcome>>

CanFork == \E p \in Pids : child[p] = "unborn"   \* bounds the behaviours

-----------------------------------------------------------------------------
(***************************************************************************)
(* The public calls.  get_version, get_macro and set_macro are Execute;    *)
(* the destructor is Shutdown.                                             *)
(***************************************************************************)
Execute ==
  /\ exec_counter < MaxExecs
  /\ m_initialized \/ CanFork
  /\ Begin("execute", IF m_initialized THEN "send" ELSE "pipe")
  /\ UNCHANGED <<m_initialized, m_sas_pid, streams, fds, child, input, blocked,
                 exec_counter, finished>>

\* Whether a write fits into the stdin pipe is decided when the call gets to it;
\* a short command fits unless something is still in the pipe.
MayNotFit ==
  \/ UNCHANGED blocked
  \/ "full" \in Faults /\ blocked' = blocked \cup {"kernel"}

EndSasMayNotFit == IF input = <<>> THEN UNCHANGED blocked ELSE MayNotFit

\* Mutant: waitpid() before SAS has been told to end.
Shutdown_WaitsFirst ==
  /\ IF m_initialized
     THEN Begin("shutdown", "waitpid")
     ELSE pc = "ready" /\ op = "none" /\ Return("done")
  /\ UNCHANGED <<m_initialized, m_sas_pid, streams, fds, child, input, blocked,
                 exec_counter, finished>>

Shutdown ==
  /\ IF m_initialized
     THEN Begin("shutdown", "endsas") /\ EndSasMayNotFit
     ELSE pc = "ready" /\ op = "none" /\ Return("done") /\ UNCHANGED blocked
  /\ UNCHANGED <<m_initialized, m_sas_pid, streams, fds, child, input,
                 exec_counter, finished>>

\* Mutant: the old process is not shut down.
Restart_KeepsOld ==
  /\ CanFork
  /\ Begin("restart", "pipe")
  /\ UNCHANGED <<m_initialized, m_sas_pid, streams, fds, child, input, blocked,
                 exec_counter, finished>>

\* Mutant: waitpid() before SAS has been told to end.
Restart_WaitsFirst ==
  /\ CanFork
  /\ Begin("restart", IF m_initialized THEN "waitpid" ELSE "pipe")
  /\ UNCHANGED <<m_initialized, m_sas_pid, streams, fds, child, input, blocked,
                 exec_counter, finished>>

Restart ==
  /\ CanFork
  /\ IF m_initialized
     THEN Begin("restart", "endsas") /\ EndSasMayNotFit
     ELSE Begin("restart", "pipe") /\ UNCHANGED blocked
  /\ UNCHANGED <<m_initialized, m_sas_pid, streams, fds, child, input,
                 exec_counter, finished>>

\* SIGINT ends a SAS that runs with -stdio.
Interrupt ==
  /\ "interrupt" \in Faults
  /\ pc = "ready" /\ op = "none"
  /\ m_initialized /\ m_sas_pid # NoPid
  /\ child[m_sas_pid] = "alive"
  /\ child' = [child EXCEPT ![m_sas_pid] = "zombie"]
  /\ blocked' = {}
  /\ UNCHANGED <<op, pc, outcome, m_initialized, m_sas_pid, streams, fds,
                 input, exec_counter, finished>>

-----------------------------------------------------------------------------
(***************************************************************************)
(* initialize_session: three pipes, fork and exec, three streams.  What is *)
(* thrown leaves everything opened so far as it is.                        *)
(***************************************************************************)
OpenPipes ==
  /\ pc = "pipe"
  /\ fds + 6 <= MaxFds
  /\ fds' = fds + 6
  /\ Goto("fork")
  /\ UNCHANGED <<m_initialized, m_sas_pid, streams, child, input, blocked,
                 exec_counter, finished>>

PipeFails ==
  /\ pc = "pipe"
  /\ \E opened \in 0 .. 2 :
       /\ fds + 2 * opened <= MaxFds
       /\ "pipe" \in Faults \/ fds + 2 * (opened + 1) > MaxFds
       /\ fds' = fds + 2 * opened
  /\ Return("threw")
  /\ UNCHANGED <<m_initialized, m_sas_pid, streams, child, input, blocked,
                 exec_counter, finished>>

\* The parent closes the ends of the pipes that the child uses.
CloseChildEnds_Forgotten == UNCHANGED fds   \* mutant
CloseChildEnds == fds' = fds - 3

ForkChild ==
  /\ pc = "fork"
  /\ \E p \in Pids :
       /\ child[p] = "unborn"
       /\ m_sas_pid' = p
       /\ child' = [child EXCEPT ![p] = "alive"]
  /\ CloseChildEnds
  /\ input' = <<>> /\ blocked' = {} /\ finished' = 0
  /\ Goto("fdopen")
  /\ UNCHANGED <<m_initialized, streams, exec_counter>>

ForkFails ==
  /\ pc = "fork"
  /\ "fork" \in Faults
  /\ m_sas_pid' = NoPid
  /\ Return("threw")
  /\ UNCHANGED <<m_initialized, streams, fds, child, input, blocked,
                 exec_counter, finished>>

OpenStreams ==
  /\ pc = "fdopen"
  /\ streams' = AllStreams
  /\ m_initialized' = TRUE
  /\ IF op = "execute" THEN Goto("send") ELSE Return("done")
  /\ UNCHANGED <<m_sas_pid, fds, child, input, blocked, exec_counter, finished>>

FdopenFails ==
  /\ pc = "fdopen"
  /\ "fdopen" \in Faults
  /\ streams' \in SUBSET AllStreams \ {AllStreams}
  /\ Return("threw")
  /\ UNCHANGED <<m_initialized, m_sas_pid, fds, child, input, blocked,
                 exec_counter, finished>>

-----------------------------------------------------------------------------
(***************************************************************************)
(* execute, once a session is there: send the code, then read until the    *)
(* marker, the time limit, or a failing poll().  SAS may obey code, and it *)
(* may end, while the rest is being written; nothing is read meanwhile.    *)
(* If SAS is gone and the marker is not in the pipe, poll() reports the    *)
(* hang-up at once for ever and none of the three applies.                 *)
(***************************************************************************)
SendCode ==
  /\ pc = "send"
  /\ exec_counter' = exec_counter + 1
  /\ IF child[m_sas_pid] = "alive"
     THEN Goto("sending") /\ input' = Append(input, exec_counter + 1) /\ MayNotFit
     ELSE Killed /\ UNCHANGED <<input, blocked>>
  /\ UNCHANGED <<m_initialized, m_sas_pid, streams, fds, child, finished>>

FinishSending ==
  /\ pc = "sending"
  /\ IF child[m_sas_pid] = "alive" THEN "kernel" \notin blocked /\ Goto("wait") ELSE Killed
  /\ UNCHANGED <<m_initialized, m_sas_pid, streams, fds, child, input, blocked,
                 exec_counter, finished>>

\* Both output pipes are read, which makes room in them.
AfterRead_OnePipe == blocked   \* mutant: SAS waits at the other
AfterRead == blocked \ {"sas"}

KernelReads ==
  /\ pc = "wait" /\ "sas" \in blocked
  /\ blocked' = AfterRead
  /\ UNCHANGED <<op, pc, outcome, m_initialized, m_sas_pid, streams, fds, child,
                 input, exec_counter, finished>>

Wait(how) ==
  /\ pc = "wait"
  /\ Return(how)
  /\ UNCHANGED <<m_initialized, m_sas_pid, streams, fds, child, input,
                 exec_counter, finished>>

MarkerSeen_AnyMarker ==   \* mutant: no number
  Wait("marker") /\ finished # 0 /\ UNCHANGED blocked

\* The read that finds the marker may also make room.
MarkerSeen ==
  Wait("marker") /\ finished = exec_counter /\ blocked' \in {blocked, AfterRead}

\* There was nothing to read for a while.  Also with the marker in the pipe,
\* when it was split between two reads.
TimesOut ==
  Wait("timeout") /\ child[m_sas_pid] = "alive" /\ "sas" \notin blocked /\ UNCHANGED blocked

\* A signal handler ran while poll() was blocked.
PollError == Wait("pollerror") /\ UNCHANGED blocked

-----------------------------------------------------------------------------
(***************************************************************************)
(* shutdown: "endsas;", the three streams, then a waitpid() that blocks.   *)
(* restart goes on with initialize_session.                                *)
(***************************************************************************)
SendEndSas ==
  /\ pc = "endsas"
  /\ IF child[m_sas_pid] = "alive"
     THEN /\ "kernel" \notin blocked
          /\ Goto("close")
          /\ input' = Append(input, EndSasCmd)
          /\ streams' = streams \ {"stdin"}
          /\ fds' = fds - 1
     ELSE Killed /\ UNCHANGED <<input, streams, fds>>
  /\ UNCHANGED <<m_initialized, m_sas_pid, child, blocked, exec_counter, finished>>

OutputsClosed_Thrice == fds' = fds - 3   \* mutant: closes stdin again
OutputsClosed == fds' = fds - 2

\* A write of SAS that waits for a reader fails now, and no other will wait.
CloseOutputs ==
  /\ pc = "close"
  /\ OutputsClosed
  /\ blocked' = {}
  /\ streams' = streams \ {"stdout", "stderr"}
  /\ Goto("waitpid")
  /\ UNCHANGED <<m_initialized, m_sas_pid, child, input, exec_counter, finished>>

ForgetChild_KeepsFlag == m_sas_pid' = NoPid /\ UNCHANGED m_initialized   \* mutant
ForgetChild == m_sas_pid' = NoPid /\ m_initialized' = FALSE

ReapChild ==
  /\ pc = "waitpid"
  /\ child[m_sas_pid] = "zombie"
  /\ child' = [child EXCEPT ![m_sas_pid] = "reaped"]
  /\ ForgetChild
  /\ input' = <<>>
  /\ IF op = "restart" THEN Goto("pipe") ELSE Return("done")
  /\ UNCHANGED <<streams, fds, blocked, exec_counter, finished>>

-----------------------------------------------------------------------------
(***************************************************************************)
(* The SAS process: it obeys its input in order and prints the marker of   *)
(* each execution after the output of its code.  It may have to wait in    *)
(* any write as long as somebody could still read what it writes.          *)
(***************************************************************************)
Owned == m_sas_pid # NoPid /\ child[m_sas_pid] = "alive"
SasRuns == Owned /\ "sas" \notin blocked

MayBlock(others) ==
  \/ blocked' = others
  \/ "full" \in Faults /\ pc # "waitpid" /\ blocked' = others \cup {"sas"}

SasFinishes ==
  /\ SasRuns /\ input # <<>> /\ Head(input) # EndSasCmd
  /\ finished' = Head(input)
  /\ input' = Tail(input)
  /\ MayBlock(blocked)
  /\ UNCHANGED <<op, pc, outcome, m_initialized, m_sas_pid, streams, fds,
                 child, exec_counter>>

\* SAS has read so much of its input that the rest of it fits.
SasReads ==
  /\ SasRuns /\ "kernel" \in blocked
  /\ MayBlock({})
  /\ UNCHANGED <<op, pc, outcome, m_initialized, m_sas_pid, streams, fds,
                 child, input, exec_counter, finished>>

SasBlocks ==
  /\ SasRuns /\ "full" \in Faults /\ pc # "waitpid"
  /\ blocked' = blocked \cup {"sas"}
  /\ UNCHANGED <<op, pc, outcome, m_initialized, m_sas_pid, streams, fds,
                 child, input, exec_counter, finished>>

SasDies(p) ==
  /\ child[p] = "alive"
  /\ child' = [child EXCEPT ![p] = "zombie"]
  /\ blocked' = (IF p = m_sas_pid THEN {} ELSE blocked)
  /\ UNCHANGED <<op, pc, outcome, m_initialized, m_sas_pid, streams, fds,
                 input, exec_counter, finished>>

SasObeysEndSas ==
  SasRuns /\ input # <<>> /\ Head(input) = EndSasCmd /\ SasDies(m_sas_pid)

\* SIGPIPE on the closed output pipes ends a SAS that still writes.
SasLosesOutput == pc = "waitpid" /\ Owned /\ SasDies(m_sas_pid)

SasExits == Faults \cap {"exit", "group"} # {} /\ \E p \in Pids : SasDies(p)

-----------------------------------------------------------------------------
KernelStep ==
  \/ OpenPipes \/ PipeFails \/ ForkChild \/ ForkFails
  \/ OpenStreams \/ FdopenFails
  \/ SendCode \/ FinishSending \/ MarkerSeen
  \/ SendEndSas \/ CloseOutputs \/ ReapChild

SasStep == SasFinishes \/ SasReads \/ SasBlocks \/ SasObeysEndSas \/ SasLosesOutput

SessionNext ==
  \/ Execute \/ Shutdown \/ Restart \/ Interrupt
  \/ KernelStep \/ KernelReads \/ TimesOut \/ PollError
  \/ SasStep \/ SasExits

SessionSpec == SessionInit /\ [][SessionNext]_sessionVars

(***************************************************************************)
(* The kernel thread takes its next step unless a system call blocks it.   *)
(* SAS obeys "endsas;" once it comes to it, but it may be busy with a job  *)
(* without end.                                                            *)
(***************************************************************************)
LazySasSpec ==
  /\ SessionSpec
  /\ WF_sessionVars(KernelStep) /\ WF_sessionVars(KernelReads)
  /\ WF_sessionVars(SasObeysEndSas)

-----------------------------------------------------------------------------
(***************************************************************************)
(* Safety.                                                                 *)
(***************************************************************************)

\* No call ever writes to, reads from, or waits for something it does not
\* have: whatever failed before, the descriptors that execute and shutdown
\* use are open, and the process they wait for is an unreaped child.
HandlesValid ==
  /\ m_initialized => m_sas_pid \in Pids /\ child[m_sas_pid] \in {"alive", "zombie"}
  /\ pc \in {"send", "sending", "wait", "endsas"} => m_initialized /\ streams = AllStreams
  /\ pc \in {"close", "waitpid"} => m_initialized

\* The marker that ends a wait is the one of this execution: when execute
\* returns on a marker, SAS has done every job that it was ever sent, the
\* jobs of executions that were given up before included.
MarkerMeansIdle == outcome = "marker" => input = <<>>

Unreaped(p) == child[p] \in {"alive", "zombie"}

\* However the calls are mixed and pipe() or fork() fail, there is at most
\* one SAS process, and every one that was started is reaped or still known.
SingleSas == \A p \in Pids : Unreaped(p) => p = m_sas_pid

\* Between calls the session holds three descriptors if it is initialized
\* and none if it is not: no sequence of restarts runs out of descriptors.
DescriptorBalance == pc = "ready" => fds = (IF m_initialized THEN 3 ELSE 0)

\* No SIGPIPE ends the kernel: the session only writes to a SAS that lives,
\* unless SAS came to its end in another way than by a shutdown.
NeverKilled == pc # "killed"

\* A restart, with which the kernel is to recover, does not end the kernel.
RestartSurvived == ~(op = "restart" /\ pc = "killed")

\* When shutdown or the destructor returns, no SAS process is left behind,
\* neither running nor unreaped, and none of the three streams is open,
\* whatever restarts there were before.
CleanShutdown ==
  [][(Shutdown \/ op = "shutdown") /\ pc' = "ready"
       => streams' = {} /\ \A p \in Pids : ~Unreaped(p)']_sessionVars

-----------------------------------------------------------------------------
(***************************************************************************)
(* Liveness.                                                               *)
(***************************************************************************)

\* A restart replaces the process, whatever the process is doing.
RestartCompletes == op = "restart" ~> pc = "ready"
=============================================================================
