----------------------------- MODULE Interpreter -----------------------------
(***************************************************************************)
(* The kernel thread above the session: execute and shutdown requests from *)
(* the front end, the SIGINT handler that only sets a flag, and the next   *)
(* execute request that finds the flag and restarts SAS.  The module       *)
(* composes with SasSession by sharing its variables: a handler starts a   *)
(* call of the session and goes on when the call has returned.             *)
(*                                                                         *)
(* The xeus framework, which dispatches one request at a time on the main  *)
(* thread and catches what a handler throws, is external.                  *)
(***************************************************************************)
EXTENDS SasSession

CONSTANT MaxSignals   \* bound on the SIGINTs

ASSUME SignalsAssumption == MaxSignals \in Nat

VARIABLES
  stage,                  \* the handler that runs, and how far it is
  g_interrupt_requested,
  reply,                  \* what became of the latest execute request
  signals,                \* SIGINTs so far
  stale,                  \* SAS processes that were there when one arrived
  owner,                  \* process that got the latest code, NoPid if none
  warned,                 \* has a loss of state been published since then?
  barred                  \* the stale processes when this request was accepted

requestVars == <<stage, reply, signals, stale, owner, warned, barred>>
interpreterVars == <<sessionVars, requestVars, g_interrupt_requested>>

InterpreterTypeOK ==
  /\ SessionTypeOK
  /\ stage \in {"idle", "restarting", "executing", "stopping", "stopped", "exited"}
  /\ g_interrupt_requested \in BOOLEAN
  /\ reply \in {"none", "sent", "lost"}
  /\ signals \in 0 .. MaxSignals
  /\ stale \subseteq Pids
  /\ owner \in Pids \cup {NoPid}
  /\ warned \in BOOLEAN
  /\ barred \subseteq Pids

InterpreterInit ==
  /\ SessionInit
  /\ stage = "idle" /\ g_interrupt_requested = FALSE /\ reply = "none"
  /\ signals = 0 /\ stale = {} /\ owner = NoPid /\ warned = FALSE
  /\ barred = {}

-----------------------------------------------------------------------------
(***************************************************************************)
(* execute_request_impl.  The flag is exchanged for FALSE in one step with *)
(* the decision; what happens later is left to the next request.           *)
(***************************************************************************)
Exchange_Kept == UNCHANGED g_interrupt_requested   \* mutant: load, no exchange
Exchange == g_interrupt_requested' = FALSE

AfterRestartFlag_Cleared == g_interrupt_requested' = FALSE   \* mutant: clears late
AfterRestartFlag == UNCHANGED g_interrupt_requested

ExecuteRequest ==
  /\ stage = "idle"
  /\ exec_counter < MaxExecs
  /\ reply' = "none"
  /\ Exchange
  /\ IF g_interrupt_requested
     THEN stage' = "restarting" /\ Restart
     ELSE stage' = "executing" /\ Execute
  /\ barred' = stale
  /\ UNCHANGED <<signals, stale, owner, warned>>

PublishWarning_Skipped == UNCHANGED warned   \* mutant
PublishWarning == warned' = TRUE

AfterRestart ==
  /\ stage = "restarting" /\ op = "none" /\ pc = "ready"
  /\ outcome # "threw"
  /\ PublishWarning
  /\ stage' = "executing" /\ Execute
  /\ AfterRestartFlag
  /\ UNCHANGED <<reply, signals, stale, owner, barred>>

AfterExecute ==
  /\ stage = "executing" /\ op = "none" /\ pc = "ready"
  /\ outcome # "threw"
  /\ stage' = "idle" /\ reply' = "sent"
  /\ UNCHANGED <<g_interrupt_requested, signals, stale, owner, warned, barred, sessionVars>>

\* An exception leaves execute_request_impl before the callback is called.
HandlerThrows ==
  /\ stage \in {"restarting", "executing"} /\ op = "none" /\ pc = "ready"
  /\ outcome = "threw"
  /\ stage' = "idle" /\ reply' = "lost"
  /\ UNCHANGED <<g_interrupt_requested, signals, stale, owner, warned, barred, sessionVars>>

-----------------------------------------------------------------------------
(***************************************************************************)
(* shutdown_request_impl; afterwards main returns, and the destructor of   *)
(* the session shuts it down once more.                                    *)
(***************************************************************************)
ShutdownRequest ==
  /\ stage = "idle"
  /\ stage' = "stopping" /\ Shutdown
  /\ UNCHANGED <<g_interrupt_requested, reply, signals, stale, owner, warned, barred>>

AfterShutdown ==
  /\ stage = "stopping" /\ op = "none" /\ pc = "ready"
  /\ stage' = "stopped"
  /\ UNCHANGED <<g_interrupt_requested, reply, signals, stale, owner, warned, barred, sessionVars>>

Destroy ==
  /\ stage = "stopped"
  /\ stage' = "exited" /\ Shutdown
  /\ UNCHANGED <<g_interrupt_requested, reply, signals, stale, owner, warned, barred>>

-----------------------------------------------------------------------------
(***************************************************************************)
(* SIGINT.  The handler sets the flag and no more.  When it interrupts     *)
(* poll(), poll() fails with EINTR: SA_RESTART does not restart it.        *)
(***************************************************************************)
Alive == {p \in Pids : child[p] = "alive"}

\* Mutant: the handler hands the signal on to SAS.
OnSession_Forwards ==
  IF Owned THEN SasDies(m_sas_pid) ELSE UNCHANGED sessionVars

OnSession == PollError \/ UNCHANGED sessionVars

Signal ==
  /\ signals < MaxSignals /\ stage # "exited" /\ pc # "killed"
  /\ signals' = signals + 1
  /\ g_interrupt_requested' = TRUE
  /\ stale' = stale \cup Alive
  /\ OnSession
  /\ UNCHANGED <<stage, reply, owner, warned, barred>>

-----------------------------------------------------------------------------
(***************************************************************************)
(* The steps of the call in progress, and of the SAS process.              *)
(***************************************************************************)
CodeSent ==
  /\ SendCode
  /\ owner' = m_sas_pid
  /\ warned' = FALSE
  /\ UNCHANGED <<stage, g_interrupt_requested, reply, signals, stale, barred>>

CallStep ==
  /\ \/ OpenPipes \/ PipeFails \/ ForkChild \/ ForkFails
     \/ OpenStreams \/ FdopenFails
     \/ FinishSending \/ MarkerSeen
     \/ SendEndSas \/ CloseOutputs \/ ReapChild
  /\ UNCHANGED <<requestVars, g_interrupt_requested>>

\* execute waits: there is something to read, or nothing comes for long.
ReadStep == KernelReads /\ UNCHANGED <<requestVars, g_interrupt_requested>>
WaitIsLong == TimesOut /\ UNCHANGED <<requestVars, g_interrupt_requested>>

\* SAS ends on its own, or because a SIGINT went to the whole process group.
SasEnds ==
  \E p \in Pids :
    /\ "exit" \in Faults \/ ("group" \in Faults /\ p \in stale)
    /\ SasDies(p)

ChildStep == (SasStep \/ SasEnds) /\ UNCHANGED <<requestVars, g_interrupt_requested>>

\* interrupt() is public; no handler calls it, another client of the session may.
ClientInterrupts == Interrupt /\ UNCHANGED <<requestVars, g_interrupt_requested>>

Handler == ExecuteRequest \/ ShutdownRequest
Continue == AfterRestart \/ AfterExecute \/ HandlerThrows \/ AfterShutdown \/ Destroy

InterpreterNext ==
  \/ Handler \/ Continue \/ Signal
  \/ CodeSent \/ CallStep \/ ReadStep \/ WaitIsLong
  \/ ChildStep \/ ClientInterrupts

InterpreterSpec == InterpreterInit /\ [][InterpreterNext]_interpreterVars

\* The kernel thread runs its handler to the end, whatever blocks it apart;
\* requests and signals may or may not come, and no time limit is relied on.
HandlerFairness ==
  /\ WF_interpreterVars(CallStep) /\ WF_interpreterVars(CodeSent)
  /\ WF_interpreterVars(ReadStep) /\ WF_interpreterVars(Continue)

IdleSpec == InterpreterSpec /\ HandlerFairness

\* SAS gets on with its input where no full pipe stops it: it comes to the end of
\* each job, however often that has to wait for the kernel to read, and reads on.
SasDoes(step) == step /\ UNCHANGED <<requestVars, g_interrupt_requested>>
SasFairness ==
  /\ SF_interpreterVars(SasDoes(SasFinishes))
  /\ WF_interpreterVars(SasDoes(SasReads))
  /\ WF_interpreterVars(SasDoes(SasObeysEndSas))

AnswerSpec == IdleSpec /\ SasFairness

-----------------------------------------------------------------------------
(***************************************************************************)
(* Properties.                                                             *)
(***************************************************************************)

\* An interrupt is never lost: as long as the session has a process that was
\* there when a SIGINT arrived, the flag is still set for the next request,
\* or that request is restarting the session.
NoLostInterrupt ==
  m_initialized /\ m_sas_pid \in stale => g_interrupt_requested \/ op = "restart"

\* One SAS process serves all executions, and an interrupt costs one restart:
\* no more processes are started than there were interrupts, plus the first.
RestartsBounded ==
  Cardinality({p \in Pids : child[p] # "unborn"}) <= 1 + signals

\* Code is never sent to another process than the code before it, unless the
\* user has been told since that the state of the session was lost.
StateLossReported ==
  [][CodeSent /\ owner # NoPid /\ owner # m_sas_pid => warned]_interpreterVars

\* What the front end sees of the request: it is accepted, its code runs once,
\* it is answered.
Phase ==
  CASE pc = "killed" -> "broken"
    [] pc # "killed" /\ stage = "executing" ->
         IF pc \in {"sending", "wait", "ready"} THEN "ran" ELSE "accepted"
    [] pc # "killed" /\ stage = "restarting" -> "accepted"
    [] pc # "killed" /\ stage = "idle" -> "idle"
    [] OTHER -> "closed"

Service == INSTANCE KernelService
  WITH Procs <- Pids, NoProc <- NoPid, phase <- Phase, holder <- owner,
       told <- warned, interrupted <- stale

\* The handlers, the flag, the lazy start and the restarts together keep the
\* promise of KernelService, whatever SAS and the signals do, as long as
\* initialize_session does not throw.
KernelServes == Service!ServiceSpec

\* The kernel writes to a SAS that does not read, since it writes to the kernel.
EachWaitsForTheOther ==
  pc \in {"sending", "endsas"} /\ Owned /\ blocked = {"kernel", "sas"}

\* Where the kernel thread may stay: SIGPIPE has ended it, the polling loop watches
\* a pipe that nobody writes to, or kernel and SAS each wait for the other.
Stranded == pc = "killed" \/ (pc = "wait" /\ ~Owned) \/ EachWaitsForTheOther

\* Every execute request comes to its end: the reply, or an exception that leaves
\* no reply when initialize_session fails; unless the kernel is stranded.
RequestAnswered ==
  stage \in {"restarting", "executing"} ~> reply \in {"sent", "lost"} \/ Stranded

\* Every call of the session comes back, unless the kernel is stranded: neither a
\* failing system call nor any order of handlers, signals, restarts and full pipes
\* leaves the thread in another call for ever.
CallComesBack == op # "none" ~> pc = "ready" \/ Stranded
=============================================================================
