-------------------------- MODULE Interpreter_proof --------------------------
(***************************************************************************)
(* Proofs about Interpreter: its steps are steps of the session, so what   *)
(* is proved of SasSession holds of it; no interrupt is lost; and no loss  *)
(* of state goes unreported while initialize_session succeeds.             *)
(***************************************************************************)
EXTENDS Interpreter, SasSession_proof, FiniteSetTheorems

-----------------------------------------------------------------------------
(***************************************************************************)
(* What is proved of the session holds below the interpreter.              *)
(***************************************************************************)

\* Each handler, continuation, signal and step is at most one session step.
LEMMA InterpreterStep == [InterpreterNext]_interpreterVars => [SessionNext]_sessionVars
<1> SUFFICES ASSUME [InterpreterNext]_interpreterVars
             PROVE  [SessionNext]_sessionVars
  OBVIOUS
<1>1. CASE Handler
  BY <1>1 DEF Handler, ExecuteRequest, ShutdownRequest, SessionNext
<1>2. CASE Continue
  BY <1>2 DEF Continue, AfterRestart, AfterExecute, HandlerThrows, AfterShutdown,
              Destroy, SessionNext
<1>3. CASE Signal
  BY <1>3 DEF Signal, OnSession, SessionNext
<1>4. CASE CodeSent \/ CallStep
  BY <1>4 DEF CodeSent, CallStep, SessionNext, KernelStep
<1>5. CASE ReadStep \/ WaitIsLong \/ ChildStep \/ ClientInterrupts
  BY <1>5 DEF ReadStep, WaitIsLong, ChildStep, ClientInterrupts, SasEnds, SasExits, SessionNext
<1>6. CASE UNCHANGED interpreterVars
  BY <1>6 DEF interpreterVars
<1> QED
  BY <1>1, <1>2, <1>3, <1>4, <1>5, <1>6 DEF InterpreterNext

\* The calls that requests and signals lead to are calls that the session
\* allows, by the way the interpreter is composed.
LEMMA InterpreterIsSession == InterpreterSpec => SessionSpec
<1>1. InterpreterInit => SessionInit
  BY DEF InterpreterInit
<1> QED
  BY <1>1, InterpreterStep, PTL DEF InterpreterSpec, SessionSpec

\* The kernel never uses a stream or waits for a child that it does not have.
THEOREM InterpreterHandlesValid == InterpreterSpec => []HandlesValid
BY InterpreterIsSession, SessionHandlesValid, PTL

\* If SAS only ends when it is told to, no signal at whatever moment makes the
\* kernel write to a dead SAS.
THEOREM InterpreterNeverKilled ==
  ASSUME Faults \cap {"exit", "group", "interrupt"} = {}
  PROVE  InterpreterSpec => []NeverKilled
BY InterpreterIsSession, SessionNeverKilled, PTL

-----------------------------------------------------------------------------
(***************************************************************************)
(* The handlers and the calls that they make.                              *)
(***************************************************************************)

\* Which handler is waiting for which call.
StageMatches ==
  /\ op = "execute" => stage = "executing"
  /\ op = "restart" => stage = "restarting"
  /\ op = "shutdown" => stage \in {"stopping", "exited"}

InterpreterInv == SessionInv /\ InterpreterTypeOK /\ StageMatches

\* Types and stages are kept by every step.
LEMMA InterpreterInvNext ==
  InterpreterInv /\ SessionInv' /\ [InterpreterNext]_interpreterVars => InterpreterInv'
<1> SUFFICES ASSUME InterpreterInv, SessionInv', [InterpreterNext]_interpreterVars
             PROVE  InterpreterTypeOK' /\ StageMatches'
  BY DEF InterpreterInv
<1>0. SessionTypeOK /\ SessionTypeOK' /\ Control /\ Control'
  BY DEF InterpreterInv, SessionInv, Life
<1> USE <1>0, SessionAssumption, SignalsAssumption
    DEF InterpreterInv, InterpreterTypeOK, StageMatches, requestVars
<1>1. CASE ExecuteRequest
  BY <1>1 DEF ExecuteRequest, Exchange, Restart, Execute, Begin
<1>2. CASE AfterRestart
  BY <1>2 DEF AfterRestart, PublishWarning, AfterRestartFlag, Execute, Begin
<1>3. CASE AfterExecute \/ HandlerThrows \/ AfterShutdown
  BY <1>3 DEF AfterExecute, HandlerThrows, AfterShutdown, sessionVars
<1>4. CASE ShutdownRequest
  BY <1>4 DEF ShutdownRequest, Shutdown, Begin, Return
<1>5. CASE Destroy
  BY <1>5 DEF Destroy, Shutdown, Begin, Return
<1>6. CASE Signal
  <2>1. stale' \subseteq Pids
    BY <1>6 DEF Signal, Alive
  <2> QED
    BY <1>6, <2>1 DEF Signal, OnSession, PollError, Wait, Return, sessionVars
<1>7. CASE CodeSent
  BY <1>7 DEF CodeSent, SendCode, Goto, Killed, SessionTypeOK
<1>8. CASE CallStep
  BY <1>8 DEF CallStep, OpenPipes, PipeFails, ForkChild, ForkFails, OpenStreams, FdopenFails,
              FinishSending, MarkerSeen, Wait, SendEndSas, CloseOutputs, ReapChild,
              Goto, Return, Killed
<1>9. CASE ReadStep \/ WaitIsLong \/ ChildStep \/ ClientInterrupts
  BY <1>9 DEF ReadStep, KernelReads, WaitIsLong, TimesOut, Wait, Return, ChildStep,
     ClientInterrupts, Interrupt, SasEnds, SasStep, SasFinishes, SasReads, SasBlocks,
     SasObeysEndSas, SasLosesOutput, SasDies
<1>10. CASE UNCHANGED interpreterVars
  BY <1>10 DEF interpreterVars, sessionVars
<1> QED
  BY <1>1, <1>2, <1>3, <1>4, <1>5, <1>6, <1>7, <1>8, <1>9, <1>10
  DEF InterpreterNext, Handler, Continue

\* Every variable of the interpreter keeps its type.
THEOREM InterpreterTypeCorrect == InterpreterSpec => [](InterpreterInv /\ InterpreterTypeOK)
<1>1. InterpreterInit => InterpreterInv
  <2> SUFFICES ASSUME InterpreterInit PROVE InterpreterInv
    OBVIOUS
  <2>1. SessionInv /\ SessionTypeOK
    BY SessionInitInv DEF InterpreterInit, SessionInv, Life
  <2>2. InterpreterTypeOK
    <3>1. signals \in 0 .. MaxSignals
      BY SignalsAssumption DEF InterpreterInit
    <3>2. stale \subseteq Pids /\ barred \subseteq Pids
      BY DEF InterpreterInit
    <3>3. g_interrupt_requested \in BOOLEAN /\ warned \in BOOLEAN
      BY DEF InterpreterInit
    <3>4. stage = "idle" /\ reply = "none" /\ owner = NoPid
      BY DEF InterpreterInit
    <3> QED
      BY <2>1, <3>1, <3>2, <3>3, <3>4 DEF InterpreterTypeOK
  <2>3. StageMatches
    BY DEF InterpreterInit, SessionInit, StageMatches
  <2> QED
    BY <2>1, <2>2, <2>3 DEF InterpreterInv
<1>2. InterpreterSpec => []SessionInv
  BY InterpreterIsSession, SessionInvariant, PTL
<1>3. InterpreterInv => InterpreterTypeOK
  BY DEF InterpreterInv
<1> QED
  BY <1>1, <1>2, <1>3, InterpreterInvNext, PTL DEF InterpreterSpec

-----------------------------------------------------------------------------
(***************************************************************************)
(* Interrupts.                                                             *)
(***************************************************************************)

\* A process that saw an interrupt is on its way out, or the flag is set; and
\* a process that is not yet forked has seen none.
InterruptPending ==
  /\ (m_initialized \/ pc = "fdopen") /\ m_sas_pid \in stale
       => \/ g_interrupt_requested
          \/ op = "restart" /\ pc \in {"endsas", "close", "waitpid", "killed"}
  /\ \A p \in stale : child[p] # "unborn"

\* The flag is only cleared by the request that restarts the session, and
\* whatever arrives from then on leaves it set for the next one.
LEMMA InterruptPendingNext ==
  InterpreterInv /\ InterruptPending /\ [InterpreterNext]_interpreterVars
    => InterruptPending'
<1> SUFFICES ASSUME InterpreterInv, InterruptPending, [InterpreterNext]_interpreterVars
             PROVE  InterruptPending'
  OBVIOUS
<1>0. SessionTypeOK /\ Control /\ OwnChild
  BY DEF InterpreterInv, SessionInv, Life
<1> USE <1>0, SessionAssumption
    DEF InterpreterInv, InterpreterTypeOK, SessionTypeOK, Control, OwnChild,
        InterruptPending, requestVars
<1>1. CASE ExecuteRequest
  BY <1>1 DEF ExecuteRequest, Exchange, Restart, Execute, Begin
<1>2. CASE AfterRestart
  BY <1>2 DEF AfterRestart, AfterRestartFlag, Execute, Begin
<1>3. CASE AfterExecute \/ HandlerThrows \/ AfterShutdown
  BY <1>3 DEF AfterExecute, HandlerThrows, AfterShutdown, sessionVars
<1>4. CASE ShutdownRequest \/ Destroy
  BY <1>4 DEF ShutdownRequest, Destroy, Shutdown, Begin, Return
<1>5. CASE Signal
  BY <1>5 DEF Signal, Alive, OnSession, PollError, Wait, sessionVars
<1>6. CASE CodeSent
  BY <1>6 DEF CodeSent, SendCode, Goto, Killed
<1>7. CASE CallStep
  <2>1. CASE OpenPipes \/ PipeFails \/ ForkFails \/ OpenStreams \/ FdopenFails
    BY <1>7, <2>1 DEF CallStep, OpenPipes, PipeFails, ForkFails, OpenStreams, FdopenFails,
                      Goto, Return
  <2>2. CASE ForkChild
    BY <1>7, <2>2 DEF CallStep, ForkChild, Goto
  <2>3. CASE FinishSending \/ MarkerSeen
    BY <1>7, <2>3 DEF CallStep, FinishSending, Goto, Killed, MarkerSeen, Wait, Return
  <2>4. CASE SendEndSas \/ CloseOutputs
    BY <1>7, <2>4 DEF CallStep, SendEndSas, CloseOutputs, Goto, Killed
  <2>5. CASE ReapChild
    BY <1>7, <2>5 DEF CallStep, ReapChild, ForgetChild, Goto, Return
  <2> QED
    BY <1>7, <2>1, <2>2, <2>3, <2>4, <2>5 DEF CallStep
<1>8. CASE ReadStep \/ WaitIsLong \/ ChildStep \/ ClientInterrupts
  BY <1>8 DEF ReadStep, KernelReads, WaitIsLong, TimesOut, Wait, Return, ChildStep,
     ClientInterrupts, Interrupt, SasEnds, SasStep, SasFinishes, SasReads, SasBlocks,
     SasObeysEndSas, SasLosesOutput, SasDies
<1>9. CASE UNCHANGED interpreterVars
  BY <1>9 DEF interpreterVars, sessionVars
<1> QED
  BY <1>1, <1>2, <1>3, <1>4, <1>5, <1>6, <1>7, <1>8, <1>9
  DEF InterpreterNext, Handler, Continue

\* For any number of interrupts at whatever moments, and whatever fails: the
\* session never keeps a process past an interrupt without the flag being set.
THEOREM InterpreterNoLostInterrupt == InterpreterSpec => []NoLostInterrupt
<1>1. InterpreterInit => InterruptPending
  BY DEF InterpreterInit, SessionInit, InterruptPending
<1>2. InterruptPending => NoLostInterrupt
  BY DEF InterruptPending, NoLostInterrupt
<1>3. InterpreterSpec => []InterpreterInv
  BY InterpreterTypeCorrect, PTL
<1> QED
  BY <1>1, <1>2, <1>3, InterruptPendingNext, PTL DEF InterpreterSpec

-----------------------------------------------------------------------------
(***************************************************************************)
(* Loss of state.                                                          *)
(***************************************************************************)

\* While initialize_session succeeds, the code that was sent last is in the
\* present process, or a restart is under way, or its loss was published.
StateKnown ==
  \/ owner = NoPid
  \/ warned
  \/ m_initialized /\ m_sas_pid = owner
  \/ stage \in {"restarting", "stopping", "stopped", "exited"}

NothingThrown == outcome # "threw"

LEMMA StateKnownNext ==
  ASSUME Faults \cap {"pipe", "fork", "fdopen"} = {}, MaxFds >= 6
  PROVE  /\ InterpreterInv /\ FdsExact /\ StateKnown /\ NothingThrown
         /\ [InterpreterNext]_interpreterVars
         => StateKnown' /\ NothingThrown'
<1> SUFFICES ASSUME InterpreterInv, FdsExact, StateKnown, NothingThrown,
                    [InterpreterNext]_interpreterVars
             PROVE  StateKnown' /\ NothingThrown'
  OBVIOUS
<1>0. SessionTypeOK /\ Control /\ OwnChild
  BY DEF InterpreterInv, SessionInv, Life
<1> USE <1>0, SessionAssumption
    DEF InterpreterInv, InterpreterTypeOK, SessionTypeOK, Control, StageMatches,
        StateKnown, NothingThrown, requestVars
<1>1. CASE ExecuteRequest
  BY <1>1 DEF ExecuteRequest, Restart, Execute, Begin
<1>2. CASE AfterRestart
  BY <1>2 DEF AfterRestart, PublishWarning, Execute, Begin
<1>3. CASE AfterExecute \/ HandlerThrows \/ AfterShutdown
  BY <1>3 DEF AfterExecute, HandlerThrows, AfterShutdown, sessionVars
<1>4. CASE ShutdownRequest \/ Destroy
  BY <1>4 DEF ShutdownRequest, Destroy, Shutdown, Begin, Return
<1>5. CASE Signal
  BY <1>5 DEF Signal, OnSession, PollError, Wait, Return, sessionVars
<1>6. CASE CodeSent
  BY <1>6 DEF CodeSent, SendCode, Goto, Killed
<1>7. CASE CallStep
  <2>1. CASE OpenPipes \/ ForkChild \/ OpenStreams
    BY <1>7, <2>1 DEF CallStep, OpenPipes, ForkChild, OpenStreams, Goto, Return
  <2>2. CASE PipeFails \/ ForkFails \/ FdopenFails
    BY <2>2 DEF PipeFails, ForkFails, FdopenFails, FdsExact
  <2>3. CASE FinishSending \/ MarkerSeen
    BY <1>7, <2>3 DEF CallStep, FinishSending, Goto, Killed, MarkerSeen, Wait, Return
  <2>4. CASE SendEndSas \/ CloseOutputs
    BY <1>7, <2>4 DEF CallStep, SendEndSas, CloseOutputs, Goto, Killed
  <2>5. CASE ReapChild
    BY <1>7, <2>5 DEF CallStep, ReapChild, ForgetChild, Goto, Return
  <2> QED
    BY <1>7, <2>1, <2>2, <2>3, <2>4, <2>5 DEF CallStep
<1>8. CASE ReadStep \/ WaitIsLong \/ ChildStep \/ ClientInterrupts
  BY <1>8 DEF ReadStep, KernelReads, WaitIsLong, TimesOut, Wait, Return, ChildStep,
     ClientInterrupts, Interrupt, SasEnds, SasStep, SasFinishes, SasReads, SasBlocks,
     SasObeysEndSas, SasLosesOutput, SasDies
<1>9. CASE UNCHANGED interpreterVars
  BY <1>9 DEF interpreterVars, sessionVars
<1> QED
  BY <1>1, <1>2, <1>3, <1>4, <1>5, <1>6, <1>7, <1>8, <1>9
  DEF InterpreterNext, Handler, Continue

\* While initialize_session succeeds, the user is told of every loss of state
\* before code runs in the new process, whatever SAS and the signals do.
THEOREM InterpreterStateLossReported ==
  ASSUME Faults \cap {"pipe", "fork", "fdopen"} = {}, MaxFds >= 6
  PROVE  InterpreterSpec => StateLossReported
<1>1. InterpreterInit => StateKnown /\ NothingThrown
  BY DEF InterpreterInit, SessionInit, StateKnown, NothingThrown
<1>2. InterpreterSpec => [](FdsExact /\ InterpreterInv)
  BY InterpreterIsSession, SessionDescriptorBalance, InterpreterTypeCorrect, PTL
<1>3. InterpreterInv /\ StateKnown /\ CodeSent /\ owner # NoPid /\ owner # m_sas_pid => warned
  BY DEF InterpreterInv, SessionInv, Life, Control, StageMatches, StateKnown, CodeSent, SendCode
<1>4. InterpreterInv /\ StateKnown /\ [InterpreterNext]_interpreterVars
        => [CodeSent /\ owner # NoPid /\ owner # m_sas_pid => warned]_interpreterVars
  BY <1>3
<1> QED
  BY <1>1, <1>2, <1>4, StateKnownNext, PTL DEF InterpreterSpec, StateLossReported

-----------------------------------------------------------------------------
(***************************************************************************)
(* The interpreter implements the service.                                 *)
(***************************************************************************)

\* The session of a request whose code is to run, or has run, is not one of the
\* processes that the request must avoid; while it restarts, it may still be.
AvoidsBarred ==
  /\ stage = "executing" /\ (m_initialized \/ pc = "fdopen") => m_sas_pid \notin barred
  /\ stage = "restarting" /\ (m_initialized \/ pc = "fdopen") /\ m_sas_pid \in barred
       => op = "restart" /\ pc \in {"endsas", "close", "waitpid", "killed"}
  /\ \A p \in barred : child[p] # "unborn"

LEMMA AvoidsBarredNext ==
  InterpreterInv /\ InterruptPending /\ AvoidsBarred /\ [InterpreterNext]_interpreterVars
    => AvoidsBarred'
<1> SUFFICES ASSUME InterpreterInv, InterruptPending, AvoidsBarred,
                    [InterpreterNext]_interpreterVars
             PROVE  AvoidsBarred'
  OBVIOUS
<1>0. SessionTypeOK /\ Control /\ OwnChild
  BY DEF InterpreterInv, SessionInv, Life
<1> USE <1>0, SessionAssumption
    DEF InterpreterInv, InterpreterTypeOK, SessionTypeOK, Control, OwnChild, StageMatches,
        AvoidsBarred, requestVars
<1>1. CASE ExecuteRequest
  BY <1>1 DEF ExecuteRequest, InterruptPending, Restart, Execute, Begin
<1>2. CASE AfterRestart
  BY <1>2 DEF AfterRestart, Execute, Begin
<1>3. CASE AfterExecute \/ HandlerThrows \/ AfterShutdown
  BY <1>3 DEF AfterExecute, HandlerThrows, AfterShutdown, sessionVars
<1>4. CASE ShutdownRequest \/ Destroy
  BY <1>4 DEF ShutdownRequest, Destroy, Shutdown, Begin, Return
<1>5. CASE Signal
  BY <1>5 DEF Signal, OnSession, PollError, Wait, Return, sessionVars
<1>6. CASE CodeSent
  BY <1>6 DEF CodeSent, SendCode, Goto, Killed
<1>7. CASE CallStep
  <2>1. CASE OpenPipes \/ PipeFails \/ ForkFails \/ OpenStreams \/ FdopenFails
    BY <1>7, <2>1 DEF CallStep, OpenPipes, PipeFails, ForkFails, OpenStreams, FdopenFails,
                      Goto, Return
  <2>2. CASE ForkChild
    BY <1>7, <2>2 DEF CallStep, ForkChild, Goto
  <2>3. CASE FinishSending \/ MarkerSeen
    BY <1>7, <2>3 DEF CallStep, FinishSending, Goto, Killed, MarkerSeen, Wait, Return
  <2>4. CASE SendEndSas \/ CloseOutputs
    BY <1>7, <2>4 DEF CallStep, SendEndSas, CloseOutputs, Goto, Killed
  <2>5. CASE ReapChild
    BY <1>7, <2>5 DEF CallStep, ReapChild, ForgetChild, Goto, Return
  <2> QED
    BY <1>7, <2>1, <2>2, <2>3, <2>4, <2>5 DEF CallStep
<1>8. CASE ReadStep \/ WaitIsLong \/ ChildStep \/ ClientInterrupts
  BY <1>8 DEF ReadStep, KernelReads, WaitIsLong, TimesOut, Wait, Return, ChildStep,
     ClientInterrupts, Interrupt, SasEnds, SasStep, SasFinishes, SasReads, SasBlocks,
     SasObeysEndSas, SasLosesOutput, SasDies
<1>9. CASE UNCHANGED interpreterVars
  BY <1>9 DEF interpreterVars, sessionVars
<1> QED
  BY <1>1, <1>2, <1>3, <1>4, <1>5, <1>6, <1>7, <1>8, <1>9
  DEF InterpreterNext, Handler, Continue

\* Each step of the interpreter is a step of the service, or none.
LEMMA ServiceStep ==
  ASSUME Faults \cap {"pipe", "fork", "fdopen"} = {}, MaxFds >= 6
  PROVE  /\ InterpreterInv /\ FdsExact /\ StateKnown /\ NothingThrown /\ AvoidsBarred
         /\ [InterpreterNext]_interpreterVars
         => [Service!ServiceNext]_Service!serviceVars
<1> SUFFICES ASSUME InterpreterInv, FdsExact, StateKnown, NothingThrown, AvoidsBarred,
                    [InterpreterNext]_interpreterVars
             PROVE  [Service!ServiceNext]_Service!serviceVars
  OBVIOUS
<1>0. SessionTypeOK /\ Control
  BY DEF InterpreterInv, SessionInv, Life
<1> USE <1>0, SessionAssumption
    DEF InterpreterInv, InterpreterTypeOK, SessionTypeOK, Control, StageMatches, requestVars,
        Service!ServiceNext, Service!serviceVars, Phase
<1>1. CASE ExecuteRequest
  BY <1>1 DEF ExecuteRequest, Restart, Execute, Begin, Service!Accept
<1>2. CASE AfterRestart
  BY <1>2 DEF AfterRestart, PublishWarning, Execute, Begin, Service!Warn
<1>3. CASE AfterExecute
  BY <1>3 DEF AfterExecute, sessionVars, Service!Answer
<1>4. CASE HandlerThrows
  BY <1>4 DEF HandlerThrows, NothingThrown
<1>5. CASE ShutdownRequest
  BY <1>5 DEF ShutdownRequest, Shutdown, Begin, Return, Service!Close
<1>6. CASE AfterShutdown \/ Destroy
  BY <1>6 DEF AfterShutdown, Destroy, Shutdown, Begin, Return, sessionVars
<1>7. CASE Signal
  BY <1>7 DEF Signal, Alive, OnSession, PollError, Wait, Return, sessionVars,
              Service!InterruptArrives
<1>8. CASE CodeSent
  <2>1. m_sas_pid \in Pids /\ m_sas_pid \notin barred
    BY <1>8 DEF CodeSent, SendCode, InterpreterInv, SessionInv, Life, OwnChild, AvoidsBarred
  <2>2. owner \in {NoPid, m_sas_pid} \/ warned
    BY <1>8 DEF CodeSent, SendCode, StateKnown
  <2>3. Service!Run(m_sas_pid)
    BY <1>8, <2>1, <2>2 DEF CodeSent, SendCode, Goto, Killed, Service!Run
  <2> QED
    BY <2>1, <2>3
<1>9. CASE CallStep
  <2>1. CASE OpenPipes \/ ForkChild \/ OpenStreams
    BY <1>9, <2>1 DEF CallStep, OpenPipes, ForkChild, OpenStreams, Goto, Return
  <2>2. CASE PipeFails \/ ForkFails \/ FdopenFails
    BY <2>2 DEF PipeFails, ForkFails, FdopenFails, FdsExact
  <2>3. CASE FinishSending \/ MarkerSeen
    BY <1>9, <2>3 DEF CallStep, FinishSending, Goto, Killed, MarkerSeen, Wait, Return, Service!Break
  <2>4. CASE SendEndSas
    BY <1>9, <2>4 DEF CallStep, SendEndSas, Goto, Killed, Service!Break
  <2>5. CASE CloseOutputs \/ ReapChild
    BY <1>9, <2>5 DEF CallStep, CloseOutputs, ReapChild, ForgetChild, Goto, Return
  <2> QED
    BY <1>9, <2>1, <2>2, <2>3, <2>4, <2>5 DEF CallStep
<1>10. CASE ReadStep \/ WaitIsLong \/ ChildStep \/ ClientInterrupts
  BY <1>10 DEF ReadStep, KernelReads, WaitIsLong, TimesOut, Wait, Return, ChildStep,
     ClientInterrupts, Interrupt, SasEnds, SasStep, SasFinishes, SasReads, SasBlocks,
     SasObeysEndSas, SasLosesOutput, SasDies
<1>11. CASE UNCHANGED interpreterVars
  BY <1>11 DEF interpreterVars, sessionVars
<1> QED
  BY <1>1, <1>2, <1>3, <1>4, <1>5, <1>6, <1>7, <1>8, <1>9, <1>10, <1>11
  DEF InterpreterNext, Handler, Continue

\* While initialize_session succeeds, for any number of requests, signals and
\* processes: the code of an answered request was run once, in the process with
\* the state of the code before or after a warning, and in none that had been
\* interrupted before the request.
THEOREM InterpreterKernelServes ==
  ASSUME Faults \cap {"pipe", "fork", "fdopen"} = {}, MaxFds >= 6
  PROVE  InterpreterSpec => KernelServes
<1>1. InterpreterInit => /\ StateKnown /\ NothingThrown /\ InterruptPending /\ AvoidsBarred
                         /\ Service!ServiceInit
  BY DEF InterpreterInit, SessionInit, StateKnown, NothingThrown, InterruptPending,
         AvoidsBarred, Service!ServiceInit, Phase
<1>2. InterpreterSpec => [](FdsExact /\ InterpreterInv)
  BY InterpreterIsSession, SessionDescriptorBalance, InterpreterTypeCorrect, PTL
<1> QED
  BY <1>1, <1>2, StateKnownNext, InterruptPendingNext, AvoidsBarredNext, ServiceStep, PTL
  DEF InterpreterSpec, KernelServes, Service!ServiceSpec

-----------------------------------------------------------------------------
(***************************************************************************)
(* How many processes there can be.                                        *)
(***************************************************************************)
Forked == {p \in Pids : child[p] # "unborn"}

\* A restart that has not forked yet, and one that the flag still asks for.
Restarting == op = "restart" /\ pc \in {"endsas", "close", "waitpid", "pipe", "fork"}
Due == (IF g_interrupt_requested THEN 1 ELSE 0) + (IF Restarting THEN 1 ELSE 0)

\* Each process but the first is paid for by a signal, and only the first can be
\* started lazily: after it the session is initialized until the kernel ends.
ForksPaid ==
  /\ IsFiniteSet(Forked)
  /\ Forked # {} => Cardinality(Forked) + Due <= 1 + signals
  /\ g_interrupt_requested => signals >= 1
  /\ stage \in {"idle", "executing"} /\ ~m_initialized /\ pc # "fdopen" => Forked = {}
  /\ stage = "restarting" /\ op = "none" => m_initialized

\* A step that forks no process and makes no further restart due.
Frugal ==
  /\ Forked' = Forked /\ Due' + signals <= Due + signals'
  /\ g_interrupt_requested' => signals' >= 1

LEMMA FrugalStep ==
  ASSUME InterpreterInv, InterpreterInv', ForksPaid, Frugal
  PROVE  /\ IsFiniteSet(Forked')
         /\ Forked' # {} => Cardinality(Forked') + Due' <= 1 + signals'
<1>1. Cardinality(Forked) \in Nat
  BY FS_CardinalityType DEF ForksPaid
<1>2. signals \in Nat /\ signals' \in Nat
  BY SignalsAssumption DEF InterpreterInv, InterpreterTypeOK
<1>3. Due \in Nat /\ Due' \in Nat
  BY DEF Due
<1>4. IsFiniteSet(Forked')
  BY DEF Frugal, ForksPaid
<1>5. ASSUME Forked' # {} PROVE Cardinality(Forked') + Due' <= 1 + signals'
  <2>1. Cardinality(Forked') = Cardinality(Forked)
    BY DEF Frugal
  <2>2. Due' + signals <= Due + signals'
    BY DEF Frugal
  <2>3. Cardinality(Forked) + Due <= 1 + signals
    BY <1>5 DEF Frugal, ForksPaid
  <2>4. \A c, d, e, s, t \in Nat : c + d <= 1 + s /\ e + s <= d + t => c + e <= 1 + t
    OBVIOUS
  <2> QED
    BY <1>1, <1>2, <1>3, <2>1, <2>2, <2>3, <2>4
<1> QED
  BY <1>4, <1>5

LEMMA ForksPaidNext ==
  ASSUME Faults \cap {"pipe", "fork", "fdopen"} = {}, MaxFds >= 6
  PROVE  /\ InterpreterInv /\ InterpreterInv' /\ FdsExact /\ NothingThrown /\ ForksPaid
         /\ [InterpreterNext]_interpreterVars
         => ForksPaid'
<1> SUFFICES ASSUME InterpreterInv, InterpreterInv', FdsExact, NothingThrown, ForksPaid,
                    [InterpreterNext]_interpreterVars
             PROVE  ForksPaid'
  OBVIOUS
<1>0. /\ SessionTypeOK /\ Control /\ OwnChild /\ signals \in Nat
      /\ g_interrupt_requested \in BOOLEAN
  BY SignalsAssumption DEF InterpreterInv, InterpreterTypeOK, SessionInv, Life
<1>1. CASE ForkChild /\ CallStep
  <2>1. PICK p \in Pids : /\ child[p] = "unborn"
                           /\ child' = [child EXCEPT ![p] = "alive"]
    BY <1>1 DEF ForkChild
  <2>2. Forked' = Forked \cup {p} /\ p \notin Forked
    BY <1>0, <2>1 DEF Forked, SessionTypeOK
  <2>3. IsFiniteSet(Forked') /\ Cardinality(Forked') = Cardinality(Forked) + 1
    BY <2>2, FS_AddElement DEF ForksPaid
  <2>4. Cardinality(Forked) \in Nat
    BY FS_CardinalityType DEF ForksPaid
  <2>5. /\ pc = "fork" /\ pc' = "fdopen" /\ op \in {"execute", "restart"} /\ ~m_initialized
        /\ UNCHANGED <<op, stage, signals, g_interrupt_requested>>
    BY <1>0, <1>1 DEF ForkChild, CallStep, Goto, Control, requestVars
  <2>6. Cardinality(Forked') + Due' <= 1 + signals'
    <3>1. CASE op = "restart"
      <4>1. CASE Forked = {}
        BY <1>0, <2>3, <2>5, <3>1, <4>1, FS_EmptySet DEF ForksPaid, Due, Restarting
      <4>2. CASE Forked # {}
        BY <1>0, <2>3, <2>4, <2>5, <3>1, <4>2 DEF ForksPaid, Due, Restarting
      <4> QED
        BY <4>1, <4>2
    <3>2. CASE op = "execute"
      <4>1. Forked = {}
        BY <2>5, <3>2 DEF ForksPaid, InterpreterInv, StageMatches
      <4> QED
        BY <1>0, <2>3, <2>5, <3>2, <4>1, FS_EmptySet DEF ForksPaid, Due, Restarting
    <3> QED
      BY <2>5, <3>1, <3>2
  <2> QED
    BY <1>0, <2>3, <2>5, <2>6 DEF ForksPaid
<1>2. CASE ~(ForkChild /\ CallStep)
  <2> USE <1>0 DEF SessionTypeOK, Control, InterpreterInv, InterpreterTypeOK, StageMatches,
                   requestVars
  <2>1. Frugal /\ (stage \in {"idle", "executing"} /\ ~m_initialized /\ pc # "fdopen"
                     => Forked = {})'
               /\ (stage = "restarting" /\ op = "none" => m_initialized)'
    <3> USE DEF Frugal, Forked, Due, Restarting, ForksPaid
    <3>1. CASE ExecuteRequest
      BY <3>1 DEF ExecuteRequest, Exchange, Restart, Execute, Begin
    <3>2. CASE AfterRestart
      BY <3>2 DEF AfterRestart, AfterRestartFlag, Execute, Begin
    <3>3. CASE AfterExecute \/ AfterShutdown
      <4>1. /\ UNCHANGED <<sessionVars, g_interrupt_requested, signals>>
            /\ op = "none" /\ pc = "ready"
            /\ \/ stage = "executing" /\ stage' = "idle"
               \/ stage' = "stopped"
        BY <3>3 DEF AfterExecute, AfterShutdown
      <4>2. Forked' = Forked /\ Due' = Due
        BY <4>1 DEF sessionVars
      <4> QED
        BY <4>1, <4>2 DEF sessionVars
    <3>4. CASE HandlerThrows
      BY <3>4 DEF HandlerThrows, NothingThrown
    <3>5. CASE ShutdownRequest \/ Destroy
      <4>1. /\ UNCHANGED <<child, m_initialized, g_interrupt_requested, signals>>
            /\ stage' \in {"stopping", "exited"}
            /\ op # "restart" /\ op' # "restart"
        BY <3>5 DEF ShutdownRequest, Destroy, Shutdown, Begin, Return
      <4>2. Forked' = Forked /\ Due' = Due
        BY <4>1
      <4> QED
        BY <4>1, <4>2
    <3>6. CASE Signal
      <4>1. /\ child' = child /\ signals' = signals + 1 /\ g_interrupt_requested' = TRUE
            /\ stage' = stage /\ m_initialized' = m_initialized
            /\ op = "restart" => op' = op /\ pc' = pc
            /\ op # "restart" => op' # "restart"
            /\ pc # "fdopen" => pc' # "fdopen"
            /\ stage = "restarting" => op' = op
        BY <3>6 DEF Signal, OnSession, PollError, Wait, Return, sessionVars
      <4>2. Forked' = Forked
        BY <4>1
      <4>3. Due' + signals <= Due + signals'
        BY <4>1
      <4>4. pc' # "fdopen" <=> pc # "fdopen"
        BY <3>6 DEF Signal, OnSession, PollError, Wait, Return, sessionVars
      <4> QED
        BY <4>1, <4>2, <4>3, <4>4
    <3>7. CASE CodeSent
      BY <3>7 DEF CodeSent, SendCode, Goto, Killed
    <3>8. CASE CallStep
      <4>1. CASE OpenPipes \/ OpenStreams
        BY <3>8, <4>1 DEF CallStep, OpenPipes, OpenStreams, Goto, Return
      <4>2. CASE PipeFails \/ ForkFails \/ FdopenFails
        <5>1. fds = 0 \/ pc # "pipe"
          BY <4>2 DEF PipeFails, ForkFails, FdopenFails, FdsExact
        <5> QED
          BY <4>2, <5>1, SessionAssumption, SMTT(40) DEF PipeFails, ForkFails, FdopenFails
      <4>3. CASE FinishSending \/ MarkerSeen
        BY <3>8, <4>3 DEF CallStep, FinishSending, Goto, Killed, MarkerSeen, Wait, Return
      <4>4. CASE SendEndSas \/ CloseOutputs
        BY <3>8, <4>4 DEF CallStep, SendEndSas, CloseOutputs, Goto, Killed
      <4>5. CASE ReapChild
        <5>1. Forked' = Forked
          BY <3>8, <4>5 DEF CallStep, ReapChild
        <5>2. /\ op \in {"shutdown", "restart"} /\ pc = "waitpid"
              /\ op = "restart" => op' = op /\ pc' = "pipe"
              /\ op = "shutdown" => op' = "none" /\ pc' = "ready"
              /\ UNCHANGED <<stage, g_interrupt_requested, signals>>
          BY <3>8, <4>5 DEF CallStep, ReapChild, Goto, Return
        <5>3. stage \notin {"idle", "executing"}
          BY <5>2
        <5>4. Due' = Due
          BY <5>2
        <5> QED
          BY <5>1, <5>2, <5>3, <5>4
      <4> QED
        BY <1>2, <3>8, <4>1, <4>2, <4>3, <4>4, <4>5 DEF CallStep
    <3>9. CASE ReadStep \/ ChildStep \/ ClientInterrupts
      <4>1. Forked' = Forked
        BY <3>9 DEF ReadStep, KernelReads, ChildStep, ClientInterrupts, Interrupt, SasEnds,
           SasStep, SasFinishes, SasReads, SasBlocks, SasObeysEndSas, SasLosesOutput, SasDies
      <4>2. UNCHANGED <<requestVars, g_interrupt_requested, op, pc, m_initialized>>
        BY <3>9 DEF ReadStep, KernelReads, ChildStep, ClientInterrupts, Interrupt, SasEnds,
           SasStep, SasFinishes, SasReads, SasBlocks, SasObeysEndSas, SasLosesOutput, SasDies
      <4> QED
        BY <4>1, <4>2
    <3>10. CASE WaitIsLong
      BY <3>10 DEF WaitIsLong, TimesOut, Wait, Return
    <3>11. CASE UNCHANGED interpreterVars
      BY <3>11 DEF interpreterVars, sessionVars
    <3> QED
      BY <3>1, <3>2, <3>3, <3>4, <3>5, <3>6, <3>7, <3>8, <3>9, <3>10, <3>11
      DEF InterpreterNext, Handler, Continue
  <2> QED
    BY <2>1, FrugalStep DEF ForksPaid, Frugal
<1> QED
  BY <1>1, <1>2

\* While initialize_session succeeds, for any number of requests: no more
\* processes are ever started than there were interrupts, plus the first.
THEOREM InterpreterRestartsBounded ==
  ASSUME Faults \cap {"pipe", "fork", "fdopen"} = {}, MaxFds >= 6
  PROVE  InterpreterSpec => []RestartsBounded
<1>1. InterpreterInit => StateKnown /\ NothingThrown /\ ForksPaid
  <2> SUFFICES ASSUME InterpreterInit PROVE StateKnown /\ NothingThrown /\ ForksPaid
    OBVIOUS
  <2>1. Forked = {}
    BY DEF InterpreterInit, SessionInit, Forked
  <2> QED
    BY <2>1, FS_EmptySet
    DEF InterpreterInit, SessionInit, StateKnown, NothingThrown, ForksPaid
<1>2. InterpreterSpec => [](FdsExact /\ InterpreterInv)
  BY InterpreterIsSession, SessionDescriptorBalance, InterpreterTypeCorrect, PTL
<1>3. InterpreterInv /\ ForksPaid => RestartsBounded
  <2> SUFFICES ASSUME InterpreterInv, ForksPaid PROVE Cardinality(Forked) <= 1 + signals
    BY DEF RestartsBounded, Forked
  <2>1. Cardinality(Forked) \in Nat /\ signals \in Nat /\ Due \in Nat
    BY FS_CardinalityType, SignalsAssumption
    DEF ForksPaid, InterpreterInv, InterpreterTypeOK, Due
  <2> QED
    BY <2>1, FS_EmptySet DEF ForksPaid
<1> QED
  BY <1>1, <1>2, <1>3, StateKnownNext, ForksPaidNext, PTL DEF InterpreterSpec
=============================================================================
