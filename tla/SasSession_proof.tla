-------------------------- MODULE SasSession_proof --------------------------
(***************************************************************************)
(* Proofs about SasSession: type correctness, the handles that a call uses *)
(* are valid, a marker means that SAS is idle, one SAS process at a time,  *)
(* and no descriptor is leaked.                                            *)
(***************************************************************************)
EXTENDS SasSession, SequenceTheorems, TLAPS

-----------------------------------------------------------------------------
(***************************************************************************)
(* The inductive invariant.                                                *)
(***************************************************************************)

\* Which call can be at which label, and whether a session is there.
Control ==
  /\ pc = "ready" => op = "none"
  /\ pc \in {"pipe", "fork", "fdopen"} => op \in {"execute", "restart"} /\ ~m_initialized
  /\ pc \in {"send", "sending", "wait"} => op = "execute" /\ m_initialized
  /\ pc \in {"endsas", "close", "waitpid"} => op \in {"shutdown", "restart"} /\ m_initialized
  /\ pc = "killed" => op # "none"
  /\ outcome # "none" => pc = "ready"
  /\ op = "execute" /\ pc \in {"pipe", "fork", "fdopen", "send"}
       => exec_counter < MaxExecs

\* The child that belongs to an initialized session.
OwnChild ==
  m_initialized \/ pc = "fdopen"
    => m_sas_pid \in Pids /\ child[m_sas_pid] \in {"alive", "zombie"}

\* The streams that are open at each label.
OpenAt ==
  /\ m_initialized /\ pc \notin {"close", "waitpid"} => streams = AllStreams
  /\ pc = "close" => streams = {"stdout", "stderr"}

\* Enough descriptors are open for those that the next steps close.
FdsCover ==
  /\ pc = "fork" => fds >= 6
  /\ pc = "fdopen" => fds >= 3
  /\ m_initialized /\ pc \notin {"close", "waitpid"} => fds >= 3
  /\ pc = "close" => fds >= 2

\* The commands in the stdin pipe: executions in the order of their numbers,
\* later than the last one finished, then perhaps "endsas;".
InputOrdered ==
  /\ \A i \in 1 .. Len(input) :
       \/ input[i] = EndSasCmd /\ i = Len(input) /\ pc \in {"close", "waitpid"}
       \/ /\ finished < input[i] /\ input[i] <= exec_counter
          /\ \A j \in 1 .. Len(input) : j < i => input[j] < input[i]
  /\ finished <= exec_counter

Life == SessionTypeOK /\ Control /\ OwnChild /\ OpenAt /\ FdsCover

SessionInv == Life /\ InputOrdered /\ MarkerMeansIdle

-----------------------------------------------------------------------------
(***************************************************************************)
(* Life is inductive on its own.                                           *)
(***************************************************************************)

\* A session that has not been used satisfies the invariant.
LEMMA SessionInitInv == SessionInit => SessionInv
<1> SUFFICES ASSUME SessionInit PROVE SessionInv
  OBVIOUS
<1> USE SessionAssumption DEF SessionInit
<1>0. <<>> \in Seq(0 .. MaxExecs) /\ Len(<<>>) = 0
  BY EmptySeq
<1>1. SessionTypeOK
  <2>1. child \in [Pids -> {"unborn", "alive", "zombie", "reaped"}]
    OBVIOUS
  <2>2. streams \subseteq AllStreams
    OBVIOUS
  <2>3. fds \in 0 .. MaxFds /\ exec_counter \in 0 .. MaxExecs /\ finished \in 0 .. MaxExecs
    OBVIOUS
  <2> QED
    BY <1>0, <2>1, <2>2, <2>3 DEF SessionTypeOK
<1>2. Control /\ OwnChild /\ OpenAt /\ FdsCover
  BY DEF Control, OwnChild, OpenAt, FdsCover
<1>3. InputOrdered /\ MarkerMeansIdle
  BY <1>0 DEF InputOrdered, MarkerMeansIdle
<1> QED
  BY <1>1, <1>2, <1>3 DEF SessionInv, Life

\* Whatever the calls, the failing system calls and SAS do, a call only goes
\* on with the process, the streams and the descriptors that it owns.
LEMMA LifeNext == Life /\ [SessionNext]_sessionVars => Life'
<1> SUFFICES ASSUME Life, [SessionNext]_sessionVars
             PROVE  Life'
  OBVIOUS
<1> USE SessionAssumption
    DEF Life, SessionTypeOK, Control, OwnChild, OpenAt, FdsCover, AllStreams, EndSasCmd
<1>1. CASE Execute
  BY <1>1 DEF Execute, Begin
<1>2. CASE Shutdown
  BY <1>2 DEF Shutdown, Begin, Return, EndSasMayNotFit, MayNotFit
<1>3. CASE Restart
  BY <1>3 DEF Restart, Begin, EndSasMayNotFit, MayNotFit
<1>4. CASE Interrupt
  BY <1>4 DEF Interrupt
<1>5. CASE OpenPipes
  BY <1>5 DEF OpenPipes, Goto
<1>6. CASE PipeFails
  BY <1>6 DEF PipeFails, Return
<1>7. CASE ForkChild
  BY <1>7 DEF ForkChild, CloseChildEnds, Goto
<1>8. CASE ForkFails
  BY <1>8 DEF ForkFails, Return
<1>9. CASE OpenStreams
  BY <1>9 DEF OpenStreams, Goto, Return
<1>10. CASE FdopenFails
  BY <1>10 DEF FdopenFails, Return
<1>11. CASE SendCode
  <2>1. CASE child[m_sas_pid] = "alive"
    <3>1. input' \in Seq(0 .. MaxExecs)
      <4>1. exec_counter + 1 \in 0 .. MaxExecs
        BY <1>11 DEF SendCode
      <4>2. input' = Append(input, exec_counter + 1)
        BY <1>11, <2>1 DEF SendCode
      <4> QED
        BY <4>1, <4>2, AppendProperties
    <3>2. /\ pc = "send" /\ pc' = "sending" /\ exec_counter' = exec_counter + 1
          /\ UNCHANGED <<op, outcome, m_initialized, m_sas_pid, streams, fds, child, finished>>
          /\ blocked' \subseteq {"kernel", "sas"}
      BY <1>11, <2>1 DEF SendCode, Goto, MayNotFit
    <3>3. exec_counter' \in 0 .. MaxExecs
      BY <3>2
    <3> QED
      BY <3>1, <3>2, <3>3
  <2>2. CASE child[m_sas_pid] # "alive"
    <3>1. exec_counter' \in 0 .. MaxExecs
      BY <1>11 DEF SendCode
    <3> QED
      BY <1>11, <2>2, <3>1 DEF SendCode, Killed
  <2> QED
    BY <2>1, <2>2
<1>12. CASE FinishSending \/ MarkerSeen
  BY <1>12 DEF FinishSending, Goto, Killed, MarkerSeen, AfterRead, Wait, Return
<1>13. CASE TimesOut
  BY <1>13 DEF TimesOut, Wait, Return
<1>14. CASE PollError
  BY <1>14 DEF PollError, Wait, Return
<1>15. CASE SendEndSas
  <2>1. CASE child[m_sas_pid] = "alive"
    <3>1. input' \in Seq(0 .. MaxExecs)
      BY <1>15, <2>1, SMTT(40) DEF SendEndSas, Goto, Killed
    <3> QED
      BY <1>15, <2>1, <3>1 DEF SendEndSas, Goto, Killed
  <2>2. CASE child[m_sas_pid] # "alive"
    BY <1>15, <2>2 DEF SendEndSas, Goto, Killed
  <2> QED
    BY <2>1, <2>2
<1>16. CASE CloseOutputs
  BY <1>16 DEF CloseOutputs, OutputsClosed, Goto
<1>17. CASE ReapChild
  <2>1. <<>> \in Seq(0 .. MaxExecs)
    BY EmptySeq
  <2> QED
    BY <1>17, <2>1 DEF ReapChild, ForgetChild, Goto, Return
<1>18. CASE SasFinishes
  <2>1. blocked' \subseteq {"kernel", "sas"}
    BY <1>18 DEF SasFinishes, MayBlock
  <2>2. /\ Head(input) \in 0 .. MaxExecs /\ Tail(input) \in Seq(0 .. MaxExecs)
        /\ finished' = Head(input) /\ input' = Tail(input)
    BY <1>18, HeadTailProperties DEF SasFinishes
  <2>3. UNCHANGED <<op, pc, outcome, m_initialized, m_sas_pid, streams, fds, child, exec_counter>>
    BY <1>18 DEF SasFinishes
  <2> QED
    BY <2>1, <2>2, <2>3
<1>19. CASE SasReads \/ SasBlocks \/ KernelReads
  <2>1. blocked' \subseteq {"kernel", "sas"}
    BY <1>19 DEF SasReads, SasBlocks, KernelReads, AfterRead, MayBlock
  <2>2. UNCHANGED <<op, pc, outcome, m_initialized, m_sas_pid, streams, fds, child, input,
                    exec_counter, finished>>
    BY <1>19 DEF SasReads, SasBlocks, KernelReads
  <2> QED
    BY <2>1, <2>2
<1>20. ASSUME NEW p \in Pids, SasDies(p)
       PROVE  Life'
  <2>1. blocked' \subseteq {"kernel", "sas"}
    BY <1>20 DEF SasDies
  <2>2. /\ child' = [child EXCEPT ![p] = "zombie"]
        /\ UNCHANGED <<op, pc, outcome, m_initialized, m_sas_pid, streams, fds, input,
                       exec_counter, finished>>
    BY <1>20 DEF SasDies
  <2> QED
    BY <2>1, <2>2
<1>21. CASE SasObeysEndSas \/ SasLosesOutput \/ SasExits
  BY <1>20, <1>21 DEF SasObeysEndSas, SasLosesOutput, SasRuns, Owned, SasExits
<1>22. CASE UNCHANGED sessionVars
  BY <1>22 DEF sessionVars
<1> QED
  BY <1>1, <1>2, <1>3, <1>4, <1>5, <1>6, <1>7, <1>8, <1>9, <1>10, <1>11,
     <1>12, <1>13, <1>14, <1>15, <1>16, <1>17, <1>18, <1>19, <1>20, <1>21, <1>22
  DEF SessionNext, KernelStep, SasStep

-----------------------------------------------------------------------------
(***************************************************************************)
(* The order of the input, and what a marker means.                        *)
(***************************************************************************)

\* A step that leaves the input and the markers alone.
Quiet ==
  /\ UNCHANGED <<input, exec_counter, finished>>
  /\ pc \in {"close", "waitpid"} => pc' \in {"close", "waitpid"} \/ input = <<>>
  /\ outcome' = "marker" => outcome = "marker"

LEMMA QuietStep ==
  InputOrdered /\ MarkerMeansIdle /\ Life /\ Quiet => InputOrdered' /\ MarkerMeansIdle'
BY DEF InputOrdered, MarkerMeansIdle, Life, SessionTypeOK, Quiet

\* Executions are numbered upwards and SAS obeys its input in order, so what
\* is in the pipe stays sorted and later than what SAS has finished.
LEMMA InputNext ==
  SessionInv /\ [SessionNext]_sessionVars => InputOrdered' /\ MarkerMeansIdle'
<1> SUFFICES ASSUME SessionInv, [SessionNext]_sessionVars
             PROVE  InputOrdered' /\ MarkerMeansIdle'
  OBVIOUS
<1> USE DEF SessionInv
<1>1. CASE \/ Execute \/ Shutdown \/ Restart \/ Interrupt \/ OpenPipes \/ PipeFails
           \/ ForkFails \/ OpenStreams \/ FdopenFails
  <2>1. Quiet
    BY <1>1 DEF Life, SessionTypeOK, Control, Quiet, Execute, Shutdown, Restart, Interrupt,
          OpenPipes, PipeFails, ForkFails, OpenStreams, FdopenFails, Begin, Goto, Return
  <2> QED
    BY <2>1, QuietStep
<1>2. CASE \/ FinishSending \/ KernelReads \/ TimesOut \/ PollError \/ CloseOutputs
           \/ SasReads \/ SasBlocks \/ SasObeysEndSas \/ SasLosesOutput \/ SasExits \/ UNCHANGED sessionVars
  <2>1. Quiet
    BY <1>2 DEF Quiet, Life, Control, FinishSending, KernelReads, TimesOut, PollError,
          CloseOutputs, SasReads, SasBlocks, SasObeysEndSas, SasLosesOutput, SasExits, SasDies,
          sessionVars, Wait, Return, Goto, Killed
  <2> QED
    BY <2>1, QuietStep
<1>3. CASE ForkChild \/ ReapChild
  <2>1. input' = <<>> /\ Len(<<>>) = 0
    BY <1>3, EmptySeq DEF ForkChild, ReapChild
  <2>2. finished' <= exec_counter'
    BY <1>3 DEF ForkChild, ReapChild, InputOrdered, Life, SessionTypeOK
  <2> QED
    BY <2>1, <2>2 DEF InputOrdered, MarkerMeansIdle
<1>4. CASE SendCode
  <2>1. outcome' = "none" /\ finished' = finished
    BY <1>4 DEF SendCode, Goto, Killed, Life, Control
  <2>2. CASE input' = input
    <3>1. /\ exec_counter' = exec_counter + 1 /\ exec_counter \in Nat /\ finished \in Nat
          /\ \A i \in 1 .. Len(input) : input[i] \in Nat
      BY <1>4, SessionAssumption DEF SendCode, Life, SessionTypeOK
    <3>2. pc = "send"
      BY <1>4 DEF SendCode
    <3> QED
      BY <2>1, <2>2, <3>1, <3>2 DEF InputOrdered, MarkerMeansIdle
  <2>3. CASE input' = Append(input, exec_counter + 1)
    <3>1. /\ Len(input') = Len(input) + 1
          /\ \A i \in 1 .. Len(input) : input'[i] = input[i]
          /\ input'[Len(input) + 1] = exec_counter + 1
      BY <2>3 DEF Life, SessionTypeOK
    <3>2. /\ exec_counter' = exec_counter + 1 /\ exec_counter \in Nat /\ finished \in Nat
          /\ Len(input) \in Nat
          /\ \A i \in 1 .. Len(input) : input[i] \in Nat
      BY <1>4, SessionAssumption DEF SendCode, Life, SessionTypeOK
    <3>3. \A i \in 1 .. Len(input) :
             /\ finished < input[i] /\ input[i] <= exec_counter
             /\ \A j \in 1 .. Len(input) : j < i => input[j] < input[i]
      BY <1>4 DEF SendCode, InputOrdered
    <3>4. ASSUME NEW i \in 1 .. Len(input')
          PROVE  /\ finished' < input'[i] /\ input'[i] <= exec_counter'
                 /\ \A j \in 1 .. Len(input') : j < i => input'[j] < input'[i]
      <4>1. CASE i = Len(input) + 1
        BY <2>1, <3>1, <3>2, <3>3, <4>1 DEF InputOrdered
      <4>2. CASE i \in 1 .. Len(input)
        BY <2>1, <3>1, <3>2, <3>3, <4>2
      <4> QED
        BY <3>1, <3>2, <4>1, <4>2
    <3> QED
      BY <2>1, <3>2, <3>4 DEF InputOrdered, MarkerMeansIdle
  <2> QED
    BY <1>4, <2>2, <2>3 DEF SendCode
<1>5. CASE MarkerSeen
  <2>1. UNCHANGED <<input, exec_counter, finished>> /\ finished = exec_counter /\ pc = "wait"
    BY <1>5 DEF MarkerSeen, Wait
  <2>2. Len(input) = 0
    BY <2>1, SessionAssumption DEF InputOrdered, Life, SessionTypeOK
  <2>3. input = <<>>
    BY <2>2, EmptySeq DEF Life, SessionTypeOK
  <2> QED
    BY <2>1, <2>2, <2>3 DEF InputOrdered, MarkerMeansIdle
<1>6. CASE SendEndSas
  <2>1. outcome' = "none" /\ UNCHANGED <<finished, exec_counter>>
    BY <1>6 DEF SendEndSas, Goto, Killed, Life, Control
  <2>2. CASE input' = input
    BY <1>6, <2>1, <2>2 DEF SendEndSas, InputOrdered, MarkerMeansIdle
  <2>3. CASE input' = Append(input, EndSasCmd) /\ pc' = "close"
    <3>1. /\ Len(input') = Len(input) + 1 /\ Len(input) \in Nat
          /\ \A i \in 1 .. Len(input) : input'[i] = input[i]
          /\ input'[Len(input) + 1] = EndSasCmd
      BY <2>3 DEF Life, SessionTypeOK, EndSasCmd
    <3>2. \A i \in 1 .. Len(input) :
             /\ finished < input[i] /\ input[i] <= exec_counter
             /\ \A j \in 1 .. Len(input) : j < i => input[j] < input[i]
      BY <1>6 DEF SendEndSas, InputOrdered
    <3>3. ASSUME NEW i \in 1 .. Len(input')
          PROVE  \/ input'[i] = EndSasCmd /\ i = Len(input')
                 \/ /\ finished < input'[i] /\ input'[i] <= exec_counter
                    /\ \A j \in 1 .. Len(input') : j < i => input'[j] < input'[i]
      <4>1. CASE i = Len(input) + 1
        BY <3>1, <4>1
      <4>2. CASE i \in 1 .. Len(input)
        BY <3>1, <3>2, <4>2
      <4> QED
        BY <3>1, <4>1, <4>2
    <3> QED
      BY <2>1, <2>3, <3>3 DEF InputOrdered, MarkerMeansIdle
  <2> QED
    BY <1>6, <2>2, <2>3 DEF SendEndSas, Goto
<1>7. CASE SasFinishes
  <2>1. /\ Len(input) \in Nat /\ Len(input) >= 1
        /\ Len(input') = Len(input) - 1
        /\ \A i \in 1 .. Len(input') : input'[i] = input[i + 1]
        /\ \A i \in 1 .. Len(input) : input[i] \in Nat
        /\ finished' = input[1]
    BY <1>7, SessionAssumption DEF SasFinishes, Life, SessionTypeOK
  <2>2. UNCHANGED <<pc, outcome, exec_counter>> /\ input # <<>> /\ input[1] # EndSasCmd
    BY <1>7 DEF SasFinishes
  <2>3. finished' <= exec_counter'
    BY <2>1, <2>2 DEF InputOrdered
  <2>4. ASSUME NEW i \in 1 .. Len(input')
        PROVE  \/ input'[i] = EndSasCmd /\ i = Len(input') /\ pc' \in {"close", "waitpid"}
               \/ /\ finished' < input'[i] /\ input'[i] <= exec_counter'
                  /\ \A j \in 1 .. Len(input') : j < i => input'[j] < input'[i]
    <3>1. i + 1 \in 1 .. Len(input) /\ 1 \in 1 .. Len(input) /\ 1 < i + 1
      BY <2>1
    <3>2. CASE input[i + 1] = EndSasCmd
      <4>1. finished \in Nat
        BY SessionAssumption DEF Life, SessionTypeOK
      <4>2. ~(finished < input[i + 1])
        BY <3>2, <4>1 DEF EndSasCmd
      <4>3. i + 1 = Len(input) /\ pc \in {"close", "waitpid"}
        BY <3>1, <4>2 DEF InputOrdered
      <4>4. i = Len(input') /\ input'[i] = EndSasCmd
        BY <2>1, <3>2, <4>3
      <4> QED
        BY <2>2, <4>3, <4>4
    <3>3. CASE input[i + 1] # EndSasCmd
      <4>1. /\ input[i + 1] <= exec_counter
            /\ \A j \in 1 .. Len(input) : j < i + 1 => input[j] < input[i + 1]
        BY <3>1, <3>3 DEF InputOrdered
      <4>2. \A j \in 1 .. Len(input') : j < i => input'[j] < input'[i]
        BY <2>1, <4>1
      <4>3. finished' < input'[i]
        BY <2>1, <3>1, <4>1
      <4> QED
        BY <2>1, <2>2, <4>1, <4>2, <4>3
    <3> QED
      BY <3>2, <3>3
  <2> QED
    BY <2>2, <2>3, <2>4 DEF InputOrdered, MarkerMeansIdle
<1> QED
  BY <1>1, <1>2, <1>3, <1>4, <1>5, <1>6, <1>7 DEF SessionNext, KernelStep, SasStep

\* The invariant holds throughout every behaviour.
THEOREM SessionInvariant == SessionSpec => []SessionInv
<1>1. SessionInv /\ [SessionNext]_sessionVars => SessionInv'
  BY LifeNext, InputNext DEF SessionInv
<1> QED
  BY SessionInitInv, <1>1, PTL DEF SessionSpec

\* Every variable of the session keeps its type: in particular the number of
\* open descriptors never leaves 0 .. MaxFds, so no descriptor is closed twice.
THEOREM SessionTypeCorrect == SessionSpec => []SessionTypeOK
<1>1. SessionInv => SessionTypeOK
  BY DEF SessionInv, Life
<1> QED
  BY SessionInvariant, <1>1, PTL

\* For every bound and every set of faults: execute, shutdown and restart only
\* use open streams and only wait for a child of their own.
THEOREM SessionHandlesValid == SessionSpec => []HandlesValid
<1>1. SessionInv => HandlesValid
  BY DEF SessionInv, Life, Control, OwnChild, OpenAt, HandlesValid
<1> QED
  BY SessionInvariant, <1>1, PTL

\* When execute returns on a marker, SAS has nothing left to do.
THEOREM SessionMarkerMeansIdle == SessionSpec => []MarkerMeansIdle
<1>1. SessionInv => MarkerMeansIdle
  BY DEF SessionInv
<1> QED
  BY SessionInvariant, <1>1, PTL

-----------------------------------------------------------------------------
(***************************************************************************)
(* One SAS process at a time.                                              *)
(***************************************************************************)

\* Unless fdopen() fails, only the process of an initialized session, or of
\* one that is being initialized, can be left to reap, and only an initialized
\* session that is not being shut down has open streams.
OnlyOwn ==
  /\ \A p \in Pids : Unreaped(p) => p = m_sas_pid /\ (m_initialized \/ pc = "fdopen")
  /\ ~m_initialized \/ pc = "waitpid" => streams = {}

\* A session only forks when it has reaped what it had forked before.
LEMMA OnlyOwnNext ==
  ASSUME "fdopen" \notin Faults
  PROVE  Life /\ OnlyOwn /\ [SessionNext]_sessionVars => OnlyOwn'
<1> SUFFICES ASSUME Life, OnlyOwn, [SessionNext]_sessionVars
             PROVE  OnlyOwn'
  OBVIOUS
<1> USE DEF Life, SessionTypeOK, Control, OwnChild, OpenAt, OnlyOwn, Unreaped
<1>1. CASE Execute \/ Shutdown \/ Restart
  BY <1>1 DEF Execute, Shutdown, Restart, Begin, Return
<1>2. CASE OpenPipes \/ PipeFails \/ OpenStreams
  BY <1>2 DEF OpenPipes, PipeFails, OpenStreams, Goto, Return
<1>3. CASE ForkChild
  BY <1>3 DEF ForkChild, Goto
<1>4. CASE ForkFails
  BY <1>4 DEF ForkFails, Return
<1>5. CASE FdopenFails
  BY <1>5 DEF FdopenFails
<1>6. CASE SendCode \/ FinishSending \/ SendEndSas \/ CloseOutputs
  BY <1>6 DEF SendCode, FinishSending, SendEndSas, CloseOutputs, Goto, Killed
<1>7. CASE MarkerSeen \/ TimesOut \/ PollError
  BY <1>7 DEF MarkerSeen, TimesOut, PollError, Wait, Return
<1>8. CASE ReapChild
  BY <1>8 DEF ReapChild, ForgetChild, Goto, Return
<1>9. CASE Interrupt \/ KernelReads \/ SasStep \/ SasExits
  BY <1>9 DEF Interrupt, KernelReads, SasStep, SasFinishes, SasReads, SasBlocks,
     SasObeysEndSas, SasLosesOutput, SasExits, SasDies
<1>10. CASE UNCHANGED sessionVars
  BY <1>10 DEF sessionVars
<1> QED
  BY <1>1, <1>2, <1>3, <1>4, <1>5, <1>6, <1>7, <1>8, <1>9, <1>10
  DEF SessionNext, KernelStep

\* However execute, shutdown, restart and interrupt are mixed, and however
\* often pipe() and fork() fail or SAS dies, at most one process is unreaped,
\* and it is the one that m_sas_pid names.
THEOREM SessionSingleSas ==
  ASSUME "fdopen" \notin Faults
  PROVE  SessionSpec => []SingleSas
<1>1. SessionInit => OnlyOwn
  BY DEF SessionInit, OnlyOwn, Unreaped
<1>2. SessionInv /\ OnlyOwn /\ [SessionNext]_sessionVars => OnlyOwn'
  BY OnlyOwnNext DEF SessionInv
<1>3. OnlyOwn => SingleSas
  BY DEF OnlyOwn, SingleSas
<1> QED
  BY SessionInvariant, <1>1, <1>2, <1>3, PTL DEF SessionSpec

-----------------------------------------------------------------------------
(***************************************************************************)
(* What a shutdown leaves behind.                                          *)
(***************************************************************************)

\* Only the reaping of the child ends a shutdown of an initialized session.
LEMMA ShutdownEnds ==
  /\ Life /\ OnlyOwn /\ [SessionNext]_sessionVars
  /\ Shutdown \/ op = "shutdown"
  /\ pc' = "ready"
  => streams' = {} /\ \A p \in Pids : ~Unreaped(p)'
<1> SUFFICES ASSUME Life, OnlyOwn, [SessionNext]_sessionVars,
                    Shutdown \/ op = "shutdown", pc' = "ready"
             PROVE  streams' = {} /\ \A p \in Pids : ~Unreaped(p)'
  OBVIOUS
<1> USE DEF Life, SessionTypeOK, Control, OwnChild, OnlyOwn, Unreaped
<1>1. CASE Shutdown
  BY <1>1 DEF Shutdown, Begin, Return
<1>2. CASE op = "shutdown"
  <2>1. pc \in {"endsas", "close", "waitpid", "killed"}
    BY <1>2
  <2>2. ReapChild
    BY <1>2, <2>1 DEF SessionNext, KernelStep, SasStep, Execute, Shutdown, Restart, Interrupt,
       Begin, OpenPipes, PipeFails, ForkChild, ForkFails, OpenStreams, FdopenFails, SendCode,
       FinishSending, KernelReads, MarkerSeen, TimesOut, PollError, Wait, SendEndSas, CloseOutputs,
       Goto, Killed, SasFinishes, SasReads, SasBlocks, SasObeysEndSas, SasLosesOutput, SasExits,
       SasDies, sessionVars
  <2> QED
    BY <2>2 DEF ReapChild, ForgetChild
<1> QED
  BY <1>1, <1>2

\* Unless fdopen() fails, no process is left running or unreaped, and no
\* stream open, when shutdown or the destructor returns.
THEOREM SessionCleanShutdown ==
  ASSUME "fdopen" \notin Faults
  PROVE  SessionSpec => CleanShutdown
<1>1. SessionInit => OnlyOwn
  BY DEF SessionInit, OnlyOwn, Unreaped
<1>2. SessionInv /\ OnlyOwn /\ [SessionNext]_sessionVars => OnlyOwn'
  BY OnlyOwnNext DEF SessionInv
<1>3. SessionInv /\ OnlyOwn /\ [SessionNext]_sessionVars
        => [(Shutdown \/ op = "shutdown") /\ pc' = "ready"
              => streams' = {} /\ \A p \in Pids : ~Unreaped(p)']_sessionVars
  BY ShutdownEnds DEF SessionInv
<1> QED
  BY SessionInvariant, <1>1, <1>2, <1>3, PTL DEF SessionSpec, CleanShutdown

-----------------------------------------------------------------------------
(***************************************************************************)
(* No descriptor is leaked.                                                *)
(***************************************************************************)

\* How many descriptors are open at each label.
FdsExact ==
  fds = CASE pc = "fork" -> 6
          [] pc = "fdopen" -> 3
          [] pc = "close" -> 2
          [] pc = "waitpid" -> 0
          [] OTHER -> IF m_initialized THEN 3 ELSE 0

\* Each step opens and closes what FdsExact says, unless initialize_session
\* throws in the middle.
LEMMA FdsExactNext ==
  ASSUME Faults \cap {"pipe", "fork", "fdopen"} = {}, MaxFds >= 6
  PROVE  Life /\ FdsExact /\ [SessionNext]_sessionVars => FdsExact'
<1> SUFFICES ASSUME Life, FdsExact, [SessionNext]_sessionVars
             PROVE  FdsExact'
  OBVIOUS
<1> USE SessionAssumption DEF Life, SessionTypeOK, Control, FdsExact
<1>1. CASE Execute \/ Shutdown \/ Restart
  BY <1>1 DEF Execute, Shutdown, Restart, Begin, Return
<1>2. CASE OpenPipes \/ ForkChild \/ OpenStreams
  BY <1>2 DEF OpenPipes, ForkChild, CloseChildEnds, OpenStreams, Goto, Return
<1>3. CASE PipeFails \/ ForkFails \/ FdopenFails
  BY <1>3 DEF PipeFails, ForkFails, FdopenFails
<1>4. CASE SendCode \/ FinishSending
  BY <1>4 DEF SendCode, FinishSending, Goto, Killed
<1>5. CASE MarkerSeen \/ TimesOut \/ PollError
  BY <1>5 DEF MarkerSeen, TimesOut, PollError, Wait, Return
<1>6. CASE SendEndSas \/ CloseOutputs
  BY <1>6 DEF SendEndSas, CloseOutputs, OutputsClosed, Goto, Killed
<1>7. CASE ReapChild
  BY <1>7 DEF ReapChild, ForgetChild, Goto, Return
<1>8. CASE Interrupt \/ KernelReads \/ SasStep \/ SasExits
  BY <1>8 DEF Interrupt, KernelReads, SasStep, SasFinishes, SasReads, SasBlocks,
     SasObeysEndSas, SasLosesOutput, SasExits, SasDies
<1>9. CASE UNCHANGED sessionVars
  BY <1>9 DEF sessionVars
<1> QED
  BY <1>1, <1>2, <1>3, <1>4, <1>5, <1>6, <1>7, <1>8, <1>9
  DEF SessionNext, KernelStep

\* Restarts and lazy starts can go on for ever on six descriptors, if none of
\* the calls in initialize_session fails.
THEOREM SessionDescriptorBalance ==
  ASSUME Faults \cap {"pipe", "fork", "fdopen"} = {}, MaxFds >= 6
  PROVE  SessionSpec => [](FdsExact /\ DescriptorBalance)
<1>1. SessionInit => FdsExact
  BY DEF SessionInit, FdsExact
<1>2. SessionInv /\ FdsExact /\ [SessionNext]_sessionVars => FdsExact'
  BY FdsExactNext DEF SessionInv
<1>3. FdsExact => DescriptorBalance
  BY DEF FdsExact, DescriptorBalance
<1> QED
  BY SessionInvariant, <1>1, <1>2, <1>3, PTL DEF SessionSpec

-----------------------------------------------------------------------------
(***************************************************************************)
(* No write to a dead SAS.                                                 *)
(***************************************************************************)

\* Until shutdown has written "endsas;", the child is alive.
AliveUntilAsked ==
  /\ (m_initialized \/ pc = "fdopen") /\ pc \notin {"close", "waitpid"}
       => child[m_sas_pid] = "alive"
  /\ NeverKilled

\* SAS reads "endsas;" only after shutdown has written it, and loses its
\* output pipes only after shutdown has closed them.
LEMMA AliveNext ==
  ASSUME Faults \cap {"exit", "group", "interrupt"} = {}
  PROVE  SessionInv /\ AliveUntilAsked /\ [SessionNext]_sessionVars => AliveUntilAsked'
<1> SUFFICES ASSUME SessionInv, AliveUntilAsked, [SessionNext]_sessionVars
             PROVE  AliveUntilAsked'
  OBVIOUS
<1> USE DEF SessionInv, Life, SessionTypeOK, Control, OwnChild, AliveUntilAsked, NeverKilled
<1>1. CASE Execute \/ Shutdown \/ Restart
  BY <1>1 DEF Execute, Shutdown, Restart, Begin, Return
<1>2. CASE OpenPipes \/ PipeFails \/ ForkFails \/ OpenStreams \/ FdopenFails
  BY <1>2 DEF OpenPipes, PipeFails, ForkFails, OpenStreams, FdopenFails, Goto, Return
<1>3. CASE ForkChild
  BY <1>3 DEF ForkChild, Goto
<1>4. CASE SendCode \/ FinishSending \/ SendEndSas
  BY <1>4 DEF SendCode, FinishSending, SendEndSas, Goto, Killed
<1>5. CASE MarkerSeen \/ TimesOut \/ PollError
  BY <1>5 DEF MarkerSeen, TimesOut, PollError, Wait, Return
<1>6. CASE CloseOutputs \/ ReapChild
  BY <1>6 DEF CloseOutputs, ReapChild, ForgetChild, Goto, Return
<1>7. CASE \/ Interrupt \/ KernelReads \/ SasFinishes \/ SasReads \/ SasBlocks
           \/ SasExits
  BY <1>7 DEF Interrupt, KernelReads, SasFinishes, SasReads, SasBlocks, SasExits
<1>8. CASE SasObeysEndSas
  <2>1. /\ input # <<>> /\ Head(input) = EndSasCmd
        /\ SasDies(m_sas_pid)
    BY <1>8 DEF SasObeysEndSas
  <2>2. 1 \in 1 .. Len(input) /\ input[1] = EndSasCmd
    BY <2>1
  <2>3. finished \in Nat /\ EndSasCmd = 0
    BY SessionAssumption DEF EndSasCmd
  <2>4. pc \in {"close", "waitpid"}
    BY <2>2, <2>3 DEF InputOrdered
  <2> QED
    BY <2>1, <2>4 DEF SasDies
<1>9. CASE SasLosesOutput
  BY <1>9 DEF SasLosesOutput, SasDies
<1>10. CASE UNCHANGED sessionVars
  BY <1>10 DEF sessionVars
<1> QED
  BY <1>1, <1>2, <1>3, <1>4, <1>5, <1>6, <1>7, <1>8, <1>9, <1>10
  DEF SessionNext, KernelStep, SasStep

\* As long as SAS only ends when it is told to, no mixture of calls and no
\* failing pipe(), fork() or fdopen() makes the kernel write to a dead SAS.
THEOREM SessionNeverKilled ==
  ASSUME Faults \cap {"exit", "group", "interrupt"} = {}
  PROVE  SessionSpec => []NeverKilled
<1>1. SessionInit => AliveUntilAsked
  BY DEF SessionInit, AliveUntilAsked, NeverKilled
<1>2. SessionInv /\ AliveUntilAsked /\ [SessionNext]_sessionVars => AliveUntilAsked'
  BY AliveNext
<1>3. AliveUntilAsked => NeverKilled
  BY DEF AliveUntilAsked
<1> QED
  BY SessionInvariant, <1>1, <1>2, <1>3, PTL DEF SessionSpec
=============================================================================
