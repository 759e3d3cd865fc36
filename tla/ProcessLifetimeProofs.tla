------------------------- MODULE ProcessLifetimeProofs -------------------------
(* Proofs about ProcessLifetime: the handshake of launch, the waits and     *)
(* the destructor, for the pipe's indices and tid as written and repaired.  *)
EXTENDS ProcessLifetime, TLAPS

USE LifetimeAssumption

(* What the three properties rest on.                                      *)
(*                                                                         *)
(* A child that has not executed the program runs untouched by its parent, *)
(* which is still in launch, or has given up on a pipe it cannot read.     *)
Unexecuted == {"setpgid", "close_read", "dup2", "traceme", "exec", "report",
               "exit", "escaped"}

Handshaking == {"launch", "close_write", "read", "reap", "threw"}

Holding == {"wait", "options", "ready", "waiting", "destroy", "stop_wait", "detach"}

Releasing == {"kill", "kill_wait", "gone"}

ChildInv ==
  /\ child = "none" <=> kern = "none"
  /\ child = "none" => how = "launch" /\ pc \in {"launch", "threw"}
  /\ child \in Unexecuted => how = "launch" /\ kern = "running" /\ status = "none"
  /\ child = "dead" => how = "launch" /\ kern \in {"zombie", "reaped"}
  /\ child # "program" => pc \in Handshaking
  /\ pc \in {"close_write", "read", "reap"} => how = "launch" /\ kern # "reaped"
  /\ pc = "launch" => how = "launch" /\ child = "none"
  /\ pc = "attach" => how = "attach"
  /\ how = "attach" => debug /\ child = "program"

(* The ends of the pipe each side still holds, and where a message can be. *)
PipeInv ==
  /\ child \in Unexecuted \ {"exit", "escaped"} => 1 \in fds["child"]
  /\ child = "exit" => writeFd = 1 /\ 1 \in fds["child"]
  /\ msg => child \in {"exit", "dead"}
  /\ how = "attach" => fds["parent"] = {}
  /\ writeFd = 0 /\ how = "launch" =>
       /\ pc \in {"launch", "close_write", "read", "threw"}
       /\ kern # "reaped"
       /\ pc = "launch" => fds["parent"] = {}
       /\ pc = "close_write" => fds["parent"] = {0, 1}
       /\ pc = "read" => fds["parent"] = {1}
       /\ pc = "threw" /\ child # "none" => fds["parent"] = {1}
  /\ writeFd = 1 =>
       /\ child # "escaped"
       /\ child \in {"exit", "dead"} => msg \/ pc \in {"reap", "threw"}
       /\ pc = "close_write" => fds["parent"] = {0, 1}
       /\ pc = "read" => fds["parent"] = {0}
       /\ pc \notin {"close_write", "read"} => fds["parent"] = {}
       /\ pc = "reap" => child \in {"exit", "dead"}
       /\ pc = "threw" /\ how = "launch" =>
            child = "none" \/ (child = "dead" /\ kern = "reaped")

(* A tracee is held from the first wait to PTRACE_DETACH: it runs only     *)
(* while m_State says so, and nothing else is traced.                      *)
TraceInv ==
  /\ traced => m_Attached /\ Alive
  /\ child \in {"none", "setpgid", "close_read", "dup2", "traceme"} => ~traced
  /\ child = "traceme" => debug
  /\ m_Attached /\ child \in {"exec", "program"} /\ Alive =>
       traced \/ pc \in {"attach", "threw"} \union Releasing
  /\ how = "launch" /\ debug /\ child = "program" /\ pc \in {"close_write", "read"} =>
       kern # "running"
  /\ pc \in {"launch", "attach"} => ~traced
  /\ pc \in {"wait", "options", "stop_wait", "detach"} => m_Attached
  /\ how = "attach" /\ pc = "threw" => ~traced
  /\ pc \in Holding /\ m_Attached /\ kern = "running" =>
       mState = "running" /\ pc \in {"ready", "waiting", "destroy", "stop_wait"}
  /\ pc \in Releasing => ~traced
  /\ pc = "kill_wait" => how = "launch" /\ ~Alive
  /\ pc = "gone" /\ how = "launch" => kern = "reaped"
  /\ unwinding => pc \in {"destroy", "stop_wait", "detach"} \union Releasing

(* A cloned thread is a tracee of an executed program, alive only with it;  *)
(* as long as it is not reaped the process is not either.                   *)
CloneInv ==
  /\ clone # "none" => child = "program" /\ kern # "reaped"
  /\ clone \notin {"none", "zombie"} => Alive
  /\ clone # "none" =>
       m_Attached /\ pc \in {"ready", "waiting", "destroy", "stop_wait", "detach"} \union Releasing

LifeInv == TypeOK /\ ChildInv /\ PipeInv /\ TraceInv /\ CloneInv

LEMMA LifeInit == Init => LifeInv
BY DEF Init, LifeInv, TypeOK, ChildInv, PipeInv, TraceInv, CloneInv, Unexecuted, Handshaking,
   Holding, Releasing, Places, ChildPlaces, m_Attached, Alive

(* The handshake's point: end of file on the pipe, with no message in it,  *)
(* means close-on-exec shut the child's end, so the program was executed.  *)
LEMMA EndOfFile == LifeInv /\ ReadPipe /\ ~msg => writeFd = 1 /\ child = "program"
<1> SUFFICES ASSUME LifeInv, ReadPipe, ~msg PROVE writeFd = 1 /\ child = "program"
  OBVIOUS
<1>1. pc = "read" /\ how = "launch" /\ writeFd = 1 /\ 1 \notin fds["child"]
  BY DEF ReadPipe, LifeInv, TypeOK, ChildInv, PipeInv
<1>2. QED
  BY <1>1 DEF LifeInv, TypeOK, ChildPlaces, ChildInv, PipeInv, Unexecuted

(* Each step of launch and attach in the debugger keeps the invariant. *)
LEMMA ParentStepLife == LifeInv /\ ParentInLaunch => LifeInv'
<1> SUFFICES ASSUME LifeInv, ParentInLaunch PROVE LifeInv'
  OBVIOUS
<1> USE DEF LifeInv, TypeOK, ChildInv, PipeInv, TraceInv, CloneInv, Unexecuted, Handshaking,
        Holding, Releasing, Places, ChildPlaces, m_Attached, Alive, params, kernVars,
        pipeVars, ReadFd
<1>1. CASE Fork
  BY <1>1 DEF Fork
<1>2. CASE PipeOrForkFails
  BY <1>2 DEF PipeOrForkFails
<1>3. CASE CloseWrite
  BY <1>3 DEF CloseWrite
<1>4. CASE ReadPipe
  <2>1. TypeOK'
    BY <1>4 DEF ReadPipe
  <2>2. ChildInv'
    BY <1>4 DEF ReadPipe
  <2>3. PipeInv'
    <3>1. CASE msg
      <4>1. writeFd = 1 /\ fds["parent"] = {0}
        BY <1>4 DEF ReadPipe
      <4>2. fds'["parent"] = {} /\ fds'["child"] = fds["child"]
        BY <1>4, <4>1 DEF ReadPipe
      <4>3. QED
        BY <1>4, <3>1, <4>1, <4>2 DEF ReadPipe
    <3>2. CASE ~msg
      <4>1. child = "program"
        BY <1>4, <3>2, EndOfFile
      <4>2. QED
        BY <1>4, <3>2, <4>1 DEF ReadPipe
    <3>3. QED
      BY <3>1, <3>2
  <2>4. TraceInv'
    BY <1>4 DEF ReadPipe
  <2>5. CloneInv'
    BY <1>4 DEF ReadPipe
  <2>6. QED
    BY <2>1, <2>2, <2>3, <2>4, <2>5
<1>5. CASE ReadPipeFails
  BY <1>5 DEF ReadPipeFails, ClosePipe
<1>6. CASE ReapFailedChild
  BY <1>6 DEF ReapFailedChild, Collect, ClosePipe
<1>7. CASE Attach
  <2>1. TypeOK'
    BY <1>7 DEF Attach
  <2>2. ChildInv'
    BY <1>7 DEF Attach
  <2>3. PipeInv'
    BY <1>7 DEF Attach
  <2>4. TraceInv'
    BY <1>7 DEF Attach
  <2>5. CloneInv'
    BY <1>7 DEF Attach
  <2>6. QED
    BY <2>1, <2>2, <2>3, <2>4, <2>5
<1>8. CASE FirstWait
  <2>1. TypeOK'
    BY <1>8 DEF FirstWait, Collect
  <2>2. ChildInv'
    BY <1>8 DEF FirstWait, Collect
  <2>3. PipeInv'
    BY <1>8 DEF FirstWait, Collect
  <2>4. TraceInv'
    BY <1>8 DEF FirstWait, Collect
  <2>5. CloneInv'
    BY <1>8 DEF FirstWait, Collect
  <2>6. QED
    BY <2>1, <2>2, <2>3, <2>4, <2>5
<1>9. CASE SetOptions
  BY <1>9 DEF SetOptions
<1>10. QED
  BY <1>1, <1>2, <1>3, <1>4, <1>5, <1>6, <1>7, <1>8, <1>9 DEF ParentInLaunch

(* So does each step of the forked child. *)
LEMMA ChildStepLife == LifeInv /\ Child => LifeInv'
<1> SUFFICES ASSUME LifeInv, Child PROVE LifeInv'
  OBVIOUS
<1> USE DEF LifeInv, TypeOK, ChildInv, PipeInv, TraceInv, CloneInv, Unexecuted, Handshaking,
        Holding, Releasing, Places, ChildPlaces, m_Attached, Alive, params, kernVars,
        pipeVars, ReadFd
<1>1. CASE SetPgid
  BY <1>1 DEF SetPgid, ChildStep, ChildCan
<1>2. CASE ChildCloseRead
  BY <1>2 DEF ChildCloseRead, ChildCan
<1>3. CASE ReplaceStdout
  BY <1>3 DEF ReplaceStdout, ChildStep, ChildCan
<1>4. CASE TraceMe
  <2>1. CASE ChildCan("traceme", "exec") /\ traced' = TRUE
    BY <1>4, <2>1 DEF TraceMe, ChildCan
  <2>2. CASE ChildCan("traceme", "report") /\ UNCHANGED traced
    BY <1>4, <2>2 DEF TraceMe, ChildCan
  <2>3. QED
    BY <1>4, <2>1, <2>2 DEF TraceMe
<1>5. CASE Exec
  <2>1. TypeOK'
    BY <1>5 DEF Exec, ChildCan
  <2>2. ChildInv'
    BY <1>5 DEF Exec, ChildCan
  <2>3. PipeInv'
    <3>1. ~msg /\ fds' = [fds EXCEPT !["child"] = {}]
      BY <1>5 DEF Exec, ChildCan
    <3>2. fds'["parent"] = fds["parent"]
      BY <3>1
    <3>3. QED
      BY <1>5, <3>1, <3>2 DEF Exec, ChildCan
  <2>4. TraceInv'
    BY <1>5 DEF Exec, ChildCan
  <2>5. CloneInv'
    BY <1>5 DEF Exec, ChildCan
  <2>6. QED
    BY <2>1, <2>2, <2>3, <2>4, <2>5
<1>6. CASE ExecFails
  BY <1>6 DEF ExecFails, ChildCan
<1>7. CASE ReportError
  <2>1. CASE writeFd = 1 /\ 1 \in fds["child"]
    BY <1>7, <2>1 DEF ReportError, ChildCan
  <2>2. CASE ~(writeFd = 1 /\ 1 \in fds["child"])
    BY <1>7, <2>2 DEF ReportError, ChildCan
  <2>3. QED
    BY <2>1, <2>2
<1>8. CASE ChildExit
  <2>1. TypeOK'
    BY <1>8 DEF ChildExit, Dies
  <2>2. ChildInv'
    BY <1>8 DEF ChildExit, Dies
  <2>3. PipeInv'
    BY <1>8 DEF ChildExit, Dies
  <2>4. TraceInv'
    BY <1>8 DEF ChildExit, Dies
  <2>5. CloneInv'
    BY <1>8 DEF ChildExit, Dies
  <2>6. QED
    BY <2>1, <2>2, <2>3, <2>4, <2>5
<1>9. QED
  BY <1>1, <1>2, <1>3, <1>4, <1>5, <1>6, <1>7, <1>8 DEF Child

(* So does each step of the destructor. *)
LEMMA DestructorStepLife == LifeInv /\ Destructor => LifeInv'
<1> SUFFICES ASSUME LifeInv, Destructor PROVE LifeInv'
  OBVIOUS
<1> USE DEF LifeInv, TypeOK, ChildInv, PipeInv, TraceInv, CloneInv, Unexecuted, Handshaking,
        Holding, Releasing, Places, ChildPlaces, m_Attached, Alive, params, kernVars,
        pipeVars, ReadFd
<1>1. CASE SendSigstop
  <2>1. CASE m_Attached /\ mState = "running"
    <3>1. StopArrives
      BY <1>1, <2>1 DEF SendSigstop
    <3>2. CASE clone' = "trapped" /\ clone = "running" /\ UNCHANGED <<kern, status, pending>>
      <4>1. TypeOK'
        BY <1>1, <2>1, <3>2 DEF SendSigstop
      <4>2. ChildInv' /\ PipeInv'
        BY <1>1, <2>1, <3>2 DEF SendSigstop
      <4>3. TraceInv'
        BY <1>1, <2>1, <3>2 DEF SendSigstop
      <4>4. CloneInv'
        BY <1>1, <2>1, <3>2 DEF SendSigstop
      <4>5. QED
        BY <4>1, <4>2, <4>3, <4>4
    <3>3. CASE kern = "running" /\ UNCHANGED clone /\ kern' = "stopped" /\ status' = "stop" /\ UNCHANGED pending
      BY <1>1, <2>1, <3>3 DEF SendSigstop
    <3>4. CASE kern # "running" /\ UNCHANGED <<kern, status, clone>> /\ pending' = (kern = "stopped")
      <4>1. pending' \in BOOLEAN
        BY <3>4
      <4>2. QED
        BY <1>1, <2>1, <3>4, <4>1 DEF SendSigstop
    <3>5. QED
      BY <3>1, <3>2, <3>3, <3>4 DEF StopArrives
  <2>2. CASE ~(m_Attached /\ mState = "running")
    BY <1>1, <2>2 DEF SendSigstop
  <2>3. QED
    BY <2>1, <2>2
<1>2. CASE StopWait
  BY <1>2 DEF StopWait, WaitPid, Collect
<1>3. CASE Detach
  <2>1. TypeOK'
    <3>1. status' \in {"none", "stop", "exit"} /\ traced' \in BOOLEAN /\ pending' \in BOOLEAN
      BY <1>3 DEF Detach
    <3>2. QED
      BY <1>3, <3>1 DEF Detach
  <2>2. ChildInv'
    BY <1>3 DEF Detach
  <2>3. PipeInv'
    BY <1>3 DEF Detach
  <2>4. TraceInv'
    BY <1>3 DEF Detach
  <2>5. CloneInv'
    BY <1>3 DEF Detach
  <2>6. QED
    BY <2>1, <2>2, <2>3, <2>4, <2>5
<1>4. CASE SendSigkill
  <2>1. CASE m_Terminate /\ Alive
    BY <1>4, <2>1 DEF SendSigkill, Dies, m_Terminate
  <2>2. CASE ~(m_Terminate /\ Alive)
    BY <1>4, <2>2 DEF SendSigkill, m_Terminate
  <2>3. QED
    BY <2>1, <2>2
<1>5. CASE KillWait
  BY <1>5 DEF KillWait, WaitPid, Collect
<1>6. QED
  BY <1>1, <1>2, <1>3, <1>4, <1>5 DEF Destructor

(* The caller, the waits it makes, and the program itself. *)
OtherStep == User \/ WaitReturns \/ WaitGoesOn \/ WaitThrows \/ Tracee

(* So does each step of the caller and of the program. *)
LEMMA OtherStepLife == LifeInv /\ OtherStep => LifeInv'
<1> SUFFICES ASSUME LifeInv, OtherStep PROVE LifeInv'
  OBVIOUS
<1> USE DEF LifeInv, TypeOK, ChildInv, PipeInv, TraceInv, CloneInv, Unexecuted,
        Handshaking, Holding, Releasing, Places, ChildPlaces, m_Attached, Alive, params,
        kernVars, pipeVars, ReadFd
<1>1. CASE Resume
  BY <1>1 DEF Resume
<1>2. CASE ResumeClone
  BY <1>2 DEF ResumeClone
<1>3. CASE WaitOnSignal
  BY <1>3 DEF WaitOnSignal
<1>4. CASE Destroy
  BY <1>4 DEF Destroy
<1>5. CASE WaitReturns
  <2>1. CASE Collect
    BY <1>5, <2>1 DEF WaitReturns, Collect
  <2>2. CASE ~Collect
    BY <1>5, <2>2 DEF WaitReturns
  <2>3. QED
    BY <2>1, <2>2
<1>6. CASE WaitGoesOn
  BY <1>6 DEF WaitGoesOn
<1>7. CASE WaitThrows
  BY <1>7 DEF WaitThrows
<1>8. CASE ProgramStops
  BY <1>8 DEF ProgramStops
<1>9. CASE ProgramClones
  BY <1>9 DEF ProgramClones, Followed
<1>10. CASE CloneStopsOrExits
  BY <1>10 DEF CloneStopsOrExits
<1>11. CASE ProgramDies
  <2>1. /\ kern' = "zombie" /\ status' = "exit" /\ traced' = FALSE /\ pending' = FALSE
        /\ clone' = "none" \/ (clone' = "zombie" /\ clone # "none")
    BY <1>11 DEF ProgramDies, Dies
  <2>2. TypeOK'
    <3>1. traced' \in BOOLEAN /\ pending' \in BOOLEAN
      BY <2>1
    <3>2. QED
      BY <1>11, <2>1, <3>1 DEF ProgramDies
  <2>3. ChildInv'
    BY <1>11, <2>1 DEF ProgramDies
  <2>4. PipeInv'
    BY <1>11, <2>1 DEF ProgramDies
  <2>5. TraceInv'
    BY <1>11, <2>1 DEF ProgramDies
  <2>6. CloneInv'
    BY <1>11, <2>1 DEF ProgramDies
  <2>7. QED
    BY <2>2, <2>3, <2>4, <2>5, <2>6
<1>12. QED
  BY <1>1, <1>2, <1>3, <1>4, <1>5, <1>6, <1>7, <1>8, <1>9, <1>10, <1>11
     DEF OtherStep, User, Tracee

LEMMA LifeStep == LifeInv /\ [Next]_vars => LifeInv'
<1>1. ASSUME LifeInv, UNCHANGED vars
      PROVE  LifeInv'
  BY <1>1 DEF LifeInv, TypeOK, ChildInv, PipeInv, TraceInv, CloneInv, m_Attached, Alive, vars,
     params, kernVars, pipeVars
<1>2. QED
  BY <1>1, ParentStepLife, ChildStepLife, DestructorStepLife, OtherStepLife
     DEF Next, OtherStep

(* Every state of the launch, the attach and the destructor satisfies it. *)
LEMMA Life == Spec => []LifeInv
BY LifeInit, LifeStep, PTL DEF Spec

(* Type correctness of the handshake and of the kernel's wait statuses: a   *)
(* stop is held only for a stopped tracee, an exit status for a zombie.     *)
THEOREM LifetimeTypes == Spec => []TypeOK
<1>1. LifeInv => TypeOK
  BY DEF LifeInv
<1>2. QED
  BY <1>1, Life, PTL

(* A launch that throws with two ends to its pipe has reaped its child and *)
(* closed them; with one index for both it has left the write end open and  *)
(* the child unwaited for; an attach that throws has let its process go.    *)
THEOREM ThrewClean == Spec => []ThrewMeansClean
<1>1. ASSUME LifeInv, Threw, how = "attach"
      PROVE  ~traced /\ kern # "stopped" /\ fds["parent"] = {}
  BY <1>1 DEF LifeInv, TypeOK, PipeInv, TraceInv, Releasing, Threw
<1>2. ASSUME LifeInv, Threw, how = "launch", writeFd = 1
      PROVE  kern \in {"none", "reaped"} /\ fds["parent"] = {}
  BY <1>2 DEF LifeInv, TypeOK, ChildInv, PipeInv, TraceInv, Threw
<1>3. ASSUME LifeInv, Threw, how = "launch", writeFd = 0, kern # "none"
      PROVE  kern # "reaped" /\ fds["parent"] = {1}
  BY <1>3 DEF LifeInv, TypeOK, ChildInv, PipeInv, Threw
<1>4. LifeInv => ThrewMeansClean
  BY <1>1, <1>2, <1>3 DEF ThrewMeansClean
<1>5. QED
  BY <1>4, Life, PTL

(* When ~process is through, the main thread of an attached process runs    *)
(* untraced, and of a launched program no thread is left, running or to be  *)
(* reaped.                                                                  *)
THEOREM GoneReleased == Spec => []GoneMeansReleased
<1>1. LifeInv => GoneMeansReleased
  BY DEF LifeInv, TypeOK, TraceInv, CloneInv, GoneMeansReleased, Releasing
<1>2. QED
  BY <1>1, Life, PTL

-------------------------------------------------------------------------------
(* The refinement of LifetimeContract.  Its leads-to needs fairness and is *)
(* left to the model checker; what is proved is that no behaviour of the   *)
(* handshake, the waits and the destructor takes a step it forbids.        *)
ContractSafety == Contract!Init /\ [][Contract!Next]_(Contract!vars)

ContractStep == Contract!Next \/ UNCHANGED Contract!vars

LEMMA ContractInit == Init => Contract!Init
BY DEF Init, Contract!Init, Phase, Program, Alive

(* Of launch and attach in the debugger, only the ways out are seen: a process
   is returned for an executed program, or the failed child is gone. *)
LEMMA ParentRefines == LifeInv /\ ParentInLaunch => ContractStep
<1> SUFFICES ASSUME LifeInv, ParentInLaunch PROVE ContractStep
  OBVIOUS
<1> USE DEF LifeInv, TypeOK, ChildInv, PipeInv, TraceInv, CloneInv, Unexecuted, Handshaking,
        Releasing, Places, Alive, params, kernVars, pipeVars, ReadFd, Phase, Program,
        ContractStep, Contract!Next, Contract!vars, Contract!Become
<1>1. CASE Fork
  BY <1>1 DEF Fork
<1>2. CASE PipeOrForkFails
  BY <1>2 DEF PipeOrForkFails, Contract!Throws
<1>3. CASE CloseWrite
  BY <1>3 DEF CloseWrite
<1>4. CASE ReadPipe
  BY <1>4, EndOfFile DEF ReadPipe, Contract!Returns
<1>5. CASE ReadPipeFails
  BY <1>5 DEF ReadPipeFails, ClosePipe, Contract!Throws
<1>6. CASE ReapFailedChild
  BY <1>6 DEF ReapFailedChild, Collect, ClosePipe, Contract!Throws
<1>7. CASE Attach
  BY <1>7 DEF Attach, Contract!Throws
<1>8. CASE FirstWait
  BY <1>8 DEF FirstWait, Collect
<1>9. CASE SetOptions
  BY <1>9 DEF SetOptions, Contract!Returns
<1>10. QED
  BY <1>1, <1>2, <1>3, <1>4, <1>5, <1>6, <1>7, <1>8, <1>9 DEF ParentInLaunch

(* Of the forked child, only exec is seen, and only while launch waits for it. *)
LEMMA ChildRefines == LifeInv /\ Child => ContractStep
<1> SUFFICES ASSUME LifeInv, Child PROVE ContractStep
  OBVIOUS
<1> USE DEF LifeInv, TypeOK, ChildInv, PipeInv, TraceInv, CloneInv, Unexecuted, Handshaking,
        Releasing, Places, Alive, params, kernVars, pipeVars, ReadFd, Phase, Program,
        ContractStep, Contract!Next, Contract!vars, Contract!Become
<1>1. CASE SetPgid
  BY <1>1 DEF SetPgid, ChildStep, ChildCan
<1>2. CASE ChildCloseRead
  BY <1>2 DEF ChildCloseRead, ChildCan
<1>3. CASE ReplaceStdout
  BY <1>3 DEF ReplaceStdout, ChildStep, ChildCan
<1>4. CASE TraceMe
  BY <1>4 DEF TraceMe, ChildCan
<1>5. CASE Exec
  BY <1>5 DEF Exec, ChildCan, Contract!Executed
<1>6. CASE ExecFails
  BY <1>6 DEF ExecFails, ChildCan
<1>7. CASE ReportError
  BY <1>7 DEF ReportError, ChildCan
<1>8. CASE ChildExit
  BY <1>8 DEF ChildExit, Dies
<1>9. QED
  BY <1>1, <1>2, <1>3, <1>4, <1>5, <1>6, <1>7, <1>8 DEF Child

(* Of the destructor, SIGKILL and its return. *)
LEMMA DestructorRefines == LifeInv /\ Destructor => ContractStep
<1> SUFFICES ASSUME LifeInv, Destructor PROVE ContractStep
  OBVIOUS
<1> USE DEF LifeInv, TypeOK, ChildInv, PipeInv, TraceInv, CloneInv, Unexecuted, Handshaking,
        Releasing, Places, Alive, params, kernVars, pipeVars, ReadFd, Phase, Program,
        ContractStep, Contract!Next, Contract!vars, Contract!Become
<1>1. CASE SendSigstop
  BY <1>1 DEF SendSigstop, StopArrives
<1>2. CASE StopWait
  BY <1>2 DEF StopWait, WaitPid, Collect
<1>3. CASE Detach
  BY <1>3 DEF Detach
<1>4. CASE SendSigkill
  <2>1. CASE how = "launch" /\ Alive
    <3>1. Program = "alive" /\ Program' = "dead" /\ Phase' = Phase
      BY <1>4, <2>1 DEF SendSigkill, Dies, m_Terminate
    <3>2. QED
      BY <1>4, <3>1 DEF SendSigkill, Contract!Died
  <2>2. CASE how = "launch" /\ ~Alive
    BY <1>4, <2>2 DEF SendSigkill, m_Terminate
  <2>3. CASE how # "launch"
    BY <1>4, <2>3 DEF SendSigkill, m_Terminate, Contract!Throws, Contract!Ends
  <2>4. QED
    BY <2>1, <2>2, <2>3
<1>5. CASE KillWait
  BY <1>5 DEF KillWait, WaitPid, Collect, Contract!Throws, Contract!Ends
<1>6. QED
  BY <1>1, <1>2, <1>3, <1>4, <1>5 DEF Destructor

(* Of the caller, the destructor's call; of the program, its end. *)
LEMMA OtherRefines == LifeInv /\ OtherStep => ContractStep
<1> SUFFICES ASSUME LifeInv, OtherStep PROVE ContractStep
  OBVIOUS
<1> USE DEF LifeInv, TypeOK, ChildInv, PipeInv, TraceInv, CloneInv, Unexecuted, Handshaking,
        Releasing, Places, Alive, params, kernVars, pipeVars, ReadFd, Phase, Program,
        ContractStep, Contract!Next, Contract!vars, Contract!Become
<1>1. CASE Resume
  BY <1>1 DEF Resume
<1>2. CASE ResumeClone
  BY <1>2 DEF ResumeClone
<1>3. CASE WaitOnSignal
  BY <1>3 DEF WaitOnSignal
<1>4. CASE Destroy
  BY <1>4 DEF Destroy, Contract!LetGo
<1>5. CASE WaitReturns
  BY <1>5 DEF WaitReturns, Collect
<1>6. CASE WaitGoesOn
  BY <1>6 DEF WaitGoesOn
<1>7. CASE WaitThrows
  BY <1>7 DEF WaitThrows
<1>8. CASE ProgramStops
  BY <1>8 DEF ProgramStops
<1>9. CASE ProgramClones
  BY <1>9 DEF ProgramClones
<1>10. CASE CloneStopsOrExits
  BY <1>10 DEF CloneStopsOrExits
<1>11. CASE ProgramDies
  BY <1>11 DEF ProgramDies, Dies, Contract!Died
<1>12. QED
  BY <1>1, <1>2, <1>3, <1>4, <1>5, <1>6, <1>7, <1>8, <1>9, <1>10, <1>11
     DEF OtherStep, User, Tracee

(* The launch handshake, the waits and the destructor implement the safety *)
(* part of the contract: a process is returned only when its program was   *)
(* executed, a failed launch leaves no program running and none starts     *)
(* later, and a launched program does not outlive its process.             *)
THEOREM KeepsContract == Spec => ContractSafety
<1>1. LifeInv /\ [Next]_vars => [Contract!Next]_(Contract!vars)
  <2>1. ASSUME UNCHANGED vars
        PROVE  UNCHANGED Contract!vars
    BY <2>1 DEF vars, params, kernVars, pipeVars, Contract!vars, Phase, Program, Alive
  <2>2. QED
    BY <2>1, ParentRefines, ChildRefines, DestructorRefines, OtherRefines
       DEF Next, OtherStep, ContractStep
<1>2. QED
  BY <1>1, ContractInit, Life, PTL DEF Spec, ContractSafety
===============================================================================
