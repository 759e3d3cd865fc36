---------------------------- MODULE ProcessLifetime ----------------------------
(***************************************************************************)
(* From process::launch or process::attach to process::~process: the       *)
(* debugger and the process it forks, the pipe between them, the kernel's  *)
(* wait statuses, and m_State, the debugger's own idea of the tracee.      *)
(*                                                                         *)
(* PTRACE_O_TRACECLONE makes the threads the program creates tracees too;  *)
(* clone is such a thread, the only one at a time here.  The main thread   *)
(* takes the others with it when it ends, and threads that a process had   *)
(* before it was attached are not traced and not modelled.                 *)
(*                                                                         *)
(* writeFd and tidParsed stand for two places where the source as written  *)
(* cannot work at all; see README, "Reading the source".                   *)
(***************************************************************************)
EXTENDS Integers, FiniteSets

CONSTANTS
  WriteFds,  \* values of pipe::write_fd: 0 as written, 1 repaired
  TidParses  \* whether tid gets waitpid's result: FALSE as written, TRUE repaired

ASSUME LifetimeAssumption == WriteFds \subseteq {0, 1} /\ TidParses \subseteq BOOLEAN

ReadFd == 0

VARIABLES
  how,       \* "launch" or "attach"
  debug,     \* launch's debug argument
  writeFd,   \* pipe::write_fd
  tidParsed, \* wait_on_signal stores waitpid's result in tid
  pc,        \* where the debugger is
  child,     \* where the forked child is, "program" once exec succeeded
  fds,       \* per process, the m_Fds entries that are open (1 is the write end)
  msg,       \* an error message is in the pipe
  got,       \* channel.read() returned bytes
  kern,      \* "none", "running", "stopped", "zombie", "reaped"
  traced,    \* the tracee has a tracer
  status,    \* the wait status the kernel holds: "none", "stop", "exit"
  pending,   \* a SIGSTOP is pending on a tracee that is already stopped
  clone,     \* the cloned thread: "none", "new" (its first stop not waited
             \* for), "running", "trapped" (another stop not waited for),
             \* "stopped" or "zombie"
  mState,    \* m_State
  unwinding  \* the destructor runs because launch or attach is throwing

kernVars == <<kern, traced, status, pending, clone>>
pipeVars == <<fds, msg>>
params == <<how, debug, writeFd, tidParsed>>
vars == <<params, pc, child, pipeVars, got, kernVars, mState, unwinding>>

m_Terminate == how = "launch"
m_Attached == how = "attach" \/ debug

Init ==
  /\ how \in {"launch", "attach"}
  /\ debug \in BOOLEAN
  /\ how = "attach" => debug
  /\ writeFd \in WriteFds
  /\ tidParsed \in TidParses
  /\ pc = how
  /\ child = IF how = "launch" THEN "none" ELSE "program"
  /\ fds = [p \in {"parent", "child"} |-> {}]
  /\ msg = FALSE
  /\ got = FALSE
  /\ kern = IF how = "launch" THEN "none" ELSE "running"
  /\ traced = FALSE
  /\ status = "none"
  /\ pending = FALSE
  /\ clone = "none"
  /\ mState = "stopped"
  /\ unwinding = FALSE

-------------------------------------------------------------------------------
(* The kernel's side of waitpid and of signals. *)

(* waitpid returns: a stop is reported once, a zombie is reaped.  The main *)
(* thread's end is reported only when no other thread is left to reap.     *)
Collect ==
  /\ status # "none"
  /\ status = "exit" => clone = "none"
  /\ status' = "none"
  /\ kern' = IF status = "exit" THEN "reaped" ELSE kern
  /\ UNCHANGED <<traced, pending, clone>>

(* waitpid(m_Pid, &status, 0); with no such child it fails at once. *)
WaitPid ==
  \/ Collect
  \/ kern = "reaped" /\ UNCHANGED kernVars

(* The process ends, its other thread with it. *)
Dies ==
  /\ kern' = "zombie"
  /\ status' = "exit"
  /\ traced' = FALSE
  /\ pending' = FALSE
  /\ clone' = IF clone = "none" THEN "none" ELSE "zombie"

Alive == kern \in {"running", "stopped"}

-------------------------------------------------------------------------------
(* process::launch, the parent. *)

(* pipe channel(true); fork() *)
Fork ==
  /\ pc = "launch"
  /\ pc' = "close_write"
  /\ child' = "setpgid"
  /\ fds' = [p \in {"parent", "child"} |-> {0, 1}]
  /\ kern' = "running"
  /\ UNCHANGED <<params, msg, got, traced, status, pending, clone, mState, unwinding>>

(* The pipe's destructor runs on every way out of launch. *)
ClosePipe == fds' = [fds EXCEPT !["parent"] = @ \ {ReadFd, writeFd}]

PipeOrForkFails ==
  /\ pc = "launch"
  /\ pc' = "threw"
  /\ UNCHANGED <<params, child, pipeVars, got, kernVars, mState, unwinding>>

CloseWrite ==
  /\ pc = "close_write"
  /\ fds' = [fds EXCEPT !["parent"] = @ \ {writeFd}]
  /\ pc' = "read"
  /\ UNCHANGED <<params, child, msg, got, kernVars, mState, unwinding>>

(* Fault variant of ReadPipe: the bytes read are not looked at. *)
ReadPipeUnchecked ==
  /\ pc = "read"
  /\ ReadFd \in fds["parent"]
  /\ msg \/ \A p \in {"parent", "child"} : 1 \notin fds[p]
  /\ fds' = [fds EXCEPT !["parent"] = @ \ {ReadFd}]
  /\ pc' = IF debug THEN "wait" ELSE "ready"
  /\ UNCHANGED <<params, child, msg, got, kernVars, mState, unwinding>>

(* channel.read() blocks until bytes or end of file; close_read() follows. *)
ReadPipe ==
  /\ pc = "read"
  /\ ReadFd \in fds["parent"]
  /\ msg \/ \A p \in {"parent", "child"} : 1 \notin fds[p]
  /\ got' = msg
  /\ msg' = FALSE
  /\ fds' = [fds EXCEPT !["parent"] = @ \ {ReadFd}]
  /\ pc' = IF msg THEN "reap" ELSE IF debug THEN "wait" ELSE "ready"
  /\ UNCHANGED <<params, child, kernVars, mState, unwinding>>

ReadPipeFails ==
  /\ pc = "read"
  /\ ReadFd \notin fds["parent"]
  /\ ClosePipe
  /\ pc' = "threw"
  /\ UNCHANGED <<params, child, msg, got, kernVars, mState, unwinding>>

(* Fault variant of ReapFailedChild: no waitpid before the throw. *)
FailedChildNotReaped ==
  /\ pc = "reap"
  /\ ClosePipe
  /\ pc' = "threw"
  /\ UNCHANGED <<params, child, msg, got, kernVars, mState, unwinding>>

(* The child reported an error: waitpid(pid), then error::send. *)
ReapFailedChild ==
  /\ pc = "reap"
  /\ Collect
  /\ ClosePipe
  /\ pc' = "threw"
  /\ UNCHANGED <<params, child, msg, got, mState, unwinding>>

-------------------------------------------------------------------------------
(* process::launch, the child between fork and exec. *)

ChildCan(from, to) ==
  /\ child = from
  /\ kern = "running"
  /\ child' = to

(* exit_with_perror: the message goes to m_Fds[write_fd].  When that is    *)
(* not the open write end, pipe::write throws out of launch in the child.  *)
ReportError ==
  /\ IF writeFd = 1 /\ 1 \in fds["child"]
     THEN ChildCan("report", "exit") /\ msg' = TRUE
     ELSE ChildCan("report", "escaped") /\ UNCHANGED msg
  /\ UNCHANGED <<params, pc, fds, got, kernVars, mState, unwinding>>

ChildStep(from, to) ==
  /\ ChildCan(from, to) \/ ChildCan(from, "report")
  /\ UNCHANGED <<params, pc, pipeVars, got, kernVars, mState, unwinding>>

SetPgid == ChildStep("setpgid", "close_read")

(* personality() is not checked. *)
ChildCloseRead ==
  /\ ChildCan("close_read", "dup2")
  /\ fds' = [fds EXCEPT !["child"] = @ \ {ReadFd}]
  /\ UNCHANGED <<params, pc, msg, got, kernVars, mState, unwinding>>

ReplaceStdout == ChildStep("dup2", IF debug THEN "traceme" ELSE "exec")

TraceMe ==
  /\ \/ ChildCan("traceme", "exec") /\ traced' = TRUE
     \/ ChildCan("traceme", "report") /\ UNCHANGED traced
  /\ UNCHANGED <<params, pc, pipeVars, got, kern, status, pending, clone, mState,
                 unwinding>>

(* exec succeeds: close-on-exec shuts the pipe, a traced image stops. *)
Exec ==
  /\ ChildCan("exec", "program")
  /\ fds' = [fds EXCEPT !["child"] = {}]
  /\ kern' = IF traced THEN "stopped" ELSE "running"
  /\ status' = IF traced THEN "stop" ELSE "none"
  /\ UNCHANGED <<params, pc, msg, got, traced, pending, clone, mState, unwinding>>

ExecFails ==
  /\ ChildCan("exec", "report")
  /\ UNCHANGED <<params, pc, pipeVars, got, kernVars, mState, unwinding>>

(* exit(-1), or the escaped copy of the debugger coming to its end. *)
ChildExit ==
  /\ child \in {"exit", "escaped"}
  /\ kern = "running"
  /\ Dies
  /\ child' = "dead"
  /\ fds' = [fds EXCEPT !["child"] = {}]
  /\ UNCHANGED <<params, pc, msg, got, mState, unwinding>>

-------------------------------------------------------------------------------
(* process::attach *)

Attach ==
  /\ pc = "attach"
  /\ \/ /\ Alive
        /\ traced' = TRUE
        /\ kern' = "stopped"
        /\ status' = "stop"
        /\ pc' = "wait"
        /\ UNCHANGED <<pending, clone>>
     \/ /\ pc' = "threw"
        /\ UNCHANGED kernVars
  /\ UNCHANGED <<params, child, pipeVars, got, mState, unwinding>>

(* wait_on_signal() inside launch and attach, then set_ptrace_options.     *)
(* With tid lost, handle_signal takes the stop for a new thread 0 and      *)
(* resume(0) throws; the unique_ptr unwinds through ~process.              *)
FirstWait ==
  /\ pc = "wait"
  /\ Collect
  /\ IF tidParsed
     THEN /\ mState' = IF status = "exit" THEN "exited" ELSE mState
          /\ pc' = "options"
          /\ UNCHANGED unwinding
     ELSE /\ pc' = "destroy"
          /\ unwinding' = TRUE
          /\ UNCHANGED mState
  /\ UNCHANGED <<params, child, pipeVars, got>>

(* PTRACE_SETOPTIONS needs a stopped tracee. *)
SetOptions ==
  /\ pc = "options"
  /\ pc' = IF kern = "stopped" THEN "ready" ELSE "destroy"
  /\ unwinding' = (kern # "stopped")
  /\ UNCHANGED <<params, child, pipeVars, got, kernVars, mState>>

-------------------------------------------------------------------------------
(* The process object in use.  Stepping over a breakpoint is part of       *)
(* ThreadControl; what matters here is m_State.  PTRACE_CONT drops a stop  *)
(* nobody has waited for.                                                  *)

Resume ==
  /\ pc = "ready"
  /\ m_Attached
  /\ kern = "stopped"
  /\ kern' = "running"
  /\ status' = "none"
  /\ mState' = "running"
  /\ UNCHANGED <<params, pc, child, pipeVars, got, traced, pending, clone, unwinding>>

(* The same of the other thread, once its first stop put it in m_Threads. *)
ResumeClone ==
  /\ pc = "ready"
  /\ clone \in {"trapped", "stopped"}
  /\ clone' = "running"
  /\ mState' = "running"
  /\ UNCHANGED <<params, pc, child, pipeVars, got, kern, traced, status, pending,
                 unwinding>>

WaitOnSignal ==
  /\ pc = "ready"
  /\ pc' = "waiting"
  /\ UNCHANGED <<params, child, pipeVars, got, kernVars, mState, unwinding>>

(* Fault variant of WaitReturns: m_State takes the raw wait status. *)
WaitStoresStatus ==
  /\ pc = "waiting"
  /\ Collect
  /\ mState' = status
  /\ pc' = "ready"
  /\ UNCHANGED <<params, child, pipeVars, got, unwinding>>

(* m_State is assigned only when the main thread is gone. *)
WaitReturns ==
  /\ pc = "waiting"
  /\ \/ /\ Collect
        /\ mState' = IF status = "exit" /\ tidParsed THEN "exited" ELSE mState
     \/ /\ clone = "trapped"
        /\ clone' = "stopped"
        /\ UNCHANGED <<kern, traced, status, pending, mState>>
  /\ pc' = "ready"
  /\ UNCHANGED <<params, child, pipeVars, got, unwinding>>

(* A stop that handle_signal ignores (a clone event, a new thread's first, *)
(* a breakpoint that restarts): the thread goes on and so does the wait,   *)
(* as it does after the end of a thread other than the main one.           *)
WaitGoesOn ==
  /\ pc = "waiting"
  /\ \/ /\ status = "stop"
        /\ kern' = "running"
        /\ status' = "none"
        /\ mState' = "running"
        /\ UNCHANGED clone
     \/ /\ clone \in {"new", "trapped"}
        /\ clone' = "running"
        /\ mState' = "running"
        /\ UNCHANGED <<kern, status>>
     \/ /\ clone = "zombie"
        /\ clone' = "none"
        /\ UNCHANGED <<kern, status, mState>>
  /\ UNCHANGED <<params, pc, child, pipeVars, got, traced, pending, unwinding>>

(* waitpid fails with ECHILD when there is nothing left to wait for. *)
WaitThrows ==
  /\ pc = "waiting"
  /\ kern = "reaped"
  /\ pc' = "ready"
  /\ UNCHANGED <<params, child, pipeVars, got, kernVars, mState, unwinding>>

-------------------------------------------------------------------------------
(* process::~process *)

Destroy ==
  /\ pc = "ready"
  /\ pc' = "destroy"
  /\ UNCHANGED <<params, child, pipeVars, got, kernVars, mState, unwinding>>

(* Fault variant of SendSigstop: waitpid without looking at m_State. *)
WaitsForStoppedTracee ==
  /\ pc = "destroy"
  /\ pc' = IF m_Attached THEN "stop_wait" ELSE "kill"
  /\ UNCHANGED <<params, child, pipeVars, got, kernVars, mState, unwinding>>

(* kill(m_Pid, SIGSTOP): any thread of the process may take the signal. *)
StopArrives ==
  \/ /\ kern = "running"
     /\ kern' = "stopped" /\ status' = "stop"
     /\ UNCHANGED <<pending, clone>>
  \/ /\ kern # "running"
     /\ pending' = (kern = "stopped")
     /\ UNCHANGED <<kern, status, clone>>
  \/ /\ clone = "running"
     /\ clone' = "trapped"
     /\ UNCHANGED <<kern, status, pending>>

(* if m_Attached and m_State is running: SIGSTOP *)
SendSigstop ==
  /\ pc = "destroy"
  /\ IF m_Attached /\ mState = "running"
     THEN pc' = "stop_wait" /\ StopArrives
     ELSE /\ pc' = IF m_Attached THEN "detach" ELSE "kill"
          /\ UNCHANGED <<kern, status, pending, clone>>
  /\ UNCHANGED <<params, child, pipeVars, got, traced, mState, unwinding>>

StopWait ==
  /\ pc = "stop_wait"
  /\ WaitPid
  /\ pc' = "detach"
  /\ UNCHANGED <<params, child, pipeVars, got, mState, unwinding>>

(* Fault variant of Detach: PTRACE_DETACH left out. *)
DetachForgotten ==
  /\ pc = "detach"
  /\ pc' = "kill"
  /\ UNCHANGED <<params, child, pipeVars, got, kernVars, mState, unwinding>>

(* PTRACE_DETACH delivers a pending SIGSTOP; kill(SIGCONT) undoes it.      *)
(* Only the main thread is detached.                                       *)
Detach ==
  /\ pc = "detach"
  /\ IF kern = "stopped" THEN kern' = "running" /\ traced' = FALSE
                         ELSE UNCHANGED <<kern, traced>>
  /\ pending' = FALSE
  /\ status' = IF status = "stop" THEN "none" ELSE status
  /\ pc' = "kill"
  /\ UNCHANGED <<params, child, pipeVars, got, clone, mState, unwinding>>

SendSigkill ==
  /\ pc = "kill"
  /\ IF m_Terminate /\ Alive THEN Dies ELSE UNCHANGED kernVars
  /\ pc' = IF m_Terminate THEN "kill_wait" ELSE "gone"
  /\ UNCHANGED <<params, child, pipeVars, got, mState, unwinding>>

KillWait ==
  /\ pc = "kill_wait"
  /\ WaitPid
  /\ pc' = "gone"
  /\ UNCHANGED <<params, child, pipeVars, got, mState, unwinding>>

-------------------------------------------------------------------------------
(* The tracee and the rest of the machine. *)

ProgramStops ==
  /\ child = "program" /\ kern = "running" /\ traced
  /\ kern' = "stopped"
  /\ status' = "stop"
  /\ UNCHANGED <<params, pc, child, pipeVars, got, traced, pending, clone, mState,
                 unwinding>>

(* PTRACE_O_TRACECLONE is set. *)
Followed ==
  traced /\ ~unwinding /\ pc \in {"ready", "waiting", "destroy", "stop_wait", "detach"}

(* The program creates a thread: both threads stop, the new one traced. *)
ProgramClones ==
  /\ child = "program" /\ kern = "running" /\ Followed
  /\ clone = "none"
  /\ clone' = "new"
  /\ kern' = "stopped"
  /\ status' = "stop"
  /\ UNCHANGED <<params, pc, child, pipeVars, got, traced, pending, mState,
                 unwinding>>

CloneStopsOrExits ==
  /\ clone = "running"
  /\ clone' \in {"trapped", "zombie"}
  /\ UNCHANGED <<params, pc, child, pipeVars, got, kern, traced, status, pending,
                 mState, unwinding>>

(* The program exits or is killed from outside. *)
ProgramDies ==
  /\ child = "program" /\ Alive
  /\ Dies
  /\ UNCHANGED <<params, pc, child, pipeVars, got, mState, unwinding>>

ParentInLaunch ==
  \/ Fork \/ PipeOrForkFails \/ CloseWrite \/ ReadPipe \/ ReadPipeFails
  \/ ReapFailedChild \/ Attach \/ FirstWait \/ SetOptions

Child ==
  \/ SetPgid \/ ChildCloseRead \/ ReplaceStdout \/ TraceMe \/ Exec \/ ExecFails
  \/ ReportError \/ ChildExit

Destructor == SendSigstop \/ StopWait \/ Detach \/ SendSigkill \/ KillWait

User == Resume \/ ResumeClone \/ WaitOnSignal \/ Destroy

Tracee == ProgramStops \/ ProgramClones \/ CloneStopsOrExits \/ ProgramDies

Next ==
  \/ ParentInLaunch \/ Child \/ Destructor
  \/ User \/ WaitReturns \/ WaitGoesOn \/ WaitThrows
  \/ Tracee

(* The scheduler runs the debugger and the forked child; nothing makes the *)
(* program stop or exit, and nothing makes the user act.                   *)
Fairness == WF_vars(ParentInLaunch) /\ WF_vars(Child) /\ WF_vars(Destructor)

Spec == Init /\ [][Next]_vars /\ Fairness

-------------------------------------------------------------------------------
(* Properties. *)

Places ==
  {"launch", "attach", "close_write", "read", "reap", "wait", "options", "ready",
   "waiting", "destroy", "stop_wait", "detach", "kill", "kill_wait", "gone", "threw"}

ChildPlaces ==
  {"none", "setpgid", "close_read", "dup2", "traceme", "exec", "report", "exit",
   "escaped", "dead", "program"}

(* Type correctness of the launch handshake and the kernel's bookkeeping;  *)
(* a stop status is held only for a stopped tracee, an exit status for a   *)
(* zombie.                                                                 *)
TypeOK ==
  /\ how \in {"launch", "attach"}
  /\ debug \in BOOLEAN
  /\ writeFd \in {0, 1}
  /\ tidParsed \in BOOLEAN
  /\ pc \in Places
  /\ child \in ChildPlaces
  /\ fds \in [{"parent", "child"} -> SUBSET {0, 1}]
  /\ msg \in BOOLEAN
  /\ got \in BOOLEAN
  /\ kern \in {"none", "running", "stopped", "zombie", "reaped"}
  /\ traced \in BOOLEAN
  /\ status \in {"none", "stop", "exit"}
  /\ pending \in BOOLEAN
  /\ clone \in {"none", "new", "running", "trapped", "stopped", "zombie"}
  /\ mState \in {"stopped", "running", "exited"}
  /\ unwinding \in BOOLEAN
  /\ status = "stop" => kern = "stopped"
  /\ status = "exit" <=> kern = "zombie"
  /\ kern = "stopped" => traced

(* The contract's view of the debugger and of the program.  An unwinding   *)
(* destructor still belongs to the launch or attach that throws.           *)
Phase ==
  CASE pc \in {"ready", "waiting"} -> "usable"
    [] pc = "threw" -> "failed"
    [] pc = "gone" -> IF unwinding THEN "failed" ELSE "ended"
    [] pc \in {"destroy", "stop_wait", "detach", "kill", "kill_wait"} ->
         IF unwinding THEN "starting" ELSE "ending"
    [] OTHER -> "starting"

Program ==
  IF child # "program" THEN "absent" ELSE IF Alive THEN "alive" ELSE "dead"

Contract ==
  INSTANCE LifetimeContract
    WITH owned <- (how = "launch"), reports <- (writeFd = 1),
         phase <- Phase, program <- Program

(* The handshake, the waits and the destructor keep the contract: launch   *)
(* and attach always come back, a process is returned only when its        *)
(* program was executed, a failed launch leaves no program running and     *)
(* none starts later, and a launched program does not outlive its process. *)
ImplementsContract == Contract!Spec

Threw == pc = "threw" \/ (pc = "gone" /\ unwinding)

(* A launch or attach that throws leaves nothing behind: a forked child is *)
(* reaped and both ends of the pipe are closed in the debugger, a process  *)
(* that was to be attached runs untraced if it is alive.  With tid lost    *)
(* this is the unwinding destructor's doing.  With both indices of the     *)
(* pipe 0 it does not hold, and the last conjunct says what is left: the   *)
(* write end stays open, and nobody waits for the child.                   *)
ThrewMeansClean ==
  Threw =>
    /\ how = "attach" => ~traced /\ kern # "stopped" /\ fds["parent"] = {}
    /\ how = "launch" /\ writeFd = 1 =>
         kern \in {"none", "reaped"} /\ fds["parent"] = {}
    /\ how = "launch" /\ writeFd = 0 /\ kern # "none" =>
         kern # "reaped" /\ fds["parent"] = {1}

(* The destructor finds the tracee already stopped, its stop already       *)
(* collected, while m_State still says running.                            *)
StaleRunning ==
  m_Attached /\ mState = "running" /\ kern = "stopped" /\ status = "none"

(* A cloned thread is in the way of the destructor's waitpid(m_Pid): the   *)
(* thread took the SIGSTOP, or is the zombie that nobody waits for.        *)
HeldByClone ==
  \/ pc = "stop_wait" /\ kern = "running" /\ clone # "none"
  \/ pc \in {"stop_wait", "kill_wait"} /\ kern = "zombie" /\ clone = "zombie"

(* The destructor returns, unless m_State is stale when it starts or a     *)
(* thread cloned under PTRACE_O_TRACECLONE holds it up: there is no other  *)
(* way for it to block (process.cpp:261 and 270).                          *)
DestructorReturns ==
  (pc = "destroy" /\ ~StaleRunning) ~> (pc = "gone" \/ HeldByClone)

(* When the destructor has returned, the main thread of an attached        *)
(* process is left running and untraced, and of a launched program no      *)
(* thread is left, running or zombie (DETACH, SIGCONT and SIGKILL in       *)
(* ~process).  An attached process that has no cloned thread is thereby    *)
(* released; a cloned thread is not detached and stays as it is, traced    *)
(* and maybe stopped.                                                      *)
GoneMeansReleased ==
  pc = "gone" =>
    /\ ~traced
    /\ how = "launch" => kern = "reaped" /\ clone = "none"
    /\ how = "attach" => kern # "stopped"

(* tests.cpp "Read register works" resumes, waits for the stop and lets the *)
(* process go out of scope: the destructor of a process without a second    *)
(* thread has to return.                                                    *)
DestructorAlwaysReturns == (pc = "destroy") ~> (pc = "gone" \/ HeldByClone)
===============================================================================
