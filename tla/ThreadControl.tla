----------------------------- MODULE ThreadControl -----------------------------
(***************************************************************************)
(* One traced process with several threads: the kernel's ptrace stops and  *)
(* wait statuses, m_Threads with the registers it caches, one enabled      *)
(* software breakpoint site that all threads run through, and the          *)
(* operations of process that start, stop and wait for threads.  The       *)
(* debugger is sequential; the threads and the kernel run between any two  *)
(* of its ptrace and waitpid calls.                                        *)
(***************************************************************************)
EXTENDS Integers, Sequences, FiniteSets

CONSTANTS
  Tids,      \* every thread the program ever has
  Main,      \* m_Pid
  Code,      \* the program: "op", "site", "clone", "raise" and "exit" instructions
  Entry,     \* where each thread starts in it
  Pokes,     \* who may get a register write: "pid" as written, "tid" repaired
  Clients    \* "as_is": resume_all_threads and wait_on_signal, as the command
             \* line and the tests call them; "stopping": the same, with
             \* stop_running_threads and cleanup_exited_threads in between

ASSUME ThreadAssumption ==
  /\ Main \in Tids
  /\ Code \in Seq({"op", "site", "clone", "raise", "exit"})
  /\ Entry \in [Tids -> DOMAIN Code]
  /\ Code[Len(Code)] = "exit"
  /\ Pokes \subseteq {"pid", "tid"}
  /\ Clients \subseteq {"as_is", "stopping"}

VARIABLES
  \* fixed by Init
  client,   \* the client
  poke,     \* who gets a register write
  \* the kernel
  kern,     \* "absent", "running", "stopped", "zombie" or "reaped"
  cause,    \* why it stopped: "none", "clone", "sigstop", "trap", "step", "signal", "exit"
  fresh,    \* waitpid has not returned this stop or exit yet
  sigq,     \* a SIGSTOP is queued
  rip,      \* the thread's program counter, an index into Code
  stepping, \* resumed by PTRACE_SINGLESTEP
  \* the debugger
  threads,  \* keys of m_Threads
  state,    \* thread_state::state
  pend,     \* thread_state::pending_sigstop
  cpc,      \* the cached rip, 0 until registers were read
  siteOn,   \* the site's m_isEnabled, and whether int3 is in memory
  tracked,  \* keys of target::m_Threads
  \* control
  pc,       \* where the debugger is
  tid,      \* the thread it works on
  todo,     \* threads a loop has still to visit
  back,     \* where to go on after a step over the site
  turn,     \* the client's next call
  stopTid,  \* the thread of the last reported stop
  threw,    \* the call of the client that threw last, "none" since the next one began
  \* history
  over,     \* site instructions stepped over, per thread
  passed,   \* site instructions executed, per thread
  window    \* step_over_breakpoint was entered for a Stale thread

kernVars == <<kern, cause, fresh, sigq, rip, stepping>>
bookVars == <<threads, state, pend, cpc, tracked>>
ctlVars == <<pc, tid, todo, back, turn, stopTid, threw>>
params == <<client, poke>>
histVars == <<over, passed, window, params>>
vars == <<kernVars, bookVars, siteOn, ctlVars, histVars>>

At(p) == IF p \in DOMAIN Code THEN Code[p] ELSE "none"
Running == {t \in Tids : kern[t] = "running"}
Gone(t) == kern[t] \in {"zombie", "reaped"}

(* After launch: the main thread stopped at its first instruction. *)
Init ==
  /\ client \in Clients
  /\ poke \in Pokes
  /\ kern = [t \in Tids |-> IF t = Main THEN "stopped" ELSE "absent"]
  /\ cause = [t \in Tids |-> IF t = Main THEN "signal" ELSE "none"]
  /\ fresh = [t \in Tids |-> FALSE]
  /\ sigq = [t \in Tids |-> FALSE]
  /\ rip = Entry
  /\ stepping = [t \in Tids |-> FALSE]
  /\ threads = {Main}
  /\ state = [t \in Tids |-> "stopped"]
  /\ pend = [t \in Tids |-> FALSE]
  /\ cpc = [t \in Tids |-> IF t = Main THEN Entry[t] ELSE 0]
  /\ siteOn = TRUE
  /\ tracked = {Main}
  /\ pc = "idle"
  /\ tid = Main
  /\ todo = {}
  /\ back = "idle"
  /\ turn = "resume"
  /\ stopTid = Main
  /\ threw = "none"
  /\ over = [t \in Tids |-> {}]
  /\ passed = [t \in Tids |-> {}]
  /\ window = FALSE

-------------------------------------------------------------------------------
(* The kernel and the threads. *)

StopFor(t, why) ==
  /\ kern' = [kern EXCEPT ![t] = "stopped"]
  /\ cause' = [cause EXCEPT ![t] = why]
  /\ fresh' = [fresh EXCEPT ![t] = TRUE]
  /\ stepping' = [stepping EXCEPT ![t] = FALSE]

(* A queued SIGSTOP is delivered before the thread runs on. *)
DeliverSigstop(t) ==
  /\ kern[t] = "running"
  /\ sigq[t]
  /\ sigq' = [sigq EXCEPT ![t] = FALSE]
  /\ StopFor(t, "sigstop")
  /\ UNCHANGED <<rip, bookVars, siteOn, ctlVars, histVars>>

CanExecute(t) == kern[t] = "running" /\ ~sigq[t]

(* int3 in memory: the trap leaves rip behind it. *)
HitTrap(t) ==
  /\ CanExecute(t)
  /\ At(rip[t]) = "site"
  /\ siteOn
  /\ rip' = [rip EXCEPT ![t] = @ + 1]
  /\ StopFor(t, "trap")
  /\ UNCHANGED <<sigq, bookVars, siteOn, ctlVars, histVars>>

(* Any other instruction; a single-stepped thread stops behind it. *)
Execute(t) ==
  /\ CanExecute(t)
  /\ \/ At(rip[t]) = "op"
     \/ At(rip[t]) = "site" /\ ~siteOn
  /\ rip' = [rip EXCEPT ![t] = @ + 1]
  /\ passed' = IF At(rip[t]) = "site"
               THEN [passed EXCEPT ![t] = @ \union {rip[t]}] ELSE passed
  /\ IF stepping[t] THEN StopFor(t, "step")
                    ELSE UNCHANGED <<kern, cause, fresh, stepping>>
  /\ UNCHANGED <<sigq, bookVars, siteOn, ctlVars, over, window, params>>

Raise(t) ==
  /\ CanExecute(t)
  /\ At(rip[t]) = "raise"
  /\ rip' = [rip EXCEPT ![t] = @ + 1]
  /\ StopFor(t, "signal")
  /\ UNCHANGED <<sigq, bookVars, siteOn, ctlVars, histVars>>

(* PTRACE_O_TRACECLONE: the cloner stops, the new thread starts stopped. *)
Clone(t, new) ==
  /\ CanExecute(t)
  /\ At(rip[t]) = "clone"
  /\ kern[new] = "absent"
  /\ rip' = [rip EXCEPT ![t] = @ + 1]
  /\ kern' = [kern EXCEPT ![t] = "stopped", ![new] = "stopped"]
  /\ cause' = [cause EXCEPT ![t] = "clone", ![new] = "sigstop"]
  /\ fresh' = [fresh EXCEPT ![t] = TRUE, ![new] = TRUE]
  /\ stepping' = [stepping EXCEPT ![t] = FALSE]
  /\ UNCHANGED <<sigq, bookVars, siteOn, ctlVars, histVars>>

(* The main thread joins the others before it exits.  The end of a program *)
(* with threads alive, by exit_group or SIGKILL, is not modelled.          *)
Exit(t) ==
  /\ CanExecute(t)
  /\ At(rip[t]) = "exit"
  /\ t = Main => \A u \in Tids \ {Main} : kern[u] \in {"absent", "zombie", "reaped"}
  /\ kern' = [kern EXCEPT ![t] = "zombie"]
  /\ cause' = [cause EXCEPT ![t] = "exit"]
  /\ fresh' = [fresh EXCEPT ![t] = TRUE]
  /\ stepping' = [stepping EXCEPT ![t] = FALSE]
  /\ UNCHANGED <<sigq, rip, bookVars, siteOn, ctlVars, histVars>>

ThreadStep(t) ==
  \/ DeliverSigstop(t) \/ HitTrap(t) \/ Execute(t) \/ Raise(t) \/ Exit(t)
  \/ \E new \in Tids : Clone(t, new)

(* The exit of the main thread is reported only once the other threads have *)
(* been waited for.                                                        *)
Reportable(t) ==
  t = Main /\ kern[t] = "zombie" =>
    \A u \in Tids \ {Main} : kern[u] \in {"absent", "reaped"}

(* waitpid(t): the status is taken, a zombie disappears. *)
Collected(t) ==
  /\ fresh[t]
  /\ Reportable(t)
  /\ fresh' = [fresh EXCEPT ![t] = FALSE]
  /\ kern' = IF kern[t] = "zombie" THEN [kern EXCEPT ![t] = "reaped"] ELSE kern

(* PTRACE_CONT or PTRACE_SINGLESTEP on a stopped thread. *)
Restarted(t, step) ==
  /\ kern' = [kern EXCEPT ![t] = "running"]
  /\ cause' = [cause EXCEPT ![t] = "none"]
  /\ fresh' = [fresh EXCEPT ![t] = FALSE]
  /\ stepping' = [stepping EXCEPT ![t] = step]

-------------------------------------------------------------------------------
(* An exception leaves the call; what was done so far stays, and the       *)
(* client starts over with its next command.                               *)
Throws ==
  /\ pc' = "idle"
  /\ threw' = turn
  /\ turn' = "resume"
  /\ UNCHANGED <<tid, todo, back, stopTid>>

Goto(place, t, rest) ==
  /\ pc' = place
  /\ tid' = t
  /\ todo' = rest

(* process::step_over_breakpoint(t), reached from the loop at `from`:      *)
(* nothing to do unless the cached rip is at the enabled site.             *)
NeedsStepOver(t) == siteOn /\ At(cpc[t]) = "site"

(* breakpoint_site::enable and disable peek and poke through m_Pid. *)
MemoryReachable == kern[Main] = "stopped"

(* What the debugger believes of t when it steps t over the site is out of *)
(* date: with no SIGSTOP behind pending_sigstop the swallow lets t run     *)
(* freely past the disabled site; with a cached rip that t has left, t     *)
(* steps over some other instruction.                                      *)
Stale(t) == (pend[t] /\ ~sigq[t]) \/ cpc[t] # rip[t]

(* bp.disable(), and the PTRACE_CONT of swallow_pending_sigstop. *)
BeginStepOver(t, from, rest) ==
  /\ NeedsStepOver(t)
  /\ MemoryReachable
  /\ siteOn' = FALSE
  /\ IF pend[t]
     THEN /\ Goto("swallow", t, rest)
          /\ IF kern[t] = "stopped" THEN Restarted(t, FALSE)
             ELSE UNCHANGED <<kern, cause, fresh, stepping>>
     ELSE /\ Goto("step", t, rest)
          /\ UNCHANGED <<kern, cause, fresh, stepping>>
  /\ back' = from
  /\ over' = [over EXCEPT ![t] = @ \union {cpc[t]}]
  /\ window' = (window \/ Stale(t))
  /\ UNCHANGED <<sigq, rip, bookVars, turn, stopTid, threw, passed, params>>

DisableFails(t) ==
  /\ NeedsStepOver(t)
  /\ ~MemoryReachable
  /\ Throws
  /\ window' = (window \/ Stale(t))
  /\ UNCHANGED <<kernVars, bookVars, siteOn, over, passed, params>>

(* The waitpid of swallow_pending_sigstop; its status is not looked at. *)
Swallow ==
  /\ pc = "swallow"
  /\ Collected(tid)
  /\ pend' = [pend EXCEPT ![tid] = FALSE]
  /\ pc' = "step"
  /\ UNCHANGED <<cause, sigq, rip, stepping, threads, state, cpc, tracked, siteOn,
                 tid, todo, back, stopTid, turn, threw, histVars>>

SingleStep ==
  /\ pc = "step"
  /\ IF kern[tid] = "stopped"
     THEN /\ Restarted(tid, TRUE)
          /\ pc' = "stepped"
          /\ UNCHANGED <<tid, todo, back, stopTid, turn, threw>>
     ELSE /\ Throws
          /\ UNCHANGED <<kern, cause, fresh, stepping>>
  /\ UNCHANGED <<sigq, rip, bookVars, siteOn, histVars>>

(* Fault variant of SiteAfterStep: no bp.enable(). *)
SiteAfterStepOmitted == FALSE

(* What bp.enable() leaves after the step. *)
SiteAfterStep == MemoryReachable

(* waitpid(tid), status not looked at, then bp.enable(). *)
EndStepOver ==
  /\ pc = "stepped"
  /\ Collected(tid)
  /\ siteOn' = SiteAfterStep
  /\ \/ MemoryReachable /\ pc' = back /\ UNCHANGED <<tid, todo, back, stopTid, turn, threw>>
     \/ ~MemoryReachable /\ Throws
  /\ UNCHANGED <<cause, sigq, rip, stepping, bookVars, histVars>>

-------------------------------------------------------------------------------
(* process::resume_all_threads *)

ResumeAll ==
  /\ pc = "idle" /\ turn = "resume"
  /\ Goto("over", tid, threads)
  /\ threw' = "none"
  /\ UNCHANGED <<kernVars, bookVars, siteOn, back, stopTid, turn, histVars>>

OverNext(t) ==
  /\ pc = "over"
  /\ t \in todo
  /\ \/ BeginStepOver(t, "over", todo \ {t})
     \/ DisableFails(t)
     \/ /\ ~NeedsStepOver(t)
        /\ Goto("over", t, todo \ {t})
        /\ UNCHANGED <<kernVars, bookVars, siteOn, back, stopTid, turn, threw, histVars>>

OverDone ==
  /\ pc = "over"
  /\ todo = {}
  /\ Goto("continue", tid, threads)
  /\ UNCHANGED <<kernVars, bookVars, siteOn, back, stopTid, turn, threw, histVars>>

(* Fault variant of Continued: the thread's state is not updated. *)
ContinuedStateKept(t) ==
  /\ kern[t] = "stopped"
  /\ Restarted(t, FALSE)
  /\ UNCHANGED <<sigq, rip, threads, state, pend, cpc, tracked, siteOn, histVars>>

(* process::send_continue *)
Continued(t) ==
  /\ kern[t] = "stopped"
  /\ Restarted(t, FALSE)
  /\ state' = [state EXCEPT ![t] = "running"]
  /\ UNCHANGED <<sigq, rip, threads, pend, cpc, tracked, siteOn, histVars>>

ContinueFails(t) ==
  /\ kern[t] # "stopped"
  /\ Throws
  /\ UNCHANGED <<kernVars, bookVars, siteOn, histVars>>

ContinueNext(t) ==
  /\ pc = "continue"
  /\ t \in todo
  /\ \/ Continued(t) /\ Goto("continue", t, todo \ {t}) /\ UNCHANGED <<back, stopTid, turn, threw>>
     \/ ContinueFails(t)

ContinueDone ==
  /\ pc = "continue"
  /\ todo = {}
  /\ pc' = "idle"
  /\ turn' = "wait"
  /\ UNCHANGED <<kernVars, bookVars, siteOn, tid, todo, back, stopTid, threw, histVars>>

-------------------------------------------------------------------------------
(* process::handle_signal.  Its outcome for the stop of t: *)

IsSiteTrap(t) == cause[t] = "trap" /\ siteOn /\ At(rip[t] - 1) = "site"

(* The thread whose rip set_pc(_, t) changes; PTRACE_POKEUSER needs it stopped. *)
Poked(t) == IF poke = "tid" THEN t ELSE Main
PokeFails(t) == IsSiteTrap(t) /\ kern[Poked(t)] # "stopped"

(* Fault variants of ReadRegisters: no set_pc, and set_pc one byte too far. *)
ReadRegistersNoSetPc(t) ==
  /\ cpc' = [cpc EXCEPT ![t] = rip[t]]
  /\ UNCHANGED rip

ReadRegistersRewindsTwice(t) ==
  LET to == IF IsSiteTrap(t) THEN rip[t] - 2 ELSE rip[t]
  IN /\ rip' = IF to # rip[t] THEN [rip EXCEPT ![t] = to] ELSE rip
     /\ cpc' = [cpc EXCEPT ![t] = to]

(* read_all_registers, set_pc on a breakpoint. *)
ReadRegisters(t) ==
  IF IsSiteTrap(t)
  THEN /\ rip' = IF PokeFails(t) THEN rip ELSE [rip EXCEPT ![Poked(t)] = rip[t] - 1]
       /\ cpc' = [cpc EXCEPT ![t] = rip[t] - 1]
  ELSE /\ cpc' = [cpc EXCEPT ![t] = rip[t]]
       /\ UNCHANGED rip

(* It returns nullopt on a main stop and the thread is resumed: a clone    *)
(* event, the first stop of a new thread, an expected SIGSTOP.  Registers  *)
(* are not read, and pending_sigstop is not cleared.                       *)
Ignored(t) ==
  \/ cause[t] = "clone"
  \/ t \notin threads
  \/ pend[t] /\ cause[t] = "sigstop"

-------------------------------------------------------------------------------
(* process::wait_on_signal(-1) *)

WaitOnSignal ==
  /\ pc = "idle" /\ turn = "wait"
  /\ pc' = "wait"
  /\ threw' = "none"
  /\ UNCHANGED <<kernVars, bookVars, siteOn, tid, todo, back, stopTid, turn, histVars>>

AfterWait == IF client = "stopping" THEN "stop" ELSE "resume"

(* handle_signal gave nullopt: resume(t), then wait again. *)
WaitIgnores(t) ==
  /\ pc = "wait"
  /\ kern[t] = "stopped" /\ Ignored(t)
  /\ Collected(t)
  /\ threads' = threads \union {t}
  /\ tracked' = tracked \union (IF t \in threads THEN {} ELSE {t})
  /\ Goto("resume", t, todo)
  /\ UNCHANGED <<cause, sigq, rip, stepping, state, pend, cpc, siteOn, back, stopTid, turn,
                 threw, histVars>>

ResumeOver ==
  /\ pc = "resume"
  /\ BeginStepOver(tid, "resume_continue", todo) \/ DisableFails(tid)

ResumeContinue ==
  /\ \/ pc = "resume" /\ ~NeedsStepOver(tid)
     \/ pc = "resume_continue"
  /\ \/ Continued(tid) /\ pc' = "wait" /\ UNCHANGED <<tid, todo, back, stopTid, turn, threw>>
     \/ ContinueFails(tid)

(* A stop handed to the caller. *)
WaitReports(t) ==
  /\ pc = "wait"
  /\ kern[t] = "stopped" /\ ~Ignored(t) /\ ~PokeFails(t)
  /\ Collected(t)
  /\ ReadRegisters(t)
  /\ state' = [state EXCEPT ![t] = "stopped"]
  /\ pc' = "idle"
  /\ tid' = t
  /\ stopTid' = t
  /\ turn' = AfterWait
  /\ UNCHANGED <<cause, sigq, stepping, threads, pend, tracked, siteOn, todo, back,
                 threw, histVars>>

(* set_pc throws out of handle_signal: the stop is collected, not recorded. *)
WaitPokeFails(t) ==
  /\ pc = "wait"
  /\ kern[t] = "stopped" /\ ~Ignored(t) /\ PokeFails(t)
  /\ Collected(t)
  /\ ReadRegisters(t)
  /\ Throws
  /\ UNCHANGED <<cause, sigq, stepping, threads, state, pend, tracked, siteOn, histVars>>

(* A thread is gone: the lifecycle event, and for any thread but the main  *)
(* one another wait.  m_Threads keeps the thread.                          *)
WaitSeesExit(t) ==
  /\ pc = "wait"
  /\ kern[t] = "zombie"
  /\ Collected(t)
  /\ state' = [state EXCEPT ![t] = "exited"]
  /\ tracked' = tracked \ {t}
  /\ IF t = Main THEN pc' = "idle" /\ turn' = "done"
                 ELSE UNCHANGED <<pc, turn, stopTid>>
  /\ tid' = t
  /\ UNCHANGED <<cause, sigq, rip, stepping, threads, pend, cpc, siteOn, todo, back, stopTid,
                 threw, histVars>>

-------------------------------------------------------------------------------
(* process::stop_running_threads *)

StopRunning ==
  /\ pc = "idle" /\ turn = "stop"
  /\ Goto("stop", tid, {t \in threads : state[t] = "running"})
  /\ threw' = "none"
  /\ UNCHANGED <<kernVars, bookVars, siteOn, back, stopTid, turn, histVars>>

(* Fault variant of StopNext: pending_sigstop tested the wrong way round. *)
StopNextInverted(t) ==
  /\ pc = "stop"
  /\ t \in todo
  /\ sigq' = [sigq EXCEPT ![t] = @ \/ (pend[t] /\ kern[t] \in {"running", "stopped"})]
  /\ Goto("stop_wait", t, todo \ {t})
  /\ UNCHANGED <<kern, cause, fresh, rip, stepping, bookVars, siteOn, back, stopTid, turn, threw,
                 histVars>>

(* tgkill unless a SIGSTOP is believed to be on its way. *)
StopNext(t) ==
  /\ pc = "stop"
  /\ t \in todo
  /\ sigq' = [sigq EXCEPT ![t] = @ \/ (~pend[t] /\ kern[t] \in {"running", "stopped"})]
  /\ Goto("stop_wait", t, todo \ {t})
  /\ UNCHANGED <<kern, cause, fresh, rip, stepping, bookVars, siteOn, back, stopTid, turn, threw,
                 histVars>>

(* Fault variant of PendAfter: a SIGSTOP that is still to come is forgotten. *)
PendAfterCleared == FALSE

(* pending_sigstop after the stop or exit just collected. *)
PendAfter == IF Gone(tid) THEN pend[tid] ELSE cause[tid] # "sigstop"

(* waitpid(tid), then handle_signal(reason, false). *)
StopCollects ==
  /\ pc = "stop_wait"
  /\ Collected(tid)
  /\ pend' = [pend EXCEPT ![tid] = PendAfter]
  /\ IF Gone(tid) THEN UNCHANGED <<rip, cpc>> ELSE ReadRegisters(tid)
  /\ \/ /\ ~Gone(tid) /\ PokeFails(tid)
        /\ Throws
        /\ UNCHANGED state
     \/ /\ Gone(tid) \/ ~PokeFails(tid)
        /\ state' = [state EXCEPT ![tid] = IF Gone(tid) THEN "exited" ELSE "stopped"]
        /\ pc' = "stop"
        /\ UNCHANGED <<tid, todo, back, stopTid, turn, threw>>
  /\ UNCHANGED <<cause, sigq, stepping, threads, tracked, siteOn, histVars>>

StopDone ==
  /\ pc = "stop"
  /\ todo = {}
  /\ pc' = "idle"
  /\ turn' = "cleanup"
  /\ UNCHANGED <<kernVars, bookVars, siteOn, tid, todo, back, stopTid, threw, histVars>>

(* Fault variants of Cleanup: exited threads kept, and live ones dropped. *)
CleanupKeepsExited(main_stop) ==
  /\ pc = "idle" /\ turn = "cleanup"
  /\ turn' = IF state[Main] = "exited" THEN "done" ELSE "resume"
  /\ UNCHANGED <<kernVars, bookVars, siteOn, pc, tid, todo, back, stopTid, threw, histVars>>

CleanupDropsStopped(main_stop) ==
  /\ pc = "idle" /\ turn = "cleanup"
  /\ threads' = {main_stop}
  /\ turn' = IF Main # main_stop THEN "done" ELSE "resume"
  /\ UNCHANGED <<kernVars, state, pend, cpc, tracked, siteOn, pc, tid, todo, back, stopTid,
                 threw, histVars>>

(* process::cleanup_exited_threads, given the thread that stopped. *)
Cleanup(main_stop) ==
  /\ pc = "idle" /\ turn = "cleanup"
  /\ threads' = {t \in threads : t = main_stop \/ state[t] # "exited"}
  /\ turn' = IF Main \in threads \ threads' THEN "done" ELSE "resume"
  /\ UNCHANGED <<kernVars, state, pend, cpc, tracked, siteOn, pc, tid, todo, back, stopTid,
                 threw, histVars>>

-------------------------------------------------------------------------------

Debugger ==
  \/ ResumeAll \/ OverDone \/ ContinueDone
  \/ Swallow \/ SingleStep \/ EndStepOver
  \/ WaitOnSignal \/ ResumeOver \/ ResumeContinue
  \/ StopRunning \/ StopDone
  \/ StopCollects
  \/ \E t \in Tids :
       \/ OverNext(t) \/ ContinueNext(t)
       \/ WaitIgnores(t) \/ WaitReports(t) \/ WaitPokeFails(t)
       \/ WaitSeesExit(t)
       \/ StopNext(t)
  \/ Cleanup(stopTid)

Next == Debugger \/ \E t \in Tids : ThreadStep(t)

(* The debugger runs; a queued SIGSTOP is delivered; a single step ends.    *)
(* Nothing makes the program itself advance: its threads may block.         *)
Fairness ==
  /\ WF_vars(Debugger)
  /\ \A t \in Tids :
       /\ WF_vars(DeliverSigstop(t))
       /\ WF_vars(stepping[t] /\ ThreadStep(t))

Spec == Init /\ [][Next]_vars /\ Fairness

-------------------------------------------------------------------------------
(* Properties. *)

(* Type correctness of the kernel's and the debugger's thread tables; a    *)
(* rewound rip stays in the thread's own code.                             *)
TypeOK ==
  /\ client \in {"as_is", "stopping"}
  /\ poke \in {"pid", "tid"}
  /\ kern \in [Tids -> {"absent", "running", "stopped", "zombie", "reaped"}]
  /\ cause \in [Tids -> {"none", "clone", "sigstop", "trap", "step", "signal", "exit"}]
  /\ fresh \in [Tids -> BOOLEAN]
  /\ sigq \in [Tids -> BOOLEAN]
  /\ rip \in [Tids -> Nat]
  /\ poke = "tid" => \A t \in Tids : rip[t] >= Entry[t]
  /\ stepping \in [Tids -> BOOLEAN]
  /\ threads \subseteq Tids /\ tracked \subseteq Tids
  /\ state \in [Tids -> {"stopped", "running", "exited"}]
  /\ pend \in [Tids -> BOOLEAN]
  /\ cpc \in [Tids -> Nat]
  /\ siteOn \in BOOLEAN
  /\ pc \in {"idle", "over", "continue", "swallow", "step", "stepped", "wait",
             "resume", "resume_continue", "stop", "stop_wait"}
  /\ tid \in Tids /\ stopTid \in Tids
  /\ todo \subseteq Tids
  /\ back \in {"idle", "over", "resume_continue"}
  /\ turn \in {"resume", "wait", "stop", "cleanup", "done"}
  /\ threw \in {"none", "resume", "wait", "stop"}
  /\ over \in [Tids -> SUBSET Nat]
  /\ passed \in [Tids -> SUBSET Nat]
  /\ window \in BOOLEAN

(* A client that stops the other threads between two waits, and register   *)
(* writes that reach their thread.  The command line's own sequence, or    *)
(* the writes to m_Pid, break each of the properties this conditions.      *)
Careful == client = "stopping" /\ poke = "tid"

(* Between two calls of a careful client the user's breakpoint is in       *)
(* memory: no path through resume_all_threads, wait_on_signal and          *)
(* stop_running_threads leaves step_over_breakpoint half done, unless it   *)
(* was entered with a Stale thread.                                        *)
SiteRestored == Careful /\ pc = "idle" /\ ~window => siteOn

(* No thread runs freely through the breakpoint: the instruction under it  *)
(* is only executed by step_over_breakpoint, with the same exceptions.     *)
PassedOnlyByStepOver ==
  Careful /\ ~window => \A t \in Tids : passed[t] \subseteq over[t]

(* A trap moves rip behind the int3; unless the debugger puts it back the  *)
(* program loses the instruction under the breakpoint.  A careful client   *)
(* never loses one, with the same exceptions.                              *)
NoInstructionSkipped ==
  Careful /\ ~window =>
    \A t \in Tids :
      \A p \in {q \in Entry[t] .. rip[t] - 1 : At(q) = "site"} :
        \/ p \in passed[t]
        \/ kern[t] = "stopped" /\ cause[t] = "trap" /\ fresh[t] /\ p = rip[t] - 1

(* Once stop_running_threads has returned, every thread of m_Threads is    *)
(* stopped or gone, as its state says, so resume_all_threads can restart   *)
(* them; a queued SIGSTOP is one the debugger remembers.                   *)
StoppedMeansStopped ==
  pc = "idle" /\ turn = "cleanup" =>
    \A t \in threads :
      /\ state[t] = "stopped" => kern[t] = "stopped" /\ ~fresh[t]
      /\ state[t] = "exited" => kern[t] = "reaped"
      /\ state[t] # "running"
      /\ sigq[t] => pend[t]

(* No thread runs behind the debugger's back: between two calls a thread   *)
(* that runs is in m_Threads, with state running, whichever path of        *)
(* wait_on_signal or resume_all_threads restarted it.                      *)
NoThreadRunsUnseen ==
  pc = "idle" => \A t \in Running : t \in threads /\ state[t] = "running"

(* A thread the target still tracks after cleanup_exited_threads forgot it *)
(* has exited: the dangling entry is never that of a live thread.          *)
ForgottenThreadsAreGone ==
  \A t \in tracked \ threads : kern[t] = "reaped"

(* With either client a breakpoint stop that waitpid has returned has the  *)
(* thread's rip, cached and real, at the breakpoint (tests.cpp "Breakpoint *)
(* on address works"), if register writes reach their thread.              *)
TrapReportsSite ==
  poke = "tid" =>
    \A t \in Tids :
      kern[t] = "stopped" /\ cause[t] = "trap" /\ ~fresh[t] =>
        At(cpc[t]) = "site" /\ rip[t] = cpc[t]

(* With the other threads stopped and cleaned up in between no call        *)
(* throws, with the same exceptions.                                       *)
CallsSucceed == Careful /\ ~window => threw = "none"

(* pending_sigstop set with no SIGSTOP on its way: the next                *)
(* stop_running_threads will not send one.                                 *)
StalePending == \E t \in todo \union {tid} : kern[t] = "running" /\ pend[t] /\ ~sigq[t]

(* stop_running_threads returns even when the program's threads never stop *)
(* by themselves, as long as pending_sigstop is exact.                     *)
StopReturns == (pc = "stop" /\ ~StalePending) ~> (pc = "idle")

-------------------------------------------------------------------------------
(* What the repository says and the code does not do. *)

(* tests.cpp "Multi-Threading works" alternates resume_all_threads and     *)
(* wait_on_signal until every thread stopped: no such sequence of calls    *)
(* makes resume_all_threads throw.                                         *)
ResumeAllSucceeds == threw # "resume"
===============================================================================
