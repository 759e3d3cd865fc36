------------------------------ MODULE SyscallCatch ------------------------------
(***************************************************************************)
(* Syscall catchpoints: the policy the user sets, the request send_continue *)
(* chooses from it, the kernel's syscall-entry and syscall-exit stops, and  *)
(* the one expecting_syscall_exit flag of a process by which               *)
(* augment_stop_reason tells entry from exit.  The client resumes threads   *)
(* that are stopped, then waits with wait_on_signal(-1); policies are set  *)
(* in between, while other threads may still run.                          *)
(***************************************************************************)
EXTENDS Naturals

CONSTANTS
  Tids,     \* the threads of the tracee
  Calls,    \* system call numbers
  MaxCalls, \* bound on the system calls a thread makes
  MaxSets,  \* bound on the policies the user sets
  None      \* no system call, no report

(* What wait_on_signal returns: the stop, and the label put on it. *)
Reports ==
  [tid : Tids, at : {"entry", "exit", "signal"}, id : Calls \union {None},
   entry : BOOLEAN]

ASSUME SyscallAssumption ==
  /\ MaxCalls \in Nat /\ MaxSets \in Nat
  /\ None \notin Calls \union Tids \union Reports

(* syscall_catch_policy: its mode, and m_toCatch for mode some. *)
Policies ==
  [mode : {"none", "all"}, to_catch : {{}}] \union
  [mode : {"some"}, to_catch : SUBSET Calls]

VARIABLES
  \* the kernel
  running,   \* the thread runs
  traced,    \* it was resumed with PTRACE_SYSCALL
  call,      \* the system call it is in, or None
  stop,      \* why it stopped: "entry", "exit", "signal", or "none"
  fresh,     \* waitpid has not returned this stop yet
  made,      \* system calls made so far
  \* the debugger
  policy,    \* m_SyscallCatchPolicy
  expecting, \* expecting_syscall_exit
  waiting,   \* the client is in wait_on_signal
  sets,      \* policies set so far
  report,    \* the stop wait_on_signal returned last, or None
  last       \* history: per thread, the system call stop reported last, or None

kernVars == <<running, traced, call, stop, fresh, made>>
vars == <<kernVars, policy, expecting, waiting, sets, report, last>>

Init ==
  /\ running = [t \in Tids |-> FALSE]
  /\ traced = [t \in Tids |-> FALSE]
  /\ call = [t \in Tids |-> None]
  /\ stop = [t \in Tids |-> "signal"]
  /\ fresh = [t \in Tids |-> FALSE]
  /\ made = [t \in Tids |-> 0]
  /\ policy = [mode |-> "none", to_catch |-> {}]
  /\ expecting = FALSE
  /\ waiting = FALSE
  /\ sets = 0
  /\ report = None
  /\ last = [t \in Tids |-> None]

-------------------------------------------------------------------------------
(* The kernel.  A signal interrupts a system call only after its exit stop. *)

StopsFor(t, why) ==
  /\ running' = [running EXCEPT ![t] = FALSE]
  /\ stop' = [stop EXCEPT ![t] = why]
  /\ fresh' = [fresh EXCEPT ![t] = TRUE]

StopsIfTraced(t, why) ==
  IF traced[t] THEN StopsFor(t, why) ELSE UNCHANGED <<running, stop, fresh>>

Enter(t, id) ==
  /\ running[t] /\ call[t] = None
  /\ made[t] < MaxCalls
  /\ made' = [made EXCEPT ![t] = @ + 1]
  /\ call' = [call EXCEPT ![t] = id]
  /\ StopsIfTraced(t, "entry")
  /\ UNCHANGED <<traced, policy, expecting, waiting, sets, report, last>>

(* orig_rax still names the call at its exit stop. *)
Leave(t) ==
  /\ running[t] /\ call[t] # None
  /\ StopsIfTraced(t, "exit")
  /\ call' = IF traced[t] THEN call ELSE [call EXCEPT ![t] = None]
  /\ UNCHANGED <<traced, made, policy, expecting, waiting, sets, report, last>>

Signal(t) ==
  /\ running[t] /\ call[t] = None
  /\ StopsFor(t, "signal")
  /\ UNCHANGED <<traced, call, made, policy, expecting, waiting, sets, report, last>>

-------------------------------------------------------------------------------
(* The debugger. *)

(* send_continue on some threads: the request follows the policy; leaving  *)
(* an exit stop ends the call.                                             *)
Continued(ts) ==
  /\ running' = [t \in Tids |-> t \in ts \/ running[t]]
  /\ traced' = [t \in Tids |-> IF t \in ts THEN policy.mode # "none" ELSE traced[t]]
  /\ call' = [t \in Tids |-> IF t \in ts /\ stop[t] = "exit" THEN None ELSE call[t]]
  /\ stop' = [t \in Tids |-> IF t \in ts THEN "none" ELSE stop[t]]
  /\ fresh' = [t \in Tids |-> t \notin ts /\ fresh[t]]

(* The catchpoint syscall command. *)
SetPolicy(p) ==
  /\ ~waiting
  /\ sets < MaxSets
  /\ sets' = sets + 1
  /\ policy' = p
  /\ UNCHANGED <<kernVars, expecting, waiting, report, last>>

(* resume on each of ts, and the wait_on_signal that follows it. *)
ResumeAndWait(ts) ==
  /\ ~waiting
  /\ ts # {}
  /\ \A t \in ts : ~running[t] /\ ~fresh[t]
  /\ Continued(ts)
  /\ waiting' = TRUE
  /\ UNCHANGED <<made, policy, expecting, sets, report, last>>

(* Fault variant of ResumesFromSyscall: the list is tested the wrong way round. *)
ResumesFromListed(id) == policy.mode = "some" /\ id \in policy.to_catch

(* mabye_resume_from_syscall *)
ResumesFromSyscall(id) == policy.mode = "some" /\ id \notin policy.to_catch

(* Fault variants of ExpectingAfter: the flag survives a stop that is no    *)
(* system call, and it is never cleared.                                    *)
ExpectingSurvivesSignal(t) == IF stop[t] = "signal" THEN expecting ELSE ~expecting
ExpectingNeverCleared(t) == stop[t] # "signal"

(* augment_stop_reason: expecting_syscall_exit after the stop of t. *)
ExpectingAfter(t) == stop[t] # "signal" /\ ~expecting

Reported(t) ==
  [tid |-> t, at |-> stop[t], id |-> call[t], entry |-> ~expecting]

(* handle_signal returned nullopt: the thread is resumed, the wait goes on. *)
WaitIgnores(t) ==
  /\ waiting
  /\ fresh[t]
  /\ stop[t] # "signal" /\ ResumesFromSyscall(call[t])
  /\ expecting' = ExpectingAfter(t)
  /\ Continued({t})
  /\ UNCHANGED <<made, policy, waiting, sets, report, last>>

WaitReports(t) ==
  /\ waiting
  /\ fresh[t]
  /\ stop[t] = "signal" \/ ~ResumesFromSyscall(call[t])
  /\ expecting' = ExpectingAfter(t)
  /\ fresh' = [fresh EXCEPT ![t] = FALSE]
  /\ report' = Reported(t)
  /\ last' = IF stop[t] = "signal" THEN last ELSE [last EXCEPT ![t] = Reported(t)]
  /\ waiting' = FALSE
  /\ UNCHANGED <<running, traced, call, stop, made, policy, sets>>

Next ==
  \/ \E p \in Policies : SetPolicy(p)
  \/ \E ts \in SUBSET Tids : ResumeAndWait(ts)
  \/ \E t \in Tids :
       \/ WaitIgnores(t) \/ WaitReports(t)
       \/ Leave(t) \/ Signal(t)
       \/ \E id \in Calls : Enter(t, id)

Spec == Init /\ [][Next]_vars

-------------------------------------------------------------------------------
(* Properties. *)

(* Type correctness; a thread stopped at a system call stop is in a call.  *)
TypeOK ==
  /\ running \in [Tids -> BOOLEAN]
  /\ traced \in [Tids -> BOOLEAN]
  /\ call \in [Tids -> Calls \union {None}]
  /\ stop \in [Tids -> {"none", "entry", "exit", "signal"}]
  /\ fresh \in [Tids -> BOOLEAN]
  /\ made \in [Tids -> Nat]
  /\ policy \in Policies
  /\ expecting \in BOOLEAN
  /\ waiting \in BOOLEAN
  /\ sets \in Nat
  /\ report \in Reports \union {None}
  /\ last \in [Tids -> Reports \union {None}]
  /\ \A t \in Tids : stop[t] \in {"entry", "exit"} => call[t] # None

Syscall(r) == r # None /\ r.at # "signal"

(* A reported system call stop is labelled entry exactly at an entry,      *)
(* whatever policies were set and whatever stops were skipped or hidden    *)
(* before (augment_stop_reason); of a process with one thread.  The test   *)
(* quoted at CaughtStopsAreEntries asks for entry at an exit stop as well. *)
LabelExact == Syscall(report) => (report.entry <=> report.at = "entry")

(* A system call stop is reported only for a call the policy asks for.     *)
(* process.hpp on mabye_resume_from_syscall: "reason for resuming if the   *)
(* syscall isnt one we have requested tracing for".                        *)
Requested(id) == policy.mode = "all" \/ (policy.mode = "some" /\ id \in policy.to_catch)
ReportsOnlyRequested == [][report' # report /\ Syscall(report') => Requested(report'.id)]_vars

(* An exit is reported right after the entry of the same call of the same  *)
(* thread: no change of policy makes the user miss the entry.              *)
ExitFollowsEntry ==
  [][\A t \in Tids :
       last'[t] # last[t] /\ ~last'[t].entry =>
         last[t] # None /\ last[t].entry /\ last[t].id = last'[t].id]_vars

(* The flag says what the kernel will report next: of a process with one   *)
(* traced thread it is set exactly while the thread is inside a call whose *)
(* entry stop was collected.                                               *)
FlagExact ==
  \A t \in Tids :
    traced[t] /\ running[t] => (expecting <=> call[t] # None)

-------------------------------------------------------------------------------
(* What the repository says and the code does not do. *)

(* tests.cpp "Syscall catchpoints work" sets one policy for write, resumes *)
(* twice, and requires syscall_info->entry == true of both reported stops, *)
(* where augment_stop_reason labels the second one, the kernel's exit stop *)
(* of the same call, an exit.                                              *)
CaughtStopsAreEntries == Syscall(report) /\ policy.mode = "some" => report.entry
===============================================================================
