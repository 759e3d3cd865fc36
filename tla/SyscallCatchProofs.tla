-------------------------- MODULE SyscallCatchProofs --------------------------
(* Proofs about SyscallCatch, for every set of system calls, any number of *)
(* calls and of policy changes.  The labels and the flag are those of a    *)
(* process with one thread: expecting_syscall_exit is one per process, and *)
(* the stops of several threads would toggle it for each other.            *)
EXTENDS SyscallCatch, TLAPS

USE SyscallAssumption

LEMMA NoneIsNoReport == None \notin Reports
OBVIOUS

-------------------------------------------------------------------------------
(* Type correctness, of any number of threads. *)

LEMMA ReportedType ==
  ASSUME TypeOK, NEW t \in Tids, stop[t] # "none"
  PROVE  Reported(t) \in Reports
BY DEF TypeOK, Reported, Reports

LEMMA ContinuedTypes ==
  ASSUME TypeOK, NEW ts \in SUBSET Tids, Continued(ts)
  PROVE  /\ running' \in [Tids -> BOOLEAN]
         /\ traced' \in [Tids -> BOOLEAN]
         /\ call' \in [Tids -> Calls \union {None}]
         /\ stop' \in [Tids -> {"none", "entry", "exit", "signal"}]
         /\ fresh' \in [Tids -> BOOLEAN]
         /\ \A t \in Tids : stop'[t] \in {"entry", "exit"} => call'[t] # None
BY DEF TypeOK, Continued

(* A stop waitpid has not returned is a stop: no thread is both. *)
StopInv ==
  \A t \in Tids : (fresh[t] => ~running[t]) /\ (running[t] <=> stop[t] = "none")

TypeInv == TypeOK /\ StopInv

LEMMA TypeInit == Init => TypeInv
<1> SUFFICES ASSUME Init PROVE TypeOK /\ StopInv
  BY DEF TypeInv
<1>1. policy \in Policies
  BY DEF Init, Policies
<1>2. /\ running \in [Tids -> BOOLEAN]
      /\ traced \in [Tids -> BOOLEAN]
      /\ call \in [Tids -> Calls \union {None}]
      /\ fresh \in [Tids -> BOOLEAN]
      /\ made \in [Tids -> Nat]
      /\ last \in [Tids -> Reports \union {None}]
  BY DEF Init
<1>3. /\ stop \in [Tids -> {"none", "entry", "exit", "signal"}]
      /\ \A t \in Tids : stop[t] = "signal"
  BY DEF Init
<1>4. expecting \in BOOLEAN /\ waiting \in BOOLEAN /\ sets \in Nat /\ report = None
  BY DEF Init
<1>5. TypeOK
  BY <1>1, <1>2, <1>3, <1>4 DEF TypeOK
<1>6. StopInv
  BY <1>3 DEF Init, StopInv
<1>7. QED
  BY <1>5, <1>6

LEMMA TypeStep == TypeInv /\ [Next]_vars => TypeInv'
<1> SUFFICES ASSUME TypeOK, StopInv, [Next]_vars
             PROVE  TypeInv'
  BY DEF TypeInv
<1> USE DEF TypeInv, TypeOK, StopInv, kernVars
<1>1. ASSUME NEW p \in Policies, SetPolicy(p)
      PROVE  TypeInv'
  BY <1>1 DEF SetPolicy
<1>2. ASSUME NEW ts \in SUBSET Tids, ResumeAndWait(ts)
      PROVE  TypeInv'
  <2>1. TypeOK'
    BY <1>2, ContinuedTypes DEF ResumeAndWait
  <2>2. StopInv'
    BY <1>2 DEF ResumeAndWait, Continued
  <2>3. QED
    BY <2>1, <2>2
<1>3. ASSUME NEW t \in Tids, WaitIgnores(t)
      PROVE  TypeInv'
  <2>1. Continued({t}) /\ {t} \in SUBSET Tids /\ ExpectingAfter(t) \in BOOLEAN
    BY <1>3 DEF WaitIgnores, ExpectingAfter
  <2>2. TypeOK'
    BY <1>3, <2>1, ContinuedTypes DEF WaitIgnores
  <2>3. StopInv'
    BY <1>3, <2>1 DEF Continued
  <2>4. QED
    BY <2>2, <2>3
<1>4. ASSUME NEW t \in Tids, WaitReports(t)
      PROVE  TypeInv'
  <2>1. stop[t] # "none" /\ ExpectingAfter(t) \in BOOLEAN
    BY <1>4 DEF WaitReports, ExpectingAfter
  <2>2. Reported(t) \in Reports
    BY <2>1, ReportedType
  <2>3. QED
    BY <1>4, <2>1, <2>2 DEF WaitReports
<1>5. ASSUME NEW t \in Tids, Leave(t)
      PROVE  TypeInv'
  <2>1. CASE traced[t]
    <3>1. /\ StopsFor(t, "exit") /\ call[t] # None
          /\ UNCHANGED <<traced, call, made, policy, expecting, waiting, sets, report, last>>
      BY <1>5, <2>1 DEF Leave, StopsIfTraced
    <3>2. TypeOK'
      BY <3>1 DEF StopsFor
    <3>3. StopInv'
      BY <3>1 DEF StopsFor
    <3>4. QED
      BY <3>2, <3>3
  <2>2. CASE ~traced[t]
    BY <1>5, <2>2 DEF Leave, StopsIfTraced
  <2>3. QED
    BY <2>1, <2>2
<1>6. ASSUME NEW t \in Tids, Signal(t)
      PROVE  TypeInv'
  BY <1>6 DEF Signal, StopsFor
<1>7. ASSUME NEW t \in Tids, NEW id \in Calls, Enter(t, id)
      PROVE  TypeInv'
  <2>1. call' = [call EXCEPT ![t] = id] /\ id # None /\ made[t] + 1 \in Nat
    BY <1>7 DEF Enter
  <2>2. CASE traced[t]
    <3>1. StopsFor(t, "entry")
      BY <1>7, <2>2 DEF Enter, StopsIfTraced
    <3>2. TypeOK'
      BY <1>7, <2>1, <3>1 DEF Enter, StopsFor
    <3>3. StopInv'
      BY <3>1 DEF StopsFor
    <3>4. QED
      BY <3>2, <3>3
  <2>3. CASE ~traced[t]
    BY <1>7, <2>1, <2>3 DEF Enter, StopsIfTraced
  <2>4. QED
    BY <2>2, <2>3
<1>8. CASE UNCHANGED vars
  BY <1>8 DEF vars
<1>9. QED
  BY <1>1, <1>2, <1>3, <1>4, <1>5, <1>6, <1>7, <1>8 DEF Next

(* Every thread of the tracee runs or holds one stop, and a thread stopped  *)
(* at a system call stop is in a call, however the stops interleave.        *)
THEOREM SyscallTypes == Spec => []TypeInv
BY TypeInit, TypeStep, PTL DEF Spec

-------------------------------------------------------------------------------
(* One thread.  The client waits exactly while the thread runs or holds a  *)
(* stop waitpid has not returned; then no policy is set, so the request    *)
(* the thread was resumed with is the policy's.                            *)
WaitInv ==
  \A t \in Tids :
    /\ waiting <=> running[t] \/ fresh[t]
    /\ waiting => (traced[t] <=> policy.mode # "none")

(* The flag is ahead of a system call stop by one, and right afterwards;   *)
(* a thread that runs untraced through a call may leave it stale, and the  *)
(* signal that stops it next resets it.                                    *)
FlagInv ==
  \A t \in Tids :
    /\ stop[t] = "signal" => call[t] = None
    /\ fresh[t] /\ stop[t] # "signal" => traced[t] /\ (expecting <=> stop[t] = "exit")
    /\ ~waiting => (expecting <=> stop[t] = "entry")
    /\ traced[t] /\ running[t] => (expecting <=> call[t] # None)

EntryReported(t) == last[t] # None /\ last[t].entry /\ last[t].id = call[t]

(* The entry of the call the thread is in was reported last, when the flag *)
(* is set and the policy will report the exit.                             *)
EntryInv ==
  \A t \in Tids :
    /\ ~waiting /\ stop[t] = "entry" => EntryReported(t)
    /\ waiting /\ traced[t] /\ expecting /\ call[t] # None
         /\ ~ResumesFromSyscall(call[t]) => EntryReported(t)

OneInv == TypeInv /\ WaitInv /\ FlagInv /\ EntryInv /\ LabelExact

LEMMA OneInit == Init => OneInv
<1> SUFFICES ASSUME Init PROVE OneInv
  OBVIOUS
<1>1. TypeInv
  BY TypeInit
<1>2. /\ \A t \in Tids : stop[t] = "signal" /\ call[t] = None /\ ~fresh[t] /\ ~running[t]
      /\ ~waiting /\ ~expecting /\ report = None
  BY DEF Init
<1>3. QED
  BY <1>1, <1>2 DEF OneInv, WaitInv, FlagInv, EntryInv, LabelExact, Syscall

LEMMA OneStep ==
  ASSUME NEW One, Tids = {One}, OneInv, [Next]_vars
  PROVE  OneInv'
<1>1. TypeInv /\ TypeInv'
  BY TypeStep DEF OneInv
<1>2. SUFFICES WaitInv' /\ FlagInv' /\ EntryInv' /\ LabelExact'
  BY <1>1 DEF OneInv
<1> USE DEF OneInv, TypeInv, TypeOK, StopInv, WaitInv, FlagInv, EntryInv, EntryReported,
        ResumesFromSyscall, kernVars
<1>3. ASSUME NEW p \in Policies, SetPolicy(p)
      PROVE  WaitInv' /\ FlagInv' /\ EntryInv' /\ LabelExact'
  <2>1. WaitInv'
    BY <1>1, <1>3 DEF SetPolicy
  <2>2. FlagInv'
    BY <1>1, <1>3 DEF SetPolicy
  <2>3. EntryInv'
    BY <1>1, <1>3 DEF SetPolicy
  <2>4. LabelExact'
    BY <1>1, <1>3 DEF SetPolicy, LabelExact, Syscall
  <2>5. QED
    BY <2>1, <2>2, <2>3, <2>4
<1>4. ASSUME NEW ts \in SUBSET Tids, ResumeAndWait(ts)
      PROVE  WaitInv' /\ FlagInv' /\ EntryInv' /\ LabelExact'
  <2>1. WaitInv'
    BY <1>1, <1>4 DEF ResumeAndWait, Continued
  <2>2. FlagInv'
    BY <1>1, <1>4 DEF ResumeAndWait, Continued
  <2>3. EntryInv'
    BY <1>1, <1>4 DEF ResumeAndWait, Continued
  <2>4. LabelExact'
    BY <1>1, <1>4 DEF ResumeAndWait, Continued, LabelExact, Syscall
  <2>5. QED
    BY <2>1, <2>2, <2>3, <2>4
<1>5. ASSUME NEW t \in Tids, WaitIgnores(t)
      PROVE  WaitInv' /\ FlagInv' /\ EntryInv' /\ LabelExact'
  <2>1. WaitInv'
    BY <1>1, <1>5 DEF WaitIgnores, Continued, ExpectingAfter
  <2>2. FlagInv'
    BY <1>1, <1>5 DEF WaitIgnores, Continued, ExpectingAfter
  <2>3. EntryInv'
    BY <1>1, <1>5 DEF WaitIgnores, Continued, ExpectingAfter
  <2>4. LabelExact'
    BY <1>1, <1>5 DEF WaitIgnores, Continued, ExpectingAfter, LabelExact, Syscall
  <2>5. QED
    BY <2>1, <2>2, <2>3, <2>4
<1>6. ASSUME NEW t \in Tids, WaitReports(t)
      PROVE  WaitInv' /\ FlagInv' /\ EntryInv' /\ LabelExact'
  <2>1. WaitInv'
    BY <1>1, <1>6 DEF WaitReports, ExpectingAfter, Reported
  <2>2. FlagInv'
    BY <1>1, <1>6 DEF WaitReports, ExpectingAfter, Reported
  <2>3. EntryInv'
    <3>1. ~waiting' /\ stop' = stop /\ call' = call
      BY <1>6 DEF WaitReports
    <3>2. ASSUME stop[t] = "entry"
          PROVE  EntryReported(t)'
      <4>1. Reported(t) \in Reports /\ Reported(t) # None
        BY <1>1, <3>2, ReportedType, NoneIsNoReport
      <4>2. last'[t] = Reported(t)
        BY <1>6, <3>2 DEF WaitReports
      <4>3. ~expecting
        BY <1>6, <3>2 DEF WaitReports
      <4>4. Reported(t).entry /\ Reported(t).id = call[t]
        BY <4>3 DEF Reported
      <4>5. QED
        BY <3>1, <4>1, <4>2, <4>4
    <3>3. QED
      BY <3>1, <3>2
  <2>4. LabelExact'
    BY <1>1, <1>6 DEF WaitReports, ExpectingAfter, Reported, LabelExact, Syscall
  <2>5. QED
    BY <2>1, <2>2, <2>3, <2>4
<1>7. ASSUME NEW t \in Tids, Leave(t)
      PROVE  WaitInv' /\ FlagInv' /\ EntryInv' /\ LabelExact'
  <2>1. WaitInv'
    BY <1>1, <1>7 DEF Leave, StopsIfTraced, StopsFor
  <2>2. FlagInv'
    BY <1>1, <1>7 DEF Leave, StopsIfTraced, StopsFor
  <2>3. EntryInv'
    BY <1>1, <1>7 DEF Leave, StopsIfTraced, StopsFor
  <2>4. LabelExact'
    BY <1>1, <1>7 DEF Leave, StopsIfTraced, StopsFor, LabelExact, Syscall
  <2>5. QED
    BY <2>1, <2>2, <2>3, <2>4
<1>8. ASSUME NEW t \in Tids, Signal(t)
      PROVE  WaitInv' /\ FlagInv' /\ EntryInv' /\ LabelExact'
  <2>1. WaitInv'
    BY <1>1, <1>8 DEF Signal, StopsFor
  <2>2. FlagInv'
    BY <1>1, <1>8 DEF Signal, StopsFor
  <2>3. EntryInv'
    BY <1>1, <1>8 DEF Signal, StopsFor
  <2>4. LabelExact'
    BY <1>1, <1>8 DEF Signal, StopsFor, LabelExact, Syscall
  <2>5. QED
    BY <2>1, <2>2, <2>3, <2>4
<1>9. ASSUME NEW t \in Tids, NEW id \in Calls, Enter(t, id)
      PROVE  WaitInv' /\ FlagInv' /\ EntryInv' /\ LabelExact'
  <2>1. WaitInv'
    BY <1>1, <1>9 DEF Enter, StopsIfTraced, StopsFor
  <2>2. FlagInv'
    BY <1>1, <1>9 DEF Enter, StopsIfTraced, StopsFor
  <2>3. EntryInv'
    BY <1>1, <1>9 DEF Enter, StopsIfTraced, StopsFor
  <2>4. LabelExact'
    BY <1>1, <1>9 DEF Enter, StopsIfTraced, StopsFor, LabelExact, Syscall
  <2>5. QED
    BY <2>1, <2>2, <2>3, <2>4
<1>10. CASE UNCHANGED vars
  BY <1>10 DEF vars, LabelExact, Syscall
<1>11. QED
  BY <1>3, <1>4, <1>5, <1>6, <1>7, <1>8, <1>9, <1>10 DEF Next

LEMMA OneThread ==
  ASSUME NEW One, Tids = {One}
  PROVE  Spec => []OneInv
<1>1. OneInv /\ [Next]_vars => OneInv'
  BY OneStep
<1>2. QED
  BY <1>1, OneInit, PTL DEF Spec

(* augment_stop_reason labels every reported stop of a process with one    *)
(* thread correctly, after any sequence of policies, calls and signals.    *)
THEOREM LabelsExact ==
  ASSUME NEW One, Tids = {One}
  PROVE  Spec => []LabelExact
<1>1. OneInv => LabelExact
  BY DEF OneInv
<1>2. QED
  BY <1>1, OneThread, PTL

(* While the thread runs traced, expecting_syscall_exit says what the      *)
(* kernel reports next.                                                    *)
THEOREM FlagFollowsKernel ==
  ASSUME NEW One, Tids = {One}
  PROVE  Spec => []FlagExact
<1>1. OneInv => FlagExact
  BY DEF OneInv, FlagInv, FlagExact
<1>2. QED
  BY <1>1, OneThread, PTL

(* mabye_resume_from_syscall and the request chosen by send_continue let   *)
(* only requested calls through, even when the policy changed since the    *)
(* last stop.                                                              *)
THEOREM OnlyRequestedReported ==
  ASSUME NEW One, Tids = {One}
  PROVE  Spec => ReportsOnlyRequested
<1>1. OneInv /\ [Next]_vars =>
        (report' # report /\ Syscall(report') => Requested(report'.id))
  <2> SUFFICES ASSUME OneInv, [Next]_vars, report' # report, Syscall(report')
               PROVE  Requested(report'.id)
    OBVIOUS
  <2>1. PICK t \in Tids : WaitReports(t)
    BY DEF Next, vars, kernVars, SetPolicy, ResumeAndWait, Continued, WaitIgnores, Leave,
       Signal, Enter
  <2>2. report' = Reported(t) /\ stop[t] # "signal" /\ ~ResumesFromSyscall(call[t])
    BY <2>1 DEF WaitReports, Reported, Syscall
  <2>3. policy.mode # "none"
    BY <2>1, <2>2 DEF WaitReports, OneInv, WaitInv, FlagInv
  <2>4. policy.mode \in {"none", "all", "some"}
    BY DEF OneInv, TypeInv, TypeOK, Policies
  <2>5. QED
    BY <2>2, <2>3, <2>4 DEF Reported, ResumesFromSyscall, Requested
<1>2. QED
  BY <1>1, OneThread, PTL DEF Spec, ReportsOnlyRequested

(* The client never sees an exit without the entry of the same call right  *)
(* before it.                                                              *)
THEOREM ExitsFollowEntries ==
  ASSUME NEW One, Tids = {One}
  PROVE  Spec => ExitFollowsEntry
<1>1. OneInv /\ [Next]_vars =>
        \A t \in Tids :
          last'[t] # last[t] /\ ~last'[t].entry =>
            last[t] # None /\ last[t].entry /\ last[t].id = last'[t].id
  <2> SUFFICES ASSUME OneInv, [Next]_vars, NEW u \in Tids, last'[u] # last[u],
                      ~last'[u].entry
               PROVE  last[u] # None /\ last[u].entry /\ last[u].id = last'[u].id
    OBVIOUS
  <2>1. PICK t \in Tids : WaitReports(t)
    BY DEF Next, vars, kernVars, SetPolicy, ResumeAndWait, Continued, WaitIgnores, Leave,
       Signal, Enter
  <2>2. u = t /\ stop[t] # "signal" /\ last'[t] = Reported(t)
    BY <2>1 DEF WaitReports, OneInv, TypeInv, TypeOK
  <2>3. expecting /\ waiting /\ traced[t] /\ call[t] # None /\ ~ResumesFromSyscall(call[t])
    BY <2>1, <2>2 DEF WaitReports, Reported, OneInv, FlagInv, TypeInv, TypeOK
  <2>4. EntryReported(t)
    BY <2>3 DEF OneInv, EntryInv
  <2>5. QED
    BY <2>2, <2>4 DEF EntryReported, Reported
<1>2. QED
  BY <1>1, OneThread, PTL DEF Spec, ExitFollowsEntry
===============================================================================
