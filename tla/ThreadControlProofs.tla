-------------------------- MODULE ThreadControlProofs --------------------------
(* Proofs about ThreadControl, for every program, any number of threads,   *)
(* both clients and both ways of writing registers: the tables of threads  *)
(* first, then the breakpoint that the threads run through.                *)
EXTENDS ThreadControl, TLAPS

Stepping == {"swallow", "step", "stepped"}

(* The disjuncts of the actions that may step over the breakpoint. *)
StepOverBegins(t) ==
  \/ pc = "over" /\ t \in todo /\ BeginStepOver(t, "over", todo \ {t})
  \/ pc = "resume" /\ t = tid /\ BeginStepOver(t, "resume_continue", todo)

StepOverFails(t) ==
  /\ (pc = "over" /\ t \in todo) \/ (pc = "resume" /\ t = tid)
  /\ DisableFails(t)

StepOverSkipped(t) ==
  /\ pc = "over" /\ t \in todo
  /\ ~NeedsStepOver(t)
  /\ Goto("over", t, todo \ {t})
  /\ UNCHANGED <<kernVars, bookVars, siteOn, back, stopTid, turn, threw, histVars>>

LEMMA OverCases ==
  /\ \A t \in Tids : OverNext(t) => StepOverBegins(t) \/ StepOverFails(t) \/ StepOverSkipped(t)
  /\ ResumeOver => StepOverBegins(tid) \/ StepOverFails(tid)
BY DEF OverNext, ResumeOver, StepOverBegins, StepOverFails, StepOverSkipped

(* What the proofs use of the constants. *)
LEMMA Consts == Main \in Tids /\ Entry \in [Tids -> Nat]
BY ThreadAssumption

(* A "site" is an instruction of the program. *)
LEMMA SiteInCode ==
  ASSUME NEW p \in Int, At(p) = "site"
  PROVE  p \in Nat /\ p > 0
BY ThreadAssumption DEF At

-------------------------------------------------------------------------------
(* The type invariant, by the owner of the state. *)
KernTypes ==
  /\ poke \in {"pid", "tid"}
  /\ client \in {"as_is", "stopping"}
  /\ kern \in [Tids -> {"absent", "running", "stopped", "zombie", "reaped"}]
  /\ cause \in [Tids -> {"none", "clone", "sigstop", "trap", "step", "signal", "exit"}]
  /\ fresh \in [Tids -> BOOLEAN]
  /\ sigq \in [Tids -> BOOLEAN]
  /\ stepping \in [Tids -> BOOLEAN]
  /\ rip \in [Tids -> Nat]

RipInCode == poke = "tid" => \A t \in Tids : rip[t] >= Entry[t]

BookTypes ==
  /\ threads \subseteq Tids /\ tracked \subseteq Tids
  /\ state \in [Tids -> {"stopped", "running", "exited"}]
  /\ pend \in [Tids -> BOOLEAN]
  /\ cpc \in [Tids -> Nat]

CtlTypes ==
  /\ siteOn \in BOOLEAN
  /\ pc \in {"idle", "over", "continue", "swallow", "step", "stepped", "wait",
             "resume", "resume_continue", "stop", "stop_wait"}
  /\ tid \in Tids /\ stopTid \in Tids
  /\ todo \subseteq Tids
  /\ back \in {"idle", "over", "resume_continue"}
  /\ turn \in {"resume", "wait", "stop", "cleanup", "done"}
  /\ threw \in {"none", "resume", "wait", "stop"}

HistTypes ==
  /\ over \in [Tids -> SUBSET Nat]
  /\ passed \in [Tids -> SUBSET Nat]
  /\ window \in BOOLEAN

LEMMA TypeParts ==
  TypeOK <=> KernTypes /\ RipInCode /\ BookTypes /\ CtlTypes /\ HistTypes
BY DEF TypeOK, KernTypes, RipInCode, BookTypes, CtlTypes, HistTypes

(* What each place of the debugger knows of the loops and of the call it   *)
(* is in.                                                                  *)
CtlInv ==
  /\ todo \subseteq threads
  /\ turn = "cleanup" => todo = {} /\ pc = "idle"
  /\ turn = "done" => pc = "idle"
  /\ pc \in {"over", "continue"} => turn = "resume"
  /\ pc \in {"wait", "resume", "resume_continue"} => turn = "wait"
  /\ pc \in {"stop", "stop_wait"} => turn = "stop"
  /\ pc \in Stepping =>
       \/ back = "over" /\ turn = "resume"
       \/ back = "resume_continue" /\ turn = "wait"
  /\ pc \in Stepping \union {"resume", "resume_continue", "stop_wait"} => tid \in threads

(* The debugger's threads and the kernel's: a thread outside m_Threads has *)
(* not been resumed yet, or is gone; what waitpid has not returned is a    *)
(* stop or an exit.                                                        *)
KernOf(t) ==
  /\ fresh[t] => kern[t] \in {"stopped", "zombie"}
  /\ kern[t] = "zombie" => fresh[t]
  /\ state[t] = "exited" => kern[t] = "reaped"
  /\ kern[t] = "absent" => t \notin threads
  /\ kern[t] = "running" => t \in threads
  /\ t \notin threads /\ kern[t] = "stopped" => fresh[t] /\ cause[t] = "sigstop"
  /\ t \notin threads /\ kern[t] \in {"absent", "stopped"} => cpc[t] = 0

KernInv == ForgottenThreadsAreGone /\ \A t \in Tids : KernOf(t)

(* A thread the debugger believes stopped runs only within a step over. *)
SeenInv ==
  \A t \in Running : state[t] = "running" \/ (pc \in {"swallow", "stepped"} /\ t = tid)

(* The register writes reach their thread: a trap not yet collected is one *)
(* behind a site instruction, and rewinding it stays in the thread's code. *)
TrapAhead ==
  \A t \in Tids :
    kern[t] = "stopped" /\ cause[t] = "trap" /\ fresh[t] /\ poke = "tid" =>
      At(rip[t] - 1) = "site" /\ rip[t] > Entry[t]

(* A queued SIGSTOP is one pending_sigstop remembers, unless it was sent   *)
(* just now; so is one that was delivered and not collected.               *)
SigOf(t) ==
  /\ sigq[t] => pend[t] \/ (pc = "stop_wait" /\ t = tid)
  /\ kern[t] = "stopped" /\ fresh[t] /\ cause[t] = "sigstop" =>
       /\ ~sigq[t]
       /\ t \notin threads \/ pend[t] \/ (pc = "stop_wait" /\ t = tid)
  /\ sigq[t] => kern[t] \in {"running", "stopped"}
  /\ pc = "swallow" /\ t = tid /\ kern[t] # "running" => ~sigq[t]
  /\ t \notin threads => ~sigq[t]

SigInv == \A t \in Tids : SigOf(t)

(* What state says in each of the client's calls: after resume_all_threads *)
(* every thread runs or is gone, stop_running_threads visits those that    *)
(* run, and those it left are stopped with nothing to collect.             *)
BookInv ==
  /\ pc = "continue" => \A t \in threads \ todo : state[t] = "running"
  /\ turn = "wait" =>
       \A t \in threads : state[t] = "stopped" =>
         t = tid /\ pc \in {"resume", "resume_continue"} \union Stepping
  /\ turn \in {"stop", "cleanup"} =>
       \A t \in threads : state[t] = "stopped" => kern[t] = "stopped" /\ ~fresh[t]
  /\ pc \in {"stop", "stop_wait"} =>
       \A t \in threads : state[t] = "running" => t \in todo \/ (pc = "stop_wait" /\ t = tid)
  /\ turn = "cleanup" => \A t \in threads : state[t] # "running"

ThreadInv ==
  /\ KernTypes /\ RipInCode /\ BookTypes /\ CtlTypes /\ HistTypes
  /\ CtlInv /\ KernInv /\ SeenInv /\ TrapAhead /\ SigInv /\ BookInv

-------------------------------------------------------------------------------
(* The steps of the system, one name each. *)
LEMMA NextCases ==
  ASSUME ThreadInv, [Next]_vars
  PROVE  \/ \E t \in Tids :
              \/ DeliverSigstop(t) \/ HitTrap(t) \/ Execute(t) \/ Raise(t) \/ Exit(t)
              \/ \E new \in Tids : Clone(t, new)
              \/ StepOverBegins(t) \/ StepOverFails(t) \/ StepOverSkipped(t)
              \/ ContinueNext(t) \/ WaitIgnores(t) \/ WaitReports(t) \/ WaitPokeFails(t)
              \/ WaitSeesExit(t) \/ StopNext(t)
         \/ ResumeAll \/ OverDone \/ ContinueDone \/ Swallow \/ SingleStep \/ EndStepOver
         \/ WaitOnSignal \/ ResumeContinue \/ StopRunning \/ StopCollects \/ StopDone
         \/ Cleanup(stopTid)
         \/ UNCHANGED vars
<1>1. tid \in Tids
  BY DEF ThreadInv, CtlTypes
<1>2. ResumeOver => StepOverBegins(tid) \/ StepOverFails(tid)
  BY OverCases
<1>3. \A t \in Tids : OverNext(t) => StepOverBegins(t) \/ StepOverFails(t) \/ StepOverSkipped(t)
  BY OverCases
<1>4. QED
  BY <1>1, <1>2, <1>3 DEF Next, Debugger, ThreadStep

(* read_all_registers and set_pc on the stop of t leave the other threads' *)
(* caches alone, and rewind no thread behind its entry.                    *)
LEMMA RegistersRead ==
  ASSUME ThreadInv, NEW t \in Tids, kern[t] = "stopped", fresh[t], ReadRegisters(t)
  PROVE  /\ rip' \in [Tids -> Nat] /\ cpc' \in [Tids -> Nat]
         /\ \A u \in Tids \ {t} : cpc'[u] = cpc[u]
         /\ poke = "tid" =>
              /\ \A u \in Tids \ {t} : rip'[u] = rip[u]
              /\ rip'[t] >= Entry[t]
<1> USE Consts DEF ThreadInv, KernTypes, BookTypes
<1>1. CASE IsSiteTrap(t)
  <2>1. rip[t] - 1 \in Nat
    BY <1>1, SiteInCode DEF IsSiteTrap
  <2>2. Poked(t) \in Tids /\ (poke = "tid" => Poked(t) = t)
    BY DEF Poked
  <2>3. poke = "tid" => rip[t] - 1 >= Entry[t] /\ Entry[t] \in Nat
    BY <1>1 DEF IsSiteTrap, TrapAhead
  <2>4. \/ rip' = rip
        \/ rip' = [rip EXCEPT ![Poked(t)] = rip[t] - 1]
    BY <1>1 DEF ReadRegisters
  <2>5. cpc' = [cpc EXCEPT ![t] = rip[t] - 1]
    BY <1>1 DEF ReadRegisters
  <2>6. cpc' \in [Tids -> Nat] /\ \A u \in Tids \ {t} : cpc'[u] = cpc[u]
    BY <2>1, <2>5
  <2>7. rip' \in [Tids -> Nat]
    BY <2>1, <2>2, <2>4
  <2>8. poke = "tid" => rip'[t] >= Entry[t] /\ \A u \in Tids \ {t} : rip'[u] = rip[u]
    BY <2>1, <2>2, <2>3, <2>4 DEF RipInCode
  <2>9. QED
    BY <2>6, <2>7, <2>8
<1>2. CASE ~IsSiteTrap(t)
  <2>1. rip' = rip /\ cpc' = [cpc EXCEPT ![t] = rip[t]]
    BY <1>2 DEF ReadRegisters
  <2>2. cpc' \in [Tids -> Nat] /\ \A u \in Tids \ {t} : cpc'[u] = cpc[u]
    BY <2>1
  <2>3. QED
    BY <2>1, <2>2 DEF RipInCode
<1>3. QED
  BY <1>1, <1>2

(* What a clone changes: two threads of the kernel, nothing of the debugger. *)
CloneChanges(t, new) ==
  /\ kern[t] = "running" /\ ~sigq[t] /\ kern[new] = "absent" /\ new # t
  /\ \A u \in Tids :
       u # t /\ u # new => kern'[u] = kern[u] /\ cause'[u] = cause[u] /\ (fresh'[u] <=> fresh[u])
  /\ kern'[t] = "stopped" /\ cause'[t] = "clone" /\ fresh'[t]
  /\ kern'[new] = "stopped" /\ cause'[new] = "sigstop" /\ fresh'[new]
  /\ sigq' = sigq /\ threads' = threads /\ state' = state /\ pend' = pend
  /\ cpc' = cpc /\ tracked' = tracked /\ siteOn' = siteOn
  /\ pc' = pc /\ tid' = tid /\ todo' = todo /\ turn' = turn

LEMMA CloneEffect ==
  ASSUME ThreadInv, NEW t \in Tids, NEW new \in Tids, Clone(t, new)
  PROVE  CloneChanges(t, new)
<1> USE DEF ThreadInv, KernTypes
<1>1. kern[t] = "running" /\ ~sigq[t] /\ kern[new] = "absent"
  BY DEF Clone, CanExecute
<1>2. new # t
  BY <1>1
<1>3. kern' = [kern EXCEPT ![t] = "stopped", ![new] = "stopped"]
  BY DEF Clone
<1>4. cause' = [cause EXCEPT ![t] = "clone", ![new] = "sigstop"]
  BY DEF Clone
<1>5. fresh' = [fresh EXCEPT ![t] = TRUE, ![new] = TRUE]
  BY DEF Clone
<1>6. \A u \in Tids :
        u # t /\ u # new => kern'[u] = kern[u] /\ cause'[u] = cause[u] /\ (fresh'[u] <=> fresh[u])
  BY <1>3, <1>4, <1>5
<1>7. /\ kern'[t] = "stopped" /\ cause'[t] = "clone" /\ fresh'[t]
      /\ kern'[new] = "stopped" /\ cause'[new] = "sigstop" /\ fresh'[new]
  BY <1>2, <1>3, <1>4, <1>5
<1>8. UNCHANGED <<sigq, bookVars, siteOn, ctlVars>>
  BY DEF Clone
<1>9. QED
  BY <1>1, <1>2, <1>6, <1>7, <1>8 DEF CloneChanges, bookVars, ctlVars

(* The kernel's fields keep their types. *)
LEMMA KernTypeStep == ThreadInv /\ [Next]_vars => KernTypes'
<1> SUFFICES ASSUME ThreadInv, [Next]_vars PROVE KernTypes'
  OBVIOUS
<1> USE Consts DEF ThreadInv, KernTypes, kernVars, bookVars, ctlVars, histVars, params
<1>1. ASSUME NEW t \in Tids, DeliverSigstop(t)
      PROVE  KernTypes'
  BY <1>1 DEF DeliverSigstop, StopFor
<1>2. ASSUME NEW t \in Tids, HitTrap(t)
      PROVE  KernTypes'
  BY <1>2 DEF HitTrap, CanExecute, StopFor
<1>3. ASSUME NEW t \in Tids, Execute(t)
      PROVE  KernTypes'
  <2>1. CASE stepping[t]
    <3>1. kern' = [kern EXCEPT ![t] = "stopped"] /\ cause' = [cause EXCEPT ![t] = "step"]
      BY <1>3, <2>1 DEF Execute, StopFor
    <3>2. fresh' = [fresh EXCEPT ![t] = TRUE] /\ stepping' = [stepping EXCEPT ![t] = FALSE]
      BY <1>3, <2>1 DEF Execute, StopFor
    <3>3. UNCHANGED <<sigq, params>> /\ rip' = [rip EXCEPT ![t] = @ + 1]
      BY <1>3 DEF Execute
    <3>4. QED
      BY <1>3, <3>1, <3>2, <3>3
  <2>2. CASE ~stepping[t]
    BY <1>3, <2>2 DEF Execute, CanExecute, StopFor
  <2>3. QED
    BY <2>1, <2>2
<1>4. ASSUME NEW t \in Tids, Raise(t)
      PROVE  KernTypes'
  BY <1>4 DEF Raise, CanExecute, StopFor
<1>5. ASSUME NEW t \in Tids, Exit(t)
      PROVE  KernTypes'
  BY <1>5 DEF Exit, CanExecute
<1>6. ASSUME NEW t \in Tids, NEW new \in Tids, Clone(t, new)
      PROVE  KernTypes'
  <2>1. kern' \in [Tids -> {"absent", "running", "stopped", "zombie", "reaped"}]
    BY <1>6 DEF Clone
  <2>2. cause' \in [Tids -> {"none", "clone", "sigstop", "trap", "step", "signal", "exit"}]
    BY <1>6 DEF Clone
  <2>3. fresh' \in [Tids -> BOOLEAN]
    BY <1>6 DEF Clone
  <2>4. stepping' \in [Tids -> BOOLEAN]
    BY <1>6 DEF Clone
  <2>5. rip' \in [Tids -> Nat]
    BY <1>6 DEF Clone
  <2>6. UNCHANGED <<sigq, params>>
    BY <1>6 DEF Clone
  <2>7. QED
    BY <2>1, <2>2, <2>3, <2>4, <2>5, <2>6
<1>7. CASE ResumeAll
  BY <1>7 DEF ResumeAll, Goto
<1>8. ASSUME NEW t \in Tids, StepOverBegins(t)
      PROVE  KernTypes'
  BY <1>8 DEF StepOverBegins, BeginStepOver, Restarted, Goto
<1>9. ASSUME NEW t \in Tids, StepOverFails(t)
      PROVE  KernTypes'
  BY <1>9 DEF StepOverFails, DisableFails, Throws
<1>10. ASSUME NEW t \in Tids, StepOverSkipped(t)
      PROVE  KernTypes'
  BY <1>10 DEF StepOverSkipped, Goto
<1>11. CASE OverDone
  BY <1>11 DEF OverDone, Goto
<1>12. ASSUME NEW t \in Tids, ContinueNext(t)
      PROVE  KernTypes'
  BY <1>12 DEF ContinueNext, Continued, ContinueFails, Restarted, Goto, Throws
<1>13. CASE ContinueDone
  BY <1>13 DEF ContinueDone
<1>14. CASE Swallow
  BY <1>14 DEF Swallow, Collected
<1>15. CASE SingleStep
  BY <1>15 DEF SingleStep, Restarted, Throws
<1>16. CASE EndStepOver
  BY <1>16 DEF EndStepOver, Collected, SiteAfterStep, Throws
<1>17. CASE WaitOnSignal
  BY <1>17 DEF WaitOnSignal
<1>18. CASE ResumeContinue
  BY <1>18 DEF ResumeContinue, Continued, ContinueFails, Restarted, Throws
<1>19. ASSUME NEW t \in Tids, WaitIgnores(t)
      PROVE  KernTypes'
  BY <1>19 DEF WaitIgnores, Collected, Goto
<1>20. ASSUME NEW t \in Tids, WaitReports(t)
      PROVE  KernTypes'
  <2>1. kern[t] = "stopped" /\ fresh[t] /\ ReadRegisters(t)
    BY <1>20 DEF WaitReports, Collected, AfterWait, ReadRegisters
  <2>2. rip' \in [Tids -> Nat]
    BY <2>1, RegistersRead
  <2>3. QED
    BY <1>20, <2>1, <2>2 DEF WaitReports, Collected, AfterWait, ReadRegisters
<1>21. ASSUME NEW t \in Tids, WaitPokeFails(t)
      PROVE  KernTypes'
  <2>1. kern[t] = "stopped" /\ fresh[t] /\ ReadRegisters(t)
    BY <1>21 DEF WaitPokeFails, Collected, Throws, ReadRegisters
  <2>2. rip' \in [Tids -> Nat]
    BY <2>1, RegistersRead
  <2>3. QED
    BY <1>21, <2>1, <2>2 DEF WaitPokeFails, Collected, Throws, ReadRegisters
<1>22. ASSUME NEW t \in Tids, WaitSeesExit(t)
      PROVE  KernTypes'
  BY <1>22 DEF WaitSeesExit, Collected
<1>23. CASE StopRunning
  BY <1>23 DEF StopRunning, Goto
<1>24. ASSUME NEW t \in Tids, StopNext(t)
      PROVE  KernTypes'
  BY <1>24 DEF StopNext, Goto
<1>25. CASE StopCollects
  <2>1. CASE Gone(tid)
    BY <1>25, <2>1 DEF StopCollects, Collected, Throws, ReadRegisters
  <2>2. CASE ~Gone(tid)
    <3>1. kern[tid] = "stopped" /\ fresh[tid] /\ ReadRegisters(tid) /\ tid \in Tids
      BY <1>25, <2>2 DEF StopCollects, Collected, Gone, KernInv, KernOf, CtlTypes
    <3>2. rip' \in [Tids -> Nat]
      BY <3>1, RegistersRead
    <3>3. QED
      BY <1>25, <2>2, <3>1, <3>2 DEF StopCollects, Collected, Throws, ReadRegisters
  <2>3. QED
    BY <2>1, <2>2
<1>26. CASE StopDone
  BY <1>26 DEF StopDone
<1>27. CASE Cleanup(stopTid)
  BY <1>27 DEF Cleanup
<1>28. CASE UNCHANGED vars
  BY <1>28 DEF vars
<1> HIDE DEF ThreadInv, KernTypes, kernVars, bookVars, ctlVars, histVars, params
<1>29. QED
  BY <1>1, <1>2, <1>3, <1>4, <1>5, <1>6, <1>7, <1>8, <1>9, <1>10, <1>11, <1>12, <1>13,
     <1>14, <1>15, <1>16, <1>17, <1>18, <1>19, <1>20, <1>21, <1>22, <1>23, <1>24, <1>25,
     <1>26, <1>27, <1>28, NextCases

(* A rewound thread does not leave its code. *)
LEMMA RipInCodeStep == ThreadInv /\ [Next]_vars => RipInCode'
<1> SUFFICES ASSUME ThreadInv, [Next]_vars PROVE RipInCode'
  OBVIOUS
<1> USE Consts DEF ThreadInv, KernTypes, RipInCode, TrapAhead, kernVars, bookVars,
                   ctlVars, histVars, params
<1>1. ASSUME NEW t \in Tids, DeliverSigstop(t)
      PROVE  RipInCode'
  BY <1>1 DEF DeliverSigstop, StopFor
<1>2. ASSUME NEW t \in Tids, HitTrap(t)
      PROVE  RipInCode'
  BY <1>2 DEF HitTrap, CanExecute, StopFor
<1>3. ASSUME NEW t \in Tids, Execute(t)
      PROVE  RipInCode'
  BY <1>3 DEF Execute, CanExecute, StopFor
<1>4. ASSUME NEW t \in Tids, Raise(t)
      PROVE  RipInCode'
  BY <1>4 DEF Raise, CanExecute, StopFor
<1>5. ASSUME NEW t \in Tids, Exit(t)
      PROVE  RipInCode'
  BY <1>5 DEF Exit, CanExecute
<1>6. ASSUME NEW t \in Tids, NEW new \in Tids, Clone(t, new)
      PROVE  RipInCode'
  BY <1>6 DEF Clone, CanExecute
<1>7. CASE ResumeAll
  BY <1>7 DEF ResumeAll, Goto
<1>8. ASSUME NEW t \in Tids, StepOverBegins(t)
      PROVE  RipInCode'
  BY <1>8 DEF StepOverBegins, BeginStepOver, Restarted, Goto
<1>9. ASSUME NEW t \in Tids, StepOverFails(t)
      PROVE  RipInCode'
  BY <1>9 DEF StepOverFails, DisableFails, Throws
<1>10. ASSUME NEW t \in Tids, StepOverSkipped(t)
      PROVE  RipInCode'
  BY <1>10 DEF StepOverSkipped, Goto
<1>11. CASE OverDone
  BY <1>11 DEF OverDone, Goto
<1>12. ASSUME NEW t \in Tids, ContinueNext(t)
      PROVE  RipInCode'
  BY <1>12 DEF ContinueNext, Continued, ContinueFails, Restarted, Goto, Throws
<1>13. CASE ContinueDone
  BY <1>13 DEF ContinueDone
<1>14. CASE Swallow
  BY <1>14 DEF Swallow, Collected
<1>15. CASE SingleStep
  BY <1>15 DEF SingleStep, Restarted, Throws
<1>16. CASE EndStepOver
  BY <1>16 DEF EndStepOver, Collected, SiteAfterStep, Throws
<1>17. CASE WaitOnSignal
  BY <1>17 DEF WaitOnSignal
<1>18. CASE ResumeContinue
  BY <1>18 DEF ResumeContinue, Continued, ContinueFails, Restarted, Throws
<1>19. ASSUME NEW t \in Tids, WaitIgnores(t)
      PROVE  RipInCode'
  BY <1>19 DEF WaitIgnores, Collected, Goto
<1>20. ASSUME NEW t \in Tids, WaitReports(t)
      PROVE  RipInCode'
  <2>1. kern[t] = "stopped" /\ fresh[t] /\ ReadRegisters(t)
    BY <1>20 DEF WaitReports, Collected, AfterWait, ReadRegisters
  <2>2. poke = "tid" => rip'[t] >= Entry[t] /\ \A u \in Tids \ {t} : rip'[u] = rip[u]
    BY <2>1, RegistersRead
  <2>3. QED
    BY <1>20, <2>1, <2>2 DEF WaitReports, Collected, AfterWait, ReadRegisters
<1>21. ASSUME NEW t \in Tids, WaitPokeFails(t)
      PROVE  RipInCode'
  <2>1. kern[t] = "stopped" /\ fresh[t] /\ ReadRegisters(t)
    BY <1>21 DEF WaitPokeFails, Collected, Throws, ReadRegisters
  <2>2. poke = "tid" => rip'[t] >= Entry[t] /\ \A u \in Tids \ {t} : rip'[u] = rip[u]
    BY <2>1, RegistersRead
  <2>3. QED
    BY <1>21, <2>1, <2>2 DEF WaitPokeFails, Collected, Throws, ReadRegisters
<1>22. ASSUME NEW t \in Tids, WaitSeesExit(t)
      PROVE  RipInCode'
  BY <1>22 DEF WaitSeesExit, Collected
<1>23. CASE StopRunning
  BY <1>23 DEF StopRunning, Goto
<1>24. ASSUME NEW t \in Tids, StopNext(t)
      PROVE  RipInCode'
  BY <1>24 DEF StopNext, Goto
<1>25. CASE StopCollects
  <2>1. CASE Gone(tid)
    BY <1>25, <2>1 DEF StopCollects, Collected, Throws, ReadRegisters
  <2>2. CASE ~Gone(tid)
    <3>1. kern[tid] = "stopped" /\ fresh[tid] /\ ReadRegisters(tid) /\ tid \in Tids
      BY <1>25, <2>2 DEF StopCollects, Collected, Gone, KernInv, KernOf, CtlTypes
    <3>2. poke = "tid" => rip'[tid] >= Entry[tid] /\ \A u \in Tids \ {tid} : rip'[u] = rip[u]
      BY <3>1, RegistersRead
    <3>3. QED
      BY <1>25, <2>2, <3>1, <3>2 DEF StopCollects, Collected, Throws, ReadRegisters
  <2>3. QED
    BY <2>1, <2>2
<1>26. CASE StopDone
  BY <1>26 DEF StopDone
<1>27. CASE Cleanup(stopTid)
  BY <1>27 DEF Cleanup
<1>28. CASE UNCHANGED vars
  BY <1>28 DEF vars
<1> HIDE DEF ThreadInv, KernTypes, RipInCode, TrapAhead, kernVars, bookVars, ctlVars,
            histVars, params
<1>29. QED
  BY <1>1, <1>2, <1>3, <1>4, <1>5, <1>6, <1>7, <1>8, <1>9, <1>10, <1>11, <1>12, <1>13,
     <1>14, <1>15, <1>16, <1>17, <1>18, <1>19, <1>20, <1>21, <1>22, <1>23, <1>24, <1>25,
     <1>26, <1>27, <1>28, NextCases

(* The debugger's thread table keeps its types. *)
LEMMA BookTypeStep == ThreadInv /\ [Next]_vars => BookTypes'
<1> SUFFICES ASSUME ThreadInv, [Next]_vars PROVE BookTypes'
  OBVIOUS
<1> USE Consts DEF ThreadInv, KernTypes, BookTypes, CtlTypes, kernVars, bookVars,
                   ctlVars, histVars, params
<1>1. ASSUME NEW t \in Tids, DeliverSigstop(t)
      PROVE  BookTypes'
  BY <1>1 DEF DeliverSigstop, StopFor
<1>2. ASSUME NEW t \in Tids, HitTrap(t)
      PROVE  BookTypes'
  BY <1>2 DEF HitTrap, CanExecute, StopFor
<1>3. ASSUME NEW t \in Tids, Execute(t)
      PROVE  BookTypes'
  BY <1>3 DEF Execute, CanExecute, StopFor
<1>4. ASSUME NEW t \in Tids, Raise(t)
      PROVE  BookTypes'
  BY <1>4 DEF Raise, CanExecute, StopFor
<1>5. ASSUME NEW t \in Tids, Exit(t)
      PROVE  BookTypes'
  BY <1>5 DEF Exit, CanExecute
<1>6. ASSUME NEW t \in Tids, NEW new \in Tids, Clone(t, new)
      PROVE  BookTypes'
  BY <1>6 DEF Clone, CanExecute
<1>7. CASE ResumeAll
  BY <1>7 DEF ResumeAll, Goto
<1>8. ASSUME NEW t \in Tids, StepOverBegins(t)
      PROVE  BookTypes'
  BY <1>8 DEF StepOverBegins, BeginStepOver, Restarted, Goto
<1>9. ASSUME NEW t \in Tids, StepOverFails(t)
      PROVE  BookTypes'
  BY <1>9 DEF StepOverFails, DisableFails, Throws
<1>10. ASSUME NEW t \in Tids, StepOverSkipped(t)
      PROVE  BookTypes'
  BY <1>10 DEF StepOverSkipped, Goto
<1>11. CASE OverDone
  BY <1>11 DEF OverDone, Goto
<1>12. ASSUME NEW t \in Tids, ContinueNext(t)
      PROVE  BookTypes'
  BY <1>12 DEF ContinueNext, Continued, ContinueFails, Restarted, Goto, Throws
<1>13. CASE ContinueDone
  BY <1>13 DEF ContinueDone
<1>14. CASE Swallow
  BY <1>14 DEF Swallow, Collected
<1>15. CASE SingleStep
  BY <1>15 DEF SingleStep, Restarted, Throws
<1>16. CASE EndStepOver
  BY <1>16 DEF EndStepOver, Collected, SiteAfterStep, Throws
<1>17. CASE WaitOnSignal
  BY <1>17 DEF WaitOnSignal
<1>18. CASE ResumeContinue
  BY <1>18 DEF ResumeContinue, Continued, ContinueFails, Restarted, Throws
<1>19. ASSUME NEW t \in Tids, WaitIgnores(t)
      PROVE  BookTypes'
  BY <1>19 DEF WaitIgnores, Collected, Goto
<1>20. ASSUME NEW t \in Tids, WaitReports(t)
      PROVE  BookTypes'
  <2>1. kern[t] = "stopped" /\ fresh[t] /\ ReadRegisters(t)
    BY <1>20 DEF WaitReports, Collected, AfterWait, ReadRegisters
  <2>2. cpc' \in [Tids -> Nat]
    BY <2>1, RegistersRead
  <2>3. QED
    BY <1>20, <2>1, <2>2 DEF WaitReports, Collected, AfterWait, ReadRegisters
<1>21. ASSUME NEW t \in Tids, WaitPokeFails(t)
      PROVE  BookTypes'
  <2>1. kern[t] = "stopped" /\ fresh[t] /\ ReadRegisters(t)
    BY <1>21 DEF WaitPokeFails, Collected, Throws, ReadRegisters
  <2>2. cpc' \in [Tids -> Nat]
    BY <2>1, RegistersRead
  <2>3. QED
    BY <1>21, <2>1, <2>2 DEF WaitPokeFails, Collected, Throws, ReadRegisters
<1>22. ASSUME NEW t \in Tids, WaitSeesExit(t)
      PROVE  BookTypes'
  BY <1>22 DEF WaitSeesExit, Collected
<1>23. CASE StopRunning
  BY <1>23 DEF StopRunning, Goto
<1>24. ASSUME NEW t \in Tids, StopNext(t)
      PROVE  BookTypes'
  BY <1>24 DEF StopNext, Goto
<1>25. CASE StopCollects
  <2>0. pend' \in [Tids -> BOOLEAN] /\ state' \in [Tids -> {"stopped", "running", "exited"}]
    <3>1. PendAfter \in BOOLEAN
      BY DEF PendAfter, CtlTypes
    <3>2. QED
      BY <1>25, <3>1 DEF StopCollects
  <2>1. CASE Gone(tid)
    BY <1>25, <2>0, <2>1 DEF StopCollects
  <2>2. CASE ~Gone(tid)
    <3>1. kern[tid] = "stopped" /\ fresh[tid] /\ ReadRegisters(tid) /\ tid \in Tids
      BY <1>25, <2>2 DEF StopCollects, Collected, Gone, KernInv, KernOf, CtlTypes
    <3>2. cpc' \in [Tids -> Nat]
      BY <3>1, RegistersRead
    <3>3. QED
      BY <1>25, <2>2, <3>1, <3>2, <2>0 DEF StopCollects
  <2>3. QED
    BY <2>1, <2>2
<1>26. CASE StopDone
  BY <1>26 DEF StopDone
<1>27. CASE Cleanup(stopTid)
  BY <1>27 DEF Cleanup
<1>28. CASE UNCHANGED vars
  BY <1>28 DEF vars
<1> HIDE DEF ThreadInv, KernTypes, BookTypes, CtlTypes, kernVars, bookVars, ctlVars,
            histVars, params
<1>29. QED
  BY <1>1, <1>2, <1>3, <1>4, <1>5, <1>6, <1>7, <1>8, <1>9, <1>10, <1>11, <1>12, <1>13,
     <1>14, <1>15, <1>16, <1>17, <1>18, <1>19, <1>20, <1>21, <1>22, <1>23, <1>24, <1>25,
     <1>26, <1>27, <1>28, NextCases

(* So do the places of the debugger, *)
LEMMA CtlTypeStep == ThreadInv /\ [Next]_vars => CtlTypes'
<1> SUFFICES ASSUME ThreadInv, [Next]_vars PROVE CtlTypes'
  OBVIOUS
<1> USE Consts DEF ThreadInv, BookTypes, CtlTypes, CtlInv, Stepping, kernVars, bookVars,
                   ctlVars, histVars, params
<1>1. ASSUME NEW t \in Tids, DeliverSigstop(t)
      PROVE  CtlTypes'
  BY <1>1 DEF DeliverSigstop, StopFor
<1>2. ASSUME NEW t \in Tids, HitTrap(t)
      PROVE  CtlTypes'
  BY <1>2 DEF HitTrap, CanExecute, StopFor
<1>3. ASSUME NEW t \in Tids, Execute(t)
      PROVE  CtlTypes'
  BY <1>3 DEF Execute, CanExecute, StopFor
<1>4. ASSUME NEW t \in Tids, Raise(t)
      PROVE  CtlTypes'
  BY <1>4 DEF Raise, CanExecute, StopFor
<1>5. ASSUME NEW t \in Tids, Exit(t)
      PROVE  CtlTypes'
  BY <1>5 DEF Exit, CanExecute
<1>6. ASSUME NEW t \in Tids, NEW new \in Tids, Clone(t, new)
      PROVE  CtlTypes'
  BY <1>6 DEF Clone, CanExecute
<1>7. CASE ResumeAll
  BY <1>7 DEF ResumeAll, Goto
<1>8. ASSUME NEW t \in Tids, StepOverBegins(t)
      PROVE  CtlTypes'
  BY <1>8 DEF StepOverBegins, BeginStepOver, Restarted, Goto
<1>9. ASSUME NEW t \in Tids, StepOverFails(t)
      PROVE  CtlTypes'
  BY <1>9 DEF StepOverFails, DisableFails, Throws
<1>10. ASSUME NEW t \in Tids, StepOverSkipped(t)
      PROVE  CtlTypes'
  BY <1>10 DEF StepOverSkipped, Goto
<1>11. CASE OverDone
  BY <1>11 DEF OverDone, Goto
<1>12. ASSUME NEW t \in Tids, ContinueNext(t)
      PROVE  CtlTypes'
  BY <1>12 DEF ContinueNext, Continued, ContinueFails, Restarted, Goto, Throws
<1>13. CASE ContinueDone
  BY <1>13 DEF ContinueDone
<1>14. CASE Swallow
  BY <1>14 DEF Swallow, Collected
<1>15. CASE SingleStep
  BY <1>15 DEF SingleStep, Restarted, Throws
<1>16. CASE EndStepOver
  <2>1. siteOn' \in BOOLEAN
    BY <1>16 DEF EndStepOver, SiteAfterStep, MemoryReachable
  <2>2. CASE MemoryReachable
    BY <1>16, <2>1, <2>2 DEF EndStepOver, Throws
  <2>3. CASE ~MemoryReachable
    BY <1>16, <2>1, <2>3 DEF EndStepOver, Throws
  <2>4. QED
    BY <2>2, <2>3
<1>17. CASE WaitOnSignal
  BY <1>17 DEF WaitOnSignal
<1>18. CASE ResumeContinue
  BY <1>18 DEF ResumeContinue, Continued, ContinueFails, Restarted, Throws
<1>19. ASSUME NEW t \in Tids, WaitIgnores(t)
      PROVE  CtlTypes'
  BY <1>19 DEF WaitIgnores, Collected, Goto
<1>20. ASSUME NEW t \in Tids, WaitReports(t)
      PROVE  CtlTypes'
  BY <1>20 DEF WaitReports, Collected, AfterWait
<1>21. ASSUME NEW t \in Tids, WaitPokeFails(t)
      PROVE  CtlTypes'
  BY <1>21 DEF WaitPokeFails, Collected, Throws
<1>22. ASSUME NEW t \in Tids, WaitSeesExit(t)
      PROVE  CtlTypes'
  BY <1>22 DEF WaitSeesExit, Collected
<1>23. CASE StopRunning
  BY <1>23 DEF StopRunning, Goto
<1>24. ASSUME NEW t \in Tids, StopNext(t)
      PROVE  CtlTypes'
  BY <1>24 DEF StopNext, Goto
<1>25. CASE StopCollects
  BY <1>25 DEF StopCollects, Collected, Throws
<1>26. CASE StopDone
  BY <1>26 DEF StopDone
<1>27. CASE Cleanup(stopTid)
  BY <1>27 DEF Cleanup
<1>28. CASE UNCHANGED vars
  BY <1>28 DEF vars
<1> HIDE DEF ThreadInv, BookTypes, CtlTypes, CtlInv, Stepping, kernVars, bookVars,
            ctlVars, histVars, params
<1>29. QED
  BY <1>1, <1>2, <1>3, <1>4, <1>5, <1>6, <1>7, <1>8, <1>9, <1>10, <1>11, <1>12, <1>13,
     <1>14, <1>15, <1>16, <1>17, <1>18, <1>19, <1>20, <1>21, <1>22, <1>23, <1>24, <1>25,
     <1>26, <1>27, <1>28, NextCases

(* and the histories. *)
LEMMA HistTypeStep == ThreadInv /\ [Next]_vars => HistTypes'
<1> SUFFICES ASSUME ThreadInv, [Next]_vars PROVE HistTypes'
  OBVIOUS
<1> USE Consts DEF ThreadInv, KernTypes, BookTypes, HistTypes, kernVars, bookVars,
                   ctlVars, histVars, params
<1>1. ASSUME NEW t \in Tids, DeliverSigstop(t)
      PROVE  HistTypes'
  BY <1>1 DEF DeliverSigstop, StopFor
<1>2. ASSUME NEW t \in Tids, HitTrap(t)
      PROVE  HistTypes'
  BY <1>2 DEF HitTrap, CanExecute, StopFor
<1>3. ASSUME NEW t \in Tids, Execute(t)
      PROVE  HistTypes'
  BY <1>3 DEF Execute, CanExecute, StopFor
<1>4. ASSUME NEW t \in Tids, Raise(t)
      PROVE  HistTypes'
  BY <1>4 DEF Raise, CanExecute, StopFor
<1>5. ASSUME NEW t \in Tids, Exit(t)
      PROVE  HistTypes'
  BY <1>5 DEF Exit, CanExecute
<1>6. ASSUME NEW t \in Tids, NEW new \in Tids, Clone(t, new)
      PROVE  HistTypes'
  BY <1>6 DEF Clone, CanExecute
<1>7. CASE ResumeAll
  BY <1>7 DEF ResumeAll, Goto
<1>8. ASSUME NEW t \in Tids, StepOverBegins(t)
      PROVE  HistTypes'
  <2>1. over' \in [Tids -> SUBSET Nat]
    <3>1. over[t] \union {cpc[t]} \in SUBSET Nat
      BY <1>8
    <3>2. over' = [over EXCEPT ![t] = over[t] \union {cpc[t]}]
      BY <1>8 DEF StepOverBegins, BeginStepOver
    <3>3. QED
      BY <3>1, <3>2
  <2>2. window' \in BOOLEAN
    BY <1>8 DEF StepOverBegins, BeginStepOver
  <2>3. passed' = passed
    BY <1>8 DEF StepOverBegins, BeginStepOver
  <2>4. QED
    BY <2>1, <2>2, <2>3
<1>9. ASSUME NEW t \in Tids, StepOverFails(t)
      PROVE  HistTypes'
  BY <1>9 DEF StepOverFails, DisableFails, Throws
<1>10. ASSUME NEW t \in Tids, StepOverSkipped(t)
      PROVE  HistTypes'
  BY <1>10 DEF StepOverSkipped, Goto
<1>11. CASE OverDone
  BY <1>11 DEF OverDone, Goto
<1>12. ASSUME NEW t \in Tids, ContinueNext(t)
      PROVE  HistTypes'
  BY <1>12 DEF ContinueNext, Continued, ContinueFails, Restarted, Goto, Throws
<1>13. CASE ContinueDone
  BY <1>13 DEF ContinueDone
<1>14. CASE Swallow
  BY <1>14 DEF Swallow, Collected
<1>15. CASE SingleStep
  BY <1>15 DEF SingleStep, Restarted, Throws
<1>16. CASE EndStepOver
  BY <1>16 DEF EndStepOver, Collected, SiteAfterStep, Throws
<1>17. CASE WaitOnSignal
  BY <1>17 DEF WaitOnSignal
<1>18. CASE ResumeContinue
  BY <1>18 DEF ResumeContinue, Continued, ContinueFails, Restarted, Throws
<1>19. ASSUME NEW t \in Tids, WaitIgnores(t)
      PROVE  HistTypes'
  BY <1>19 DEF WaitIgnores, Collected, Goto
<1>20. ASSUME NEW t \in Tids, WaitReports(t)
      PROVE  HistTypes'
  BY <1>20 DEF WaitReports, Collected, AfterWait
<1>21. ASSUME NEW t \in Tids, WaitPokeFails(t)
      PROVE  HistTypes'
  BY <1>21 DEF WaitPokeFails, Collected, Throws
<1>22. ASSUME NEW t \in Tids, WaitSeesExit(t)
      PROVE  HistTypes'
  BY <1>22 DEF WaitSeesExit, Collected
<1>23. CASE StopRunning
  BY <1>23 DEF StopRunning, Goto
<1>24. ASSUME NEW t \in Tids, StopNext(t)
      PROVE  HistTypes'
  BY <1>24 DEF StopNext, Goto
<1>25. CASE StopCollects
  BY <1>25 DEF StopCollects, Collected, Throws
<1>26. CASE StopDone
  BY <1>26 DEF StopDone
<1>27. CASE Cleanup(stopTid)
  BY <1>27 DEF Cleanup
<1>28. CASE UNCHANGED vars
  BY <1>28 DEF vars
<1> HIDE DEF ThreadInv, KernTypes, BookTypes, HistTypes, kernVars, bookVars, ctlVars,
            histVars, params
<1>29. QED
  BY <1>1, <1>2, <1>3, <1>4, <1>5, <1>6, <1>7, <1>8, <1>9, <1>10, <1>11, <1>12, <1>13,
     <1>14, <1>15, <1>16, <1>17, <1>18, <1>19, <1>20, <1>21, <1>22, <1>23, <1>24, <1>25,
     <1>26, <1>27, <1>28, NextCases

(* Every loop works on threads of m_Threads, and belongs to its call. *)
LEMMA CtlStep == ThreadInv /\ [Next]_vars => CtlInv'
<1> SUFFICES ASSUME ThreadInv, [Next]_vars PROVE CtlInv'
  OBVIOUS
<1> USE DEF ThreadInv, CtlTypes, CtlInv, Stepping, kernVars, bookVars, ctlVars,
            histVars, params
<1>1. ASSUME NEW t \in Tids, DeliverSigstop(t)
      PROVE  CtlInv'
  BY <1>1 DEF DeliverSigstop, StopFor
<1>2. ASSUME NEW t \in Tids, HitTrap(t)
      PROVE  CtlInv'
  BY <1>2 DEF HitTrap, CanExecute, StopFor
<1>3. ASSUME NEW t \in Tids, Execute(t)
      PROVE  CtlInv'
  BY <1>3 DEF Execute, CanExecute, StopFor
<1>4. ASSUME NEW t \in Tids, Raise(t)
      PROVE  CtlInv'
  BY <1>4 DEF Raise, CanExecute, StopFor
<1>5. ASSUME NEW t \in Tids, Exit(t)
      PROVE  CtlInv'
  BY <1>5 DEF Exit, CanExecute
<1>6. ASSUME NEW t \in Tids, NEW new \in Tids, Clone(t, new)
      PROVE  CtlInv'
  BY <1>6 DEF Clone, CanExecute
<1>7. CASE ResumeAll
  BY <1>7 DEF ResumeAll, Goto
<1>8. ASSUME NEW t \in Tids, StepOverBegins(t)
      PROVE  CtlInv'
  BY <1>8 DEF StepOverBegins, BeginStepOver, Restarted, Goto
<1>9. ASSUME NEW t \in Tids, StepOverFails(t)
      PROVE  CtlInv'
  BY <1>9 DEF StepOverFails, DisableFails, Throws
<1>10. ASSUME NEW t \in Tids, StepOverSkipped(t)
      PROVE  CtlInv'
  BY <1>10 DEF StepOverSkipped, Goto
<1>11. CASE OverDone
  BY <1>11 DEF OverDone, Goto
<1>12. ASSUME NEW t \in Tids, ContinueNext(t)
      PROVE  CtlInv'
  BY <1>12 DEF ContinueNext, Continued, ContinueFails, Restarted, Goto, Throws
<1>13. CASE ContinueDone
  BY <1>13 DEF ContinueDone
<1>14. CASE Swallow
  BY <1>14 DEF Swallow, Collected
<1>15. CASE SingleStep
  BY <1>15 DEF SingleStep, Restarted, Throws
<1>16. CASE EndStepOver
  BY <1>16 DEF EndStepOver, Collected, SiteAfterStep, Throws
<1>17. CASE WaitOnSignal
  BY <1>17 DEF WaitOnSignal
<1>18. CASE ResumeContinue
  BY <1>18 DEF ResumeContinue, Continued, ContinueFails, Restarted, Throws
<1>19. ASSUME NEW t \in Tids, WaitIgnores(t)
      PROVE  CtlInv'
  BY <1>19 DEF WaitIgnores, Collected, Goto
<1>20. ASSUME NEW t \in Tids, WaitReports(t)
      PROVE  CtlInv'
  BY <1>20 DEF WaitReports, Collected, AfterWait
<1>21. ASSUME NEW t \in Tids, WaitPokeFails(t)
      PROVE  CtlInv'
  BY <1>21 DEF WaitPokeFails, Collected, Throws
<1>22. ASSUME NEW t \in Tids, WaitSeesExit(t)
      PROVE  CtlInv'
  BY <1>22 DEF WaitSeesExit, Collected
<1>23. CASE StopRunning
  BY <1>23 DEF StopRunning, Goto
<1>24. ASSUME NEW t \in Tids, StopNext(t)
      PROVE  CtlInv'
  BY <1>24 DEF StopNext, Goto
<1>25. CASE StopCollects
  BY <1>25 DEF StopCollects, Collected, Throws
<1>26. CASE StopDone
  BY <1>26 DEF StopDone
<1>27. CASE Cleanup(stopTid)
  BY <1>27 DEF Cleanup
<1>28. CASE UNCHANGED vars
  BY <1>28 DEF vars
<1> HIDE DEF ThreadInv, CtlTypes, CtlInv, Stepping, kernVars, bookVars, ctlVars,
            histVars, params
<1>29. QED
  BY <1>1, <1>2, <1>3, <1>4, <1>5, <1>6, <1>7, <1>8, <1>9, <1>10, <1>11, <1>12, <1>13,
     <1>14, <1>15, <1>16, <1>17, <1>18, <1>19, <1>20, <1>21, <1>22, <1>23, <1>24, <1>25,
     <1>26, <1>27, <1>28, NextCases

(* m_Threads and the kernel's threads stay related. *)
LEMMA KernStep == ThreadInv /\ [Next]_vars => KernInv'
<1> SUFFICES ASSUME ThreadInv, [Next]_vars PROVE KernInv'
  OBVIOUS
<1>0. \A t, new \in Tids : Clone(t, new) => CloneChanges(t, new)
  BY CloneEffect
<1>t. KernTypes'
  BY KernTypeStep
<1> USE DEF ThreadInv, KernTypes, BookTypes, CtlTypes, CtlInv, KernInv, KernOf,
            ForgottenThreadsAreGone, Stepping, kernVars, bookVars, ctlVars, histVars,
            params
<1>1. ASSUME NEW t \in Tids, DeliverSigstop(t)
      PROVE  KernInv'
  <2>1. ForgottenThreadsAreGone'
    BY <1>1 DEF DeliverSigstop, StopFor
  <2>2. ASSUME NEW u \in Tids
        PROVE  KernOf(u)'
    <3>1. CASE u = t
      BY <1>1, <3>1 DEF DeliverSigstop, StopFor
    <3>2. CASE u # t
      BY <1>1, <3>2 DEF DeliverSigstop, StopFor
    <3>3. QED
      BY <3>1, <3>2
  <2>3. QED
    BY <2>1, <2>2
<1>2. ASSUME NEW t \in Tids, HitTrap(t)
      PROVE  KernInv'
  <2>1. ForgottenThreadsAreGone'
    BY <1>2 DEF HitTrap, CanExecute, StopFor
  <2>2. ASSUME NEW u \in Tids
        PROVE  KernOf(u)'
    <3>1. CASE u = t
      BY <1>2, <3>1 DEF HitTrap, CanExecute, StopFor
    <3>2. CASE u # t
      BY <1>2, <3>2 DEF HitTrap, CanExecute, StopFor
    <3>3. QED
      BY <3>1, <3>2
  <2>3. QED
    BY <2>1, <2>2
<1>3. ASSUME NEW t \in Tids, Execute(t)
      PROVE  KernInv'
  <2>1. ForgottenThreadsAreGone'
    BY <1>3 DEF Execute, CanExecute, StopFor
  <2>2. ASSUME NEW u \in Tids
        PROVE  KernOf(u)'
    <3>1. CASE u = t
      BY <1>3, <3>1 DEF Execute, CanExecute, StopFor
    <3>2. CASE u # t
      BY <1>3, <3>2 DEF Execute, CanExecute, StopFor
    <3>3. QED
      BY <3>1, <3>2
  <2>3. QED
    BY <2>1, <2>2
<1>4. ASSUME NEW t \in Tids, Raise(t)
      PROVE  KernInv'
  <2>1. ForgottenThreadsAreGone'
    BY <1>4 DEF Raise, CanExecute, StopFor
  <2>2. ASSUME NEW u \in Tids
        PROVE  KernOf(u)'
    <3>1. CASE u = t
      BY <1>4, <3>1 DEF Raise, CanExecute, StopFor
    <3>2. CASE u # t
      BY <1>4, <3>2 DEF Raise, CanExecute, StopFor
    <3>3. QED
      BY <3>1, <3>2
  <2>3. QED
    BY <2>1, <2>2
<1>5. ASSUME NEW t \in Tids, Exit(t)
      PROVE  KernInv'
  <2>1. ForgottenThreadsAreGone'
    BY <1>5 DEF Exit, CanExecute
  <2>2. ASSUME NEW u \in Tids
        PROVE  KernOf(u)'
    <3>1. CASE u = t
      BY <1>5, <3>1 DEF Exit, CanExecute
    <3>2. CASE u # t
      BY <1>5, <3>2 DEF Exit, CanExecute
    <3>3. QED
      BY <3>1, <3>2
  <2>3. QED
    BY <2>1, <2>2
<1>6. ASSUME NEW t \in Tids, NEW new \in Tids, Clone(t, new)
      PROVE  KernInv'
  <2>0. CloneChanges(t, new)
    BY <1>0, <1>6
  <2>1. ForgottenThreadsAreGone'
    <3>1. ASSUME NEW u \in tracked \ threads
          PROVE  kern'[u] = "reaped"
      <4>1. u \in Tids /\ kern[u] = "reaped"
        BY <3>1
      <4>2. u # t /\ u # new
        BY <2>0, <4>1 DEF CloneChanges
      <4>3. kern'[u] = kern[u]
        BY <2>0, <4>1, <4>2 DEF CloneChanges
      <4>4. QED
        BY <4>1, <4>3
    <3>2. QED
      BY <2>0, <3>1 DEF CloneChanges
  <2>2. ASSUME NEW u \in Tids
        PROVE  KernOf(u)'
    <3>1. CASE u = t
      BY <1>t, <2>0, <3>1 DEF CloneChanges
    <3>2. CASE u = new
      BY <1>t, <2>0, <3>2 DEF CloneChanges
    <3>3. CASE u # t /\ u # new
      <4>1. kern'[u] = kern[u] /\ cause'[u] = cause[u] /\ (fresh'[u] <=> fresh[u])
        BY <2>0, <3>3 DEF CloneChanges
      <4>2. UNCHANGED <<sigq, pend, threads, state, cpc, pc, tid>>
        BY <2>0 DEF CloneChanges
      <4>3. QED
        BY <4>1, <4>2
    <3>4. QED
      BY <3>1, <3>2, <3>3
  <2>3. QED
    BY <2>1, <2>2
<1>7. CASE ResumeAll
  BY <1>7 DEF ResumeAll, Goto
<1>8. ASSUME NEW t \in Tids, StepOverBegins(t)
      PROVE  KernInv'
  <2>1. ForgottenThreadsAreGone'
    BY <1>8 DEF StepOverBegins, BeginStepOver, Restarted, Goto
  <2>2. ASSUME NEW u \in Tids
        PROVE  KernOf(u)'
    <3>1. CASE u = t
      BY <1>8, <3>1 DEF StepOverBegins, BeginStepOver, Restarted, Goto
    <3>2. CASE u # t
      BY <1>8, <3>2 DEF StepOverBegins, BeginStepOver, Restarted, Goto
    <3>3. QED
      BY <3>1, <3>2
  <2>3. QED
    BY <2>1, <2>2
<1>9. ASSUME NEW t \in Tids, StepOverFails(t)
      PROVE  KernInv'
  BY <1>9 DEF StepOverFails, DisableFails, Throws
<1>10. ASSUME NEW t \in Tids, StepOverSkipped(t)
      PROVE  KernInv'
  BY <1>10 DEF StepOverSkipped, Goto
<1>11. CASE OverDone
  BY <1>11 DEF OverDone, Goto
<1>12. ASSUME NEW t \in Tids, ContinueNext(t)
      PROVE  KernInv'
  <2>1. CASE Continued(t) /\ Goto("continue", t, todo \ {t}) /\ UNCHANGED <<back, stopTid, turn, threw>>
    BY <1>12, <2>1 DEF ContinueNext, Continued, Restarted, Goto
  <2>2. CASE ContinueFails(t)
    BY <1>12, <2>2 DEF ContinueNext, ContinueFails, Throws
  <2>3. QED
    BY <1>12, <2>1, <2>2 DEF ContinueNext
<1>13. CASE ContinueDone
  BY <1>13 DEF ContinueDone
<1>14. CASE Swallow
  BY <1>14 DEF Swallow, Collected
<1>15. CASE SingleStep
  BY <1>15 DEF SingleStep, Restarted, Throws
<1>16. CASE EndStepOver
  BY <1>16 DEF EndStepOver, Collected, SiteAfterStep, Throws
<1>17. CASE WaitOnSignal
  BY <1>17 DEF WaitOnSignal
<1>18. CASE ResumeContinue
  BY <1>18 DEF ResumeContinue, Continued, ContinueFails, Restarted, Throws
<1>19. ASSUME NEW t \in Tids, WaitIgnores(t)
      PROVE  KernInv'
  BY <1>19 DEF WaitIgnores, Collected, Goto
<1>20. ASSUME NEW t \in Tids, WaitReports(t)
      PROVE  KernInv'
  <2>0. /\ t \in threads /\ ~fresh'[t] /\ kern'[t] = "stopped" /\ kern[t] = "stopped"
        /\ threads' = threads /\ state'[t] = "stopped"
    BY <1>20 DEF WaitReports, Collected, AfterWait, ReadRegisters, Ignored
  <2>1. ForgottenThreadsAreGone'
    BY <1>20 DEF WaitReports, Collected, AfterWait, ReadRegisters
  <2>2. ASSUME NEW u \in Tids
        PROVE  KernOf(u)'
    <3>1. CASE u = t
      BY <2>0, <3>1
    <3>2. CASE u # t
      BY <1>20, <3>2 DEF WaitReports, Collected, AfterWait, ReadRegisters
    <3>3. QED
      BY <3>1, <3>2
  <2>3. QED
    BY <2>1, <2>2
<1>21. ASSUME NEW t \in Tids, WaitPokeFails(t)
      PROVE  KernInv'
  <2>0. /\ t \in threads /\ ~fresh'[t] /\ kern'[t] = "stopped" /\ kern[t] = "stopped"
        /\ threads' = threads /\ state' = state
    BY <1>21 DEF WaitPokeFails, Collected, Throws, ReadRegisters, Ignored
  <2>1. ForgottenThreadsAreGone'
    BY <1>21 DEF WaitPokeFails, Collected, Throws, ReadRegisters
  <2>2. ASSUME NEW u \in Tids
        PROVE  KernOf(u)'
    <3>1. CASE u = t
      BY <2>0, <3>1
    <3>2. CASE u # t
      BY <1>21, <3>2 DEF WaitPokeFails, Collected, Throws, ReadRegisters
    <3>3. QED
      BY <3>1, <3>2
  <2>3. QED
    BY <2>1, <2>2
<1>22. ASSUME NEW t \in Tids, WaitSeesExit(t)
      PROVE  KernInv'
  BY <1>22 DEF WaitSeesExit, Collected
<1>23. CASE StopRunning
  BY <1>23 DEF StopRunning, Goto
<1>24. ASSUME NEW t \in Tids, StopNext(t)
      PROVE  KernInv'
  BY <1>24 DEF StopNext, Goto
<1>25. CASE StopCollects
  <2>0. /\ pc = "stop_wait" /\ pc' \in {"stop", "idle"} /\ tid' = tid
        /\ tid \in threads /\ fresh[tid] /\ ~fresh'[tid] /\ threads' = threads
        /\ kern'[tid] = IF kern[tid] = "zombie" THEN "reaped" ELSE kern[tid]
        /\ pend'[tid] = PendAfter /\ sigq' = sigq /\ cause' = cause
    BY <1>25 DEF StopCollects, Collected, Throws
  <2>1. ForgottenThreadsAreGone'
    BY <1>25 DEF StopCollects, Collected, Throws, ReadRegisters
  <2>2. ASSUME NEW u \in Tids
        PROVE  KernOf(u)'
    <3>1. CASE u = tid
      BY <1>25, <2>0, <3>1 DEF StopCollects, Gone
    <3>2. CASE u # tid
      BY <1>25, <3>2 DEF StopCollects, Collected, Throws, ReadRegisters
    <3>3. QED
      BY <3>1, <3>2
  <2>3. QED
    BY <2>1, <2>2
<1>26. CASE StopDone
  BY <1>26 DEF StopDone
<1>27. CASE Cleanup(stopTid)
  BY <1>27 DEF Cleanup
<1>28. CASE UNCHANGED vars
  BY <1>28 DEF vars
<1> HIDE DEF ThreadInv, KernTypes, BookTypes, CtlTypes, CtlInv, KernInv, KernOf,
            ForgottenThreadsAreGone, Stepping, kernVars, bookVars, ctlVars, histVars,
            params
<1>29. QED
  BY <1>1, <1>2, <1>3, <1>4, <1>5, <1>6, <1>7, <1>8, <1>9, <1>10, <1>11, <1>12, <1>13,
     <1>14, <1>15, <1>16, <1>17, <1>18, <1>19, <1>20, <1>21, <1>22, <1>23, <1>24, <1>25,
     <1>26, <1>27, <1>28, NextCases

(* What restarts a thread records it as running, or is a step over. *)
LEMMA SeenStep == ThreadInv /\ [Next]_vars => SeenInv'
<1> SUFFICES ASSUME ThreadInv, [Next]_vars PROVE SeenInv'
  OBVIOUS
<1>0. \A t, new \in Tids : Clone(t, new) => CloneChanges(t, new)
  BY CloneEffect
<1>t. KernTypes'
  BY KernTypeStep
<1> USE DEF ThreadInv, KernTypes, BookTypes, CtlTypes, CtlInv, KernInv, KernOf, SeenInv,
            Running, Stepping, kernVars, bookVars, ctlVars, histVars, params
<1>1. ASSUME NEW t \in Tids, DeliverSigstop(t)
      PROVE  SeenInv'
  BY <1>1 DEF DeliverSigstop, StopFor
<1>2. ASSUME NEW t \in Tids, HitTrap(t)
      PROVE  SeenInv'
  BY <1>2 DEF HitTrap, CanExecute, StopFor
<1>3. ASSUME NEW t \in Tids, Execute(t)
      PROVE  SeenInv'
  BY <1>3 DEF Execute, CanExecute, StopFor
<1>4. ASSUME NEW t \in Tids, Raise(t)
      PROVE  SeenInv'
  BY <1>4 DEF Raise, CanExecute, StopFor
<1>5. ASSUME NEW t \in Tids, Exit(t)
      PROVE  SeenInv'
  BY <1>5 DEF Exit, CanExecute
<1>6. ASSUME NEW t \in Tids, NEW new \in Tids, Clone(t, new)
      PROVE  SeenInv'
  <2>0. CloneChanges(t, new)
    BY <1>0, <1>6
  <2>1. ASSUME NEW u \in Tids, kern'[u] = "running"
        PROVE  state[u] = "running" \/ (pc \in {"swallow", "stepped"} /\ u = tid)
    <3>1. u # t /\ u # new
      BY <2>0, <2>1 DEF CloneChanges
    <3>2. kern[u] = "running"
      BY <2>0, <2>1, <3>1 DEF CloneChanges
    <3>3. QED
      BY <3>2
  <2>2. QED
    BY <2>0, <2>1 DEF CloneChanges
<1>7. CASE ResumeAll
  BY <1>7 DEF ResumeAll, Goto
<1>8. ASSUME NEW t \in Tids, StepOverBegins(t)
      PROVE  SeenInv'
  BY <1>8 DEF StepOverBegins, BeginStepOver, Restarted, Goto
<1>9. ASSUME NEW t \in Tids, StepOverFails(t)
      PROVE  SeenInv'
  BY <1>9 DEF StepOverFails, DisableFails, Throws
<1>10. ASSUME NEW t \in Tids, StepOverSkipped(t)
      PROVE  SeenInv'
  BY <1>10 DEF StepOverSkipped, Goto
<1>11. CASE OverDone
  BY <1>11 DEF OverDone, Goto
<1>12. ASSUME NEW t \in Tids, ContinueNext(t)
      PROVE  SeenInv'
  BY <1>12 DEF ContinueNext, Continued, ContinueFails, Restarted, Goto, Throws
<1>13. CASE ContinueDone
  BY <1>13 DEF ContinueDone
<1>14. CASE Swallow
  BY <1>14 DEF Swallow, Collected
<1>15. CASE SingleStep
  BY <1>15 DEF SingleStep, Restarted, Throws
<1>16. CASE EndStepOver
  BY <1>16 DEF EndStepOver, Collected, SiteAfterStep, Throws
<1>17. CASE WaitOnSignal
  BY <1>17 DEF WaitOnSignal
<1>18. CASE ResumeContinue
  BY <1>18 DEF ResumeContinue, Continued, ContinueFails, Restarted, Throws
<1>19. ASSUME NEW t \in Tids, WaitIgnores(t)
      PROVE  SeenInv'
  BY <1>19 DEF WaitIgnores, Collected, Goto
<1>20. ASSUME NEW t \in Tids, WaitReports(t)
      PROVE  SeenInv'
  BY <1>20 DEF WaitReports, Collected, AfterWait
<1>21. ASSUME NEW t \in Tids, WaitPokeFails(t)
      PROVE  SeenInv'
  BY <1>21 DEF WaitPokeFails, Collected, Throws
<1>22. ASSUME NEW t \in Tids, WaitSeesExit(t)
      PROVE  SeenInv'
  BY <1>22 DEF WaitSeesExit, Collected
<1>23. CASE StopRunning
  BY <1>23 DEF StopRunning, Goto
<1>24. ASSUME NEW t \in Tids, StopNext(t)
      PROVE  SeenInv'
  BY <1>24 DEF StopNext, Goto
<1>25. CASE StopCollects
  BY <1>25 DEF StopCollects, Collected, Throws
<1>26. CASE StopDone
  BY <1>26 DEF StopDone
<1>27. CASE Cleanup(stopTid)
  BY <1>27 DEF Cleanup
<1>28. CASE UNCHANGED vars
  BY <1>28 DEF vars
<1> HIDE DEF ThreadInv, KernTypes, BookTypes, CtlTypes, CtlInv, KernInv, KernOf,
            SeenInv, Running, Stepping, kernVars, bookVars, ctlVars, histVars, params
<1>29. QED
  BY <1>1, <1>2, <1>3, <1>4, <1>5, <1>6, <1>7, <1>8, <1>9, <1>10, <1>11, <1>12, <1>13,
     <1>14, <1>15, <1>16, <1>17, <1>18, <1>19, <1>20, <1>21, <1>22, <1>23, <1>24, <1>25,
     <1>26, <1>27, <1>28, NextCases

(* A trap is collected where it was hit. *)
LEMMA TrapAheadStep == ThreadInv /\ [Next]_vars => TrapAhead'
<1> SUFFICES ASSUME ThreadInv, [Next]_vars PROVE TrapAhead'
  OBVIOUS
<1> USE Consts DEF ThreadInv, KernTypes, RipInCode, TrapAhead, kernVars, bookVars,
                   ctlVars, histVars, params
<1>1. ASSUME NEW t \in Tids, DeliverSigstop(t)
      PROVE  TrapAhead'
  BY <1>1 DEF DeliverSigstop, StopFor
<1>2. ASSUME NEW t \in Tids, HitTrap(t)
      PROVE  TrapAhead'
  BY <1>2 DEF HitTrap, CanExecute, StopFor
<1>3. ASSUME NEW t \in Tids, Execute(t)
      PROVE  TrapAhead'
  BY <1>3 DEF Execute, CanExecute, StopFor
<1>4. ASSUME NEW t \in Tids, Raise(t)
      PROVE  TrapAhead'
  BY <1>4 DEF Raise, CanExecute, StopFor
<1>5. ASSUME NEW t \in Tids, Exit(t)
      PROVE  TrapAhead'
  BY <1>5 DEF Exit, CanExecute
<1>6. ASSUME NEW t \in Tids, NEW new \in Tids, Clone(t, new)
      PROVE  TrapAhead'
  BY <1>6 DEF Clone, CanExecute
<1>7. CASE ResumeAll
  BY <1>7 DEF ResumeAll, Goto
<1>8. ASSUME NEW t \in Tids, StepOverBegins(t)
      PROVE  TrapAhead'
  BY <1>8 DEF StepOverBegins, BeginStepOver, Restarted, Goto
<1>9. ASSUME NEW t \in Tids, StepOverFails(t)
      PROVE  TrapAhead'
  BY <1>9 DEF StepOverFails, DisableFails, Throws
<1>10. ASSUME NEW t \in Tids, StepOverSkipped(t)
      PROVE  TrapAhead'
  BY <1>10 DEF StepOverSkipped, Goto
<1>11. CASE OverDone
  BY <1>11 DEF OverDone, Goto
<1>12. ASSUME NEW t \in Tids, ContinueNext(t)
      PROVE  TrapAhead'
  BY <1>12 DEF ContinueNext, Continued, ContinueFails, Restarted, Goto, Throws
<1>13. CASE ContinueDone
  BY <1>13 DEF ContinueDone
<1>14. CASE Swallow
  BY <1>14 DEF Swallow, Collected
<1>15. CASE SingleStep
  BY <1>15 DEF SingleStep, Restarted, Throws
<1>16. CASE EndStepOver
  BY <1>16 DEF EndStepOver, Collected, SiteAfterStep, Throws
<1>17. CASE WaitOnSignal
  BY <1>17 DEF WaitOnSignal
<1>18. CASE ResumeContinue
  BY <1>18 DEF ResumeContinue, Continued, ContinueFails, Restarted, Throws
<1>19. ASSUME NEW t \in Tids, WaitIgnores(t)
      PROVE  TrapAhead'
  BY <1>19 DEF WaitIgnores, Collected, Goto
<1>20. ASSUME NEW t \in Tids, WaitReports(t)
      PROVE  TrapAhead'
  <2>1. kern[t] = "stopped" /\ fresh[t] /\ ReadRegisters(t)
    BY <1>20 DEF WaitReports, Collected, AfterWait, ReadRegisters
  <2>2. poke = "tid" => \A u \in Tids \ {t} : rip'[u] = rip[u]
    BY <2>1, RegistersRead
  <2>3. QED
    BY <1>20, <2>2 DEF WaitReports, Collected, AfterWait, ReadRegisters
<1>21. ASSUME NEW t \in Tids, WaitPokeFails(t)
      PROVE  TrapAhead'
  BY <1>21 DEF WaitPokeFails, Collected, Throws, ReadRegisters
<1>22. ASSUME NEW t \in Tids, WaitSeesExit(t)
      PROVE  TrapAhead'
  BY <1>22 DEF WaitSeesExit, Collected
<1>23. CASE StopRunning
  BY <1>23 DEF StopRunning, Goto
<1>24. ASSUME NEW t \in Tids, StopNext(t)
      PROVE  TrapAhead'
  BY <1>24 DEF StopNext, Goto
<1>25. CASE StopCollects
  <2>1. CASE Gone(tid)
    BY <1>25, <2>1 DEF StopCollects, Collected, Throws, ReadRegisters
  <2>2. CASE ~Gone(tid)
    <3>1. kern[tid] = "stopped" /\ fresh[tid] /\ ReadRegisters(tid) /\ tid \in Tids
      BY <1>25, <2>2 DEF StopCollects, Collected, Gone, KernInv, KernOf, CtlTypes
    <3>2. poke = "tid" => \A u \in Tids \ {tid} : rip'[u] = rip[u]
      BY <3>1, RegistersRead
    <3>3. QED
      BY <1>25, <2>2, <3>1, <3>2 DEF StopCollects, Collected, Throws, ReadRegisters
  <2>3. QED
    BY <2>1, <2>2
<1>26. CASE StopDone
  BY <1>26 DEF StopDone
<1>27. CASE Cleanup(stopTid)
  BY <1>27 DEF Cleanup
<1>28. CASE UNCHANGED vars
  BY <1>28 DEF vars
<1> HIDE DEF ThreadInv, KernTypes, RipInCode, TrapAhead, kernVars, bookVars, ctlVars,
            histVars, params
<1>29. QED
  BY <1>1, <1>2, <1>3, <1>4, <1>5, <1>6, <1>7, <1>8, <1>9, <1>10, <1>11, <1>12, <1>13,
     <1>14, <1>15, <1>16, <1>17, <1>18, <1>19, <1>20, <1>21, <1>22, <1>23, <1>24, <1>25,
     <1>26, <1>27, <1>28, NextCases

(* tgkill and pending_sigstop agree on the SIGSTOPs in flight. *)
LEMMA SigStep == ThreadInv /\ [Next]_vars => SigInv'
<1> SUFFICES ASSUME ThreadInv, [Next]_vars PROVE SigInv'
  OBVIOUS
<1>0. \A t, new \in Tids : Clone(t, new) => CloneChanges(t, new)
  BY CloneEffect
<1>t. KernTypes'
  BY KernTypeStep
<1> USE DEF ThreadInv, KernTypes, BookTypes, CtlTypes, CtlInv, KernInv, KernOf, SigInv,
            SigOf, Stepping, kernVars, bookVars, ctlVars, histVars, params
<1>1. ASSUME NEW t \in Tids, DeliverSigstop(t)
      PROVE  SigInv'
  <2>2. ASSUME NEW u \in Tids
        PROVE  SigOf(u)'
    <3>1. CASE u = t
      BY <1>1, <3>1 DEF DeliverSigstop, StopFor
    <3>2. CASE u # t
      BY <1>1, <3>2 DEF DeliverSigstop, StopFor
    <3>3. QED
      BY <3>1, <3>2
  <2>3. QED
    BY <2>2
<1>2. ASSUME NEW t \in Tids, HitTrap(t)
      PROVE  SigInv'
  <2>2. ASSUME NEW u \in Tids
        PROVE  SigOf(u)'
    <3>1. CASE u = t
      BY <1>2, <3>1 DEF HitTrap, CanExecute, StopFor
    <3>2. CASE u # t
      BY <1>2, <3>2 DEF HitTrap, CanExecute, StopFor
    <3>3. QED
      BY <3>1, <3>2
  <2>3. QED
    BY <2>2
<1>3. ASSUME NEW t \in Tids, Execute(t)
      PROVE  SigInv'
  <2>2. ASSUME NEW u \in Tids
        PROVE  SigOf(u)'
    <3>1. CASE u = t
      BY <1>3, <3>1 DEF Execute, CanExecute, StopFor
    <3>2. CASE u # t
      BY <1>3, <3>2 DEF Execute, CanExecute, StopFor
    <3>3. QED
      BY <3>1, <3>2
  <2>3. QED
    BY <2>2
<1>4. ASSUME NEW t \in Tids, Raise(t)
      PROVE  SigInv'
  <2>2. ASSUME NEW u \in Tids
        PROVE  SigOf(u)'
    <3>1. CASE u = t
      BY <1>4, <3>1 DEF Raise, CanExecute, StopFor
    <3>2. CASE u # t
      BY <1>4, <3>2 DEF Raise, CanExecute, StopFor
    <3>3. QED
      BY <3>1, <3>2
  <2>3. QED
    BY <2>2
<1>5. ASSUME NEW t \in Tids, Exit(t)
      PROVE  SigInv'
  <2>2. ASSUME NEW u \in Tids
        PROVE  SigOf(u)'
    <3>1. CASE u = t
      BY <1>5, <3>1 DEF Exit, CanExecute
    <3>2. CASE u # t
      BY <1>5, <3>2 DEF Exit, CanExecute
    <3>3. QED
      BY <3>1, <3>2
  <2>3. QED
    BY <2>2
<1>6. ASSUME NEW t \in Tids, NEW new \in Tids, Clone(t, new)
      PROVE  SigInv'
  <2>0. CloneChanges(t, new)
    BY <1>0, <1>6
  <2>2. ASSUME NEW u \in Tids
        PROVE  SigOf(u)'
    <3>1. CASE u = t
      BY <1>t, <2>0, <3>1 DEF CloneChanges
    <3>2. CASE u = new
      BY <1>t, <2>0, <3>2 DEF CloneChanges
    <3>3. CASE u # t /\ u # new
      <4>1. kern'[u] = kern[u] /\ cause'[u] = cause[u] /\ (fresh'[u] <=> fresh[u])
        BY <2>0, <3>3 DEF CloneChanges
      <4>2. UNCHANGED <<sigq, pend, threads, state, cpc, pc, tid>>
        BY <2>0 DEF CloneChanges
      <4>3. QED
        BY <4>1, <4>2
    <3>4. QED
      BY <3>1, <3>2, <3>3
  <2>3. QED
    BY <2>2
<1>7. CASE ResumeAll
  BY <1>7 DEF ResumeAll, Goto
<1>8. ASSUME NEW t \in Tids, StepOverBegins(t)
      PROVE  SigInv'
  BY <1>8 DEF StepOverBegins, BeginStepOver, Restarted, Goto
<1>9. ASSUME NEW t \in Tids, StepOverFails(t)
      PROVE  SigInv'
  BY <1>9 DEF StepOverFails, DisableFails, Throws
<1>10. ASSUME NEW t \in Tids, StepOverSkipped(t)
      PROVE  SigInv'
  BY <1>10 DEF StepOverSkipped, Goto
<1>11. CASE OverDone
  BY <1>11 DEF OverDone, Goto
<1>12. ASSUME NEW t \in Tids, ContinueNext(t)
      PROVE  SigInv'
  <2>2. ASSUME NEW u \in Tids
        PROVE  SigOf(u)'
    <3>1. CASE u = t
      BY <1>12, <3>1 DEF ContinueNext, Continued, ContinueFails, Restarted, Goto, Throws
    <3>2. CASE u # t
      BY <1>12, <3>2 DEF ContinueNext, Continued, ContinueFails, Restarted, Goto, Throws
    <3>3. QED
      BY <3>1, <3>2
  <2>3. QED
    BY <2>2
<1>13. CASE ContinueDone
  BY <1>13 DEF ContinueDone
<1>14. CASE Swallow
  BY <1>14 DEF Swallow, Collected
<1>15. CASE SingleStep
  <2>2. ASSUME NEW u \in Tids
        PROVE  SigOf(u)'
    <3>1. CASE u = tid
      BY <1>15, <3>1 DEF SingleStep, Restarted, Throws
    <3>2. CASE u # tid
      BY <1>15, <3>2 DEF SingleStep, Restarted, Throws
    <3>3. QED
      BY <3>1, <3>2
  <2>3. QED
    BY <2>2
<1>16. CASE EndStepOver
  BY <1>16 DEF EndStepOver, Collected, SiteAfterStep, Throws
<1>17. CASE WaitOnSignal
  BY <1>17 DEF WaitOnSignal
<1>18. CASE ResumeContinue
  BY <1>18 DEF ResumeContinue, Continued, ContinueFails, Restarted, Throws
<1>19. ASSUME NEW t \in Tids, WaitIgnores(t)
      PROVE  SigInv'
  BY <1>19 DEF WaitIgnores, Collected, Goto
<1>20. ASSUME NEW t \in Tids, WaitReports(t)
      PROVE  SigInv'
  BY <1>20 DEF WaitReports, Collected, AfterWait
<1>21. ASSUME NEW t \in Tids, WaitPokeFails(t)
      PROVE  SigInv'
  BY <1>21 DEF WaitPokeFails, Collected, Throws
<1>22. ASSUME NEW t \in Tids, WaitSeesExit(t)
      PROVE  SigInv'
  BY <1>22 DEF WaitSeesExit, Collected
<1>23. CASE StopRunning
  BY <1>23 DEF StopRunning, Goto
<1>24. ASSUME NEW t \in Tids, StopNext(t)
      PROVE  SigInv'
  BY <1>24 DEF StopNext, Goto
<1>25. CASE StopCollects
  <2>0. /\ pc = "stop_wait" /\ pc' \in {"stop", "idle"} /\ tid' = tid
        /\ tid \in threads /\ fresh[tid] /\ ~fresh'[tid] /\ threads' = threads
        /\ kern'[tid] = IF kern[tid] = "zombie" THEN "reaped" ELSE kern[tid]
        /\ pend'[tid] = PendAfter /\ sigq' = sigq /\ cause' = cause
    BY <1>25 DEF StopCollects, Collected, Throws
  <2>1. SigOf(tid)'
    <3>1. SigOf(tid) /\ tid \in Tids
      OBVIOUS
    <3>2. sigq[tid] => kern[tid] = "stopped" /\ cause[tid] # "sigstop"
      BY <2>0, <3>1
    <3>3. sigq[tid] => pend'[tid]
      BY <2>0, <3>2 DEF PendAfter, Gone
    <3>4. QED
      BY <2>0, <3>1, <3>2, <3>3
  <2>2. ASSUME NEW u \in Tids, u # tid
        PROVE  SigOf(u)'
    BY <1>25, <2>2 DEF StopCollects, Collected, Throws
  <2>3. QED
    BY <1>25, <2>1, <2>2 DEF StopCollects, Throws
<1>26. CASE StopDone
  BY <1>26 DEF StopDone
<1>27. CASE Cleanup(stopTid)
  BY <1>27 DEF Cleanup
<1>28. CASE UNCHANGED vars
  BY <1>28 DEF vars
<1> HIDE DEF ThreadInv, KernTypes, BookTypes, CtlTypes, CtlInv, KernInv, KernOf, SigInv,
            SigOf, Stepping, kernVars, bookVars, ctlVars, histVars, params
<1>29. QED
  BY <1>1, <1>2, <1>3, <1>4, <1>5, <1>6, <1>7, <1>8, <1>9, <1>10, <1>11, <1>12, <1>13,
     <1>14, <1>15, <1>16, <1>17, <1>18, <1>19, <1>20, <1>21, <1>22, <1>23, <1>24, <1>25,
     <1>26, <1>27, <1>28, NextCases

(* The calls leave state as the next one relies on it. *)
LEMMA BookStep == ThreadInv /\ [Next]_vars => BookInv'
<1> SUFFICES ASSUME ThreadInv, [Next]_vars PROVE BookInv'
  OBVIOUS
<1>0. \A t, new \in Tids : Clone(t, new) => CloneChanges(t, new)
  BY CloneEffect
<1>t. KernTypes'
  BY KernTypeStep
<1> USE DEF ThreadInv, KernTypes, BookTypes, CtlTypes, CtlInv, KernInv, KernOf, BookInv,
            Stepping, kernVars, bookVars, ctlVars, histVars, params
<1>1. ASSUME NEW t \in Tids, DeliverSigstop(t)
      PROVE  BookInv'
  <2>1. \A u \in Tids : kern[u] = "stopped" => kern'[u] = kern[u] /\ (fresh'[u] <=> fresh[u])
    BY <1>1 DEF DeliverSigstop, StopFor
  <2>2. UNCHANGED <<threads, state, pc, tid, todo, turn>>
    BY <1>1 DEF DeliverSigstop
  <2>3. QED
    BY <2>1, <2>2
<1>2. ASSUME NEW t \in Tids, HitTrap(t)
      PROVE  BookInv'
  <2>1. \A u \in Tids : kern[u] = "stopped" => kern'[u] = kern[u] /\ (fresh'[u] <=> fresh[u])
    BY <1>2 DEF HitTrap, CanExecute, StopFor
  <2>2. UNCHANGED <<threads, state, pc, tid, todo, turn>>
    BY <1>2 DEF HitTrap
  <2>3. QED
    BY <2>1, <2>2
<1>3. ASSUME NEW t \in Tids, Execute(t)
      PROVE  BookInv'
  <2>1. \A u \in Tids : kern[u] = "stopped" => kern'[u] = kern[u] /\ (fresh'[u] <=> fresh[u])
    <3>1. CASE stepping[t]
      BY <1>3, <3>1 DEF Execute, CanExecute, StopFor
    <3>2. CASE ~stepping[t]
      BY <1>3, <3>2 DEF Execute
    <3>3. QED
      BY <3>1, <3>2
  <2>2. UNCHANGED <<threads, state, pc, tid, todo, turn>>
    BY <1>3 DEF Execute
  <2>3. QED
    BY <2>1, <2>2
<1>4. ASSUME NEW t \in Tids, Raise(t)
      PROVE  BookInv'
  <2>1. \A u \in Tids : kern[u] = "stopped" => kern'[u] = kern[u] /\ (fresh'[u] <=> fresh[u])
    BY <1>4 DEF Raise, CanExecute, StopFor
  <2>2. UNCHANGED <<threads, state, pc, tid, todo, turn>>
    BY <1>4 DEF Raise
  <2>3. QED
    BY <2>1, <2>2
<1>5. ASSUME NEW t \in Tids, Exit(t)
      PROVE  BookInv'
  <2>1. \A u \in Tids : kern[u] = "stopped" => kern'[u] = kern[u] /\ (fresh'[u] <=> fresh[u])
    BY <1>5 DEF Exit, CanExecute
  <2>2. UNCHANGED <<threads, state, pc, tid, todo, turn>>
    BY <1>5 DEF Exit
  <2>3. QED
    BY <2>1, <2>2
<1>6. ASSUME NEW t \in Tids, NEW new \in Tids, Clone(t, new)
      PROVE  BookInv'
  <2>0. CloneChanges(t, new)
    BY <1>0, <1>6
  <2>1. \A u \in Tids : kern[u] = "stopped" => kern'[u] = kern[u] /\ (fresh'[u] <=> fresh[u])
    BY <2>0 DEF CloneChanges
  <2>2. UNCHANGED <<threads, state, pc, tid, todo, turn>>
    BY <2>0 DEF CloneChanges
  <2>3. QED
    BY <2>1, <2>2
<1>7. CASE ResumeAll
  BY <1>7 DEF ResumeAll, Goto
<1>8. ASSUME NEW t \in Tids, StepOverBegins(t)
      PROVE  BookInv'
  BY <1>8 DEF StepOverBegins, BeginStepOver, Restarted, Goto
<1>9. ASSUME NEW t \in Tids, StepOverFails(t)
      PROVE  BookInv'
  BY <1>9 DEF StepOverFails, DisableFails, Throws
<1>10. ASSUME NEW t \in Tids, StepOverSkipped(t)
      PROVE  BookInv'
  BY <1>10 DEF StepOverSkipped, Goto
<1>11. CASE OverDone
  BY <1>11 DEF OverDone, Goto
<1>12. ASSUME NEW t \in Tids, ContinueNext(t)
      PROVE  BookInv'
  <2>1. CASE Continued(t) /\ Goto("continue", t, todo \ {t}) /\ UNCHANGED <<back, stopTid, turn, threw>>
    BY <1>12, <2>1 DEF ContinueNext, Continued, Restarted, Goto
  <2>2. CASE ContinueFails(t)
    BY <1>12, <2>2 DEF ContinueNext, ContinueFails, Throws
  <2>3. QED
    BY <1>12, <2>1, <2>2 DEF ContinueNext
<1>13. CASE ContinueDone
  BY <1>13 DEF ContinueDone
<1>14. CASE Swallow
  BY <1>14 DEF Swallow, Collected
<1>15. CASE SingleStep
  BY <1>15 DEF SingleStep, Restarted, Throws
<1>16. CASE EndStepOver
  BY <1>16 DEF EndStepOver, Collected, SiteAfterStep, Throws
<1>17. CASE WaitOnSignal
  BY <1>17 DEF WaitOnSignal
<1>18. CASE ResumeContinue
  <2>1. CASE Continued(tid) /\ pc' = "wait" /\ UNCHANGED <<tid, todo, back, stopTid, turn, threw>>
    BY <1>18, <2>1 DEF ResumeContinue, Continued, Restarted
  <2>2. CASE ContinueFails(tid)
    BY <1>18, <2>2 DEF ResumeContinue, ContinueFails, Throws
  <2>3. QED
    BY <1>18, <2>1, <2>2 DEF ResumeContinue
<1>19. ASSUME NEW t \in Tids, WaitIgnores(t)
      PROVE  BookInv'
  BY <1>19 DEF WaitIgnores, Collected, Goto
<1>20. ASSUME NEW t \in Tids, WaitReports(t)
      PROVE  BookInv'
  BY <1>20 DEF WaitReports, Collected, AfterWait
<1>21. ASSUME NEW t \in Tids, WaitPokeFails(t)
      PROVE  BookInv'
  BY <1>21 DEF WaitPokeFails, Collected, Throws
<1>22. ASSUME NEW t \in Tids, WaitSeesExit(t)
      PROVE  BookInv'
  BY <1>22 DEF WaitSeesExit, Collected
<1>23. CASE StopRunning
  BY <1>23 DEF StopRunning, Goto
<1>24. ASSUME NEW t \in Tids, StopNext(t)
      PROVE  BookInv'
  BY <1>24 DEF StopNext, Goto
<1>25. CASE StopCollects
  <2>0. /\ pc = "stop_wait" /\ pc' \in {"stop", "idle"} /\ tid' = tid
        /\ tid \in threads /\ fresh[tid] /\ ~fresh'[tid] /\ threads' = threads
        /\ kern'[tid] = IF kern[tid] = "zombie" THEN "reaped" ELSE kern[tid]
        /\ pend'[tid] = PendAfter /\ sigq' = sigq /\ cause' = cause
    BY <1>25 DEF StopCollects, Collected, Throws
  <2>1. CASE pc' = "idle" /\ turn' = "resume"
    BY <1>25, <2>0, <2>1 DEF StopCollects
  <2>2. CASE pc' = "stop" /\ UNCHANGED <<tid, todo, turn>>
    <3>1. state' = [state EXCEPT ![tid] = IF Gone(tid) THEN "exited" ELSE "stopped"]
      BY <1>25, <2>2 DEF StopCollects, Throws
    <3>2. fresh' = [fresh EXCEPT ![tid] = FALSE] /\ \A u \in Tids \ {tid} : kern'[u] = kern[u]
      BY <1>25 DEF StopCollects, Collected
    <3>3. kern[tid] \in {"stopped", "zombie"}
      BY <2>0
    <3>4. QED
      BY <1>25, <2>0, <2>2, <3>1, <3>2, <3>3 DEF Gone
  <2>3. QED
    BY <1>25, <2>1, <2>2 DEF StopCollects, Throws
<1>26. CASE StopDone
  BY <1>26 DEF StopDone
<1>27. CASE Cleanup(stopTid)
  BY <1>27 DEF Cleanup
<1>28. CASE UNCHANGED vars
  BY <1>28 DEF vars
<1> HIDE DEF ThreadInv, KernTypes, BookTypes, CtlTypes, CtlInv, KernInv, KernOf,
            BookInv, Stepping, kernVars, bookVars, ctlVars, histVars, params
<1>29. QED
  BY <1>1, <1>2, <1>3, <1>4, <1>5, <1>6, <1>7, <1>8, <1>9, <1>10, <1>11, <1>12, <1>13,
     <1>14, <1>15, <1>16, <1>17, <1>18, <1>19, <1>20, <1>21, <1>22, <1>23, <1>24, <1>25,
     <1>26, <1>27, <1>28, NextCases

-------------------------------------------------------------------------------
(* The invariant holds after launch, and every step keeps it. *)
LEMMA ThreadInvInit == Init => ThreadInv
<1> USE ThreadAssumption
<1> SUFFICES ASSUME Init PROVE ThreadInv
  OBVIOUS
<1>1. KernTypes /\ RipInCode /\ BookTypes /\ CtlTypes /\ HistTypes
  <2>1. Entry \in [Tids -> Nat]
    OBVIOUS
  <2>2. KernTypes
    BY <2>1 DEF Init, KernTypes
  <2>3. RipInCode
    BY <2>1 DEF Init, RipInCode
  <2>4. BookTypes
    BY <2>1 DEF Init, BookTypes
  <2>5. CtlTypes
    BY DEF Init, CtlTypes
  <2>6. HistTypes
    BY DEF Init, HistTypes
  <2>7. QED
    BY <2>2, <2>3, <2>4, <2>5, <2>6
<1>2. CtlInv /\ SeenInv /\ TrapAhead /\ BookInv
  BY DEF Init, CtlInv, SeenInv, Running, TrapAhead, BookInv, Stepping
<1>3. KernInv /\ SigInv
  BY DEF Init, KernInv, KernOf, ForgottenThreadsAreGone, SigInv, SigOf
<1>4. QED
  BY <1>1, <1>2, <1>3 DEF ThreadInv

LEMMA ThreadInvStep == ThreadInv /\ [Next]_vars => ThreadInv'
BY KernTypeStep, RipInCodeStep, BookTypeStep, CtlTypeStep, HistTypeStep, CtlStep, KernStep,
   SeenStep, TrapAheadStep, SigStep, BookStep DEF ThreadInv

LEMMA ThreadInvHolds == Spec => []ThreadInv
BY ThreadInvInit, ThreadInvStep, PTL DEF Spec

(* The thread tables of the kernel, of process and of target keep their    *)
(* types, and where register writes reach their thread no rewound rip      *)
(* leaves its code.                                                        *)
THEOREM ThreadTypes == Spec => []TypeOK
<1>1. ThreadInv => TypeOK
  BY TypeParts DEF ThreadInv
<1>2. QED
  BY <1>1, ThreadInvHolds, PTL

(* resume_all_threads, wait_on_signal and step_over_breakpoint restart no  *)
(* thread without recording it as running.                                 *)
THEOREM NoneUnseen == Spec => []NoThreadRunsUnseen
<1>1. ThreadInv => NoThreadRunsUnseen
  <2> SUFFICES ASSUME ThreadInv, pc = "idle", NEW t \in Running
               PROVE  t \in threads /\ state[t] = "running"
    BY DEF NoThreadRunsUnseen
  <2>1. t \in Tids /\ kern[t] = "running"
    BY DEF Running
  <2>2. t \in threads
    BY <2>1 DEF ThreadInv, KernInv, KernOf
  <2>3. state[t] = "running"
    BY DEF ThreadInv, SeenInv
  <2>4. QED
    BY <2>2, <2>3
<1>2. QED
  BY <1>1, ThreadInvHolds, PTL

(* cleanup_exited_threads leaves the target no entry of a live thread.     *)
THEOREM ForgottenGone == Spec => []ForgottenThreadsAreGone
<1>1. ThreadInv => ForgottenThreadsAreGone
  BY DEF ThreadInv, KernInv
<1>2. QED
  BY <1>1, ThreadInvHolds, PTL

(* When stop_running_threads returns, state tells the truth of every       *)
(* thread, however its tgkill raced with the stops and exits of the        *)
(* program's threads.                                                      *)
THEOREM StoppedIsStopped == Spec => []StoppedMeansStopped
<1>1. ThreadInv => StoppedMeansStopped
  <2> SUFFICES ASSUME ThreadInv, pc = "idle", turn = "cleanup", NEW t \in threads
               PROVE  /\ state[t] = "stopped" => kern[t] = "stopped" /\ ~fresh[t]
                      /\ state[t] = "exited" => kern[t] = "reaped"
                      /\ state[t] # "running"
                      /\ sigq[t] => pend[t]
    BY DEF StoppedMeansStopped
  <2>1. t \in Tids
    BY DEF ThreadInv, BookTypes
  <2>2. state[t] = "exited" => kern[t] = "reaped"
    BY <2>1 DEF ThreadInv, KernInv, KernOf
  <2>3. sigq[t] => pend[t]
    BY <2>1 DEF ThreadInv, SigInv, SigOf
  <2>4. QED
    BY <2>2, <2>3 DEF ThreadInv, BookInv
<1>2. QED
  BY <1>1, ThreadInvHolds, PTL

-------------------------------------------------------------------------------
(* The breakpoint that the threads run through: what a stop at it reports, *)
(* and, for a careful client, that no thread passes it unseen or loses its *)
(* instruction and that no call throws.                                    *)

(* A trap whose register write reached its thread. *)
Rewound(t) ==
  kern[t] = "stopped" /\ cause[t] = "trap" /\ ~fresh[t] =>
    At(cpc[t]) = "site" /\ rip[t] = cpc[t]

(* Where handle_signal may meet a trap, the site is enabled: the thread    *)
(* hit it since resume_all_threads, and a step over has enabled it again.  *)
TrapExplained(t) ==
  kern[t] = "stopped" /\ cause[t] = "trap" /\ fresh[t] =>
    /\ turn \in {"wait", "stop"} /\ pc \notin Stepping => siteOn
    /\ pc = "continue" /\ t \notin todo => siteOn

(* The cached rip is behind the real one, and strictly so at a clone. *)
CacheBehind(t) ==
  /\ cpc[t] <= rip[t]
  /\ kern[t] = "stopped" /\ fresh[t] /\ cause[t] = "clone" => cpc[t] < rip[t]

(* A step over runs with the site disabled, so it does not trap. *)
StepOverQuiet ==
  /\ pc \in Stepping => ~siteOn
  /\ pc \in {"swallow", "stepped"} /\ kern[tid] = "stopped" => cause[tid] # "trap"

TrapInv ==
  poke = "tid" =>
    /\ \A t \in Tids : Rewound(t) /\ TrapExplained(t) /\ CacheBehind(t)
    /\ StepOverQuiet

(* stop_running_threads visits only running threads, each once, so the one *)
(* that wait_on_signal reported stays stopped.                             *)
StopInv ==
  /\ turn = "stop" => \A t \in todo : pc = "idle" \/ state[t] = "running"
  /\ pc = "stop_wait" => state[tid] = "running" /\ tid \notin todo
  /\ turn \in {"stop", "cleanup"} => stopTid \in threads /\ state[stopTid] = "stopped"

-------------------------------------------------------------------------------
(* The client stops the other threads and writes registers to their        *)
(* thread, and no step over was entered for a Stale thread.                *)
Good == Careful /\ ~window

(* The thread t is where the debugger left it and waits to be resumed. *)
Resumable(t) == kern[t] = "stopped" /\ ~fresh[t]

(* resume_all_threads finds every thread stopped. *)
AllResumable ==
  turn = "resume" =>
    \A t \in threads :
      \/ Resumable(t)
      \/ pc = "continue" /\ t \notin todo
      \/ pc \in {"swallow", "stepped"} /\ t = tid

(* A step over is that of resume_all_threads: the site is disabled         *)
(* exactly while tid is swallowing its SIGSTOP, waiting to be stepped, or  *)
(* executing the one instruction it is stepped over.                       *)
SteppingOver ==
  /\ siteOn <=> pc \notin Stepping
  /\ pc \in Stepping =>
       back = "over" /\ At(cpc[tid]) = "site" /\ cpc[tid] \in over[tid]
  /\ pc = "swallow" =>
       /\ rip[tid] = cpc[tid]
       /\ \/ kern[tid] = "running" /\ sigq[tid]
          \/ kern[tid] = "stopped" /\ fresh[tid] /\ cause[tid] = "sigstop"
  /\ pc = "step" => rip[tid] = cpc[tid] /\ ~sigq[tid]
  /\ pc = "stepped" =>
       /\ ~sigq[tid]
       /\ \/ kern[tid] = "running" /\ stepping[tid] /\ rip[tid] = cpc[tid]
          \/ kern[tid] = "stopped" /\ fresh[tid] /\ cause[tid] = "step"

(* A thread that wait_on_signal resumes itself is stopped, and not at the  *)
(* enabled site unless what is known of it is out of date.                 *)
WaitResumes ==
  /\ pc = "resume" => Resumable(tid) /\ (At(cpc[tid]) # "site" \/ Stale(tid))
  /\ pc # "resume_continue"

NotSkipped(t) ==
  \A p \in Nat :
    p >= Entry[t] /\ p < rip[t] /\ At(p) = "site" =>
      \/ p \in passed[t]
      \/ kern[t] = "stopped" /\ cause[t] = "trap" /\ fresh[t] /\ p = rip[t] - 1

CarefulInv ==
  Good =>
    /\ Main \in threads \/ turn = "done"
    /\ AllResumable /\ SteppingOver /\ WaitResumes
    /\ \A t \in Tids : passed[t] \subseteq over[t]
    /\ threw = "none"

CodeInv == Good => \A t \in Tids : NotSkipped(t)

SiteInv == ThreadInv /\ TrapInv /\ StopInv /\ CarefulInv

-------------------------------------------------------------------------------
(* read_all_registers and set_pc on a stop of t, where the write reaches   *)
(* t: a trap is rewound onto its breakpoint, anything else only cached.    *)
ReadsRight(t) ==
  /\ rip' \in [Tids -> Nat] /\ cpc' \in [Tids -> Nat]
  /\ \A u \in Tids : u # t => rip'[u] = rip[u] /\ cpc'[u] = cpc[u]
  /\ rip'[t] = cpc'[t]
  /\ rip'[t] = IF cause[t] = "trap" THEN rip[t] - 1 ELSE rip[t]
  /\ cause[t] = "trap" => At(cpc'[t]) = "site"
  /\ ~PokeFails(t)

LEMMA ReadsAreRight ==
  ASSUME ThreadInv, TrapInv, poke = "tid", NEW t \in Tids, kern[t] = "stopped", fresh[t],
         pc \in {"wait", "stop_wait"}, ReadRegisters(t)
  PROVE  ReadsRight(t)
<1>1. turn \in {"wait", "stop"} /\ pc \notin Stepping
  BY DEF ThreadInv, CtlInv, Stepping
<1>2. Poked(t) = t /\ ~PokeFails(t)
  BY DEF Poked, PokeFails
<1>3. rip \in [Tids -> Nat] /\ cpc \in [Tids -> Nat]
  BY DEF ThreadInv, KernTypes, BookTypes
<1>4. CASE cause[t] = "trap"
  <2>1. At(rip[t] - 1) = "site"
    BY <1>4 DEF ThreadInv, TrapAhead
  <2>2. siteOn
    BY <1>1, <1>4 DEF TrapInv, TrapExplained
  <2>3. IsSiteTrap(t)
    BY <1>4, <2>1, <2>2 DEF IsSiteTrap
  <2>4. rip' = [rip EXCEPT ![t] = rip[t] - 1] /\ cpc' = [cpc EXCEPT ![t] = rip[t] - 1]
    BY <1>2, <2>3 DEF ReadRegisters
  <2>5. rip[t] - 1 \in Nat
    BY <1>3, <2>1, SiteInCode
  <2>6. QED
    BY <1>2, <1>3, <1>4, <2>1, <2>4, <2>5 DEF ReadsRight
<1>5. CASE cause[t] # "trap"
  <2>1. UNCHANGED rip /\ cpc' = [cpc EXCEPT ![t] = rip[t]]
    BY <1>5 DEF ReadRegisters, IsSiteTrap
  <2>2. QED
    BY <1>2, <1>3, <1>5, <2>1 DEF ReadsRight
<1>6. QED
  BY <1>4, <1>5

(* A stop that wait_on_signal ignores is no trap. *)
LEMMA IgnoredIsNoTrap ==
  ASSUME ThreadInv, NEW t \in Tids, kern[t] = "stopped", Ignored(t)
  PROVE  cause[t] # "trap"
BY DEF ThreadInv, KernInv, KernOf, Ignored

(* In a Good state every request the debugger is about to make succeeds.   *)
NothingFails ==
  /\ pc = "over" => MemoryReachable /\ \A t \in todo : Resumable(t)
  /\ pc = "continue" => \A t \in todo : Resumable(t)
  /\ pc = "step" => Resumable(tid)
  /\ pc = "stepped" /\ kern[tid] = "stopped" => MemoryReachable
  /\ pc \in {"resume", "resume_continue"} => pc = "resume" /\ Resumable(tid)
  /\ pc \in Stepping => turn = "resume" /\ back = "over"
  /\ pc = "swallow" => kern[tid] \in {"running", "stopped"}
  /\ pc = "stepped" => kern[tid] \in {"running", "stopped"}
  /\ \A t \in Tids : kern[t] = "stopped" => ~PokeFails(t)

LEMMA GoodSucceeds ==
  ASSUME ThreadInv, CarefulInv, Good
  PROVE  NothingFails
<1> USE DEF ThreadInv, CarefulInv
<1>1. pc \in Stepping => turn = "resume" /\ back = "over" /\ tid \in threads
  BY DEF CtlInv, SteppingOver
<1>2. pc \in {"over", "continue"} => turn = "resume" /\ todo \subseteq threads
  BY DEF CtlInv
<1>3. pc \in {"over", "step"} => \A t \in threads : Resumable(t)
  BY <1>1, <1>2 DEF AllResumable, Stepping
<1>4. pc = "stepped" => \A t \in threads : t # tid => Resumable(t)
  BY <1>1 DEF AllResumable, Stepping
<1>5. pc = "continue" => \A t \in todo : Resumable(t)
  BY <1>2 DEF AllResumable
<1>6. pc \in {"over", "step", "stepped"} => Main \in threads
  BY <1>1, <1>2 DEF Stepping
<1>7. \A t \in Tids : kern[t] = "stopped" => ~PokeFails(t)
  BY DEF PokeFails, Poked, Good, Careful
<1>8. pc = "over" => MemoryReachable /\ \A t \in todo : Resumable(t)
  BY <1>2, <1>3, <1>6 DEF MemoryReachable, Resumable
<1>9. pc = "step" => Resumable(tid)
  BY <1>1, <1>3 DEF Stepping
<1>10. pc = "stepped" /\ kern[tid] = "stopped" => MemoryReachable
  BY <1>4, <1>6 DEF MemoryReachable, Resumable
<1>11. pc \in {"resume", "resume_continue"} => pc = "resume" /\ Resumable(tid)
  BY DEF WaitResumes
<1>12. pc \in {"swallow", "stepped"} => kern[tid] \in {"running", "stopped"}
  BY DEF SteppingOver
<1>13. QED
  BY <1>1, <1>5, <1>7, <1>8, <1>9, <1>10, <1>11, <1>12 DEF NothingFails

(* A step over that leaves the state Good is one of resume_all_threads, on *)
(* a thread that stopped where the debugger believes it did.               *)
LEMMA GoodStepOver ==
  ASSUME ThreadInv, CarefulInv, Good, Good', NEW t \in Tids
  PROVE  /\ ~StepOverFails(t)
         /\ StepOverBegins(t) =>
              /\ pc = "over" /\ t \in todo /\ BeginStepOver(t, "over", todo \ {t})
              /\ ~Stale(t)
<1>1. NothingFails
  BY GoodSucceeds
<1>2. ASSUME StepOverFails(t) PROVE FALSE
  <2>1. NeedsStepOver(t) /\ ~MemoryReachable /\ window' = (window \/ Stale(t))
    BY <1>2 DEF StepOverFails, DisableFails
  <2>2. pc = "resume" /\ t = tid
    BY <1>1, <1>2, <2>1 DEF StepOverFails, NothingFails
  <2>3. At(cpc[tid]) = "site" /\ ~Stale(tid)
    BY <2>1, <2>2 DEF NeedsStepOver, Good
  <2>4. QED
    BY <2>2, <2>3 DEF CarefulInv, WaitResumes
<1>3. ASSUME StepOverBegins(t), pc = "resume" PROVE FALSE
  <2>1. t = tid /\ NeedsStepOver(t) /\ window' = (window \/ Stale(t))
    BY <1>3 DEF StepOverBegins, BeginStepOver
  <2>2. At(cpc[tid]) = "site" /\ ~Stale(tid)
    BY <2>1 DEF NeedsStepOver, Good
  <2>3. QED
    BY <1>3, <2>2 DEF CarefulInv, WaitResumes
<1>4. ASSUME StepOverBegins(t)
      PROVE  /\ pc = "over" /\ t \in todo /\ BeginStepOver(t, "over", todo \ {t})
             /\ ~Stale(t)
  <2>1. pc = "over" /\ t \in todo /\ BeginStepOver(t, "over", todo \ {t})
    BY <1>3, <1>4 DEF StepOverBegins
  <2>2. window' = (window \/ Stale(t))
    BY <2>1 DEF BeginStepOver
  <2>3. QED
    BY <2>1, <2>2 DEF Good
<1>5. QED
  BY <1>2, <1>4

(* handle_signal rewinds every trap it collects, and nothing moves the     *)
(* thread until it is resumed.                                             *)
LEMMA RewoundStep ==
  ASSUME ThreadInv, TrapInv, poke = "tid", [Next]_vars
  PROVE  \A u \in Tids : Rewound(u)'
<1>reads. ASSUME NEW t \in Tids, kern[t] = "stopped", fresh[t], ReadRegisters(t),
                 pc \in {"wait", "stop_wait"}
          PROVE  ReadsRight(t)
  BY <1>reads, ReadsAreRight
<1>ignored. ASSUME NEW t \in Tids, kern[t] = "stopped", Ignored(t)
            PROVE  cause[t] # "trap"
  BY <1>ignored, IgnoredIsNoTrap
<1> USE DEF ThreadInv, KernTypes, CtlTypes, BookTypes, TrapInv, Rewound, Stepping,
            kernVars, bookVars, ctlVars, histVars, params
<1>1. ASSUME NEW t \in Tids, DeliverSigstop(t)
      PROVE  \A u \in Tids : Rewound(u)'
  BY <1>1 DEF DeliverSigstop, StopFor
<1>2. ASSUME NEW t \in Tids, HitTrap(t)
      PROVE  \A u \in Tids : Rewound(u)'
  BY <1>2 DEF HitTrap, CanExecute, StopFor
<1>3. ASSUME NEW t \in Tids, Execute(t)
      PROVE  \A u \in Tids : Rewound(u)'
  BY <1>3 DEF Execute, CanExecute, StopFor
<1>4. ASSUME NEW t \in Tids, Raise(t)
      PROVE  \A u \in Tids : Rewound(u)'
  BY <1>4 DEF Raise, CanExecute, StopFor
<1>5. ASSUME NEW t \in Tids, Exit(t)
      PROVE  \A u \in Tids : Rewound(u)'
  BY <1>5 DEF Exit, CanExecute
<1>6. ASSUME NEW t \in Tids, NEW new \in Tids, Clone(t, new)
      PROVE  \A u \in Tids : Rewound(u)'
  BY <1>6 DEF Clone, CanExecute
<1>7. CASE ResumeAll
  BY <1>7 DEF ResumeAll, Goto
<1>8. ASSUME NEW t \in Tids, StepOverBegins(t)
      PROVE  \A u \in Tids : Rewound(u)'
  BY <1>8 DEF StepOverBegins, BeginStepOver, Restarted, Goto
<1>9. ASSUME NEW t \in Tids, StepOverFails(t)
      PROVE  \A u \in Tids : Rewound(u)'
  BY <1>9 DEF StepOverFails, DisableFails, Throws
<1>10. ASSUME NEW t \in Tids, StepOverSkipped(t)
      PROVE  \A u \in Tids : Rewound(u)'
  BY <1>10 DEF StepOverSkipped, Goto
<1>11. CASE OverDone
  BY <1>11 DEF OverDone, Goto
<1>12. ASSUME NEW t \in Tids, ContinueNext(t)
      PROVE  \A u \in Tids : Rewound(u)'
  BY <1>12 DEF ContinueNext, Continued, ContinueFails, Restarted, Goto, Throws
<1>13. CASE ContinueDone
  BY <1>13 DEF ContinueDone
<1>14. CASE Swallow
  BY <1>14 DEF Swallow, Collected, StepOverQuiet
<1>15. CASE SingleStep
  BY <1>15 DEF SingleStep, Restarted, Throws
<1>16. CASE EndStepOver
  BY <1>16 DEF EndStepOver, Collected, SiteAfterStep, Throws, StepOverQuiet
<1>17. CASE WaitOnSignal
  BY <1>17 DEF WaitOnSignal
<1>18. CASE ResumeContinue
  BY <1>18 DEF ResumeContinue, Continued, ContinueFails, Restarted, Throws
<1>19. ASSUME NEW t \in Tids, WaitIgnores(t)
      PROVE  \A u \in Tids : Rewound(u)'
  <2>1. cause[t] # "trap"
    BY <1>19, <1>ignored DEF WaitIgnores
  <2>2. QED
    BY <1>19, <2>1 DEF WaitIgnores, Collected, Goto
<1>20. ASSUME NEW t \in Tids, WaitReports(t)
      PROVE  \A u \in Tids : Rewound(u)'
  <2>1. fresh' = [fresh EXCEPT ![t] = FALSE] /\ kern' = kern /\ cause' = cause
    BY <1>20 DEF WaitReports, Collected
  <2>2. ReadsRight(t)
    BY <1>20, <2>1, <1>reads DEF WaitReports, Collected
  <2>3. ASSUME NEW u \in Tids, u = t
        PROVE  Rewound(u)'
    BY <2>1, <2>2, <2>3 DEF ReadsRight
  <2>4. ASSUME NEW u \in Tids, u # t
        PROVE  Rewound(u)'
    BY <2>1, <2>2, <2>4 DEF ReadsRight
  <2>5. QED
    BY <2>3, <2>4
<1>21. ASSUME NEW t \in Tids, WaitPokeFails(t)
      PROVE  \A u \in Tids : Rewound(u)'
  <2>1. ReadsRight(t)
    BY <1>21, <1>reads DEF WaitPokeFails, Collected
  <2>2. QED
    BY <1>21, <2>1 DEF WaitPokeFails, ReadsRight
<1>22. ASSUME NEW t \in Tids, WaitSeesExit(t)
      PROVE  \A u \in Tids : Rewound(u)'
  BY <1>22 DEF WaitSeesExit, Collected
<1>23. CASE StopRunning
  BY <1>23 DEF StopRunning, Goto
<1>24. ASSUME NEW t \in Tids, StopNext(t)
      PROVE  \A u \in Tids : Rewound(u)'
  BY <1>24 DEF StopNext, Goto
<1>25. CASE StopCollects
  <2>1. CASE Gone(tid)
    BY <1>25, <2>1 DEF StopCollects, Collected, Gone, Throws
  <2>2. CASE ~Gone(tid)
    <3>1. fresh' = [fresh EXCEPT ![tid] = FALSE] /\ kern' = kern /\ cause' = cause
      BY <1>25, <2>2 DEF StopCollects, Collected, Gone, KernInv, KernOf
    <3>2. ReadsRight(tid)
      BY <1>25, <2>2, <3>1, <1>reads DEF StopCollects, Collected, Gone, KernInv, KernOf
    <3>3. ASSUME NEW u \in Tids, u = tid
          PROVE  Rewound(u)'
      BY <3>1, <3>2, <3>3 DEF ReadsRight
    <3>4. ASSUME NEW u \in Tids, u # tid
          PROVE  Rewound(u)'
      BY <3>1, <3>2, <3>4 DEF ReadsRight
    <3>5. QED
      BY <3>3, <3>4
  <2>3. QED
    BY <2>1, <2>2
<1>26. CASE StopDone
  BY <1>26 DEF StopDone
<1>27. CASE Cleanup(stopTid)
  BY <1>27 DEF Cleanup
<1>28. CASE UNCHANGED vars
  BY <1>28 DEF vars
<1> HIDE DEF ThreadInv, KernTypes, CtlTypes, BookTypes, TrapInv, Rewound, Stepping,
            kernVars, bookVars, ctlVars, histVars, params
<1>29. QED
  BY <1>1, <1>2, <1>3, <1>4, <1>5, <1>6, <1>7, <1>8, <1>9, <1>10, <1>11, <1>12, <1>13,
     <1>14, <1>15, <1>16, <1>17, <1>18, <1>19, <1>20, <1>21, <1>22, <1>23, <1>24, <1>25,
     <1>26, <1>27, <1>28, NextCases

(* No step over leaves the site disabled while a trap waits to be handled. *)
LEMMA ExplainedStep ==
  ASSUME ThreadInv, TrapInv, poke = "tid", [Next]_vars
  PROVE  \A u \in Tids : TrapExplained(u)'
<1> USE DEF ThreadInv, KernTypes, CtlTypes, CtlInv, TrapInv, TrapExplained,
            StepOverQuiet, Stepping, kernVars, bookVars, ctlVars, histVars, params
<1>1. ASSUME NEW t \in Tids, DeliverSigstop(t)
      PROVE  \A u \in Tids : TrapExplained(u)'
  BY <1>1 DEF DeliverSigstop, StopFor
<1>2. ASSUME NEW t \in Tids, HitTrap(t)
      PROVE  \A u \in Tids : TrapExplained(u)'
  BY <1>2 DEF HitTrap, CanExecute, StopFor
<1>3. ASSUME NEW t \in Tids, Execute(t)
      PROVE  \A u \in Tids : TrapExplained(u)'
  BY <1>3 DEF Execute, CanExecute, StopFor
<1>4. ASSUME NEW t \in Tids, Raise(t)
      PROVE  \A u \in Tids : TrapExplained(u)'
  BY <1>4 DEF Raise, CanExecute, StopFor
<1>5. ASSUME NEW t \in Tids, Exit(t)
      PROVE  \A u \in Tids : TrapExplained(u)'
  BY <1>5 DEF Exit, CanExecute
<1>6. ASSUME NEW t \in Tids, NEW new \in Tids, Clone(t, new)
      PROVE  \A u \in Tids : TrapExplained(u)'
  BY <1>6 DEF Clone, CanExecute
<1>7. CASE ResumeAll
  BY <1>7 DEF ResumeAll, Goto
<1>8. ASSUME NEW t \in Tids, StepOverBegins(t)
      PROVE  \A u \in Tids : TrapExplained(u)'
  BY <1>8 DEF StepOverBegins, BeginStepOver, Restarted, Goto
<1>9. ASSUME NEW t \in Tids, StepOverFails(t)
      PROVE  \A u \in Tids : TrapExplained(u)'
  BY <1>9 DEF StepOverFails, DisableFails, Throws
<1>10. ASSUME NEW t \in Tids, StepOverSkipped(t)
      PROVE  \A u \in Tids : TrapExplained(u)'
  BY <1>10 DEF StepOverSkipped, Goto
<1>11. CASE OverDone
  BY <1>11 DEF OverDone, Goto, KernInv, KernOf
<1>12. ASSUME NEW t \in Tids, ContinueNext(t)
      PROVE  \A u \in Tids : TrapExplained(u)'
  BY <1>12 DEF ContinueNext, Continued, ContinueFails, Restarted, Goto, Throws
<1>13. CASE ContinueDone
  BY <1>13 DEF ContinueDone
<1>14. CASE Swallow
  BY <1>14 DEF Swallow, Collected
<1>15. CASE SingleStep
  BY <1>15 DEF SingleStep, Restarted, Throws
<1>16. CASE EndStepOver
  BY <1>16 DEF EndStepOver, Collected, SiteAfterStep, Throws
<1>17. CASE WaitOnSignal
  BY <1>17 DEF WaitOnSignal
<1>18. CASE ResumeContinue
  BY <1>18 DEF ResumeContinue, Continued, ContinueFails, Restarted, Throws
<1>19. ASSUME NEW t \in Tids, WaitIgnores(t)
      PROVE  \A u \in Tids : TrapExplained(u)'
  BY <1>19 DEF WaitIgnores, Collected, Goto
<1>20. ASSUME NEW t \in Tids, WaitReports(t)
      PROVE  \A u \in Tids : TrapExplained(u)'
  BY <1>20 DEF WaitReports, Collected, AfterWait
<1>21. ASSUME NEW t \in Tids, WaitPokeFails(t)
      PROVE  \A u \in Tids : TrapExplained(u)'
  BY <1>21 DEF WaitPokeFails, Collected, Throws
<1>22. ASSUME NEW t \in Tids, WaitSeesExit(t)
      PROVE  \A u \in Tids : TrapExplained(u)'
  BY <1>22 DEF WaitSeesExit, Collected
<1>23. CASE StopRunning
  BY <1>23 DEF StopRunning, Goto
<1>24. ASSUME NEW t \in Tids, StopNext(t)
      PROVE  \A u \in Tids : TrapExplained(u)'
  BY <1>24 DEF StopNext, Goto
<1>25. CASE StopCollects
  BY <1>25 DEF StopCollects, Collected, Throws
<1>26. CASE StopDone
  BY <1>26 DEF StopDone
<1>27. CASE Cleanup(stopTid)
  BY <1>27 DEF Cleanup
<1>28. CASE UNCHANGED vars
  BY <1>28 DEF vars
<1> HIDE DEF ThreadInv, KernTypes, CtlTypes, CtlInv, TrapInv, TrapExplained,
            StepOverQuiet, Stepping, kernVars, bookVars, ctlVars, histVars, params
<1>29. QED
  BY <1>1, <1>2, <1>3, <1>4, <1>5, <1>6, <1>7, <1>8, <1>9, <1>10, <1>11, <1>12, <1>13,
     <1>14, <1>15, <1>16, <1>17, <1>18, <1>19, <1>20, <1>21, <1>22, <1>23, <1>24, <1>25,
     <1>26, <1>27, <1>28, NextCases

(* Only reading the registers moves the cached rip. *)
LEMMA BehindStep ==
  ASSUME ThreadInv, TrapInv, poke = "tid", [Next]_vars
  PROVE  \A u \in Tids : CacheBehind(u)'
<1>reads. ASSUME NEW t \in Tids, kern[t] = "stopped", fresh[t], ReadRegisters(t),
                 pc \in {"wait", "stop_wait"}
          PROVE  ReadsRight(t)
  BY <1>reads, ReadsAreRight
<1> USE DEF ThreadInv, KernTypes, BookTypes, CtlTypes, TrapInv, CacheBehind, kernVars,
            bookVars, ctlVars, histVars, params
<1>1. ASSUME NEW t \in Tids, DeliverSigstop(t)
      PROVE  \A u \in Tids : CacheBehind(u)'
  BY <1>1 DEF DeliverSigstop, StopFor
<1>2. ASSUME NEW t \in Tids, HitTrap(t)
      PROVE  \A u \in Tids : CacheBehind(u)'
  BY <1>2 DEF HitTrap, CanExecute, StopFor
<1>3. ASSUME NEW t \in Tids, Execute(t)
      PROVE  \A u \in Tids : CacheBehind(u)'
  BY <1>3 DEF Execute, CanExecute, StopFor
<1>4. ASSUME NEW t \in Tids, Raise(t)
      PROVE  \A u \in Tids : CacheBehind(u)'
  BY <1>4 DEF Raise, CanExecute, StopFor
<1>5. ASSUME NEW t \in Tids, Exit(t)
      PROVE  \A u \in Tids : CacheBehind(u)'
  BY <1>5 DEF Exit, CanExecute
<1>6. ASSUME NEW t \in Tids, NEW new \in Tids, Clone(t, new)
      PROVE  \A u \in Tids : CacheBehind(u)'
  BY <1>6 DEF Clone, CanExecute
<1>7. CASE ResumeAll
  BY <1>7 DEF ResumeAll, Goto
<1>8. ASSUME NEW t \in Tids, StepOverBegins(t)
      PROVE  \A u \in Tids : CacheBehind(u)'
  BY <1>8 DEF StepOverBegins, BeginStepOver, Restarted, Goto
<1>9. ASSUME NEW t \in Tids, StepOverFails(t)
      PROVE  \A u \in Tids : CacheBehind(u)'
  BY <1>9 DEF StepOverFails, DisableFails, Throws
<1>10. ASSUME NEW t \in Tids, StepOverSkipped(t)
      PROVE  \A u \in Tids : CacheBehind(u)'
  BY <1>10 DEF StepOverSkipped, Goto
<1>11. CASE OverDone
  BY <1>11 DEF OverDone, Goto
<1>12. ASSUME NEW t \in Tids, ContinueNext(t)
      PROVE  \A u \in Tids : CacheBehind(u)'
  BY <1>12 DEF ContinueNext, Continued, ContinueFails, Restarted, Goto, Throws
<1>13. CASE ContinueDone
  BY <1>13 DEF ContinueDone
<1>14. CASE Swallow
  BY <1>14 DEF Swallow, Collected
<1>15. CASE SingleStep
  BY <1>15 DEF SingleStep, Restarted, Throws
<1>16. CASE EndStepOver
  BY <1>16 DEF EndStepOver, Collected, SiteAfterStep, Throws
<1>17. CASE WaitOnSignal
  BY <1>17 DEF WaitOnSignal
<1>18. CASE ResumeContinue
  BY <1>18 DEF ResumeContinue, Continued, ContinueFails, Restarted, Throws
<1>19. ASSUME NEW t \in Tids, WaitIgnores(t)
      PROVE  \A u \in Tids : CacheBehind(u)'
  BY <1>19 DEF WaitIgnores, Collected, Goto
<1>20. ASSUME NEW t \in Tids, WaitReports(t)
      PROVE  \A u \in Tids : CacheBehind(u)'
  <2>1. fresh' = [fresh EXCEPT ![t] = FALSE] /\ kern' = kern /\ cause' = cause
    BY <1>20 DEF WaitReports, Collected
  <2>2. ReadsRight(t)
    BY <1>20, <2>1, <1>reads DEF WaitReports, Collected
  <2>3. ASSUME NEW u \in Tids, u = t
        PROVE  CacheBehind(u)'
    <3>1. cpc'[u] = rip'[u] /\ rip'[u] \in Nat
      BY <2>2, <2>3 DEF ReadsRight
    <3>2. ~fresh'[u]
      BY <2>1, <2>3
    <3>3. QED
      BY <3>1, <3>2
  <2>4. ASSUME NEW u \in Tids, u # t
        PROVE  CacheBehind(u)'
    BY <2>1, <2>2, <2>4 DEF ReadsRight
  <2>5. QED
    BY <2>3, <2>4
<1>21. ASSUME NEW t \in Tids, WaitPokeFails(t)
      PROVE  \A u \in Tids : CacheBehind(u)'
  <2>1. ReadsRight(t)
    BY <1>21, <1>reads DEF WaitPokeFails, Collected
  <2>2. QED
    BY <1>21, <2>1 DEF WaitPokeFails, ReadsRight
<1>22. ASSUME NEW t \in Tids, WaitSeesExit(t)
      PROVE  \A u \in Tids : CacheBehind(u)'
  BY <1>22 DEF WaitSeesExit, Collected
<1>23. CASE StopRunning
  BY <1>23 DEF StopRunning, Goto
<1>24. ASSUME NEW t \in Tids, StopNext(t)
      PROVE  \A u \in Tids : CacheBehind(u)'
  BY <1>24 DEF StopNext, Goto
<1>25. CASE StopCollects
  <2>1. CASE Gone(tid)
    BY <1>25, <2>1 DEF StopCollects, Collected, Gone, Throws
  <2>2. CASE ~Gone(tid)
    <3>1. fresh' = [fresh EXCEPT ![tid] = FALSE] /\ kern' = kern /\ cause' = cause
      BY <1>25, <2>2 DEF StopCollects, Collected, Gone, KernInv, KernOf
    <3>2. ReadsRight(tid)
      BY <1>25, <2>2, <3>1, <1>reads DEF StopCollects, Collected, Gone, KernInv, KernOf
    <3>3. ASSUME NEW u \in Tids, u = tid
          PROVE  CacheBehind(u)'
      <4>1. cpc'[u] = rip'[u] /\ rip'[u] \in Nat
        BY <3>2, <3>3 DEF ReadsRight
      <4>2. ~fresh'[u]
        BY <3>1, <3>3
      <4>3. QED
        BY <4>1, <4>2
    <3>4. ASSUME NEW u \in Tids, u # tid
          PROVE  CacheBehind(u)'
      BY <3>1, <3>2, <3>4 DEF ReadsRight
    <3>5. QED
      BY <3>3, <3>4
  <2>3. QED
    BY <2>1, <2>2
<1>26. CASE StopDone
  BY <1>26 DEF StopDone
<1>27. CASE Cleanup(stopTid)
  BY <1>27 DEF Cleanup
<1>28. CASE UNCHANGED vars
  BY <1>28 DEF vars
<1> HIDE DEF ThreadInv, KernTypes, BookTypes, CtlTypes, TrapInv, CacheBehind, kernVars,
            bookVars, ctlVars, histVars, params
<1>29. QED
  BY <1>1, <1>2, <1>3, <1>4, <1>5, <1>6, <1>7, <1>8, <1>9, <1>10, <1>11, <1>12, <1>13,
     <1>14, <1>15, <1>16, <1>17, <1>18, <1>19, <1>20, <1>21, <1>22, <1>23, <1>24, <1>25,
     <1>26, <1>27, <1>28, NextCases

(* The site stays disabled for the whole step over. *)
LEMMA QuietStep ==
  ASSUME ThreadInv, TrapInv, poke = "tid", [Next]_vars
  PROVE  StepOverQuiet'
<1> USE DEF ThreadInv, KernTypes, CtlTypes, CtlInv, TrapInv, StepOverQuiet, Stepping,
            kernVars, bookVars, ctlVars, histVars, params
<1>1. ASSUME NEW t \in Tids, DeliverSigstop(t)
      PROVE  StepOverQuiet'
  BY <1>1 DEF DeliverSigstop, StopFor
<1>2. ASSUME NEW t \in Tids, HitTrap(t)
      PROVE  StepOverQuiet'
  BY <1>2 DEF HitTrap, CanExecute, StopFor
<1>3. ASSUME NEW t \in Tids, Execute(t)
      PROVE  StepOverQuiet'
  BY <1>3 DEF Execute, CanExecute, StopFor
<1>4. ASSUME NEW t \in Tids, Raise(t)
      PROVE  StepOverQuiet'
  BY <1>4 DEF Raise, CanExecute, StopFor
<1>5. ASSUME NEW t \in Tids, Exit(t)
      PROVE  StepOverQuiet'
  BY <1>5 DEF Exit, CanExecute
<1>6. ASSUME NEW t \in Tids, NEW new \in Tids, Clone(t, new)
      PROVE  StepOverQuiet'
  BY <1>6 DEF Clone, CanExecute
<1>7. CASE ResumeAll
  BY <1>7 DEF ResumeAll, Goto
<1>8. ASSUME NEW t \in Tids, StepOverBegins(t)
      PROVE  StepOverQuiet'
  BY <1>8 DEF StepOverBegins, BeginStepOver, Restarted, Goto
<1>9. ASSUME NEW t \in Tids, StepOverFails(t)
      PROVE  StepOverQuiet'
  BY <1>9 DEF StepOverFails, DisableFails, Throws
<1>10. ASSUME NEW t \in Tids, StepOverSkipped(t)
      PROVE  StepOverQuiet'
  BY <1>10 DEF StepOverSkipped, Goto
<1>11. CASE OverDone
  BY <1>11 DEF OverDone, Goto
<1>12. ASSUME NEW t \in Tids, ContinueNext(t)
      PROVE  StepOverQuiet'
  BY <1>12 DEF ContinueNext, Continued, ContinueFails, Restarted, Goto, Throws
<1>13. CASE ContinueDone
  BY <1>13 DEF ContinueDone
<1>14. CASE Swallow
  BY <1>14 DEF Swallow, Collected
<1>15. CASE SingleStep
  BY <1>15 DEF SingleStep, Restarted, Throws
<1>16. CASE EndStepOver
  BY <1>16 DEF EndStepOver, Collected, SiteAfterStep, Throws
<1>17. CASE WaitOnSignal
  BY <1>17 DEF WaitOnSignal
<1>18. CASE ResumeContinue
  BY <1>18 DEF ResumeContinue, Continued, ContinueFails, Restarted, Throws
<1>19. ASSUME NEW t \in Tids, WaitIgnores(t)
      PROVE  StepOverQuiet'
  BY <1>19 DEF WaitIgnores, Collected, Goto
<1>20. ASSUME NEW t \in Tids, WaitReports(t)
      PROVE  StepOverQuiet'
  BY <1>20 DEF WaitReports, Collected, AfterWait
<1>21. ASSUME NEW t \in Tids, WaitPokeFails(t)
      PROVE  StepOverQuiet'
  BY <1>21 DEF WaitPokeFails, Collected, Throws
<1>22. ASSUME NEW t \in Tids, WaitSeesExit(t)
      PROVE  StepOverQuiet'
  BY <1>22 DEF WaitSeesExit, Collected
<1>23. CASE StopRunning
  BY <1>23 DEF StopRunning, Goto
<1>24. ASSUME NEW t \in Tids, StopNext(t)
      PROVE  StepOverQuiet'
  BY <1>24 DEF StopNext, Goto
<1>25. CASE StopCollects
  BY <1>25 DEF StopCollects, Collected, Throws
<1>26. CASE StopDone
  BY <1>26 DEF StopDone
<1>27. CASE Cleanup(stopTid)
  BY <1>27 DEF Cleanup
<1>28. CASE UNCHANGED vars
  BY <1>28 DEF vars
<1> HIDE DEF ThreadInv, KernTypes, CtlTypes, CtlInv, TrapInv, StepOverQuiet, Stepping,
            kernVars, bookVars, ctlVars, histVars, params
<1>29. QED
  BY <1>1, <1>2, <1>3, <1>4, <1>5, <1>6, <1>7, <1>8, <1>9, <1>10, <1>11, <1>12, <1>13,
     <1>14, <1>15, <1>16, <1>17, <1>18, <1>19, <1>20, <1>21, <1>22, <1>23, <1>24, <1>25,
     <1>26, <1>27, <1>28, NextCases

(* stop_running_threads leaves the reported thread alone. *)
LEMMA StopStep ==
  ASSUME ThreadInv, StopInv, [Next]_vars
  PROVE  StopInv'
<1> USE DEF ThreadInv, BookTypes, CtlTypes, CtlInv, StopInv, Stepping, kernVars,
            bookVars, ctlVars, histVars, params
<1>1. ASSUME NEW t \in Tids, DeliverSigstop(t)
      PROVE  StopInv'
  BY <1>1 DEF DeliverSigstop, StopFor
<1>2. ASSUME NEW t \in Tids, HitTrap(t)
      PROVE  StopInv'
  BY <1>2 DEF HitTrap, CanExecute, StopFor
<1>3. ASSUME NEW t \in Tids, Execute(t)
      PROVE  StopInv'
  BY <1>3 DEF Execute, CanExecute, StopFor
<1>4. ASSUME NEW t \in Tids, Raise(t)
      PROVE  StopInv'
  BY <1>4 DEF Raise, CanExecute, StopFor
<1>5. ASSUME NEW t \in Tids, Exit(t)
      PROVE  StopInv'
  BY <1>5 DEF Exit, CanExecute
<1>6. ASSUME NEW t \in Tids, NEW new \in Tids, Clone(t, new)
      PROVE  StopInv'
  BY <1>6 DEF Clone, CanExecute
<1>7. CASE ResumeAll
  BY <1>7 DEF ResumeAll, Goto
<1>8. ASSUME NEW t \in Tids, StepOverBegins(t)
      PROVE  StopInv'
  BY <1>8 DEF StepOverBegins, BeginStepOver, Restarted, Goto
<1>9. ASSUME NEW t \in Tids, StepOverFails(t)
      PROVE  StopInv'
  BY <1>9 DEF StepOverFails, DisableFails, Throws
<1>10. ASSUME NEW t \in Tids, StepOverSkipped(t)
      PROVE  StopInv'
  BY <1>10 DEF StepOverSkipped, Goto
<1>11. CASE OverDone
  BY <1>11 DEF OverDone, Goto
<1>12. ASSUME NEW t \in Tids, ContinueNext(t)
      PROVE  StopInv'
  BY <1>12 DEF ContinueNext, Continued, ContinueFails, Restarted, Goto, Throws
<1>13. CASE ContinueDone
  BY <1>13 DEF ContinueDone
<1>14. CASE Swallow
  BY <1>14 DEF Swallow, Collected
<1>15. CASE SingleStep
  BY <1>15 DEF SingleStep, Restarted, Throws
<1>16. CASE EndStepOver
  BY <1>16 DEF EndStepOver, Collected, SiteAfterStep, Throws
<1>17. CASE WaitOnSignal
  BY <1>17 DEF WaitOnSignal
<1>18. CASE ResumeContinue
  BY <1>18 DEF ResumeContinue, Continued, ContinueFails, Restarted, Throws
<1>19. ASSUME NEW t \in Tids, WaitIgnores(t)
      PROVE  StopInv'
  BY <1>19 DEF WaitIgnores, Collected, Goto
<1>20. ASSUME NEW t \in Tids, WaitReports(t)
      PROVE  StopInv'
  BY <1>20 DEF WaitReports, Collected, AfterWait, Ignored
<1>21. ASSUME NEW t \in Tids, WaitPokeFails(t)
      PROVE  StopInv'
  BY <1>21 DEF WaitPokeFails, Collected, Throws
<1>22. ASSUME NEW t \in Tids, WaitSeesExit(t)
      PROVE  StopInv'
  BY <1>22 DEF WaitSeesExit, Collected
<1>23. CASE StopRunning
  BY <1>23 DEF StopRunning, Goto
<1>24. ASSUME NEW t \in Tids, StopNext(t)
      PROVE  StopInv'
  BY <1>24 DEF StopNext, Goto
<1>25. CASE StopCollects
  BY <1>25 DEF StopCollects, Collected, Throws
<1>26. CASE StopDone
  BY <1>26 DEF StopDone
<1>27. CASE Cleanup(stopTid)
  BY <1>27 DEF Cleanup
<1>28. CASE UNCHANGED vars
  BY <1>28 DEF vars
<1> HIDE DEF ThreadInv, BookTypes, CtlTypes, CtlInv, StopInv, Stepping, kernVars,
            bookVars, ctlVars, histVars, params
<1>29. QED
  BY <1>1, <1>2, <1>3, <1>4, <1>5, <1>6, <1>7, <1>8, <1>9, <1>10, <1>11, <1>12, <1>13,
     <1>14, <1>15, <1>16, <1>17, <1>18, <1>19, <1>20, <1>21, <1>22, <1>23, <1>24, <1>25,
     <1>26, <1>27, <1>28, NextCases

(* The session ends when the main thread is forgotten. *)
LEMMA MainStep ==
  ASSUME ThreadInv, CarefulInv, Good, [Next]_vars
  PROVE  (Main \in threads \/ turn = "done")'
<1> USE DEF ThreadInv, CarefulInv, Good, Careful, CtlInv, BookTypes, CtlTypes, kernVars,
            bookVars, ctlVars, histVars, params
<1>1. ASSUME NEW t \in Tids, DeliverSigstop(t)
      PROVE  (Main \in threads \/ turn = "done")'
  BY <1>1 DEF DeliverSigstop, StopFor
<1>2. ASSUME NEW t \in Tids, HitTrap(t)
      PROVE  (Main \in threads \/ turn = "done")'
  BY <1>2 DEF HitTrap, CanExecute, StopFor
<1>3. ASSUME NEW t \in Tids, Execute(t)
      PROVE  (Main \in threads \/ turn = "done")'
  BY <1>3 DEF Execute, CanExecute, StopFor
<1>4. ASSUME NEW t \in Tids, Raise(t)
      PROVE  (Main \in threads \/ turn = "done")'
  BY <1>4 DEF Raise, CanExecute, StopFor
<1>5. ASSUME NEW t \in Tids, Exit(t)
      PROVE  (Main \in threads \/ turn = "done")'
  BY <1>5 DEF Exit, CanExecute
<1>6. ASSUME NEW t \in Tids, NEW new \in Tids, Clone(t, new)
      PROVE  (Main \in threads \/ turn = "done")'
  BY <1>6 DEF Clone, CanExecute
<1>7. CASE ResumeAll
  BY <1>7 DEF ResumeAll, Goto
<1>8. ASSUME NEW t \in Tids, StepOverBegins(t)
      PROVE  (Main \in threads \/ turn = "done")'
  BY <1>8 DEF StepOverBegins, BeginStepOver, Restarted, Goto
<1>9. ASSUME NEW t \in Tids, StepOverFails(t)
      PROVE  (Main \in threads \/ turn = "done")'
  BY <1>9 DEF StepOverFails, DisableFails, Throws
<1>10. ASSUME NEW t \in Tids, StepOverSkipped(t)
      PROVE  (Main \in threads \/ turn = "done")'
  BY <1>10 DEF StepOverSkipped, Goto
<1>11. CASE OverDone
  BY <1>11 DEF OverDone, Goto
<1>12. ASSUME NEW t \in Tids, ContinueNext(t)
      PROVE  (Main \in threads \/ turn = "done")'
  BY <1>12 DEF ContinueNext, Continued, ContinueFails, Restarted, Goto, Throws
<1>13. CASE ContinueDone
  BY <1>13 DEF ContinueDone
<1>14. CASE Swallow
  BY <1>14 DEF Swallow, Collected
<1>15. CASE SingleStep
  BY <1>15 DEF SingleStep, Restarted, Throws
<1>16. CASE EndStepOver
  BY <1>16 DEF EndStepOver, Collected, SiteAfterStep, Throws
<1>17. CASE WaitOnSignal
  BY <1>17 DEF WaitOnSignal
<1>18. CASE ResumeContinue
  BY <1>18 DEF ResumeContinue, Continued, ContinueFails, Restarted, Throws
<1>19. ASSUME NEW t \in Tids, WaitIgnores(t)
      PROVE  (Main \in threads \/ turn = "done")'
  BY <1>19 DEF WaitIgnores, Collected, Goto
<1>20. ASSUME NEW t \in Tids, WaitReports(t)
      PROVE  (Main \in threads \/ turn = "done")'
  BY <1>20 DEF WaitReports, Collected, AfterWait
<1>21. ASSUME NEW t \in Tids, WaitPokeFails(t)
      PROVE  (Main \in threads \/ turn = "done")'
  BY <1>21 DEF WaitPokeFails, Collected, Throws
<1>22. ASSUME NEW t \in Tids, WaitSeesExit(t)
      PROVE  (Main \in threads \/ turn = "done")'
  BY <1>22 DEF WaitSeesExit, Collected
<1>23. CASE StopRunning
  BY <1>23 DEF StopRunning, Goto
<1>24. ASSUME NEW t \in Tids, StopNext(t)
      PROVE  (Main \in threads \/ turn = "done")'
  BY <1>24 DEF StopNext, Goto
<1>25. CASE StopCollects
  BY <1>25 DEF StopCollects, Collected, Throws
<1>26. CASE StopDone
  BY <1>26 DEF StopDone
<1>27. CASE Cleanup(stopTid)
  BY <1>27 DEF Cleanup
<1>28. CASE UNCHANGED vars
  BY <1>28 DEF vars
<1> HIDE DEF ThreadInv, CarefulInv, Good, Careful, CtlInv, BookTypes, CtlTypes,
            kernVars, bookVars, ctlVars, histVars, params
<1>29. QED
  BY <1>1, <1>2, <1>3, <1>4, <1>5, <1>6, <1>7, <1>8, <1>9, <1>10, <1>11, <1>12, <1>13,
     <1>14, <1>15, <1>16, <1>17, <1>18, <1>19, <1>20, <1>21, <1>22, <1>23, <1>24, <1>25,
     <1>26, <1>27, <1>28, NextCases

(* Each call hands the next one stopped threads. *)
LEMMA ResumableStep ==
  ASSUME ThreadInv, TrapInv, StopInv, CarefulInv, Good, Good', [Next]_vars
  PROVE  AllResumable'
<1>fails. NothingFails
  BY GoodSucceeds
<1>begins. ASSUME NEW t \in Tids
           PROVE  /\ ~StepOverFails(t)
                  /\ StepOverBegins(t) =>
                       /\ pc = "over" /\ t \in todo /\ BeginStepOver(t, "over", todo \ {t})
                       /\ ~Stale(t)
  BY GoodStepOver
<1> USE DEF ThreadInv, CarefulInv, Good, Careful, KernTypes, BookTypes, CtlTypes,
            CtlInv, AllResumable, Resumable, Stepping, kernVars, bookVars, ctlVars,
            histVars, params
<1>1. ASSUME NEW t \in Tids, DeliverSigstop(t)
      PROVE  AllResumable'
  BY <1>1 DEF DeliverSigstop, StopFor
<1>2. ASSUME NEW t \in Tids, HitTrap(t)
      PROVE  AllResumable'
  BY <1>2 DEF HitTrap, CanExecute, StopFor
<1>3. ASSUME NEW t \in Tids, Execute(t)
      PROVE  AllResumable'
  BY <1>3 DEF Execute, CanExecute, StopFor
<1>4. ASSUME NEW t \in Tids, Raise(t)
      PROVE  AllResumable'
  BY <1>4 DEF Raise, CanExecute, StopFor
<1>5. ASSUME NEW t \in Tids, Exit(t)
      PROVE  AllResumable'
  BY <1>5 DEF Exit, CanExecute
<1>6. ASSUME NEW t \in Tids, NEW new \in Tids, Clone(t, new)
      PROVE  AllResumable'
  BY <1>6 DEF Clone, CanExecute
<1>7. CASE ResumeAll
  BY <1>7 DEF ResumeAll, Goto
<1>8. ASSUME NEW t \in Tids, StepOverBegins(t)
      PROVE  AllResumable'
  BY <1>8 DEF StepOverBegins, BeginStepOver, Restarted, Goto
<1>9. ASSUME NEW t \in Tids, StepOverFails(t)
      PROVE  AllResumable'
  BY <1>9, <1>begins
<1>10. ASSUME NEW t \in Tids, StepOverSkipped(t)
      PROVE  AllResumable'
  BY <1>10 DEF StepOverSkipped, Goto
<1>11. CASE OverDone
  BY <1>11 DEF OverDone, Goto
<1>12. ASSUME NEW t \in Tids, ContinueNext(t)
      PROVE  AllResumable'
  <2>1. ~ContinueFails(t)
    BY <1>12, <1>fails DEF ContinueNext, ContinueFails, NothingFails, Resumable
  <2>2. QED
    BY <1>12, <2>1 DEF ContinueNext, Continued, Restarted, Goto
<1>13. CASE ContinueDone
  BY <1>13 DEF ContinueDone
<1>14. CASE Swallow
  <2>1. pc = "swallow" /\ kern[tid] = "stopped" /\ turn = "resume"
    BY <1>14, <1>fails DEF Swallow, Collected, NothingFails, KernInv, KernOf
  <2>2. QED
    BY <1>14, <2>1 DEF Swallow, Collected
<1>15. CASE SingleStep
  <2>1. pc = "step" /\ kern[tid] = "stopped" /\ turn = "resume"
    BY <1>15, <1>fails DEF SingleStep, NothingFails, Resumable
  <2>2. QED
    BY <1>15, <2>1 DEF SingleStep, Restarted
<1>16. CASE EndStepOver
  <2>1. kern[tid] = "stopped" /\ MemoryReachable /\ turn = "resume" /\ back = "over"
    BY <1>16, <1>fails DEF EndStepOver, Collected, NothingFails, KernInv, KernOf
  <2>2. QED
    BY <1>16, <2>1 DEF EndStepOver, Collected
<1>17. CASE WaitOnSignal
  BY <1>17 DEF WaitOnSignal
<1>18. CASE ResumeContinue
  <2>1. ~ContinueFails(tid)
    BY <1>18, <1>fails DEF ResumeContinue, ContinueFails, NothingFails, Resumable
  <2>2. QED
    BY <1>18, <2>1 DEF ResumeContinue, Continued, Restarted
<1>19. ASSUME NEW t \in Tids, WaitIgnores(t)
      PROVE  AllResumable'
  BY <1>19 DEF WaitIgnores, Collected, Goto
<1>20. ASSUME NEW t \in Tids, WaitReports(t)
      PROVE  AllResumable'
  BY <1>20 DEF WaitReports, Collected, AfterWait
<1>21. ASSUME NEW t \in Tids, WaitPokeFails(t)
      PROVE  AllResumable'
  BY <1>21, <1>fails DEF NothingFails, WaitPokeFails
<1>22. ASSUME NEW t \in Tids, WaitSeesExit(t)
      PROVE  AllResumable'
  BY <1>22 DEF WaitSeesExit, Collected
<1>23. CASE StopRunning
  BY <1>23 DEF StopRunning, Goto
<1>24. ASSUME NEW t \in Tids, StopNext(t)
      PROVE  AllResumable'
  BY <1>24 DEF StopNext, Goto
<1>25. CASE StopCollects
  <2>1. Gone(tid) \/ ~PokeFails(tid)
    BY <1>25, <1>fails DEF StopCollects, Collected, Gone, NothingFails, KernInv, KernOf
  <2>2. pc' = "stop" /\ turn' = "stop" /\ threw' = threw
    BY <1>25, <2>1 DEF StopCollects
  <2>3. QED
    BY <2>2
<1>26. CASE StopDone
  BY <1>26 DEF StopDone
<1>27. CASE Cleanup(stopTid)
  <2>1. \A t \in threads' : state[t] = "stopped"
    BY <1>27 DEF Cleanup, BookInv, StopInv
  <2>2. \A t \in threads' : Resumable(t)
    BY <1>27, <2>1 DEF Cleanup, BookInv
  <2>3. QED
    BY <1>27, <2>2 DEF Cleanup
<1>28. CASE UNCHANGED vars
  BY <1>28 DEF vars
<1> HIDE DEF ThreadInv, CarefulInv, Good, Careful, KernTypes, BookTypes, CtlTypes,
            CtlInv, AllResumable, Resumable, Stepping, kernVars, bookVars, ctlVars,
            histVars, params
<1>29. QED
  BY <1>1, <1>2, <1>3, <1>4, <1>5, <1>6, <1>7, <1>8, <1>9, <1>10, <1>11, <1>12, <1>13,
     <1>14, <1>15, <1>16, <1>17, <1>18, <1>19, <1>20, <1>21, <1>22, <1>23, <1>24, <1>25,
     <1>26, <1>27, <1>28, NextCases

(* The stages of a step over follow each other. *)
LEMMA SteppingStep ==
  ASSUME ThreadInv, TrapInv, CarefulInv, Good, Good', [Next]_vars
  PROVE  SteppingOver'
<1>fails. NothingFails
  BY GoodSucceeds
<1>begins. ASSUME NEW t \in Tids
           PROVE  /\ ~StepOverFails(t)
                  /\ StepOverBegins(t) =>
                       /\ pc = "over" /\ t \in todo /\ BeginStepOver(t, "over", todo \ {t})
                       /\ ~Stale(t)
  BY GoodStepOver
<1> USE DEF ThreadInv, CarefulInv, Good, Careful, KernTypes, BookTypes, CtlTypes,
            CtlInv, SteppingOver, Stepping, kernVars, bookVars, ctlVars, histVars,
            params
<1>1. ASSUME NEW t \in Tids, DeliverSigstop(t)
      PROVE  SteppingOver'
  BY <1>1 DEF DeliverSigstop, StopFor
<1>2. ASSUME NEW t \in Tids, HitTrap(t)
      PROVE  SteppingOver'
  BY <1>2 DEF HitTrap, CanExecute, StopFor
<1>3. ASSUME NEW t \in Tids, Execute(t)
      PROVE  SteppingOver'
  <2>1. CASE pc \in {"swallow", "stepped"} /\ t = tid
    <3>1. pc = "stepped" /\ stepping[t] /\ kern[t] = "running"
      BY <1>3, <2>1 DEF Execute, CanExecute
    <3>2. QED
      BY <1>3, <2>1, <3>1 DEF Execute, CanExecute, StopFor
  <2>2. CASE ~(pc \in {"swallow", "stepped"} /\ t = tid)
    <3>1. UNCHANGED <<siteOn, pc, back, cpc, over, sigq, tid>>
      BY <1>3 DEF Execute
    <3>2. pc \in {"swallow", "stepped"} =>
            /\ kern'[tid] = kern[tid] /\ cause'[tid] = cause[tid] /\ rip'[tid] = rip[tid]
            /\ (fresh'[tid] <=> fresh[tid]) /\ (stepping'[tid] <=> stepping[tid])
      BY <1>3, <2>2 DEF Execute, CanExecute, StopFor
    <3>3. pc = "step" => rip'[tid] = rip[tid]
      BY <1>3, <1>fails DEF Execute, CanExecute, NothingFails, Resumable
    <3>4. QED
      BY <3>1, <3>2, <3>3
  <2>3. QED
    BY <2>1, <2>2
<1>4. ASSUME NEW t \in Tids, Raise(t)
      PROVE  SteppingOver'
  BY <1>4 DEF Raise, CanExecute, StopFor
<1>5. ASSUME NEW t \in Tids, Exit(t)
      PROVE  SteppingOver'
  BY <1>5 DEF Exit, CanExecute
<1>6. ASSUME NEW t \in Tids, NEW new \in Tids, Clone(t, new)
      PROVE  SteppingOver'
  BY <1>6 DEF Clone, CanExecute
<1>7. CASE ResumeAll
  BY <1>7 DEF ResumeAll, Goto
<1>8. ASSUME NEW t \in Tids, StepOverBegins(t)
      PROVE  SteppingOver'
  <2>1. /\ pc = "over" /\ t \in todo /\ BeginStepOver(t, "over", todo \ {t})
        /\ ~Stale(t) /\ kern[t] = "stopped" /\ ~fresh[t]
    BY <1>8, <1>begins, <1>fails DEF NothingFails, Resumable
  <2>2. /\ siteOn' = FALSE /\ back' = "over" /\ tid' = t /\ cpc' = cpc /\ rip' = rip /\ sigq' = sigq
        /\ At(cpc[t]) = "site" /\ rip[t] = cpc[t] /\ cpc[t] \in over'[t]
    BY <2>1 DEF BeginStepOver, NeedsStepOver, Goto, Stale, HistTypes
  <2>3. CASE pend[t]
    <3>1. pc' = "swallow" /\ kern'[t] = "running" /\ sigq[t]
      BY <2>1, <2>3 DEF BeginStepOver, Goto, Restarted, Stale
    <3>2. QED
      BY <2>2, <3>1
  <2>4. CASE ~pend[t]
    <3>1. pc' = "step" /\ ~sigq[t]
      BY <2>1, <2>4 DEF BeginStepOver, Goto, SigInv, SigOf
    <3>2. QED
      BY <2>2, <3>1
  <2>5. QED
    BY <2>3, <2>4
<1>9. ASSUME NEW t \in Tids, StepOverFails(t)
      PROVE  SteppingOver'
  BY <1>9, <1>begins
<1>10. ASSUME NEW t \in Tids, StepOverSkipped(t)
      PROVE  SteppingOver'
  BY <1>10 DEF StepOverSkipped, Goto
<1>11. CASE OverDone
  BY <1>11 DEF OverDone, Goto
<1>12. ASSUME NEW t \in Tids, ContinueNext(t)
      PROVE  SteppingOver'
  <2>1. ~ContinueFails(t)
    BY <1>12, <1>fails DEF ContinueNext, ContinueFails, NothingFails, Resumable
  <2>2. pc = "continue" /\ pc' = "continue" /\ siteOn' = siteOn
    BY <1>12, <2>1 DEF ContinueNext, Continued, Goto
  <2>3. QED
    BY <2>2
<1>13. CASE ContinueDone
  BY <1>13 DEF ContinueDone
<1>14. CASE Swallow
  <2>1. /\ pc = "swallow" /\ pc' = "step" /\ ~sigq[tid]
        /\ UNCHANGED <<siteOn, back, tid, cpc, over, rip, sigq>>
    BY <1>14 DEF Swallow, Collected, SigInv, SigOf, KernInv, KernOf
  <2>2. QED
    BY <2>1
<1>15. CASE SingleStep
  <2>1. pc = "step" /\ kern[tid] = "stopped"
    BY <1>15, <1>fails DEF SingleStep, NothingFails, Resumable
  <2>2. /\ pc' = "stepped" /\ kern'[tid] = "running" /\ stepping'[tid]
        /\ UNCHANGED <<siteOn, back, tid, cpc, over, rip, sigq>>
    BY <1>15, <2>1 DEF SingleStep, Restarted
  <2>3. QED
    BY <2>1, <2>2
<1>16. CASE EndStepOver
  <2>1. kern[tid] = "stopped" /\ MemoryReachable /\ back = "over"
    BY <1>16, <1>fails DEF EndStepOver, Collected, NothingFails, KernInv, KernOf
  <2>2. siteOn' = TRUE /\ pc' = "over"
    BY <1>16, <2>1 DEF EndStepOver, SiteAfterStep
  <2>3. QED
    BY <2>2
<1>17. CASE WaitOnSignal
  BY <1>17 DEF WaitOnSignal
<1>18. CASE ResumeContinue
  BY <1>18 DEF ResumeContinue, Continued, ContinueFails, Restarted, Throws
<1>19. ASSUME NEW t \in Tids, WaitIgnores(t)
      PROVE  SteppingOver'
  BY <1>19 DEF WaitIgnores, Collected, Goto
<1>20. ASSUME NEW t \in Tids, WaitReports(t)
      PROVE  SteppingOver'
  BY <1>20 DEF WaitReports, Collected, AfterWait
<1>21. ASSUME NEW t \in Tids, WaitPokeFails(t)
      PROVE  SteppingOver'
  BY <1>21, <1>fails DEF NothingFails, WaitPokeFails
<1>22. ASSUME NEW t \in Tids, WaitSeesExit(t)
      PROVE  SteppingOver'
  BY <1>22 DEF WaitSeesExit, Collected
<1>23. CASE StopRunning
  BY <1>23 DEF StopRunning, Goto
<1>24. ASSUME NEW t \in Tids, StopNext(t)
      PROVE  SteppingOver'
  BY <1>24 DEF StopNext, Goto
<1>25. CASE StopCollects
  BY <1>25 DEF StopCollects, Collected, Throws
<1>26. CASE StopDone
  BY <1>26 DEF StopDone
<1>27. CASE Cleanup(stopTid)
  BY <1>27 DEF Cleanup
<1>28. CASE UNCHANGED vars
  BY <1>28 DEF vars
<1> HIDE DEF ThreadInv, CarefulInv, Good, Careful, KernTypes, BookTypes, CtlTypes,
            CtlInv, SteppingOver, Stepping, kernVars, bookVars, ctlVars, histVars,
            params
<1>29. QED
  BY <1>1, <1>2, <1>3, <1>4, <1>5, <1>6, <1>7, <1>8, <1>9, <1>10, <1>11, <1>12, <1>13,
     <1>14, <1>15, <1>16, <1>17, <1>18, <1>19, <1>20, <1>21, <1>22, <1>23, <1>24, <1>25,
     <1>26, <1>27, <1>28, NextCases

(* wait_on_signal steps no thread over the site that is not Stale. *)
LEMMA WaitStep ==
  ASSUME ThreadInv, TrapInv, CarefulInv, Good, Good', [Next]_vars
  PROVE  WaitResumes'
<1>fails. NothingFails
  BY GoodSucceeds
<1>begins. ASSUME NEW t \in Tids
           PROVE  /\ ~StepOverFails(t)
                  /\ StepOverBegins(t) =>
                       /\ pc = "over" /\ t \in todo /\ BeginStepOver(t, "over", todo \ {t})
                       /\ ~Stale(t)
  BY GoodStepOver
<1> USE DEF ThreadInv, CarefulInv, Good, Careful, KernTypes, BookTypes, CtlTypes,
            CtlInv, WaitResumes, Resumable, Stale, Stepping, kernVars, bookVars,
            ctlVars, histVars, params
<1>1. ASSUME NEW t \in Tids, DeliverSigstop(t)
      PROVE  WaitResumes'
  BY <1>1 DEF DeliverSigstop, StopFor
<1>2. ASSUME NEW t \in Tids, HitTrap(t)
      PROVE  WaitResumes'
  BY <1>2 DEF HitTrap, CanExecute, StopFor
<1>3. ASSUME NEW t \in Tids, Execute(t)
      PROVE  WaitResumes'
  BY <1>3 DEF Execute, CanExecute, StopFor
<1>4. ASSUME NEW t \in Tids, Raise(t)
      PROVE  WaitResumes'
  BY <1>4 DEF Raise, CanExecute, StopFor
<1>5. ASSUME NEW t \in Tids, Exit(t)
      PROVE  WaitResumes'
  BY <1>5 DEF Exit, CanExecute
<1>6. ASSUME NEW t \in Tids, NEW new \in Tids, Clone(t, new)
      PROVE  WaitResumes'
  BY <1>6 DEF Clone, CanExecute
<1>7. CASE ResumeAll
  BY <1>7 DEF ResumeAll, Goto
<1>8. ASSUME NEW t \in Tids, StepOverBegins(t)
      PROVE  WaitResumes'
  BY <1>8 DEF StepOverBegins, BeginStepOver, Restarted, Goto
<1>9. ASSUME NEW t \in Tids, StepOverFails(t)
      PROVE  WaitResumes'
  BY <1>9, <1>begins
<1>10. ASSUME NEW t \in Tids, StepOverSkipped(t)
      PROVE  WaitResumes'
  BY <1>10 DEF StepOverSkipped, Goto
<1>11. CASE OverDone
  BY <1>11 DEF OverDone, Goto
<1>12. ASSUME NEW t \in Tids, ContinueNext(t)
      PROVE  WaitResumes'
  BY <1>12 DEF ContinueNext, Continued, ContinueFails, Restarted, Goto, Throws
<1>13. CASE ContinueDone
  BY <1>13 DEF ContinueDone
<1>14. CASE Swallow
  BY <1>14 DEF Swallow, Collected
<1>15. CASE SingleStep
  BY <1>15 DEF SingleStep, Restarted, Throws
<1>16. CASE EndStepOver
  <2>1. kern[tid] = "stopped" /\ MemoryReachable /\ back = "over"
    BY <1>16, <1>fails DEF EndStepOver, Collected, NothingFails, KernInv, KernOf
  <2>2. pc' = "over"
    BY <1>16, <2>1 DEF EndStepOver
  <2>3. QED
    BY <2>2
<1>17. CASE WaitOnSignal
  BY <1>17 DEF WaitOnSignal
<1>18. CASE ResumeContinue
  BY <1>18 DEF ResumeContinue, Continued, ContinueFails, Restarted, Throws
<1>19. ASSUME NEW t \in Tids, WaitIgnores(t)
      PROVE  WaitResumes'
  <2>1. /\ kern[t] = "stopped" /\ fresh[t] /\ Ignored(t)
        /\ pc' = "resume" /\ tid' = t /\ kern'[t] = "stopped" /\ ~fresh'[t]
        /\ UNCHANGED <<pend, sigq, cpc, rip>>
    BY <1>19 DEF WaitIgnores, Collected, Goto
  <2>2. At(cpc[t]) # "site" \/ Stale(t)
    <3>1. CASE cause[t] = "clone"
      BY <2>1, <3>1 DEF TrapInv, CacheBehind
    <3>2. CASE t \notin threads
      <4>1. cpc[t] = 0
        BY <2>1, <3>2 DEF KernInv, KernOf
      <4>2. QED
        BY <4>1, SiteInCode
    <3>3. CASE t \in threads /\ pend[t] /\ cause[t] = "sigstop"
      BY <2>1, <3>3 DEF SigInv, SigOf
    <3>4. QED
      BY <2>1, <3>1, <3>2, <3>3 DEF Ignored
  <2>3. QED
    BY <2>1, <2>2
<1>20. ASSUME NEW t \in Tids, WaitReports(t)
      PROVE  WaitResumes'
  BY <1>20 DEF WaitReports, Collected, AfterWait
<1>21. ASSUME NEW t \in Tids, WaitPokeFails(t)
      PROVE  WaitResumes'
  BY <1>21, <1>fails DEF NothingFails, WaitPokeFails
<1>22. ASSUME NEW t \in Tids, WaitSeesExit(t)
      PROVE  WaitResumes'
  BY <1>22 DEF WaitSeesExit, Collected
<1>23. CASE StopRunning
  BY <1>23 DEF StopRunning, Goto
<1>24. ASSUME NEW t \in Tids, StopNext(t)
      PROVE  WaitResumes'
  BY <1>24 DEF StopNext, Goto
<1>25. CASE StopCollects
  BY <1>25 DEF StopCollects, Collected, Throws
<1>26. CASE StopDone
  BY <1>26 DEF StopDone
<1>27. CASE Cleanup(stopTid)
  BY <1>27 DEF Cleanup
<1>28. CASE UNCHANGED vars
  BY <1>28 DEF vars
<1> HIDE DEF ThreadInv, CarefulInv, Good, Careful, KernTypes, BookTypes, CtlTypes,
            CtlInv, WaitResumes, Resumable, Stale, Stepping, kernVars, bookVars,
            ctlVars, histVars, params
<1>29. QED
  BY <1>1, <1>2, <1>3, <1>4, <1>5, <1>6, <1>7, <1>8, <1>9, <1>10, <1>11, <1>12, <1>13,
     <1>14, <1>15, <1>16, <1>17, <1>18, <1>19, <1>20, <1>21, <1>22, <1>23, <1>24, <1>25,
     <1>26, <1>27, <1>28, NextCases

(* With the site disabled only the thread being stepped executes. *)
LEMMA PassedStep ==
  ASSUME ThreadInv, CarefulInv, Good, Good', [Next]_vars
  PROVE  \A u \in Tids : (passed[u] \subseteq over[u])'
<1> USE DEF ThreadInv, CarefulInv, Good, Careful, KernTypes, BookTypes, CtlTypes,
            HistTypes, CtlInv, Stepping, kernVars, bookVars, ctlVars, histVars, params
<1>1. ASSUME NEW t \in Tids, DeliverSigstop(t)
      PROVE  \A u \in Tids : (passed[u] \subseteq over[u])'
  BY <1>1 DEF DeliverSigstop, StopFor
<1>2. ASSUME NEW t \in Tids, HitTrap(t)
      PROVE  \A u \in Tids : (passed[u] \subseteq over[u])'
  BY <1>2 DEF HitTrap, CanExecute, StopFor
<1>3. ASSUME NEW t \in Tids, Execute(t)
      PROVE  \A u \in Tids : (passed[u] \subseteq over[u])'
  <2>1. CASE At(rip[t]) = "site" /\ ~siteOn
    <3>1. pc \in Stepping /\ turn = "resume"
      BY <2>1 DEF SteppingOver
    <3>2. kern[t] = "running" /\ ~sigq[t] /\ t \in threads
      BY <1>3 DEF Execute, CanExecute, KernInv, KernOf
    <3>3. pc \in {"swallow", "stepped"} /\ t = tid
      BY <3>1, <3>2 DEF AllResumable, Resumable
    <3>4. rip[t] = cpc[t] /\ cpc[t] \in over[t]
      BY <3>2, <3>3 DEF SteppingOver
    <3>5. over' = over /\ passed' = [passed EXCEPT ![t] = @ \union {rip[t]}]
      BY <1>3, <2>1 DEF Execute
    <3>6. QED
      BY <3>4, <3>5
  <2>2. CASE At(rip[t]) = "op"
    BY <1>3, <2>2 DEF Execute
  <2>3. QED
    BY <1>3, <2>1, <2>2 DEF Execute
<1>4. ASSUME NEW t \in Tids, Raise(t)
      PROVE  \A u \in Tids : (passed[u] \subseteq over[u])'
  BY <1>4 DEF Raise, CanExecute, StopFor
<1>5. ASSUME NEW t \in Tids, Exit(t)
      PROVE  \A u \in Tids : (passed[u] \subseteq over[u])'
  BY <1>5 DEF Exit, CanExecute
<1>6. ASSUME NEW t \in Tids, NEW new \in Tids, Clone(t, new)
      PROVE  \A u \in Tids : (passed[u] \subseteq over[u])'
  BY <1>6 DEF Clone, CanExecute
<1>7. CASE ResumeAll
  BY <1>7 DEF ResumeAll, Goto
<1>8. ASSUME NEW t \in Tids, StepOverBegins(t)
      PROVE  \A u \in Tids : (passed[u] \subseteq over[u])'
  BY <1>8 DEF StepOverBegins, BeginStepOver, Restarted, Goto
<1>9. ASSUME NEW t \in Tids, StepOverFails(t)
      PROVE  \A u \in Tids : (passed[u] \subseteq over[u])'
  BY <1>9 DEF StepOverFails, DisableFails, Throws
<1>10. ASSUME NEW t \in Tids, StepOverSkipped(t)
      PROVE  \A u \in Tids : (passed[u] \subseteq over[u])'
  BY <1>10 DEF StepOverSkipped, Goto
<1>11. CASE OverDone
  BY <1>11 DEF OverDone, Goto
<1>12. ASSUME NEW t \in Tids, ContinueNext(t)
      PROVE  \A u \in Tids : (passed[u] \subseteq over[u])'
  BY <1>12 DEF ContinueNext, Continued, ContinueFails, Restarted, Goto, Throws
<1>13. CASE ContinueDone
  BY <1>13 DEF ContinueDone
<1>14. CASE Swallow
  BY <1>14 DEF Swallow, Collected
<1>15. CASE SingleStep
  BY <1>15 DEF SingleStep, Restarted, Throws
<1>16. CASE EndStepOver
  BY <1>16 DEF EndStepOver, Collected, SiteAfterStep, Throws
<1>17. CASE WaitOnSignal
  BY <1>17 DEF WaitOnSignal
<1>18. CASE ResumeContinue
  BY <1>18 DEF ResumeContinue, Continued, ContinueFails, Restarted, Throws
<1>19. ASSUME NEW t \in Tids, WaitIgnores(t)
      PROVE  \A u \in Tids : (passed[u] \subseteq over[u])'
  BY <1>19 DEF WaitIgnores, Collected, Goto
<1>20. ASSUME NEW t \in Tids, WaitReports(t)
      PROVE  \A u \in Tids : (passed[u] \subseteq over[u])'
  BY <1>20 DEF WaitReports, Collected, AfterWait
<1>21. ASSUME NEW t \in Tids, WaitPokeFails(t)
      PROVE  \A u \in Tids : (passed[u] \subseteq over[u])'
  BY <1>21 DEF WaitPokeFails, Collected, Throws
<1>22. ASSUME NEW t \in Tids, WaitSeesExit(t)
      PROVE  \A u \in Tids : (passed[u] \subseteq over[u])'
  BY <1>22 DEF WaitSeesExit, Collected
<1>23. CASE StopRunning
  BY <1>23 DEF StopRunning, Goto
<1>24. ASSUME NEW t \in Tids, StopNext(t)
      PROVE  \A u \in Tids : (passed[u] \subseteq over[u])'
  BY <1>24 DEF StopNext, Goto
<1>25. CASE StopCollects
  BY <1>25 DEF StopCollects, Collected, Throws
<1>26. CASE StopDone
  BY <1>26 DEF StopDone
<1>27. CASE Cleanup(stopTid)
  BY <1>27 DEF Cleanup
<1>28. CASE UNCHANGED vars
  BY <1>28 DEF vars
<1> HIDE DEF ThreadInv, CarefulInv, Good, Careful, KernTypes, BookTypes, CtlTypes,
            HistTypes, CtlInv, Stepping, kernVars, bookVars, ctlVars, histVars, params
<1>29. QED
  BY <1>1, <1>2, <1>3, <1>4, <1>5, <1>6, <1>7, <1>8, <1>9, <1>10, <1>11, <1>12, <1>13,
     <1>14, <1>15, <1>16, <1>17, <1>18, <1>19, <1>20, <1>21, <1>22, <1>23, <1>24, <1>25,
     <1>26, <1>27, <1>28, NextCases

(* No ptrace request of a Good state fails. *)
LEMMA ThrewStep ==
  ASSUME ThreadInv, CarefulInv, Good, Good', [Next]_vars
  PROVE  (threw = "none")'
<1>fails. NothingFails
  BY GoodSucceeds
<1>begins. ASSUME NEW t \in Tids
           PROVE  /\ ~StepOverFails(t)
                  /\ StepOverBegins(t) =>
                       /\ pc = "over" /\ t \in todo /\ BeginStepOver(t, "over", todo \ {t})
                       /\ ~Stale(t)
  BY GoodStepOver
<1> USE DEF ThreadInv, CarefulInv, Good, Careful, KernTypes, CtlTypes, CtlInv, Stepping,
            kernVars, bookVars, ctlVars, histVars, params
<1>1. ASSUME NEW t \in Tids, DeliverSigstop(t)
      PROVE  (threw = "none")'
  BY <1>1 DEF DeliverSigstop, StopFor
<1>2. ASSUME NEW t \in Tids, HitTrap(t)
      PROVE  (threw = "none")'
  BY <1>2 DEF HitTrap, CanExecute, StopFor
<1>3. ASSUME NEW t \in Tids, Execute(t)
      PROVE  (threw = "none")'
  BY <1>3 DEF Execute, CanExecute, StopFor
<1>4. ASSUME NEW t \in Tids, Raise(t)
      PROVE  (threw = "none")'
  BY <1>4 DEF Raise, CanExecute, StopFor
<1>5. ASSUME NEW t \in Tids, Exit(t)
      PROVE  (threw = "none")'
  BY <1>5 DEF Exit, CanExecute
<1>6. ASSUME NEW t \in Tids, NEW new \in Tids, Clone(t, new)
      PROVE  (threw = "none")'
  BY <1>6 DEF Clone, CanExecute
<1>7. CASE ResumeAll
  BY <1>7 DEF ResumeAll, Goto
<1>8. ASSUME NEW t \in Tids, StepOverBegins(t)
      PROVE  (threw = "none")'
  BY <1>8 DEF StepOverBegins, BeginStepOver, Restarted, Goto
<1>9. ASSUME NEW t \in Tids, StepOverFails(t)
      PROVE  (threw = "none")'
  BY <1>9, <1>begins
<1>10. ASSUME NEW t \in Tids, StepOverSkipped(t)
      PROVE  (threw = "none")'
  BY <1>10 DEF StepOverSkipped, Goto
<1>11. CASE OverDone
  BY <1>11 DEF OverDone, Goto
<1>12. ASSUME NEW t \in Tids, ContinueNext(t)
      PROVE  (threw = "none")'
  <2>1. ~ContinueFails(t)
    BY <1>12, <1>fails DEF ContinueNext, ContinueFails, NothingFails, Resumable
  <2>2. QED
    BY <1>12, <2>1 DEF ContinueNext, Continued, Restarted, Goto
<1>13. CASE ContinueDone
  BY <1>13 DEF ContinueDone
<1>14. CASE Swallow
  BY <1>14 DEF Swallow, Collected, NothingFails, Resumable
<1>15. CASE SingleStep
  <2>1. pc = "step" /\ kern[tid] = "stopped" /\ turn = "resume"
    BY <1>15, <1>fails DEF SingleStep, NothingFails, Resumable
  <2>2. QED
    BY <1>15, <2>1 DEF SingleStep, Restarted
<1>16. CASE EndStepOver
  <2>1. kern[tid] = "stopped" /\ MemoryReachable /\ turn = "resume" /\ back = "over"
    BY <1>16, <1>fails DEF EndStepOver, Collected, NothingFails, KernInv, KernOf
  <2>2. QED
    BY <1>16, <2>1 DEF EndStepOver, Collected
<1>17. CASE WaitOnSignal
  BY <1>17 DEF WaitOnSignal
<1>18. CASE ResumeContinue
  <2>1. ~ContinueFails(tid)
    BY <1>18, <1>fails DEF ResumeContinue, ContinueFails, NothingFails, Resumable
  <2>2. QED
    BY <1>18, <2>1 DEF ResumeContinue, Continued, Restarted
<1>19. ASSUME NEW t \in Tids, WaitIgnores(t)
      PROVE  (threw = "none")'
  BY <1>19 DEF WaitIgnores, Collected, Goto
<1>20. ASSUME NEW t \in Tids, WaitReports(t)
      PROVE  (threw = "none")'
  BY <1>20 DEF WaitReports, Collected, AfterWait
<1>21. ASSUME NEW t \in Tids, WaitPokeFails(t)
      PROVE  (threw = "none")'
  BY <1>21, <1>fails DEF NothingFails, WaitPokeFails
<1>22. ASSUME NEW t \in Tids, WaitSeesExit(t)
      PROVE  (threw = "none")'
  BY <1>22 DEF WaitSeesExit, Collected
<1>23. CASE StopRunning
  BY <1>23 DEF StopRunning, Goto
<1>24. ASSUME NEW t \in Tids, StopNext(t)
      PROVE  (threw = "none")'
  BY <1>24 DEF StopNext, Goto
<1>25. CASE StopCollects
  <2>1. Gone(tid) \/ ~PokeFails(tid)
    BY <1>25, <1>fails DEF StopCollects, Collected, Gone, NothingFails, KernInv, KernOf
  <2>2. pc' = "stop" /\ turn' = "stop" /\ threw' = threw
    BY <1>25, <2>1 DEF StopCollects
  <2>3. QED
    BY <2>2
<1>26. CASE StopDone
  BY <1>26 DEF StopDone
<1>27. CASE Cleanup(stopTid)
  BY <1>27 DEF Cleanup
<1>28. CASE UNCHANGED vars
  BY <1>28 DEF vars
<1> HIDE DEF ThreadInv, CarefulInv, Good, Careful, KernTypes, CtlTypes, CtlInv,
            Stepping, kernVars, bookVars, ctlVars, histVars, params
<1>29. QED
  BY <1>1, <1>2, <1>3, <1>4, <1>5, <1>6, <1>7, <1>8, <1>9, <1>10, <1>11, <1>12, <1>13,
     <1>14, <1>15, <1>16, <1>17, <1>18, <1>19, <1>20, <1>21, <1>22, <1>23, <1>24, <1>25,
     <1>26, <1>27, <1>28, NextCases

(* No trap is collected without being rewound. *)
LEMMA CodeStep ==
  ASSUME ThreadInv, TrapInv, CarefulInv, CodeInv, Good, Good', [Next]_vars
  PROVE  \A u \in Tids : NotSkipped(u)'
<1>reads. ASSUME NEW t \in Tids, kern[t] = "stopped", fresh[t], ReadRegisters(t),
                 pc \in {"wait", "stop_wait"}
          PROVE  ReadsRight(t)
  BY <1>reads, ReadsAreRight DEF Good, Careful
<1>ignored. ASSUME NEW t \in Tids, kern[t] = "stopped", Ignored(t)
            PROVE  cause[t] # "trap"
  BY <1>ignored, IgnoredIsNoTrap
<1>fails. NothingFails
  BY GoodSucceeds
<1>begins. ASSUME NEW t \in Tids
           PROVE  /\ ~StepOverFails(t)
                  /\ StepOverBegins(t) =>
                       /\ pc = "over" /\ t \in todo /\ BeginStepOver(t, "over", todo \ {t})
                       /\ ~Stale(t)
  BY GoodStepOver
<1> USE DEF ThreadInv, CarefulInv, Good, Careful, KernTypes, CtlTypes, CtlInv,
            HistTypes, CodeInv, NotSkipped, Stepping, kernVars, bookVars, ctlVars,
            histVars, params
<1>1. ASSUME NEW t \in Tids, DeliverSigstop(t)
      PROVE  \A u \in Tids : NotSkipped(u)'
  BY <1>1 DEF DeliverSigstop, StopFor
<1>2. ASSUME NEW t \in Tids, HitTrap(t)
      PROVE  \A u \in Tids : NotSkipped(u)'
  <2> SUFFICES ASSUME NEW u \in Tids, NEW p \in Nat, p >= Entry[u], p < rip'[u], At(p) = "site"
               PROVE  \/ p \in passed'[u]
                      \/ kern'[u] = "stopped" /\ cause'[u] = "trap" /\ fresh'[u] /\ p = rip'[u] - 1
    OBVIOUS
  <2>1. /\ kern'[t] = "stopped" /\ cause'[t] = "trap" /\ fresh'[t] /\ rip'[t] = rip[t] + 1
        /\ kern[t] = "running" /\ passed' = passed
    BY <1>2 DEF HitTrap, CanExecute, StopFor
  <2>2. CASE u = t
    BY <2>1, <2>2, SMTT(30)
  <2>3. CASE u # t
    <3>1. /\ kern'[u] = kern[u] /\ cause'[u] = cause[u] /\ rip'[u] = rip[u]
          /\ (fresh'[u] <=> fresh[u])
      BY <1>2, <2>3 DEF HitTrap, CanExecute, StopFor
    <3>2. QED
      BY <2>1, <3>1
  <2>4. QED
    BY <2>2, <2>3
<1>3. ASSUME NEW t \in Tids, Execute(t)
      PROVE  \A u \in Tids : NotSkipped(u)'
  <2> SUFFICES ASSUME NEW u \in Tids, NEW p \in Nat, p >= Entry[u], p < rip'[u], At(p) = "site"
               PROVE  \/ p \in passed'[u]
                      \/ kern'[u] = "stopped" /\ cause'[u] = "trap" /\ fresh'[u] /\ p = rip'[u] - 1
    OBVIOUS
  <2>1. CASE u = t
    <3>1. kern[t] = "running" /\ rip'[t] = rip[t] + 1
      BY <1>3 DEF Execute, CanExecute
    <3>2. CASE p < rip[t]
      BY <1>3, <2>1, <3>1, <3>2 DEF Execute
    <3>3. CASE p = rip[t]
      BY <1>3, <2>1, <3>3 DEF Execute
    <3>4. QED
      BY <2>1, <3>1, <3>2, <3>3
  <2>2. CASE u # t
    <3>1. rip'[u] = rip[u] /\ passed'[u] = passed[u]
      BY <1>3, <2>2 DEF Execute
    <3>2. kern'[u] = kern[u] /\ cause'[u] = cause[u] /\ (fresh'[u] <=> fresh[u])
      <4>1. CASE stepping[t]
        BY <1>3, <2>2, <4>1 DEF Execute, StopFor
      <4>2. CASE ~stepping[t]
        BY <1>3, <4>2 DEF Execute
      <4>3. QED
        BY <4>1, <4>2
    <3>3. QED
      BY <3>1, <3>2
  <2>3. QED
    BY <2>1, <2>2
<1>4. ASSUME NEW t \in Tids, Raise(t)
      PROVE  \A u \in Tids : NotSkipped(u)'
  BY <1>4 DEF Raise, CanExecute, StopFor
<1>5. ASSUME NEW t \in Tids, Exit(t)
      PROVE  \A u \in Tids : NotSkipped(u)'
  BY <1>5 DEF Exit, CanExecute
<1>6. ASSUME NEW t \in Tids, NEW new \in Tids, Clone(t, new)
      PROVE  \A u \in Tids : NotSkipped(u)'
  <2> SUFFICES ASSUME NEW u \in Tids, NEW p \in Nat, p >= Entry[u], p < rip'[u], At(p) = "site"
               PROVE  \/ p \in passed'[u]
                      \/ kern'[u] = "stopped" /\ cause'[u] = "trap" /\ fresh'[u] /\ p = rip'[u] - 1
    OBVIOUS
  <2>1. CloneChanges(t, new)
    BY <1>6, CloneEffect
  <2>2. At(rip[t]) = "clone" /\ rip' = [rip EXCEPT ![t] = @ + 1] /\ passed' = passed
    BY <1>6 DEF Clone
  <2>3. p < rip[u]
    <3>1. CASE u = t
      <4>1. p # rip[t]
        BY <2>2
      <4>2. rip'[t] = rip[t] + 1 /\ rip[t] \in Nat
        BY <2>2
      <4>3. QED
        BY <3>1, <4>1, <4>2, SMTT(30)
    <3>2. CASE u # t
      BY <2>2, <3>2
    <3>3. QED
      BY <3>1, <3>2
  <2>4. CASE u = t \/ u = new
    <3>1. kern[u] # "stopped"
      BY <2>1, <2>4 DEF CloneChanges
    <3>2. QED
      BY <2>2, <2>3, <3>1
  <2>5. CASE u # t /\ u # new
    <3>1. /\ kern'[u] = kern[u] /\ cause'[u] = cause[u] /\ rip'[u] = rip[u]
          /\ (fresh'[u] <=> fresh[u])
      BY <2>1, <2>2, <2>5 DEF CloneChanges
    <3>2. QED
      BY <2>2, <2>3, <3>1
  <2>6. QED
    BY <2>4, <2>5
<1>7. CASE ResumeAll
  BY <1>7 DEF ResumeAll, Goto
<1>8. ASSUME NEW t \in Tids, StepOverBegins(t)
      PROVE  \A u \in Tids : NotSkipped(u)'
  <2> SUFFICES ASSUME NEW u \in Tids, NEW p \in Nat, p >= Entry[u], p < rip'[u], At(p) = "site"
               PROVE  \/ p \in passed'[u]
                      \/ kern'[u] = "stopped" /\ cause'[u] = "trap" /\ fresh'[u] /\ p = rip'[u] - 1
    OBVIOUS
  <2>1. UNCHANGED <<rip, passed>>
    BY <1>8 DEF StepOverBegins, BeginStepOver
  <2>2. ~fresh[t]
    BY <1>8, <1>begins, <1>fails DEF NothingFails, Resumable
  <2>3. kern[u] = "stopped" /\ cause[u] = "trap" /\ fresh[u] =>
          kern'[u] = "stopped" /\ cause'[u] = "trap" /\ fresh'[u]
    BY <1>8, <2>2 DEF StepOverBegins, BeginStepOver, Restarted, Goto
  <2>4. QED
    BY <2>1, <2>3
<1>9. ASSUME NEW t \in Tids, StepOverFails(t)
      PROVE  \A u \in Tids : NotSkipped(u)'
  BY <1>9 DEF StepOverFails, DisableFails, Throws
<1>10. ASSUME NEW t \in Tids, StepOverSkipped(t)
      PROVE  \A u \in Tids : NotSkipped(u)'
  BY <1>10 DEF StepOverSkipped, Goto
<1>11. CASE OverDone
  BY <1>11 DEF OverDone, Goto
<1>12. ASSUME NEW t \in Tids, ContinueNext(t)
      PROVE  \A u \in Tids : NotSkipped(u)'
  <2> SUFFICES ASSUME NEW u \in Tids, NEW p \in Nat, p >= Entry[u], p < rip'[u], At(p) = "site"
               PROVE  \/ p \in passed'[u]
                      \/ kern'[u] = "stopped" /\ cause'[u] = "trap" /\ fresh'[u] /\ p = rip'[u] - 1
    OBVIOUS
  <2>1. UNCHANGED <<rip, passed>>
    BY <1>12 DEF ContinueNext, Continued, ContinueFails
  <2>2. ~fresh[t]
    BY <1>12, <1>fails DEF ContinueNext, NothingFails, Resumable
  <2>3. kern[u] = "stopped" /\ cause[u] = "trap" /\ fresh[u] =>
          kern'[u] = "stopped" /\ cause'[u] = "trap" /\ fresh'[u]
    BY <1>12, <2>2 DEF ContinueNext, Continued, ContinueFails, Restarted, Goto, Throws
  <2>4. QED
    BY <2>1, <2>3
<1>13. CASE ContinueDone
  BY <1>13 DEF ContinueDone
<1>14. CASE Swallow
  <2> SUFFICES ASSUME NEW u \in Tids, NEW p \in Nat, p >= Entry[u], p < rip'[u], At(p) = "site"
               PROVE  \/ p \in passed'[u]
                      \/ kern'[u] = "stopped" /\ cause'[u] = "trap" /\ fresh'[u] /\ p = rip'[u] - 1
    OBVIOUS
  <2>1. UNCHANGED <<rip, passed>>
    BY <1>14 DEF Swallow
  <2>2. kern[tid] = "stopped" => cause[tid] # "trap"
    BY <1>14 DEF Swallow, TrapInv, StepOverQuiet
  <2>3. kern[u] = "stopped" /\ cause[u] = "trap" /\ fresh[u] =>
          kern'[u] = "stopped" /\ cause'[u] = "trap" /\ fresh'[u]
    BY <1>14, <2>2 DEF Swallow, Collected
  <2>4. QED
    BY <2>1, <2>3
<1>15. CASE SingleStep
  <2> SUFFICES ASSUME NEW u \in Tids, NEW p \in Nat, p >= Entry[u], p < rip'[u], At(p) = "site"
               PROVE  \/ p \in passed'[u]
                      \/ kern'[u] = "stopped" /\ cause'[u] = "trap" /\ fresh'[u] /\ p = rip'[u] - 1
    OBVIOUS
  <2>1. UNCHANGED <<rip, passed>>
    BY <1>15 DEF SingleStep
  <2>2. ~fresh[tid]
    BY <1>15, <1>fails DEF SingleStep, NothingFails, Resumable
  <2>3. kern[u] = "stopped" /\ cause[u] = "trap" /\ fresh[u] =>
          kern'[u] = "stopped" /\ cause'[u] = "trap" /\ fresh'[u]
    BY <1>15, <2>2 DEF SingleStep, Restarted, Throws
  <2>4. QED
    BY <2>1, <2>3
<1>16. CASE EndStepOver
  <2> SUFFICES ASSUME NEW u \in Tids, NEW p \in Nat, p >= Entry[u], p < rip'[u], At(p) = "site"
               PROVE  \/ p \in passed'[u]
                      \/ kern'[u] = "stopped" /\ cause'[u] = "trap" /\ fresh'[u] /\ p = rip'[u] - 1
    OBVIOUS
  <2>1. UNCHANGED <<rip, passed>>
    BY <1>16 DEF EndStepOver
  <2>2. kern[tid] = "stopped" => cause[tid] # "trap"
    BY <1>16 DEF EndStepOver, TrapInv, StepOverQuiet
  <2>3. kern[u] = "stopped" /\ cause[u] = "trap" /\ fresh[u] =>
          kern'[u] = "stopped" /\ cause'[u] = "trap" /\ fresh'[u]
    BY <1>16, <2>2 DEF EndStepOver, Collected, SiteAfterStep, Throws
  <2>4. QED
    BY <2>1, <2>3
<1>17. CASE WaitOnSignal
  BY <1>17 DEF WaitOnSignal
<1>18. CASE ResumeContinue
  <2> SUFFICES ASSUME NEW u \in Tids, NEW p \in Nat, p >= Entry[u], p < rip'[u], At(p) = "site"
               PROVE  \/ p \in passed'[u]
                      \/ kern'[u] = "stopped" /\ cause'[u] = "trap" /\ fresh'[u] /\ p = rip'[u] - 1
    OBVIOUS
  <2>1. UNCHANGED <<rip, passed>>
    BY <1>18 DEF ResumeContinue, Continued, ContinueFails
  <2>2. ~fresh[tid]
    BY <1>18, <1>fails DEF ResumeContinue, NothingFails, Resumable
  <2>3. kern[u] = "stopped" /\ cause[u] = "trap" /\ fresh[u] =>
          kern'[u] = "stopped" /\ cause'[u] = "trap" /\ fresh'[u]
    BY <1>18, <2>2 DEF ResumeContinue, Continued, ContinueFails, Restarted, Throws
  <2>4. QED
    BY <2>1, <2>3
<1>19. ASSUME NEW t \in Tids, WaitIgnores(t)
      PROVE  \A u \in Tids : NotSkipped(u)'
  <2> SUFFICES ASSUME NEW u \in Tids, NEW p \in Nat, p >= Entry[u], p < rip'[u], At(p) = "site"
               PROVE  \/ p \in passed'[u]
                      \/ kern'[u] = "stopped" /\ cause'[u] = "trap" /\ fresh'[u] /\ p = rip'[u] - 1
    OBVIOUS
  <2>1. UNCHANGED <<rip, passed>>
    BY <1>19 DEF WaitIgnores
  <2>2. cause[t] # "trap"
    BY <1>19, <1>ignored DEF WaitIgnores
  <2>3. kern[u] = "stopped" /\ cause[u] = "trap" /\ fresh[u] =>
          kern'[u] = "stopped" /\ cause'[u] = "trap" /\ fresh'[u]
    BY <1>19, <2>2 DEF WaitIgnores, Collected, Goto
  <2>4. QED
    BY <2>1, <2>3
<1>20. ASSUME NEW t \in Tids, WaitReports(t)
      PROVE  \A u \in Tids : NotSkipped(u)'
  <2> SUFFICES ASSUME NEW u \in Tids, NEW p \in Nat, p >= Entry[u], p < rip'[u], At(p) = "site"
               PROVE  \/ p \in passed'[u]
                      \/ kern'[u] = "stopped" /\ cause'[u] = "trap" /\ fresh'[u] /\ p = rip'[u] - 1
    OBVIOUS
  <2>1. kern[t] = "stopped" /\ fresh[t] /\ fresh' = [fresh EXCEPT ![t] = FALSE]
        /\ kern' = kern /\ cause' = cause /\ passed' = passed
    BY <1>20 DEF WaitReports, Collected
  <2>2. ReadsRight(t)
    BY <1>20, <2>1, <1>reads DEF WaitReports
  <2>3. CASE u = t
    BY <2>1, <2>2, <2>3 DEF ReadsRight
  <2>4. CASE u # t
    BY <2>1, <2>2, <2>4 DEF ReadsRight
  <2>5. QED
    BY <2>3, <2>4
<1>21. ASSUME NEW t \in Tids, WaitPokeFails(t)
      PROVE  \A u \in Tids : NotSkipped(u)'
  BY <1>21, <1>fails DEF NothingFails, WaitPokeFails
<1>22. ASSUME NEW t \in Tids, WaitSeesExit(t)
      PROVE  \A u \in Tids : NotSkipped(u)'
  BY <1>22 DEF WaitSeesExit, Collected
<1>23. CASE StopRunning
  BY <1>23 DEF StopRunning, Goto
<1>24. ASSUME NEW t \in Tids, StopNext(t)
      PROVE  \A u \in Tids : NotSkipped(u)'
  BY <1>24 DEF StopNext, Goto
<1>25. CASE StopCollects
  <2>1. CASE Gone(tid)
    BY <1>25, <2>1 DEF StopCollects, Collected, Gone
  <2>2. CASE ~Gone(tid)
    <3> SUFFICES ASSUME NEW u \in Tids, NEW p \in Nat, p >= Entry[u], p < rip'[u], At(p) = "site"
                 PROVE  \/ p \in passed'[u]
                        \/ kern'[u] = "stopped" /\ cause'[u] = "trap" /\ fresh'[u] /\ p = rip'[u] - 1
      OBVIOUS
    <3>1. kern[tid] = "stopped" /\ fresh[tid] /\ fresh' = [fresh EXCEPT ![tid] = FALSE]
          /\ kern' = kern /\ cause' = cause /\ passed' = passed
      BY <1>25, <2>2 DEF StopCollects, Collected, Gone, KernInv, KernOf
    <3>2. ReadsRight(tid)
      BY <1>25, <2>2, <3>1, <1>reads DEF StopCollects
    <3>3. CASE u = tid
      BY <3>1, <3>2, <3>3 DEF ReadsRight
    <3>4. CASE u # tid
      BY <3>1, <3>2, <3>4 DEF ReadsRight
    <3>5. QED
      BY <3>3, <3>4
  <2>3. QED
    BY <2>1, <2>2
<1>26. CASE StopDone
  BY <1>26 DEF StopDone
<1>27. CASE Cleanup(stopTid)
  BY <1>27 DEF Cleanup
<1>28. CASE UNCHANGED vars
  BY <1>28 DEF vars
<1> HIDE DEF ThreadInv, CarefulInv, Good, Careful, KernTypes, CtlTypes, CtlInv,
            HistTypes, CodeInv, NotSkipped, Stepping, kernVars, bookVars, ctlVars,
            histVars, params
<1>29. QED
  BY <1>1, <1>2, <1>3, <1>4, <1>5, <1>6, <1>7, <1>8, <1>9, <1>10, <1>11, <1>12, <1>13,
     <1>14, <1>15, <1>16, <1>17, <1>18, <1>19, <1>20, <1>21, <1>22, <1>23, <1>24, <1>25,
     <1>26, <1>27, <1>28, NextCases

-------------------------------------------------------------------------------
(* The invariants hold after launch, and every step keeps them. *)
LEMMA SiteInvInit == Init => SiteInv /\ CodeInv
<1> SUFFICES ASSUME Init PROVE SiteInv /\ CodeInv
  OBVIOUS
<1> USE Consts
<1>1. ThreadInv
  BY ThreadInvInit
<1>2. \A t \in Tids : Rewound(t) /\ TrapExplained(t)
  BY DEF Init, Rewound, TrapExplained
<1>3. \A t \in Tids : CacheBehind(t)
  BY DEF Init, CacheBehind
<1>4. StepOverQuiet /\ StopInv /\ SteppingOver /\ WaitResumes
  BY DEF Init, StepOverQuiet, StopInv, SteppingOver, WaitResumes, Stepping
<1>5. AllResumable
  BY DEF Init, AllResumable, Resumable
<1>6. CarefulInv
  BY <1>4, <1>5 DEF Init, CarefulInv
<1>7. CodeInv
  BY DEF Init, CodeInv, NotSkipped
<1>8. QED
  BY <1>1, <1>2, <1>3, <1>4, <1>6, <1>7 DEF SiteInv, TrapInv

(* No step changes the client, and a step over for a Stale thread stays    *)
(* remembered.                                                             *)
LEMMA ParamsKept ==
  ASSUME [Next]_vars
  PROVE  UNCHANGED params
<1> USE DEF histVars
<1>1. CASE \E t \in Tids : ThreadStep(t)
  BY <1>1 DEF ThreadStep, DeliverSigstop, HitTrap, Execute, Raise, Exit, Clone
<1>2. CASE ResumeAll \/ OverDone \/ ContinueDone \/ Swallow \/ SingleStep \/ EndStepOver
  BY <1>2 DEF ResumeAll, OverDone, ContinueDone, Swallow, SingleStep, EndStepOver
<1>3. CASE WaitOnSignal \/ ResumeOver \/ ResumeContinue \/ StopRunning \/ StopDone
  BY <1>3 DEF WaitOnSignal, ResumeOver, BeginStepOver, DisableFails, ResumeContinue,
     Continued,
              ContinueFails, StopRunning, StopDone
<1>4. CASE StopCollects \/ Cleanup(stopTid)
  BY <1>4 DEF StopCollects, Cleanup
<1>5. CASE \E t \in Tids : OverNext(t) \/ ContinueNext(t)
  BY <1>5 DEF OverNext, BeginStepOver, DisableFails, ContinueNext, Continued,
     ContinueFails
<1>6. CASE \E t \in Tids : \/ WaitIgnores(t) \/ WaitReports(t) \/ WaitPokeFails(t)
                           \/ WaitSeesExit(t) \/ StopNext(t)
  BY <1>6 DEF WaitIgnores, WaitReports, WaitPokeFails, WaitSeesExit, StopNext
<1>7. CASE UNCHANGED vars
  BY <1>7 DEF vars
<1>8. QED
  BY <1>1, <1>2, <1>3, <1>4, <1>5, <1>6, <1>7 DEF Next, Debugger

LEMMA WindowKept ==
  ASSUME [Next]_vars
  PROVE  window => window'
<1> USE DEF histVars
<1>1. CASE \E t \in Tids : ThreadStep(t)
  BY <1>1 DEF ThreadStep, DeliverSigstop, HitTrap, Execute, Raise, Exit, Clone
<1>2. CASE ResumeAll \/ OverDone \/ ContinueDone \/ Swallow \/ SingleStep \/ EndStepOver
  BY <1>2 DEF ResumeAll, OverDone, ContinueDone, Swallow, SingleStep, EndStepOver
<1>3. CASE WaitOnSignal \/ ResumeOver \/ ResumeContinue \/ StopRunning \/ StopDone
  BY <1>3 DEF WaitOnSignal, ResumeOver, BeginStepOver, DisableFails, ResumeContinue,
     Continued,
              ContinueFails, StopRunning, StopDone
<1>4. CASE StopCollects \/ Cleanup(stopTid)
  BY <1>4 DEF StopCollects, Cleanup
<1>5. CASE \E t \in Tids : OverNext(t) \/ ContinueNext(t)
  BY <1>5 DEF OverNext, BeginStepOver, DisableFails, ContinueNext, Continued,
     ContinueFails
<1>6. CASE \E t \in Tids : \/ WaitIgnores(t) \/ WaitReports(t) \/ WaitPokeFails(t)
                           \/ WaitSeesExit(t) \/ StopNext(t)
  BY <1>6 DEF WaitIgnores, WaitReports, WaitPokeFails, WaitSeesExit, StopNext
<1>7. CASE UNCHANGED vars
  BY <1>7 DEF vars
<1>8. QED
  BY <1>1, <1>2, <1>3, <1>4, <1>5, <1>6, <1>7 DEF Next, Debugger

LEMMA GoodBefore == ASSUME [Next]_vars, Good' PROVE Good
BY ParamsKept, WindowKept DEF Good, Careful, params

LEMMA TrapInvStep == ThreadInv /\ TrapInv /\ [Next]_vars => TrapInv'
<1> SUFFICES ASSUME ThreadInv, TrapInv, [Next]_vars, poke' = "tid"
             PROVE  (\A t \in Tids : Rewound(t) /\ TrapExplained(t) /\ CacheBehind(t))'
                    /\ StepOverQuiet'
  BY DEF TrapInv
<1>1. poke = "tid"
  BY ParamsKept DEF params
<1>2. \A t \in Tids : Rewound(t)'
  BY <1>1, RewoundStep
<1>3. \A t \in Tids : TrapExplained(t)'
  BY <1>1, ExplainedStep
<1>4. \A t \in Tids : CacheBehind(t)'
  BY <1>1, BehindStep
<1>5. StepOverQuiet'
  BY <1>1, QuietStep
<1>6. QED
  BY <1>2, <1>3, <1>4, <1>5

LEMMA CarefulInvStep == SiteInv /\ [Next]_vars => CarefulInv'
<1> SUFFICES ASSUME SiteInv, [Next]_vars, Good'
             PROVE  /\ (Main \in threads \/ turn = "done")'
                    /\ AllResumable' /\ SteppingOver' /\ WaitResumes'
                    /\ (\A t \in Tids : passed[t] \subseteq over[t])'
                    /\ (threw = "none")'
  BY DEF CarefulInv
<1>1. ThreadInv /\ TrapInv /\ StopInv /\ CarefulInv
  BY DEF SiteInv
<1>2. Good
  BY <1>1, GoodBefore
<1>3. (Main \in threads \/ turn = "done")'
  BY <1>1, <1>2, MainStep
<1>4. AllResumable'
  BY <1>1, <1>2, ResumableStep
<1>5. SteppingOver'
  BY <1>1, <1>2, SteppingStep
<1>6. WaitResumes'
  BY <1>1, <1>2, WaitStep
<1>7. \A t \in Tids : (passed[t] \subseteq over[t])'
  BY <1>1, <1>2, PassedStep
<1>8. (threw = "none")'
  BY <1>1, <1>2, ThrewStep
<1>9. QED
  BY <1>3, <1>4, <1>5, <1>6, <1>7, <1>8

LEMMA SiteInvHolds == Spec => [](SiteInv /\ CodeInv)
<1>1. SiteInv /\ [Next]_vars => SiteInv'
  <2> SUFFICES ASSUME SiteInv, [Next]_vars PROVE SiteInv'
    OBVIOUS
  <2>1. ThreadInv /\ TrapInv /\ StopInv
    BY DEF SiteInv
  <2>2. ThreadInv' /\ TrapInv' /\ CarefulInv'
    BY <2>1, ThreadInvStep, TrapInvStep, CarefulInvStep
  <2>3. StopInv'
    BY <2>1, StopStep
  <2>4. QED
    BY <2>2, <2>3 DEF SiteInv
<1>2. SiteInv /\ CodeInv /\ [Next]_vars => CodeInv'
  <2> SUFFICES ASSUME SiteInv, CodeInv, [Next]_vars, Good'
               PROVE  (\A t \in Tids : NotSkipped(t))'
    BY DEF CodeInv
  <2>1. ThreadInv /\ TrapInv /\ CarefulInv
    BY DEF SiteInv
  <2>2. Good
    BY <2>1, GoodBefore
  <2>3. \A t \in Tids : NotSkipped(t)'
    BY <2>1, <2>2, CodeStep
  <2>4. QED
    BY <2>3
<1>3. QED
  BY <1>1, <1>2, SiteInvInit, PTL DEF Spec

(* With register writes that reach their thread, a stop that wait_on_      *)
(* signal or stop_running_threads returned at the breakpoint shows the     *)
(* thread there, whatever the client does between its calls.               *)
THEOREM TrapsReportTheSite == Spec => []TrapReportsSite
<1>1. SiteInv => TrapReportsSite
  BY DEF SiteInv, TrapInv, Rewound, TrapReportsSite
<1>2. QED
  BY <1>1, SiteInvHolds, PTL

(* Between two calls of a careful client the breakpoint is enabled. *)
THEOREM SiteIsRestored == Spec => []SiteRestored
<1>1. SiteInv => SiteRestored
  BY DEF SiteInv, CarefulInv, Good, SteppingOver, Stepping, SiteRestored
<1>2. QED
  BY <1>1, SiteInvHolds, PTL

(* A thread of a careful client's process executes the instruction under   *)
(* the breakpoint only when step_over_breakpoint steps it.                 *)
THEOREM PassedInStepsOver == Spec => []PassedOnlyByStepOver
<1>1. SiteInv => PassedOnlyByStepOver
  BY DEF SiteInv, CarefulInv, Good, PassedOnlyByStepOver
<1>2. QED
  BY <1>1, SiteInvHolds, PTL

(* And it never loses that instruction to a trap that was not rewound. *)
THEOREM NothingSkipped == Spec => []NoInstructionSkipped
<1>1. ThreadInv /\ CodeInv => NoInstructionSkipped
  <2> SUFFICES ASSUME ThreadInv, CodeInv, Careful, ~window, NEW t \in Tids,
                      NEW p \in Entry[t] .. rip[t] - 1, At(p) = "site"
               PROVE  \/ p \in passed[t]
                      \/ kern[t] = "stopped" /\ cause[t] = "trap" /\ fresh[t] /\ p = rip[t] - 1
    BY DEF NoInstructionSkipped
  <2>1. Entry[t] \in Nat /\ rip[t] \in Nat
    BY Consts DEF ThreadInv, KernTypes
  <2>2. p \in Nat /\ p >= Entry[t] /\ p < rip[t]
    BY <2>1
  <2>3. NotSkipped(t)
    BY DEF CodeInv, Good
  <2>4. QED
    BY <2>2, <2>3 DEF NotSkipped
<1>2. QED
  BY <1>1, SiteInvHolds, PTL DEF SiteInv

(* resume_all_threads, wait_on_signal and stop_running_threads of a        *)
(* careful client do not throw.                                            *)
THEOREM CallsGoThrough == Spec => []CallsSucceed
<1>1. SiteInv => CallsSucceed
  BY DEF SiteInv, CarefulInv, Good, CallsSucceed
<1>2. QED
  BY <1>1, SiteInvHolds, PTL
===============================================================================
