--------------------------- MODULE LifetimeContract ---------------------------
(***************************************************************************)
(* What a caller of process::launch, process::attach and process::~process *)
(* may rely on, with no pipe, no wait status and no m_State: a start that  *)
(* comes back either with a process whose program was executed or with an  *)
(* exception, and an end that leaves no launched program alive.            *)
(***************************************************************************)
VARIABLES
  owned,    \* the debugger launched the program; otherwise it attached
  reports,  \* the forked child can tell its parent of a failure
  phase,    \* of the process object
  program   \* the debugged program: not yet executed, alive or dead

vars == <<owned, reports, phase, program>>

Init ==
  /\ owned \in BOOLEAN
  /\ reports \in BOOLEAN
  /\ phase = "starting"
  /\ program = IF owned THEN "absent" ELSE "alive"

Become(p, q) ==
  /\ phase = p
  /\ phase' = q
  /\ UNCHANGED <<owned, reports, program>>

(* The forked child executes the program: while launch waits for it, or,   *)
(* when it has no way to be heard, after launch gave up.                   *)
Executed ==
  /\ owned /\ program = "absent"
  /\ phase = "starting" \/ (phase = "failed" /\ ~reports)
  /\ program' = "alive"
  /\ UNCHANGED <<owned, reports, phase>>

(* It exits, or is killed by anyone, the debugger included. *)
Died ==
  /\ program = "alive"
  /\ program' = "dead"
  /\ UNCHANGED <<owned, reports, phase>>

(* launch or attach returns a process. *)
Returns == program # "absent" /\ Become("starting", "usable")

(* launch or attach throws, and leaves no program of its own running. *)
Throws == (owned /\ reports => program # "alive") /\ Become("starting", "failed")

(* The destructor begins, and ends with a launched program dead. *)
LetGo == Become("usable", "ending")

Ends == (owned => program = "dead") /\ Become("ending", "ended")

Next == Executed \/ Died \/ Returns \/ Throws \/ LetGo \/ Ends

(* launch and attach always come back. *)
ComesBack == (phase = "starting") ~> (phase # "starting")

Spec == Init /\ [][Next]_vars /\ ComesBack
===============================================================================
