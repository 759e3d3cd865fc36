----------------------------- MODULE SourceStepping -----------------------------
(***************************************************************************)
(* Stepping by source line (target::step_in, step_over, step_out and       *)
(* run_until_address) over a program with calls, recursion, loops, inlined *)
(* blocks and code without debug information.  Each command is a loop of   *)
(* single steps and of runs to a temporary breakpoint, any of which may    *)
(* end in another stop.  One action is one iteration of a debugger's loop  *)
(* or one instruction of the program.                                      *)
(***************************************************************************)
EXTENDS Integers, FiniteSets, SequencesExt

CONSTANTS
  Addr,      \* instructions, one address each; 0 is no address
  Kind,      \* [Addr -> {"plain", "call", "ret"}]
  Succ,      \* where plain and call instructions lead
  Row,       \* the line table row that covers an address, 0 if none
  Inl,       \* inline_stack_at_address: function first, innermost block last
  Start,     \* where the program is stopped at first
  UserAddr,  \* where the user has sites
  MaxDepth   \* bound on the program's recursion

ASSUME SteppingAssumption ==
  /\ Addr \subseteq Nat \ {0} /\ Start \in Addr /\ UserAddr \subseteq Addr
  /\ Kind \in [Addr -> {"plain", "call", "ret"}] /\ Succ \in [Addr -> SUBSET Addr]
  /\ \A a \in Addr : Kind[a] = "call" => a + 1 \in Addr
  /\ Row \in [Addr -> Nat]
  /\ Inl \in [Addr -> Seq([low : Nat, high : Nat])]
  /\ \A a \in Addr : \A i \in DOMAIN Inl[a] : Inl[a][i].low <= a /\ a < Inl[a][i].high
  /\ MaxDepth \in Nat

VARIABLES
  pc, stk,      \* the program: instruction, return addresses
  run,          \* "stopped", "running", "gone"
  sites,        \* the user's sites: "none", "on", "off"
  tmp, traps,   \* breakpoint_to_remove, at most one address; the int3 bytes
  height, cur,  \* stack::m_InlineHeight, m_CurrentFrame
  busy, job,    \* a command is executing; what it keeps in locals
  goal, fresh,  \* the address of run_until_address; nothing executed since
  said          \* the reason the last command returned

program == <<pc, stk, run>>
stack == <<height, cur>>
command == <<busy, job, goal, fresh, said>>
vars == <<program, sites, tmp, traps, stack, command>>

-------------------------------------------------------------------------------
(* The stack. *)

(* stack::reset_inline_height; the function counts like a block. *)
Height(p) ==
  LET blocks == Reverse(Inl[p])
  IN  Cardinality({h \in DOMAIN blocks : \A j \in 1 .. h : blocks[j].low = p})

(* Fault variant of Frames: one frame for an activation. *)
FramesNoInline(p, s) == <<p>> \o Reverse(s)

(* stack::unwind: for each activation a frame per block, innermost first,  *)
(* up to one without debug information.  A frame is its saved rip.         *)
Frames(p, s) ==
  LET rips  == <<p>> \o Reverse(s)
      n(k)  == Len(Inl[IF k = 1 THEN p ELSE rips[k] - 1])
      known == {k \in DOMAIN rips : \A j \in 1 .. k : n(j) > 0}
  IN  FlattenSeq([k \in 1 .. Cardinality(known) |-> [j \in 1 .. n(k) |-> rips[k]]])

(* What unwind sets at each stop. *)
Unwind(p) == height' = Height(p) /\ cur' = Height(p)

-------------------------------------------------------------------------------
(* The program. *)

(* What resuming the program by one instruction can come to: it stops at   *)
(* the next instruction, is gone, or a signal comes first.                 *)
Moves ==
  LET to(p, s, o) == [pc |-> p, stk |-> s, out |-> o]
  IN  {to(pc, stk, "signal")} \cup
      CASE Kind[pc] = "plain" ->
             {to(p, stk, "step") : p \in {q \in Succ[pc] : Kind[q] = "call" => Len(stk) < MaxDepth}}
        [] Kind[pc] = "call" -> {to(p, Append(stk, pc + 1), "step") : p \in Succ[pc]}
        [] OTHER -> IF stk = <<>> THEN {to(pc, stk, "exited")}
                    ELSE {to(Last(stk), Front(stk), "step")}

Move(m) ==
  /\ pc' = m.pc /\ stk' = m.stk
  /\ run' = IF m.out = "exited" THEN "gone" ELSE "stopped"

-------------------------------------------------------------------------------
(* The pieces of the commands. *)

(* The command returns and handle_stop prints the current frame, which     *)
(* may lie past the end of m_Frames.                                       *)
Return(r, p, s) ==
  /\ busy' = FALSE /\ goal' = 0
  /\ \/ said' = r
     \/ /\ r \notin {"exited", "error"} /\ Frames(p, s) # <<>>
        /\ Height(p) >= Len(Frames(p, s))
        /\ said' = "undefined"
  /\ UNCHANGED <<job, fresh>>

(* run_until_address up to resume.  A site that is there is used, enabled  *)
(* or not.                                                                 *)
RunUntil(a) ==
  /\ tmp' = IF sites[a] = "none" THEN {a} ELSE {}
  /\ traps' = traps \cup tmp'
  /\ goal' = a /\ fresh' = TRUE
  /\ run' = "running"

(* Fault variant of RemoveTemporary: forgotten when another stop came. *)
RemoveAtGoal(r) ==
  IF r = "step" THEN tmp' = {} /\ traps' = traps \ tmp ELSE UNCHANGED <<tmp, traps>>

(* The end of run_until_address.  Removing a site disables it, which fails *)
(* when the process is gone; the site is then left behind.                 *)
RemoveTemporary(r) ==
  IF r = "exited" THEN UNCHANGED <<tmp, traps>>
  ELSE tmp' = {} /\ traps' = traps \ tmp

(* Fault variant of SameLine: the loop ends at the first step. *)
SameLineNever(p) == FALSE

(* The condition of the loops: still in the row the command began in. *)
SameLine(p) == Row[p] = job.line /\ Row[p] # 0

(* ++line on the row at p. *)
NextRow(p) == CHOOSE b \in Addr :
  b > p /\ Row[b] # Row[p] /\ \A c \in Addr : p < c /\ c < b => Row[c] = Row[p]

(* step_in after its loop: at a function's first instruction it runs past  *)
(* the prologue.                                                           *)
AtPrologue(p) == Inl[p] # <<>> /\ Inl[p][1].low = p /\ Row[p] # 0

(* At the start of an inlined block that step_over skips. *)
AtBlock == Len(Inl[pc]) > 1 /\ height > 0

(* Fault variant of SkipTo: calls are stepped into. *)
SkipToInline == IF AtBlock THEN Inl[pc][Len(Inl[pc]) - height + 1].high ELSE 0

(* What step_over runs to, 0 for a single step. *)
SkipTo ==
  IF AtBlock THEN Inl[pc][Len(Inl[pc]) - height + 1].high
  ELSE IF Kind[pc] = "call" THEN pc + 1 ELSE 0

(* process::step_instruction.  The site at the pc is disabled for the      *)
(* step; enabling it again fails when the process is gone.                 *)
StepReason(m) == IF m.out = "exited" /\ pc \in traps THEN "error" ELSE m.out

(* The locals of a command, and what the properties compare with; past is  *)
(* the end of a prologue it ran through, over the calls it ran over, block *)
(* that it skipped an inlined block.                                       *)
Job(op, inline) ==
  [op |-> op, line |-> Row[pc], depth |-> Len(stk), ret |-> IF stk = <<>> THEN 0 ELSE Last(stk),
   inline |-> inline, top |-> cur = height /\ ~(Inl[pc] # <<>> /\ Inl[pc][1].low = pc),
   past |-> 0, over |-> {}, block |-> FALSE]

Idle == ~busy /\ run = "stopped" /\ said # "undefined"

-------------------------------------------------------------------------------
(* The commands. *)

(* step_in in an inlined frame that begins here: nothing executes. *)
StepInInlined ==
  /\ Idle /\ height > 0
  /\ height' = height - 1 /\ cur' = height - 1
  /\ job' = Job("in", TRUE) /\ said' = "step"
  /\ UNCHANGED <<program, sites, tmp, traps, busy, goal, fresh>>

(* step_in and step_over up to their loops. *)
BeginStep(op) ==
  /\ Idle /\ (op = "in" => height = 0)
  /\ busy' = TRUE /\ job' = Job(op, FALSE) /\ goal' = 0
  /\ UNCHANGED <<program, sites, tmp, traps, stack, fresh, said>>

(* A single step of either loop, and what follows it. *)
SingleStep(m) ==
  /\ Move(m) /\ Unwind(m.pc)
  /\ UNCHANGED <<tmp, traps>>
  /\ IF m.out = "step" /\ SameLine(m.pc)
     THEN UNCHANGED command
     ELSE Return(StepReason(m), m.pc, m.stk)

(* The last single step of step_in, onto a function's first instruction. *)
EnterFunction(m) ==
  /\ pc' = m.pc /\ stk' = m.stk /\ Unwind(m.pc)
  /\ RunUntil(NextRow(m.pc))
  /\ job' = [job EXCEPT !.past = NextRow(m.pc)]
  /\ UNCHANGED <<busy, said>>

StepIteration ==
  /\ busy /\ goal = 0 /\ run = "stopped"
  /\ UNCHANGED sites
  /\ IF job.op = "over" /\ SkipTo # 0
     THEN /\ RunUntil(SkipTo)
          /\ job' = [job EXCEPT !.block = @ \/ AtBlock,
                                !.over = IF AtBlock THEN @ ELSE @ \cup {[at |-> SkipTo, depth |-> Len(stk)]}]
          /\ UNCHANGED <<pc, stk, stack, busy, said>>
     ELSE \E m \in Moves :
            IF job.op = "in" /\ m.out = "step" /\ ~SameLine(m.pc) /\ AtPrologue(m.pc)
            THEN EnterFunction(m) ELSE SingleStep(m)

(* step_out: to the end of the inlined block, or to the return address of  *)
(* the current frame, which is read past the end of m_Frames when there is *)
(* no caller.                                                              *)
StepOut ==
  /\ Idle
  /\ LET n      == Len(Inl[pc])
         inline == n > 1 /\ height < n - 1
         frames == Frames(pc, stk)
     IN  /\ job' = Job("out", inline)
         /\ UNCHANGED <<pc, stk, sites, stack>>
         /\ IF inline \/ cur + 2 \in DOMAIN frames
            THEN /\ RunUntil(IF inline THEN Inl[pc][n - height].high ELSE frames[cur + 2])
                 /\ busy' = TRUE /\ UNCHANGED said
            ELSE said' = "undefined" /\ UNCHANGED <<run, tmp, traps, busy, goal, fresh>>

(* "continue", and "step", which is step_instruction. *)
Continue ==
  /\ Idle
  /\ job' = Job("continue", FALSE) /\ busy' = TRUE /\ goal' = 0 /\ fresh' = TRUE
  /\ run' = "running"
  /\ UNCHANGED <<pc, stk, sites, tmp, traps, stack, said>>

StepInstruction ==
  /\ Idle
  /\ \E m \in Moves :
       /\ Move(m) /\ Unwind(m.pc) /\ said' = StepReason(m)
       /\ job' = Job("stepi", FALSE)
  /\ UNCHANGED <<sites, tmp, traps, busy, goal, fresh>>

(* stack::up and down, which know no bound (the model's is one frame too   *)
(* far on either side); print_code_location then reads the frame.          *)
Select(d) ==
  /\ Idle /\ cur + d \in -1 .. Len(Frames(pc, stk)) + 1
  /\ cur' = cur + d
  /\ said' = IF cur + d + 1 \in DOMAIN Frames(pc, stk) \/ Frames(pc, stk) = <<>>
             THEN said ELSE "undefined"
  /\ UNCHANGED <<program, sites, tmp, traps, height, busy, job, goal, fresh>>

(* resume() first steps off a site at the pc, with the trap out of memory, *)
(* and does not look at what it waited for (step_over_breakpoint).         *)
SteppingOff == fresh /\ pc \in traps

(* The program runs. *)
Execute ==
  /\ run = "running" /\ (fresh \/ pc \notin traps)
  /\ \E m \in Moves :
       /\ m.out = "step"
       /\ pc' = m.pc /\ stk' = m.stk
  /\ fresh' = FALSE
  /\ UNCHANGED <<run, sites, tmp, traps, stack, busy, job, goal, said>>

(* wait_on_signal returns to run_until_address (or to "continue"), and     *)
(* that to the command's loop.                                             *)
Stop(r) ==
  LET there == r = "breakpoint" /\ pc = goal
      why   == IF there THEN "step"
               ELSE IF r = "exited" /\ (tmp # {} \/ SteppingOff) THEN "error" ELSE r
  IN  /\ run' = IF r = "exited" THEN "gone" ELSE "stopped"
      /\ Unwind(pc)
      /\ RemoveTemporary(IF there THEN "step" ELSE r)
      /\ IF job.op = "over" /\ there /\ SameLine(pc)
         THEN goal' = 0 /\ UNCHANGED <<busy, job, fresh, said>>
         ELSE Return(why, pc, stk)
      /\ UNCHANGED <<pc, stk, sites>>

(* A signal that comes while stepping off is lost, and the trap, enabled   *)
(* again before the program moved, is hit at once; after an exit there is  *)
(* nothing to enable.                                                      *)
Stops ==
  /\ run = "running"
  /\ \/ pc \in traps /\ Stop("breakpoint")
     \/ \E m \in Moves : /\ m.out \in {"signal", "exited"}
                         /\ m.out = "signal" => ~SteppingOff
                         /\ m.out = "exited" => fresh \/ pc \notin traps
                         /\ Stop(m.out)

Init ==
  /\ pc = Start /\ stk = <<>> /\ run = "stopped"
  /\ \E f \in [UserAddr -> {"none", "on", "off"}] :
       sites = [a \in Addr |-> IF a \in UserAddr THEN f[a] ELSE "none"]
  /\ tmp = {} /\ traps = {a \in Addr : sites[a] = "on"}
  /\ height = Height(Start) /\ cur = Height(Start)
  /\ busy = FALSE /\ job = Job("continue", FALSE) /\ goal = 0 /\ fresh = FALSE
  /\ said = "breakpoint"

Next ==
  \/ StepInInlined \/ BeginStep("in") \/ BeginStep("over") \/ StepIteration
  \/ StepOut \/ Continue \/ StepInstruction \/ Select(1) \/ Select(-1)
  \/ Execute \/ Stops

Spec == Init /\ [][Next]_vars

-------------------------------------------------------------------------------
(* Properties. *)

(* When a command has returned and the program is stopped, the traps in    *)
(* memory are the user's own: run_until_address leaves no temporary site,  *)
(* whichever stop ended it.                                                *)
TemporaryGone ==
  ~busy /\ run = "stopped" =>
    tmp = {} /\ traps = {a \in Addr : sites[a] = "on"}

(* A step that is reported as done has left the row, or the activation, in *)
(* which it began (the loops of step_in and step_over), except for the     *)
(* step into an inlined frame, which moves nothing, and for one that ran   *)
(* past a prologue, which ends there.                                      *)
StepMoves ==
  ~busy /\ said = "step" /\ job.op \in {"in", "over"} /\ ~job.inline =>
    Row[pc] # job.line \/ Row[pc] = 0 \/ Len(stk) # job.depth \/ pc = job.past

(* step_over ends in the activation it began in or in one of its callers;  *)
(* in a deeper one only by recursion, inside a call that it stepped over   *)
(* and that has not returned: the temporary site at the return address     *)
(* does not know one activation from another, and the loop goes on there.  *)
(* Skipping a block promises nothing: it may be left elsewhere.            *)
StepOverKeepsFrame ==
  ~busy /\ said = "step" /\ job.op = "over" /\ ~job.block /\ Len(stk) > job.depth =>
    \E c \in job.over : c.depth <= job.depth /\ stk[c.depth + 1] = c.at

(* step_out ends in the caller at the return address, when it was given in *)
(* the innermost frame and past the function's first instruction; or, by   *)
(* recursion, at the same address in a deeper activation (the loop over    *)
(* frames() never takes a second turn, target.cpp:223).                    *)
StepOutReturns ==
  ~busy /\ said = "step" /\ job.op = "out" /\ ~job.inline /\ job.top =>
    /\ pc = job.ret
    /\ Len(stk) = job.depth - 1 \/ (Len(stk) >= job.depth /\ stk[job.depth] = pc)
===============================================================================
