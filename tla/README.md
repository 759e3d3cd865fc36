# KDebugger in TLA+

A verification project for KDebugger, a source-level debugger for x86-64 Linux
built on ptrace. The modules model the part of `libkdebugger` in which state is
kept across calls, threads and signals, and the algorithms it rests on; TLC checks
small instances of them, and TLAPS proves for every instance what the stoppoints,
the breakpoints, the lifetime of a process, its threads, its catchpoints and the
stepping commands promise, apart from liveness, and what memory transfers and two of the
lookups compute.

Paths below are relative to the repository (`src/process.cpp`, `include/libkdebugger/...`).

## 1. The system

| part | state it keeps | operations | talks to |
|---|---|---|---|
| `process`: launch, attach, destroy | `m_Pid`, `m_Terminate`, `m_IsAttached`, `m_State` | `launch`, `attach`, `~process`, `set_ptrace_options` | the forked child through `pipe`, the kernel |
| `pipe` | two descriptors | construct, `read`, `write`, `close_*`, `release_*` | both sides of `fork` |
| `process`: threads | `m_Threads` (per thread: state, registers, stop reason, `pending_sigstop`), `m_CurrentThread` | `resume`, `resume_all_threads`, `step_instruction`, `step_over_breakpoint`, `wait_on_signal`, `handle_signal`, `stop_running_threads`, `swallow_pending_sigstop`, `cleanup_exited_threads` | the kernel, `target::notify_stop` and `notify_thread_lifecycle_event` |
| `process`: memory and debug registers | the tracee's memory, `dr0..dr3`, `dr7` | `read_memory`, `read_memory_without_traps`, `write_memory`, `set_hardware_*`, `clear_hardware_stoppoint`, `get_current_hardware_stoppoint` | `registers`, stoppoints |
| `process`: syscall catchpoints | `m_SyscallCatchPolicy`, `expecting_syscall_exit` | `set_syscall_catch_policy`, `augment_stop_reason`, `mabye_resume_from_syscall`, `send_continue` | the kernel |
| `registers` | one cached `user` block per thread | `read`, `write`, `flush`, `undefine` | `process::write_user_area`, `write_gprs`, `write_fprs` |
| `breakpoint_site`, `watchpoint` | enabled flag, saved byte, debug register index, id | `enable`, `disable`, construction | `process` |
| `stoppoint_collection` | a vector of stoppoints | `push`, lookups, `remove_by_*` | used by `process`, `target`, `breakpoint` |
| `breakpoint` (function, line, address) | its sites, hit handler, enabled flag | `resolve`, `enable`, `disable`, `notify_hit` | `target`, `process` |
| `target` | breakpoints, threads with their stacks, the loaded ELF files | `step_in`, `step_over`, `step_out`, `run_until_address`, `notify_stop`, `reload_dynamic_libraries` | all of the above |
| `stack` | frames, inline height | `reset_inline_height`, `unwind`, inline stepping | `dwarf`, `target` |
| `dwarf`, `elf`, `types` | indexes built once from a file | decoding LEB128, line tables, range lists, call frame information, address translation | `target`, `stack` |
| command line (`tools/kdebugger.cpp`) | the current target | one command at a time; an exception ends the command | `target`, `process` |

**How they interact.** The debugger is one sequential process. A command calls
`target` or `process`; those make ptrace and `waitpid` calls, and *between any
two of these calls* the tracee's threads run, trap, clone and exit. Register
reads go to a cache that is refreshed only when a thread's stop is handled;
register writes update the cache and then the kernel. Stoppoints patch memory
or claim a debug register; `handle_signal` finds out from the cached program
counter and from `siginfo` which of them caused a stop. `target` is called back
from `wait_on_signal` (thread lifecycle, stops).

**What is hard here.** Interleaving of threads with a multi-step operation
(`step_over_breakpoint` takes the trap out of memory for the time of a single
step; `stop_running_threads` races stops that happen by themselves);
two processes sharing a pipe between `fork` and `exec`; caches that are
stale when used (`m_State`, cached registers, `pending_sigstop`,
`expecting_syscall_exit`); operations that throw after half of their work;
four debug registers shared by two kinds of stoppoints; waits that may
never end.

**What makes each part correct.** Stoppoints: the tracee's bytes and debug
registers are exactly what the enabled stoppoints require, readers see the
program's bytes, a trap goes to the stoppoint that armed it, ids and addresses
find their own. Breakpoints: every breakpoint is resolved in every library, its
sites follow it, no int3 is without an owner, no site without its breakpoint.
Lifetime: `launch` returns only a running program, a launch that
throws leaves nothing behind, the destructor ends and releases the tracee.
Threads: no breakpoint is lost or run through, no instruction skipped, stopped
means stopped, no thread runs unseen, calls come back. Catchpoints: entries and
exits are labelled and paired, only requested calls are reported. Stepping: a
step ends at a line boundary of the right frame or says why not. Decoders: each
agrees with a reference definition of its encoding.

`PROJECT.json` lists every component, and under `hazards` the places in the code
where these can go wrong, each with the properties aimed at it.

## 2. Reading the source

The repository does not compile at this commit, so a reading has to be fixed.

* A misspelt identifier is read as its evident referent (`m_Thread` for
  `m_Threads`, `*file_reason` for `*final_reason`, `find_free_stoppoint_register`
  for `find_free_stoppoint_region`).
* A well-formed statement is modelled as written, whatever it was meant to do:
  the inverted guard of `watchpoint::disable`, the unassigned
  `breakpoint_site::m_Id`, the `expecting_syscall_exit` shared by all threads,
  `write_memory` ignoring sites, `m_State` reset only when the main thread exits.
* Some well-formed statements would keep everything behind them from ever
  running. Four of them are parameters that a run gives the written value, the
  repaired one, or both:

| parameter | source | as written | repaired |
|---|---|---|---|
| `writeFd` (ProcessLifetime) | `pipe.hpp:36` | `write_fd` is 0 like `read_fd`: `close_write` closes the read end and `launch` throws although the program runs | 1 |
| `tidParsed` (ProcessLifetime) | `process.cpp:183` | `tid = waitpid(...) < 0` stores the comparison, 0; the stop counts as a new thread 0 and `resume(0)` throws | `waitpid`'s result |
| `vdso` (Breakpoints) | `target.cpp:355` | compares with `linux.vdso.so.1`, a name the linker never gives: the vdso is opened as a file and every reload throws | `linux-vdso.so.1` |
| `poke` (ThreadControl) | `process.cpp:302` | `write_user_area` pokes `m_Pid` whatever thread it is given | the given thread |

  Another, `process.cpp:278` (`PTRACE_GETREGS` stores the general registers
  over the floating point ones, so the cached `rip` never changes), is read as
  repaired everywhere. `wait_on_signal()` without an argument (`process.hpp:219`
  declares it, nothing defines it) is read as waiting for any thread, as
  `wait_on_signal(-1)` at `process.cpp:207` does. `Stoppoints` keeps the pokes to `m_Pid` as written: there
  they do not stop anything from running, they are a hazard of their own.

## 3. The modules

### Stoppoints (with MCStoppoints, StoppointsProofs)

Sites and watchpoints of one process, the bytes they patch and the registers
they claim. The tracee is stopped while these operations run, so an action is
one call. A call that throws with no effect is no step; a call that throws after
part of its work is a step with that part (`...Throws`). Stoppoints are named by
address because the code refuses a second one at an address. `PTRACE_PEEKDATA` and
`PTRACE_POKEDATA` move words of eight bytes, so a site is enabled, and memory written,
only where the whole word from the address is mapped (`WordMapped`); a longer
`write_memory` is a sequence of such words.

| state | code |
|---|---|
| `mem`, `prog` | the tracee's bytes; `prog` is history: what they would be without a debugger |
| `siteKind`, `siteOn`, `saved`, `siteSlot` | `breakpoint_site`: hardware flag, `m_isEnabled`, `m_SavedData`, `m_HardwareRegisterIndex` |
| `watch`, `watchOn`, `watchSlot` | `watchpoint` likewise |
| `cur` | `m_CurrentThread`, whose cached registers `set_hardware_stoppoint` works on |
| `dr`, `dr7` / `hwDr`, `hwDr7` | the cached debug registers of every thread / those the kernel holds for `m_Pid`; a dr7 is one field (mode, size or `Off`) per slot |
| `stale`, `leaked`, `taint` | history, see below |

Three pieces of history name what the code lets go wrong, so that the invariants
say exactly how far they reach. `stale`: addresses written by `write_memory` over
an enabled site. `leaked`: slots of watchpoints deleted while armed. `taint`: a
stoppoint set from a thread other than `m_Pid` ("foreign"), a dr7 write the
kernel refused ("refused"), `clear_hardware_stoppoint(-1)` ("negative": shifting
by a negative count is undefined; the model allows an unchanged control register
and the one x86's wrapped shift gives).

### MemoryTransfer (with MCAlgorithms, AlgorithmsProofs)

How `read_memory` cuts a region into pages for `process_vm_readv` and
`write_memory` into words for `PTRACE_POKEDATA`, the last of which is completed
with bytes read back; compared with what the region should contain when pages are
missing. Stoppoints takes such a transfer as a unit.

### StoppointIds (with StoppointIdsProofs)

One `stoppoint_collection` as the commands use it: `push`, the first match by id
or address, removal through `*end()` when nothing matches (a crash), ids counted by
`get_next_id`, -1 for internal breakpoints, anything for sites.

### ProcessLifetime, LifetimeContract (with ProcessLifetimeProofs)

Debugger and forked child between `fork` and `exec` (five child steps, each of
which may fail and report through the pipe), `attach`, the first wait,
`resume`/`wait_on_signal` as far as they touch `m_State`, and the destructor, one
action per system call. `kern`, `status`, `traced`, `pending` are the kernel's
side: process state, an uncollected wait status, the tracer, a SIGSTOP sent to a
process that is already stopped. The program may stop or die at any time.

`set_ptrace_options` asks for `PTRACE_O_TRACECLONE`, so a thread that the program creates
is a tracee as well, while the destructor knows `m_Pid` only. `clone` is such a thread, one
at a time: its first stop, its other stops (a SIGSTOP sent to the process may be taken by
it), its end, and what `wait_on_signal` and `resume` do about it. The kernel reports the
end of the main thread only when no other thread is left to be waited for (`Collect`), and
the main thread takes the other with it. Threads that a process had before it was attached
are not traced (`PTRACE_ATTACH` is given one) and not modelled. How `process` handles
several threads while it is used is ThreadControl's subject.

`LifetimeContract` is what a caller may rely on, in four variables: a start that
comes back usable only if the program was executed, or throws and leaves no program
of its own running; a destructor after which a launched program is dead.
`ProcessLifetime` implements it under the mapping `Phase`, `Program` (an unwinding
destructor still belongs to the start that throws; `reports` is `writeFd = 1`, since
without a write end the child cannot be heard and may run after `launch` gave up).
The contract's liveness is stated as a leads-to because the mapped state is not a
variable, so TLC cannot evaluate ENABLED of the contract's actions.

### Breakpoints (with MCBreakpoints, BreakpointsProofs)

Breakpoints of a target (`bps`: by address, function or line, user's or internal)
and the sites they own in the process (`obj`, `owned`, `traps`). A handler is a
sequence of loops each step of which may throw, so the debugger's state is one
record `st` and a handler is a function of it; `err` is an error on its way to
`main_loop`, which prints it and goes on. Sites are numbered objects: a freed one
keeps its fields, and `hot` records that one was used through a stale pointer, after
which the model goes on with the old fields or with a crash. The program maps and
unmaps a library and calls `r_brk`; the trap there runs
`reload_dynamic_libraries`, which resolves every breakpoint again. `Found` gives what
the lookup by name finds in each object. `ForEach` is the loop that an error cuts short,
`Outcome` the end of a handler. History: `failed` (a handler threw), `orphans`
(breakpoints whose constructor did), `missed` (objects mapped since a trap of the
target's own was last `Heard`), `toggled`, `ghost`, each the exception of a property.

### SourceStepping (with MCSourceStepping, SourceSteppingProofs)

A program as a graph of instructions (`Kind`, `Succ`), a line table (`Row`) and the
inlined blocks at each address (`Inl`); the stack of return addresses; the user's
sites and the temporary one of `run_until_address`. A run first steps off a site at the pc
(`SteppingOff`): a signal that comes then is lost in `step_over_breakpoint`, whose wait
status nobody reads, and the trap is hit before the program moved. `StepIteration` is one turn of the
loops of `step_in` and `step_over`, `StepOut` its one run to the return address,
`Execute` and `Stops` the program running to a trap, a signal or its exit. `height` and
`cur` are `m_InlineHeight` and `m_CurrentFrame`; reading past `m_Frames` gives
`said = "undefined"`, after which nothing is claimed. `job` holds the locals of the
command and, as history, the end of a prologue it ran through (`past`), the calls it
ran over (`over`) and whether it skipped an inlined block (`block`).

### LineTable, CallFrames, Dies (with MCAlgorithms, AlgorithmsProofs)

The algorithms of `dwarf.cpp` as operators, each beside a definition of the same
thing from the standard's side: the rows of a line number program and the lookup of
an address; the search of `.eh_frame_hdr`, call frame instructions byte by byte and
the rules applied to registers; the walk over debugging entries with and without
`DW_AT_sibling`, the function index, range lists, inline stacks. `MCAlgorithms` grows
inputs item by item, so every input up to a length is a state. Where the code departs
from the standard, `Departs` and `DepartsFrom` say on which inputs.

### ThreadControl (with MCThreadControl, ThreadControlProofs)

Threads run a small shared program (`Code`, entered at `Entry[t]`) of plain
instructions, the instruction under the breakpoint, `clone`, a signal and exit.
Kernel actions stop them (`kern`, `cause`, `fresh` for an uncollected stop,
`sigq` for a queued SIGSTOP). The debugger's operations are split at every
`waitpid` and every ptrace call whose outcome depends on the threads: `BeginStepOver`, `Swallow`,
`SingleStep`, `EndStepOver` are `step_over_breakpoint`; `OverNext`,
`ContinueNext` are the two loops of `resume_all_threads`; `WaitIgnores`,
`WaitReports`, `WaitPokeFails`, `WaitSeesExit` are the outcomes of `handle_signal`
in `wait_on_signal`; `StopNext`, `StopCollects` are `stop_running_threads`. A call
that fails in the kernel throws; the client goes on with its next command, as
`main_loop` does. `over`, `passed` and `window` are history: which site
instructions were stepped over, which were executed, and whether
`step_over_breakpoint` was ever entered for a `Stale` thread, one whose cached `rip`
or `pending_sigstop` is not the thread's own any more.

Two clients: `"as_is"` alternates `resume_all_threads` and `wait_on_signal`, as
the `continue` command and the tests do; `"stopping"` calls
`stop_running_threads` and `cleanup_exited_threads` after each wait, the use these
two functions of the interface are written for; at this commit nothing in the
repository calls them.

### SyscallCatch (with SyscallCatchProofs)

The policy, the ptrace request `send_continue` derives from it, the kernel's
entry and exit stops, and the one `expecting_syscall_exit` flag of a process.
Threads stopped are resumed in any subset, then waited for; policies change in
between.

### Fault variants

A definition called "Fault variant of X" is X with a plausible mistake. It is
used nowhere in the specifications; putting it in X's place shows that the
property listed with it in `PROJECT.json` notices.

## 4. The runs

| run | shows | instance |
|---|---|---|
| `stoppoints` | `TrapBytesExact`: outside `stale`, memory holds int3 with the program's byte saved under every enabled software site, the program's byte elsewhere. `ReadsProgramBytes`: `read_memory_without_traps` returns the program's bytes. `SlotsExact`, `CacheInStep`, `AttributionExact` and the type invariant | 3 addresses (two adjacent, so that a two-byte write covers two sites; the word at the third reaches behind the mapped bytes), 3 byte values, int3 among them (so a program may contain one); 2 slots (both full, both free and one leaked all occur), 4 kinds of watchpoint (one size that cannot be encoded, one the kernel refuses), 2 threads. `Explored` cuts behind states tainted "foreign" or "negative", about which only the type invariant says something, and follows the bytes (`BytesVary`: every pattern, no debug register in use) and the registers (`RegistersVary`: all kinds of stoppoints at two addresses over zeros) apart, since neither reads the other |
| `stoppoint_ids` | `IdFindsItsOwn`, `AddressFindsItsOwn` for the three kinds of collection | 4 creations, 2 addresses: deletion in the middle and re-creation |
| `lifetime` | `ImplementsContract` (the refinement, with the liveness of launch), `ThrewMeansClean`, `GoneMeansReleased`, and that the destructor ends (`DestructorReturns`) | finite as it is but for the cloned threads, of which there is one at a time; all four readings of `writeFd` and `tidParsed` |
| `threads` | the nine properties of section 5 and the type invariant | 3 threads that begin at different places of one program with 3 clones, a raised signal, 4 instructions under the breakpoint (two in a row, one behind a clone) and exits; both clients, both readings of `poke` |
| `syscall_single` | `LabelExact`, `FlagExact`, `ReportsOnlyRequested`, `ExitFollowsEntry` of a process with one thread | 2 system calls, 3 made, 3 policy changes: enter under one policy, leave under another, return to the first |
| `breakpoints` | `PendingResolved`, `TrapsOwned`, `ParentsKnown`, `SitesFollowBreakpoint` | 5 addresses in the program, the linker and two libraries; a line found in three objects, and a function with its DWARF entry in one library and symbols elsewhere, which count only when that library is loaded; 3 commands (set, set, delete; set, delete, switch), each library mapped twice, together or apart, heard of or missed: a name is set before and after, resolved half, deleted and met again |
| `stepping` | `TemporaryGone`, `StepMoves`, `StepOverKeepsFrame`, `StepOutReturns` | 17 instructions: a loop with a call; a recursive function with two nested inlined blocks that begin at one address, a call inside a block, another in the middle of a row (so that its return address is in the row too) and a loop to its first instruction; a function without lines; recursion to 3; 2 user sites in each of three states |
| `algorithms` | `RowsStandard`, `LookupCovers`, `UnwindStandard`, `InlineStackExact`, `TransferExact` | line programs of 5 instructions out of 10 and of 4 out of 9, frame programs of 5 out of 13, tables of 7 entries, trees of 7 entries, 4 pages of 4 bytes: two sequences, a remember and restore around a rule, three nested lists, and transfers over a missing page all fit |
| `watchpoint_disable` (violation) | `NoOrphanSlot` fails: `watchpoint::disable` returns when the watchpoint is enabled | |
| `destructor_hang` (violation) | `DestructorAlwaysReturns` fails: resume, stop, destroy waits forever | |
| `syscall_second_stop` (violation) | `CaughtStopsAreEntries` fails: the second stop of a caught call is labelled an exit, where a test requires an entry | |
| `resume_all_throws` (violation) | `ResumeAllSucceeds` fails: a running thread cannot be continued | |

Deadlock checking is off in all of them: every system ends (the process object is
destroyed, the program exits, bounds on creations, calls and policies are
reached), and in `threads` the debugger may wait for threads that never stop.

**Bounds.** `MaxWrite`, `MaxIds`, `MaxId`, `MaxCalls`, `MaxSets`, `MaxCmds`, `MaxLoads`,
`MaxDepth`, `MaxItems` and the finite programs are the only ones; they are constants or operators named in the modules.
ProcessLifetime has one cloned thread at a time; one is enough to hold up the destructor
or to outlive a detach. Everything else is finite in the code.

**Fairness.** ProcessLifetime: weak fairness of the parent inside `launch` and
`attach`, of the child up to `exec`, and of the destructor: these are runnable
processes, blocked only where an action's guard says so. The program and the user
get none; the contract's `ComesBack` and `DestructorReturns` may not rely on them.
ThreadControl: weak fairness of the debugger, of the delivery of a queued SIGSTOP
to a running thread, and of the end of a single step: the kernel guarantees both.
The threads' own progress is not assumed, they may block for ever. The other
modules state no liveness.

## 5. What the checks say

*Threads.* With a careful client (`Careful`: stopping, and `poke = "tid"`): the
breakpoint is in memory between two calls (`SiteRestored`), nobody passes it but
through `step_over_breakpoint` (`PassedOnlyByStepOver`), no instruction under it is
skipped (`NoInstructionSkipped`), no call throws (`CallsSucceed`). All four except
the histories with `window`, in which `step_over_breakpoint` was entered for a
`Stale` thread. The code gets there in two ways. `wait_on_signal` resumes a thread
whose stop it ignores without reading its registers: after a clone the cached `rip` is
that of an earlier stop, so a thread may be stepped over a breakpoint it left long ago,
and over the next one unseen. And an expected SIGSTOP that `wait_on_signal` ignores
leaves `pending_sigstop` set with none queued: the next `step_over_breakpoint`
swallows what will never come, by continuing the thread past the disabled
breakpoint. Each of the four fails without `Careful`: with the command line's own
sequence `resume_all_threads` throws at a running thread, after `bp.disable()` if that
thread's cached program counter is at the breakpoint, and then the breakpoint is gone.
For both clients and both readings: after `stop_running_threads` stopped means stopped
(`StoppedMeansStopped`), no thread runs that `m_Threads` does not know as running
(`NoThreadRunsUnseen`), `target` keeps only dead threads too long
(`ForgottenThreadsAreGone`), and `stop_running_threads` returns unless a thread's
`pending_sigstop` claims a SIGSTOP that does not exist (`StopReturns`).
`TrapReportsSite` holds for both clients when register writes reach their thread.

*Lifetime.* The handshake is sound for every failure of the child once the pipe
has two ends. With both indices 0, as written, `launch` always throws and leaves the write
end open and the child unwaited for (the last conjunct of `ThrewMeansClean`), yet it
terminates. An attach that throws lets its process go.
The destructor can block in two ways, and `DestructorReturns` says that there is no third.
`m_State` may be stale (`StaleRunning`); the violation run drops that exception. And a
thread cloned under `PTRACE_O_TRACECLONE` may hold it up (`HeldByClone`): after
SIGKILL the kernel does not report the end of `m_Pid` before the other threads have been
waited for, which nobody does, so `waitpid` at `process.cpp:270` never returns while a
program with a second thread is destroyed; and the SIGSTOP of line 260 may be taken by the
other thread, whose stop `waitpid(m_Pid)` does not see.
`GoneMeansReleased`: a launched program is gone to its last thread. Of an attached process
the main thread is untraced and not stopped, and so the whole process if it has no thread
cloned since; `PTRACE_DETACH` at line 264 is for `m_Pid` alone, so a cloned thread stays
traced, and stopped if it was, until the debugger itself ends.

*Breakpoints.* As long as no handler throws, a breakpoint has its sites in every
library mapped before the linker's trap was last heard, and they are enabled with it. One
trap heard makes up for all that were missed before: `reload_dynamic_libraries` reads the
whole link map. What the
exceptions of the properties are there for: a constructor that throws leaves sites
whose `m_Parent` dangles (`orphans`); `delete` frees the sites and then disables them
through the breakpoint (`ghost`, and a possible crash); with the vdso's name as written
the first reload throws, the rendezvous address is already set, and neither is tried
again, so a launched program's later libraries are never resolved (`missed`,
`failed`); `m_Elves` never shrinks, and a library mapped again keeps enabled sites
without an int3. Symbols are tried inside the loop over DWARF functions
(`breakpoint.cpp:69`), so a function known only by symbol gets no site. Nothing in
`handle_command` calls `handle_breakpoint_toggle`; it is modelled as the command it is
written to be.

*Stepping.* No temporary site survives a command unless the process is gone. A step
reported as done has moved, or it ran through a prologue and ends there, whatever row
that is (`job.past`). The loop of `step_out` (`target.cpp:223`) never takes a second
turn, because `run_until_address` reports its own stop as a single step: by recursion
`finish` may end in a deeper activation, at the right address. So may `next`, when the
return address of a call is in the row the step began in: the temporary site stops it
inside the call, the loop goes on there, and leaves the row in that activation;
`StepOverKeepsFrame` says that there is no other way to end deeper. Skipping an inlined
block promises nothing, the block may be left elsewhere.
`reset_inline_height` counts the function itself at its first instruction, so that
`finish` there goes to the caller's caller (excepted by `job.top`). `up` and `down` have
no bounds, and `finish` in the outermost frame reads past `m_Frames`. A disabled site
of the user's at the goal is taken for the temporary one, and the program runs on. The
command `step` is `step_instruction` (`kdebugger.cpp:1037` comes before `1072`), so
`step_in` is reached by other callers only.

*Algorithms.* Line programs: rows are the standard's, but `advance_line` and
`set_column` are errors, `set_file` writes the column, the operand of `set_isa` is
executed, and `advance_pc` reads a signed operand (64 to 127 go backwards; `sleb128`
extends the sign of one byte only, `dwarf.cpp:90`). Call frames: the first rule of a
register stays (`emplace`), so a second one and `restore` are lost, and
`DW_CFA_def_cfa_register` has no case, so its operand is executed; programs without
these unwind to the standard's registers at every pc. Entries: the walk and the index
are exact; an inlined block under a lexical block is not found. Memory: a read that
meets a missing page returns zeros for the rest, without an error unless nothing was
read; a write whose last word reaches into a missing page fails after the words
before it were written.

*Memory under sites.* `write_memory` stores over an enabled site's int3 without telling
the site: the trap is gone and the saved byte hides the byte written. `stale` keeps
such addresses out of `TrapBytesExact`.

*Catchpoints.* One flag is enough for one thread, whatever policies hide. The test
"Syscall catchpoints work" disagrees with the code on the second stop: it sets one policy
for `write`, resumes twice and requires `syscall_info->entry == true` of both stops
(`tests.cpp:526` and `535`), where the kernel's second stop is the exit of the call and
`augment_stop_reason` (`process.cpp:498`) says so. `LabelExact` is stated with the code and
the kernel, `CaughtStopsAreEntries` with the test; the violation run shows them apart. With two
threads the labels of both may swap (`LabelExact` and `FlagExact` fail there by
the same flag), and a thread still traced under a policy since withdrawn is reported
(`mabye_resume_from_syscall` looks at mode `some` only); the run checks the
single-threaded promise.

## 6. The proofs

Every theorem holds for all values of the constants that satisfy the module's
assumption: any program, any number of threads, addresses, slots, blocks. They are of
the form `Spec => []Property` for a property that a run checks, unless noted.

| module | theorems |
|---|---|
| `StoppointsProofs` | `TypeCorrect` (`TypeOK`), `TrapBytes` (`TrapBytesExact`), `ProgramBytesRead` (`ReadsProgramBytes`), `SlotBookkeeping` (`SlotsExact`), `CacheFollowsHardware` (`CacheInStep`), `TrapAttribution` (`AttributionExact`) |
| `StoppointIdsProofs` | `IdsFindTheirOwn` (`IdFindsItsOwn`), `AddressesFindTheirOwn` (`AddressFindsItsOwn`) |
| `ProcessLifetimeProofs` | `LifetimeTypes` (`TypeOK`), `ThrewClean` (`ThrewMeansClean`), `GoneReleased` (`GoneMeansReleased`), `KeepsContract`: `ProcessLifetime` implements the safety part of `LifetimeContract` |
| `ThreadControlProofs` | `ThreadTypes` (`TypeOK`), `NoneUnseen` (`NoThreadRunsUnseen`), `ForgottenGone` (`ForgottenThreadsAreGone`), `StoppedIsStopped` (`StoppedMeansStopped`), `TrapsReportTheSite` (`TrapReportsSite`), `SiteIsRestored` (`SiteRestored`), `PassedInStepsOver` (`PassedOnlyByStepOver`), `NothingSkipped` (`NoInstructionSkipped`), `CallsGoThrough` (`CallsSucceed`) |
| `SyscallCatchProofs` | `SyscallTypes` (for any number of threads); for a process with one thread `LabelsExact` (`LabelExact`), `FlagFollowsKernel` (`FlagExact`), `OnlyRequestedReported` (`ReportsOnlyRequested`), `ExitsFollowEntries` (`ExitFollowsEntry`) |
| `BreakpointsProofs` | `BreakpointsInductive` (the inductive invariant itself), `TrapsAreOwned` (`TrapsOwned`), `ParentsAreKnown` (`ParentsKnown`), `SitesFollow` (`SitesFollowBreakpoint`), `PendingAreResolved` (`PendingResolved`) |
| `SourceSteppingProofs` | `TemporaryIsGone` (`TemporaryGone`), `StepsMove` (`StepMoves`), `StepOverKeeps` (`StepOverKeepsFrame`), `StepOutIsExact` (`StepOutReturns`) |
| `AlgorithmsProofs` | `TransferIsExact` (`TransferExact`), `LookupIsCovered` (`LookupCovers`); as facts about the operators: `ReadIsExact`, `WriteIsExact`, `SearchIsExact`, `LookupIsExact` |

Hardly any of these properties is inductive. What each proof adds:

*Stoppoints.* `TypeOK` is inductive (one lemma per group of actions, one step per
action), and `TrapBytesExact` is inductive relative to it. `SlotsExact` is not:
`find_free_stoppoint_region` looks at the *cached* dr7, so a step from a state
whose cache differs from the hardware could give an owned slot away; and deleting
a watchpoint leaks a slot, which a site must not own at the same time, or
clearing the site would leave a leaked slot disarmed. `SlotInv` adds both
(`CacheInStep`). Its proof rests on lemmas about untainted steps: a set fills a
free slot, a clear empties one, a call that throws changes at most the address of
a free slot. `SlotExact(i)` is the invariant of one slot; `SlotKept` carries it over
a step that leaves the slot's owners, control field and armed address alone, so that
each action is left with the one slot it touches.

*Ids.* A first match is exact where matches are unique. `IdsInv`: counted ids lie in
`1 .. counter`, no two stoppoints share one, sites and watchpoints share no address;
deleting from the middle shifts positions and keeps all three.

*Lifetime.* `LifeInv` has four parts beside the types. `ChildInv` ties the child's progress to the
parent's place in `launch`. `PipeInv` says who still holds which end and where a message
can be: the parent reads end of file only from a child that executed the program, and a
child that failed is dead or has written; with both indices 0, what is left open. `CloneInv`
says when there can be a cloned thread: only of a program that runs under a started process,
so that none is left once a launched program was reaped. `TraceInv` says that an attached process is
traced from the first wait to `PTRACE_DETACH` and runs only while `m_State` says so.
`KeepsContract` then maps each action to a step of the contract or a stutter.

*Threads.* `ThreadInv` (`CtlInv`, `KernInv`, `SeenInv`, `TrapAhead`, `SigInv`,
`BookInv`) relates the debugger's tables to the kernel's: which place of which loop
knows what, that a thread outside `m_Threads` has not been resumed or is gone, and that
a SIGSTOP is queued, on its way or remembered. `SiteInv` adds, for register writes that
reach their thread, that a trap is collected where its site can be found (`TrapInv`),
and for a careful client without `window` that `resume_all_threads` finds every thread
stopped and the site is out of memory exactly during a step over (`CarefulInv`).
`CodeInv` carries `NoInstructionSkipped` along: instructions behind a thread's `rip`
were passed.

*Catchpoints.* The theorems about labels assume a single thread (`Tids = {One}`), as the
run does, because with two the one flag `expecting_syscall_exit` makes them false
(section 5). `OneInv` says that the flag and the last report agree with the kernel
through stops the policy hides, signals and a policy changed in between.

*Stepping.* `StepInv`. The traps are those of the enabled sites and of the temporary
one, which exists only while the program runs (`TrapsInv`). A run of `step_in` goes to
the end of a prologue (`MovesInv`). A run over a call is before it, inside it, or back
at the site, and the call was made at or below the command's own activation or while
such a call is open (`OverInv`); a single step of `step_over` executes no call, because
`m_InlineHeight` stays within the blocks at the pc (`HeightBounds`). A run of `step_out`
cannot pass the return address of the activation it began in (`OutInv`), and
`frames()[height + 1]` is that address (`CallerFrame`). The frames are built by the
recursive function of `FlattenSeq`; the three facts about it that `CallerFrame` needs
(`FoldExists`, `FoldKeeps`, `FlattenTwo`) are proved by minimal counterexample, since
an induction theorem cannot be instantiated.

*Breakpoints.* A handler is a composition of loops, each turn of which may throw, and an
action is a whole handler; so the invariants are stated of the debugger's record `s` and
carried through every turn. `Inductive` has three layers.
`Sound` holds through every error: a pointer in a breakpoint's collection is to a site
that was built for it, freed or not, no two sites of the process share an address and no
two breakpoints an identity (`Linked`); a parent that has not thrown lists its site
(`Parented`); int3 bytes and enabled sites match, and one that does not match is in a
library that was mapped twice or is not mapped (`Trapped`, `Covered`). Without `Linked` a
stale pointer could switch the site of another breakpoint, and `RemoveByAddress` could
free another site than the one it was called for.
`Follows` and `Resolved` hold while no error is on its way: resolved means in all of
`m_Elves`, and the last conjunct says that `m_Elves` has every mapped object but those in
`missed`, which together is `PendingResolved`; for that the entry breakpoint, `r_brk`'s
and a reload are followed through `NotifyHit`.
The loops are recursive functions on the turns. `LoopExists` (there is such a function,
and it stays within what each turn keeps) and `LoopKeeps` are proved once, by minimal
counterexample, and used for `ForEach` over sites, addresses, the link map and the
breakpoints, and for `FlattenSeq`. A turn's effect is a relation between two records
(`Switched`, `Erased`, `Listed`, `Grown`, ...), so that a lemma about one step
(`SwitchKeeps`, `AddKeeps`, `RemoveKeeps`, ...) serves every handler that takes it. The
assumption on the constants says what an address, an object and a lookup are: finitely
many objects, each address in one of them, the main program, the linker and the vdso
distinct, the entry point in the first, `r_brk` in the second.
The proof changed the model once. `PendingResolved` used to ask for the addresses that the
lookup finds in all mapped objects and to except those that lie in a missed one. With
two libraries that is false, as TLC confirmed: the DWARF entry of a function in a missed
library makes its symbol in another one count (`breakpoint.cpp:69`), and the target
cannot know of the entry. Now the lookup is over the objects that were not missed, and
`missed` is no longer read off `m_Elves` but says what the target has been told.

*Algorithms.* Here the theorems are about operators, and the properties of the run follow
from them for the inputs that `MCAlgorithms` grows (`InputsGrow`). A recursive function is
the `CHOOSE` of a function that satisfies its equation, so each proof first gives one that
does, and then shows by a smallest counterexample that it has no other values.
`read_memory` moves up to the first byte that is missing (`UpTo`): no byte of a piece is on
another page than its first (`SamePage`), so a piece is there or it is not (`PieceMoves`).
`AfterWords` is memory after k turns of `write_memory`; that the bytes behind the data are
written back as they were needs the read of the last word to be whole (`WordWritten`).
The search comes to `Split` between any `low` and `high`, the number of entries at or below
the pc cut off at both ends, which also holds where `mid - 1` would leave the table. For
the lookup, addresses rise within a sequence (`AddressesRise`) and at most one sequence
covers an address (`OneCovers`), so the only hit of `get_entry_by_address` is the last
covering row (`HitCovers`, `LastIsHit`, `NoEarlierHit`). That the rows of every program are
a table at all is `RowsAreTable`, one case per opcode.
For these proofs the loops of `Rows`, `Search`, `Moved` and `WriteMemory` are recursive
functions of one argument.

The inductive invariants were checked by TLC on the runs' instances before they were
proved.

Only model-checked:

* liveness under fairness: `ComesBack` (of the contract), `DestructorReturns`,
  `StopReturns`, which are out of the prover's reach;
* `RowsStandard`, `UnwindStandard` beyond the search of the table, and `InlineStackExact`.
  Each compares a loop over a program or a tree with a definition by sums, last members
  and depths over the whole of it; the facts about those folds that the proof would need
  are inductions over data, each of which must be done by hand as above.

## 7. Not modelled, and why

* Text: command parsing, printing, disassembly. No state, no ordering.
* System call and register tables: generated data.
* `dwarf` and `elf` beyond the algorithms: headers, abbreviations, attribute forms,
  sections and symbols are the layout of a file that is read once. `dwarf_expression::eval`
  (`dwarf.cpp:1440`) falls off its end without a result on every path.
  `get_symbol_containing_address` (`elf.cpp:192`) never steps back from `lower_bound` and
  dereferences `end()`; what it returns then has no meaning to model.
* `types`: adding and subtracting a load bias; addresses are opaque here.
* `get_entries_by_line` compares the file and not the line (`dwarf.cpp:929`); `Found` stands
  for what it returns.
* `watchpoint::update_data`, `pipe::release_*`, `registers` beyond the question which
  thread a write reaches.
* Reads of more than `IOV_MAX` pages, which `process_vm_readv` refuses as a whole
  (`process.cpp:366`).
* The end of a program whose threads are alive, by `exit_group` or SIGKILL, while ThreadControl's
  commands run: its main thread joins the others before it exits, which is why
  `stop_running_threads` never waits for a main thread with threads unwaited for.
  ProcessLifetime has such an end, with one other thread.
* Threads that an attached process had before: `attach` attaches to one.
* A line program whose last instruction emits no row (`dwarf.cpp:781`): the loop of
  `operator++` reads past the data.
* Operands of call frame instructions beyond one byte of LEB128; `advance_loc2` and
  `advance_loc4` have their two and four.
* Sites left in memory by a detach: the destructor makes no call about them.
* `target::attach` opens `/proc` instead of the program's file (`target.cpp:57`); the
  breakpoints module takes it to open the program.

## 8. Plan

Done: all modules of section 3, and the proofs of section 6. What is left is named above:
`RowsStandard` first, whose loop is shown to keep its types (`ExecuteIsState`) but not yet
to keep the sums and last members of `StandardRow`.
