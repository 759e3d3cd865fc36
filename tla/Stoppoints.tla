------------------------------ MODULE Stoppoints ------------------------------
(***************************************************************************)
(* Breakpoint sites and watchpoints of one traced process, the bytes of    *)
(* the tracee they patch and the debug registers they occupy.              *)
(*                                                                         *)
(* The tracee is stopped while these operations run.  One action is one    *)
(* call of the public interface of process, breakpoint_site, watchpoint or *)
(* stoppoint_collection; a call that throws with no effect is no step, a   *)
(* call that throws after part of its work is a step with that part.       *)
(* Sites and watchpoints are named by address: create_breakpoint_site and  *)
(* create_watchpoint refuse a second one at an address, and site ids are   *)
(* never initialised, so a lookup by id picks any of them (see             *)
(* StoppointIds).                                                          *)
(***************************************************************************)
EXTENDS Integers, FiniteSets

CONSTANTS
  Addr,       \* addresses; 0 is what a cleared debug register holds
  Mapped,     \* the addresses the tracee has mapped
  Byte,       \* byte values
  INT3,       \* the trap opcode, 0xcc
  NumSlots,   \* debug address registers, 4 on x86
  WatchKinds, \* the [mode, size] a user may ask a watchpoint for
  MaxWrite,   \* longest write_memory considered, at most a word
  Threads,    \* keys of m_Threads
  Pid         \* the main thread, m_Pid

ASSUME AddrAssumption ==
  /\ Addr \subseteq Nat \ {0}
  /\ Mapped \subseteq Nat

ASSUME ByteAssumption ==
  /\ Byte \subseteq Nat
  /\ 0 \in Byte
  /\ INT3 \in Byte

ASSUME SlotsAssumption == NumSlots \in Nat \ {0} /\ MaxWrite \in 1 .. 8

ASSUME ThreadsAssumption == Pid \in Threads

Modes == {"write", "read_write", "execute"}

ASSUME KindsAssumption ==
  WatchKinds \subseteq [mode : Modes, size : Nat \ {0}]

VARIABLES
  mem,       \* the tracee's bytes
  prog,      \* history: the bytes the program and the user meant to be there
  siteKind,  \* "none", "sw" or "hw": the site at an address
  siteOn,    \* breakpoint_site::m_isEnabled
  saved,     \* breakpoint_site::m_SavedData
  siteSlot,  \* breakpoint_site::m_HardwareRegisterIndex
  watch,     \* the [mode, size] of the watchpoint at an address, or Off
  watchOn,   \* watchpoint::m_isEnabled
  watchSlot, \* watchpoint::m_HardwareRegisterIndex
  cur,       \* m_CurrentThread
  dr,        \* per thread, the cached dr0..dr3 (thread_state::regs)
  dr7,       \* per thread, the cached control register, one field per slot
  hwDr,      \* dr0..dr3 the kernel holds for Pid
  hwDr7,     \* dr7 the kernel holds for Pid
  stale,     \* history: addresses written over an enabled software site
  leaked,    \* history: slots whose watchpoint was removed while armed
  taint      \* history: what has put the debug registers out of step

byteVars == <<mem, prog, stale>>
siteVars == <<siteKind, siteOn, saved, siteSlot>>
watchVars == <<watch, watchOn, watchSlot>>
regVars == <<dr, dr7, hwDr, hwDr7, taint>>
vars == <<byteVars, siteVars, watchVars, regVars, cur, leaked>>

Slots == 0 .. NumSlots - 1

(* A dr7 field: Off has both enable bits clear. *)
Off == [mode |-> "off", size |-> 0]
Exec1 == [mode |-> "execute", size |-> 1]
Fields == [mode : Modes, size : Nat \ {0}] \union {Off}

EncodableSizes == {1, 2, 4, 8}

(* The kernel refuses a dr7 with an execute field longer than one byte. *)
KernelAccepts(control) ==
  \A i \in Slots : control[i].mode = "execute" => control[i].size = 1

-------------------------------------------------------------------------------

Init ==
  /\ mem \in [Addr -> Byte]
  /\ prog = mem
  /\ stale = {}
  /\ siteKind = [a \in Addr |-> "none"]
  /\ siteOn = [a \in Addr |-> FALSE]
  /\ saved = [a \in Addr |-> 0]
  /\ siteSlot = [a \in Addr |-> -1]
  /\ watch = [a \in Addr |-> Off]
  /\ watchOn = [a \in Addr |-> FALSE]
  /\ watchSlot = [a \in Addr |-> -1]
  /\ cur = Pid
  /\ dr = [t \in Threads |-> [i \in Slots |-> 0]]
  /\ dr7 = [t \in Threads |-> [i \in Slots |-> Off]]
  /\ hwDr = [i \in Slots |-> 0]
  /\ hwDr7 = [i \in Slots |-> Off]
  /\ leaked = {}
  /\ taint = {}

-------------------------------------------------------------------------------
(* Debug registers.  registers::write updates the cached copy of the thread *)
(* it is called on and then pokes the user area; write_user_area pokes      *)
(* m_Pid whatever thread it is given.                                       *)

(* Fault variant of IsFreeSlot: dr7 is not looked at. *)
FirstSlot(i) == i = 0

(* find_free_stoppoint_region on the current thread's cached dr7. *)
IsFreeSlot(i) ==
  /\ dr7[cur][i] = Off
  /\ \A j \in Slots : j < i => dr7[cur][j] # Off

ForeignTaint == IF cur = Pid THEN {} ELSE {"foreign"}

(* The first write_by_id: one address register, current thread only. *)
WriteAddress(i, a) ==
  /\ dr' = [dr EXCEPT ![cur][i] = a]
  /\ hwDr' = [hwDr EXCEPT ![i] = a]

(* The dr7 write and the copy to the other threads, all poked into Pid. *)
WriteControl(i, a, control) ==
  /\ KernelAccepts(control)
  /\ dr' = [t \in Threads |-> [dr[t] EXCEPT ![i] = a]]
  /\ dr7' = [t \in Threads |-> control]
  /\ hwDr' = [hwDr EXCEPT ![i] = a]
  /\ hwDr7' = control
  /\ taint' = taint \union ForeignTaint

(* PTRACE_POKEUSER of dr7 fails: the cached dr7 is already overwritten. *)
ControlRefused(i, a, control) ==
  /\ ~KernelAccepts(control)
  /\ WriteAddress(i, a)
  /\ dr7' = [dr7 EXCEPT ![cur] = control]
  /\ taint' = taint \union ForeignTaint \union {"refused"}
  /\ UNCHANGED hwDr7

(* set_hardware_stoppoint returning slot i. *)
SetStoppoint(i, a, kind) ==
  /\ IsFreeSlot(i)
  /\ kind.size \in EncodableSizes
  /\ WriteControl(i, a, [dr7[cur] EXCEPT ![i] = kind])

(* set_hardware_stoppoint throwing after the address register was written. *)
SetStoppointThrows(a, kind) ==
  \E i \in Slots :
    /\ IsFreeSlot(i)
    /\ \/ /\ kind.size \notin EncodableSizes
          /\ WriteAddress(i, a)
          /\ taint' = taint \union ForeignTaint
          /\ UNCHANGED <<dr7, hwDr7>>
       \/ /\ kind.size \in EncodableSizes
          /\ ControlRefused(i, a, [dr7[cur] EXCEPT ![i] = kind])

(* clear_hardware_stoppoint(i) for a slot in range. *)
ClearStoppoint(i) == WriteControl(i, 0, [dr7[cur] EXCEPT ![i] = Off])

ClearStoppointThrows(i) == ControlRefused(i, 0, [dr7[cur] EXCEPT ![i] = Off])

(* clear_hardware_stoppoint(-1): the register before dr0 (xmm15) is zeroed *)
(* and the masks are shifted by a negative count, which is undefined: x86  *)
(* wraps the count and clears the length bits of the last slot.            *)
LastSizeCleared(control) ==
  IF control[NumSlots - 1] = Off THEN control
  ELSE [control EXCEPT ![NumSlots - 1].size = 1]

ClearNegative ==
  \E control \in {dr7[cur], LastSizeCleared(dr7[cur])} :
    /\ KernelAccepts(control)
    /\ dr7' = [t \in Threads |-> control]
    /\ hwDr7' = control
    /\ taint' = taint \union {"negative"}
    /\ UNCHANGED <<dr, hwDr>>

ClearNegativeThrows ==
  \E control \in {dr7[cur], LastSizeCleared(dr7[cur])} :
    /\ ~KernelAccepts(control)
    /\ dr7' = [dr7 EXCEPT ![cur] = control]
    /\ taint' = taint \union {"negative", "refused"}
    /\ UNCHANGED <<dr, hwDr, hwDr7>>

-------------------------------------------------------------------------------
(* Breakpoint sites. *)

(* process::create_breakpoint_site; fields start as the constructor leaves *)
(* them. *)
CreateSite(a, kind) ==
  /\ siteKind[a] = "none"
  /\ siteKind' = [siteKind EXCEPT ![a] = kind]
  /\ siteOn' = [siteOn EXCEPT ![a] = FALSE]
  /\ saved' = [saved EXCEPT ![a] = 0]
  /\ siteSlot' = [siteSlot EXCEPT ![a] = -1]
  /\ UNCHANGED <<byteVars, watchVars, regVars, cur, leaked>>

(* PTRACE_PEEKDATA and PTRACE_POKEDATA move the eight bytes from an        *)
(* address, and fail when one of them is not mapped.                       *)
WordMapped(a) == a .. a + 7 \subseteq Mapped

(* breakpoint_site::enable on a software site: peek, save, poke. *)
EnableSoftwareSite(a) ==
  /\ siteKind[a] = "sw"
  /\ ~siteOn[a]
  /\ WordMapped(a)
  /\ saved' = [saved EXCEPT ![a] = mem[a]]
  /\ mem' = [mem EXCEPT ![a] = INT3]
  /\ siteOn' = [siteOn EXCEPT ![a] = TRUE]
  /\ UNCHANGED <<prog, stale, siteKind, siteSlot, watchVars, regVars, cur, leaked>>

(* breakpoint_site::enable on a hardware site. *)
EnableHardwareSite(a) ==
  /\ siteKind[a] = "hw"
  /\ ~siteOn[a]
  /\ \E i \in Slots :
       /\ SetStoppoint(i, a, Exec1)
       /\ siteSlot' = [siteSlot EXCEPT ![a] = i]
  /\ siteOn' = [siteOn EXCEPT ![a] = TRUE]
  /\ UNCHANGED <<byteVars, siteKind, saved, watchVars, cur, leaked>>

EnableHardwareSiteThrows(a) ==
  /\ siteKind[a] = "hw"
  /\ ~siteOn[a]
  /\ SetStoppointThrows(a, Exec1)
  /\ UNCHANGED <<byteVars, siteVars, watchVars, cur, leaked>>

(* breakpoint_site::disable on a software site: the saved byte goes back. *)
DisableSoftwareSite(a) ==
  /\ siteKind[a] = "sw"
  /\ siteOn[a]
  /\ mem' = [mem EXCEPT ![a] = saved[a]]
  /\ siteOn' = [siteOn EXCEPT ![a] = FALSE]
  /\ UNCHANGED <<prog, stale, siteKind, saved, siteSlot, watchVars, regVars, cur, leaked>>

(* Fault variant of DisableHardwareSite: m_HardwareRegisterIndex not reset. *)
DisableHardwareSiteKeepsIndex(a) ==
  /\ siteKind[a] = "hw"
  /\ siteOn[a]
  /\ ClearStoppoint(siteSlot[a])
  /\ siteOn' = [siteOn EXCEPT ![a] = FALSE]
  /\ UNCHANGED <<byteVars, siteKind, saved, siteSlot, watchVars, cur, leaked>>

(* breakpoint_site::disable on a hardware site. *)
DisableHardwareSite(a) ==
  /\ siteKind[a] = "hw"
  /\ siteOn[a]
  /\ ClearStoppoint(siteSlot[a])
  /\ siteSlot' = [siteSlot EXCEPT ![a] = -1]
  /\ siteOn' = [siteOn EXCEPT ![a] = FALSE]
  /\ UNCHANGED <<byteVars, siteKind, saved, watchVars, cur, leaked>>

(* The dr7 write of disable() is refused.  remove_by_id and               *)
(* remove_by_address call disable() first, so they stop here too.         *)
DisableHardwareSiteThrows(a) ==
  /\ siteKind[a] = "hw"
  /\ siteOn[a]
  /\ ClearStoppointThrows(siteSlot[a])
  /\ UNCHANGED <<byteVars, siteVars, watchVars, cur, leaked>>

Erased(a) ==
  /\ siteKind' = [siteKind EXCEPT ![a] = "none"]
  /\ siteOn' = [siteOn EXCEPT ![a] = FALSE]
  /\ saved' = [saved EXCEPT ![a] = 0]
  /\ siteSlot' = [siteSlot EXCEPT ![a] = -1]

(* Fault variant of RemoveSite: erased without disable(). *)
RemoveSiteStillEnabled(a) ==
  /\ siteKind[a] # "none"
  /\ Erased(a)
  /\ UNCHANGED <<byteVars, watchVars, regVars, cur, leaked>>

(* stoppoint_collection::remove_by_id / remove_by_address on a site: *)
(* disable(), then erase. *)
RemoveSite(a) ==
  /\ siteKind[a] # "none"
  /\ Erased(a)
  /\ \/ /\ ~siteOn[a]
        /\ UNCHANGED <<mem, regVars>>
     \/ /\ siteOn[a] /\ siteKind[a] = "sw"
        /\ mem' = [mem EXCEPT ![a] = saved[a]]
        /\ UNCHANGED regVars
     \/ /\ siteOn[a] /\ siteKind[a] = "hw"
        /\ ClearStoppoint(siteSlot[a])
        /\ UNCHANGED mem
  /\ UNCHANGED <<prog, stale, watchVars, cur, leaked>>

-------------------------------------------------------------------------------
(* Watchpoints. *)

(* (address & (size - 1)) # 0 is refused; the mask is compared bit by bit, *)
(* sizes below 2^MaskBits.                                                 *)
MaskBits == 4
Bit(n, k) == (n \div 2^k) % 2
Aligned(a, size) ==
  \A k \in 0 .. MaskBits - 1 : Bit(a, k) = 1 => Bit(size - 1, k) = 0

(* process::create_watchpoint; the constructor reads the watched bytes. *)
CreateWatchpoint(a, kind) ==
  /\ watch[a] = Off
  /\ Aligned(a, kind.size)
  /\ a .. a + kind.size - 1 \subseteq Mapped
  /\ watch' = [watch EXCEPT ![a] = kind]
  /\ watchOn' = [watchOn EXCEPT ![a] = FALSE]
  /\ watchSlot' = [watchSlot EXCEPT ![a] = -1]
  /\ UNCHANGED <<byteVars, siteVars, regVars, cur, leaked>>

(* watchpoint::enable *)
EnableWatchpoint(a) ==
  /\ watch[a] # Off
  /\ ~watchOn[a]
  /\ \E i \in Slots :
       /\ SetStoppoint(i, a, watch[a])
       /\ watchSlot' = [watchSlot EXCEPT ![a] = i]
  /\ watchOn' = [watchOn EXCEPT ![a] = TRUE]
  /\ UNCHANGED <<byteVars, siteVars, watch, cur, leaked>>

EnableWatchpointThrows(a) ==
  /\ watch[a] # Off
  /\ ~watchOn[a]
  /\ SetStoppointThrows(a, watch[a])
  /\ UNCHANGED <<byteVars, siteVars, watchVars, cur, leaked>>

(* watchpoint::disable: its guard returns when the watchpoint IS enabled, *)
(* so only a disabled one reaches clear_hardware_stoppoint, and a         *)
(* disabled one never had a slot. *)
DisableWatchpoint(a) ==
  /\ watch[a] # Off
  /\ ~watchOn[a]
  /\ \/ ClearNegative
     \/ ClearNegativeThrows
  /\ UNCHANGED <<byteVars, siteVars, watchVars, cur, leaked>>

(* stoppoint_collection::remove_* on a watchpoint: disable(), then erase. *)
RemoveWatchpoint(a) ==
  /\ watch[a] # Off
  /\ watch' = [watch EXCEPT ![a] = Off]
  /\ watchOn' = [watchOn EXCEPT ![a] = FALSE]
  /\ watchSlot' = [watchSlot EXCEPT ![a] = -1]
  /\ \/ /\ watchOn[a]
        /\ leaked' = leaked \union {watchSlot[a]}
        /\ UNCHANGED regVars
     \/ /\ ~watchOn[a]
        /\ ClearNegative
        /\ UNCHANGED leaked
  /\ UNCHANGED <<byteVars, siteVars, cur>>

-------------------------------------------------------------------------------
(* Memory, threads, stops. *)

EnabledSoftware(a) == siteKind[a] = "sw" /\ siteOn[a]

(* One word of process::write_memory, which MemoryStep finds mapped; the   *)
(* tail of a short one is read back first, so exactly the given bytes      *)
(* change.  Breakpoint sites are not consulted.                            *)
WriteMemory(data) ==
  LET region == DOMAIN data
      Over(f) == [a \in Addr |-> IF a \in region THEN data[a] ELSE f[a]]
  IN /\ mem' = Over(mem)
     /\ prog' = Over(prog)
     /\ stale' = (stale \ region) \union {a \in region \intersect Addr : EnabledSoftware(a)}
     /\ UNCHANGED <<siteVars, watchVars, regVars, cur, leaked>>

(* process::set_current_thread, from the thread select command. *)
SelectThread(t) ==
  /\ cur # t
  /\ cur' = t
  /\ UNCHANGED <<byteVars, siteVars, watchVars, regVars, leaked>>

(* Fault variant of StopThread: the debug registers are left unread. *)
StopThreadClearsCache(t) ==
  /\ dr' = [dr EXCEPT ![t] = [i \in Slots |-> 0]]
  /\ dr7' = [dr7 EXCEPT ![t] = [i \in Slots |-> Off]]
  /\ UNCHANGED <<byteVars, siteVars, watchVars, hwDr, hwDr7, taint, cur, leaked>>

(* A stop of thread t: read_all_registers(t) refreshes the cached debug    *)
(* registers.  Only Pid's were ever poked.                                 *)
StopThread(t) ==
  /\ dr' = [dr EXCEPT ![t] = IF t = Pid THEN hwDr ELSE [i \in Slots |-> 0]]
  /\ dr7' = [dr7 EXCEPT ![t] = IF t = Pid THEN hwDr7 ELSE [i \in Slots |-> Off]]
  /\ UNCHANGED <<byteVars, siteVars, watchVars, hwDr, hwDr7, taint, cur, leaked>>

SiteStep(a) ==
  \/ \E kind \in {"sw", "hw"} : CreateSite(a, kind)
  \/ EnableSoftwareSite(a)
  \/ EnableHardwareSite(a)
  \/ EnableHardwareSiteThrows(a)
  \/ DisableSoftwareSite(a)
  \/ DisableHardwareSite(a)
  \/ DisableHardwareSiteThrows(a)
  \/ RemoveSite(a)

WatchStep(a) ==
  \/ \E kind \in WatchKinds : CreateWatchpoint(a, kind)
  \/ EnableWatchpoint(a)
  \/ EnableWatchpointThrows(a)
  \/ DisableWatchpoint(a)
  \/ RemoveWatchpoint(a)

MemoryStep ==
  \E a \in Addr, n \in 1 .. MaxWrite :
    /\ WordMapped(a)
    /\ \E data \in [a .. a + n - 1 -> Byte] : WriteMemory(data)

Next ==
  \/ \E a \in Addr : SiteStep(a) \/ WatchStep(a)
  \/ MemoryStep
  \/ \E t \in Threads : SelectThread(t) \/ StopThread(t)

Spec == Init /\ [][Next]_vars

-------------------------------------------------------------------------------
(* What a reader of the tracee sees. *)

(* Fault variant of ReadWithoutTraps: disabled sites are patched too. *)
ReadPatchesAllSites(a) == IF siteKind[a] = "sw" THEN saved[a] ELSE mem[a]

(* process::read_memory_without_traps, byte a of a region that holds it. *)
ReadWithoutTraps(a) == IF EnabledSoftware(a) THEN saved[a] ELSE mem[a]

(* Fault variant of HardwareStoppointAt: watchpoints are looked up first. *)
WatchpointsFirst(i) ==
  LET a == hwDr[i]
  IN IF a \in Addr /\ watch[a] # Off THEN <<"watch", a>>
     ELSE IF a \in Addr /\ siteKind[a] # "none" THEN <<"site", a>>
     ELSE <<"error", a>>

(* process::get_current_hardware_stoppoint for slot i of Pid: sites are    *)
(* looked up before watchpoints; "error" is get_by_address throwing.       *)
HardwareStoppointAt(i) ==
  LET a == hwDr[i]
  IN IF a \in Addr /\ siteKind[a] # "none" THEN <<"site", a>>
     ELSE IF a \in Addr /\ watch[a] # Off THEN <<"watch", a>>
     ELSE <<"error", a>>

-------------------------------------------------------------------------------
(* Properties. *)

BytesOK ==
  /\ mem \in [Addr -> Byte]
  /\ prog \in [Addr -> Byte]
  /\ stale \subseteq Addr

SitesOK ==
  /\ siteKind \in [Addr -> {"none", "sw", "hw"}]
  /\ siteOn \in [Addr -> BOOLEAN]
  /\ saved \in [Addr -> Byte]
  /\ siteSlot \in [Addr -> Slots \union {-1}]
  /\ \A a \in Addr : siteKind[a] = "none" => ~siteOn[a]
  /\ \A a \in Addr : (siteKind[a] = "hw" /\ siteOn[a]) <=> siteSlot[a] # -1

WatchesOK ==
  /\ watch \in [Addr -> WatchKinds \union {Off}]
  /\ watchOn \in [Addr -> BOOLEAN]
  /\ watchSlot \in [Addr -> Slots \union {-1}]
  /\ \A a \in Addr : watchOn[a] <=> watchSlot[a] # -1
  /\ \A a \in Addr : watch[a] = Off => ~watchOn[a]

RegsOK ==
  /\ dr \in [Threads -> [Slots -> Addr \union {0}]]
  /\ dr7 \in [Threads -> [Slots -> Fields]]
  /\ hwDr \in [Slots -> Addr \union {0}]
  /\ hwDr7 \in [Slots -> Fields]
  /\ taint \subseteq {"foreign", "refused", "negative"}

(* Type correctness of the bytes, sites, watchpoints and registers; a site *)
(* or watchpoint has a slot index exactly while it is armed in hardware.   *)
TypeOK ==
  /\ BytesOK
  /\ SitesOK
  /\ WatchesOK
  /\ RegsOK
  /\ cur \in Threads
  /\ leaked \subseteq Slots

(* Whatever sequence of create, enable, disable, remove and write_memory   *)
(* calls ran, an address never written over an enabled site holds int3     *)
(* with the program's byte saved while its software site is enabled, and   *)
(* the program's byte otherwise (breakpoint_site::enable / disable).       *)
TrapBytesExact ==
  \A a \in Addr \ stale :
    IF EnabledSoftware(a) THEN mem[a] = INT3 /\ saved[a] = prog[a]
    ELSE mem[a] = prog[a]

(* read_memory_without_traps returns the program's bytes, whatever sites   *)
(* are planted.                                                            *)
ReadsProgramBytes ==
  \A a \in Addr \ stale : ReadWithoutTraps(a) = prog[a]

SiteOwns(a, i) == siteSlot[a] = i
WatchOwns(a, i) == watchSlot[a] = i

SlotExact(i) ==
  /\ \A a, b \in Addr :
       /\ SiteOwns(a, i) /\ SiteOwns(b, i) => a = b
       /\ WatchOwns(a, i) /\ WatchOwns(b, i) => a = b
       /\ ~(SiteOwns(a, i) /\ WatchOwns(b, i))
  /\ \A a \in Addr :
       /\ SiteOwns(a, i) => hwDr[i] = a /\ hwDr7[i] = Exec1
       /\ WatchOwns(a, i) => hwDr[i] = a /\ hwDr7[i] = watch[a]
  /\ hwDr7[i] # Off <=>
       \/ i \in leaked
       \/ \E a \in Addr : SiteOwns(a, i) \/ WatchOwns(a, i)

(* No slot has two owners, an owned slot is armed in the main thread with  *)
(* its owner's address, mode and size, and an armed slot is owned or was   *)
(* leaked by remove_by_*: as long as no stoppoint was set or cleared from  *)
(* another thread, no dr7 write was refused, and no watchpoint that was    *)
(* never armed was disabled (set_hardware_stoppoint,                       *)
(* clear_hardware_stoppoint).                                              *)
SlotsExact == taint = {} => \A i \in Slots : SlotExact(i)

(* A trap from an armed slot is attributed to its owner: always for a      *)
(* hardware site, and for a watchpoint unless some site, enabled or not,   *)
(* sits at the same address (get_current_hardware_stoppoint).              *)
AttributionExact ==
  taint = {} =>
    \A i \in Slots, a \in Addr :
      /\ SiteOwns(a, i) => HardwareStoppointAt(i) = <<"site", a>>
      /\ WatchOwns(a, i) /\ siteKind[a] = "none" =>
           HardwareStoppointAt(i) = <<"watch", a>>

(* The inductive strengthening of SlotsExact: the cached registers of the  *)
(* main thread, which find_free_stoppoint_region reads, agree with the     *)
(* hardware, and a leaked slot has no owner that could free it.            *)
CacheInStep ==
  taint = {} =>
    /\ dr[Pid] = hwDr
    /\ dr7[Pid] = hwDr7
    /\ \A i \in leaked, a \in Addr : ~SiteOwns(a, i) /\ ~WatchOwns(a, i)

-------------------------------------------------------------------------------
(* What the repository says and the code does not do. *)

(* watchpoint.hpp: disable() "disables a given watchpoint"; remove_by_id   *)
(* calls it first, so no debug register should stay armed without an       *)
(* enabled stoppoint behind it.                                            *)
NoOrphanSlot ==
  \A i \in Slots :
    hwDr7[i] # Off => \E a \in Addr : SiteOwns(a, i) \/ WatchOwns(a, i)
===============================================================================
