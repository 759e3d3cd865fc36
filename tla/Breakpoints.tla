------------------------------ MODULE Breakpoints ------------------------------
(***************************************************************************)
(* The breakpoints of a target and the sites they own in the process: the  *)
(* creation of sites by resolve, their enabling, the deletion of either,   *)
(* and the dynamic linker's rendezvous, through which breakpoints are      *)
(* resolved again in libraries that the program loads later.               *)
(*                                                                         *)
(* A handler here is a sequence of loops any step of which may throw, so   *)
(* the debugger's state is one record and the handlers are functions of    *)
(* it; err says that an error is on its way to the command loop.  Objects  *)
(* on the heap are numbered: a freed site keeps its fields until an access *)
(* through a stale pointer finds them (or crashes).                        *)
(***************************************************************************)
EXTENDS Integers, SequencesExt

CONSTANTS
  Addr, Elf,      \* code addresses; the main program, libraries, vdso
  Home,           \* [Addr -> Elf], the object an address lies in
  Main, Linker, Vdso,
  Entry, RBrk,    \* the program's entry point; the linker's r_brk
  Given,          \* addresses the user names in a command
  Names,          \* functions and lines the user may break on
  Found,          \* [Names -> what the lookup finds, see Addresses]
  VdsoNames,      \* of "written" and "repaired": the name target.cpp:355 compares
  MaxCmds, MaxLoads  \* bounds: commands of the user, mappings of a library

ASSUME BreakpointsAssumption ==
  /\ Home \in [Addr -> Elf]
  /\ {Main, Linker, Vdso} \subseteq Elf /\ Main # Linker /\ Vdso \notin {Main, Linker}
  /\ {Entry, RBrk} \subseteq Addr /\ Home[Entry] = Main /\ Home[RBrk] = Linker
  /\ IsFiniteSet(Elf) /\ Given \subseteq Addr
  /\ \A n \in Names : /\ Found[n].kind \in {"line", "function"}
                       /\ Found[n].dwarf \in [Elf -> Seq(Addr)]
                       /\ Found[n].symbols \in [Elf -> Seq(Addr)]
  /\ VdsoNames \subseteq {"written", "repaired"}
  /\ MaxCmds \in Nat /\ MaxLoads \in Nat

VARIABLES
  st,       \* the debugger and the tracee's memory, see Fresh
  vdso,     \* the reading of target.cpp:355, fixed by Init
  cmds,     \* commands given so far
  loads,    \* how often each library was mapped
  failed,   \* some handler threw; history
  orphans,  \* breakpoints whose constructor threw; history
  missed,   \* objects mapped since a trap of the target's was last heard; history
  toggled,  \* sites switched one by one since their breakpoint was; history
  crashed   \* freed memory was used and the debugger died of it

vars == <<st, vdso, cmds, loads, failed, orphans, missed, toggled, crashed>>

-------------------------------------------------------------------------------
(* The pieces of the handlers. *)

(* Before anything is set.  elves is m_Elves, bps target::m_Breakpoints,   *)
(* obj every site ever built, owned those in process::m_BreakPointSites,   *)
(* traps the int3 bytes in memory, rdv dynamic_linker_rendezvous_address,  *)
(* hot that a freed object was used, ghost the addresses where one was     *)
(* switched.                                                               *)
Fresh == [elves |-> <<Main>>, mapped |-> {Main, Linker, Vdso}, bps |-> <<>>,
          obj |-> <<>>, owned |-> {}, traps |-> {}, rdv |-> FALSE,
          uid |-> 0, id |-> 0, err |-> FALSE, hot |-> FALSE, ghost |-> {}]

(* for_each, cut short by an error. *)
ForEach(s, xs, Op(_, _)) ==
  LET after[n \in 0 .. Len(xs)] ==
        IF n = 0 THEN s
        ELSE LET t == after[n - 1] IN IF t.err THEN t ELSE Op(t, xs[n])
  IN  after[Len(xs)]

SitesAt(s, a) == {o \in s.owned : s.obj[o].addr = a}

Touch(s, os) == [s EXCEPT !.hot = @ \/ ~(os \subseteq s.owned)]

(* Fault variant of CreateSite: a second site at an address is let in. *)
CreateSiteUnchecked(s, a, parent) ==
  [s EXCEPT !.obj = Append(@, [addr |-> a, parent |-> parent, on |-> FALSE]),
            !.owned = @ \cup {Len(s.obj) + 1}]

(* process::create_breakpoint_site. *)
CreateSite(s, a, parent) ==
  IF SitesAt(s, a) # {} THEN [s EXCEPT !.err = TRUE]
  ELSE [s EXCEPT !.obj = Append(@, [addr |-> a, parent |-> parent, on |-> FALSE]),
                 !.owned = @ \cup {Len(s.obj) + 1}]

(* breakpoint_site::enable and disable; ptrace fails in unmapped memory. *)
Switch(s, o, on) ==
  LET a == s.obj[o].addr
      t == Touch(s, {o})
  IN  CASE s.obj[o].on = on -> t
        [] s.obj[o].on # on /\ Home[a] \notin s.mapped -> [t EXCEPT !.err = TRUE]
        [] OTHER -> [t EXCEPT !.obj[o].on = on,
                              !.ghost = IF o \in s.owned THEN @ ELSE @ \cup {a},
                              !.traps = IF on THEN @ \cup {a} ELSE @ \ {a}]

(* breakpoint::enable and disable. *)
SwitchAll(s, i, on) ==
  ForEach([s EXCEPT !.bps[i].on = on], s.bps[i].sites,
          LAMBDA t, o : Switch(t, o, on))

(* target::get_line_entries_by_line. *)
LineEntries(s, f) == FlattenSeq([k \in DOMAIN s.elves |-> f.dwarf[s.elves[k]]])

(* target::find_functions: in every object, by its symbols only where      *)
(* DWARF has none.                                                         *)
FindFunctions(s, f) ==
  LET syms(e) == IF f.dwarf[e] = <<>> THEN f.symbols[e] ELSE <<>>
  IN  [dies |-> FlattenSeq([k \in DOMAIN s.elves |-> f.dwarf[s.elves[k]]]),
       syms |-> FlattenSeq([k \in DOMAIN s.elves |-> syms(s.elves[k])])]

(* What resolve looks at, in its order.  The symbols are tried inside the  *)
(* loop over the DWARF functions (breakpoint.cpp:69), so not at all when   *)
(* there are none.                                                         *)
Addresses(s, spec) ==
  LET found == FindFunctions(s, Found[spec])
  IN  IF Found[spec].kind = "line" THEN LineEntries(s, Found[spec])
      ELSE IF found.dies = <<>> THEN <<>>
      ELSE <<Head(found.dies)>> \o found.syms \o Tail(found.dies)

(* Fault variant of ResolveAt: the new site is left as it was built. *)
ResolveAtDisabled(s, i, a) ==
  LET mine == s.bps[i].sites
      t    == CreateSite(Touch(s, ToSet(mine)), a, s.bps[i].uid)
  IN  IF \E o \in ToSet(mine) : s.obj[o].addr = a THEN Touch(s, ToSet(mine))
      ELSE IF t.err THEN t ELSE [t EXCEPT !.bps[i].sites = Append(@, Len(t.obj))]

(* One address of resolve: nothing if the breakpoint has a site there. *)
ResolveAt(s, i, a) ==
  LET mine == s.bps[i].sites
      t    == CreateSite(Touch(s, ToSet(mine)), a, s.bps[i].uid)
      u    == [t EXCEPT !.bps[i].sites = Append(@, Len(t.obj))]
  IN  IF \E o \in ToSet(mine) : s.obj[o].addr = a THEN Touch(s, ToSet(mine))
      ELSE IF t.err THEN t
      ELSE IF u.bps[i].on THEN Switch(u, Len(u.obj), TRUE) ELSE u

(* The three resolve functions. *)
Resolve(s, i) ==
  LET b == s.bps[i]
  IN  IF b.kind = "address"
      THEN IF b.sites = <<>> THEN ResolveAt(s, i, b.spec) ELSE s
      ELSE ForEach(s, Addresses(s, b.spec), LAMBDA t, a : ResolveAt(t, i, a))

(* target::create_*_breakpoint.  An error in the constructor destroys the  *)
(* breakpoint; the sites it has made stay in the process.                  *)
CreateBreakpoint(s, kind, spec, internal) ==
  LET b == [uid |-> s.uid + 1, id |-> IF internal THEN -1 ELSE s.id + 1,
            kind |-> kind, spec |-> spec, on |-> FALSE, sites |-> <<>>]
      t == Resolve([s EXCEPT !.bps = Append(@, b), !.uid = @ + 1,
                             !.id = IF internal THEN @ ELSE @ + 1],
                   Len(s.bps) + 1)
  IN  IF t.err THEN [t EXCEPT !.bps = s.bps] ELSE t

(* create_*_breakpoint(...).enable() *)
SetAndEnable(s, kind, spec, internal) ==
  LET t == CreateBreakpoint(s, kind, spec, internal)
  IN  IF t.err THEN t ELSE SwitchAll(t, Len(t.bps), TRUE)

(* stoppoint_collection::remove_by_address on the process' sites. *)
RemoveByAddress(s, a) ==
  IF SitesAt(s, a) = {} THEN [s EXCEPT !.hot = TRUE, !.err = TRUE]
  ELSE LET o == CHOOSE o \in SitesAt(s, a) : TRUE
           t == Switch(s, o, FALSE)
       IN  IF t.err THEN t ELSE [t EXCEPT !.owned = @ \ {o}]

(* get_elf_by_path, get_elf_by_filename. *)
IsLoaded(s, e) == e \in ToSet(s.elves)

(* One entry of the link map.  A library whose file cannot be opened is an *)
(* error: the vdso has none, and the name that would have it dumped from   *)
(* memory is misspelt.                                                     *)
LoadElf(s, e) ==
  IF IsLoaded(s, e) THEN s
  ELSE IF e = Vdso /\ vdso = "written" THEN [s EXCEPT !.err = TRUE]
  ELSE [s EXCEPT !.elves = Append(@, e)]

(* The link map: the main program has no name, the vdso comes next. *)
LinkMap(s) == <<Vdso>> \o SetToSeq(s.mapped \ {Main, Vdso})

(* Fault variant of ReloadLibraries: what has a site is taken for resolved. *)
ReloadUnresolved(s) ==
  LET t == ForEach(s, LinkMap(s), LoadElf)
  IN  ForEach(t, [i \in DOMAIN t.bps |-> i],
              LAMBDA u, i : IF u.bps[i].sites = <<>> THEN Resolve(u, i) ELSE u)

(* target::reload_dynamic_libraries. *)
ReloadLibraries(s) ==
  LET t == ForEach(s, LinkMap(s), LoadElf)
  IN  ForEach(t, [i \in DOMAIN t.bps |-> i], Resolve)

(* target::resolve_dynamic_linker_rendezvous. *)
ResolveRendezvous(s) ==
  IF s.rdv THEN s
  ELSE LET t == ReloadLibraries([s EXCEPT !.rdv = TRUE])
       IN  IF t.err THEN t ELSE SetAndEnable(t, "address", RBrk, TRUE)

(* breakpoint::notify_hit: the handlers installed by target. *)
NotifyHit(s, b) ==
  CASE b.kind = "address" /\ b.id = -1 /\ b.spec = Entry -> ResolveRendezvous(s)
    [] b.kind = "address" /\ b.id = -1 /\ b.spec = RBrk  -> ReloadLibraries(s)
    [] OTHER -> s

(* wait_on_signal at a trap: the enabled site's parent is told, through a  *)
(* pointer that is stale when the parent was destroyed.                    *)
HitAt(s, a) ==
  LET os == {o \in SitesAt(s, a) : s.obj[o].on}
      ps == {s.obj[o].parent : o \in os} \ {0}
      is == {i \in DOMAIN s.bps : s.bps[i].uid \in ps}
  IN  IF a \notin s.traps \/ ps = {} THEN s
      ELSE IF is = {} THEN [s EXCEPT !.hot = TRUE]
      ELSE NotifyHit(s, s.bps[CHOOSE i \in is : TRUE])

(* The trap at a is the target's own, of a breakpoint that has a handler. *)
Heard(s, a) ==
  /\ a \in s.traps
  /\ \E o \in SitesAt(s, a), i \in DOMAIN s.bps :
       /\ s.obj[o].on /\ s.bps[i].uid = s.obj[o].parent
       /\ s.bps[i].kind = "address" /\ s.bps[i].id = -1 /\ s.bps[i].spec = a

-------------------------------------------------------------------------------
(* The commands and the program. *)

(* A handler has run: its error reaches main_loop, which prints it; a use  *)
(* of freed memory finds what was left there or ends the debugger.  byHand *)
(* and unheard are the histories toggled and missed.                       *)
Outcome(s, byHand, unheard) ==
  \/ /\ st' = [s EXCEPT !.err = FALSE, !.hot = FALSE]
     /\ failed' = (failed \/ s.err)
     /\ orphans' = orphans \cup
                     {u \in st.uid + 1 .. s.uid : \A i \in DOMAIN s.bps : s.bps[i].uid # u}
     /\ missed' = unheard
     /\ toggled' = byHand
     /\ UNCHANGED crashed
  \/ /\ s.hot
     /\ crashed' = TRUE
     /\ UNCHANGED <<st, failed, orphans, missed, toggled>>

(* A command is read. *)
Command == ~crashed /\ cmds < MaxCmds /\ cmds' = cmds + 1 /\ UNCHANGED <<vdso, loads>>

(* handle_breakpoint_set_command. *)
SetBreakpoint(kind, spec) ==
  /\ Command
  /\ Outcome(SetAndEnable(st, kind, spec, FALSE), toggled, missed)

(* handle_breakpoint_command "set": a site without a parent. *)
SetSite(a) ==
  /\ Command
  /\ LET t == CreateSite(st, a, 0)
     IN  Outcome(IF t.err THEN t ELSE Switch(t, Len(t.obj), TRUE), toggled, missed)

WithId(id) == SelectInSeq(st.bps, LAMBDA b : b.id = id)

(* handle_breakpoint_toggle "enable" and "disable". *)
SwitchBreakpoint(id, on) ==
  /\ Command /\ WithId(id) # 0
  /\ Outcome(SwitchAll(st, WithId(id), on),
             toggled \ ToSet(st.bps[WithId(id)].sites), missed)

(* The same for one site, of a breakpoint or of the process. *)
SwitchSite(o, on) ==
  /\ Command
  /\ o \in st.owned \/ \E i \in DOMAIN st.bps : o \in ToSet(st.bps[i].sites)
  /\ Outcome(Switch(st, o, on), toggled \cup {o}, missed)

(* Fault variant of DeleteAll: only the breakpoint goes. *)
DeleteEntryOnly(s, i) == [s EXCEPT !.bps = RemoveAt(@, i)]

(* handle_breakpoint_toggle "delete": the sites are freed, then the        *)
(* breakpoint, which still points to them, is disabled and erased.         *)
DeleteAll(s, i) ==
  LET t == ForEach(s, s.bps[i].sites,
                   LAMBDA u, o : RemoveByAddress(Touch(u, {o}), u.obj[o].addr))
      v == SwitchAll(t, i, FALSE)
  IN  IF t.err THEN t ELSE IF v.err THEN v ELSE [v EXCEPT !.bps = RemoveAt(@, i)]

DeleteBreakpoint(id) ==
  /\ Command /\ WithId(id) # 0
  /\ Outcome(DeleteAll(st, WithId(id)), toggled, missed)

(* handle_breakpoint_command "delete": the site goes, its parent keeps the *)
(* pointer.                                                                *)
DeleteSite(o) ==
  /\ Command /\ o \in st.owned
  /\ Outcome(RemoveByAddress(st, st.obj[o].addr), toggled, missed)

(* The linker maps or unmaps a library and then calls r_brk. *)
MapLibrary(e) ==
  /\ ~crashed /\ e \in Elf \ st.mapped /\ loads[e] < MaxLoads
  /\ loads' = [loads EXCEPT ![e] = @ + 1]
  /\ Outcome(HitAt([st EXCEPT !.mapped = @ \cup {e}], RBrk), toggled,
             IF Heard(st, RBrk) THEN {} ELSE missed \cup {e})
  /\ UNCHANGED <<vdso, cmds>>

UnmapLibrary(e) ==
  /\ ~crashed /\ e \in st.mapped \ {Main, Linker, Vdso}
  /\ Outcome(HitAt([st EXCEPT !.mapped = @ \ {e},
                              !.traps = {a \in @ : Home[a] # e}], RBrk), toggled,
             IF Heard(st, RBrk) THEN {} ELSE missed)
  /\ UNCHANGED <<vdso, cmds, loads>>

(* The program reaches its entry point, once. *)
ReachEntry ==
  /\ ~crashed /\ loads[Main] = 0
  /\ loads' = [loads EXCEPT ![Main] = 1]
  /\ Outcome(HitAt(st, Entry), toggled,
             IF Heard(st, Entry) /\ ~st.rdv THEN {} ELSE missed)
  /\ UNCHANGED <<vdso, cmds>>

(* The program reaches another address with an enabled site. *)
ReachSite(a) ==
  /\ ~crashed /\ a \in st.traps \ {Entry, RBrk}
  /\ Outcome(HitAt(st, a), toggled, missed)
  /\ UNCHANGED <<vdso, cmds, loads>>

(* target::launch stops before the entry point, target::attach in a        *)
(* program that is running, with some libraries mapped.                    *)
Init ==
  /\ vdso \in VdsoNames
  /\ \/ /\ st = SetAndEnable(Fresh, "address", Entry, TRUE)
        /\ missed = {Linker, Vdso}
        /\ loads = [e \in Elf |-> 0]
     \/ \E libs \in SUBSET (Elf \ Fresh.mapped) :
          /\ st = ResolveRendezvous([Fresh EXCEPT !.mapped = @ \cup libs])
          /\ missed = {}
          /\ loads = [e \in Elf |-> IF e \in libs \cup {Main} THEN 1 ELSE 0]
  /\ ~st.err /\ cmds = 0 /\ failed = FALSE /\ crashed = FALSE
  /\ orphans = {} /\ toggled = {}

Next ==
  \/ \E n \in Names : SetBreakpoint(Found[n].kind, n)
  \/ \E a \in Given : SetBreakpoint("address", a) \/ SetSite(a)
  \/ \E a \in Addr : ReachSite(a)
  \/ \E id \in {-1} \cup 1 .. MaxCmds : \/ \E on \in BOOLEAN : SwitchBreakpoint(id, on)
                                       \/ DeleteBreakpoint(id)
  \/ \E o \in DOMAIN st.obj : (\E on \in BOOLEAN : SwitchSite(o, on)) \/ DeleteSite(o)
  \/ \E e \in Elf : MapLibrary(e) \/ UnmapLibrary(e)
  \/ ReachEntry

Spec == Init /\ [][Next]_vars

-------------------------------------------------------------------------------
(* Properties. *)

(* A breakpoint has a site at every address its name has in the program   *)
(* and in every library, however many came after it was set, as long as    *)
(* the linker's trap was there to tell of them (reload_dynamic_libraries)  *)
(* and no handler threw.                                                   *)
PendingResolved ==
  ~failed =>
    \A i \in DOMAIN st.bps : st.bps[i].kind # "address" =>
      \A a \in ToSet(Addresses([st EXCEPT !.elves = SetToSeq(st.mapped \ missed)],
                             st.bps[i].spec)) :
        \E k \in DOMAIN st.bps[i].sites : st.obj[st.bps[i].sites[k]].addr = a

(* An int3 in memory is that of an enabled site of the process, and an     *)
(* enabled site has its int3, whatever the order of set, enable, disable   *)
(* and delete on breakpoints and on sites; excepted are addresses where a  *)
(* freed site was switched through the pointer its breakpoint kept, and    *)
(* libraries that were unmapped under an enabled site.                     *)
TrapsOwned ==
  \A a \in Addr \ st.ghost :
    LET on == \E o \in SitesAt(st, a) : st.obj[o].on
    IN  /\ a \in st.traps => on
        /\ on => a \in st.traps \/ loads[Home[a]] > 1 \/ Home[a] \notin st.mapped

(* A site's parent is a breakpoint of the target that lists the site, so   *)
(* that notify_hit has something to call, except for the sites left behind *)
(* by a constructor that threw half way through resolve.                   *)
ParentsKnown ==
  \A o \in st.owned :
    st.obj[o].parent \notin {0} \cup orphans =>
      \E i \in DOMAIN st.bps :
        st.bps[i].uid = st.obj[o].parent /\ o \in ToSet(st.bps[i].sites)

(* A site follows its breakpoint: enabled with it also when it was created *)
(* later (resolve), unless it was switched by itself or a handler threw.   *)
SitesFollowBreakpoint ==
  ~failed =>
    \A i \in DOMAIN st.bps : \A o \in ToSet(st.bps[i].sites) \cap st.owned :
      o \notin toggled => st.obj[o].on = st.bps[i].on
===============================================================================
