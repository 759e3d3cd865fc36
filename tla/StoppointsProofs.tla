--------------------------- MODULE StoppointsProofs ---------------------------
(* Proofs about Stoppoints, for every set of addresses, bytes, threads and *)
(* watchpoint kinds and every number of debug registers.                   *)
EXTENDS Stoppoints, TLAPS

USE AddrAssumption, ByteAssumption, SlotsAssumption, ThreadsAssumption,
    KindsAssumption

LEMMA SlotZero == 0 \in Slots /\ NumSlots - 1 \in Slots /\ -1 \notin Slots
BY DEF Slots

(* A dr7 with one field replaced is a dr7. *)
LEMMA FieldTypes == Exec1 \in Fields /\ Off \in Fields /\ WatchKinds \subseteq Fields
                    /\ Off \notin WatchKinds /\ Exec1 # Off
BY DEF Exec1, Off, Fields, Modes

LEMMA LastSizeType ==
  ASSUME NEW control \in [Slots -> Fields]
  PROVE  LastSizeCleared(control) \in [Slots -> Fields]
<1>1. CASE control[NumSlots - 1] = Off
  BY <1>1 DEF LastSizeCleared
<1>2. CASE control[NumSlots - 1] # Off
  <2>1. control[NumSlots - 1] \in [mode : Modes, size : Nat \ {0}]
    BY <1>2, SlotZero DEF Fields
  <2>2. [control[NumSlots - 1] EXCEPT !.size = 1] \in Fields
    BY <2>1 DEF Fields
  <2>3. QED
    BY <1>2, <2>2 DEF LastSizeCleared
<1>3. QED
  BY <1>1, <1>2

(* Every register operation keeps the register part of the type invariant. *)
LEMMA SetKeepsRegs ==
  ASSUME RegsOK, cur \in Threads, NEW i \in Slots, NEW a \in Addr,
         NEW kind \in Fields, SetStoppoint(i, a, kind)
  PROVE  RegsOK'
BY DEF RegsOK, SetStoppoint, WriteControl, ForeignTaint

LEMMA SetThrowsKeepsRegs ==
  ASSUME RegsOK, cur \in Threads, NEW a \in Addr, NEW kind \in Fields,
         SetStoppointThrows(a, kind)
  PROVE  RegsOK'
<1>1. PICK i \in Slots :
        /\ WriteAddress(i, a)
        /\ taint' \subseteq taint \union {"foreign", "refused"}
        /\ dr7' \in {dr7, [dr7 EXCEPT ![cur] = [dr7[cur] EXCEPT ![i] = kind]]}
        /\ hwDr7' = hwDr7
  <2>1. ForeignTaint \subseteq {"foreign"}
    BY DEF ForeignTaint
  <2>2. QED
    BY <2>1 DEF SetStoppointThrows, ControlRefused
<1>2. dr' \in [Threads -> [Slots -> Addr \union {0}]]
      /\ hwDr' \in [Slots -> Addr \union {0}]
  BY <1>1 DEF RegsOK, WriteAddress
<1>3. dr7' \in [Threads -> [Slots -> Fields]]
  <2>1. [dr7[cur] EXCEPT ![i] = kind] \in [Slots -> Fields]
    BY DEF RegsOK
  <2>2. [dr7 EXCEPT ![cur] = [dr7[cur] EXCEPT ![i] = kind]]
          \in [Threads -> [Slots -> Fields]]
    BY <2>1 DEF RegsOK
  <2>3. QED
    BY <1>1, <2>2 DEF RegsOK
<1>4. QED
  BY <1>1, <1>2, <1>3 DEF RegsOK

LEMMA ClearKeepsRegs ==
  ASSUME RegsOK, cur \in Threads, NEW i \in Slots,
         ClearStoppoint(i) \/ ClearStoppointThrows(i)
  PROVE  RegsOK'
<1>1. Off \in Fields
  BY FieldTypes
<1>2. ForeignTaint \subseteq {"foreign"}
  BY DEF ForeignTaint
<1>3. CASE ClearStoppoint(i)
  BY <1>1, <1>2, <1>3 DEF RegsOK, ClearStoppoint, WriteControl
<1>4. CASE ClearStoppointThrows(i)
  BY <1>1, <1>2, <1>4 DEF RegsOK, ClearStoppointThrows, ControlRefused,
     WriteAddress
<1>5. QED
  BY <1>3, <1>4

LEMMA ClearNegativeKeepsRegs ==
  ASSUME RegsOK, cur \in Threads, ClearNegative \/ ClearNegativeThrows
  PROVE  RegsOK'
<1>1. dr7[cur] \in [Slots -> Fields]
  BY DEF RegsOK
<1>2. LastSizeCleared(dr7[cur]) \in [Slots -> Fields]
  BY <1>1, LastSizeType
<1>3. PICK control \in [Slots -> Fields] :
        /\ dr7' \in {[t \in Threads |-> control], [dr7 EXCEPT ![cur] = control]}
        /\ hwDr7' \in {control, hwDr7}
        /\ taint' \subseteq taint \union {"negative", "refused"}
        /\ dr' = dr /\ hwDr' = hwDr
  BY <1>1, <1>2 DEF ClearNegative, ClearNegativeThrows
<1>4. dr7' \in [Threads -> [Slots -> Fields]] /\ hwDr7' \in [Slots -> Fields]
  BY <1>3 DEF RegsOK
<1>5. QED
  BY <1>3, <1>4 DEF RegsOK

-------------------------------------------------------------------------------
(* The type invariant, one lemma per group of actions. *)

LEMMA SiteStepType ==
  ASSUME TypeOK, NEW a \in Addr, SiteStep(a)
  PROVE  TypeOK'
<1> USE SlotZero DEF TypeOK
<1>1. ASSUME NEW kind \in {"sw", "hw"}, CreateSite(a, kind)
      PROVE  TypeOK'
  BY <1>1 DEF CreateSite, byteVars, watchVars, regVars, BytesOK, SitesOK,
     WatchesOK, RegsOK
<1>2. CASE EnableSoftwareSite(a)
  BY <1>2 DEF EnableSoftwareSite, watchVars, regVars, BytesOK, SitesOK,
     WatchesOK, RegsOK
<1>3. CASE EnableHardwareSite(a)
  <2>1. PICK i \in Slots : SetStoppoint(i, a, Exec1)
                           /\ siteSlot' = [siteSlot EXCEPT ![a] = i]
    BY <1>3 DEF EnableHardwareSite
  <2>2. RegsOK'
    BY <2>1, SetKeepsRegs, FieldTypes
  <2>3. SitesOK'
    BY <1>3, <2>1 DEF EnableHardwareSite, SitesOK
  <2>4. QED
    BY <1>3, <2>2, <2>3 DEF EnableHardwareSite, byteVars, watchVars, BytesOK,
       WatchesOK
<1>4. CASE EnableHardwareSiteThrows(a)
  <2>1. RegsOK'
    BY <1>4, SetThrowsKeepsRegs, FieldTypes DEF EnableHardwareSiteThrows
  <2>2. QED
    BY <1>4, <2>1 DEF EnableHardwareSiteThrows, byteVars, siteVars, watchVars,
       BytesOK, SitesOK, WatchesOK
<1>5. CASE DisableSoftwareSite(a)
  BY <1>5 DEF DisableSoftwareSite, watchVars, regVars, BytesOK, SitesOK,
     WatchesOK, RegsOK
<1>6. CASE DisableHardwareSite(a)
  <2>1. siteSlot[a] \in Slots
    BY <1>6 DEF DisableHardwareSite, SitesOK
  <2>2. RegsOK'
    BY <1>6, <2>1, ClearKeepsRegs DEF DisableHardwareSite
  <2>3. SitesOK'
    BY <1>6 DEF DisableHardwareSite, SitesOK
  <2>4. QED
    BY <1>6, <2>2, <2>3 DEF DisableHardwareSite, byteVars, watchVars, BytesOK,
       WatchesOK
<1>7. CASE DisableHardwareSiteThrows(a)
  <2>1. siteSlot[a] \in Slots
    BY <1>7 DEF DisableHardwareSiteThrows, SitesOK
  <2>2. RegsOK'
    BY <1>7, <2>1, ClearKeepsRegs DEF DisableHardwareSiteThrows
  <2>3. QED
    BY <1>7, <2>2 DEF DisableHardwareSiteThrows, byteVars, siteVars, watchVars,
       BytesOK, SitesOK, WatchesOK
<1>8. CASE RemoveSite(a)
  <2>1. SitesOK'
    BY <1>8 DEF RemoveSite, Erased, SitesOK
  <2>2. mem' \in [Addr -> Byte]
    BY <1>8 DEF RemoveSite, BytesOK, SitesOK
  <2>3. RegsOK'
    <3>1. CASE UNCHANGED regVars
      BY <3>1 DEF regVars, RegsOK
    <3>2. CASE siteOn[a] /\ siteKind[a] = "hw" /\ ClearStoppoint(siteSlot[a])
      <4>1. siteSlot[a] \in Slots
        BY <3>2 DEF SitesOK
      <4>2. QED
        BY <3>2, <4>1, ClearKeepsRegs
    <3>3. QED
      BY <1>8, <3>1, <3>2 DEF RemoveSite
  <2>4. QED
    BY <1>8, <2>1, <2>2, <2>3 DEF RemoveSite, watchVars, BytesOK, WatchesOK
<1>9. QED
  BY <1>1, <1>2, <1>3, <1>4, <1>5, <1>6, <1>7, <1>8 DEF SiteStep

LEMMA WatchStepType ==
  ASSUME TypeOK, NEW a \in Addr, WatchStep(a)
  PROVE  TypeOK'
<1> USE SlotZero, FieldTypes DEF TypeOK
<1>1. ASSUME NEW kind \in WatchKinds, CreateWatchpoint(a, kind)
      PROVE  TypeOK'
  BY <1>1 DEF CreateWatchpoint, byteVars, siteVars, regVars, BytesOK, SitesOK,
     WatchesOK, RegsOK
<1>2. CASE EnableWatchpoint(a)
  <2>1. PICK i \in Slots : SetStoppoint(i, a, watch[a])
                           /\ watchSlot' = [watchSlot EXCEPT ![a] = i]
    BY <1>2 DEF EnableWatchpoint
  <2>2. watch[a] \in Fields
    BY DEF WatchesOK
  <2>3. RegsOK'
    BY <2>1, <2>2, SetKeepsRegs
  <2>4. WatchesOK'
    BY <1>2, <2>1 DEF EnableWatchpoint, WatchesOK
  <2>5. QED
    BY <1>2, <2>3, <2>4 DEF EnableWatchpoint, byteVars, siteVars, BytesOK,
       SitesOK
<1>3. CASE EnableWatchpointThrows(a)
  <2>1. watch[a] \in Fields
    BY DEF WatchesOK
  <2>2. RegsOK'
    BY <1>3, <2>1, SetThrowsKeepsRegs DEF EnableWatchpointThrows
  <2>3. QED
    BY <1>3, <2>2 DEF EnableWatchpointThrows, byteVars, siteVars, watchVars,
       BytesOK, SitesOK, WatchesOK
<1>4. CASE DisableWatchpoint(a)
  <2>1. RegsOK'
    BY <1>4, ClearNegativeKeepsRegs DEF DisableWatchpoint
  <2>2. QED
    BY <1>4, <2>1 DEF DisableWatchpoint, byteVars, siteVars, watchVars,
       BytesOK, SitesOK, WatchesOK
<1>5. CASE RemoveWatchpoint(a)
  <2>1. WatchesOK'
    BY <1>5 DEF RemoveWatchpoint, WatchesOK
  <2>2. RegsOK'
    <3>1. CASE UNCHANGED regVars
      BY <3>1 DEF regVars, RegsOK
    <3>2. CASE ClearNegative
      BY <3>2, ClearNegativeKeepsRegs
    <3>3. QED
      BY <1>5, <3>1, <3>2 DEF RemoveWatchpoint
  <2>3. leaked' \subseteq Slots
    BY <1>5 DEF RemoveWatchpoint, WatchesOK
  <2>4. QED
    BY <1>5, <2>1, <2>2, <2>3 DEF RemoveWatchpoint, byteVars, siteVars,
       BytesOK, SitesOK
<1>6. QED
  BY <1>1, <1>2, <1>3, <1>4, <1>5 DEF WatchStep

LEMMA MemoryStepType ==
  ASSUME TypeOK, MemoryStep
  PROVE  TypeOK'
<1>0. PICK x \in Addr, n \in 1 .. MaxWrite :
        \E data \in [x .. x + n - 1 -> Byte] : WriteMemory(data)
  BY DEF MemoryStep
<1>1. PICK data \in [x .. x + n - 1 -> Byte] : WriteMemory(data)
  BY <1>0
<1>2. BytesOK'
  BY <1>1 DEF WriteMemory, TypeOK, BytesOK
<1>3. QED
  BY <1>1, <1>2 DEF WriteMemory, TypeOK, siteVars, watchVars, regVars,
     SitesOK, WatchesOK, RegsOK

LEMMA ThreadStepType ==
  ASSUME TypeOK, NEW t \in Threads, SelectThread(t) \/ StopThread(t)
  PROVE  TypeOK'
<1>1. CASE SelectThread(t)
  BY <1>1 DEF SelectThread, TypeOK, byteVars, siteVars, watchVars, regVars,
     BytesOK, SitesOK, WatchesOK, RegsOK
<1>2. CASE StopThread(t)
  <2>1. RegsOK'
    BY <1>2, FieldTypes DEF StopThread, TypeOK, RegsOK
  <2>2. QED
    BY <1>2, <2>1 DEF StopThread, TypeOK, byteVars, siteVars, watchVars,
       BytesOK, SitesOK, WatchesOK
<1>3. QED
  BY <1>1, <1>2

LEMMA StepType == TypeOK /\ [Next]_vars => TypeOK'
<1>1. ASSUME TypeOK, UNCHANGED vars
      PROVE  TypeOK'
  BY <1>1 DEF vars, byteVars, siteVars, watchVars, regVars, TypeOK, BytesOK,
     SitesOK, WatchesOK, RegsOK
<1>2. QED
  BY <1>1, SiteStepType, WatchStepType, MemoryStepType, ThreadStepType DEF Next

(* Every state of the stoppoint interface is well typed: in particular a   *)
(* hardware site or a watchpoint holds a slot index exactly while it is    *)
(* enabled, so clear_hardware_stoppoint is only ever given -1 by           *)
(* watchpoint::disable.                                                    *)
THEOREM TypeCorrect == Spec => []TypeOK
<1>1. Init => TypeOK
  BY FieldTypes DEF Init, TypeOK, BytesOK, SitesOK, WatchesOK, RegsOK
<1>2. QED
  BY <1>1, StepType, PTL DEF Spec

-------------------------------------------------------------------------------
(* The tracee's bytes. *)

LEMMA StepBytes == TypeOK /\ TrapBytesExact /\ [Next]_vars => TrapBytesExact'
<1> SUFFICES ASSUME TypeOK, TrapBytesExact, [Next]_vars
             PROVE  TrapBytesExact'
  OBVIOUS
<1> USE DEF TypeOK, BytesOK, SitesOK, TrapBytesExact, EnabledSoftware
<1>1. ASSUME NEW a \in Addr, NEW kind \in {"sw", "hw"}, CreateSite(a, kind)
      PROVE  TrapBytesExact'
  BY <1>1 DEF CreateSite, byteVars
<1>2. ASSUME NEW a \in Addr, EnableSoftwareSite(a)
      PROVE  TrapBytesExact'
  BY <1>2 DEF EnableSoftwareSite
<1>3. ASSUME NEW a \in Addr, DisableSoftwareSite(a)
      PROVE  TrapBytesExact'
  BY <1>3 DEF DisableSoftwareSite
<1>4. ASSUME NEW a \in Addr,
             \/ EnableHardwareSite(a)
             \/ DisableHardwareSite(a)
      PROVE  TrapBytesExact'
  BY <1>4 DEF EnableHardwareSite, DisableHardwareSite, byteVars
<1>5. ASSUME NEW a \in Addr, RemoveSite(a)
      PROVE  TrapBytesExact'
  BY <1>5 DEF RemoveSite, Erased
<1>6. ASSUME MemoryStep
      PROVE  TrapBytesExact'
  <2>1. PICK x \in Addr, n \in 1 .. MaxWrite :
          \E data \in [x .. x + n - 1 -> Byte] : WriteMemory(data)
    BY <1>6 DEF MemoryStep
  <2>2. PICK data \in [x .. x + n - 1 -> Byte] : WriteMemory(data)
    BY <2>1
  <2>3. QED
    BY <2>2 DEF WriteMemory, siteVars
<1>7. ASSUME UNCHANGED <<byteVars, siteVars>>
      PROVE  TrapBytesExact'
  BY <1>7 DEF byteVars, siteVars
<1>8. ASSUME NEW a \in Addr,
             EnableHardwareSiteThrows(a) \/ DisableHardwareSiteThrows(a)
      PROVE  TrapBytesExact'
  BY <1>7, <1>8 DEF EnableHardwareSiteThrows, DisableHardwareSiteThrows
<1>9. ASSUME NEW a \in Addr, WatchStep(a)
      PROVE  TrapBytesExact'
  BY <1>7, <1>9 DEF WatchStep, CreateWatchpoint, EnableWatchpoint,
     EnableWatchpointThrows, DisableWatchpoint, RemoveWatchpoint
<1>10. ASSUME NEW t \in Threads, SelectThread(t) \/ StopThread(t)
       PROVE  TrapBytesExact'
  BY <1>7, <1>10 DEF SelectThread, StopThread
<1>11. ASSUME UNCHANGED vars
       PROVE  TrapBytesExact'
  BY <1>7, <1>11 DEF vars
<1>12. QED
  BY <1>1, <1>2, <1>3, <1>4, <1>5, <1>6, <1>8, <1>9, <1>10, <1>11
     DEF Next, SiteStep

(* For every program image and every sequence of calls, an address that    *)
(* was never written over an enabled site holds int3 while its software    *)
(* site is enabled, with the program's byte saved, and the program's byte  *)
(* otherwise: enable and disable are exact inverses.                       *)
THEOREM TrapBytes == Spec => []TrapBytesExact
<1>1. Init => TrapBytesExact
  BY DEF Init, TrapBytesExact, EnabledSoftware
<1>2. QED
  BY <1>1, StepBytes, TypeCorrect, PTL DEF Spec

(* read_memory_without_traps shows the program's own bytes. *)
THEOREM ProgramBytesRead == Spec => []ReadsProgramBytes
<1>1. TrapBytesExact => ReadsProgramBytes
  BY DEF TrapBytesExact, ReadsProgramBytes, ReadWithoutTraps
<1>2. QED
  BY <1>1, TrapBytes, PTL

-------------------------------------------------------------------------------
(* The debug registers. *)

SlotInv == SlotsExact /\ CacheInStep

LEMMA UntaintedSet ==
  ASSUME TypeOK, SlotInv, NEW i \in Slots, NEW a \in Addr, NEW kind,
         SetStoppoint(i, a, kind), taint' = {}
  PROVE  /\ taint = {}
         /\ hwDr7[i] = Off
         /\ hwDr' = [hwDr EXCEPT ![i] = a]
         /\ hwDr7' = [hwDr7 EXCEPT ![i] = kind]
         /\ dr'[Pid] = hwDr' /\ dr7'[Pid] = hwDr7'
<1>1. taint = {} /\ ForeignTaint = {}
  BY DEF SetStoppoint, WriteControl
<1>2. cur = Pid
  BY <1>1 DEF ForeignTaint
<1>3. dr[Pid] = hwDr /\ dr7[Pid] = hwDr7
  BY <1>1 DEF SlotInv, CacheInStep
<1>4. QED
  BY <1>1, <1>2, <1>3 DEF SetStoppoint, WriteControl, IsFreeSlot

LEMMA UntaintedClear ==
  ASSUME TypeOK, SlotInv, NEW i \in Slots, ClearStoppoint(i), taint' = {}
  PROVE  /\ taint = {}
         /\ hwDr' = [hwDr EXCEPT ![i] = 0]
         /\ hwDr7' = [hwDr7 EXCEPT ![i] = Off]
         /\ dr'[Pid] = hwDr' /\ dr7'[Pid] = hwDr7'
<1>1. taint = {} /\ ForeignTaint = {}
  BY DEF ClearStoppoint, WriteControl
<1>2. cur = Pid
  BY <1>1 DEF ForeignTaint
<1>3. dr[Pid] = hwDr /\ dr7[Pid] = hwDr7
  BY <1>1 DEF SlotInv, CacheInStep
<1>4. QED
  BY <1>1, <1>2, <1>3 DEF ClearStoppoint, WriteControl

(* A call that throws and leaves no taint threw before dr7 was written: it *)
(* has changed the address of one free slot. *)
LEMMA UntaintedThrow ==
  ASSUME TypeOK, SlotInv, NEW a \in Addr, NEW kind,
         SetStoppointThrows(a, kind), taint' = {}
  PROVE  /\ taint = {}
         /\ hwDr7' = hwDr7
         /\ dr'[Pid] = hwDr' /\ dr7'[Pid] = hwDr7'
         /\ \E i \in Slots : hwDr7[i] = Off /\ hwDr' = [hwDr EXCEPT ![i] = a]
<1>1. PICK i \in Slots :
        IsFreeSlot(i) /\ WriteAddress(i, a) /\ ForeignTaint = {}
        /\ taint = {} /\ UNCHANGED <<dr7, hwDr7>>
  BY DEF SetStoppointThrows, ControlRefused
<1>2. cur = Pid
  BY <1>1 DEF ForeignTaint
<1>3. dr[Pid] = hwDr /\ dr7[Pid] = hwDr7
  BY <1>1 DEF SlotInv, CacheInStep
<1>4. QED
  BY <1>1, <1>2, <1>3 DEF WriteAddress, IsFreeSlot, TypeOK, RegsOK

(* A slot whose owners, control field and, while armed, address stay. *)
LEMMA SlotKept ==
  ASSUME NEW i \in Slots, SlotExact(i), hwDr7'[i] = hwDr7[i],
         hwDr7[i] # Off => hwDr'[i] = hwDr[i],
         i \in leaked' <=> i \in leaked,
         \A a \in Addr : SiteOwns(a, i)' <=> SiteOwns(a, i),
         \A a \in Addr : WatchOwns(a, i)' <=> WatchOwns(a, i),
         \A a \in Addr : WatchOwns(a, i) => watch'[a] = watch[a]
  PROVE  SlotExact(i)'
<1>1. (\A a, b \in Addr :
         /\ SiteOwns(a, i) /\ SiteOwns(b, i) => a = b
         /\ WatchOwns(a, i) /\ WatchOwns(b, i) => a = b
         /\ ~(SiteOwns(a, i) /\ WatchOwns(b, i)))'
  BY DEF SlotExact
<1>2. (\A a \in Addr :
         /\ SiteOwns(a, i) => hwDr[i] = a /\ hwDr7[i] = Exec1
         /\ WatchOwns(a, i) => hwDr[i] = a /\ hwDr7[i] = watch[a])'
  BY DEF SlotExact
<1>3. (hwDr7[i] # Off <=>
         \/ i \in leaked
         \/ \E a \in Addr : SiteOwns(a, i) \/ WatchOwns(a, i))'
  BY DEF SlotExact
<1>4. QED
  BY <1>1, <1>2, <1>3 DEF SlotExact

(* A step that changes no owner and at most the address of a free slot. *)
LEMMA OwnersKept ==
  ASSUME TypeOK, SlotInv, taint' = {}, taint = {},
         UNCHANGED <<siteSlot, watchSlot, leaked>>,
         \A a \in Addr : watchSlot[a] # -1 => watch'[a] = watch[a],
         hwDr7' = hwDr7, dr'[Pid] = hwDr', dr7'[Pid] = hwDr7',
         \/ hwDr' = hwDr
         \/ \E i \in Slots, x \in Addr :
              hwDr7[i] = Off /\ hwDr' = [hwDr EXCEPT ![i] = x]
  PROVE  SlotInv'
<1>1. \A i \in Slots : hwDr7[i] # Off => hwDr'[i] = hwDr[i]
  BY DEF TypeOK, RegsOK
<1>2. CacheInStep'
  BY DEF SlotInv, CacheInStep, SiteOwns, WatchOwns
<1>3. \A i \in Slots, a \in Addr : WatchOwns(a, i) => watch'[a] = watch[a]
  BY SlotZero DEF WatchOwns
<1>4. SlotsExact'
  <2> SUFFICES ASSUME NEW i \in Slots PROVE SlotExact(i)'
    BY DEF SlotsExact
  <2>1. SlotExact(i)
    BY DEF SlotInv, SlotsExact
  <2>2. \A a \in Addr : /\ SiteOwns(a, i)' <=> SiteOwns(a, i)
                        /\ WatchOwns(a, i)' <=> WatchOwns(a, i)
    BY DEF SiteOwns, WatchOwns
  <2>3. QED
    BY <1>1, <1>3, <2>1, <2>2, SlotKept
<1>5. QED
  BY <1>2, <1>4 DEF SlotInv

LEMMA SiteStepSlots ==
  ASSUME TypeOK, SlotInv, NEW x \in Addr, SiteStep(x), taint' = {}
  PROVE  SlotInv'
<1>0. \A a \in Addr : siteKind[a] # "hw" \/ ~siteOn[a] => siteSlot[a] = -1
  BY DEF TypeOK, SitesOK
<1>1. ASSUME UNCHANGED <<siteSlot, watchVars, regVars, leaked>>
      PROVE  SlotInv'
  <2>1. dr'[Pid] = hwDr' /\ dr7'[Pid] = hwDr7' /\ taint = {}
    BY <1>1 DEF SlotInv, CacheInStep, regVars
  <2>2. QED
    BY <1>1, <2>1, OwnersKept DEF watchVars, regVars
<1>2. ASSUME NEW kind \in {"sw", "hw"}, CreateSite(x, kind)
      PROVE  SlotInv'
  <2>1. siteSlot' = siteSlot
    BY <1>0, <1>2 DEF CreateSite, TypeOK, SitesOK
  <2>2. QED
    BY <1>1, <1>2, <2>1 DEF CreateSite
<1>3. CASE EnableSoftwareSite(x) \/ DisableSoftwareSite(x)
  BY <1>1, <1>3 DEF EnableSoftwareSite, DisableSoftwareSite
<1>4. CASE EnableHardwareSite(x)
  <2>1. PICK i \in Slots : SetStoppoint(i, x, Exec1)
                           /\ siteSlot' = [siteSlot EXCEPT ![x] = i]
    BY <1>4 DEF EnableHardwareSite
  <2>2. /\ taint = {} /\ hwDr7[i] = Off
        /\ hwDr' = [hwDr EXCEPT ![i] = x]
        /\ hwDr7' = [hwDr7 EXCEPT ![i] = Exec1]
        /\ dr'[Pid] = hwDr' /\ dr7'[Pid] = hwDr7'
    BY <2>1, UntaintedSet
  <2>3. i \notin leaked /\ \A a \in Addr : ~SiteOwns(a, i) /\ ~WatchOwns(a, i)
    BY <2>2 DEF SlotInv, SlotsExact, SlotExact
  <2>4. UNCHANGED <<watch, watchSlot, leaked>>
    BY <1>4 DEF EnableHardwareSite, watchVars
  <2>5. siteSlot[x] = -1
    BY <1>0, <1>4 DEF EnableHardwareSite
  <2>6. CacheInStep'
    BY <2>1, <2>2, <2>3, <2>4 DEF SlotInv, CacheInStep, SiteOwns, WatchOwns,
       TypeOK, SitesOK
  <2>7. SlotsExact'
    <3> SUFFICES ASSUME NEW j \in Slots PROVE SlotExact(j)'
      BY DEF SlotsExact
    <3>1. SlotExact(j)
      BY <2>2 DEF SlotInv, SlotsExact
    <3>2. \A a \in Addr : /\ SiteOwns(a, j)' <=> SiteOwns(a, j) \/ (a = x /\ j = i)
                          /\ WatchOwns(a, j)' <=> WatchOwns(a, j)
      BY <2>1, <2>4, <2>5, SlotZero DEF SiteOwns, WatchOwns, TypeOK, SitesOK
    <3>3. j # i => hwDr'[j] = hwDr[j] /\ hwDr7'[j] = hwDr7[j]
      BY <2>2 DEF TypeOK, RegsOK
    <3>4. CASE j # i
      BY <2>4, <3>1, <3>2, <3>3, <3>4, SlotKept
    <3>5. CASE j = i
      <4>1. hwDr'[j] = x /\ hwDr7'[j] = Exec1 /\ Exec1 # Off
        BY <2>2, <3>5, FieldTypes DEF TypeOK, RegsOK
      <4>2. QED
        BY <2>3, <2>4, <3>2, <3>5, <4>1 DEF SlotExact
    <3>6. QED
      BY <3>4, <3>5
  <2>8. QED
    BY <2>6, <2>7 DEF SlotInv
<1>5. CASE EnableHardwareSiteThrows(x)
  <2>1. /\ taint = {} /\ hwDr7' = hwDr7
        /\ dr'[Pid] = hwDr' /\ dr7'[Pid] = hwDr7'
        /\ \E i \in Slots : hwDr7[i] = Off /\ hwDr' = [hwDr EXCEPT ![i] = x]
    BY <1>5, UntaintedThrow DEF EnableHardwareSiteThrows
  <2>2. QED
    BY <1>5, <2>1, OwnersKept DEF EnableHardwareSiteThrows, siteVars, watchVars
<1>6. ASSUME siteOn[x], siteKind[x] = "hw", ClearStoppoint(siteSlot[x]),
             siteSlot' = [siteSlot EXCEPT ![x] = -1],
             UNCHANGED <<watchVars, leaked>>
      PROVE  SlotInv'
  <2>0. siteSlot[x] \in Slots
    BY <1>6 DEF TypeOK, SitesOK
  <2> DEFINE i == siteSlot[x]
  <2>1. /\ taint = {}
        /\ hwDr' = [hwDr EXCEPT ![i] = 0]
        /\ hwDr7' = [hwDr7 EXCEPT ![i] = Off]
        /\ dr'[Pid] = hwDr' /\ dr7'[Pid] = hwDr7'
    BY <1>6, <2>0, UntaintedClear
  <2>2. /\ i \notin leaked
        /\ \A a \in Addr : SiteOwns(a, i) => a = x
        /\ \A a \in Addr : ~WatchOwns(a, i)
    <3>1. SlotExact(i) /\ SiteOwns(x, i)
      BY <2>0, <2>1 DEF SlotInv, SlotsExact, SiteOwns
    <3>2. i \notin leaked
      BY <2>1, <3>1 DEF SlotInv, CacheInStep
    <3>3. QED
      BY <3>1, <3>2 DEF SlotExact
  <2>3. CacheInStep'
    BY <1>6, <2>0, <2>1, SlotZero DEF SlotInv, CacheInStep, SiteOwns,
       WatchOwns, watchVars, TypeOK, SitesOK
  <2>4. SlotsExact'
    <3> SUFFICES ASSUME NEW j \in Slots PROVE SlotExact(j)'
      BY DEF SlotsExact
    <3>1. SlotExact(j)
      BY <2>1 DEF SlotInv, SlotsExact
    <3>2. \A a \in Addr : /\ SiteOwns(a, j)' <=> a # x /\ SiteOwns(a, j)
                          /\ WatchOwns(a, j)' <=> WatchOwns(a, j)
      BY <1>6, SlotZero DEF SiteOwns, WatchOwns, TypeOK, SitesOK, watchVars
    <3>3. UNCHANGED <<watch, leaked>>
      BY <1>6 DEF watchVars
    <3>4. CASE j # i
      <4>1. hwDr'[j] = hwDr[j] /\ hwDr7'[j] = hwDr7[j]
        BY <2>0, <2>1, <3>4 DEF TypeOK, RegsOK
      <4>2. ~SiteOwns(x, j)
        BY <3>4 DEF SiteOwns
      <4>3. QED
        BY <3>1, <3>2, <3>3, <4>1, <4>2, SlotKept
    <3>5. CASE j = i
      <4>1. hwDr7'[j] = Off
        BY <2>0, <2>1, <3>5 DEF TypeOK, RegsOK
      <4>2. \A a \in Addr : ~SiteOwns(a, j)' /\ ~WatchOwns(a, j)'
        BY <2>2, <3>2, <3>5
      <4>3. QED
        BY <2>2, <3>3, <3>5, <4>1, <4>2 DEF SlotExact
    <3>6. QED
      BY <3>4, <3>5
  <2>5. QED
    BY <2>3, <2>4 DEF SlotInv
<1>7. CASE DisableHardwareSite(x)
  BY <1>6, <1>7 DEF DisableHardwareSite
<1>8. CASE DisableHardwareSiteThrows(x)
  BY <1>8 DEF DisableHardwareSiteThrows, ClearStoppointThrows, ControlRefused
<1>9. CASE RemoveSite(x)
  <2>1. CASE siteOn[x] /\ siteKind[x] = "hw"
    BY <1>6, <1>9, <2>1 DEF RemoveSite, Erased
  <2>2. CASE ~(siteOn[x] /\ siteKind[x] = "hw")
    <3>1. siteSlot' = siteSlot
      BY <1>0, <1>9, <2>2 DEF RemoveSite, Erased, TypeOK, SitesOK
    <3>2. QED
      BY <1>1, <1>9, <2>2, <3>1 DEF RemoveSite
  <2>3. QED
    BY <2>1, <2>2
<1>10. QED
  BY <1>2, <1>3, <1>4, <1>5, <1>7, <1>8, <1>9 DEF SiteStep

LEMMA WatchStepSlots ==
  ASSUME TypeOK, SlotInv, NEW x \in Addr, WatchStep(x), taint' = {}
  PROVE  SlotInv'
<1>0. \A a \in Addr : ~watchOn[a] => watchSlot[a] = -1
  BY DEF TypeOK, WatchesOK
<1>1. ASSUME NEW kind \in WatchKinds, CreateWatchpoint(x, kind)
      PROVE  SlotInv'
  <2>1. ~watchOn[x]
    BY <1>1 DEF CreateWatchpoint, TypeOK, WatchesOK
  <2>2. watchSlot' = watchSlot
    BY <1>0, <1>1, <2>1 DEF CreateWatchpoint, TypeOK, WatchesOK
  <2>3. \A a \in Addr : watchSlot[a] # -1 => watch'[a] = watch[a]
    BY <1>0, <1>1, <2>1 DEF CreateWatchpoint, TypeOK, WatchesOK
  <2>4. dr[Pid] = hwDr /\ dr7[Pid] = hwDr7 /\ taint = {}
    BY <1>1 DEF CreateWatchpoint, regVars, SlotInv, CacheInStep
  <2>5. QED
    BY <1>1, <2>2, <2>3, <2>4, OwnersKept DEF CreateWatchpoint, siteVars,
       regVars
<1>2. CASE EnableWatchpoint(x)
  <2>1. PICK i \in Slots : SetStoppoint(i, x, watch[x])
                           /\ watchSlot' = [watchSlot EXCEPT ![x] = i]
    BY <1>2 DEF EnableWatchpoint
  <2>2. /\ taint = {} /\ hwDr7[i] = Off
        /\ hwDr' = [hwDr EXCEPT ![i] = x]
        /\ hwDr7' = [hwDr7 EXCEPT ![i] = watch[x]]
        /\ dr'[Pid] = hwDr' /\ dr7'[Pid] = hwDr7'
    BY <2>1, UntaintedSet
  <2>3. i \notin leaked /\ \A a \in Addr : ~SiteOwns(a, i) /\ ~WatchOwns(a, i)
    BY <2>2 DEF SlotInv, SlotsExact, SlotExact
  <2>4. UNCHANGED <<watch, siteSlot, leaked>> /\ watch[x] # Off
    BY <1>2 DEF EnableWatchpoint, siteVars
  <2>5. watchSlot[x] = -1
    BY <1>0, <1>2 DEF EnableWatchpoint
  <2>6. CacheInStep'
    BY <2>1, <2>2, <2>3, <2>4 DEF SlotInv, CacheInStep, SiteOwns, WatchOwns,
       TypeOK, WatchesOK
  <2>7. SlotsExact'
    <3> SUFFICES ASSUME NEW j \in Slots PROVE SlotExact(j)'
      BY DEF SlotsExact
    <3>1. SlotExact(j)
      BY <2>2 DEF SlotInv, SlotsExact
    <3>2. \A a \in Addr : /\ SiteOwns(a, j)' <=> SiteOwns(a, j)
                          /\ WatchOwns(a, j)' <=> WatchOwns(a, j) \/ (a = x /\ j = i)
      BY <2>1, <2>4, <2>5, SlotZero DEF SiteOwns, WatchOwns, TypeOK, WatchesOK
    <3>3. j # i => hwDr'[j] = hwDr[j] /\ hwDr7'[j] = hwDr7[j]
      BY <2>2 DEF TypeOK, RegsOK
    <3>4. CASE j # i
      BY <2>4, <3>1, <3>2, <3>3, <3>4, SlotKept
    <3>5. CASE j = i
      <4>1. hwDr'[j] = x /\ hwDr7'[j] = watch[x]
        BY <2>2, <3>5 DEF TypeOK, RegsOK
      <4>2. QED
        BY <2>3, <2>4, <3>2, <3>5, <4>1 DEF SlotExact
    <3>6. QED
      BY <3>4, <3>5
  <2>8. QED
    BY <2>6, <2>7 DEF SlotInv
<1>3. CASE EnableWatchpointThrows(x)
  <2>1. /\ taint = {} /\ hwDr7' = hwDr7
        /\ dr'[Pid] = hwDr' /\ dr7'[Pid] = hwDr7'
        /\ \E i \in Slots : hwDr7[i] = Off /\ hwDr' = [hwDr EXCEPT ![i] = x]
    BY <1>3, UntaintedThrow DEF EnableWatchpointThrows
  <2>2. QED
    BY <1>3, <2>1, OwnersKept DEF EnableWatchpointThrows, siteVars, watchVars
<1>4. CASE DisableWatchpoint(x)
  BY <1>4 DEF DisableWatchpoint, ClearNegative, ClearNegativeThrows
<1>5. CASE RemoveWatchpoint(x)
  <2>1. watchOn[x] /\ leaked' = leaked \union {watchSlot[x]} /\ UNCHANGED regVars
    BY <1>5 DEF RemoveWatchpoint, ClearNegative
  <2>2. watchSlot[x] \in Slots
    BY <2>1 DEF TypeOK, WatchesOK
  <2> DEFINE i == watchSlot[x]
  <2>3. taint = {} /\ hwDr7[i] # Off
        /\ \A a \in Addr : ~SiteOwns(a, i) /\ (WatchOwns(a, i) => a = x)
    <3>1. taint = {} /\ SlotExact(i) /\ WatchOwns(x, i)
      BY <2>1, <2>2 DEF regVars, SlotInv, SlotsExact, WatchOwns
    <3>2. QED
      BY <3>1 DEF SlotExact
  <2>4. watchSlot' = [watchSlot EXCEPT ![x] = -1]
        /\ watch' = [watch EXCEPT ![x] = Off] /\ siteSlot' = siteSlot
    BY <1>5 DEF RemoveWatchpoint, siteVars
  <2>5. CacheInStep'
    BY <2>1, <2>2, <2>3, <2>4, SlotZero DEF SlotInv, CacheInStep, SiteOwns,
       WatchOwns, regVars, TypeOK, WatchesOK
  <2>6. SlotsExact'
    <3>1. \A a \in Addr, j \in Slots :
            /\ SiteOwns(a, j)' <=> SiteOwns(a, j)
            /\ WatchOwns(a, j)' <=> a # x /\ WatchOwns(a, j)
            /\ a # x => watch'[a] = watch[a]
      BY <2>4, SlotZero DEF SiteOwns, WatchOwns, TypeOK, WatchesOK
    <3>2. WatchOwns(x, i)
      BY DEF WatchOwns
    <3>3. hwDr' = hwDr /\ hwDr7' = hwDr7
      BY <2>1 DEF regVars
    <3>4. \A j \in Slots : WatchOwns(x, j) => j = i
      BY DEF WatchOwns
    <3> SUFFICES ASSUME NEW j \in Slots PROVE SlotExact(j)'
      BY DEF SlotsExact
    <3>5. SlotExact(j)
      BY <2>3 DEF SlotInv, SlotsExact
    <3>6. CASE j # i
      <4>1. ~WatchOwns(x, j) /\ (j \in leaked' <=> j \in leaked)
        BY <2>1, <3>4, <3>6
      <4>2. QED
        BY <3>1, <3>3, <3>5, <4>1, SlotKept
    <3>7. CASE j = i
      <4>1. \A a \in Addr : ~SiteOwns(a, j)' /\ ~WatchOwns(a, j)'
        BY <2>3, <3>1, <3>7
      <4>2. j \in leaked' /\ hwDr7'[j] # Off
        BY <2>1, <2>3, <3>3, <3>7
      <4>3. QED
        BY <4>1, <4>2 DEF SlotExact
    <3>8. QED
      BY <3>6, <3>7
  <2>7. QED
    BY <2>5, <2>6 DEF SlotInv
<1>6. QED
  BY <1>1, <1>2, <1>3, <1>4, <1>5 DEF WatchStep

LEMMA StepSlots == TypeOK /\ SlotInv /\ [Next]_vars => SlotInv'
<1> SUFFICES ASSUME TypeOK, SlotInv, [Next]_vars, taint' = {}
             PROVE  SlotInv'
  BY DEF SlotInv, SlotsExact, CacheInStep
<1>1. ASSUME UNCHANGED <<siteVars, watchVars, regVars, leaked>>
      PROVE  SlotInv'
  <2>1. dr'[Pid] = hwDr' /\ dr7'[Pid] = hwDr7' /\ taint = {}
    BY <1>1 DEF SlotInv, CacheInStep, regVars
  <2>2. QED
    BY <1>1, <2>1, OwnersKept DEF siteVars, watchVars, regVars
<1>2. ASSUME MemoryStep
      PROVE  SlotInv'
  BY <1>1, <1>2 DEF MemoryStep, WriteMemory
<1>3. ASSUME NEW t \in Threads, SelectThread(t)
      PROVE  SlotInv'
  BY <1>1, <1>3 DEF SelectThread
<1>4. ASSUME NEW t \in Threads, StopThread(t)
      PROVE  SlotInv'
  <2>1. taint = {} /\ dr[Pid] = hwDr /\ dr7[Pid] = hwDr7
    BY <1>4 DEF StopThread, SlotInv, CacheInStep
  <2>2. dr'[Pid] = hwDr /\ dr7'[Pid] = hwDr7
    BY <1>4, <2>1 DEF StopThread, TypeOK, RegsOK
  <2>3. QED
    BY <1>4, <2>1, <2>2, OwnersKept DEF StopThread, siteVars, watchVars
<1>5. CASE UNCHANGED vars
  BY <1>1, <1>5 DEF vars
<1>6. QED
  BY <1>2, <1>3, <1>4, <1>5, SiteStepSlots, WatchStepSlots DEF Next

LEMMA SlotInvariant == Spec => []SlotInv
<1>1. Init => SlotInv
  BY SlotZero DEF Init, SlotInv, SlotsExact, SlotExact, CacheInStep, SiteOwns, WatchOwns
<1>2. QED
  BY <1>1, StepSlots, TypeCorrect, PTL DEF Spec

(* With any number of threads, stoppoints and debug registers, the slots   *)
(* and their owners correspond exactly as long as none of the three events *)
(* recorded in taint has happened.                                         *)
THEOREM SlotBookkeeping == Spec => []SlotsExact
<1>1. SlotInv => SlotsExact
  BY DEF SlotInv
<1>2. QED
  BY <1>1, SlotInvariant, PTL

(* The cached debug registers of the main thread, which                    *)
(* find_free_stoppoint_region reads, are those of the hardware.            *)
THEOREM CacheFollowsHardware == Spec => []CacheInStep
<1>1. SlotInv => CacheInStep
  BY DEF SlotInv
<1>2. QED
  BY <1>1, SlotInvariant, PTL

(* A hardware trap is attributed to the stoppoint that owns the slot. *)
THEOREM TrapAttribution == Spec => []AttributionExact
<1>1. TypeOK /\ SlotInv => AttributionExact
  BY SlotZero DEF SlotInv, SlotsExact, SlotExact, AttributionExact, HardwareStoppointAt,
     SiteOwns, WatchOwns, TypeOK, SitesOK, WatchesOK
<1>2. QED
  BY <1>1, SlotInvariant, TypeCorrect, PTL
===============================================================================
