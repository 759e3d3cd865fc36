--------------------------- MODULE BreakpointsProofs ---------------------------
(***************************************************************************)
(* Proofs about the breakpoints of a target: an int3 belongs to an enabled *)
(* site, a site's parent is a breakpoint that lists it, sites are enabled  *)
(* with their breakpoint, and a breakpoint is resolved in every object the *)
(* target was told of.                                                     *)
(*                                                                         *)
(* A handler is a composition of loops that stop at the first error, so    *)
(* the invariants are stated of the debugger's record and carried through  *)
(* every turn of every loop; the theorems follow for the variable st.      *)
(***************************************************************************)
EXTENDS Breakpoints, SequenceTheorems, FiniteSetTheorems, WellFoundedInduction, TLAPS

-------------------------------------------------------------------------------
(* The debugger's record. *)

Site == [addr : Addr, parent : Nat, on : BOOLEAN]

Breakpoint == [uid : Nat, id : Int, kind : {"address", "line", "function"},
               spec : Addr \cup Names, on : BOOLEAN, sites : Seq(Nat)]

Debugger == [elves : Seq(Elf), mapped : SUBSET Elf, bps : Seq(Breakpoint),
             obj : Seq(Site), owned : SUBSET Nat, traps : SUBSET Addr,
             rdv : BOOLEAN, uid : Nat, id : Nat, err : BOOLEAN, hot : BOOLEAN,
             ghost : SUBSET Addr]

(* What a breakpoint's specification names. *)
SpecTyped(b) == IF b.kind = "address" THEN b.spec \in Addr ELSE b.spec \in Names

(* Every pointer a breakpoint has is to a site built for it, freed or not. *)
Lists(s, i) ==
  /\ SpecTyped(s.bps[i]) /\ s.bps[i].uid <= s.uid /\ s.bps[i].uid # 0
  /\ \A k \in DOMAIN s.bps[i].sites :
       /\ s.bps[i].sites[k] \in DOMAIN s.obj
       /\ s.obj[s.bps[i].sites[k]].parent = s.bps[i].uid

(* The heap and the collections fit together: no two breakpoints share a   *)
(* site, and no two sites of the process an address.                       *)
Linked(s) ==
  /\ s \in Debugger
  /\ s.owned \subseteq DOMAIN s.obj
  /\ {Main, Linker, Vdso} \subseteq s.mapped /\ Main \in ToSet(s.elves)
  /\ \A i \in DOMAIN s.bps : Lists(s, i)
  /\ \A i, j \in DOMAIN s.bps : s.bps[i].uid = s.bps[j].uid => i = j
  /\ \A o, p \in s.owned : s.obj[o].addr = s.obj[p].addr => o = p

(* ParentsKnown, of a record. *)
Parented(s, lost) ==
  \A o \in s.owned :
    s.obj[o].parent \notin {0} \cup lost =>
      \E i \in DOMAIN s.bps :
        s.bps[i].uid = s.obj[o].parent /\ o \in ToSet(s.bps[i].sites)

(* TrapsOwned, of a record; what is not mapped now was mapped once. *)
Trapped(s, n) ==
  \A o \in s.owned :
    LET a == s.obj[o].addr
    IN  a \notin s.ghost =>
          /\ a \in s.traps => s.obj[o].on
          /\ s.obj[o].on => \/ a \in s.traps \/ n[Home[a]] > 1
                            \/ Home[a] \notin s.mapped /\ n[Home[a]] >= 1

(* No int3 without a site. *)
Covered(s) ==
  \A a \in s.traps \ s.ghost : \E o \in s.owned : s.obj[o].addr = a

(* SitesFollowBreakpoint, of a record and one breakpoint. *)
FollowsOne(s, byHand, i) ==
  \A o \in ToSet(s.bps[i].sites) \cap s.owned :
    o \notin byHand => s.obj[o].on = s.bps[i].on

Follows(s, byHand) ==
  ~s.err => \A i \in DOMAIN s.bps : FollowsOne(s, byHand, i)

(* A breakpoint has a site at a. *)
HasSite(s, i, a) == \E k \in DOMAIN s.bps[i].sites : s.obj[s.bps[i].sites[k]].addr = a

ResolvedOne(s, i) ==
  s.bps[i].kind # "address" => \A a \in ToSet(Addresses(s, s.bps[i].spec)) : HasSite(s, i, a)

Resolved(s) == ~s.err => \A i \in DOMAIN s.bps : ResolvedOne(s, i)

(* What every handler keeps. *)
Sound(s, lost, n) == Linked(s) /\ Parented(s, lost) /\ Trapped(s, n) /\ Covered(s)

-------------------------------------------------------------------------------
(* The inductive invariant. *)

HistoryTypes ==
  /\ loads \in [Elf -> Nat] /\ missed \in SUBSET Elf
  /\ failed \in BOOLEAN /\ orphans \in SUBSET Nat

Inductive ==
  /\ HistoryTypes
  /\ ~st.err
  /\ Sound(st, orphans, loads)
  /\ \A e \in st.mapped \ {Main, Linker, Vdso} : loads[e] >= 1
  /\ ~failed => /\ Follows(st, toggled)
                /\ Resolved(st)
                /\ st.mapped \ missed \subseteq ToSet(st.elves)

-------------------------------------------------------------------------------
(* The loops of the handlers. *)

(* A set of naturals has a smallest member. *)
LEMMA NatMin ==
  ASSUME NEW T, T \subseteq Nat, T # {}
  PROVE  \E m \in T : \A k \in T : m <= k
<1> DEFINE R == OpToRel(<, Nat)
<1>1. PICK m \in T : \A k \in T : ~ (<<k, m>> \in R)
  <2>1. IsWellFoundedOn(R, Nat)
    BY NatLessThanWellFounded
  <2> HIDE DEF R
  <2> QED BY <2>1, WFMin
<1>2. ASSUME NEW k \in T PROVE m <= k
  <2>1. <<k, m>> \notin R
    BY <1>1
  <2>2. k \in Nat /\ m \in Nat
    OBVIOUS
  <2>3. ~(k < m)
    BY <2>1, <2>2 DEF OpToRel
  <2> QED BY <2>2, <2>3
<1> QED BY <1>2

(* What each turn keeps holds after the last one. *)
LEMMA LoopKeeps ==
  ASSUME NEW N \in Nat, NEW Good, NEW F, F[0] \in Good[0],
         \A n \in 1 .. N : F[n - 1] \in Good[n - 1] => F[n] \in Good[n]
  PROVE  F[N] \in Good[N]
<1> DEFINE Bad == {n \in 0 .. N : F[n] \notin Good[n]}
<1>1. Bad = {}
  <2> SUFFICES ASSUME Bad # {} PROVE FALSE
    OBVIOUS
  <2>1. PICK m \in Bad : \A k \in Bad : m <= k
    <3>1. Bad \subseteq Nat
      OBVIOUS
    <3> HIDE DEF Bad
    <3> QED BY <3>1, NatMin
  <2>2. m # 0 /\ m \in 0 .. N /\ F[m] \notin Good[m]
    BY <2>1
  <2>3. m \in 1 .. N /\ m - 1 \in 0 .. N /\ ~(m <= m - 1)
    BY <2>2
  <2>4. F[m - 1] \in Good[m - 1]
    BY <2>1, <2>3
  <2> QED BY <2>2, <2>3, <2>4
<1> QED BY <1>1

Loop(N, s, g, f) == [n \in 0 .. N |-> IF n = 0 THEN s ELSE g[n][f[n - 1]]]

(* The recursive function of a loop exists when every turn keeps its       *)
(* invariant.                                                              *)
LEMMA LoopExists ==
  ASSUME NEW N \in Nat, NEW s, NEW Good, NEW g, s \in Good[0],
         \A n \in 1 .. N : \A t \in Good[n - 1] : g[n][t] \in Good[n]
  PROVE  \E f : /\ f = Loop(N, s, g, f)
                /\ \A n \in 0 .. N : f[n] \in Good[n]
<1> DEFINE Turn(f, n) == IF n = 0 THEN s ELSE g[n][f[n - 1]]
           Builds(f, m) == /\ f = [n \in 0 .. m |-> Turn(f, n)]
                           /\ \A n \in 0 .. m : f[n] \in Good[n]
           Bad == {m \in 0 .. N : ~ \E f : Builds(f, m)}
<1>1. ASSUME NEW m \in 0 .. N, NEW f, Builds(f, m), m # N
      PROVE  \E h : Builds(h, m + 1)
  <2> DEFINE h == [n \in 0 .. m + 1 |-> IF n = m + 1 THEN g[n][f[m]] ELSE f[n]]
  <2>1. m \in Nat /\ m + 1 \in 1 .. N /\ m \in 0 .. m /\ (m + 1) - 1 = m /\ m + 1 # 0
    BY <1>1
  <2>2. \A n \in 0 .. m : n # m + 1 /\ n \in 0 .. m + 1 /\ h[n] = f[n]
    BY <2>1
  <2>3. h[m + 1] = g[m + 1][f[m]] /\ h[m] = f[m]
    BY <2>1, <2>2
  <2>4. h[m + 1] \in Good[m + 1]
    <3>1. f[m] \in Good[(m + 1) - 1]
      BY <1>1, <2>1
    <3> QED BY <2>1, <2>3, <3>1
  <2>5. ASSUME NEW n \in 0 .. m + 1 PROVE h[n] = Turn(h, n) /\ h[n] \in Good[n]
    <3>1. CASE n = m + 1
      BY <2>1, <2>3, <2>4, <3>1
    <3>2. CASE n # m + 1
      <4>1. n \in 0 .. m /\ (n # 0 => n - 1 \in 0 .. m)
        BY <2>1, <3>2
      <4>2. f[n] = Turn(f, n) /\ f[n] \in Good[n]
        BY <1>1, <4>1
      <4>3. h[n] = f[n] /\ (n # 0 => h[n - 1] = f[n - 1])
        BY <2>2, <4>1
      <4> HIDE DEF h
      <4> QED BY <4>2, <4>3
    <3> QED BY <3>1, <3>2
  <2>6. h = [n \in 0 .. m + 1 |-> h[n]]
    OBVIOUS
  <2> HIDE DEF h
  <2>7. h = [n \in 0 .. m + 1 |-> Turn(h, n)]
    BY <2>5, <2>6
  <2> QED BY <2>5, <2>7
<1>2. \E f : Builds(f, 0)
  <2> DEFINE f == [n \in 0 .. 0 |-> s]
  <2>1. f = [n \in 0 .. 0 |-> Turn(f, n)] /\ \A n \in 0 .. 0 : f[n] \in Good[n]
    OBVIOUS
  <2> QED BY <2>1
<1> HIDE DEF Builds
<1>3. Bad = {}
  <2> SUFFICES ASSUME Bad # {} PROVE FALSE
    OBVIOUS
  <2>1. PICK m \in Bad : \A k \in Bad : m <= k
    <3>1. Bad \subseteq Nat
      OBVIOUS
    <3> HIDE DEF Bad
    <3> QED BY <3>1, NatMin
  <2>2. m # 0 /\ m \in 0 .. N /\ ~ \E f : Builds(f, m)
    BY <1>2, <2>1
  <2>3. m - 1 \in 0 .. N /\ m - 1 + 1 = m /\ m - 1 # N /\ ~(m <= m - 1)
    BY <2>2
  <2>4. \E f : Builds(f, m - 1)
    BY <2>1, <2>3
  <2> QED BY <1>1, <2>2, <2>3, <2>4
<1>4. PICK f : Builds(f, N)
  BY <1>3
<1> QED BY <1>4 DEF Builds, Loop

-------------------------------------------------------------------------------
(* One site. *)

LEMMA Element ==
  ASSUME NEW S, NEW q \in Seq(S)
  PROVE  /\ Len(q) \in Nat /\ DOMAIN q = 1 .. Len(q)
         /\ \A i \in DOMAIN q : q[i] \in S
BY LenProperties, ElementOfSeq

(* Two records that differ in err and hot only. *)
Same(s, t) ==
  /\ t \in Debugger
  /\ t.elves = s.elves /\ t.mapped = s.mapped /\ t.bps = s.bps /\ t.obj = s.obj
  /\ t.owned = s.owned /\ t.traps = s.traps /\ t.rdv = s.rdv
  /\ t.uid = s.uid /\ t.id = s.id /\ t.ghost = s.ghost

LEMMA TouchDoes ==
  ASSUME NEW s \in Debugger, NEW os
  PROVE  Same(s, Touch(s, os)) /\ Touch(s, os).err = s.err
BY DEF Touch, Same, Debugger

LEMMA FailDoes ==
  ASSUME NEW s \in Debugger
  PROVE  Same(s, [s EXCEPT !.err = TRUE]) /\ [s EXCEPT !.err = TRUE].err
BY DEF Same, Debugger

(* What enable and disable of a site do. *)
Switched(s, t, o, on) ==
  /\ t \in Debugger
  /\ t.elves = s.elves /\ t.mapped = s.mapped /\ t.bps = s.bps /\ t.owned = s.owned
  /\ t.rdv = s.rdv /\ t.uid = s.uid /\ t.id = s.id
  /\ DOMAIN t.obj = DOMAIN s.obj
  /\ \A p \in DOMAIN s.obj :
       /\ t.obj[p].addr = s.obj[p].addr /\ t.obj[p].parent = s.obj[p].parent
       /\ p # o => t.obj[p].on = s.obj[p].on
  /\ ~t.err => ~s.err /\ t.obj[o].on = on
  /\ LET a == s.obj[o].addr
     IN  \/ t.obj[o].on = s.obj[o].on /\ t.traps = s.traps /\ t.ghost = s.ghost
         \/ /\ t.obj[o].on = on
            /\ t.traps = IF on THEN s.traps \cup {a} ELSE s.traps \ {a}
            /\ t.ghost = IF o \in s.owned THEN s.ghost ELSE s.ghost \cup {a}

LEMMA SwitchDoes ==
  ASSUME NEW s \in Debugger, NEW o \in DOMAIN s.obj, NEW on \in BOOLEAN
  PROVE  Switched(s, Switch(s, o, on), o, on)
<1> DEFINE a == s.obj[o].addr
           t == Touch(s, {o})
           w == [t EXCEPT !.obj[o].on = on,
                          !.ghost = IF o \in s.owned THEN @ ELSE @ \cup {a},
                          !.traps = IF on THEN @ \cup {a} ELSE @ \ {a}]
<1>1. Same(s, t) /\ t.err = s.err
  BY TouchDoes
<1>2. s.obj \in Seq(Site) /\ s.obj[o] \in Site /\ a \in Addr /\ t \in Debugger
  <2>1. s.obj \in Seq(Site) /\ t \in Debugger
    BY <1>1 DEF Debugger, Same
  <2>2. s.obj[o] \in Site
    BY <2>1, Element
  <2> QED BY <2>1, <2>2 DEF Site
<1>3. CASE s.obj[o].on = on
  <2>1. Switch(s, o, on) = t
    BY <1>3 DEF Switch
  <2> HIDE DEF t
  <2> QED BY <1>1, <1>3, <2>1 DEF Switched, Same
<1>4. CASE s.obj[o].on # on /\ Home[a] \notin s.mapped
  <2>1. Switch(s, o, on) = [t EXCEPT !.err = TRUE]
    BY <1>4 DEF Switch
  <2> HIDE DEF t
  <2>2. Same(t, [t EXCEPT !.err = TRUE]) /\ [t EXCEPT !.err = TRUE].err
    BY <1>2, FailDoes
  <2> QED BY <1>1, <2>1, <2>2 DEF Switched, Same
<1>5. CASE s.obj[o].on # on /\ Home[a] \in s.mapped
  <2>1. Switch(s, o, on) = w
    BY <1>5 DEF Switch
  <2> DEFINE obj == [s.obj EXCEPT ![o] = [s.obj[o] EXCEPT !.on = on]]
  <2>2. /\ obj \in Seq(Site) /\ DOMAIN obj = DOMAIN s.obj
        /\ \A p \in DOMAIN s.obj : p # o => obj[p] = s.obj[p]
        /\ obj[o].addr = a /\ obj[o].parent = s.obj[o].parent /\ obj[o].on = on
    <3>1. [s.obj[o] EXCEPT !.on = on] \in Site
      BY <1>2 DEF Site
    <3>2. s.obj[o].addr = [s.obj[o] EXCEPT !.on = on].addr
          /\ s.obj[o].parent = [s.obj[o] EXCEPT !.on = on].parent
          /\ [s.obj[o] EXCEPT !.on = on].on = on
      BY <1>2 DEF Site
    <3>3. obj \in Seq(Site)
      BY <1>2, <3>1, ExceptSeq
    <3> QED BY <1>2, <3>2, <3>3
  <2>3. /\ w \in Debugger
        /\ w.elves = t.elves /\ w.mapped = t.mapped /\ w.bps = t.bps /\ w.owned = t.owned
        /\ w.rdv = t.rdv /\ w.uid = t.uid /\ w.id = t.id /\ w.err = t.err
        /\ w.obj = obj
        /\ w.ghost = IF o \in s.owned THEN t.ghost ELSE t.ghost \cup {a}
        /\ w.traps = IF on THEN t.traps \cup {a} ELSE t.traps \ {a}
    <3>1. t.obj = s.obj
      BY <1>1 DEF Same
    <3> HIDE DEF t, a
    <3>2. w.obj = obj
      BY <1>2, <3>1 DEF Debugger
    <3> HIDE DEF obj
    <3> QED BY <1>2, <2>2, <3>2 DEF Debugger
  <2> HIDE DEF w, t, obj
  <2> QED BY <1>1, <2>1, <2>2, <2>3 DEF Switched, Same
<1> QED BY <1>3, <1>4, <1>5

LEMMA SameKeeps ==
  ASSUME NEW s, NEW t, NEW lost, NEW n, Sound(s, lost, n), Same(s, t)
  PROVE  Sound(t, lost, n)
<1>1. Linked(t)
  BY DEF Sound, Same, Linked, Lists
<1>2. Parented(t, lost)
  BY DEF Sound, Same, Parented
<1>3. Trapped(t, n) /\ Covered(t)
  BY DEF Sound, Same, Trapped, Covered
<1> QED BY <1>1, <1>2, <1>3 DEF Sound

LEMMA SwitchKeeps ==
  ASSUME NEW s, NEW t, NEW lost, NEW n, NEW o \in DOMAIN s.obj, NEW on \in BOOLEAN,
         Sound(s, lost, n), Switched(s, t, o, on)
  PROVE  Sound(t, lost, n)
<1>1. Linked(t)
  <2>1. ASSUME NEW i \in DOMAIN s.bps PROVE Lists(t, i)
    <3>1. Lists(s, i)
      BY DEF Sound, Linked
    <3> QED BY <3>1 DEF Lists, Switched
  <2>2. \A p, q \in t.owned : t.obj[p].addr = t.obj[q].addr => p = q
    <3>1. \A p, q \in s.owned : s.obj[p].addr = s.obj[q].addr => p = q
      BY DEF Sound, Linked
    <3>2. s.owned \subseteq DOMAIN s.obj
      BY DEF Sound, Linked
    <3> QED BY <3>1, <3>2 DEF Switched
  <2> QED BY <2>1, <2>2 DEF Sound, Linked, Switched
<1>2. Parented(t, lost)
  <2>1. s.owned \subseteq DOMAIN s.obj
    BY DEF Sound, Linked
  <2> QED BY <2>1 DEF Sound, Switched, Parented
<1>3. s.owned \subseteq DOMAIN s.obj /\ \A p, q \in s.owned : s.obj[p].addr = s.obj[q].addr => p = q
  BY DEF Sound, Linked
<1> DEFINE a == s.obj[o].addr
<1>4. Trapped(t, n)
  <2> SUFFICES ASSUME NEW p \in s.owned, s.obj[p].addr \notin t.ghost
               PROVE  LET b == s.obj[p].addr
                      IN  /\ b \in t.traps => t.obj[p].on
                          /\ t.obj[p].on => \/ b \in t.traps \/ n[Home[b]] > 1
                                            \/ Home[b] \notin s.mapped /\ n[Home[b]] >= 1
    BY <1>3 DEF Trapped, Switched
  <2>1. s.obj[p].addr \notin s.ghost
    BY DEF Switched
  <2>2. LET b == s.obj[p].addr
        IN  /\ b \in s.traps => s.obj[p].on
            /\ s.obj[p].on => \/ b \in s.traps \/ n[Home[b]] > 1
                              \/ Home[b] \notin s.mapped /\ n[Home[b]] >= 1
    BY <2>1 DEF Sound, Trapped
  <2>3. CASE p = o
    BY <2>2, <2>3 DEF Switched
  <2>4. CASE p # o
    <3>1. t.obj[p].on = s.obj[p].on
      BY <1>3, <2>4 DEF Switched
    <3>2. s.obj[p].addr \in t.traps <=> s.obj[p].addr \in s.traps
      <4>1. CASE o \in s.owned
        <5>1. s.obj[p].addr # a
          BY <1>3, <2>4, <4>1
        <5> QED BY <5>1 DEF Switched
      <4>2. CASE o \notin s.owned
        BY <4>2 DEF Switched
      <4> QED BY <4>1, <4>2
    <3> QED BY <2>2, <3>1, <3>2
  <2> QED BY <2>3, <2>4
<1>5. Covered(t)
  <2> SUFFICES ASSUME NEW b \in t.traps, b \notin t.ghost
               PROVE  \E p \in s.owned : s.obj[p].addr = b
    BY <1>3 DEF Covered, Switched
  <2>1. CASE b \in s.traps /\ b \notin s.ghost
    BY <2>1 DEF Sound, Covered
  <2>2. CASE ~(b \in s.traps /\ b \notin s.ghost)
    BY <2>2 DEF Switched
  <2> QED BY <2>1, <2>2
<1> QED BY <1>1, <1>2, <1>4, <1>5 DEF Sound

(* What a handler may do to the breakpoints and the heap: breakpoints get  *)
(* sites, and sites keep their addresses and parents.                      *)
Extends(s, t) ==
  /\ t.elves = s.elves /\ t.mapped = s.mapped /\ t.rdv = s.rdv
  /\ t.uid = s.uid /\ t.id = s.id
  /\ DOMAIN t.bps = DOMAIN s.bps
  /\ \A i \in DOMAIN s.bps :
       /\ t.bps[i].uid = s.bps[i].uid /\ t.bps[i].id = s.bps[i].id
       /\ t.bps[i].kind = s.bps[i].kind /\ t.bps[i].spec = s.bps[i].spec
       /\ t.bps[i].on = s.bps[i].on
       /\ \A k \in DOMAIN s.bps[i].sites :
            k \in DOMAIN t.bps[i].sites /\ t.bps[i].sites[k] = s.bps[i].sites[k]
  /\ \A o \in DOMAIN s.obj :
       /\ o \in DOMAIN t.obj
       /\ t.obj[o].addr = s.obj[o].addr /\ t.obj[o].parent = s.obj[o].parent

(* The other breakpoints are left alone. *)
OthersSame(s, t, i) == \A j \in DOMAIN s.bps : j # i => t.bps[j] = s.bps[j]

LEMMA SameExtends ==
  ASSUME NEW s, NEW t, Same(s, t)
  PROVE  Extends(s, t) /\ \A i : OthersSame(s, t, i)
BY DEF Same, Extends, OthersSame

LEMMA SwitchExtends ==
  ASSUME NEW s, NEW t, NEW o, NEW on, Switched(s, t, o, on)
  PROVE  Extends(s, t) /\ \A i : OthersSame(s, t, i)
BY DEF Switched, Extends, OthersSame

LEMMA ExtendsTwice ==
  ASSUME NEW s, NEW t, NEW u, Extends(s, t), Extends(t, u)
  PROVE  /\ Extends(s, u)
         /\ \A i : OthersSame(s, t, i) /\ OthersSame(t, u, i) => OthersSame(s, u, i)
<1>1. Extends(s, u)
  BY DEF Extends
<1>2. \A i : OthersSame(s, t, i) /\ OthersSame(t, u, i) => OthersSame(s, u, i)
  BY DEF Extends, OthersSame
<1> QED BY <1>1, <1>2

(* What a breakpoint has been resolved to, it stays resolved to. *)
LEMMA SitesStay ==
  ASSUME NEW s, NEW t, Linked(s), Extends(s, t), NEW i \in DOMAIN s.bps
  PROVE  /\ \A a : HasSite(s, i, a) => HasSite(t, i, a)
         /\ ResolvedOne(s, i) => ResolvedOne(t, i)
<1>1. ASSUME NEW a, HasSite(s, i, a) PROVE HasSite(t, i, a)
  <2>1. PICK k \in DOMAIN s.bps[i].sites : s.obj[s.bps[i].sites[k]].addr = a
    BY <1>1 DEF HasSite
  <2>2. s.bps[i].sites[k] \in DOMAIN s.obj
    BY DEF Linked, Lists
  <2>3. /\ k \in DOMAIN t.bps[i].sites /\ t.bps[i].sites[k] = s.bps[i].sites[k]
        /\ t.obj[s.bps[i].sites[k]].addr = s.obj[s.bps[i].sites[k]].addr
    BY <2>2 DEF Extends
  <2> QED BY <2>1, <2>3 DEF HasSite
<1>2. Addresses(t, t.bps[i].spec) = Addresses(s, s.bps[i].spec)
  <2>1. t.elves = s.elves /\ t.bps[i].spec = s.bps[i].spec
    BY DEF Extends
  <2>2. ASSUME NEW f PROVE FindFunctions(t, f) = FindFunctions(s, f)
    BY <2>1 DEF FindFunctions
  <2>3. ASSUME NEW f PROVE LineEntries(t, f) = LineEntries(s, f)
    BY <2>1 DEF LineEntries
  <2> QED BY <2>1, <2>2, <2>3 DEF Addresses
<1>3. t.bps[i].kind = s.bps[i].kind
  BY DEF Extends
<1> QED BY <1>1, <1>2, <1>3 DEF ResolvedOne

(* A site built for its parent, which does not list it yet. *)
Built(s, t, a, parent) ==
  LET o == Len(s.obj) + 1
  IN  /\ t \in Debugger
      /\ t.elves = s.elves /\ t.mapped = s.mapped /\ t.bps = s.bps /\ t.traps = s.traps
      /\ t.rdv = s.rdv /\ t.uid = s.uid /\ t.id = s.id /\ t.ghost = s.ghost
      /\ t.err = s.err
      /\ t.owned = s.owned \cup {o} /\ o \notin DOMAIN s.obj /\ o = Len(t.obj) /\ o \in Nat
      /\ DOMAIN t.obj = DOMAIN s.obj \cup {o}
      /\ \A p \in DOMAIN s.obj : t.obj[p] = s.obj[p]
      /\ t.obj[o].addr = a /\ t.obj[o].parent = parent /\ t.obj[o].on = FALSE
      /\ \A p \in s.owned : s.obj[p].addr # a

LEMMA CreateDoes ==
  ASSUME NEW s \in Debugger, NEW a \in Addr, NEW parent \in Nat
  PROVE  \/ Built(s, CreateSite(s, a, parent), a, parent)
         \/ Same(s, CreateSite(s, a, parent)) /\ CreateSite(s, a, parent).err
<1> DEFINE e == [addr |-> a, parent |-> parent, on |-> FALSE]
           t == [s EXCEPT !.obj = Append(@, e), !.owned = @ \cup {Len(s.obj) + 1}]
<1>1. CASE SitesAt(s, a) # {}
  <2>1. CreateSite(s, a, parent) = [s EXCEPT !.err = TRUE]
    BY <1>1 DEF CreateSite
  <2> QED BY <2>1, FailDoes
<1>2. CASE SitesAt(s, a) = {}
  <2>1. CreateSite(s, a, parent) = t
    BY <1>2 DEF CreateSite
  <2>2. s.obj \in Seq(Site) /\ e \in Site /\ s.owned \in SUBSET Nat
    BY DEF Debugger, Site
  <2>3. e.addr = a /\ e.parent = parent /\ e.on = FALSE
    OBVIOUS
  <2> HIDE DEF e
  <2> DEFINE q == Append(s.obj, e)
             m == Len(s.obj)
  <2>4. /\ q \in Seq(Site) /\ Len(q) = m + 1 /\ m \in Nat
        /\ \A p \in 1 .. m : q[p] = s.obj[p]
        /\ q[m + 1] = e /\ DOMAIN q = 1 .. m + 1 /\ DOMAIN s.obj = 1 .. m
    BY <2>2, AppendProperties, LenProperties
  <2>5. /\ t \in Debugger
        /\ t.elves = s.elves /\ t.mapped = s.mapped /\ t.bps = s.bps /\ t.traps = s.traps
        /\ t.rdv = s.rdv /\ t.uid = s.uid /\ t.id = s.id /\ t.ghost = s.ghost /\ t.err = s.err
        /\ t.owned = s.owned \cup {m + 1} /\ t.obj = q
    <3> HIDE DEF q
    <3> DEFINE w == s.owned \cup {m + 1}
               r == [s EXCEPT !.obj = q, !.owned = w]
    <3>1. t = r
      BY DEF q
    <3>2. w \in SUBSET Nat /\ s.owned \cup {m + 1} = w
      BY <2>2, <2>4
    <3> HIDE DEF t, m, w
    <3>3. r \in Debugger
      BY <2>4, <3>2 DEF Debugger
    <3>4. r.obj = q /\ r.owned = w
      BY DEF Debugger
    <3> QED BY <3>1, <3>2, <3>3, <3>4
  <2>6. \A p \in s.owned : s.obj[p].addr # a
    BY <1>2 DEF SitesAt
  <2> HIDE DEF q, t
  <2>7. m + 1 \notin 1 .. m /\ 1 .. m + 1 = 1 .. m \cup {m + 1} /\ m + 1 \in Nat
    BY <2>4
  <2>8. Built(s, t, a, parent)
    BY <2>3, <2>4, <2>5, <2>6, <2>7 DEF Built
  <2> QED BY <2>1, <2>8
<1> QED BY <1>1, <1>2

(* A breakpoint has got the site built last. *)
Attached(c, u, i) ==
  /\ u \in Debugger
  /\ u.elves = c.elves /\ u.mapped = c.mapped /\ u.obj = c.obj /\ u.traps = c.traps
  /\ u.owned = c.owned /\ u.rdv = c.rdv /\ u.uid = c.uid /\ u.id = c.id
  /\ u.ghost = c.ghost /\ u.err = c.err
  /\ DOMAIN u.bps = DOMAIN c.bps
  /\ \A j \in DOMAIN c.bps : j # i => u.bps[j] = c.bps[j]
  /\ u.bps[i].uid = c.bps[i].uid /\ u.bps[i].id = c.bps[i].id
  /\ u.bps[i].kind = c.bps[i].kind /\ u.bps[i].spec = c.bps[i].spec
  /\ u.bps[i].on = c.bps[i].on
  /\ LET k == Len(c.bps[i].sites) + 1
     IN  /\ DOMAIN u.bps[i].sites = DOMAIN c.bps[i].sites \cup {k}
         /\ k \notin DOMAIN c.bps[i].sites
         /\ u.bps[i].sites[k] = Len(c.obj)
         /\ \A l \in DOMAIN c.bps[i].sites : u.bps[i].sites[l] = c.bps[i].sites[l]

LEMMA AttachDoes ==
  ASSUME NEW c \in Debugger, NEW i \in DOMAIN c.bps
  PROVE  Attached(c, [c EXCEPT !.bps[i].sites = Append(@, Len(c.obj))], i)
<1> DEFINE o == Len(c.obj)
           old == c.bps[i].sites
           k == Len(old)
           b == [c.bps[i] EXCEPT !.sites = Append(@, o)]
           bps == [c.bps EXCEPT ![i] = b]
           u == [c EXCEPT !.bps = bps]
<1>1. c.bps \in Seq(Breakpoint) /\ c.bps[i] \in Breakpoint /\ o \in Nat /\ i \in 1 .. Len(c.bps)
      /\ DOMAIN c.bps = 1 .. Len(c.bps)
  <2>1. c.bps \in Seq(Breakpoint) /\ c.obj \in Seq(Site)
    BY DEF Debugger
  <2> QED BY <2>1, Element, LenProperties
<1>2. old \in Seq(Nat)
  BY <1>1 DEF Breakpoint
<1>3. /\ Append(old, o) \in Seq(Nat) /\ Len(Append(old, o)) = k + 1 /\ k \in Nat
      /\ \A l \in 1 .. k : Append(old, o)[l] = old[l]
      /\ Append(old, o)[k + 1] = o /\ DOMAIN Append(old, o) = 1 .. k + 1 /\ DOMAIN old = 1 .. k
  <2> HIDE DEF old, o
  <2> QED BY <1>1, <1>2, AppendProperties, LenProperties
<1>4. /\ b \in Breakpoint /\ b.uid = c.bps[i].uid /\ b.id = c.bps[i].id
      /\ b.kind = c.bps[i].kind /\ b.spec = c.bps[i].spec /\ b.on = c.bps[i].on
      /\ b.sites = Append(old, o)
  <2> DEFINE q == Append(old, o)
  <2>1. b = [c.bps[i] EXCEPT !.sites = q]
    OBVIOUS
  <2> HIDE DEF q, b
  <2>2. q \in Seq(Nat)
    BY <1>3 DEF q
  <2>3. b.sites = q
    BY <1>1, <2>1 DEF Breakpoint
  <2>4. b \in Breakpoint
    BY <1>1, <2>1, <2>2 DEF Breakpoint
  <2>5. b.uid = c.bps[i].uid /\ b.id = c.bps[i].id
        /\ b.kind = c.bps[i].kind /\ b.spec = c.bps[i].spec /\ b.on = c.bps[i].on
    BY <1>1, <2>1 DEF Breakpoint
  <2> QED BY <2>3, <2>4, <2>5 DEF q
<1>5. /\ bps \in Seq(Breakpoint) /\ DOMAIN bps = DOMAIN c.bps /\ bps[i] = b
      /\ \A j \in DOMAIN c.bps : j # i => bps[j] = c.bps[j]
  <2> HIDE DEF b
  <2>1. bps \in Seq(Breakpoint)
    BY <1>1, <1>4, ExceptSeq
  <2> QED BY <1>1, <2>1
<1>6. /\ u \in Debugger
      /\ u.elves = c.elves /\ u.mapped = c.mapped /\ u.obj = c.obj /\ u.traps = c.traps
      /\ u.owned = c.owned /\ u.rdv = c.rdv /\ u.uid = c.uid /\ u.id = c.id
      /\ u.ghost = c.ghost /\ u.err = c.err /\ u.bps = bps
  <2> HIDE DEF bps
  <2> QED BY <1>5 DEF Debugger
<1>7. [c EXCEPT !.bps[i].sites = Append(@, Len(c.obj))] = u
  OBVIOUS
<1>8. k + 1 \notin 1 .. k /\ 1 .. k + 1 = 1 .. k \cup {k + 1}
  BY <1>3
<1> HIDE DEF u, bps, b
<1>9. Attached(c, u, i)
  BY <1>3, <1>4, <1>5, <1>6, <1>8 DEF Attached
<1> QED BY <1>7, <1>9

(* A site of breakpoint i has been built at a; it is still disabled. *)
LEMMA AddKeeps ==
  ASSUME NEW s, NEW c, NEW u, NEW lost, NEW n, NEW i \in DOMAIN s.bps, NEW a \in Addr,
         Sound(s, lost, n), Built(s, c, a, s.bps[i].uid), Attached(c, u, i)
  PROVE  /\ Sound(u, lost, n) /\ Extends(s, u) /\ OthersSame(s, u, i) /\ HasSite(u, i, a)
         /\ Len(u.obj) \in DOMAIN u.obj /\ u.err = s.err
<1> DEFINE o == Len(s.obj) + 1
           k == Len(c.bps[i].sites) + 1
<1>1. c.bps = s.bps
  BY DEF Built
<1>2. Extends(s, u) /\ OthersSame(s, u, i)
  <2>1. \A p \in DOMAIN s.obj : p \in DOMAIN u.obj /\ u.obj[p] = s.obj[p]
    BY DEF Built, Attached
  <2>2. \A j \in DOMAIN s.bps : \A l \in DOMAIN s.bps[j].sites :
          l \in DOMAIN u.bps[j].sites /\ u.bps[j].sites[l] = s.bps[j].sites[l]
    BY <1>1 DEF Attached
  <2>3. OthersSame(s, u, i)
    BY <1>1 DEF Attached, OthersSame
  <2>4. \A j \in DOMAIN s.bps : 
           /\ u.bps[j].uid = s.bps[j].uid /\ u.bps[j].id = s.bps[j].id
           /\ u.bps[j].kind = s.bps[j].kind /\ u.bps[j].spec = s.bps[j].spec
           /\ u.bps[j].on = s.bps[j].on
    BY <1>1 DEF Attached
  <2>5. u.elves = s.elves /\ u.mapped = s.mapped /\ u.rdv = s.rdv /\ u.uid = s.uid
        /\ u.id = s.id /\ DOMAIN u.bps = DOMAIN s.bps
    BY DEF Built, Attached
  <2> QED BY <2>1, <2>2, <2>3, <2>4, <2>5 DEF Extends
<1>3. /\ u.owned = s.owned \cup {o} /\ o \notin DOMAIN s.obj /\ o = Len(u.obj)
      /\ DOMAIN u.obj = DOMAIN s.obj \cup {o}
      /\ \A p \in DOMAIN s.obj : u.obj[p] = s.obj[p]
      /\ u.obj[o].addr = a /\ u.obj[o].parent = s.bps[i].uid /\ u.obj[o].on = FALSE
      /\ \A p \in s.owned : s.obj[p].addr # a
      /\ u.traps = s.traps /\ u.ghost = s.ghost /\ u.err = s.err
  BY DEF Built, Attached
<1>4. k \in DOMAIN u.bps[i].sites /\ u.bps[i].sites[k] = o
  BY <1>3 DEF Built, Attached
<1>5. s.owned \subseteq DOMAIN s.obj
  BY DEF Sound, Linked
<1>6. HasSite(u, i, a)
  BY <1>3, <1>4 DEF HasSite
<1>7. Linked(u)
  <2>1. ASSUME NEW j \in DOMAIN s.bps PROVE Lists(u, j)
    <3>1. Lists(s, j)
      BY DEF Sound, Linked
    <3>2. SpecTyped(u.bps[j]) /\ u.bps[j].uid <= u.uid /\ u.bps[j].uid # 0
      BY <1>2, <3>1 DEF Lists, SpecTyped, Extends
    <3>3. CASE j # i
      <4>1. u.bps[j] = s.bps[j]
        BY <1>2, <3>3 DEF OthersSame
      <4> QED BY <1>3, <3>1, <3>2, <4>1 DEF Lists
    <3>4. CASE j = i
      <4> SUFFICES ASSUME NEW l \in DOMAIN u.bps[i].sites
                   PROVE  /\ u.bps[i].sites[l] \in DOMAIN u.obj
                          /\ u.obj[u.bps[i].sites[l]].parent = u.bps[i].uid
        BY <3>2, <3>4 DEF Lists
      <4>1. u.bps[i].uid = s.bps[i].uid
        BY <1>2, SMTT(30) DEF Extends
      <4>2. CASE l = k
        BY <1>3, <1>4, <4>1, <4>2
      <4>3. CASE l # k
        <5>1. l \in DOMAIN s.bps[i].sites /\ u.bps[i].sites[l] = s.bps[i].sites[l]
          BY <1>1, <4>3 DEF Attached
        <5>2. s.bps[i].sites[l] \in DOMAIN s.obj /\ s.obj[s.bps[i].sites[l]].parent = s.bps[i].uid
          BY <3>1, <3>4, <5>1 DEF Lists
        <5> QED BY <1>3, <4>1, <5>1, <5>2
      <4> QED BY <4>2, <4>3
    <3> QED BY <3>3, <3>4
  <2>2. \A p, q \in u.owned : u.obj[p].addr = u.obj[q].addr => p = q
    <3>1. \A p, q \in s.owned : s.obj[p].addr = s.obj[q].addr => p = q
      BY DEF Sound, Linked
    <3> QED BY <1>3, <1>5, <3>1
  <2>3. \A j, l \in DOMAIN u.bps : u.bps[j].uid = u.bps[l].uid => j = l
    <3>1. \A j, l \in DOMAIN s.bps : s.bps[j].uid = s.bps[l].uid => j = l
      BY DEF Sound, Linked
    <3> QED BY <1>2, <3>1 DEF Extends
  <2>4. u.elves = s.elves /\ u.mapped = s.mapped /\ DOMAIN u.bps = DOMAIN s.bps
    BY <1>2 DEF Extends
  <2>5. {Main, Linker, Vdso} \subseteq u.mapped /\ Main \in ToSet(u.elves)
    BY <2>4 DEF Sound, Linked
  <2>6. u \in Debugger
    BY DEF Attached
  <2>7. u.owned \subseteq DOMAIN u.obj
    BY <1>3, <1>5
  <2>8. \A j \in DOMAIN u.bps : Lists(u, j)
    BY <2>1, <2>4
  <2> QED BY <2>2, <2>3, <2>5, <2>6, <2>7, <2>8 DEF Linked
<1>8. Parented(u, lost)
  <2> SUFFICES ASSUME NEW p \in u.owned, u.obj[p].parent \notin {0} \cup lost
               PROVE  \E j \in DOMAIN u.bps :
                        u.bps[j].uid = u.obj[p].parent /\ p \in ToSet(u.bps[j].sites)
    BY DEF Parented
  <2>1. CASE p = o
    <3>1. o \in ToSet(u.bps[i].sites)
      BY <1>4 DEF ToSet
    <3>2. i \in DOMAIN u.bps /\ u.bps[i].uid = s.bps[i].uid
      BY <1>2 DEF Extends
    <3> QED BY <1>3, <2>1, <3>1, <3>2
  <2>2. CASE p # o
    <3>1. p \in s.owned /\ u.obj[p] = s.obj[p]
      BY <1>3, <1>5, <2>2
    <3>2. PICK j \in DOMAIN s.bps :
             s.bps[j].uid = s.obj[p].parent /\ p \in ToSet(s.bps[j].sites)
      BY <3>1 DEF Sound, Parented
    <3>3. PICK l \in DOMAIN s.bps[j].sites : p = s.bps[j].sites[l]
      BY <3>2 DEF ToSet
    <3>4. l \in DOMAIN u.bps[j].sites /\ u.bps[j].sites[l] = p
          /\ j \in DOMAIN u.bps /\ u.bps[j].uid = s.bps[j].uid
      BY <1>2, <3>3 DEF Extends
    <3>5. p \in ToSet(u.bps[j].sites)
      BY <3>4 DEF ToSet
    <3> QED BY <3>1, <3>2, <3>4, <3>5
  <2> QED BY <2>1, <2>2
<1>9. Covered(u) /\ Trapped(u, n)
  <2>1. a \in Addr /\ u.mapped = s.mapped
    BY <1>2 DEF Extends
  <2>2. Covered(s) /\ Trapped(s, n)
    BY DEF Sound
  <2>3. Covered(u)
    BY <1>3, <1>5, <2>2 DEF Covered
  <2>4. a \notin s.ghost => a \notin s.traps
    BY <1>3, <2>2 DEF Covered
  <2>5. Trapped(u, n)
    <3> SUFFICES ASSUME NEW p \in u.owned, u.obj[p].addr \notin u.ghost
                 PROVE  LET b == u.obj[p].addr
                        IN  /\ b \in u.traps => u.obj[p].on
                            /\ u.obj[p].on => \/ b \in u.traps \/ n[Home[b]] > 1
                                              \/ Home[b] \notin u.mapped /\ n[Home[b]] >= 1
      BY DEF Trapped
    <3>1. CASE p = o
      BY <1>3, <2>4, <3>1
    <3>2. CASE p # o
      <4>1. p \in s.owned /\ u.obj[p] = s.obj[p] /\ s.obj[p].addr \notin s.ghost
        BY <1>3, <1>5, <3>2
      <4>2. u.traps = s.traps
        BY <1>3
      <4> QED BY <2>1, <2>2, <4>1, <4>2 DEF Trapped
    <3> QED BY <3>1, <3>2
  <2> QED BY <2>3, <2>5
<1>10. Len(u.obj) \in DOMAIN u.obj
  BY <1>3
<1> QED BY <1>2, <1>3, <1>6, <1>7, <1>8, <1>9, <1>10 DEF Sound

LEMMA SameFollows ==
  ASSUME NEW s, NEW t, NEW byHand, Same(s, t), t.err \/ ~s.err, Follows(s, byHand)
  PROVE  Follows(t, byHand)
BY DEF Same, Follows, FollowsOne

(* A new site that is as its breakpoint is. *)
LEMMA AddFollows ==
  ASSUME NEW s, NEW u, NEW t, NEW i \in DOMAIN s.bps, NEW o, NEW byHand,
         Linked(s), Follows(s, byHand), ~s.err,
         o \notin DOMAIN s.obj, t.owned = s.owned \cup {o}, t.bps = u.bps,
         DOMAIN u.bps = DOMAIN s.bps, OthersSame(s, u, i),
         u.bps[i].on = s.bps[i].on,
         ToSet(u.bps[i].sites) = ToSet(s.bps[i].sites) \cup {o},
         \A p \in DOMAIN s.obj : t.obj[p].on = s.obj[p].on,
         t.obj[o].on = s.bps[i].on
  PROVE  Follows(t, byHand)
<1>1. s.owned \subseteq DOMAIN s.obj
  BY DEF Linked
<1>2. ASSUME NEW j \in DOMAIN s.bps PROVE FollowsOne(t, byHand, j)
  <2> SUFFICES ASSUME NEW p \in ToSet(u.bps[j].sites), p \in t.owned, p \notin byHand
               PROVE  t.obj[p].on = u.bps[j].on
    BY DEF FollowsOne
  <2>1. FollowsOne(s, byHand, j)
    BY DEF Follows
  <2>2. CASE p = o
    <3>1. j = i
      <4>1. \A k \in DOMAIN s.bps[j].sites : s.bps[j].sites[k] \in DOMAIN s.obj
        BY DEF Linked, Lists
      <4>2. j # i => u.bps[j] = s.bps[j]
        BY DEF OthersSame
      <4> QED BY <2>2, <4>1, <4>2 DEF ToSet
    <3> QED BY <2>2, <3>1
  <2>3. CASE p # o
    <3>1. p \in s.owned /\ t.obj[p].on = s.obj[p].on
      BY <1>1, <2>3
    <3>2. p \in ToSet(s.bps[j].sites) /\ u.bps[j].on = s.bps[j].on
      BY <2>3 DEF OthersSame
    <3> QED BY <2>1, <3>1, <3>2 DEF FollowsOne
  <2> QED BY <2>2, <2>3
<1> QED BY <1>2 DEF Follows

(* One address of resolve. *)
LEMMA ResolveAtKeeps ==
  ASSUME NEW s, NEW lost, NEW n, NEW byHand, NEW i \in DOMAIN s.bps, NEW a \in Addr,
         Sound(s, lost, n), ~s.err
  PROVE  LET t == ResolveAt(s, i, a)
         IN  /\ Sound(t, lost, n) /\ Extends(s, t) /\ OthersSame(s, t, i)
             /\ ~t.err => HasSite(t, i, a)
             /\ Follows(s, byHand) => Follows(t, byHand)
<1> DEFINE mine == s.bps[i].sites
           w == Touch(s, ToSet(mine))
           c == CreateSite(w, a, s.bps[i].uid)
           u == [c EXCEPT !.bps[i].sites = Append(@, Len(c.obj))]
           t == ResolveAt(s, i, a)
<1>1. s \in Debugger /\ s.bps[i].uid \in Nat /\ s.bps[i].on \in BOOLEAN
  <2>1. s \in Debugger /\ s.bps \in Seq(Breakpoint)
    BY DEF Sound, Linked, Debugger
  <2>2. s.bps[i] \in Breakpoint
    BY <2>1, Element
  <2> QED BY <2>1, <2>2 DEF Breakpoint
<1>2. Same(s, w) /\ ~w.err
  BY <1>1, TouchDoes
<1>3. Sound(w, lost, n) /\ Extends(s, w) /\ OthersSame(s, w, i)
  BY <1>2, SameKeeps, SameExtends
<1>4. Follows(s, byHand) => Follows(w, byHand)
  BY <1>2, SameFollows
<1>5. \/ Built(w, c, a, s.bps[i].uid)
      \/ Same(w, c) /\ c.err
  <2>1. w \in Debugger
    BY <1>2 DEF Same
  <2> HIDE DEF w
  <2> QED BY <1>1, <2>1, CreateDoes
<1>6. t = IF \E o \in ToSet(mine) : s.obj[o].addr = a THEN w
          ELSE IF c.err THEN c
          ELSE IF u.bps[i].on THEN Switch(u, Len(u.obj), TRUE) ELSE u
  BY DEF ResolveAt
<1> HIDE DEF t, w, c
<1>7. CASE \E o \in ToSet(mine) : s.obj[o].addr = a
  <2>1. t = w
    BY <1>6, <1>7
  <2>2. PICK k \in DOMAIN mine : s.obj[mine[k]].addr = a
    BY <1>7 DEF ToSet
  <2>3. HasSite(w, i, a)
    BY <1>2, <2>2 DEF HasSite, Same
  <2> QED BY <1>3, <1>4, <2>1, <2>3 DEF t
<1>8. CASE ~(\E o \in ToSet(mine) : s.obj[o].addr = a) /\ c.err
  <2>1. t = c
    BY <1>6, <1>8
  <2>2. Same(w, c)
    BY <1>2, <1>5, <1>8 DEF Built
  <2>3. Sound(c, lost, n) /\ Extends(s, c) /\ OthersSame(s, c, i)
    BY <1>3, <2>2, SameKeeps, SameExtends, ExtendsTwice
  <2>4. Follows(c, byHand)
    BY <1>8 DEF Follows
  <2> QED BY <1>8, <2>1, <2>3, <2>4 DEF t
<1>9. CASE ~(\E o \in ToSet(mine) : s.obj[o].addr = a) /\ ~c.err
  <2>1. t = IF u.bps[i].on THEN Switch(u, Len(u.obj), TRUE) ELSE u
    BY <1>6, <1>9
  <2>2. Built(w, c, a, w.bps[i].uid) /\ w.bps = s.bps
    BY <1>2, <1>5, <1>9 DEF Same
  <2>3. Attached(c, u, i)
    <3>1. c \in Debugger /\ c.bps = s.bps
      BY <2>2 DEF Built
    <3> QED BY <3>1, AttachDoes
  <2> HIDE DEF u
  <2> DEFINE o == Len(u.obj)
  <2>4. /\ Sound(u, lost, n) /\ Extends(w, u) /\ OthersSame(w, u, i) /\ HasSite(u, i, a)
        /\ o \in DOMAIN u.obj /\ u.err = w.err
    BY <1>3, <2>2, <2>3, AddKeeps
  <2>5. Extends(s, u) /\ OthersSame(s, u, i)
    BY <1>3, <2>4, ExtendsTwice
  <2>6. /\ u.owned = s.owned \cup {o} /\ o \notin DOMAIN s.obj /\ DOMAIN u.bps = DOMAIN s.bps
        /\ u.bps[i].on = s.bps[i].on /\ \A p \in DOMAIN s.obj : u.obj[p].on = s.obj[p].on
        /\ u.obj[o].on = FALSE
    BY <1>2, <2>2, <2>3 DEF Built, Attached, Same
  <2>7. ToSet(u.bps[i].sites) = ToSet(s.bps[i].sites) \cup {o}
    <3>1. c.bps = s.bps /\ o = Len(c.obj)
      BY <2>2, <2>3 DEF Built, Attached
    <3> DEFINE k == Len(s.bps[i].sites) + 1
    <3>2. /\ DOMAIN u.bps[i].sites = DOMAIN s.bps[i].sites \cup {k}
          /\ k \notin DOMAIN s.bps[i].sites /\ u.bps[i].sites[k] = o
          /\ \A l \in DOMAIN s.bps[i].sites : u.bps[i].sites[l] = s.bps[i].sites[l]
      BY <2>3, <3>1 DEF Attached
    <3> HIDE DEF k, o
    <3> QED BY <3>2 DEF ToSet
  <2>8. Linked(s)
    BY DEF Sound
  <2> HIDE DEF o
  <2>9. CASE u.bps[i].on
    <3> DEFINE v == Switch(u, o, TRUE)
    <3>1. t = v
      BY <2>1, <2>9 DEF o
    <3>2. Switched(u, v, o, TRUE)
      <4>1. u \in Debugger
        BY <2>4 DEF Sound, Linked
      <4> QED BY <2>4, <4>1, SwitchDoes
    <3> HIDE DEF v
    <3>3. Sound(v, lost, n)
      BY <2>4, <3>2, SwitchKeeps
    <3>4. Extends(s, v) /\ OthersSame(s, v, i) /\ HasSite(v, i, a)
      <4>1. Extends(u, v) /\ OthersSame(u, v, i)
        BY <3>2, SwitchExtends
      <4>2. Linked(u) /\ i \in DOMAIN u.bps
        BY <2>4, <2>6 DEF Sound
      <4>3. HasSite(v, i, a)
        BY <2>4, <4>1, <4>2, SitesStay
      <4> QED BY <2>5, <4>1, <4>3, ExtendsTwice
    <3>5. Follows(s, byHand) => Follows(v, byHand)
      <4> SUFFICES ASSUME Follows(s, byHand), ~v.err PROVE Follows(v, byHand)
        BY DEF Follows
      <4>1. /\ v.owned = s.owned \cup {o} /\ v.bps = u.bps
            /\ \A p \in DOMAIN s.obj : v.obj[p].on = s.obj[p].on
            /\ v.obj[o].on = s.bps[i].on
        <5>1. \A p \in DOMAIN s.obj : p \in DOMAIN u.obj /\ p # o
          BY <2>5, <2>6 DEF Extends
        <5>2. v.obj[o].on = TRUE /\ s.bps[i].on = TRUE
          BY <1>1, <2>6, <2>9, <3>2 DEF Switched
        <5> QED BY <2>6, <3>2, <5>1, <5>2 DEF Switched
      <4> QED BY <2>5, <2>6, <2>7, <2>8, <4>1, AddFollows
    <3> QED BY <3>1, <3>3, <3>4, <3>5 DEF t
  <2>10. CASE ~u.bps[i].on
    <3>1. t = u
      BY <2>1, <2>10
    <3>2. u.obj[o].on = s.bps[i].on
      BY <1>1, <2>6, <2>10
    <3>3. Follows(s, byHand) => Follows(u, byHand)
      BY <2>5, <2>6, <2>7, <2>8, <3>2, AddFollows
    <3> QED BY <2>4, <2>5, <3>1, <3>3 DEF t
  <2> QED BY <2>9, <2>10
<1> QED BY <1>7, <1>8, <1>9

-------------------------------------------------------------------------------
(* Where a breakpoint's specification leads. *)

LEMMA ConcatSet ==
  ASSUME NEW S, NEW a \in Seq(S), NEW b \in Seq(S)
  PROVE  a \o b \in Seq(S) /\ ToSet(a \o b) = ToSet(a) \cup ToSet(b)
<1> DEFINE c == a \o b
           m == Len(a)
           l == Len(b)
<1>1. /\ c \in Seq(S) /\ Len(c) = m + l /\ m \in Nat /\ l \in Nat
      /\ \A i \in 1 .. m + l : c[i] = IF i <= m THEN a[i] ELSE b[i - m]
      /\ DOMAIN a = 1 .. m /\ DOMAIN b = 1 .. l /\ DOMAIN c = 1 .. m + l
  <2>1. /\ c \in Seq(S) /\ Len(c) = m + l
        /\ \A i \in 1 .. m + l : c[i] = IF i <= m THEN a[i] ELSE b[i - m]
    BY ConcatProperties
  <2> HIDE DEF c
  <2> QED BY <2>1, LenProperties
<1> HIDE DEF c, m, l
<1>2. \A i \in DOMAIN a : i \in DOMAIN c /\ c[i] = a[i]
  BY <1>1
<1>3. \A i \in DOMAIN b : i + m \in DOMAIN c /\ c[i + m] = b[i]
  <2> SUFFICES ASSUME NEW i \in 1 .. l PROVE i + m \in 1 .. m + l /\ c[i + m] = b[i]
    BY <1>1
  <2>1. i + m \in 1 .. m + l /\ ~(i + m <= m) /\ (i + m) - m = i
    BY <1>1
  <2> QED BY <1>1, <2>1
<1>4. \A i \in DOMAIN c : \/ i \in DOMAIN a /\ c[i] = a[i]
                          \/ i - m \in DOMAIN b /\ c[i] = b[i - m]
  <2> SUFFICES ASSUME NEW i \in 1 .. m + l PROVE \/ i \in 1 .. m /\ c[i] = a[i]
                                                 \/ i - m \in 1 .. l /\ c[i] = b[i - m]
    BY <1>1
  <2>1. CASE i <= m
    BY <1>1, <2>1
  <2>2. CASE ~(i <= m)
    <3>1. i - m \in 1 .. l
      BY <1>1, <2>2
    <3> QED BY <1>1, <2>2, <3>1
  <2> QED BY <2>1, <2>2
<1>5. ToSet(c) = ToSet(a) \cup ToSet(b)
  BY <1>2, <1>3, <1>4 DEF ToSet
<1> QED BY <1>1, <1>5 DEF c

(* FlattenSeq joins sequences: it has their elements and no others. *)
Joined(ss, f) == [i \in 1 .. Len(ss) |-> IF i = 1 THEN ss[i] ELSE f[i - 1] \o ss[i]]

LEMMA FlattenElements ==
  ASSUME NEW S, NEW ss \in Seq(Seq(S))
  PROVE  /\ FlattenSeq(ss) \in Seq(S)
         /\ ToSet(FlattenSeq(ss)) = UNION {ToSet(ss[i]) : i \in DOMAIN ss}
<1> DEFINE K == Len(ss)
           M == K - 1
           Upto(n) == UNION {ToSet(ss[i]) : i \in 1 .. n + 1}
           Good == [n \in 0 .. M |-> {t \in Seq(S) : ToSet(t) = Upto(n)}]
           g == [n \in 1 .. M |-> [t \in Seq(S) |-> t \o ss[n + 1]]]
           F == CHOOSE f : f = Joined(ss, f)
<1>1. K \in Nat /\ DOMAIN ss = 1 .. K /\ \A i \in 1 .. K : ss[i] \in Seq(S)
  BY Element
<1>2. FlattenSeq(ss) = IF K = 0 THEN ss ELSE F[K]
  BY DEF FlattenSeq, Joined
<1>3. CASE K = 0
  <2>1. ss = <<>>
    BY <1>3, EmptySeq
  <2> QED BY <1>1, <1>2, <1>3, <2>1 DEF ToSet
<1>4. CASE K # 0
  <2>1. M \in Nat /\ K \in 1 .. K /\ 1 \in 1 .. K /\ M + 1 = K /\ M \in 0 .. M
    BY <1>1, <1>4
  <2>2. ss[1] \in Good[0]
    <3>1. Upto(0) = ToSet(ss[1])
      OBVIOUS
    <3> QED BY <1>1, <2>1, <3>1
  <2>3. ASSUME NEW n \in 1 .. M, NEW t \in Good[n - 1]
        PROVE  t \in Seq(S) /\ n + 1 \in 1 .. K /\ t \o ss[n + 1] \in Good[n]
    <3>1. n \in Nat /\ n - 1 \in 0 .. M /\ n \in 0 .. M /\ n + 1 \in 1 .. K /\ (n - 1) + 1 = n
          /\ 1 .. n + 1 = 1 .. n \cup {n + 1}
      BY <2>1
    <3>2. t \in Seq(S) /\ ToSet(t) = Upto(n - 1)
      BY <3>1
    <3>3. Upto(n) = Upto(n - 1) \cup ToSet(ss[n + 1])
      BY <3>1
    <3> HIDE DEF Upto
    <3>4. t \o ss[n + 1] \in Seq(S) /\ ToSet(t \o ss[n + 1]) = ToSet(t) \cup ToSet(ss[n + 1])
      BY <1>1, <3>1, <3>2, ConcatSet
    <3> QED BY <3>1, <3>2, <3>3, <3>4
  <2>4. \A n \in 1 .. M : \A t \in Good[n - 1] : g[n][t] \in Good[n]
    <3> HIDE DEF Good, M
    <3> QED BY <2>3
  <2> HIDE DEF g
  <2>5. PICK h : /\ h = Loop(M, ss[1], g, h)
                 /\ \A n \in 0 .. M : h[n] \in Good[n]
    <3> HIDE DEF Good, M
    <3>1. M \in Nat /\ ss[1] \in Good[0] /\ \A n \in 1 .. M : \A t \in Good[n - 1] : g[n][t] \in Good[n]
      BY <2>1, <2>2, <2>4
    <3>2. \E h : /\ h = Loop(M, ss[1], g, h)
                 /\ \A n \in 0 .. M : h[n] \in Good[n]
      BY <3>1, LoopExists, Zenon
    <3> QED BY <3>2, Zenon
  <2> DEFINE f == [i \in 1 .. K |-> h[i - 1]]
  <2>6. f = Joined(ss, f)
    <3>1. ASSUME NEW i \in 1 .. K, i # 1 PROVE f[i] = f[i - 1] \o ss[i]
      <4>1. i - 1 \in 1 .. M /\ i - 1 \in 1 .. K /\ (i - 1) + 1 = i /\ i - 1 \in 0 .. M
            /\ i - 1 # 0 /\ (i - 1) - 1 \in 0 .. M
        BY <2>1, <3>1
      <4>2. f[i] = h[i - 1] /\ f[i - 1] = h[(i - 1) - 1]
        BY <4>1
      <4>3. h[i - 1] = g[i - 1][h[(i - 1) - 1]] /\ h[(i - 1) - 1] \in Good[(i - 1) - 1]
        <5> HIDE DEF Good, M, f
        <5> QED BY <2>5, <4>1 DEF Loop
      <4>4. h[(i - 1) - 1] \in Seq(S)
        <5> HIDE DEF Good, M, f
        <5> QED BY <2>3, <4>1, <4>3
      <4>5. g[i - 1][h[(i - 1) - 1]] = h[(i - 1) - 1] \o ss[i]
        BY <4>1, <4>4 DEF g
      <4> QED BY <4>2, <4>3, <4>5
    <3>2. f[1] = ss[1]
      BY <2>1, <2>5 DEF Loop
    <3>3. f = [i \in 1 .. K |-> f[i]]
      OBVIOUS
    <3> HIDE DEF f
    <3> QED BY <3>1, <3>2, <3>3 DEF Joined
  <2>7. F = Joined(ss, F)
    <3> HIDE DEF f
    <3> QED BY <2>6
  <2> HIDE DEF F
  <2>8. F[1] = ss[1] /\ \A i \in 2 .. K : F[i] = F[i - 1] \o ss[i]
    <3>1. \A i \in 1 .. K : F[i] = IF i = 1 THEN ss[i] ELSE F[i - 1] \o ss[i]
      BY <2>7 DEF Joined
    <3>2. \A i \in 2 .. K : i \in 1 .. K /\ i # 1
      BY <1>1
    <3> HIDE DEF K
    <3> QED BY <2>1, <3>1, <3>2
  <2> DEFINE G == [n \in 0 .. M |-> F[n + 1]]
  <2>9. G[0] \in Good[0]
    <3>1. G[0] = ss[1]
      BY <2>1, <2>8
    <3> QED BY <2>2, <3>1
  <2>10. \A n \in 1 .. M : G[n - 1] \in Good[n - 1] => G[n] \in Good[n]
    <3> SUFFICES ASSUME NEW n \in 1 .. M, G[n - 1] \in Good[n - 1] PROVE G[n] \in Good[n]
      OBVIOUS
    <3>1. n + 1 \in 2 .. K /\ (n + 1) - 1 = n /\ n \in 0 .. M /\ n - 1 \in 0 .. M /\ (n - 1) + 1 = n
      BY <2>1
    <3>2. G[n] = F[n + 1] /\ G[n - 1] = F[n]
      BY <3>1
    <3>3. F[n + 1] = F[n] \o ss[n + 1]
      BY <2>8, <3>1
    <3> HIDE DEF G, Good, M
    <3> QED BY <2>3, <3>2, <3>3
  <2>11. G[M] \in Good[M] /\ G[M] = F[K]
    <3>1. G[M] = F[K]
      BY <2>1
    <3> HIDE DEF G, Good, M
    <3> QED BY <2>1, <2>9, <2>10, <3>1, LoopKeeps
  <2>12. F[K] \in Seq(S) /\ ToSet(F[K]) = Upto(M)
    <3> HIDE DEF G, K
    <3> QED BY <2>1, <2>11
  <2> QED BY <1>1, <1>2, <1>4, <2>1, <2>12
<1> QED BY <1>3, <1>4

(* The addresses a lookup finds in the objects es. *)
Dies(f, es) == UNION {ToSet(f.dwarf[e]) : e \in es}
Plain(f, e) == IF f.dwarf[e] = <<>> THEN f.symbols[e] ELSE <<>>
Syms(f, es) == UNION {ToSet(Plain(f, e)) : e \in es}

Reached(f, es) ==
  IF f.kind = "line" THEN Dies(f, es)
  ELSE IF Dies(f, es) = {} THEN {} ELSE Dies(f, es) \cup Syms(f, es)

LEMMA HeadAndTail ==
  ASSUME NEW S, NEW q \in Seq(S), q # <<>>
  PROVE  /\ Head(q) \in S /\ Tail(q) \in Seq(S) /\ <<Head(q)>> \in Seq(S)
         /\ ToSet(<<Head(q)>>) \cup ToSet(Tail(q)) = ToSet(q)
<1>1. q = <<Head(q)>> \o Tail(q) /\ Head(q) \in S /\ Tail(q) \in Seq(S)
  <2> DEFINE n == Len(q)
  <2>1. n \in Nat /\ n >= 1 /\ 1 \in 1 .. n /\ n \in 1 .. n /\ q[1] = Head(q)
    BY EmptySeq, LenProperties
  <2>2. Head(q) \in S /\ Tail(q) \in Seq(S) /\ Tail(q) = SubSeq(q, 2, n)
    BY HeadTailProperties, TailIsSubSeq
  <2>3. SubSeq(q, 1, n) = <<q[1]>> \o SubSeq(q, 1 + 1, n) /\ SubSeq(q, 1, n) = q
    <3> HIDE DEF n
    <3>1. SubSeq(q, 1, n) = <<q[1]>> \o SubSeq(q, 1 + 1, n)
      BY <2>1, SubSeqRecursiveFirst DEF n
    <3> QED BY <3>1, SubSeqFull DEF n
  <2> HIDE DEF n
  <2> QED BY <2>1, <2>2, <2>3
<1>2. <<Head(q)>> \in Seq(S)
  BY <1>1
<1>3. ToSet(<<Head(q)>> \o Tail(q)) = ToSet(<<Head(q)>>) \cup ToSet(Tail(q))
  <2> DEFINE h == <<Head(q)>>
             t == Tail(q)
  <2>1. h \in Seq(S) /\ t \in Seq(S)
    BY <1>1, <1>2
  <2> HIDE DEF h, t
  <2>2. ToSet(h \o t) = ToSet(h) \cup ToSet(t)
    BY <2>1, ConcatSet
  <2> QED BY <2>2, Zenon DEF h, t
<1> HIDE DEF ToSet
<1>4. ToSet(q) = ToSet(<<Head(q)>> \o Tail(q))
  BY <1>1, Zenon
<1> QED BY <1>1, <1>2, <1>3, <1>4, Zenon

LEMMA EmptyElements ==
  ASSUME NEW S, NEW q \in Seq(S)
  PROVE  q = <<>> <=> ToSet(q) = {}
<1>1. Len(q) \in Nat /\ DOMAIN q = 1 .. Len(q)
  BY Element
<1>2. CASE Len(q) = 0
  <2>1. q = <<>>
    BY <1>2, EmptySeq
  <2>2. ToSet(q) = {}
    BY <1>1, <1>2 DEF ToSet
  <2> QED BY <2>1, <2>2
<1>3. CASE Len(q) # 0
  <2>1. q # <<>>
    BY <1>3
  <2>2. 1 \in DOMAIN q
    BY <1>1, <1>3
  <2>3. q[1] \in ToSet(q)
    BY <2>2 DEF ToSet
  <2> QED BY <2>1, <2>3
<1> QED BY <1>2, <1>3

LEMMA FoundTyped ==
  ASSUME NEW x \in Names
  PROVE  /\ Found[x].kind \in {"line", "function"}
         /\ \A e \in Elf : /\ Found[x].dwarf[e] \in Seq(Addr)
                           /\ Plain(Found[x], e) \in Seq(Addr)
<1>1. /\ Found[x].kind \in {"line", "function"}
      /\ Found[x].dwarf \in [Elf -> Seq(Addr)] /\ Found[x].symbols \in [Elf -> Seq(Addr)]
  BY BreakpointsAssumption
<1>2. <<>> \in Seq(Addr)
  OBVIOUS
<1> QED BY <1>1, <1>2 DEF Plain

(* resolve tries exactly the addresses its lookup reaches. *)
LEMMA AddressesReached ==
  ASSUME NEW s, s.elves \in Seq(Elf), NEW x \in Names
  PROVE  /\ Addresses(s, x) \in Seq(Addr)
         /\ ToSet(Addresses(s, x)) = Reached(Found[x], ToSet(s.elves))
<1> DEFINE f == Found[x]
           dss == [k \in DOMAIN s.elves |-> f.dwarf[s.elves[k]]]
           sss == [k \in DOMAIN s.elves |-> Plain(f, s.elves[k])]
           dies == FlattenSeq(dss)
           syms == FlattenSeq(sss)
           n == Len(s.elves)
<1>1. /\ f.kind \in {"line", "function"}
      /\ \A e \in Elf : f.dwarf[e] \in Seq(Addr) /\ Plain(f, e) \in Seq(Addr)
  BY FoundTyped
<1>2. DOMAIN s.elves = 1 .. n /\ n \in Nat /\ \A k \in 1 .. n : s.elves[k] \in Elf
  BY Element
<1>3. dss \in Seq(Seq(Addr)) /\ sss \in Seq(Seq(Addr))
  <2> HIDE DEF f, n
  <2>1. dss \in [1 .. n -> Seq(Addr)] /\ sss \in [1 .. n -> Seq(Addr)]
    BY <1>1, <1>2
  <2> HIDE DEF dss, sss
  <2> QED BY <1>2, <2>1, SeqDef
<1>4. /\ dies \in Seq(Addr) /\ syms \in Seq(Addr)
      /\ ToSet(dies) = UNION {ToSet(dss[k]) : k \in DOMAIN dss}
      /\ ToSet(syms) = UNION {ToSet(sss[k]) : k \in DOMAIN sss}
  <2> HIDE DEF dss, sss
  <2> QED BY <1>3, FlattenElements
<1>5. ToSet(dies) = Dies(f, ToSet(s.elves)) /\ ToSet(syms) = Syms(f, ToSet(s.elves))
  <2> DEFINE es == ToSet(s.elves)
  <2>0. /\ es = {s.elves[k] : k \in 1 .. n} /\ DOMAIN dss = 1 .. n /\ DOMAIN sss = 1 .. n
        /\ \A k \in 1 .. n : dss[k] = f.dwarf[s.elves[k]] /\ sss[k] = Plain(f, s.elves[k])
    BY <1>2 DEF ToSet
  <2> HIDE DEF f, dss, sss, es, n
  <2>1. {ToSet(dss[k]) : k \in DOMAIN dss} = {ToSet(f.dwarf[e]) : e \in es}
    BY <2>0
  <2>2. {ToSet(sss[k]) : k \in DOMAIN sss} = {ToSet(Plain(f, e)) : e \in es}
    BY <2>0
  <2> QED BY <1>4, <2>1, <2>2 DEF Dies, Syms, es
<1>6. Addresses(s, x) = IF f.kind = "line" THEN dies
                        ELSE IF dies = <<>> THEN <<>>
                        ELSE <<Head(dies)>> \o syms \o Tail(dies)
  BY DEF Addresses, LineEntries, FindFunctions, Plain
<1> HIDE DEF f, dies, syms, dss, sss
<1>7. dies = <<>> <=> ToSet(dies) = {}
  BY <1>4, EmptyElements
<1>8. CASE f.kind = "line"
  BY <1>4, <1>5, <1>6, <1>8 DEF Reached, f
<1>9. CASE f.kind # "line" /\ dies = <<>>
  <2>1. <<>> \in Seq(Addr) /\ ToSet(<<>>) = {}
    BY DEF ToSet
  <2> QED BY <1>5, <1>6, <1>7, <1>9, <2>1 DEF Reached, f
<1>10. CASE f.kind # "line" /\ dies # <<>>
  <2> DEFINE h == <<Head(dies)>>
             l == Tail(dies)
  <2>1. h \in Seq(Addr) /\ l \in Seq(Addr) /\ ToSet(h) \cup ToSet(l) = ToSet(dies)
    BY <1>4, <1>10, HeadAndTail
  <2> HIDE DEF h, l
  <2>2. h \o syms \in Seq(Addr) /\ ToSet(h \o syms) = ToSet(h) \cup ToSet(syms)
    BY <1>4, <2>1, ConcatSet
  <2> DEFINE hs == h \o syms
  <2>3. hs \o l \in Seq(Addr) /\ ToSet(hs \o l) = ToSet(hs) \cup ToSet(l)
    <3>1. hs \in Seq(Addr)
      BY <2>2
    <3> HIDE DEF hs
    <3> QED BY <2>1, <3>1, ConcatSet
  <2>4. Addresses(s, x) = (h \o syms) \o l
    BY <1>6, <1>10 DEF h, l
  <2>5. ToSet(Addresses(s, x)) = ToSet(dies) \cup ToSet(syms)
    BY <2>1, <2>2, <2>3, <2>4
  <2> QED BY <1>5, <1>7, <1>10, <2>3, <2>4, <2>5 DEF Reached, f
<1> QED BY <1>8, <1>9, <1>10

(* More objects, more addresses. *)
LEMMA ReachedGrows ==
  ASSUME NEW f, NEW es, NEW fs, es \subseteq fs
  PROVE  Reached(f, es) \subseteq Reached(f, fs)
<1>1. Dies(f, es) \subseteq Dies(f, fs) /\ Syms(f, es) \subseteq Syms(f, fs)
  BY DEF Dies, Syms
<1> QED BY <1>1 DEF Reached

(* What the resolve functions keep of the record they are called with. *)
Kept(s, t, lost, n, byHand) ==
  /\ Sound(t, lost, n) /\ Extends(s, t)
  /\ Follows(s, byHand) => Follows(t, byHand)

LEMMA KeptTwice ==
  ASSUME NEW s, NEW t, NEW u, NEW lost, NEW n, NEW byHand,
         Kept(s, t, lost, n, byHand), Kept(t, u, lost, n, byHand)
  PROVE  Kept(s, u, lost, n, byHand)
BY ExtendsTwice DEF Kept

Resolves(s, i, xs, f) ==
  [m \in 0 .. Len(xs) |->
    IF m = 0 THEN s
    ELSE IF f[m - 1].err THEN f[m - 1] ELSE ResolveAt(f[m - 1], i, xs[m])]

(* The loop of resolve over the addresses found. *)
LEMMA ResolveLoop ==
  ASSUME NEW s, NEW lost, NEW n, NEW byHand, NEW i \in DOMAIN s.bps, NEW xs \in Seq(Addr),
         Sound(s, lost, n)
  PROVE  LET t == (CHOOSE f : f = Resolves(s, i, xs, f))[Len(xs)]
         IN  /\ Kept(s, t, lost, n, byHand) /\ OthersSame(s, t, i)
             /\ ~t.err => \A a \in ToSet(xs) : HasSite(t, i, a)
<1> DEFINE N == Len(xs)
           Fine(t, m) == /\ Kept(s, t, lost, n, byHand) /\ OthersSame(s, t, i)
                         /\ ~t.err => \A k \in 1 .. m : HasSite(t, i, xs[k])
           Good == [m \in 0 .. N |-> {t \in Debugger : Fine(t, m)}]
           Step(t, m) == IF t.err THEN t ELSE ResolveAt(t, i, xs[m])
           g == [m \in 1 .. N |-> [t \in Debugger |-> Step(t, m)]]
           F == CHOOSE f : f = Resolves(s, i, xs, f)
<1>1. N \in Nat /\ DOMAIN xs = 1 .. N /\ \A k \in 1 .. N : xs[k] \in Addr
  BY Element
<1>2. s \in Debugger /\ s \in Good[0]
  <2>1. Kept(s, s, lost, n, byHand) /\ OthersSame(s, s, i)
    BY DEF Kept, Extends, OthersSame
  <2>2. s \in Debugger
    BY DEF Sound, Linked
  <2> HIDE DEF N
  <2> QED BY <1>1, <2>1, <2>2
<1>3. ASSUME NEW m \in 1 .. N, NEW t \in Good[m - 1]
      PROVE  t \in Debugger /\ Step(t, m) \in Good[m]
  <2>1. m \in Nat /\ m - 1 \in 0 .. N /\ m \in 0 .. N /\ xs[m] \in Addr
        /\ 1 .. m = 1 .. m - 1 \cup {m}
    <3> HIDE DEF N
    <3> QED BY <1>1
  <2>2. t \in Debugger /\ Fine(t, m - 1)
    <3> HIDE DEF Fine
    <3> QED BY <2>1
  <2>3. Fine(Step(t, m), m)
    <3>1. CASE t.err
      BY <2>2, <3>1
    <3>2. CASE ~t.err
      <4> DEFINE u == ResolveAt(t, i, xs[m])
      <4>1. Sound(t, lost, n) /\ i \in DOMAIN t.bps /\ Linked(t)
        BY <2>2 DEF Kept, Extends, Sound
      <4>2. /\ Sound(u, lost, n) /\ Extends(t, u) /\ OthersSame(t, u, i)
            /\ ~u.err => HasSite(u, i, xs[m])
            /\ Follows(t, byHand) => Follows(u, byHand)
        BY <2>1, <3>2, <4>1, ResolveAtKeeps
      <4> HIDE DEF u
      <4>3. \A k \in 1 .. m - 1 : HasSite(u, i, xs[k])
        BY <2>2, <3>2, <4>1, <4>2, SitesStay
      <4>4. Kept(t, u, lost, n, byHand)
        BY <4>2 DEF Kept
      <4>5. Kept(s, u, lost, n, byHand) /\ OthersSame(s, u, i)
        BY <2>2, <4>2, <4>4, KeptTwice, ExtendsTwice DEF Kept
      <4>6. Fine(u, m)
        BY <2>1, <4>2, <4>3, <4>5
      <4> QED BY <3>2, <4>6 DEF u
    <3> QED BY <3>1, <3>2
  <2>4. Step(t, m) \in Debugger
    BY <2>3 DEF Kept, Sound, Linked
  <2> HIDE DEF Fine, Step
  <2> QED BY <2>1, <2>2, <2>3, <2>4
<1> HIDE DEF Fine
<1>4. F = Resolves(s, i, xs, F)
  <2>1. \A m \in 1 .. N : \A t \in Good[m - 1] : g[m][t] \in Good[m]
    <3> HIDE DEF Good, Step, N
    <3> QED BY <1>3
  <2> HIDE DEF g
  <2>2. PICK f : f = Loop(N, s, g, f) /\ \A m \in 0 .. N : f[m] \in Good[m]
    <3> HIDE DEF Good, N
    <3> QED BY <1>1, <1>2, <2>1, LoopExists
  <2>3. f = Resolves(s, i, xs, f)
    <3>1. ASSUME NEW m \in 0 .. N
          PROVE  f[m] = IF m = 0 THEN s ELSE Step(f[m - 1], m)
      <4>1. f[m] = IF m = 0 THEN s ELSE g[m][f[m - 1]]
        BY <2>2 DEF Loop
      <4>2. m # 0 => m \in 1 .. N /\ m - 1 \in 0 .. N
        BY <1>1
      <4>3. m # 0 => f[m - 1] \in Debugger
        <5> HIDE DEF Good, Step, N
        <5> QED BY <1>3, <2>2, <4>2
      <4>4. m # 0 => g[m][f[m - 1]] = Step(f[m - 1], m)
        <5> HIDE DEF Step, N
        <5> QED BY <4>2, <4>3 DEF g
      <4> QED BY <4>1, <4>4
    <3>2. f = [m \in 0 .. N |-> f[m]]
      BY <2>2 DEF Loop
    <3> QED BY <3>1, <3>2 DEF Resolves
  <2> HIDE DEF Good
  <2> QED BY <2>3
<1> HIDE DEF F
<1>5. F[0] = s /\ \A m \in 1 .. N : F[m] = Step(F[m - 1], m)
  <2>1. \A m \in 0 .. N : F[m] = IF m = 0 THEN s ELSE Step(F[m - 1], m)
    BY <1>4 DEF Resolves
  <2>2. 0 \in 0 .. N /\ \A m \in 1 .. N : m \in 0 .. N /\ m # 0
    BY <1>1
  <2> HIDE DEF Step, N
  <2> QED BY <2>1, <2>2
<1>6. F[N] \in Good[N]
  <2> HIDE DEF Good, Step, N
  <2>1. F[0] \in Good[0] /\ N \in Nat
    BY <1>1, <1>2, <1>5
  <2>2. \A m \in 1 .. N : F[m - 1] \in Good[m - 1] => F[m] \in Good[m]
    BY <1>3, <1>5
  <2> QED BY <2>1, <2>2, LoopKeeps
<1>7. Fine(F[N], N)
  <2> HIDE DEF N
  <2> QED BY <1>1, <1>6
<1>8. \A a \in ToSet(xs) : \E k \in 1 .. N : a = xs[k]
  BY <1>1 DEF ToSet
<1> QED BY <1>7, <1>8 DEF Fine, F

(* The names a breakpoint may have, and the state of its switch. *)
LEMMA BreakpointTyped ==
  ASSUME NEW s, Linked(s), NEW i \in DOMAIN s.bps
  PROVE  /\ s.bps[i] \in Breakpoint /\ s.bps[i].on \in BOOLEAN /\ s.bps[i].uid \in Nat
         /\ s.bps[i].sites \in Seq(Nat)
         /\ \A o \in ToSet(s.bps[i].sites) : o \in DOMAIN s.obj /\ s.obj[o].parent = s.bps[i].uid
         /\ s.bps[i].kind = "address" => s.bps[i].spec \in Addr
         /\ s.bps[i].kind # "address" => s.bps[i].spec \in Names
<1>1. s.bps[i] \in Breakpoint
  <2>1. s.bps \in Seq(Breakpoint)
    BY DEF Linked, Debugger
  <2> QED BY <2>1, Element
<1>2. Lists(s, i)
  BY DEF Linked
<1>3. \A o \in ToSet(s.bps[i].sites) : o \in DOMAIN s.obj /\ s.obj[o].parent = s.bps[i].uid
  BY <1>2 DEF Lists, ToSet
<1> QED BY <1>1, <1>2, <1>3 DEF Breakpoint, Lists, SpecTyped

(* The three resolve functions. *)
LEMMA ResolveKeeps ==
  ASSUME NEW s, NEW lost, NEW n, NEW byHand, NEW i \in DOMAIN s.bps,
         Sound(s, lost, n), ~s.err
  PROVE  LET t == Resolve(s, i)
         IN  /\ Kept(s, t, lost, n, byHand) /\ OthersSame(s, t, i)
             /\ ~t.err => ResolvedOne(t, i)
<1> DEFINE b == s.bps[i]
           t == Resolve(s, i)
<1>1. Linked(s) /\ s.elves \in Seq(Elf)
  BY DEF Sound, Linked, Debugger
<1>2. CASE b.kind = "address"
  <2>1. Kept(s, t, lost, n, byHand) /\ OthersSame(s, t, i)
    <3>1. CASE b.sites = <<>>
      <4>1. t = ResolveAt(s, i, b.spec)
        BY <1>2, <3>1 DEF Resolve
      <4>2. b.spec \in Addr
        BY <1>1, <1>2, BreakpointTyped
      <4> HIDE DEF t, b
      <4> QED BY <4>1, <4>2, ResolveAtKeeps DEF Kept
    <3>2. CASE b.sites # <<>>
      <4>1. t = s
        BY <1>2, <3>2 DEF Resolve
      <4>2. Kept(s, s, lost, n, byHand) /\ OthersSame(s, s, i)
        BY DEF Kept, Extends, OthersSame
      <4> QED BY <4>1, <4>2
    <3> QED BY <3>1, <3>2
  <2> HIDE DEF t
  <2>2. t.bps[i].kind = "address"
    BY <1>2, <2>1 DEF Kept, Extends
  <2> QED BY <2>1, <2>2 DEF ResolvedOne, t
<1>3. CASE b.kind # "address"
  <2> DEFINE xs == Addresses(s, b.spec)
  <2>1. t = (CHOOSE f : f = Resolves(s, i, xs, f))[Len(xs)]
    BY <1>3 DEF Resolve, ForEach, Resolves
  <2>2. b.spec \in Names
    BY <1>1, <1>3, BreakpointTyped
  <2>3. xs \in Seq(Addr) /\ ToSet(xs) = Reached(Found[b.spec], ToSet(s.elves))
    BY <1>1, <2>2, AddressesReached
  <2> HIDE DEF xs, t
  <2>4. /\ Kept(s, t, lost, n, byHand) /\ OthersSame(s, t, i)
        /\ ~t.err => \A a \in ToSet(xs) : HasSite(t, i, a)
    BY <2>1, <2>3, ResolveLoop
  <2>5. Addresses(t, t.bps[i].spec) \in Seq(Addr)
        /\ ToSet(Addresses(t, t.bps[i].spec)) = ToSet(xs)
    <3>1. t.elves = s.elves /\ t.bps[i].spec = b.spec
      BY <2>4 DEF Kept, Extends
    <3> QED BY <1>1, <2>2, <2>3, <3>1, AddressesReached
  <2> QED BY <2>4, <2>5 DEF ResolvedOne, t
<1> QED BY <1>2, <1>3

-------------------------------------------------------------------------------
(* All sites of a breakpoint are switched. *)

Turns(s, xs, on, f) ==
  [m \in 0 .. Len(xs) |->
    IF m = 0 THEN s
    ELSE IF f[m - 1].err THEN f[m - 1] ELSE Switch(f[m - 1], xs[m], on)]

(* Sites in os were switched, no breakpoint was touched. *)
Turned(s, t, os, lost, n) ==
  /\ Sound(t, lost, n) /\ Extends(s, t) /\ t.bps = s.bps /\ t.owned = s.owned
  /\ \A o \in DOMAIN s.obj : o \notin os => t.obj[o].on = s.obj[o].on
  /\ ~t.err => ~s.err

LEMMA TurnLoop ==
  ASSUME NEW s, NEW lost, NEW n, NEW on \in BOOLEAN, NEW xs \in Seq(Nat),
         ToSet(xs) \subseteq DOMAIN s.obj, Sound(s, lost, n)
  PROVE  LET t == (CHOOSE f : f = Turns(s, xs, on, f))[Len(xs)]
         IN  /\ Turned(s, t, ToSet(xs), lost, n)
             /\ ~t.err => \A o \in ToSet(xs) : t.obj[o].on = on
<1> DEFINE N == Len(xs)
           Fine(t, m) == /\ Turned(s, t, ToSet(xs), lost, n)
                         /\ ~t.err => \A k \in 1 .. m : t.obj[xs[k]].on = on
           Good == [m \in 0 .. N |-> {t \in Debugger : Fine(t, m)}]
           Step(t, m) == IF t.err THEN t ELSE Switch(t, xs[m], on)
           g == [m \in 1 .. N |-> [t \in Debugger |-> Step(t, m)]]
           F == CHOOSE f : f = Turns(s, xs, on, f)
<1>1. N \in Nat /\ DOMAIN xs = 1 .. N /\ \A k \in 1 .. N : xs[k] \in DOMAIN s.obj /\ xs[k] \in ToSet(xs)
  BY Element DEF ToSet
<1>2. s \in Debugger /\ s \in Good[0]
  <2>1. Turned(s, s, ToSet(xs), lost, n)
    BY DEF Turned, Extends
  <2>2. s \in Debugger
    BY DEF Sound, Linked
  <2> HIDE DEF N
  <2> QED BY <1>1, <2>1, <2>2
<1>3. ASSUME NEW m \in 1 .. N, NEW t \in Good[m - 1]
      PROVE  t \in Debugger /\ Step(t, m) \in Good[m]
  <2>1. m \in Nat /\ m - 1 \in 0 .. N /\ m \in 0 .. N /\ xs[m] \in DOMAIN s.obj
        /\ xs[m] \in ToSet(xs) /\ 1 .. m = 1 .. m - 1 \cup {m}
    <3> HIDE DEF N
    <3> QED BY <1>1
  <2>2. t \in Debugger /\ Fine(t, m - 1)
    <3> HIDE DEF Fine
    <3> QED BY <2>1
  <2>3. Fine(Step(t, m), m)
    <3>1. CASE t.err
      BY <2>2, <3>1
    <3>2. CASE ~t.err
      <4> DEFINE u == Switch(t, xs[m], on)
      <4>1. xs[m] \in DOMAIN t.obj /\ \A k \in 1 .. m - 1 : xs[k] \in DOMAIN t.obj
        <5>1. \A k \in 1 .. m - 1 : k \in 1 .. N
          BY <1>1
        <5> QED BY <1>1, <2>1, <2>2, <5>1 DEF Turned, Extends
      <4>2. Switched(t, u, xs[m], on)
        BY <2>2, <4>1, SwitchDoes
      <4> HIDE DEF u
      <4>3. Sound(u, lost, n) /\ Extends(t, u)
        <5>1. Sound(t, lost, n)
          BY <2>2 DEF Turned
        <5> HIDE DEF Step, Good, Fine, N
        <5>2. Sound(u, lost, n)
          BY <4>1, <4>2, <5>1, SwitchKeeps, ZenonT(30)
        <5> QED BY <4>2, <5>2, SwitchExtends
      <4>4. Turned(s, u, ToSet(xs), lost, n)
        <5>1. Extends(s, u)
          BY <2>2, <4>3, ExtendsTwice DEF Turned
        <5>2. u.bps = s.bps /\ u.owned = s.owned
          BY <2>2, <4>2 DEF Turned, Switched
        <5>3. ~u.err => ~s.err
          BY <2>2, <4>2 DEF Turned, Switched
        <5>4. \A o \in DOMAIN s.obj : o \notin ToSet(xs) => u.obj[o].on = s.obj[o].on
          <6>1. \A o \in DOMAIN s.obj : o \in DOMAIN t.obj
            BY <2>2 DEF Turned, Extends
          <6> QED BY <2>1, <2>2, <4>2, <6>1 DEF Turned, Switched
        <5> QED BY <4>3, <5>1, <5>2, <5>3, <5>4 DEF Turned
      <4>5. ~u.err => \A k \in 1 .. m : u.obj[xs[k]].on = on
        <5> SUFFICES ASSUME ~u.err, NEW k \in 1 .. m PROVE u.obj[xs[k]].on = on
          OBVIOUS
        <5>1. CASE xs[k] = xs[m]
          BY <4>2, <5>1 DEF Switched
        <5>2. CASE xs[k] # xs[m]
          <6>1. k \in 1 .. m - 1 /\ xs[k] \in DOMAIN t.obj
            BY <2>1, <4>1, <5>2
          <6>2. t.obj[xs[k]].on = on
            BY <2>2, <3>2, <6>1
          <6> QED BY <4>2, <5>2, <6>1, <6>2 DEF Switched
        <5> QED BY <5>1, <5>2
      <4>6. Fine(u, m)
        BY <4>4, <4>5
      <4> QED BY <3>2, <4>6 DEF u
    <3> QED BY <3>1, <3>2
  <2>4. Step(t, m) \in Debugger
    BY <2>3 DEF Turned, Sound, Linked
  <2> HIDE DEF Fine, Step
  <2> QED BY <2>1, <2>2, <2>3, <2>4
<1> HIDE DEF Fine
<1>4. F = Turns(s, xs, on, F)
  <2>1. \A m \in 1 .. N : \A t \in Good[m - 1] : g[m][t] \in Good[m]
    <3> HIDE DEF Good, Step, N
    <3> QED BY <1>3
  <2> HIDE DEF g
  <2>2. PICK f : f = Loop(N, s, g, f) /\ \A m \in 0 .. N : f[m] \in Good[m]
    <3> HIDE DEF Good, N
    <3> QED BY <1>1, <1>2, <2>1, LoopExists
  <2>3. f = Turns(s, xs, on, f)
    <3>1. ASSUME NEW m \in 0 .. N
          PROVE  f[m] = IF m = 0 THEN s ELSE Step(f[m - 1], m)
      <4>1. f[m] = IF m = 0 THEN s ELSE g[m][f[m - 1]]
        BY <2>2 DEF Loop
      <4>2. m # 0 => m \in 1 .. N /\ m - 1 \in 0 .. N
        BY <1>1
      <4>3. m # 0 => f[m - 1] \in Debugger
        <5> HIDE DEF Good, Step, N
        <5> QED BY <1>3, <2>2, <4>2
      <4>4. m # 0 => g[m][f[m - 1]] = Step(f[m - 1], m)
        <5> HIDE DEF Step, N
        <5> QED BY <4>2, <4>3 DEF g
      <4> QED BY <4>1, <4>4
    <3>2. f = [m \in 0 .. N |-> f[m]]
      BY <2>2 DEF Loop
    <3> QED BY <3>1, <3>2 DEF Turns
  <2> HIDE DEF Good
  <2> QED BY <2>3
<1> HIDE DEF F
<1>5. F[0] = s /\ \A m \in 1 .. N : F[m] = Step(F[m - 1], m)
  <2>1. \A m \in 0 .. N : F[m] = IF m = 0 THEN s ELSE Step(F[m - 1], m)
    BY <1>4 DEF Turns
  <2>2. 0 \in 0 .. N /\ \A m \in 1 .. N : m \in 0 .. N /\ m # 0
    BY <1>1
  <2> HIDE DEF Step, N
  <2> QED BY <2>1, <2>2
<1>6. F[N] \in Good[N]
  <2> HIDE DEF Good, Step, N
  <2>1. F[0] \in Good[0] /\ N \in Nat
    BY <1>1, <1>2, <1>5
  <2>2. \A m \in 1 .. N : F[m - 1] \in Good[m - 1] => F[m] \in Good[m]
    BY <1>3, <1>5
  <2> QED BY <2>1, <2>2, LoopKeeps
<1>7. Fine(F[N], N)
  <2> HIDE DEF N
  <2> QED BY <1>1, <1>6
<1>8. \A o \in ToSet(xs) : \E k \in 1 .. N : o = xs[k]
  BY <1>1 DEF ToSet
<1> QED BY <1>7, <1>8 DEF Fine, F

(* Breakpoints and objects are as they were, but for what is switched. *)
Alike(s, t) ==
  /\ t.elves = s.elves /\ t.mapped = s.mapped /\ t.rdv = s.rdv
  /\ t.uid = s.uid /\ t.id = s.id /\ t.owned = s.owned
  /\ DOMAIN t.bps = DOMAIN s.bps
  /\ \A j \in DOMAIN s.bps :
       /\ t.bps[j].uid = s.bps[j].uid /\ t.bps[j].id = s.bps[j].id
       /\ t.bps[j].kind = s.bps[j].kind /\ t.bps[j].spec = s.bps[j].spec
       /\ t.bps[j].sites = s.bps[j].sites
  /\ \A o \in DOMAIN s.obj :
       /\ o \in DOMAIN t.obj
       /\ t.obj[o].addr = s.obj[o].addr /\ t.obj[o].parent = s.obj[o].parent
  /\ ~t.err => ~s.err

LEMMA AlikeResolved ==
  ASSUME NEW s, NEW t, Linked(s), Alike(s, t), Resolved(s)
  PROVE  Resolved(t)
<1> SUFFICES ASSUME ~t.err, NEW i \in DOMAIN s.bps, s.bps[i].kind # "address"
             PROVE  \A a \in ToSet(Addresses(t, t.bps[i].spec)) : HasSite(t, i, a)
  BY DEF Resolved, ResolvedOne, Alike
<1>1. s.bps[i].spec \in Names /\ s.elves \in Seq(Elf)
  BY BreakpointTyped DEF Linked, Debugger
<1>2. t.elves = s.elves /\ t.bps[i].spec = s.bps[i].spec
  BY DEF Alike
<1>3. ToSet(Addresses(t, t.bps[i].spec)) = ToSet(Addresses(s, s.bps[i].spec))
  BY <1>1, <1>2, AddressesReached
<1>4. \A a \in ToSet(Addresses(s, s.bps[i].spec)) : HasSite(s, i, a)
  BY DEF Resolved, ResolvedOne, Alike
<1>5. ASSUME NEW a, HasSite(s, i, a) PROVE HasSite(t, i, a)
  <2>1. \A k \in DOMAIN s.bps[i].sites : s.bps[i].sites[k] \in DOMAIN s.obj
    BY DEF Linked, Lists
  <2> QED BY <1>5, <2>1 DEF HasSite, Alike
<1> QED BY <1>3, <1>4, <1>5

(* The switch of a breakpoint. *)
LEMMA SetSwitch ==
  ASSUME NEW s, NEW lost, NEW n, NEW i \in DOMAIN s.bps, NEW on \in BOOLEAN, Sound(s, lost, n)
  PROVE  LET u == [s EXCEPT !.bps[i].on = on]
         IN  /\ Sound(u, lost, n) /\ Alike(s, u) /\ u.obj = s.obj /\ u.err = s.err
             /\ OthersSame(s, u, i) /\ u.bps[i].on = on
<1> DEFINE b == [s.bps[i] EXCEPT !.on = on]
           bps == [s.bps EXCEPT ![i] = b]
           u == [s EXCEPT !.bps = bps]
<1>1. Linked(s) /\ s \in Debugger /\ s.bps \in Seq(Breakpoint) /\ s.bps[i] \in Breakpoint
      /\ DOMAIN s.bps = 1 .. Len(s.bps)
  BY Element, BreakpointTyped DEF Sound, Linked, Debugger
<1>2. /\ b \in Breakpoint /\ b.uid = s.bps[i].uid /\ b.id = s.bps[i].id
      /\ b.kind = s.bps[i].kind /\ b.spec = s.bps[i].spec /\ b.sites = s.bps[i].sites
      /\ b.on = on
  BY <1>1 DEF Breakpoint
<1>3. /\ bps \in Seq(Breakpoint) /\ DOMAIN bps = DOMAIN s.bps /\ bps[i] = b
      /\ \A j \in DOMAIN s.bps : j # i => bps[j] = s.bps[j]
  <2> HIDE DEF b
  <2>1. bps \in Seq(Breakpoint)
    BY <1>1, <1>2, ExceptSeq
  <2> QED BY <1>1, <2>1
<1>4. /\ u \in Debugger
      /\ u.elves = s.elves /\ u.mapped = s.mapped /\ u.obj = s.obj /\ u.traps = s.traps
      /\ u.owned = s.owned /\ u.rdv = s.rdv /\ u.uid = s.uid /\ u.id = s.id
      /\ u.ghost = s.ghost /\ u.err = s.err /\ u.bps = bps
  <2> HIDE DEF bps
  <2> QED BY <1>1, <1>3 DEF Debugger
<1>5. [s EXCEPT !.bps[i].on = on] = u
  OBVIOUS
<1> HIDE DEF u, bps, b
<1>6. /\ DOMAIN u.bps = DOMAIN s.bps
      /\ \A j \in DOMAIN s.bps :
           /\ u.bps[j].uid = s.bps[j].uid /\ u.bps[j].id = s.bps[j].id
           /\ u.bps[j].kind = s.bps[j].kind /\ u.bps[j].spec = s.bps[j].spec
           /\ u.bps[j].sites = s.bps[j].sites
  BY <1>2, <1>3, <1>4
<1>7. Alike(s, u) /\ OthersSame(s, u, i) /\ u.bps[i].on = on
  BY <1>2, <1>3, <1>4, <1>6 DEF Alike, OthersSame
<1>8. Linked(u)
  <2>1. ASSUME NEW j \in DOMAIN s.bps PROVE Lists(u, j)
    <3>1. Lists(s, j)
      BY <1>1 DEF Linked
    <3> QED BY <1>4, <1>6, <3>1 DEF Lists, SpecTyped
  <2>2. \A j, k \in DOMAIN u.bps : u.bps[j].uid = u.bps[k].uid => j = k
    BY <1>1, <1>6 DEF Linked
  <2>3. \A p, q \in u.owned : u.obj[p].addr = u.obj[q].addr => p = q
    BY <1>1, <1>4 DEF Linked
  <2>4. u.owned \subseteq DOMAIN u.obj /\ {Main, Linker, Vdso} \subseteq u.mapped
        /\ Main \in ToSet(u.elves)
    BY <1>1, <1>4 DEF Linked
  <2> QED BY <1>4, <1>6, <2>1, <2>2, <2>3, <2>4 DEF Linked
<1>9. Parented(u, lost)
  <2>1. Parented(s, lost)
    BY DEF Sound
  <2> QED BY <1>4, <1>6, <2>1 DEF Parented
<1>10. Trapped(u, n) /\ Covered(u)
  <2>1. Trapped(s, n) /\ Covered(s)
    BY DEF Sound
  <2> QED BY <1>4, <2>1 DEF Trapped, Covered
<1> QED BY <1>4, <1>5, <1>7, <1>8, <1>9, <1>10 DEF Sound

(* breakpoint::enable and disable. *)
LEMMA SwitchAllKeeps ==
  ASSUME NEW s, NEW lost, NEW n, NEW byHand, NEW i \in DOMAIN s.bps, NEW on \in BOOLEAN,
         Sound(s, lost, n)
  PROVE  LET t == SwitchAll(s, i, on)
         IN  /\ Sound(t, lost, n) /\ Alike(s, t)
             /\ Follows(s, byHand) => Follows(t, byHand \ ToSet(s.bps[i].sites))
<1> DEFINE xs == s.bps[i].sites
           u == [s EXCEPT !.bps[i].on = on]
           t == (CHOOSE f : f = Turns(u, xs, on, f))[Len(xs)]
<1>1. SwitchAll(s, i, on) = t
  BY DEF SwitchAll, ForEach, Turns
<1>2. /\ Sound(u, lost, n) /\ Alike(s, u) /\ u.obj = s.obj /\ u.err = s.err
      /\ OthersSame(s, u, i) /\ u.bps[i].on = on
  BY SetSwitch
<1>3. Linked(s) /\ xs \in Seq(Nat) /\ ToSet(xs) \subseteq DOMAIN s.obj
  BY BreakpointTyped DEF Sound
<1> HIDE DEF u, xs
<1>4. /\ Turned(u, t, ToSet(xs), lost, n)
      /\ ~t.err => \A o \in ToSet(xs) : t.obj[o].on = on
  BY <1>2, <1>3, TurnLoop
<1> HIDE DEF t
<1>5. Alike(s, t)
  BY <1>2, <1>4 DEF Alike, Turned, Extends
<1>6. ASSUME Follows(s, byHand), ~t.err, NEW j \in DOMAIN s.bps
      PROVE  FollowsOne(t, byHand \ ToSet(xs), j)
  <2> SUFFICES ASSUME NEW o \in ToSet(t.bps[j].sites), o \in t.owned,
                      o \notin byHand \ ToSet(xs)
               PROVE  t.obj[o].on = t.bps[j].on
    BY DEF FollowsOne
  <2>1. t.bps = u.bps /\ t.owned = s.owned /\ u.bps[j].sites = s.bps[j].sites
    BY <1>2, <1>4 DEF Alike, Turned
  <2>2. CASE j = i
    BY <1>2, <1>4, <1>6, <2>1, <2>2 DEF xs
  <2>3. CASE j # i
    <3>1. o \in DOMAIN s.obj /\ s.obj[o].parent = s.bps[j].uid
      BY <1>3, <2>1, BreakpointTyped
    <3>2. o \notin ToSet(xs)
      <4>1. \A p \in ToSet(xs) : s.obj[p].parent = s.bps[i].uid
        BY <1>3, BreakpointTyped DEF xs
      <4>2. s.bps[i].uid # s.bps[j].uid
        BY <1>3, <2>3 DEF Linked
      <4> QED BY <3>1, <4>1, <4>2
    <3>3. s.obj[o].on = s.bps[j].on
      <4>1. ~s.err
        BY <1>2, <1>4, <1>6 DEF Turned
      <4>2. FollowsOne(s, byHand, j)
        BY <1>6, <4>1 DEF Follows
      <4> QED BY <2>1, <3>2, <4>2 DEF FollowsOne
    <3>4. t.obj[o].on = u.obj[o].on /\ t.bps[j].on = s.bps[j].on
      BY <1>2, <1>4, <2>1, <2>3, <3>1, <3>2 DEF Turned, OthersSame
    <3> QED BY <1>2, <3>3, <3>4
  <2> QED BY <2>2, <2>3
<1>7. Follows(s, byHand) => Follows(t, byHand \ ToSet(xs))
  BY <1>5, <1>6 DEF Follows, Alike
<1>8. Sound(t, lost, n)
  BY <1>4 DEF Turned
<1> QED BY <1>1, <1>5, <1>7, <1>8 DEF xs

-------------------------------------------------------------------------------
(* Deletion. *)

(* Sites were freed, no breakpoint was touched. *)
Shrunk(s, t, lost, n) ==
  /\ Sound(t, lost, n) /\ Extends(s, t) /\ t.bps = s.bps /\ t.owned \subseteq s.owned
  /\ ~t.err => ~s.err /\ \A o \in t.owned : t.obj[o].on = s.obj[o].on

LEMMA ShrunkTwice ==
  ASSUME NEW s, NEW t, NEW u, NEW lost, NEW n, Shrunk(s, t, lost, n), Shrunk(t, u, lost, n)
  PROVE  Shrunk(s, u, lost, n)
<1>1. Extends(s, u)
  BY ExtendsTwice DEF Shrunk
<1> QED BY <1>1 DEF Shrunk

LEMMA SameShrunk ==
  ASSUME NEW s, NEW t, NEW lost, NEW n, Sound(s, lost, n), Same(s, t), t.err \/ ~s.err
  PROVE  Shrunk(s, t, lost, n)
<1>1. Sound(t, lost, n) /\ Extends(s, t)
  BY SameKeeps, SameExtends
<1> QED BY <1>1 DEF Shrunk, Same

(* What erasing a site does. *)
Freed(s, t, o) ==
  /\ t \in Debugger
  /\ t.elves = s.elves /\ t.mapped = s.mapped /\ t.obj = s.obj /\ t.traps = s.traps
  /\ t.owned = s.owned \ {o} /\ t.rdv = s.rdv /\ t.uid = s.uid /\ t.id = s.id
  /\ t.ghost = s.ghost /\ t.err = s.err /\ t.bps = s.bps

LEMMA FreeDoes ==
  ASSUME NEW s \in Debugger, NEW o
  PROVE  Freed(s, [s EXCEPT !.owned = @ \ {o}], o)
BY DEF Debugger, Freed

(* A site that is off goes. *)
LEMMA FreeKeeps ==
  ASSUME NEW s, NEW t, NEW lost, NEW n, NEW o \in s.owned, Sound(s, lost, n), ~s.obj[o].on,
         Freed(s, t, o)
  PROVE  /\ Shrunk(s, t, lost, n)
         /\ \A p \in t.owned : t.obj[p].addr # s.obj[o].addr
<1>1. s \in Debugger /\ s.owned \subseteq DOMAIN s.obj
  BY DEF Sound, Linked
<1>2. /\ t \in Debugger
      /\ t.elves = s.elves /\ t.mapped = s.mapped /\ t.obj = s.obj /\ t.traps = s.traps
      /\ t.owned = s.owned \ {o} /\ t.rdv = s.rdv /\ t.uid = s.uid /\ t.id = s.id
      /\ t.ghost = s.ghost /\ t.err = s.err /\ t.bps = s.bps
  BY DEF Freed
<1>3. Extends(s, t)
  BY <1>2 DEF Extends
<1>4. Linked(t) /\ \A p \in t.owned : t.obj[p].addr # s.obj[o].addr
  <2>1. \A i \in DOMAIN t.bps : Lists(t, i)
    BY <1>2 DEF Sound, Linked, Lists
  <2> QED BY <1>1, <1>2, <2>1 DEF Sound, Linked
<1>5. Parented(t, lost) /\ Trapped(t, n)
  BY <1>2 DEF Sound, Parented, Trapped
<1>6. Covered(t)
  <2>1. s.obj[o].addr \notin s.ghost => s.obj[o].addr \notin s.traps
    BY DEF Sound, Trapped
  <2> QED BY <1>2, <2>1 DEF Sound, Covered
<1>7. Shrunk(s, t, lost, n)
  BY <1>2, <1>3, <1>4, <1>5, <1>6 DEF Shrunk, Sound
<1> QED BY <1>2, <1>4, <1>7

(* stoppoint_collection::remove_by_address. *)
LEMMA RemoveKeeps ==
  ASSUME NEW s, NEW lost, NEW n, NEW a \in Addr, Sound(s, lost, n)
  PROVE  LET t == RemoveByAddress(s, a)
         IN  /\ Shrunk(s, t, lost, n)
             /\ ~t.err => \A o \in t.owned : t.obj[o].addr # a
<1> DEFINE o == CHOOSE o \in SitesAt(s, a) : TRUE
           w == Switch(s, o, FALSE)
           v == [w EXCEPT !.owned = @ \ {o}]
           t == RemoveByAddress(s, a)
<1>1. s \in Debugger /\ s.owned \subseteq DOMAIN s.obj
  BY DEF Sound, Linked
<1>2. CASE SitesAt(s, a) = {}
  <2>1. t = [s EXCEPT !.hot = TRUE, !.err = TRUE]
    BY <1>2 DEF RemoveByAddress
  <2>2. Same(s, t) /\ t.err
    BY <1>1, <2>1 DEF Same, Debugger
  <2> HIDE DEF t
  <2>3. Shrunk(s, t, lost, n)
    BY <2>2, SameShrunk
  <2> QED BY <2>2, <2>3 DEF t
<1>3. CASE SitesAt(s, a) # {}
  <2>1. t = IF w.err THEN w ELSE v
    BY <1>3 DEF RemoveByAddress
  <2>2. o \in s.owned /\ s.obj[o].addr = a
    BY <1>3 DEF SitesAt
  <2> HIDE DEF t, o
  <2>3. Switched(s, w, o, FALSE)
    BY <1>1, <2>2, SwitchDoes
  <2> HIDE DEF w
  <2>4. Sound(w, lost, n) /\ Extends(s, w)
    BY <1>1, <2>2, <2>3, SwitchKeeps, SwitchExtends
  <2>5. CASE w.err
    <3>1. Shrunk(s, w, lost, n)
      BY <2>3, <2>4, <2>5 DEF Shrunk, Switched
    <3> QED BY <2>1, <2>5, <3>1 DEF t
  <2>6. CASE ~w.err
    <3>1. o \in w.owned /\ ~w.obj[o].on /\ w.obj[o].addr = a
      BY <1>1, <2>2, <2>3, <2>6 DEF Switched
    <3>2. Freed(w, v, o)
      BY <2>3, FreeDoes DEF Switched
    <3> HIDE DEF v
    <3>6. Shrunk(w, v, lost, n) /\ \A p \in v.owned : v.obj[p].addr # a
      BY <2>4, <3>1, <3>2, FreeKeeps
    <3>3. Extends(s, v)
      BY <2>4, <3>6, ExtendsTwice DEF Shrunk
    <3>4. \A p \in v.owned : v.obj[p].on = s.obj[p].on
      <4>1. \A p \in v.owned : v.obj[p].on = w.obj[p].on /\ p \in DOMAIN s.obj /\ p # o
        BY <1>1, <2>3, <3>2 DEF Switched, Freed
      <4> QED BY <2>3, <4>1 DEF Switched
    <3>5. Shrunk(s, v, lost, n)
      BY <2>3, <2>6, <3>2, <3>3, <3>4, <3>6 DEF Shrunk, Switched, Freed
    <3> QED BY <2>1, <2>6, <3>5, <3>6 DEF t
  <2> QED BY <2>5, <2>6
<1> QED BY <1>2, <1>3

(* A sequence without its i-th element. *)
LEMMA RemoveAtDoes ==
  ASSUME NEW S, NEW q \in Seq(S), NEW i \in DOMAIN q
  PROVE  /\ RemoveAt(q, i) \in Seq(S)
         /\ \A j \in DOMAIN RemoveAt(q, i) :
              LET k == IF j < i THEN j ELSE j + 1
              IN  k \in DOMAIN q \ {i} /\ RemoveAt(q, i)[j] = q[k]
         /\ \A k \in DOMAIN q \ {i} :
              LET j == IF k < i THEN k ELSE k - 1
              IN  j \in DOMAIN RemoveAt(q, i) /\ RemoveAt(q, i)[j] = q[k]
<1> DEFINE n == Len(q)
           a == SubSeq(q, 1, i - 1)
           b == SubSeq(q, i + 1, n)
           r == a \o b
<1>1. n \in Nat /\ DOMAIN q = 1 .. n /\ \A j \in 1 .. n : q[j] \in S
  BY Element
<1>2. i \in 1 .. n
  BY <1>1
<1> HIDE DEF n
<1>3. /\ a \in Seq(S) /\ Len(a) = i - 1 /\ i - 1 \in Nat
      /\ \A j \in 1 .. i - 1 : a[j] = q[j]
  <2>1. 1 \in Int /\ i - 1 \in Int /\ \A j \in 1 .. i - 1 : q[j] \in S
    BY <1>1, <1>2
  <2>2. /\ a \in Seq(S) /\ Len(a) = IF 1 <= i - 1 THEN (i - 1) - 1 + 1 ELSE 0
        /\ \A j \in 1 .. (i - 1) - 1 + 1 : a[j] = q[1 + j - 1]
    BY <2>1, SubSeqProperties
  <2> HIDE DEF a
  <2>3. (i - 1) - 1 + 1 = i - 1 /\ (~(1 <= i - 1) => i - 1 = 0) /\ \A j \in 1 .. i - 1 : 1 + j - 1 = j
    BY <1>1, <1>2
  <2>4. i - 1 \in Nat
    BY <1>1, <1>2
  <2> QED BY <2>2, <2>3, <2>4
<1>4. /\ b \in Seq(S) /\ Len(b) = n - i /\ n - i \in Nat
      /\ \A j \in 1 .. n - i : b[j] = q[i + j]
  <2>1. i + 1 \in Int /\ n \in Int /\ \A j \in i + 1 .. n : q[j] \in S
    BY <1>1, <1>2
  <2>2. /\ b \in Seq(S) /\ Len(b) = IF i + 1 <= n THEN n - (i + 1) + 1 ELSE 0
        /\ \A j \in 1 .. n - (i + 1) + 1 : b[j] = q[(i + 1) + j - 1]
    BY <2>1, SubSeqProperties
  <2> HIDE DEF b
  <2>3. n - (i + 1) + 1 = n - i /\ (~(i + 1 <= n) => n - i = 0)
        /\ \A j \in 1 .. n - i : (i + 1) + j - 1 = i + j
    BY <1>1, <1>2
  <2>4. n - i \in Nat
    BY <1>1, <1>2
  <2> QED BY <2>2, <2>3, <2>4
<1> HIDE DEF a, b
<1>5. /\ r \in Seq(S) /\ Len(r) = n - 1
      /\ \A j \in 1 .. n - 1 : r[j] = IF j <= i - 1 THEN a[j] ELSE b[j - (i - 1)]
  <2>1. /\ r \in Seq(S) /\ Len(r) = Len(a) + Len(b)
        /\ \A j \in 1 .. Len(a) + Len(b) : r[j] = IF j <= Len(a) THEN a[j] ELSE b[j - Len(a)]
    BY <1>3, <1>4, ConcatProperties
  <2> HIDE DEF r
  <2>2. (i - 1) + (n - i) = n - 1
    BY <1>1, <1>2
  <2> QED BY <1>3, <1>4, <2>1, <2>2
<1>6. DOMAIN r = 1 .. n - 1
  BY <1>5, LenProperties
<1>7. RemoveAt(q, i) = r
  BY DEF RemoveAt, r, a, b, n
<1> HIDE DEF r
<1>8. \A j \in 1 .. n - 1 : r[j] = q[IF j < i THEN j ELSE j + 1]
  <2> SUFFICES ASSUME NEW j \in 1 .. n - 1 PROVE r[j] = q[IF j < i THEN j ELSE j + 1]
    OBVIOUS
  <2>1. CASE j < i
    <3>1. j <= i - 1 /\ j \in 1 .. i - 1
      BY <1>1, <1>2, <2>1
    <3> QED BY <1>3, <1>5, <2>1, <3>1
  <2>2. CASE ~(j < i)
    <3>1. ~(j <= i - 1) /\ j - (i - 1) \in 1 .. n - i /\ i + (j - (i - 1)) = j + 1
      BY <1>1, <1>2, <2>2
    <3> QED BY <1>4, <1>5, <2>2, <3>1
  <2> QED BY <2>1, <2>2
<1>9. \A j \in 1 .. n - 1 : (IF j < i THEN j ELSE j + 1) \in 1 .. n /\ (IF j < i THEN j ELSE j + 1) # i
  BY <1>1, <1>2
<1>10. ASSUME NEW k \in 1 .. n, k # i
       PROVE  LET j == IF k < i THEN k ELSE k - 1
              IN  j \in 1 .. n - 1 /\ (IF j < i THEN j ELSE j + 1) = k
  BY <1>1, <1>2, <1>10
<1> QED BY <1>1, <1>5, <1>6, <1>7, <1>8, <1>9, <1>10

Erasures(s, xs, f) ==
  [m \in 0 .. Len(xs) |->
    IF m = 0 THEN s
    ELSE IF f[m - 1].err THEN f[m - 1]
         ELSE RemoveByAddress(Touch(f[m - 1], {xs[m]}), f[m - 1].obj[xs[m]].addr)]

(* The loop of handle_breakpoint_toggle over the sites of the breakpoint *)
(* that it deletes.                                                      *)
LEMMA EraseLoop ==
  ASSUME NEW s, NEW lost, NEW n, NEW xs \in Seq(Nat),
         ToSet(xs) \subseteq DOMAIN s.obj, Sound(s, lost, n)
  PROVE  LET t == (CHOOSE f : f = Erasures(s, xs, f))[Len(xs)]
         IN  /\ Shrunk(s, t, lost, n)
             /\ ~t.err => ToSet(xs) \cap t.owned = {}
<1> DEFINE N == Len(xs)
           Fine(t, m) == /\ Shrunk(s, t, lost, n)
                         /\ ~t.err => \A k \in 1 .. m : xs[k] \notin t.owned
           Good == [m \in 0 .. N |-> {t \in Debugger : Fine(t, m)}]
           Step(t, m) == IF t.err THEN t
                         ELSE RemoveByAddress(Touch(t, {xs[m]}), t.obj[xs[m]].addr)
           g == [m \in 1 .. N |-> [t \in Debugger |-> Step(t, m)]]
           F == CHOOSE f : f = Erasures(s, xs, f)
<1>1. N \in Nat /\ DOMAIN xs = 1 .. N /\ \A k \in 1 .. N : xs[k] \in DOMAIN s.obj
  BY Element DEF ToSet
<1>2. s \in Debugger /\ s \in Good[0]
  <2>1. Shrunk(s, s, lost, n)
    BY DEF Shrunk, Extends
  <2>2. s \in Debugger
    BY DEF Sound, Linked
  <2> HIDE DEF N
  <2> QED BY <1>1, <2>1, <2>2
<1>3. ASSUME NEW m \in 1 .. N, NEW t \in Good[m - 1]
      PROVE  t \in Debugger /\ Step(t, m) \in Good[m]
  <2>1. m \in Nat /\ m - 1 \in 0 .. N /\ m \in 0 .. N /\ xs[m] \in DOMAIN s.obj
        /\ 1 .. m = 1 .. m - 1 \cup {m}
    <3> HIDE DEF N
    <3> QED BY <1>1
  <2>2. t \in Debugger /\ Fine(t, m - 1)
    <3> HIDE DEF Fine
    <3> QED BY <2>1
  <2>3. Fine(Step(t, m), m)
    <3>1. CASE t.err
      BY <2>2, <3>1
    <3>2. CASE ~t.err
      <4> DEFINE o == xs[m]
                 a == t.obj[o].addr
                 w == Touch(t, {o})
                 u == RemoveByAddress(w, a)
      <4>1. o \in DOMAIN t.obj /\ a \in Addr
        <5>1. o \in DOMAIN t.obj
          BY <2>1, <2>2 DEF Shrunk, Extends
        <5>2. t.obj \in Seq(Site)
          BY <2>2 DEF Debugger
        <5>3. t.obj[o] \in Site
          BY <5>1, <5>2, Element
        <5> QED BY <5>1, <5>3 DEF Site
      <4>2. Same(t, w) /\ w.err = t.err
        BY <2>2, TouchDoes
      <4>3. Step(t, m) = u
        BY <3>2
      <4> HIDE DEF w, a, o, Step, Good, N
      <4>4. Shrunk(t, w, lost, n) /\ Sound(w, lost, n)
        <5>1. Sound(t, lost, n)
          BY <2>2 DEF Shrunk
        <5>2. Shrunk(t, w, lost, n)
          BY <3>2, <4>2, <5>1, SameShrunk
        <5> QED BY <5>2 DEF Shrunk
      <4>5. Shrunk(w, u, lost, n) /\ (~u.err => \A p \in u.owned : u.obj[p].addr # a)
        BY <4>1, <4>4, RemoveKeeps
      <4> HIDE DEF u
      <4>6. Shrunk(t, u, lost, n) /\ Shrunk(s, u, lost, n)
        <5>1. Shrunk(t, u, lost, n)
          BY <4>4, <4>5, ShrunkTwice
        <5>2. Shrunk(s, t, lost, n)
          BY <2>2
        <5> QED BY <5>1, <5>2, ShrunkTwice
      <4>7. ~u.err => o \notin u.owned
        <5>1. u.obj[o].addr = a
          BY <4>1, <4>6 DEF Shrunk, Extends, a
        <5> QED BY <4>5, <5>1
      <4>8. ~u.err => \A k \in 1 .. m : xs[k] \notin u.owned
        <5>1. \A k \in 1 .. m - 1 : xs[k] \notin t.owned
          BY <2>2, <3>2
        <5>2. u.owned \subseteq t.owned
          BY <4>6 DEF Shrunk
        <5>3. \A k \in 1 .. m : k \in 1 .. m - 1 \/ k = m
          BY <2>1
        <5>4. ~u.err => xs[m] \notin u.owned
          BY <4>7 DEF o
        <5> QED BY <5>1, <5>2, <5>3, <5>4, Zenon
      <4> QED BY <4>3, <4>6, <4>8
    <3> QED BY <3>1, <3>2
  <2>4. Step(t, m) \in Debugger
    BY <2>3 DEF Shrunk, Sound, Linked
  <2> HIDE DEF Fine, Step
  <2> QED BY <2>1, <2>2, <2>3, <2>4
<1> HIDE DEF Fine
<1>4. F = Erasures(s, xs, F)
  <2>1. \A m \in 1 .. N : \A t \in Good[m - 1] : g[m][t] \in Good[m]
    <3> HIDE DEF Good, Step, N
    <3> QED BY <1>3
  <2> HIDE DEF g
  <2>2. PICK f : f = Loop(N, s, g, f) /\ \A m \in 0 .. N : f[m] \in Good[m]
    <3> HIDE DEF Good, N
    <3> QED BY <1>1, <1>2, <2>1, LoopExists
  <2>3. f = Erasures(s, xs, f)
    <3>1. ASSUME NEW m \in 0 .. N
          PROVE  f[m] = IF m = 0 THEN s ELSE Step(f[m - 1], m)
      <4>1. f[m] = IF m = 0 THEN s ELSE g[m][f[m - 1]]
        BY <2>2 DEF Loop
      <4>2. m # 0 => m \in 1 .. N /\ m - 1 \in 0 .. N
        BY <1>1
      <4>3. m # 0 => f[m - 1] \in Debugger
        <5> HIDE DEF Good, Step, N
        <5> QED BY <1>3, <2>2, <4>2
      <4>4. m # 0 => g[m][f[m - 1]] = Step(f[m - 1], m)
        <5> HIDE DEF Step, N
        <5> QED BY <4>2, <4>3 DEF g
      <4> QED BY <4>1, <4>4
    <3>2. f = [m \in 0 .. N |-> f[m]]
      BY <2>2 DEF Loop
    <3> QED BY <3>1, <3>2 DEF Erasures
  <2> HIDE DEF Good
  <2> QED BY <2>3
<1> HIDE DEF F
<1>5. F[0] = s /\ \A m \in 1 .. N : F[m] = Step(F[m - 1], m)
  <2>1. \A m \in 0 .. N : F[m] = IF m = 0 THEN s ELSE Step(F[m - 1], m)
    BY <1>4 DEF Erasures
  <2>2. 0 \in 0 .. N /\ \A m \in 1 .. N : m \in 0 .. N /\ m # 0
    BY <1>1
  <2> HIDE DEF Step, N
  <2> QED BY <2>1, <2>2, SMTT(30)
<1>6. F[N] \in Good[N]
  <2> HIDE DEF Good, Step, N
  <2>1. F[0] \in Good[0] /\ N \in Nat
    BY <1>1, <1>2, <1>5
  <2>2. \A m \in 1 .. N : F[m - 1] \in Good[m - 1] => F[m] \in Good[m]
    BY <1>3, <1>5
  <2> QED BY <2>1, <2>2, LoopKeeps
<1>7. Fine(F[N], N)
  <2> HIDE DEF N
  <2> QED BY <1>1, <1>6
<1>8. \A o \in ToSet(xs) : \E k \in 1 .. N : o = xs[k]
  BY <1>1 DEF ToSet
<1> QED BY <1>7, <1>8 DEF Fine, F

(* What erasing a breakpoint does. *)
Erased(s, t, i) ==
  /\ t \in Debugger
  /\ t.elves = s.elves /\ t.mapped = s.mapped /\ t.obj = s.obj /\ t.traps = s.traps
  /\ t.owned = s.owned /\ t.rdv = s.rdv /\ t.uid = s.uid /\ t.id = s.id
  /\ t.ghost = s.ghost /\ t.err = s.err /\ t.bps = RemoveAt(s.bps, i)

LEMMA EntryDoes ==
  ASSUME NEW s \in Debugger, NEW i \in DOMAIN s.bps
  PROVE  Erased(s, [s EXCEPT !.bps = RemoveAt(@, i)], i)
<1> DEFINE r == RemoveAt(s.bps, i)
<1>1. r \in Seq(Breakpoint)
  <2>1. s.bps \in Seq(Breakpoint)
    BY DEF Debugger
  <2> QED BY <2>1, RemoveAtDoes
<1>2. [s EXCEPT !.bps = RemoveAt(@, i)] = [s EXCEPT !.bps = r]
  OBVIOUS
<1> HIDE DEF r
<1>3. Erased(s, [s EXCEPT !.bps = r], i)
  BY <1>1 DEF Debugger, Erased, r
<1> QED BY <1>2, <1>3

(* A breakpoint goes when the process has none of its sites any more. *)
LEMMA EntryKeeps ==
  ASSUME NEW s, NEW t, NEW lost, NEW n, NEW byHand, NEW i \in DOMAIN s.bps,
         Sound(s, lost, n), Erased(s, t, i), ToSet(s.bps[i].sites) \cap s.owned = {}
  PROVE  /\ Sound(t, lost, n)
         /\ Follows(s, byHand) => Follows(t, byHand)
         /\ Resolved(s) => Resolved(t)
<1> DEFINE K(j) == IF j < i THEN j ELSE j + 1
<1>1. Linked(s) /\ s.bps \in Seq(Breakpoint)
  BY DEF Sound, Linked, Debugger
<1>2. \A j \in DOMAIN t.bps : K(j) \in DOMAIN s.bps /\ K(j) # i /\ t.bps[j] = s.bps[K(j)]
  BY <1>1, RemoveAtDoes DEF Erased
<1>3. \A k \in DOMAIN s.bps : k # i => \E j \in DOMAIN t.bps : t.bps[j] = s.bps[k]
  <2> SUFFICES ASSUME NEW k \in DOMAIN s.bps, k # i
               PROVE  \E j \in DOMAIN t.bps : t.bps[j] = s.bps[k]
    OBVIOUS
  <2>1. LET j == IF k < i THEN k ELSE k - 1
        IN  j \in DOMAIN t.bps /\ t.bps[j] = s.bps[k]
    BY <1>1, RemoveAtDoes DEF Erased
  <2> QED BY <2>1
<1>4. \A j, l \in DOMAIN t.bps : K(j) = K(l) => j = l
  <2>1. DOMAIN t.bps \subseteq Nat /\ i \in Nat
    <3>1. t.bps \in Seq(Breakpoint)
      BY DEF Erased, Debugger
    <3> QED BY <1>1, <3>1, LenProperties
  <2> SUFFICES ASSUME NEW j \in DOMAIN t.bps, NEW l \in DOMAIN t.bps, K(j) = K(l) PROVE j = l
    OBVIOUS
  <2>2. j \in Nat /\ l \in Nat
    BY <2>1
  <2> QED BY <2>1, <2>2
<1> HIDE DEF K
<1>5. \A p, q \in s.owned : s.obj[p].addr = s.obj[q].addr => p = q
  BY <1>1 DEF Linked
<1>6. Linked(t)
  <2>1. ASSUME NEW j \in DOMAIN t.bps PROVE Lists(t, j)
    <3>1. Lists(s, K(j)) /\ t.bps[j] = s.bps[K(j)]
      BY <1>1, <1>2 DEF Linked
    <3>2. t.obj = s.obj /\ t.uid = s.uid
      BY DEF Erased
    <3> QED BY <3>1, <3>2 DEF Lists, SpecTyped
  <2>2. \A j, l \in DOMAIN t.bps : t.bps[j].uid = t.bps[l].uid => j = l
    BY <1>1, <1>2, <1>4 DEF Linked
  <2>3. \A p, q \in t.owned : t.obj[p].addr = t.obj[q].addr => p = q
    BY <1>5 DEF Erased
  <2>4. t \in Debugger /\ t.owned \subseteq DOMAIN t.obj /\ {Main, Linker, Vdso} \subseteq t.mapped
        /\ Main \in ToSet(t.elves)
    BY <1>1 DEF Linked, Erased
  <2> QED BY <2>1, <2>2, <2>3, <2>4 DEF Linked
<1>7. Parented(t, lost)
  <2> SUFFICES ASSUME NEW o \in t.owned, t.obj[o].parent \notin {0} \cup lost
               PROVE  \E j \in DOMAIN t.bps :
                        t.bps[j].uid = t.obj[o].parent /\ o \in ToSet(t.bps[j].sites)
    BY DEF Parented
  <2>1. PICK k \in DOMAIN s.bps :
           s.bps[k].uid = s.obj[o].parent /\ o \in ToSet(s.bps[k].sites)
    BY DEF Sound, Parented, Erased
  <2>2. k # i
    BY <2>1 DEF Erased
  <2>3. PICK j \in DOMAIN t.bps : t.bps[j] = s.bps[k]
    BY <1>3, <2>2
  <2>4. t.obj = s.obj
    BY DEF Erased
  <2> QED BY <2>1, <2>3, <2>4
<1>8. Trapped(t, n) /\ Covered(t)
  <2>1. t.obj = s.obj /\ t.owned = s.owned /\ t.traps = s.traps /\ t.ghost = s.ghost
        /\ t.mapped = s.mapped
    BY DEF Erased
  <2> QED BY <2>1 DEF Sound, Trapped, Covered
<1>9. Follows(s, byHand) => Follows(t, byHand)
  <2>1. ASSUME NEW j \in DOMAIN t.bps, FollowsOne(s, byHand, K(j)) PROVE FollowsOne(t, byHand, j)
    <3>1. t.bps[j] = s.bps[K(j)] /\ t.obj = s.obj /\ t.owned = s.owned
      BY <1>2 DEF Erased
    <3> QED BY <2>1, <3>1 DEF FollowsOne
  <2>2. t.err = s.err
    BY DEF Erased
  <2> QED BY <1>2, <2>1, <2>2 DEF Follows
<1>10. Resolved(s) => Resolved(t)
  <2>1. ASSUME NEW j \in DOMAIN t.bps, ResolvedOne(s, K(j)) PROVE ResolvedOne(t, j)
    <3> DEFINE k == K(j)
    <3>1. t.bps[j] = s.bps[k] /\ k \in DOMAIN s.bps /\ t.obj = s.obj /\ t.elves = s.elves
      BY <1>2 DEF Erased
    <3>2. \A a : HasSite(s, k, a) => HasSite(t, j, a)
      BY <3>1 DEF HasSite
    <3> SUFFICES ASSUME t.bps[j].kind # "address"
                 PROVE  \A a \in ToSet(Addresses(t, t.bps[j].spec)) : HasSite(t, j, a)
      BY DEF ResolvedOne
    <3>3. s.bps[k].spec \in Names /\ s.elves \in Seq(Elf)
      BY <1>1, <3>1, BreakpointTyped DEF Linked, Debugger
    <3>4. ToSet(Addresses(t, t.bps[j].spec)) = ToSet(Addresses(s, s.bps[k].spec))
      BY <3>1, <3>3, AddressesReached
    <3> QED BY <2>1, <3>1, <3>2, <3>4 DEF ResolvedOne
  <2>2. t.err = s.err
    BY DEF Erased
  <2> QED BY <1>2, <2>1, <2>2 DEF Resolved
<1> QED BY <1>6, <1>7, <1>8, <1>9, <1>10 DEF Sound

(* What a command does to the record that it finds without an error. *)
Handled(s, t, lost, n, byHand, after) ==
  /\ Sound(t, lost, n)
  /\ t.mapped = s.mapped /\ t.elves = s.elves /\ t.uid = s.uid
  /\ Follows(s, byHand) => Follows(t, after)
  /\ Resolved(s) => Resolved(t)

LEMMA ShrunkFollows ==
  ASSUME NEW s, NEW t, NEW lost, NEW n, NEW byHand, Shrunk(s, t, lost, n), Linked(s)
  PROVE  Handled(s, t, lost, n, byHand, byHand)
<1>1. Follows(s, byHand) => Follows(t, byHand)
  BY DEF Shrunk, Follows, FollowsOne
<1>2. Resolved(s) => Resolved(t)
  <2>1. \A i \in DOMAIN s.bps : ResolvedOne(s, i) => ResolvedOne(t, i)
    BY SitesStay DEF Shrunk
  <2> QED BY <2>1 DEF Shrunk, Resolved
<1> QED BY <1>1, <1>2 DEF Handled, Shrunk, Extends

(* handle_breakpoint_toggle "delete". *)
LEMMA DeleteKeeps ==
  ASSUME NEW s, NEW lost, NEW n, NEW byHand, NEW i \in DOMAIN s.bps, Sound(s, lost, n)
  PROVE  Handled(s, DeleteAll(s, i), lost, n, byHand, byHand)
<1> DEFINE xs == s.bps[i].sites
           t == (CHOOSE f : f = Erasures(s, xs, f))[Len(xs)]
           v == SwitchAll(t, i, FALSE)
           w == [v EXCEPT !.bps = RemoveAt(@, i)]
           r == DeleteAll(s, i)
<1>1. r = IF t.err THEN t ELSE IF v.err THEN v ELSE w
  BY DEF DeleteAll, ForEach, Erasures
<1>2. Linked(s) /\ xs \in Seq(Nat) /\ ToSet(xs) \subseteq DOMAIN s.obj
  BY BreakpointTyped DEF Sound
<1> HIDE DEF xs, r
<1>3. Shrunk(s, t, lost, n) /\ (~t.err => ToSet(xs) \cap t.owned = {})
  BY <1>2, EraseLoop
<1> HIDE DEF t
<1>4. Handled(s, t, lost, n, byHand, byHand)
  BY <1>2, <1>3, ShrunkFollows
<1>5. Sound(t, lost, n) /\ t.bps = s.bps /\ Linked(t)
  BY <1>3 DEF Shrunk, Sound
<1>6. CASE t.err
  BY <1>1, <1>4, <1>6 DEF r
<1>7. CASE ~t.err
  <2>1. /\ Sound(v, lost, n) /\ Alike(t, v)
        /\ Follows(t, byHand) => Follows(v, byHand \ ToSet(t.bps[i].sites))
    <3>1. i \in DOMAIN t.bps /\ FALSE \in BOOLEAN
      BY <1>5
    <3> QED BY <1>5, <3>1, SwitchAllKeeps
  <2> HIDE DEF v
  <2>2. Follows(t, byHand) => Follows(v, byHand)
    BY <2>1 DEF Follows, FollowsOne
  <2>3. Resolved(t) => Resolved(v)
    BY <1>5, <2>1, AlikeResolved
  <2>4. Handled(s, v, lost, n, byHand, byHand)
    BY <1>4, <2>1, <2>2, <2>3 DEF Handled, Alike
  <2>5. CASE v.err
    BY <1>1, <1>7, <2>4, <2>5 DEF r
  <2>6. CASE ~v.err
    <3>1. r = w
      BY <1>1, <1>7, <2>6
    <3>2. v \in Debugger /\ i \in DOMAIN v.bps /\ ToSet(v.bps[i].sites) \cap v.owned = {}
      BY <1>3, <1>5, <1>7, <2>1 DEF Alike, Sound, Linked, xs
    <3>3. Erased(v, w, i)
      BY <3>2, EntryDoes
    <3> HIDE DEF w
    <3>4. /\ Sound(w, lost, n)
          /\ Follows(v, byHand) => Follows(w, byHand)
          /\ Resolved(v) => Resolved(w)
      BY <2>1, <3>2, <3>3, EntryKeeps
    <3> QED BY <2>4, <3>1, <3>3, <3>4 DEF Handled, Erased, r
  <2> QED BY <2>5, <2>6
<1> QED BY <1>6, <1>7

-------------------------------------------------------------------------------
(* A breakpoint is set. *)

(* Breakpoints numbered by a handler that are not the target's: those     *)
(* whose constructor threw.                                                *)
Lost(s, t) == {u \in s.uid + 1 .. t.uid : \A i \in DOMAIN t.bps : t.bps[i].uid # u}

LEMMA MoreLost ==
  ASSUME NEW s, NEW lost, NEW more, NEW n, Sound(s, lost, n), lost \subseteq more
  PROVE  Sound(s, more, n)
BY DEF Sound, Parented

LEMMA FollowsLess ==
  ASSUME NEW s, NEW byHand, NEW more, Follows(s, byHand), byHand \subseteq more
  PROVE  Follows(s, more)
BY DEF Follows, FollowsOne

LEMMA SameAddresses ==
  ASSUME NEW s, NEW t, s.elves \in Seq(Elf), t.elves = s.elves, NEW x \in Names
  PROVE  ToSet(Addresses(t, x)) = ToSet(Addresses(s, x))
BY AddressesReached

(* A breakpoint without sites joins the list. *)
Listed(s, t, b) ==
  /\ t \in Debugger
  /\ t.elves = s.elves /\ t.mapped = s.mapped /\ t.obj = s.obj /\ t.traps = s.traps
  /\ t.owned = s.owned /\ t.rdv = s.rdv /\ t.uid = s.uid + 1
  /\ t.ghost = s.ghost /\ t.err = s.err
  /\ DOMAIN t.bps = DOMAIN s.bps \cup {Len(s.bps) + 1} /\ Len(s.bps) + 1 \notin DOMAIN s.bps
  /\ t.bps[Len(s.bps) + 1] = b /\ \A i \in DOMAIN s.bps : t.bps[i] = s.bps[i]

LEMMA ListDoes ==
  ASSUME NEW s \in Debugger, NEW b \in Breakpoint, NEW internal \in BOOLEAN
  PROVE  Listed(s, [s EXCEPT !.bps = Append(@, b), !.uid = @ + 1,
                             !.id = IF internal THEN @ ELSE @ + 1], b)
<1> DEFINE m == Len(s.bps)
           q == Append(s.bps, b)
           id == IF internal THEN s.id ELSE s.id + 1
           uid == s.uid + 1
           t == [s EXCEPT !.bps = q, !.uid = uid, !.id = id]
<1>1. s.bps \in Seq(Breakpoint) /\ s.id \in Nat /\ s.uid \in Nat
  BY DEF Debugger
<1>2. /\ q \in Seq(Breakpoint) /\ m \in Nat /\ DOMAIN q = 1 .. m + 1 /\ DOMAIN s.bps = 1 .. m
      /\ q[m + 1] = b /\ \A i \in 1 .. m : q[i] = s.bps[i]
  <2>1. /\ q \in Seq(Breakpoint) /\ Len(q) = m + 1
        /\ q[m + 1] = b /\ \A i \in 1 .. m : q[i] = s.bps[i]
    BY <1>1, AppendProperties
  <2> HIDE DEF q
  <2> QED BY <1>1, <2>1, LenProperties
<1>3. id \in Nat /\ uid \in Nat
  BY <1>1
<1> HIDE DEF q, id, m, uid
<1>4. /\ t \in Debugger
      /\ t.elves = s.elves /\ t.mapped = s.mapped /\ t.obj = s.obj /\ t.traps = s.traps
      /\ t.owned = s.owned /\ t.rdv = s.rdv /\ t.uid = uid
      /\ t.ghost = s.ghost /\ t.err = s.err /\ t.bps = q
  BY <1>1, <1>2, <1>3 DEF Debugger
<1>5. [s EXCEPT !.bps = Append(@, b), !.uid = @ + 1, !.id = IF internal THEN @ ELSE @ + 1] = t
  BY DEF q, id, uid
<1> HIDE DEF t
<1>6. 1 .. m + 1 = 1 .. m \cup {m + 1} /\ m + 1 \notin 1 .. m
  BY <1>2
<1>7. Listed(s, t, b)
  BY <1>2, <1>4, <1>6 DEF Listed, m, uid
<1> QED BY <1>5, <1>7

LEMMA ListKeeps ==
  ASSUME NEW s, NEW t, NEW b \in Breakpoint, NEW lost, NEW n, NEW byHand,
         Sound(s, lost, n), Listed(s, t, b),
         b.uid = s.uid + 1, b.sites = <<>>, SpecTyped(b)
  PROVE  /\ Sound(t, lost, n)
         /\ Follows(s, byHand) => Follows(t, byHand)
         /\ Resolved(s) => (~t.err => \A i \in DOMAIN s.bps : ResolvedOne(t, i))
<1> DEFINE m == Len(s.bps) + 1
<1>1. Linked(s) /\ s \in Debugger /\ s.uid \in Nat /\ s.elves \in Seq(Elf)
  BY DEF Sound, Linked, Debugger
<1>2. /\ t \in Debugger
      /\ t.elves = s.elves /\ t.mapped = s.mapped /\ t.obj = s.obj /\ t.traps = s.traps
      /\ t.owned = s.owned /\ t.uid = s.uid + 1 /\ t.ghost = s.ghost /\ t.err = s.err
      /\ DOMAIN t.bps = DOMAIN s.bps \cup {m} /\ m \notin DOMAIN s.bps
      /\ t.bps[m] = b /\ \A i \in DOMAIN s.bps : t.bps[i] = s.bps[i]
  BY DEF Listed
<1>3. DOMAIN b.sites = {} /\ ToSet(b.sites) = {}
  BY DEF ToSet
<1> HIDE DEF m
<1>4. Linked(t)
  <2>1. ASSUME NEW i \in DOMAIN t.bps PROVE Lists(t, i)
    <3>1. CASE i = m
      <4>1. b.uid <= t.uid /\ b.uid # 0
        BY <1>1, <1>2
      <4> QED BY <1>2, <1>3, <3>1, <4>1 DEF Lists
    <3>2. CASE i # m
      <4>1. i \in DOMAIN s.bps /\ t.bps[i] = s.bps[i] /\ Lists(s, i) /\ s.bps[i].uid \in Nat
        BY <1>1, <1>2, <3>2, BreakpointTyped DEF Linked
      <4>2. s.bps[i].uid <= t.uid
        BY <1>1, <1>2, <4>1 DEF Lists
      <4> QED BY <1>2, <4>1, <4>2 DEF Lists
    <3> QED BY <3>1, <3>2
  <2>2. ASSUME NEW i \in DOMAIN s.bps PROVE t.bps[i].uid # b.uid
    <3>1. Lists(s, i) /\ s.bps[i].uid \in Nat
      BY <1>1, BreakpointTyped DEF Linked
    <3> QED BY <1>1, <1>2, <3>1 DEF Lists
  <2>3. \A i, j \in DOMAIN t.bps : t.bps[i].uid = t.bps[j].uid => i = j
    <3>1. \A i, j \in DOMAIN s.bps : t.bps[i].uid = t.bps[j].uid => i = j
      BY <1>1, <1>2 DEF Linked
    <3> QED BY <1>2, <2>2, <3>1
  <2>4. /\ t.owned \subseteq DOMAIN t.obj /\ {Main, Linker, Vdso} \subseteq t.mapped
        /\ Main \in ToSet(t.elves)
        /\ \A p, q \in t.owned : t.obj[p].addr = t.obj[q].addr => p = q
    BY <1>1, <1>2 DEF Linked
  <2> QED BY <1>2, <2>1, <2>3, <2>4 DEF Linked
<1>5. Parented(t, lost)
  <2>1. Parented(s, lost)
    BY DEF Sound
  <2> QED BY <1>2, <2>1 DEF Parented
<1>6. Trapped(t, n) /\ Covered(t)
  BY <1>2 DEF Sound, Trapped, Covered
<1>7. Follows(s, byHand) => Follows(t, byHand)
  BY <1>2, <1>3 DEF Follows, FollowsOne
<1>8. Resolved(s) => (~t.err => \A i \in DOMAIN s.bps : ResolvedOne(t, i))
  <2> SUFFICES ASSUME NEW i \in DOMAIN s.bps, ResolvedOne(s, i), s.bps[i].kind # "address"
               PROVE  \A a \in ToSet(Addresses(t, t.bps[i].spec)) : HasSite(t, i, a)
    BY <1>2 DEF ResolvedOne, Resolved
  <2>1. s.bps[i].spec \in Names
    BY <1>1, BreakpointTyped
  <2>2. ToSet(Addresses(t, t.bps[i].spec)) = ToSet(Addresses(s, s.bps[i].spec))
    BY <1>1, <1>2, <2>1, SameAddresses
  <2>3. \A a : HasSite(s, i, a) => HasSite(t, i, a)
    BY <1>2 DEF HasSite
  <2> QED BY <2>2, <2>3 DEF ResolvedOne
<1> QED BY <1>4, <1>5, <1>6, <1>7, <1>8 DEF Sound

(* The list is as it was before the breakpoint whose constructor threw. *)
LEMMA UnlistKeeps ==
  ASSUME NEW s, NEW r, NEW t, NEW b \in Breakpoint, NEW lost, NEW n,
         Sound(s, lost, n), Listed(s, r, b), b.uid = s.uid + 1,
         Sound(t, lost, n), Extends(r, t), OthersSame(r, t, Len(s.bps) + 1)
  PROVE  LET u == [t EXCEPT !.bps = s.bps]
         IN  /\ Sound(u, lost \cup {s.uid + 1}, n) /\ u.err = t.err /\ u.mapped = t.mapped
             /\ u.elves = t.elves /\ u.uid = t.uid /\ u.bps = s.bps
<1> DEFINE u == [t EXCEPT !.bps = s.bps]
           m == Len(s.bps) + 1
<1>1. Linked(s) /\ s \in Debugger /\ s.uid \in Nat /\ s.bps \in Seq(Breakpoint)
  BY DEF Sound, Linked, Debugger
<1>2. Linked(t) /\ t \in Debugger
  BY DEF Sound, Linked
<1>3. /\ u \in Debugger
      /\ u.elves = t.elves /\ u.mapped = t.mapped /\ u.obj = t.obj /\ u.traps = t.traps
      /\ u.owned = t.owned /\ u.uid = t.uid /\ u.ghost = t.ghost /\ u.err = t.err
      /\ u.bps = s.bps
  BY <1>1, <1>2 DEF Debugger
<1> HIDE DEF u, m
<1>4. /\ DOMAIN t.bps = DOMAIN s.bps \cup {m} /\ m \notin DOMAIN s.bps
      /\ t.bps[m].uid = s.uid + 1 /\ \A i \in DOMAIN s.bps : t.bps[i] = s.bps[i]
  BY DEF Listed, Extends, OthersSame, m
<1>5. Linked(u)
  <2>1. ASSUME NEW i \in DOMAIN s.bps PROVE Lists(u, i)
    <3>1. Lists(t, i) /\ u.bps[i] = t.bps[i]
      BY <1>2, <1>3, <1>4 DEF Linked
    <3> QED BY <1>3, <3>1 DEF Lists
  <2>2. \A i, j \in DOMAIN u.bps : u.bps[i].uid = u.bps[j].uid => i = j
    BY <1>1, <1>3 DEF Linked
  <2>3. /\ u.owned \subseteq DOMAIN u.obj /\ {Main, Linker, Vdso} \subseteq u.mapped
        /\ Main \in ToSet(u.elves)
        /\ \A p, q \in u.owned : u.obj[p].addr = u.obj[q].addr => p = q
    BY <1>2, <1>3 DEF Linked
  <2> QED BY <1>3, <2>1, <2>2, <2>3 DEF Linked
<1>6. Parented(u, lost \cup {s.uid + 1})
  <2> SUFFICES ASSUME NEW o \in t.owned, t.obj[o].parent \notin {0} \cup (lost \cup {s.uid + 1})
               PROVE  \E i \in DOMAIN s.bps :
                        s.bps[i].uid = t.obj[o].parent /\ o \in ToSet(s.bps[i].sites)
    BY <1>3 DEF Parented
  <2>1. PICK i \in DOMAIN t.bps :
           t.bps[i].uid = t.obj[o].parent /\ o \in ToSet(t.bps[i].sites)
    BY DEF Sound, Parented
  <2>2. i \in DOMAIN s.bps /\ t.bps[i] = s.bps[i]
    BY <1>4, <2>1
  <2> QED BY <2>1, <2>2
<1>7. Trapped(u, n) /\ Covered(u)
  BY <1>3 DEF Sound, Trapped, Covered
<1>8. Sound(u, lost \cup {s.uid + 1}, n)
  BY <1>5, <1>6, <1>7 DEF Sound
<1> QED BY <1>3, <1>8 DEF u

(* What a handler does that may set a breakpoint and load objects. *)
Done(s, t, lost, n, byHand) ==
  /\ Sound(t, lost \cup Lost(s, t), n)
  /\ t.mapped = s.mapped /\ ToSet(s.elves) \subseteq ToSet(t.elves)
  /\ s.uid <= t.uid
  /\ Follows(s, byHand) => Follows(t, byHand)
  /\ Resolved(s) => Resolved(t)

(* target::create_*_breakpoint. *)
LEMMA CreateBreakpointKeeps ==
  ASSUME NEW s, NEW lost, NEW n, NEW byHand, NEW kind \in {"address", "line", "function"}, NEW spec,
         NEW internal \in BOOLEAN,
         Sound(s, lost, n), ~s.err, IF kind = "address" THEN spec \in Addr ELSE spec \in Names
  PROVE  LET t == CreateBreakpoint(s, kind, spec, internal)
         IN  /\ Done(s, t, lost, n, byHand)
             /\ ~t.err => Sound(t, lost, n) /\ Len(t.bps) \in DOMAIN t.bps
<1> DEFINE b == [uid |-> s.uid + 1, id |-> IF internal THEN -1 ELSE s.id + 1,
                 kind |-> kind, spec |-> spec, on |-> FALSE, sites |-> <<>>]
           r == [s EXCEPT !.bps = Append(@, b), !.uid = @ + 1,
                          !.id = IF internal THEN @ ELSE @ + 1]
           m == Len(s.bps) + 1
           t == Resolve(r, m)
           u == [t EXCEPT !.bps = s.bps]
           c == CreateBreakpoint(s, kind, spec, internal)
<1>1. c = IF t.err THEN u ELSE t
  BY DEF CreateBreakpoint
<1>2. s \in Debugger /\ s.uid \in Nat /\ s.id \in Nat /\ Linked(s)
  BY DEF Sound, Linked, Debugger
<1>3. b \in Breakpoint /\ b.uid = s.uid + 1 /\ b.sites = <<>> /\ SpecTyped(b)
  <2>1. (IF internal THEN -1 ELSE s.id + 1) \in Int /\ spec \in Addr \cup Names /\ s.uid + 1 \in Nat
        /\ <<>> \in Seq(Nat)
    BY <1>2
  <2> QED BY <2>1 DEF Breakpoint, SpecTyped
<1> HIDE DEF c, b
<1>4. Listed(s, r, b)
  BY <1>2, <1>3, ListDoes
<1> HIDE DEF r
<1>5. /\ Sound(r, lost, n)
      /\ Follows(s, byHand) => Follows(r, byHand)
      /\ Resolved(s) => (~r.err => \A i \in DOMAIN s.bps : ResolvedOne(r, i))
  BY <1>3, <1>4, ListKeeps
<1>6. m \in DOMAIN r.bps /\ ~r.err /\ DOMAIN r.bps = DOMAIN s.bps \cup {m} /\ r.uid = s.uid + 1
      /\ r.elves = s.elves /\ r.mapped = s.mapped
  BY <1>4 DEF Listed
<1> HIDE DEF m
<1>7. /\ Kept(r, t, lost, n, byHand) /\ OthersSame(r, t, m)
      /\ ~t.err => ResolvedOne(t, m)
  BY <1>5, <1>6, ResolveKeeps
<1> HIDE DEF t
<1>8. CASE t.err
  <2>1. /\ Sound(u, lost \cup {s.uid + 1}, n) /\ u.err = t.err /\ u.mapped = t.mapped
        /\ u.elves = t.elves /\ u.uid = t.uid /\ u.bps = s.bps
    BY <1>3, <1>4, <1>7, UnlistKeeps DEF Kept, m
  <2> HIDE DEF u
  <2>2. u.uid = s.uid + 1 /\ u.mapped = s.mapped /\ u.elves = s.elves
    BY <1>6, <1>7, <2>1 DEF Kept, Extends
  <2>3. s.uid + 1 \in Lost(s, u)
    <3>1. \A i \in DOMAIN s.bps : s.bps[i].uid # s.uid + 1
      <4> SUFFICES ASSUME NEW i \in DOMAIN s.bps PROVE s.bps[i].uid # s.uid + 1
        OBVIOUS
      <4>1. Lists(s, i) /\ s.bps[i].uid \in Nat
        BY <1>2, BreakpointTyped DEF Linked
      <4> QED BY <1>2, <4>1 DEF Lists
    <3> QED BY <1>2, <2>1, <2>2, <3>1 DEF Lost
  <2>4. Sound(u, lost \cup Lost(s, u), n)
    <3>1. lost \cup {s.uid + 1} \subseteq lost \cup Lost(s, u)
      BY <2>3
    <3> QED BY <2>1, <3>1, MoreLost
  <2>5. Follows(u, byHand) /\ Resolved(u)
    BY <1>8, <2>1 DEF Follows, Resolved
  <2>6. s.uid <= u.uid
    BY <1>2, <2>2
  <2>7. Done(s, u, lost, n, byHand)
    BY <2>2, <2>4, <2>5, <2>6 DEF Done
  <2> QED BY <1>1, <1>8, <2>1, <2>7 DEF c
<1>9. CASE ~t.err
  <2>1. t.elves = s.elves /\ t.mapped = s.mapped /\ t.uid = s.uid + 1 /\ DOMAIN t.bps = DOMAIN r.bps
    BY <1>6, <1>7 DEF Kept, Extends
  <2>2. Sound(t, lost, n) /\ Sound(t, lost \cup Lost(s, t), n)
    <3>1. Sound(t, lost, n) /\ lost \subseteq lost \cup Lost(s, t)
      BY <1>7 DEF Kept
    <3> QED BY <3>1, MoreLost
  <2>3. Resolved(s) => Resolved(t)
    <3> SUFFICES ASSUME Resolved(s), NEW i \in DOMAIN t.bps PROVE ResolvedOne(t, i)
      BY DEF Resolved
    <3>1. CASE i = m
      BY <1>7, <1>9, <3>1
    <3>2. CASE i # m
      <4>1. i \in DOMAIN s.bps /\ i \in DOMAIN r.bps /\ ResolvedOne(r, i)
        BY <1>5, <1>6, <2>1, <3>2
      <4>2. Linked(r) /\ Extends(r, t)
        BY <1>5, <1>7 DEF Sound, Kept
      <4> QED BY <4>1, <4>2, SitesStay
    <3> QED BY <3>1, <3>2
  <2>4. Follows(s, byHand) => Follows(t, byHand)
    BY <1>5, <1>7 DEF Kept
  <2>5. s.uid <= t.uid
    BY <1>2, <2>1
  <2>6. Done(s, t, lost, n, byHand)
    BY <2>1, <2>2, <2>3, <2>4, <2>5 DEF Done
  <2>7. Len(t.bps) \in DOMAIN t.bps
    <3>1. t.bps \in Seq(Breakpoint)
      BY <2>2 DEF Sound, Linked, Debugger
    <3>2. DOMAIN t.bps = 1 .. Len(t.bps) /\ Len(t.bps) \in Nat /\ m \in DOMAIN t.bps
      BY <1>6, <2>1, <3>1, Element
    <3> QED BY <3>2
  <2> QED BY <1>1, <1>9, <2>2, <2>6, <2>7 DEF c
<1> QED BY <1>8, <1>9

(* create_*_breakpoint(...).enable(). *)
LEMMA SetAndEnableKeeps ==
  ASSUME NEW s, NEW lost, NEW n, NEW byHand, NEW kind \in {"address", "line", "function"}, NEW spec,
         NEW internal \in BOOLEAN,
         Sound(s, lost, n), ~s.err, IF kind = "address" THEN spec \in Addr ELSE spec \in Names
  PROVE  LET t == SetAndEnable(s, kind, spec, internal)
         IN  Done(s, t, lost, n, byHand) /\ (~t.err => Sound(t, lost, n))
<1> DEFINE t == CreateBreakpoint(s, kind, spec, internal)
           i == Len(t.bps)
           v == SwitchAll(t, i, TRUE)
           r == SetAndEnable(s, kind, spec, internal)
<1>1. r = IF t.err THEN t ELSE v
  BY DEF SetAndEnable
<1>2. /\ Done(s, t, lost, n, byHand)
      /\ ~t.err => Sound(t, lost, n) /\ i \in DOMAIN t.bps
  BY CreateBreakpointKeeps
<1> HIDE DEF t, i, r
<1>3. CASE t.err
  BY <1>1, <1>2, <1>3 DEF r
<1>4. CASE ~t.err
  <2>1. /\ Sound(v, lost, n) /\ Alike(t, v)
        /\ Follows(t, byHand) => Follows(v, byHand \ ToSet(t.bps[i].sites))
    BY <1>2, <1>4, SwitchAllKeeps
  <2> HIDE DEF v
  <2>2. Follows(t, byHand) => Follows(v, byHand)
    BY <2>1 DEF Follows, FollowsOne
  <2>3. Resolved(t) => Resolved(v)
    BY <1>2, <1>4, <2>1, AlikeResolved DEF Sound
  <2>4. Sound(v, lost \cup Lost(s, v), n)
    <3>1. lost \subseteq lost \cup Lost(s, v)
      OBVIOUS
    <3> QED BY <2>1, <3>1, MoreLost
  <2>5. v.mapped = t.mapped /\ v.elves = t.elves /\ v.uid = t.uid
    BY <2>1 DEF Alike
  <2>6. Done(s, v, lost, n, byHand)
    BY <1>2, <2>2, <2>3, <2>4, <2>5 DEF Done
  <2> QED BY <1>1, <1>4, <2>1, <2>6 DEF r
<1> QED BY <1>3, <1>4

-------------------------------------------------------------------------------
(* The objects of the link map are loaded, the breakpoints resolved again. *)

LEMMA SetToSeqDoes ==
  ASSUME NEW S, IsFiniteSet(S)
  PROVE  SetToSeq(S) \in Seq(S) /\ ToSet(SetToSeq(S)) = S
<1> DEFINE n == Cardinality(S)
           q == SetToSeq(S)
<1>1. n \in Nat /\ ExistsBijection(1 .. n, S)
  BY FS_CardinalityType
<1> HIDE DEF n
<1>2. PICK f \in Bijection(1 .. n, S) : TRUE
  BY <1>1 DEF ExistsBijection
<1>3. f \in [1 .. n -> S] /\ IsInjective(f)
  BY <1>2 DEF Bijection, Injection, IsInjective
<1>4. q \in [1 .. n -> S] /\ IsInjective(q)
  <2>1. q = CHOOSE h \in [1 .. n -> S] : IsInjective(h)
    BY DEF SetToSeq, n
  <2> HIDE DEF q
  <2> QED BY <1>3, <2>1
<1> HIDE DEF q
<1>5. q \in Injection(1 .. n, S)
  BY <1>4 DEF Injection, IsInjective
<1>6. q \in Surjection(1 .. n, S)
  <2>1. Cardinality(1 .. n) = n /\ Cardinality(S) = n
    <3>1. 1 \in Int /\ n \in Int /\ (IF 1 > n THEN 0 ELSE n - 1 + 1) = n
      BY <1>1
    <3>2. Cardinality(1 .. n) = IF 1 > n THEN 0 ELSE n - 1 + 1
      BY <3>1, FS_Interval
    <3> QED BY <3>1, <3>2 DEF n
  <2> QED BY <1>5, <2>1, FS_Injection
<1>7. ToSet(q) = S
  BY <1>4, <1>6 DEF ToSet, Surjection
<1>8. q \in Seq(S)
  BY <1>1, <1>4, SeqDef
<1> QED BY <1>7, <1>8 DEF q

(* Objects were loaded. *)
Grown(s, t) ==
  /\ t \in Debugger
  /\ t.mapped = s.mapped /\ t.bps = s.bps /\ t.obj = s.obj /\ t.owned = s.owned
  /\ t.traps = s.traps /\ t.uid = s.uid /\ t.ghost = s.ghost
  /\ ToSet(s.elves) \subseteq ToSet(t.elves)
  /\ ~t.err => ~s.err

LEMMA GrownKeeps ==
  ASSUME NEW s, NEW t, NEW lost, NEW n, NEW byHand, Sound(s, lost, n), Grown(s, t)
  PROVE  Sound(t, lost, n) /\ (Follows(s, byHand) => Follows(t, byHand))
<1>1. Linked(t)
  <2>1. Linked(s)
    BY DEF Sound
  <2> QED BY <2>1 DEF Linked, Lists, Grown
<1>2. Parented(t, lost)
  BY DEF Sound, Parented, Grown
<1>3. Trapped(t, n) /\ Covered(t)
  BY DEF Sound, Trapped, Covered, Grown
<1>4. Follows(s, byHand) => Follows(t, byHand)
  BY DEF Follows, FollowsOne, Grown
<1> QED BY <1>1, <1>2, <1>3, <1>4 DEF Sound

LEMMA LoadDoes ==
  ASSUME NEW s \in Debugger, NEW e \in Elf
  PROVE  /\ Grown(s, LoadElf(s, e))
         /\ ~LoadElf(s, e).err => e \in ToSet(LoadElf(s, e).elves)
<1> DEFINE q == Append(s.elves, e)
           t == LoadElf(s, e)
<1>1. Grown(s, s)
  BY DEF Grown
<1>2. CASE IsLoaded(s, e)
  BY <1>1, <1>2 DEF LoadElf, IsLoaded
<1>3. CASE ~IsLoaded(s, e) /\ e = Vdso /\ vdso = "written"
  <2>1. t = [s EXCEPT !.err = TRUE]
    BY <1>3 DEF LoadElf
  <2>2. Same(s, t) /\ t.err
    BY <2>1, FailDoes
  <2> HIDE DEF t
  <2> QED BY <2>2 DEF Same, Grown, t
<1>4. CASE ~IsLoaded(s, e) /\ ~(e = Vdso /\ vdso = "written")
  <2>1. t = [s EXCEPT !.elves = q]
    BY <1>4 DEF LoadElf
  <2>2. s.elves \in Seq(Elf)
    BY DEF Debugger
  <2>3. /\ q \in Seq(Elf) /\ \A k \in DOMAIN s.elves : k \in DOMAIN q /\ q[k] = s.elves[k]
        /\ Len(s.elves) + 1 \in DOMAIN q /\ q[Len(s.elves) + 1] = e
    <3>1. /\ q \in Seq(Elf) /\ Len(q) = Len(s.elves) + 1
          /\ \A k \in 1 .. Len(s.elves) : q[k] = s.elves[k]
          /\ q[Len(s.elves) + 1] = e
      BY <2>2, AppendProperties
    <3> HIDE DEF q
    <3>2. /\ DOMAIN q = 1 .. Len(s.elves) + 1 /\ DOMAIN s.elves = 1 .. Len(s.elves)
          /\ Len(s.elves) \in Nat
      BY <2>2, <3>1, LenProperties
    <3> QED BY <3>1, <3>2
  <2> HIDE DEF q, t
  <2>4. ToSet(s.elves) \subseteq ToSet(q) /\ e \in ToSet(q)
    BY <2>3 DEF ToSet
  <2>5. t.elves = q /\ Grown(s, t)
    BY <2>1, <2>3, <2>4 DEF Debugger, Grown
  <2> QED BY <2>4, <2>5 DEF t
<1> QED BY <1>2, <1>3, <1>4

Loads(s, xs, f) ==
  [m \in 0 .. Len(xs) |->
    IF m = 0 THEN s
    ELSE IF f[m - 1].err THEN f[m - 1] ELSE LoadElf(f[m - 1], xs[m])]

(* The loop over the link map. *)
LEMMA LoadLoop ==
  ASSUME NEW s \in Debugger, NEW xs \in Seq(Elf)
  PROVE  LET t == (CHOOSE f : f = Loads(s, xs, f))[Len(xs)]
         IN  Grown(s, t) /\ (~t.err => ToSet(xs) \subseteq ToSet(t.elves))
<1> DEFINE N == Len(xs)
           Fine(t, m) == /\ Grown(s, t)
                         /\ ~t.err => \A k \in 1 .. m : xs[k] \in ToSet(t.elves)
           Good == [m \in 0 .. N |-> {t \in Debugger : Fine(t, m)}]
           Step(t, m) == IF t.err THEN t ELSE LoadElf(t, xs[m])
           g == [m \in 1 .. N |-> [t \in Debugger |-> Step(t, m)]]
           F == CHOOSE f : f = Loads(s, xs, f)
<1>1. N \in Nat /\ DOMAIN xs = 1 .. N /\ \A k \in 1 .. N : xs[k] \in Elf
  BY Element
<1>2. s \in Debugger /\ s \in Good[0]
  <2>1. Grown(s, s)
    BY DEF Grown
  <2> HIDE DEF N
  <2> QED BY <1>1, <2>1
<1>3. ASSUME NEW m \in 1 .. N, NEW t \in Good[m - 1]
      PROVE  t \in Debugger /\ Step(t, m) \in Good[m]
  <2>1. m \in Nat /\ m - 1 \in 0 .. N /\ m \in 0 .. N /\ xs[m] \in Elf
        /\ 1 .. m = 1 .. m - 1 \cup {m}
    <3> HIDE DEF N
    <3> QED BY <1>1
  <2>2. t \in Debugger /\ Fine(t, m - 1)
    <3> HIDE DEF Fine
    <3> QED BY <2>1
  <2>3. Fine(Step(t, m), m)
    <3>1. CASE t.err
      BY <2>2, <3>1
    <3>2. CASE ~t.err
      <4> DEFINE u == LoadElf(t, xs[m])
      <4>1. Grown(t, u) /\ (~u.err => xs[m] \in ToSet(u.elves))
        BY <2>1, <2>2, LoadDoes
      <4>2. Step(t, m) = u
        BY <3>2
      <4> HIDE DEF u, Step, Good, N
      <4>3. Grown(s, u)
        BY <2>2, <4>1 DEF Grown
      <4>4. ~u.err => \A k \in 1 .. m : xs[k] \in ToSet(u.elves)
        BY <2>1, <2>2, <3>2, <4>1 DEF Grown
      <4> QED BY <4>2, <4>3, <4>4
    <3> QED BY <3>1, <3>2
  <2>4. Step(t, m) \in Debugger
    BY <2>3 DEF Grown
  <2> HIDE DEF Fine, Step
  <2> QED BY <2>1, <2>2, <2>3, <2>4
<1> HIDE DEF Fine
<1>4. F = Loads(s, xs, F)
  <2>1. \A m \in 1 .. N : \A t \in Good[m - 1] : g[m][t] \in Good[m]
    <3> HIDE DEF Good, Step, N
    <3> QED BY <1>3
  <2> HIDE DEF g
  <2>2. PICK f : f = Loop(N, s, g, f) /\ \A m \in 0 .. N : f[m] \in Good[m]
    <3> HIDE DEF Good, N
    <3> QED BY <1>1, <1>2, <2>1, LoopExists
  <2>3. f = Loads(s, xs, f)
    <3>1. ASSUME NEW m \in 0 .. N
          PROVE  f[m] = IF m = 0 THEN s ELSE Step(f[m - 1], m)
      <4>1. f[m] = IF m = 0 THEN s ELSE g[m][f[m - 1]]
        BY <2>2 DEF Loop
      <4>2. m # 0 => m \in 1 .. N /\ m - 1 \in 0 .. N
        BY <1>1
      <4>3. m # 0 => f[m - 1] \in Debugger
        <5> HIDE DEF Good, Step, N
        <5> QED BY <1>3, <2>2, <4>2
      <4>4. m # 0 => g[m][f[m - 1]] = Step(f[m - 1], m)
        <5> HIDE DEF Step, N
        <5> QED BY <4>2, <4>3 DEF g
      <4> QED BY <4>1, <4>4
    <3>2. f = [m \in 0 .. N |-> f[m]]
      BY <2>2 DEF Loop
    <3> QED BY <3>1, <3>2 DEF Loads
  <2> HIDE DEF Good
  <2> QED BY <2>3
<1> HIDE DEF F
<1>5. F[0] = s /\ \A m \in 1 .. N : F[m] = Step(F[m - 1], m)
  <2>1. \A m \in 0 .. N : F[m] = IF m = 0 THEN s ELSE Step(F[m - 1], m)
    BY <1>4 DEF Loads
  <2>2. 0 \in 0 .. N /\ \A m \in 1 .. N : m \in 0 .. N /\ m # 0
    BY <1>1
  <2> HIDE DEF Step, N
  <2> QED BY <2>1, <2>2
<1>6. F[N] \in Good[N]
  <2> HIDE DEF Good, Step, N
  <2>1. F[0] \in Good[0] /\ N \in Nat
    BY <1>1, <1>2, <1>5
  <2>2. \A m \in 1 .. N : F[m - 1] \in Good[m - 1] => F[m] \in Good[m]
    BY <1>3, <1>5
  <2> QED BY <2>1, <2>2, LoopKeeps
<1>7. Fine(F[N], N)
  <2> HIDE DEF N
  <2> QED BY <1>1, <1>6
<1>8. \A e \in ToSet(xs) : \E k \in 1 .. N : e = xs[k]
  BY <1>1 DEF ToSet
<1> QED BY <1>7, <1>8 DEF Fine, F

LEMMA LinkMapDoes ==
  ASSUME NEW s \in Debugger
  PROVE  LinkMap(s) \in Seq(Elf) /\ ToSet(LinkMap(s)) = {Vdso} \cup (s.mapped \ {Main, Vdso})
<1> DEFINE S == s.mapped \ {Main, Vdso}
           q == SetToSeq(S)
           v == <<Vdso>>
<1>1. s.mapped \subseteq Elf /\ IsFiniteSet(Elf) /\ Vdso \in Elf
  BY BreakpointsAssumption DEF Debugger
<1>2. S \in SUBSET Elf
  BY <1>1
<1>3. IsFiniteSet(S)
  BY <1>1, <1>2, FS_Subset
<1> HIDE DEF S
<1>4. q \in Seq(S) /\ ToSet(q) = S
  BY <1>3, SetToSeqDoes
<1>5. q \in Seq(Elf)
  <2> HIDE DEF q
  <2>1. \A i \in 1 .. Len(q) : q[i] \in Elf
    BY <1>2, <1>4, Element
  <2>2. Len(q) \in Nat /\ q = [i \in 1 .. Len(q) |-> q[i]]
    BY <1>4
  <2> QED BY <2>1, <2>2, IsASeq
<1>6. v \in Seq(Elf) /\ ToSet(v) = {Vdso}
  <2>1. DOMAIN v = {1} /\ v[1] = Vdso
    OBVIOUS
  <2>2. v \in Seq(Elf)
    BY <1>1
  <2> HIDE DEF v
  <2> QED BY <2>1, <2>2 DEF ToSet
<1>7. LinkMap(s) = v \o q
  BY DEF LinkMap, S
<1> HIDE DEF q, v
<1> QED BY <1>4, <1>5, <1>6, <1>7, ConcatSet DEF S

Rounds(s, xs, f) ==
  [m \in 0 .. Len(xs) |->
    IF m = 0 THEN s
    ELSE IF f[m - 1].err THEN f[m - 1] ELSE Resolve(f[m - 1], xs[m])]

(* The loop of reload_dynamic_libraries over the breakpoints. *)
LEMMA RoundLoop ==
  ASSUME NEW s, NEW lost, NEW n, NEW byHand, NEW xs, xs = [i \in DOMAIN s.bps |-> i],
         Sound(s, lost, n)
  PROVE  LET t == (CHOOSE f : f = Rounds(s, xs, f))[Len(xs)]
         IN  Kept(s, t, lost, n, byHand) /\ Resolved(t) /\ (~t.err => ~s.err)
<1> DEFINE N == Len(xs)
           Fine(t, m) == /\ Kept(s, t, lost, n, byHand)
                         /\ ~t.err => ~s.err /\ \A k \in 1 .. m : ResolvedOne(t, k)
           Good == [m \in 0 .. N |-> {t \in Debugger : Fine(t, m)}]
           Step(t, m) == IF t.err THEN t ELSE Resolve(t, xs[m])
           g == [m \in 1 .. N |-> [t \in Debugger |-> Step(t, m)]]
           F == CHOOSE f : f = Rounds(s, xs, f)
<1>1. N \in Nat /\ DOMAIN s.bps = 1 .. N /\ \A k \in 1 .. N : xs[k] = k
  <2>1. s.bps \in Seq(Breakpoint)
    BY DEF Sound, Linked, Debugger
  <2>2. DOMAIN s.bps = 1 .. Len(s.bps) /\ Len(s.bps) \in Nat
    BY <2>1, Element
  <2> DEFINE p == Len(s.bps)
  <2> HIDE DEF p
  <2>3. p \in Nat /\ xs = [i \in 1 .. p |-> i] /\ DOMAIN s.bps = 1 .. p
    BY <2>2 DEF p
  <2>4. xs \in Seq(Nat) /\ DOMAIN xs = 1 .. p
    <3>1. xs \in [1 .. p -> Nat]
      BY <2>3
    <3> QED BY <2>3, <3>1, SeqDef
  <2>5. Len(xs) = p
    BY <2>3, <2>4, LenProperties
  <2> QED BY <2>3, <2>5
<1>2. s \in Debugger /\ s \in Good[0]
  <2>1. Kept(s, s, lost, n, byHand)
    BY DEF Kept, Extends
  <2>2. s \in Debugger
    BY DEF Sound, Linked
  <2> HIDE DEF N
  <2> QED BY <1>1, <2>1, <2>2
<1>3. ASSUME NEW m \in 1 .. N, NEW t \in Good[m - 1]
      PROVE  t \in Debugger /\ Step(t, m) \in Good[m]
  <2>1. /\ m \in Nat /\ m - 1 \in 0 .. N /\ m \in 0 .. N /\ xs[m] = m /\ m \in DOMAIN s.bps
        /\ 1 .. m = 1 .. m - 1 \cup {m} /\ 1 .. m - 1 \subseteq DOMAIN s.bps
    <3> HIDE DEF N
    <3> QED BY <1>1
  <2>2. t \in Debugger /\ Fine(t, m - 1)
    <3> HIDE DEF Fine
    <3> QED BY <2>1
  <2>3. Fine(Step(t, m), m)
    <3>1. CASE t.err
      BY <2>2, <3>1
    <3>2. CASE ~t.err
      <4> DEFINE u == Resolve(t, m)
      <4>1. Sound(t, lost, n) /\ DOMAIN t.bps = DOMAIN s.bps /\ Linked(t)
        BY <2>2 DEF Kept, Extends, Sound
      <4>2. Kept(t, u, lost, n, byHand) /\ (~u.err => ResolvedOne(u, m))
        BY <2>1, <3>2, <4>1, ResolveKeeps
      <4>3. Step(t, m) = u
        BY <2>1, <3>2
      <4> HIDE DEF u, Step, Good, N
      <4>4. Kept(s, u, lost, n, byHand)
        BY <2>2, <4>2, KeptTwice
      <4>5. \A k \in 1 .. m - 1 : ResolvedOne(u, k)
        BY <2>1, <2>2, <3>2, <4>1, <4>2, SitesStay DEF Kept
      <4>6. ~u.err => ~s.err /\ \A k \in 1 .. m : ResolvedOne(u, k)
        BY <2>1, <2>2, <3>2, <4>2, <4>5
      <4> QED BY <4>3, <4>4, <4>6
    <3> QED BY <3>1, <3>2
  <2>4. Step(t, m) \in Debugger
    BY <2>3 DEF Kept, Sound, Linked
  <2> HIDE DEF Fine, Step
  <2> QED BY <2>1, <2>2, <2>3, <2>4
<1> HIDE DEF Fine
<1>4. F = Rounds(s, xs, F)
  <2>1. \A m \in 1 .. N : \A t \in Good[m - 1] : g[m][t] \in Good[m]
    <3> HIDE DEF Good, Step, N
    <3> QED BY <1>3
  <2> HIDE DEF g
  <2>2. PICK f : f = Loop(N, s, g, f) /\ \A m \in 0 .. N : f[m] \in Good[m]
    <3> HIDE DEF Good, N
    <3> QED BY <1>1, <1>2, <2>1, LoopExists
  <2>3. f = Rounds(s, xs, f)
    <3>1. ASSUME NEW m \in 0 .. N
          PROVE  f[m] = IF m = 0 THEN s ELSE Step(f[m - 1], m)
      <4>1. f[m] = IF m = 0 THEN s ELSE g[m][f[m - 1]]
        BY <2>2 DEF Loop
      <4>2. m # 0 => m \in 1 .. N /\ m - 1 \in 0 .. N
        BY <1>1
      <4>3. m # 0 => f[m - 1] \in Debugger
        <5> HIDE DEF Good, Step, N
        <5> QED BY <1>3, <2>2, <4>2
      <4>4. m # 0 => g[m][f[m - 1]] = Step(f[m - 1], m)
        <5> HIDE DEF Step, N
        <5> QED BY <4>2, <4>3 DEF g
      <4> QED BY <4>1, <4>4
    <3>2. f = [m \in 0 .. N |-> f[m]]
      BY <2>2 DEF Loop
    <3> QED BY <3>1, <3>2 DEF Rounds
  <2> HIDE DEF Good
  <2> QED BY <2>3
<1> HIDE DEF F
<1>5. F[0] = s /\ \A m \in 1 .. N : F[m] = Step(F[m - 1], m)
  <2>1. \A m \in 0 .. N : F[m] = IF m = 0 THEN s ELSE Step(F[m - 1], m)
    BY <1>4 DEF Rounds
  <2>2. 0 \in 0 .. N /\ \A m \in 1 .. N : m \in 0 .. N /\ m # 0
    BY <1>1
  <2> HIDE DEF Step, N
  <2> QED BY <2>1, <2>2
<1>6. F[N] \in Good[N]
  <2> HIDE DEF Good, Step, N
  <2>1. F[0] \in Good[0] /\ N \in Nat
    BY <1>1, <1>2, <1>5
  <2>2. \A m \in 1 .. N : F[m - 1] \in Good[m - 1] => F[m] \in Good[m]
    BY <1>3, <1>5
  <2> QED BY <2>1, <2>2, LoopKeeps
<1>7. Fine(F[N], N)
  <2> HIDE DEF N
  <2> QED BY <1>1, <1>6
<1>8. DOMAIN F[N].bps = 1 .. N
  BY <1>1, <1>7 DEF Fine, Kept, Extends
<1> QED BY <1>7, <1>8 DEF Fine, F, Resolved

(* What reload_dynamic_libraries does. *)
Reloaded(s, t, lost, n, byHand) ==
  /\ Sound(t, lost, n)
  /\ t.mapped = s.mapped /\ t.uid = s.uid /\ ToSet(s.elves) \subseteq ToSet(t.elves)
  /\ Follows(s, byHand) => Follows(t, byHand)
  /\ Resolved(t)
  /\ ~t.err => t.mapped \subseteq ToSet(t.elves)

(* target::reload_dynamic_libraries. *)
LEMMA ReloadKeeps ==
  ASSUME NEW s, NEW lost, NEW n, NEW byHand, Sound(s, lost, n)
  PROVE  Reloaded(s, ReloadLibraries(s), lost, n, byHand)
<1> DEFINE xs == LinkMap(s)
           t == (CHOOSE f : f = Loads(s, xs, f))[Len(xs)]
           is == [i \in DOMAIN t.bps |-> i]
           u == (CHOOSE f : f = Rounds(t, is, f))[Len(is)]
<1>1. s \in Debugger /\ Linked(s)
  BY DEF Sound, Linked
<1>2. ReloadLibraries(s) = u
  <2>1. t = ForEach(s, LinkMap(s), LoadElf)
    BY DEF ForEach, Loads
  <2> HIDE DEF t
  <2>2. ForEach(t, is, Resolve) = u
    BY DEF ForEach, Rounds
  <2> HIDE DEF u
  <2> QED BY <2>1, <2>2 DEF ReloadLibraries
<1>3. xs \in Seq(Elf) /\ ToSet(xs) = {Vdso} \cup (s.mapped \ {Main, Vdso})
  BY <1>1, LinkMapDoes
<1> HIDE DEF xs
<1>4. Grown(s, t) /\ (~t.err => ToSet(xs) \subseteq ToSet(t.elves))
  BY <1>1, <1>3, LoadLoop
<1> HIDE DEF t
<1>5. Sound(t, lost, n) /\ (Follows(s, byHand) => Follows(t, byHand))
  BY <1>4, GrownKeeps
<1>6. Kept(t, u, lost, n, byHand) /\ Resolved(u) /\ (~u.err => ~t.err)
  <2>1. is = [i \in DOMAIN t.bps |-> i]
    OBVIOUS
  <2> HIDE DEF is
  <2> QED BY <1>5, <2>1, RoundLoop
<1> HIDE DEF u
<1>7. u.mapped = s.mapped /\ u.uid = s.uid /\ u.elves = t.elves
      /\ ToSet(s.elves) \subseteq ToSet(u.elves)
  BY <1>4, <1>6 DEF Grown, Kept, Extends
<1>8. ~u.err => u.mapped \subseteq ToSet(u.elves)
  <2>1. Main \in ToSet(s.elves)
    BY <1>1 DEF Linked
  <2> QED BY <1>3, <1>4, <1>6, <1>7, <2>1
<1>9. Sound(u, lost, n) /\ (Follows(s, byHand) => Follows(u, byHand))
  BY <1>5, <1>6 DEF Kept
<1> QED BY <1>2, <1>6, <1>7, <1>8, <1>9 DEF Reloaded

LEMMA ReloadedDone ==
  ASSUME NEW s, NEW t, NEW lost, NEW n, NEW byHand, Linked(s), Reloaded(s, t, lost, n, byHand)
  PROVE  Done(s, t, lost, n, byHand)
<1>1. lost \subseteq lost \cup Lost(s, t) /\ s.uid \in Nat
  BY DEF Linked, Debugger
<1>2. Sound(t, lost \cup Lost(s, t), n)
  BY <1>1, MoreLost DEF Reloaded
<1> QED BY <1>1, <1>2 DEF Reloaded, Done

LEMMA SameDone ==
  ASSUME NEW s, NEW t, NEW lost, NEW n, NEW byHand, Sound(s, lost, n), Same(s, t), t.err = s.err
  PROVE  Done(s, t, lost, n, byHand)
<1>1. Sound(t, lost, n)
  BY SameKeeps
<1>2. lost \subseteq lost \cup Lost(s, t) /\ s.uid \in Nat
  BY DEF Sound, Linked, Debugger
<1>3. Sound(t, lost \cup Lost(s, t), n)
  BY <1>1, <1>2, MoreLost
<1>4. Follows(s, byHand) => Follows(t, byHand)
  BY DEF Same, Follows, FollowsOne
<1>5. Resolved(s) => Resolved(t)
  <2>1. Extends(s, t) /\ Linked(s) /\ t.bps = s.bps
    BY SameExtends DEF Sound, Same
  <2>2. \A i \in DOMAIN s.bps : ResolvedOne(s, i) => ResolvedOne(t, i)
    BY <2>1, SitesStay
  <2> QED BY <2>1, <2>2 DEF Resolved
<1> QED BY <1>2, <1>3, <1>4, <1>5 DEF Done, Same

(* target::resolve_dynamic_linker_rendezvous. *)
LEMMA RendezvousKeeps ==
  ASSUME NEW s, NEW lost, NEW n, NEW byHand, Sound(s, lost, n)
  PROVE  LET t == ResolveRendezvous(s)
         IN  /\ Done(s, t, lost, n, byHand)
             /\ ~t.err => Sound(t, lost, n)
             /\ ~s.rdv /\ ~t.err => t.mapped \subseteq ToSet(t.elves)
<1> DEFINE r == [s EXCEPT !.rdv = TRUE]
           t == ReloadLibraries(r)
           u == SetAndEnable(t, "address", RBrk, TRUE)
           v == ResolveRendezvous(s)
<1>1. s \in Debugger /\ Linked(s)
  BY DEF Sound, Linked
<1>2. CASE s.rdv
  <2>1. v = s
    BY <1>2 DEF ResolveRendezvous
  <2>2. Same(s, s)
    BY <1>1 DEF Same
  <2>3. Done(s, s, lost, n, byHand)
    BY <2>2, SameDone
  <2> QED BY <1>2, <2>1, <2>3
<1>3. CASE ~s.rdv
  <2>1. v = IF t.err THEN t ELSE u
    BY <1>3 DEF ResolveRendezvous
  <2>2. /\ r \in Debugger /\ r.mapped = s.mapped /\ r.bps = s.bps /\ r.obj = s.obj
        /\ r.owned = s.owned /\ r.traps = s.traps /\ r.uid = s.uid /\ r.ghost = s.ghost
        /\ r.elves = s.elves /\ r.err = s.err
    BY <1>1 DEF Debugger
  <2> HIDE DEF r, v
  <2>3. Grown(s, r)
    BY <2>2 DEF Grown
  <2>4. Sound(r, lost, n) /\ (Follows(s, byHand) => Follows(r, byHand))
    BY <2>3, GrownKeeps
  <2>5. Reloaded(r, t, lost, n, byHand)
    BY <2>4, ReloadKeeps
  <2> HIDE DEF t
  <2>6. Reloaded(s, t, lost, n, byHand)
    BY <2>2, <2>4, <2>5 DEF Reloaded
  <2>7. CASE t.err
    BY <1>1, <2>1, <2>6, <2>7, ReloadedDone DEF v
  <2>8. CASE ~t.err
    <3>1. Done(t, u, lost, n, byHand) /\ (~u.err => Sound(u, lost, n))
      <4>1. "address" \in {"address", "line", "function"} /\ TRUE \in BOOLEAN /\ RBrk \in Addr
        BY BreakpointsAssumption
      <4>2. IF "address" = "address" THEN RBrk \in Addr ELSE RBrk \in Names
        BY <4>1
      <4>3. Sound(t, lost, n)
        BY <2>6 DEF Reloaded
      <4> QED BY <2>8, <4>1, <4>2, <4>3, SetAndEnableKeeps
    <3> HIDE DEF u
    <3>2. Done(s, u, lost, n, byHand)
      <4>1. Lost(t, u) = Lost(s, u)
        BY <2>6 DEF Reloaded, Lost
      <4> QED BY <2>6, <3>1, <4>1 DEF Reloaded, Done
    <3>3. u.mapped \subseteq ToSet(u.elves)
      BY <2>6, <2>8, <3>1 DEF Reloaded, Done
    <3> QED BY <2>1, <2>8, <3>1, <3>2, <3>3 DEF v
  <2> QED BY <2>7, <2>8
<1> QED BY <1>2, <1>3

(* breakpoint::notify_hit. *)
LEMMA NotifyKeeps ==
  ASSUME NEW s, NEW lost, NEW n, NEW byHand, Sound(s, lost, n), NEW b
  PROVE  Done(s, NotifyHit(s, b), lost, n, byHand)
<1>1. Linked(s) /\ Same(s, s)
  BY DEF Sound, Linked, Same
<1>2. Done(s, ResolveRendezvous(s), lost, n, byHand)
  BY RendezvousKeeps
<1>3. Done(s, ReloadLibraries(s), lost, n, byHand)
  BY <1>1, ReloadKeeps, ReloadedDone
<1>4. Done(s, s, lost, n, byHand)
  BY <1>1, SameDone
<1> QED BY <1>2, <1>3, <1>4 DEF NotifyHit

(* wait_on_signal at a trap. *)
LEMMA HitKeeps ==
  ASSUME NEW s, NEW lost, NEW n, NEW byHand, Sound(s, lost, n), NEW a
  PROVE  Done(s, HitAt(s, a), lost, n, byHand)
<1> DEFINE os == {o \in SitesAt(s, a) : s.obj[o].on}
           ps == {s.obj[o].parent : o \in os} \ {0}
           is == {i \in DOMAIN s.bps : s.bps[i].uid \in ps}
           b == s.bps[CHOOSE i \in is : TRUE]
           h == [s EXCEPT !.hot = TRUE]
<1>1. HitAt(s, a) = IF a \notin s.traps \/ ps = {} THEN s
                    ELSE IF is = {} THEN h ELSE NotifyHit(s, b)
  BY DEF HitAt
<1> HIDE DEF ps, is, b
<1>2. s \in Debugger /\ Same(s, s)
  BY DEF Sound, Linked, Same
<1>3. Same(s, h) /\ h.err = s.err
  BY <1>2 DEF Same, Debugger
<1> HIDE DEF h
<1>4. Done(s, s, lost, n, byHand) /\ Done(s, h, lost, n, byHand)
  BY <1>2, <1>3, SameDone
<1>5. Done(s, NotifyHit(s, b), lost, n, byHand)
  BY NotifyKeeps
<1> QED BY <1>1, <1>4, <1>5

(* A trap that is heard is the target's own, and its handler runs. *)
LEMMA HeardRuns ==
  ASSUME NEW s, NEW lost, NEW n, Sound(s, lost, n), NEW a, Heard(s, a)
  PROVE  \E b : /\ HitAt(s, a) = NotifyHit(s, b)
                /\ b.kind = "address" /\ b.id = -1 /\ b.spec = a
<1> DEFINE os == {o \in SitesAt(s, a) : s.obj[o].on}
           ps == {s.obj[o].parent : o \in os} \ {0}
           is == {i \in DOMAIN s.bps : s.bps[i].uid \in ps}
<1>1. HitAt(s, a) = IF a \notin s.traps \/ ps = {} THEN s
                    ELSE IF is = {} THEN [s EXCEPT !.hot = TRUE]
                    ELSE NotifyHit(s, s.bps[CHOOSE i \in is : TRUE])
  BY DEF HitAt
<1>2. PICK o \in SitesAt(s, a), i \in DOMAIN s.bps :
         /\ s.obj[o].on /\ s.bps[i].uid = s.obj[o].parent
         /\ s.bps[i].kind = "address" /\ s.bps[i].id = -1 /\ s.bps[i].spec = a
  BY DEF Heard
<1>3. os = {o}
  <2>1. \A p, q \in s.owned : s.obj[p].addr = s.obj[q].addr => p = q
    BY DEF Sound, Linked
  <2> QED BY <1>2, <2>1 DEF SitesAt
<1> HIDE DEF os
<1>4. ps = {s.bps[i].uid}
  <2>1. s.bps[i].uid # 0
    <3>1. Lists(s, i)
      BY DEF Sound, Linked
    <3> QED BY <3>1 DEF Lists
  <2> QED BY <1>2, <1>3, <2>1
<1> HIDE DEF ps
<1>5. is = {i}
  <2>1. \A j \in DOMAIN s.bps : s.bps[j].uid = s.bps[i].uid => j = i
    BY DEF Sound, Linked
  <2> QED BY <1>4, <2>1
<1> HIDE DEF is
<1>6. (CHOOSE j \in is : TRUE) = i
  BY <1>5
<1>7. HitAt(s, a) = NotifyHit(s, s.bps[i])
  BY <1>1, <1>4, <1>5, <1>6 DEF Heard
<1> QED BY <1>2, <1>7

(* After a trap that was heard the debugger has every object. *)
LEMMA HeardLoads ==
  ASSUME NEW s, NEW lost, NEW n, Sound(s, lost, n), NEW a, Heard(s, a),
         a = RBrk \/ (a = Entry /\ ~s.rdv), ~HitAt(s, a).err
  PROVE  HitAt(s, a).mapped \subseteq ToSet(HitAt(s, a).elves)
<1>1. PICK b : /\ HitAt(s, a) = NotifyHit(s, b)
               /\ b.kind = "address" /\ b.id = -1 /\ b.spec = a
  BY HeardRuns
<1>2. RBrk # Entry
  BY BreakpointsAssumption
<1>3. CASE a = RBrk
  <2>1. NotifyHit(s, b) = ReloadLibraries(s)
    BY <1>1, <1>2, <1>3 DEF NotifyHit
  <2>2. Reloaded(s, ReloadLibraries(s), lost, n, {})
    BY ReloadKeeps
  <2> QED BY <1>1, <2>1, <2>2 DEF Reloaded
<1>4. CASE a = Entry /\ ~s.rdv
  <2>1. NotifyHit(s, b) = ResolveRendezvous(s)
    BY <1>1, <1>2, <1>4 DEF NotifyHit
  <2>2. ~s.rdv /\ ~ResolveRendezvous(s).err
        => ResolveRendezvous(s).mapped \subseteq ToSet(ResolveRendezvous(s).elves)
    BY RendezvousKeeps
  <2> QED BY <1>1, <1>4, <2>1, <2>2
<1> QED BY <1>3, <1>4

-------------------------------------------------------------------------------
(* Sites set and switched by themselves. *)

LEMMA SiteTyped ==
  ASSUME NEW s, Linked(s), NEW o \in DOMAIN s.obj
  PROVE  s.obj[o].addr \in Addr /\ s.obj[o].on \in BOOLEAN
<1>1. s.obj \in Seq(Site)
  BY DEF Linked, Debugger
<1>2. s.obj[o] \in Site
  BY <1>1, Element
<1> QED BY <1>2 DEF Site

(* A site without a parent. *)
LEMMA BareKeeps ==
  ASSUME NEW s, NEW t, NEW lost, NEW n, NEW a \in Addr, Sound(s, lost, n), Built(s, t, a, 0)
  PROVE  /\ Sound(t, lost, n) /\ Extends(s, t)
         /\ Len(t.obj) \in DOMAIN t.obj \ DOMAIN s.obj
<1> DEFINE o == Len(s.obj) + 1
<1>1. /\ t \in Debugger
      /\ t.elves = s.elves /\ t.mapped = s.mapped /\ t.bps = s.bps /\ t.traps = s.traps
      /\ t.uid = s.uid /\ t.ghost = s.ghost
      /\ t.owned = s.owned \cup {o} /\ o \notin DOMAIN s.obj /\ o = Len(t.obj)
      /\ DOMAIN t.obj = DOMAIN s.obj \cup {o}
      /\ \A p \in DOMAIN s.obj : t.obj[p] = s.obj[p]
      /\ t.obj[o].addr = a /\ t.obj[o].parent = 0 /\ t.obj[o].on = FALSE
      /\ \A p \in s.owned : s.obj[p].addr # a
  BY DEF Built
<1>2. Linked(s) /\ s.owned \subseteq DOMAIN s.obj
  BY DEF Sound, Linked
<1> HIDE DEF o
<1>3. Extends(s, t)
  BY <1>1 DEF Extends, Built
<1>4. Linked(t)
  <2>1. ASSUME NEW i \in DOMAIN t.bps PROVE Lists(t, i)
    <3>1. Lists(s, i)
      BY <1>1, <1>2 DEF Linked
    <3> QED BY <1>1, <3>1 DEF Lists
  <2>2. \A p, q \in t.owned : t.obj[p].addr = t.obj[q].addr => p = q
    <3>1. \A p, q \in s.owned : s.obj[p].addr = s.obj[q].addr => p = q
      BY <1>2 DEF Linked
    <3> QED BY <1>1, <1>2, <3>1
  <2>3. /\ t.owned \subseteq DOMAIN t.obj /\ {Main, Linker, Vdso} \subseteq t.mapped
        /\ Main \in ToSet(t.elves)
        /\ \A i, j \in DOMAIN t.bps : t.bps[i].uid = t.bps[j].uid => i = j
    BY <1>1, <1>2 DEF Linked
  <2> QED BY <1>1, <2>1, <2>2, <2>3 DEF Linked
<1>5. Parented(t, lost)
  <2>1. Parented(s, lost)
    BY DEF Sound
  <2> QED BY <1>1, <1>2, <2>1 DEF Parented
<1>6. Covered(t)
  BY <1>1, <1>2 DEF Sound, Covered
<1>7. Trapped(t, n)
  <2>1. a \notin s.ghost => a \notin s.traps
    BY <1>1 DEF Sound, Covered
  <2> SUFFICES ASSUME NEW p \in t.owned, t.obj[p].addr \notin t.ghost
               PROVE  LET b == t.obj[p].addr
                      IN  /\ b \in t.traps => t.obj[p].on
                          /\ t.obj[p].on => \/ b \in t.traps \/ n[Home[b]] > 1
                                            \/ Home[b] \notin t.mapped /\ n[Home[b]] >= 1
    BY DEF Trapped
  <2>2. CASE p = o
    BY <1>1, <2>1, <2>2
  <2>3. CASE p # o
    <3>1. p \in s.owned /\ t.obj[p] = s.obj[p] /\ s.obj[p].addr \notin s.ghost
      BY <1>1, <1>2, <2>3
    <3>2. t.traps = s.traps /\ t.mapped = s.mapped
      BY <1>1
    <3> QED BY <3>1, <3>2 DEF Sound, Trapped
  <2> QED BY <2>2, <2>3
<1> QED BY <1>1, <1>3, <1>4, <1>5, <1>6, <1>7 DEF Sound

(* What breakpoints have been resolved to is not lost. *)
LEMMA ExtendsResolved ==
  ASSUME NEW s, NEW t, Linked(s), Extends(s, t), Resolved(s), t.err \/ ~s.err
  PROVE  Resolved(t)
<1>1. \A i \in DOMAIN s.bps : ResolvedOne(s, i) => ResolvedOne(t, i)
  BY SitesStay
<1> QED BY <1>1 DEF Resolved, Extends

(* handle_breakpoint_command "set". *)
LEMMA SetSiteKeeps ==
  ASSUME NEW s, NEW lost, NEW n, NEW byHand, NEW a \in Addr, Sound(s, lost, n), ~s.err
  PROVE  LET t == CreateSite(s, a, 0)
         IN  Handled(s, IF t.err THEN t ELSE Switch(t, Len(t.obj), TRUE), lost, n, byHand, byHand)
<1> DEFINE t == CreateSite(s, a, 0)
           o == Len(t.obj)
           u == Switch(t, o, TRUE)
<1>1. s \in Debugger /\ Linked(s) /\ 0 \in Nat
  BY DEF Sound, Linked
<1> HIDE DEF o, u
<1>2. Built(s, t, a, 0) \/ (Same(s, t) /\ t.err)
  BY <1>1, CreateDoes
<1> USE DEF u
<1> HIDE DEF t
<1>3. CASE t.err
  <2>1. Same(s, t)
    BY <1>2, <1>3 DEF Built
  <2>2. Shrunk(s, t, lost, n)
    BY <1>3, <2>1, SameShrunk
  <2> QED BY <1>1, <1>3, <2>2, ShrunkFollows DEF t
<1>4. CASE ~t.err
  <2>1. Built(s, t, a, 0)
    BY <1>2, <1>4
  <2>2. Sound(t, lost, n) /\ Extends(s, t) /\ o \in DOMAIN t.obj \ DOMAIN s.obj
    BY <2>1, BareKeeps DEF o
  <2>3. Switched(t, u, o, TRUE)
    <3>1. t \in Debugger
      BY <2>1 DEF Built
    <3> QED BY <2>2, <3>1, SwitchDoes
  <2> HIDE DEF u
  <2>4. Sound(u, lost, n) /\ Extends(t, u)
    BY <2>2, <2>3, SwitchKeeps, SwitchExtends
  <2>5. Extends(s, u)
    BY <2>2, <2>4, ExtendsTwice
  <2>6. Resolved(s) => Resolved(u)
    BY <1>1, <2>5, ExtendsResolved
  <2>7. Follows(s, byHand) => Follows(u, byHand)
    <3> SUFFICES ASSUME Follows(s, byHand), NEW i \in DOMAIN s.bps PROVE FollowsOne(u, byHand, i)
      BY <2>5 DEF Follows, Extends
    <3>1. FollowsOne(s, byHand, i)
      BY DEF Follows
    <3>2. \A p \in ToSet(s.bps[i].sites) : p \in DOMAIN s.obj
      BY <1>1, BreakpointTyped
    <3>3. u.bps = s.bps /\ u.owned = s.owned \cup {o}
      BY <2>1, <2>3 DEF Built, Switched, o
    <3>4. \A p \in DOMAIN s.obj : u.obj[p].on = s.obj[p].on
      BY <2>1, <2>2, <2>3 DEF Built, Switched
    <3> QED BY <2>2, <3>1, <3>2, <3>3, <3>4 DEF FollowsOne
  <2>8. Handled(s, u, lost, n, byHand, byHand)
    BY <2>4, <2>5, <2>6, <2>7 DEF Handled, Extends
  <2> QED BY <1>4, <2>8 DEF t, u, o
<1> QED BY <1>3, <1>4

(* handle_breakpoint_toggle for one site. *)
LEMMA SwitchSiteKeeps ==
  ASSUME NEW s, NEW lost, NEW n, NEW byHand, NEW o \in DOMAIN s.obj, NEW on \in BOOLEAN,
         Sound(s, lost, n)
  PROVE  Handled(s, Switch(s, o, on), lost, n, byHand, byHand \cup {o})
<1> DEFINE t == Switch(s, o, on)
<1>1. s \in Debugger /\ Linked(s)
  BY DEF Sound, Linked
<1>2. Switched(s, t, o, on)
  BY <1>1, SwitchDoes
<1> HIDE DEF t
<1>3. Sound(t, lost, n) /\ Extends(s, t)
  BY <1>2, SwitchKeeps, SwitchExtends
<1>4. Resolved(s) => Resolved(t)
  BY <1>1, <1>2, <1>3, ExtendsResolved DEF Switched
<1>5. Follows(s, byHand) => Follows(t, byHand \cup {o})
  <2> SUFFICES ASSUME Follows(s, byHand), ~t.err, NEW i \in DOMAIN s.bps
               PROVE  FollowsOne(t, byHand \cup {o}, i)
    BY <1>3 DEF Follows, Extends
  <2>1. FollowsOne(s, byHand, i)
    BY <1>2 DEF Follows, Switched
  <2>2. \A p \in ToSet(s.bps[i].sites) : p \in DOMAIN s.obj
    BY <1>1, BreakpointTyped
  <2> QED BY <1>2, <2>1, <2>2 DEF FollowsOne, Switched
<1>6. Handled(s, t, lost, n, byHand, byHand \cup {o})
  BY <1>3, <1>4, <1>5 DEF Handled, Extends
<1> QED BY <1>6 DEF t

(* An identifier that is found is that of a breakpoint. *)
LEMMA WithIdDoes ==
  ASSUME Linked(st), NEW id, WithId(id) # 0
  PROVE  WithId(id) \in DOMAIN st.bps
<1> DEFINE I == {i \in 1 .. Len(st.bps) : st.bps[i].id = id}
<1>1. WithId(id) = IF I # {} THEN Min(I) ELSE 0
  BY DEF WithId, SelectInSeq
<1>2. st.bps \in Seq(Breakpoint)
  BY DEF Linked, Debugger
<1>3. DOMAIN st.bps = 1 .. Len(st.bps) /\ Len(st.bps) \in Nat
  BY <1>2, Element
<1>4. I \subseteq DOMAIN st.bps /\ I \subseteq Nat
  BY <1>3
<1> HIDE DEF I
<1>5. I # {} => \E m \in I : \A k \in I : m <= k
  BY <1>4, NatMin
<1> QED BY <1>1, <1>4, <1>5 DEF Min

-------------------------------------------------------------------------------
(* The initial states and the steps. *)

LEMMA MoreLoads ==
  ASSUME NEW s, NEW lost, NEW n \in [Elf -> Nat], NEW more \in [Elf -> Nat], Sound(s, lost, n),
         \A e \in Elf : n[e] <= more[e]
  PROVE  Sound(s, lost, more)
<1>1. Linked(s)
  BY DEF Sound
<1>2. ASSUME NEW o \in s.owned
      PROVE  LET e == Home[s.obj[o].addr]
             IN  (n[e] > 1 => more[e] > 1) /\ (n[e] >= 1 => more[e] >= 1)
  <2> DEFINE e == Home[s.obj[o].addr]
  <2>1. s.obj[o].addr \in Addr
    BY <1>1, SiteTyped DEF Linked
  <2>2. e \in Elf
    BY <2>1, BreakpointsAssumption
  <2> HIDE DEF e
  <2>3. n[e] \in Nat /\ more[e] \in Nat /\ n[e] <= more[e]
    BY <2>2
  <2>4. (n[e] > 1 => more[e] > 1) /\ (n[e] >= 1 => more[e] >= 1)
    BY <2>3
  <2> QED BY <2>4 DEF e
<1>3. Trapped(s, more)
  BY <1>2 DEF Sound, Trapped
<1> QED BY <1>3 DEF Sound

(* Before anything is set. *)
LEMMA FreshSound ==
  ASSUME NEW libs \in SUBSET Elf, NEW n
  PROVE  LET s == [Fresh EXCEPT !.mapped = @ \cup libs]
         IN  /\ Sound(s, {}, n) /\ Follows(s, {}) /\ Resolved(s) /\ ~s.err /\ ~s.rdv
             /\ s.mapped = {Main, Linker, Vdso} \cup libs /\ Main \in ToSet(s.elves)
<1> DEFINE s == [Fresh EXCEPT !.mapped = @ \cup libs]
           none == <<>>
           elves == <<Main>>
<1>1. {Main, Linker, Vdso} \subseteq Elf
  BY BreakpointsAssumption
<1>2. /\ s.elves = elves /\ s.mapped = {Main, Linker, Vdso} \cup libs /\ s.bps = none
      /\ s.obj = none /\ s.owned = {} /\ s.traps = {} /\ ~s.err /\ ~s.rdv
  BY DEF Fresh
<1>3. s \in Debugger
  <2> DEFINE m == {Main, Linker, Vdso} \cup libs
  <2>1. /\ elves \in Seq(Elf) /\ m \in SUBSET Elf
        /\ none \in Seq(Breakpoint) /\ none \in Seq(Site)
    BY <1>1
  <2> DEFINE q == {Main, Linker, Vdso}
  <2>2. Fresh = [elves |-> elves, mapped |-> q, bps |-> none,
                 obj |-> none, owned |-> {}, traps |-> {}, rdv |-> FALSE,
                 uid |-> 0, id |-> 0, err |-> FALSE, hot |-> FALSE, ghost |-> {}]
    BY DEF Fresh
  <2>3. q \in SUBSET Elf
    BY <1>1
  <2>4. Fresh \in Debugger /\ Fresh.mapped = q
    <3> HIDE DEF s, m, none, elves, q
    <3> QED BY <2>1, <2>2, <2>3 DEF Debugger
  <2>5. s = [Fresh EXCEPT !.mapped = m]
    BY <2>4
  <2> HIDE DEF s, m, q
  <2> QED BY <2>1, <2>4, <2>5 DEF Debugger
<1>4. DOMAIN none = {} /\ Main \in ToSet(elves)
  <2>1. 1 \in DOMAIN elves /\ elves[1] = Main
    OBVIOUS
  <2> HIDE DEF elves
  <2> QED BY <2>1 DEF ToSet
<1> HIDE DEF s, none, elves
<1>5. Linked(s)
  BY <1>2, <1>3, <1>4 DEF Linked
<1>6. Parented(s, {}) /\ Trapped(s, n) /\ Covered(s)
  BY <1>2 DEF Parented, Trapped, Covered
<1>7. Follows(s, {}) /\ Resolved(s)
  BY <1>2, <1>4 DEF Follows, Resolved
<1> QED BY <1>2, <1>4, <1>5, <1>6, <1>7 DEF Sound, s

LEMMA InitInductive == Init => Inductive
<1> SUFFICES ASSUME Init PROVE Inductive
  OBVIOUS
<1>1. ~st.err /\ ~failed /\ orphans = {} /\ toggled = {} /\ failed \in BOOLEAN
  BY DEF Init
<1>2. ASSUME NEW libs \in SUBSET Elf, NEW s, s = [Fresh EXCEPT !.mapped = @ \cup libs],
             loads \in [Elf -> Nat], missed \in SUBSET Elf, Done(s, st, {}, loads, {}),
             Sound(st, {}, loads),
             \A e \in libs : loads[e] >= 1, st.mapped \ missed \subseteq ToSet(st.elves)
      PROVE  Inductive
  <2>1. /\ Sound(s, {}, loads) /\ Follows(s, {}) /\ Resolved(s) /\ ~s.err
        /\ s.mapped = {Main, Linker, Vdso} \cup libs
    BY <1>2, FreshSound
  <2>2. Follows(st, {}) /\ Resolved(st) /\ st.mapped = {Main, Linker, Vdso} \cup libs
    BY <1>2, <2>1 DEF Done
  <2>3. \A e \in st.mapped \ {Main, Linker, Vdso} : loads[e] >= 1
    BY <1>2, <2>2
  <2> QED BY <1>1, <1>2, <2>2, <2>3 DEF Inductive, HistoryTypes
<1>3. CASE /\ st = SetAndEnable(Fresh, "address", Entry, TRUE)
           /\ missed = {Linker, Vdso}
           /\ loads = [e \in Elf |-> 0]
  <2> DEFINE s == [Fresh EXCEPT !.mapped = @ \cup {}]
  <2>1. Fresh = s
    BY DEF Fresh
  <2> HIDE DEF s
  <2>2. /\ Sound(s, {}, loads) /\ Follows(s, {}) /\ Resolved(s) /\ ~s.err
        /\ s.mapped = {Main, Linker, Vdso} \cup {} /\ Main \in ToSet(s.elves)
    <3>1. {} \in SUBSET Elf
      OBVIOUS
    <3> QED BY <3>1, FreshSound DEF s
  <2>3. Done(s, st, {}, loads, {}) /\ Sound(st, {}, loads)
    <3>1. "address" \in {"address", "line", "function"} /\ TRUE \in BOOLEAN /\ Entry \in Addr
      BY BreakpointsAssumption
    <3>2. IF "address" = "address" THEN Entry \in Addr ELSE Entry \in Names
      BY <3>1
    <3>3. LET t == SetAndEnable(s, "address", Entry, TRUE)
          IN  Done(s, t, {}, loads, {}) /\ (~t.err => Sound(t, {}, loads))
      BY <2>2, <3>1, <3>2, SetAndEnableKeeps
    <3> QED BY <1>1, <1>3, <2>1, <3>3
  <2>4. st.mapped \ missed \subseteq ToSet(st.elves)
    BY <1>3, <2>2, <2>3 DEF Done
  <2>5. loads \in [Elf -> Nat] /\ missed \in SUBSET Elf
    BY <1>3, BreakpointsAssumption
  <2>6. s = [Fresh EXCEPT !.mapped = @ \cup {}] /\ {} \in SUBSET Elf
    BY DEF s
  <2> QED BY <1>2, <2>3, <2>4, <2>5, <2>6
<1>4. ASSUME NEW libs \in SUBSET (Elf \ Fresh.mapped),
             st = ResolveRendezvous([Fresh EXCEPT !.mapped = @ \cup libs]),
             missed = {}, loads = [e \in Elf |-> IF e \in libs \cup {Main} THEN 1 ELSE 0]
      PROVE  Inductive
  <2> DEFINE s == [Fresh EXCEPT !.mapped = @ \cup libs]
  <2>0. libs \in SUBSET Elf /\ s = [Fresh EXCEPT !.mapped = @ \cup libs]
    OBVIOUS
  <2> HIDE DEF s
  <2>1. st = ResolveRendezvous(s)
    BY <1>4, <2>0
  <2>2. Sound(s, {}, loads) /\ Follows(s, {}) /\ Resolved(s) /\ ~s.err /\ ~s.rdv
    BY <2>0, FreshSound
  <2>3. /\ Done(s, st, {}, loads, {})
        /\ ~st.err => Sound(st, {}, loads)
        /\ ~s.rdv /\ ~st.err => st.mapped \subseteq ToSet(st.elves)
    BY <2>1, <2>2, RendezvousKeeps
  <2>4. loads \in [Elf -> Nat] /\ missed \in SUBSET Elf
    BY <1>4
  <2>5. \A e \in libs : loads[e] >= 1
    BY <1>4, <2>0
  <2> QED BY <1>1, <1>2, <2>0, <2>2, <2>3, <2>4, <2>5
<1> QED BY <1>3, <1>4 DEF Init

(* A handler has run, or a stale pointer has ended the debugger. *)
LEMMA OutcomeKeeps ==
  ASSUME Inductive, NEW t, NEW byHand, NEW unheard \in SUBSET Elf, Outcome(t, byHand, unheard),
         loads' \in [Elf -> Nat], \A e \in Elf : loads[e] <= loads'[e],
         Sound(t, orphans \cup Lost(st, t), loads'),
         \A e \in t.mapped \ {Main, Linker, Vdso} : loads'[e] >= 1,
         ~failed /\ ~t.err => /\ Follows(t, byHand) /\ Resolved(t)
                              /\ t.mapped \ unheard \subseteq ToSet(t.elves)
  PROVE  Inductive'
<1>1. CASE /\ st' = [t EXCEPT !.err = FALSE, !.hot = FALSE]
           /\ failed' = (failed \/ t.err)
           /\ orphans' = orphans \cup
                           {u \in st.uid + 1 .. t.uid : \A i \in DOMAIN t.bps : t.bps[i].uid # u}
           /\ missed' = unheard
           /\ toggled' = byHand
  <2>1. orphans' = orphans \cup Lost(st, t)
    BY <1>1 DEF Lost
  <2>2. t \in Debugger
    BY DEF Sound, Linked
  <2>3. Same(t, st') /\ ~st'.err
    BY <1>1, <2>2 DEF Same, Debugger
  <2>4. Sound(st', orphans', loads')
    BY <2>1, <2>3, SameKeeps
  <2>5. failed' \in BOOLEAN /\ orphans' \in SUBSET Nat
    <3>1. t.err \in BOOLEAN /\ t.uid \in Nat /\ st.uid \in Nat
      BY <2>2 DEF Debugger, Inductive, Sound, Linked
    <3>2. Lost(st, t) \subseteq Nat
      BY <3>1 DEF Lost
    <3> QED BY <1>1, <2>1, <3>1, <3>2 DEF Inductive, HistoryTypes
  <2>6. ASSUME ~failed'
        PROVE  /\ Follows(st', toggled') /\ Resolved(st')
               /\ st'.mapped \ missed' \subseteq ToSet(st'.elves)
    <3>1. ~failed /\ ~t.err
      BY <1>1, <2>6
    <3>2. Follows(st', byHand)
      BY <2>3, <3>1, SameFollows
    <3>3. Resolved(st')
      <4>1. Extends(t, st') /\ Linked(t)
        BY <2>3, SameExtends DEF Sound
      <4> QED BY <2>3, <3>1, <4>1, ExtendsResolved
    <3> QED BY <1>1, <2>3, <3>1, <3>2, <3>3 DEF Same
  <2>7. \A e \in st'.mapped \ {Main, Linker, Vdso} : loads'[e] >= 1
    BY <2>3 DEF Same
  <2>8. HistoryTypes'
    BY <1>1, <2>5 DEF HistoryTypes
  <2> QED BY <2>3, <2>4, <2>6, <2>7, <2>8 DEF Inductive
<1>2. CASE UNCHANGED <<st, failed, orphans, missed, toggled>>
  <2>1. st' = st /\ failed' = failed /\ orphans' = orphans /\ missed' = missed /\ toggled' = toggled
    BY <1>2
  <2>2. Sound(st, orphans, loads')
    BY MoreLoads DEF Inductive, HistoryTypes
  <2>3. \A e \in st.mapped \ {Main, Linker, Vdso} : loads'[e] >= 1
    <3> SUFFICES ASSUME NEW e \in st.mapped \ {Main, Linker, Vdso} PROVE loads'[e] >= 1
      OBVIOUS
    <3>1. e \in Elf /\ loads[e] >= 1
      BY DEF Inductive, Sound, Linked, Debugger
    <3>2. loads[e] \in Nat /\ loads'[e] \in Nat /\ loads[e] <= loads'[e]
      BY <3>1 DEF Inductive, HistoryTypes
    <3> QED BY <3>1, <3>2
  <2> QED BY <2>1, <2>2, <2>3 DEF Inductive, HistoryTypes
<1> QED BY <1>1, <1>2 DEF Outcome

LEMMA DoneOutcome ==
  ASSUME Inductive, NEW t, Done(st, t, orphans, loads, toggled), Outcome(t, toggled, missed),
         UNCHANGED loads
  PROVE  Inductive'
<1>1. loads' \in [Elf -> Nat] /\ missed \in SUBSET Elf /\ \A e \in Elf : loads[e] <= loads'[e]
  BY DEF Inductive, HistoryTypes
<1>2. Sound(t, orphans \cup Lost(st, t), loads')
  BY DEF Done
<1>3. \A e \in t.mapped \ {Main, Linker, Vdso} : loads'[e] >= 1
  BY DEF Done, Inductive
<1>4. ~failed /\ ~t.err => /\ Follows(t, toggled) /\ Resolved(t)
                           /\ t.mapped \ missed \subseteq ToSet(t.elves)
  BY DEF Done, Inductive
<1> QED BY <1>1, <1>2, <1>3, <1>4, OutcomeKeeps

LEMMA HandledOutcome ==
  ASSUME Inductive, NEW t, NEW after, Handled(st, t, orphans, loads, toggled, after),
         Outcome(t, after, missed), UNCHANGED loads
  PROVE  Inductive'
<1>1. loads' \in [Elf -> Nat] /\ missed \in SUBSET Elf /\ \A e \in Elf : loads[e] <= loads'[e]
  BY DEF Inductive, HistoryTypes
<1>2. Sound(t, orphans \cup Lost(st, t), loads')
  <2>1. Sound(t, orphans, loads') /\ orphans \subseteq orphans \cup Lost(st, t)
    BY DEF Handled
  <2> QED BY <2>1, MoreLost
<1>3. \A e \in t.mapped \ {Main, Linker, Vdso} : loads'[e] >= 1
  BY DEF Handled, Inductive
<1>4. ~failed /\ ~t.err => /\ Follows(t, after) /\ Resolved(t)
                           /\ t.mapped \ missed \subseteq ToSet(t.elves)
  BY DEF Handled, Inductive
<1> QED BY <1>1, <1>2, <1>3, <1>4, OutcomeKeeps

LEMMA SetBreakpointStep ==
  ASSUME Inductive, NEW kind \in {"address", "line", "function"}, NEW spec,
         IF kind = "address" THEN spec \in Addr ELSE spec \in Names, SetBreakpoint(kind, spec)
  PROVE  Inductive'
<1> DEFINE t == SetAndEnable(st, kind, spec, FALSE)
<1>1. Done(st, t, orphans, loads, toggled)
  <2>1. Sound(st, orphans, loads) /\ ~st.err /\ FALSE \in BOOLEAN
    BY DEF Inductive
  <2> QED BY <2>1, SetAndEnableKeeps
<1>2. Outcome(t, toggled, missed) /\ UNCHANGED loads
  BY DEF SetBreakpoint, Command
<1> HIDE DEF t
<1> QED BY <1>1, <1>2, DoneOutcome

LEMMA SetSiteStep ==
  ASSUME Inductive, NEW a \in Addr, SetSite(a)
  PROVE  Inductive'
<1> DEFINE c == CreateSite(st, a, 0)
           t == IF c.err THEN c ELSE Switch(c, Len(c.obj), TRUE)
<1>1. Handled(st, t, orphans, loads, toggled, toggled)
  <2>1. Sound(st, orphans, loads) /\ ~st.err
    BY DEF Inductive
  <2> QED BY <2>1, SetSiteKeeps
<1>2. Outcome(t, toggled, missed) /\ UNCHANGED loads
  BY DEF SetSite, Command
<1> HIDE DEF t
<1> QED BY <1>1, <1>2, HandledOutcome

LEMMA SwitchBreakpointStep ==
  ASSUME Inductive, NEW id, NEW on \in BOOLEAN, SwitchBreakpoint(id, on)
  PROVE  Inductive'
<1> DEFINE i == WithId(id)
           t == SwitchAll(st, i, on)
           after == toggled \ ToSet(st.bps[i].sites)
<1>1. Outcome(t, after, missed) /\ UNCHANGED loads /\ i # 0
  BY DEF SwitchBreakpoint, Command
<1>2. Sound(st, orphans, loads) /\ Linked(st)
  BY DEF Inductive, Sound
<1>3. i \in DOMAIN st.bps
  BY <1>1, <1>2, WithIdDoes
<1> HIDE DEF i
<1>4. Handled(st, t, orphans, loads, toggled, after)
  <2>1. /\ Sound(t, orphans, loads) /\ Alike(st, t)
        /\ Follows(st, toggled) => Follows(t, after)
    BY <1>2, <1>3, SwitchAllKeeps
  <2> HIDE DEF t, after
  <2>2. Resolved(st) => Resolved(t)
    BY <1>2, <2>1, AlikeResolved
  <2> QED BY <2>1, <2>2 DEF Handled, Alike
<1> HIDE DEF t, after
<1> QED BY <1>1, <1>4, HandledOutcome

LEMMA SwitchSiteStep ==
  ASSUME Inductive, NEW o \in DOMAIN st.obj, NEW on \in BOOLEAN, SwitchSite(o, on)
  PROVE  Inductive'
<1> DEFINE t == Switch(st, o, on)
           after == toggled \cup {o}
<1>1. Handled(st, t, orphans, loads, toggled, after)
  BY SwitchSiteKeeps DEF Inductive
<1>2. Outcome(t, after, missed) /\ UNCHANGED loads
  BY DEF SwitchSite, Command
<1> HIDE DEF t, after
<1> QED BY <1>1, <1>2, HandledOutcome

LEMMA DeleteBreakpointStep ==
  ASSUME Inductive, NEW id, DeleteBreakpoint(id)
  PROVE  Inductive'
<1> DEFINE i == WithId(id)
           t == DeleteAll(st, i)
<1>1. Outcome(t, toggled, missed) /\ UNCHANGED loads /\ i # 0
  BY DEF DeleteBreakpoint, Command
<1>2. Sound(st, orphans, loads) /\ Linked(st)
  BY DEF Inductive, Sound
<1>3. i \in DOMAIN st.bps
  BY <1>1, <1>2, WithIdDoes
<1> HIDE DEF i
<1>4. Handled(st, t, orphans, loads, toggled, toggled)
  BY <1>2, <1>3, DeleteKeeps
<1> HIDE DEF t
<1> QED BY <1>1, <1>4, HandledOutcome

LEMMA DeleteSiteStep ==
  ASSUME Inductive, NEW o \in DOMAIN st.obj, DeleteSite(o)
  PROVE  Inductive'
<1> DEFINE a == st.obj[o].addr
           t == RemoveByAddress(st, a)
<1>1. Sound(st, orphans, loads) /\ Linked(st) /\ a \in Addr
  BY SiteTyped DEF Inductive, Sound
<1>2. Outcome(t, toggled, missed) /\ UNCHANGED loads
  BY DEF DeleteSite, Command
<1> HIDE DEF a
<1>3. Shrunk(st, t, orphans, loads)
  BY <1>1, RemoveKeeps
<1> HIDE DEF t
<1>4. Handled(st, t, orphans, loads, toggled, toggled)
  BY <1>1, <1>3, ShrunkFollows
<1> QED BY <1>2, <1>4, HandledOutcome

LEMMA ReachSiteStep ==
  ASSUME Inductive, NEW a \in Addr, ReachSite(a)
  PROVE  Inductive'
<1> DEFINE t == HitAt(st, a)
<1>1. Done(st, t, orphans, loads, toggled)
  BY HitKeeps DEF Inductive
<1>2. Outcome(t, toggled, missed) /\ UNCHANGED loads
  BY DEF ReachSite
<1> HIDE DEF t
<1> QED BY <1>1, <1>2, DoneOutcome

LEMMA ReachEntryStep ==
  ASSUME Inductive, ReachEntry
  PROVE  Inductive'
<1> DEFINE t == HitAt(st, Entry)
           heard == Heard(st, Entry) /\ ~st.rdv
           unheard == IF heard THEN {} ELSE missed
<1>1. /\ loads \in [Elf -> Nat] /\ missed \in SUBSET Elf /\ Sound(st, orphans, loads)
      /\ Main \in Elf
  BY BreakpointsAssumption DEF Inductive, HistoryTypes
<1>2. /\ loads[Main] = 0 /\ loads' = [loads EXCEPT ![Main] = 1]
      /\ Outcome(t, toggled, unheard)
  BY DEF ReachEntry
<1>3. loads' \in [Elf -> Nat] /\ \A e \in Elf : loads[e] <= loads'[e]
  BY <1>1, <1>2
<1>4. Sound(st, orphans, loads')
  BY <1>1, <1>3, MoreLoads
<1>5. Done(st, t, orphans, loads', toggled)
  BY <1>4, HitKeeps
<1>6. heard /\ ~t.err => t.mapped \subseteq ToSet(t.elves)
  BY <1>1, HeardLoads
<1> HIDE DEF t, heard
<1>7. unheard \in SUBSET Elf
  BY <1>1
<1>8. ~failed /\ ~t.err => /\ Follows(t, toggled) /\ Resolved(t)
                           /\ t.mapped \ unheard \subseteq ToSet(t.elves)
  BY <1>5, <1>6 DEF Done, Inductive
<1>9. \A e \in t.mapped \ {Main, Linker, Vdso} : loads'[e] >= 1
  <2>1. t.mapped = st.mapped /\ st.mapped \subseteq Elf
    BY <1>5 DEF Done, Inductive, Sound, Linked, Debugger
  <2>2. \A e \in st.mapped \ {Main, Linker, Vdso} : loads[e] >= 1
    BY DEF Inductive
  <2> QED BY <1>1, <1>2, <2>1, <2>2
<1>10. Sound(t, orphans \cup Lost(st, t), loads')
  BY <1>5 DEF Done
<1> HIDE DEF unheard
<1> QED BY <1>2, <1>3, <1>7, <1>8, <1>9, <1>10, OutcomeKeeps

(* The program's memory has changed under the debugger. *)
Remapped(s, t) ==
  /\ t \in Debugger
  /\ t.elves = s.elves /\ t.bps = s.bps /\ t.obj = s.obj /\ t.owned = s.owned
  /\ t.rdv = s.rdv /\ t.uid = s.uid /\ t.ghost = s.ghost /\ t.err = s.err
  /\ {Main, Linker, Vdso} \subseteq t.mapped /\ t.traps \subseteq s.traps

LEMMA RemapKeeps ==
  ASSUME NEW s, NEW t, NEW lost, NEW n, NEW byHand, Linked(s), Parented(s, lost), Covered(s),
         Remapped(s, t)
  PROVE  /\ Linked(t) /\ Parented(t, lost) /\ Covered(t)
         /\ Follows(s, byHand) => Follows(t, byHand)
         /\ Resolved(s) => Resolved(t)
         /\ \A u : Lost(t, u) = Lost(s, u)
<1>1. Linked(t)
  BY DEF Remapped, Linked, Lists
<1>2. Parented(t, lost) /\ Covered(t)
  BY DEF Remapped, Parented, Covered
<1>3. Follows(s, byHand) => Follows(t, byHand)
  BY DEF Remapped, Follows, FollowsOne
<1>4. Resolved(s) => Resolved(t)
  <2> SUFFICES ASSUME NEW i \in DOMAIN s.bps, ResolvedOne(s, i), s.bps[i].kind # "address"
               PROVE  \A a \in ToSet(Addresses(t, s.bps[i].spec)) : HasSite(t, i, a)
    BY DEF Remapped, Resolved, ResolvedOne
  <2>1. s.bps[i].spec \in Names /\ s.elves \in Seq(Elf) /\ t.elves = s.elves
    BY BreakpointTyped DEF Linked, Debugger, Remapped
  <2>2. ToSet(Addresses(t, s.bps[i].spec)) = ToSet(Addresses(s, s.bps[i].spec))
    BY <2>1, SameAddresses
  <2>3. \A a : HasSite(s, i, a) => HasSite(t, i, a)
    BY DEF Remapped, HasSite
  <2> QED BY <2>2, <2>3 DEF ResolvedOne
<1>5. \A u : Lost(t, u) = Lost(s, u)
  BY DEF Lost, Remapped
<1> QED BY <1>1, <1>2, <1>3, <1>4, <1>5

(* What the linker's call of r_brk comes to after it has changed the map. *)
LEMMA RemapOutcome ==
  ASSUME Inductive, NEW s, Remapped(st, s), NEW unheard \in SUBSET Elf, Trapped(s, loads'),
         loads' \in [Elf -> Nat], \A e \in Elf : loads[e] <= loads'[e],
         \A e \in s.mapped \ {Main, Linker, Vdso} : loads'[e] >= 1,
         Heard(st, RBrk) => Heard(s, RBrk),
         ~failed /\ ~Heard(st, RBrk) => s.mapped \ unheard \subseteq ToSet(s.elves),
         Outcome(HitAt(s, RBrk), toggled, unheard)
  PROVE  Inductive'
<1> DEFINE t == HitAt(s, RBrk)
<1>1. Linked(st) /\ Parented(st, orphans) /\ Covered(st)
  BY DEF Inductive, Sound
<1>2. /\ Linked(s) /\ Parented(s, orphans) /\ Covered(s)
      /\ Follows(st, toggled) => Follows(s, toggled)
      /\ Resolved(st) => Resolved(s)
      /\ Lost(s, t) = Lost(st, t)
  BY <1>1, RemapKeeps
<1>3. Sound(s, orphans, loads')
  BY <1>2 DEF Sound
<1>4. Done(s, t, orphans, loads', toggled)
  BY <1>3, HitKeeps
<1>5. Heard(st, RBrk) /\ ~t.err => t.mapped \subseteq ToSet(t.elves)
  BY <1>3, HeardLoads
<1>6. Outcome(t, toggled, unheard)
  OBVIOUS
<1> HIDE DEF t
<1>7. Sound(t, orphans \cup Lost(st, t), loads') /\ t.mapped = s.mapped
      /\ ToSet(s.elves) \subseteq ToSet(t.elves)
  BY <1>2, <1>4 DEF Done
<1>8. ~failed /\ ~t.err => /\ Follows(t, toggled) /\ Resolved(t)
                           /\ t.mapped \ unheard \subseteq ToSet(t.elves)
  BY <1>2, <1>4, <1>5, <1>7 DEF Done, Inductive
<1> QED BY <1>6, <1>7, <1>8, OutcomeKeeps

LEMMA MapLibraryStep ==
  ASSUME Inductive, NEW e \in Elf, MapLibrary(e)
  PROVE  Inductive'
<1> DEFINE s == [st EXCEPT !.mapped = @ \cup {e}]
           unheard == IF Heard(st, RBrk) THEN {} ELSE missed \cup {e}
<1>1. /\ loads \in [Elf -> Nat] /\ missed \in SUBSET Elf /\ Linked(st) /\ st \in Debugger
      /\ Trapped(st, loads) /\ {Main, Linker, Vdso} \subseteq st.mapped
      /\ \A x \in st.mapped \ {Main, Linker, Vdso} : loads[x] >= 1
  BY DEF Inductive, HistoryTypes, Sound, Linked
<1>2. /\ e \notin st.mapped /\ loads' = [loads EXCEPT ![e] = @ + 1]
      /\ Outcome(HitAt(s, RBrk), toggled, unheard)
  BY DEF MapLibrary
<1>3. /\ s \in Debugger /\ s.mapped = st.mapped \cup {e}
      /\ s.elves = st.elves /\ s.bps = st.bps /\ s.obj = st.obj /\ s.owned = st.owned
      /\ s.rdv = st.rdv /\ s.uid = st.uid /\ s.ghost = st.ghost /\ s.err = st.err
      /\ s.traps = st.traps
  <2> DEFINE m == st.mapped \cup {e}
  <2>1. m \in SUBSET Elf
    BY <1>1 DEF Debugger
  <2>2. s = [st EXCEPT !.mapped = m]
    OBVIOUS
  <2> HIDE DEF m, s
  <2>3. /\ s \in Debugger /\ s.mapped = m
        /\ s.elves = st.elves /\ s.bps = st.bps /\ s.obj = st.obj /\ s.owned = st.owned
        /\ s.rdv = st.rdv /\ s.uid = st.uid /\ s.ghost = st.ghost /\ s.err = st.err
        /\ s.traps = st.traps
    BY <1>1, <2>1, <2>2 DEF Debugger
  <2> QED BY <2>3 DEF m
<1> HIDE DEF s
<1>4. Remapped(st, s)
  BY <1>1, <1>3 DEF Remapped
<1>5. /\ loads' \in [Elf -> Nat] /\ \A x \in Elf : loads[x] <= loads'[x]
      /\ loads'[e] = loads[e] + 1 /\ loads[e] \in Nat
  BY <1>1, <1>2
<1>6. Trapped(s, loads')
  <2> SUFFICES ASSUME NEW o \in st.owned, st.obj[o].addr \notin st.ghost
               PROVE  LET a == st.obj[o].addr
                      IN  /\ a \in st.traps => st.obj[o].on
                          /\ st.obj[o].on => \/ a \in st.traps \/ loads'[Home[a]] > 1
                                             \/ Home[a] \notin s.mapped /\ loads'[Home[a]] >= 1
    BY <1>3 DEF Trapped
  <2> DEFINE a == st.obj[o].addr
             h == Home[a]
  <2>1. a \in Addr
    BY <1>1, SiteTyped DEF Linked
  <2>2. h \in Elf
    BY <2>1, BreakpointsAssumption
  <2>3. /\ a \in st.traps => st.obj[o].on
        /\ st.obj[o].on => \/ a \in st.traps \/ loads[h] > 1
                           \/ h \notin st.mapped /\ loads[h] >= 1
    BY <1>1 DEF Trapped
  <2> HIDE DEF h, a
  <2>4. loads[h] \in Nat /\ loads'[h] \in Nat /\ loads[h] <= loads'[h]
    BY <1>1, <1>5, <2>2
  <2>5. CASE h = e
    <3>1. loads'[h] = loads[h] + 1
      BY <1>5, <2>5
    <3>2. (loads[h] > 1 \/ loads[h] >= 1) => loads'[h] > 1
      BY <2>4, <3>1
    <3> QED BY <2>3, <3>2 DEF h, a
  <2>6. CASE h # e
    <3>1. (loads[h] > 1 => loads'[h] > 1) /\ (loads[h] >= 1 => loads'[h] >= 1)
      BY <2>4
    <3>2. h \notin st.mapped => h \notin s.mapped
      BY <1>3, <2>6
    <3> QED BY <2>3, <3>1, <3>2 DEF h, a
  <2> QED BY <2>5, <2>6
<1>7. \A x \in s.mapped \ {Main, Linker, Vdso} : loads'[x] >= 1
  <2> SUFFICES ASSUME NEW x \in s.mapped \ {Main, Linker, Vdso} PROVE loads'[x] >= 1
    OBVIOUS
  <2>1. x \in Elf
    BY <1>3 DEF Debugger
  <2>2. loads[x] \in Nat /\ loads'[x] \in Nat /\ loads[x] <= loads'[x]
    BY <1>1, <1>5, <2>1
  <2>3. CASE x = e
    BY <1>5, <2>3
  <2>4. CASE x # e
    <3>1. loads[x] >= 1
      BY <1>1, <1>3, <2>4
    <3> QED BY <2>2, <3>1
  <2> QED BY <2>3, <2>4
<1>8. Heard(st, RBrk) => Heard(s, RBrk)
  BY <1>3 DEF Heard, SitesAt
<1>9. ~failed /\ ~Heard(st, RBrk) => s.mapped \ unheard \subseteq ToSet(s.elves)
  BY <1>3 DEF Inductive
<1>10. unheard \in SUBSET Elf
  BY <1>1
<1> HIDE DEF unheard
<1> QED BY <1>2, <1>4, <1>5, <1>6, <1>7, <1>8, <1>9, <1>10, RemapOutcome

LEMMA UnmapLibraryStep ==
  ASSUME Inductive, NEW e \in Elf, UnmapLibrary(e)
  PROVE  Inductive'
<1> DEFINE s == [st EXCEPT !.mapped = @ \ {e}, !.traps = {a \in @ : Home[a] # e}]
           unheard == IF Heard(st, RBrk) THEN {} ELSE missed
<1>1. /\ loads \in [Elf -> Nat] /\ missed \in SUBSET Elf /\ Linked(st) /\ st \in Debugger
      /\ Trapped(st, loads) /\ {Main, Linker, Vdso} \subseteq st.mapped
      /\ \A x \in st.mapped \ {Main, Linker, Vdso} : loads[x] >= 1
  BY DEF Inductive, HistoryTypes, Sound, Linked
<1>2. /\ e \in st.mapped \ {Main, Linker, Vdso} /\ loads' = loads
      /\ Outcome(HitAt(s, RBrk), toggled, unheard)
  BY DEF UnmapLibrary
<1>3. /\ s \in Debugger /\ s.mapped = st.mapped \ {e}
      /\ s.elves = st.elves /\ s.bps = st.bps /\ s.obj = st.obj /\ s.owned = st.owned
      /\ s.rdv = st.rdv /\ s.uid = st.uid /\ s.ghost = st.ghost /\ s.err = st.err
      /\ s.traps = {a \in st.traps : Home[a] # e}
  <2> DEFINE m == st.mapped \ {e}
             ts == {a \in st.traps : Home[a] # e}
  <2>1. m \in SUBSET Elf /\ ts \in SUBSET Addr
    BY <1>1 DEF Debugger
  <2>2. s = [st EXCEPT !.mapped = m, !.traps = ts]
    OBVIOUS
  <2> HIDE DEF m, ts, s
  <2>3. /\ s \in Debugger /\ s.mapped = m
        /\ s.elves = st.elves /\ s.bps = st.bps /\ s.obj = st.obj /\ s.owned = st.owned
        /\ s.rdv = st.rdv /\ s.uid = st.uid /\ s.ghost = st.ghost /\ s.err = st.err
        /\ s.traps = ts
    BY <1>1, <2>1, <2>2 DEF Debugger
  <2> QED BY <2>3 DEF m, ts
<1> HIDE DEF s
<1>4. Remapped(st, s)
  BY <1>1, <1>2, <1>3 DEF Remapped
<1>5. /\ loads' \in [Elf -> Nat] /\ \A x \in Elf : loads[x] <= loads'[x]
  BY <1>1, <1>2
<1>6. Trapped(s, loads')
  <2> SUFFICES ASSUME NEW o \in st.owned, st.obj[o].addr \notin st.ghost
               PROVE  LET a == st.obj[o].addr
                      IN  /\ a \in s.traps => st.obj[o].on
                          /\ st.obj[o].on => \/ a \in s.traps \/ loads[Home[a]] > 1
                                             \/ Home[a] \notin s.mapped /\ loads[Home[a]] >= 1
    BY <1>2, <1>3 DEF Trapped
  <2>1. LET a == st.obj[o].addr
        IN  /\ a \in st.traps => st.obj[o].on
            /\ st.obj[o].on => \/ a \in st.traps \/ loads[Home[a]] > 1
                               \/ Home[a] \notin st.mapped /\ loads[Home[a]] >= 1
    BY <1>1 DEF Trapped
  <2>2. loads[e] >= 1 /\ e \notin s.mapped
    BY <1>1, <1>2, <1>3
  <2>3. s.mapped \subseteq st.mapped
    BY <1>3
  <2> QED BY <1>3, <2>1, <2>2, <2>3
<1>7. \A x \in s.mapped \ {Main, Linker, Vdso} : loads'[x] >= 1
  BY <1>1, <1>2, <1>3
<1>8. Heard(st, RBrk) => Heard(s, RBrk)
  <2>1. Home[RBrk] # e
    BY <1>2, BreakpointsAssumption
  <2> QED BY <1>3, <2>1 DEF Heard, SitesAt
<1>9. ~failed /\ ~Heard(st, RBrk) => s.mapped \ unheard \subseteq ToSet(s.elves)
  BY <1>3 DEF Inductive
<1>10. unheard \in SUBSET Elf
  BY <1>1
<1> HIDE DEF unheard
<1> QED BY <1>2, <1>4, <1>5, <1>6, <1>7, <1>8, <1>9, <1>10, RemapOutcome

LEMMA StepInductive == Inductive /\ [Next]_vars => Inductive'
<1> SUFFICES ASSUME Inductive, [Next]_vars PROVE Inductive'
  OBVIOUS
<1>1. ASSUME NEW x \in Names, SetBreakpoint(Found[x].kind, x) PROVE Inductive'
  <2> DEFINE kind == Found[x].kind
  <2>1. kind \in {"line", "function"}
    BY FoundTyped
  <2> HIDE DEF kind
  <2>2. kind \in {"address", "line", "function"} /\ (IF kind = "address" THEN x \in Addr ELSE x \in Names)
    BY <2>1
  <2>3. SetBreakpoint(kind, x)
    BY <1>1 DEF kind
  <2> QED BY <2>2, <2>3, SetBreakpointStep
<1>2. ASSUME NEW a \in Given, SetBreakpoint("address", a) \/ SetSite(a) PROVE Inductive'
  <2>1. a \in Addr
    BY BreakpointsAssumption
  <2>2. CASE SetBreakpoint("address", a)
    <3>1. /\ "address" \in {"address", "line", "function"}
          /\ IF "address" = "address" THEN a \in Addr ELSE a \in Names
      BY <2>1
    <3> QED BY <2>2, <3>1, SetBreakpointStep
  <2>3. CASE SetSite(a)
    BY <2>1, <2>3, SetSiteStep
  <2> QED BY <1>2, <2>2, <2>3
<1>3. ASSUME NEW a \in Addr, ReachSite(a) PROVE Inductive'
  BY <1>3, ReachSiteStep
<1>4. ASSUME NEW id, NEW on \in BOOLEAN, SwitchBreakpoint(id, on) PROVE Inductive'
  BY <1>4, SwitchBreakpointStep
<1>5. ASSUME NEW id, DeleteBreakpoint(id) PROVE Inductive'
  BY <1>5, DeleteBreakpointStep
<1>6. ASSUME NEW o \in DOMAIN st.obj, NEW on \in BOOLEAN, SwitchSite(o, on) PROVE Inductive'
  BY <1>6, SwitchSiteStep
<1>7. ASSUME NEW o \in DOMAIN st.obj, DeleteSite(o) PROVE Inductive'
  BY <1>7, DeleteSiteStep
<1>8. ASSUME NEW e \in Elf, MapLibrary(e) PROVE Inductive'
  BY <1>8, MapLibraryStep
<1>9. ASSUME NEW e \in Elf, UnmapLibrary(e) PROVE Inductive'
  BY <1>9, UnmapLibraryStep
<1>10. CASE ReachEntry
  BY <1>10, ReachEntryStep
<1>11. CASE UNCHANGED vars
  <2>1. /\ st' = st /\ loads' = loads /\ failed' = failed /\ orphans' = orphans
        /\ missed' = missed /\ toggled' = toggled
    BY <1>11 DEF vars
  <2> QED BY <2>1 DEF Inductive, HistoryTypes
<1> QED BY <1>1, <1>2, <1>3, <1>4, <1>5, <1>6, <1>7, <1>8, <1>9, <1>10, <1>11 DEF Next

-------------------------------------------------------------------------------
(* The theorems. *)

(* The debugger's record keeps its shape under every sequence of commands, *)
(* loads of libraries and errors: no two breakpoints share a site, no two  *)
(* sites of the process an address, every pointer is to a site built for   *)
(* its breakpoint, and what the four properties below need of it.          *)
THEOREM BreakpointsInductive == Spec => []Inductive
BY InitInductive, StepInductive, PTL DEF Spec

(* An int3 in memory is that of an enabled site of the process and an      *)
(* enabled site has its int3 (breakpoint_site::enable and disable), but    *)
(* where a freed site was switched or a library unmapped under a site.     *)
THEOREM TrapsAreOwned == Spec => []TrapsOwned
<1>1. Inductive => TrapsOwned
  <2> SUFFICES ASSUME Trapped(st, loads), Covered(st), NEW a \in Addr \ st.ghost
               PROVE  LET on == \E o \in SitesAt(st, a) : st.obj[o].on
                      IN  /\ a \in st.traps => on
                          /\ on => a \in st.traps \/ loads[Home[a]] > 1 \/ Home[a] \notin st.mapped
    BY DEF Inductive, Sound, TrapsOwned
  <2>1. a \in st.traps => \E o \in SitesAt(st, a) : st.obj[o].on
    BY DEF Covered, Trapped, SitesAt
  <2>2. ASSUME NEW o \in SitesAt(st, a), st.obj[o].on
        PROVE  a \in st.traps \/ loads[Home[a]] > 1 \/ Home[a] \notin st.mapped
    BY <2>2 DEF Trapped, SitesAt
  <2> QED BY <2>1, <2>2
<1> QED BY <1>1, BreakpointsInductive, PTL

(* notify_hit finds the breakpoint of the site that was hit: the parent of *)
(* a site is a breakpoint of the target that lists the site, but for those *)
(* that a constructor left behind when resolve threw.                      *)
THEOREM ParentsAreKnown == Spec => []ParentsKnown
<1>1. Inductive => ParentsKnown
  BY DEF Inductive, Sound, Parented, ParentsKnown
<1> QED BY <1>1, BreakpointsInductive, PTL

(* A site is enabled when its breakpoint is, also one that resolve built   *)
(* after the breakpoint was enabled, unless it was switched by itself or a *)
(* handler threw (breakpoint::enable, disable and resolve).                *)
THEOREM SitesFollow == Spec => []SitesFollowBreakpoint
<1>1. Inductive => SitesFollowBreakpoint
  BY DEF Inductive, Follows, FollowsOne, SitesFollowBreakpoint
<1> QED BY <1>1, BreakpointsInductive, PTL

(* A breakpoint has a site at every address that its name has in the       *)
(* program and in every library mapped before the linker's trap was last   *)
(* heard, unless a handler threw (reload_dynamic_libraries and resolve).   *)
THEOREM PendingAreResolved == Spec => []PendingResolved
<1>1. Inductive => PendingResolved
  <2> DEFINE es == st.mapped \ missed
             s == [st EXCEPT !.elves = SetToSeq(es)]
  <2> SUFFICES ASSUME Inductive, ~failed, NEW i \in DOMAIN st.bps, st.bps[i].kind # "address"
               PROVE  \A a \in ToSet(Addresses(s, st.bps[i].spec)) : HasSite(st, i, a)
    BY DEF PendingResolved, HasSite
  <2>1. Linked(st) /\ st \in Debugger /\ es \subseteq ToSet(st.elves) /\ ~st.err /\ Resolved(st)
    BY DEF Inductive, Sound, Linked
  <2>2. st.elves \in Seq(Elf) /\ st.mapped \in SUBSET Elf /\ st.bps[i].spec \in Names
    BY <2>1, BreakpointTyped DEF Debugger
  <2>3. es \in SUBSET Elf /\ IsFiniteSet(Elf)
    BY <2>2, BreakpointsAssumption
  <2> HIDE DEF es
  <2>4. IsFiniteSet(es)
    BY <2>3, FS_Subset
  <2> DEFINE q == SetToSeq(es)
  <2>5. q \in Seq(es) /\ ToSet(q) = es
    BY <2>4, SetToSeqDoes
  <2>6. s.elves = q
    BY <2>1 DEF Debugger
  <2> HIDE DEF q, s
  <2>7. q \in Seq(Elf)
    <3>1. \A k \in 1 .. Len(q) : q[k] \in Elf
      BY <2>3, <2>5, Element
    <3>2. Len(q) \in Nat /\ q = [k \in 1 .. Len(q) |-> q[k]]
      BY <2>5
    <3> QED BY <3>1, <3>2, IsASeq
  <2> DEFINE f == Found[st.bps[i].spec]
  <2>8. ToSet(Addresses(s, st.bps[i].spec)) = Reached(f, es)
    BY <2>2, <2>5, <2>6, <2>7, AddressesReached
  <2>9. ToSet(Addresses(st, st.bps[i].spec)) = Reached(f, ToSet(st.elves))
    BY <2>2, AddressesReached
  <2>10. Reached(f, es) \subseteq Reached(f, ToSet(st.elves))
    BY <2>1, ReachedGrows
  <2>11. \A a \in ToSet(Addresses(st, st.bps[i].spec)) : HasSite(st, i, a)
    BY <2>1 DEF Resolved, ResolvedOne
  <2> QED BY <2>8, <2>9, <2>10, <2>11
<1> QED BY <1>1, BreakpointsInductive, PTL

===============================================================================
