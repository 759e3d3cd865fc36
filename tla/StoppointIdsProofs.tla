--------------------------- MODULE StoppointIdsProofs ---------------------------
(***************************************************************************)
(* Lookups in a stoppoint_collection find what they are asked for, however *)
(* many stoppoints were created and deleted: proofs for any addresses and  *)
(* any bounds.  The ids handed out so far are those up to the counter, and *)
(* the lookup is a first match, so that it is exact where ids are unique.  *)
(***************************************************************************)
EXTENDS StoppointIds, SequenceTheorems, WellFoundedInduction, TLAPS

Stoppoint == [id : Int, addr : Addr, name : Nat, internal : BOOLEAN]

(* The types, which relate no two variables. *)
TypeInv ==
  /\ points \in Seq(Stoppoint)
  /\ counter \in Nat /\ created \in Nat /\ crashed \in BOOLEAN

(* An id that was counted is not above the counter, and the internal       *)
(* breakpoints' -1 is no such id.                                          *)
IdsCounted ==
  \A i \in 1 .. Len(points) :
    /\ Counted(points[i].internal) => points[i].id \in 1 .. counter
    /\ kind = "breakpoint" /\ points[i].internal => points[i].id = -1

(* No other stoppoint has a counted id. *)
IdsUnique ==
  \A i, j \in 1 .. Len(points) :
    Counted(points[i].internal) /\ points[i].id = points[j].id => i = j

(* Sites and watchpoints: one at an address. *)
AddressesUnique ==
  kind # "breakpoint" =>
    \A i, j \in 1 .. Len(points) : points[i].addr = points[j].addr => i = j

IdsInv == TypeInv /\ IdsCounted /\ IdsUnique /\ AddressesUnique

-------------------------------------------------------------------------------
(* The operators of the collection. *)

(* A set of naturals has a smallest member. *)
LEMMA NatMin ==
  ASSUME NEW T, T \subseteq Nat, T # {}
  PROVE  \E m \in T : \A k \in T : m <= k
<1> DEFINE R == OpToRel(<, Nat)
<1>1. PICK m \in T : \A k \in T : ~ (<<k, m>> \in R)
  <2>1. IsWellFoundedOn(R, Nat)
    BY NatLessThanWellFounded
  <2> HIDE DEF R
  <2> QED BY <2>1, WFMin
<1>2. ASSUME NEW k \in T PROVE m <= k
  <2>1. <<k, m>> \notin R
    BY <1>1
  <2>2. k \in Nat /\ m \in Nat
    OBVIOUS
  <2>3. ~(k < m)
    BY <2>1, <2>2 DEF OpToRel
  <2> QED BY <2>2, <2>3
<1> QED BY <1>2

LEMMA MinIsIn ==
  ASSUME NEW T, T \subseteq Nat, T # {}
  PROVE  Min(T) \in T
<1>1. PICK m \in T : \A k \in T : m <= k
  BY NatMin
<1> QED BY <1>1 DEF Min

(* Both lookups give an index of a match, or 0 when nothing matches. *)
LEMMA FindIdMatches ==
  ASSUME TypeInv, NEW id
  PROVE  /\ FindById(id) \in 0 .. Len(points)
         /\ FindById(id) # 0 => points[FindById(id)].id = id
         /\ FindById(id) = 0 => \A i \in 1 .. Len(points) : points[i].id # id
<1> DEFINE I == {i \in 1 .. Len(points) : points[i].id = id}
<1>1. FindById(id) = IF I # {} THEN Min(I) ELSE 0
  BY DEF FindById, SelectInSeq
<1>2. Len(points) \in Nat
  BY LenProperties DEF TypeInv
<1>3. I # {} => Min(I) \in I
  <2>1. I \subseteq Nat
    BY <1>2
  <2> HIDE DEF I
  <2> QED BY <2>1, MinIsIn
<1> QED BY <1>1, <1>2, <1>3

LEMMA FindAddressMatches ==
  ASSUME TypeInv, NEW a
  PROVE  /\ FindByAddress(a) \in 0 .. Len(points)
         /\ FindByAddress(a) # 0 => points[FindByAddress(a)].addr = a
         /\ FindByAddress(a) = 0 => \A i \in 1 .. Len(points) : points[i].addr # a
<1> DEFINE I == {i \in 1 .. Len(points) : points[i].addr = a}
<1>1. FindByAddress(a) = IF I # {} THEN Min(I) ELSE 0
  BY DEF FindByAddress, SelectInSeq
<1>2. Len(points) \in Nat
  BY LenProperties DEF TypeInv
<1>3. I # {} => Min(I) \in I
  <2>1. I \subseteq Nat
    BY <1>2
  <2> HIDE DEF I
  <2> QED BY <2>1, MinIsIn
<1> QED BY <1>1, <1>2, <1>3

(* vector::erase closes the gap. *)
LEMMA Erased ==
  ASSUME NEW S, NEW s \in Seq(S), NEW i \in 1 .. Len(s)
  PROVE  /\ RemoveAt(s, i) \in Seq(S)
         /\ Len(RemoveAt(s, i)) = Len(s) - 1
         /\ \A k \in 1 .. Len(s) - 1 :
              RemoveAt(s, i)[k] = IF k < i THEN s[k] ELSE s[k + 1]
<1> DEFINE lo == SubSeq(s, 1, i - 1)
           hi == SubSeq(s, i + 1, Len(s))
<1>0. Len(s) \in Nat /\ \A k \in 1 .. Len(s) : s[k] \in S
  BY LenProperties, ElementOfSeq
<1>1. /\ lo \in Seq(S) /\ Len(lo) = i - 1
      /\ \A k \in 1 .. i - 1 : lo[k] = s[k]
  BY <1>0, SubSeqProperties
<1>2. /\ hi \in Seq(S) /\ Len(hi) = Len(s) - i
      /\ \A k \in 1 .. Len(s) - i : hi[k] = s[k + i]
  <2>1. \A k \in i + 1 .. Len(s) : s[k] \in S
    BY <1>0
  <2>2. /\ hi \in Seq(S)
        /\ Len(hi) = IF i + 1 <= Len(s) THEN Len(s) - (i + 1) + 1 ELSE 0
        /\ \A k \in 1 .. Len(s) - (i + 1) + 1 : hi[k] = s[i + 1 + k - 1]
    BY <1>0, <2>1, SubSeqProperties
  <2> QED BY <1>0, <2>2
<1> HIDE DEF lo, hi
<1>3. /\ lo \o hi \in Seq(S)
      /\ Len(lo \o hi) = Len(lo) + Len(hi)
      /\ \A k \in 1 .. Len(lo) + Len(hi) :
           (lo \o hi)[k] = IF k <= Len(lo) THEN lo[k] ELSE hi[k - Len(lo)]
  BY <1>1, <1>2, ConcatProperties
<1>4. RemoveAt(s, i) = lo \o hi
  BY DEF RemoveAt, lo, hi
<1>5. Len(lo) + Len(hi) = Len(s) - 1
  BY <1>0, <1>1, <1>2
<1>6. ASSUME NEW k \in 1 .. Len(s) - 1
      PROVE  (lo \o hi)[k] = IF k < i THEN s[k] ELSE s[k + 1]
  <2>1. (lo \o hi)[k] = IF k <= Len(lo) THEN lo[k] ELSE hi[k - Len(lo)]
    BY <1>3, <1>5
  <2>2. CASE k < i
    <3>1. k <= Len(lo) /\ lo[k] = s[k]
      BY <2>2, <1>0, <1>1
    <3> QED BY <2>1, <2>2, <3>1
  <2>3. CASE ~(k < i)
    <3>1. /\ ~(k <= Len(lo))
          /\ k - Len(lo) \in 1 .. Len(s) - i /\ (k - Len(lo)) + i = k + 1
      BY <2>3, <1>0, <1>1
    <3>2. hi[k - Len(lo)] = s[k + 1]
      BY <3>1, <1>2
    <3> QED BY <2>1, <2>3, <3>1, <3>2
  <2> QED BY <2>2, <2>3
<1> QED BY <1>3, <1>4, <1>5, <1>6

-------------------------------------------------------------------------------
(* The steps. *)

LEMMA InitIds == Init => IdsInv
<1> SUFFICES ASSUME Init PROVE IdsInv
  OBVIOUS
<1>1. points = <<>> /\ counter = 0 /\ created = 0 /\ crashed = FALSE
  BY DEF Init
<1>2. Len(points) = 0 /\ points \in Seq(Stoppoint)
  BY <1>1
<1>3. TypeInv
  BY <1>1, <1>2 DEF TypeInv
<1>4. 1 .. Len(points) = {}
  BY <1>2
<1>5. IdsCounted /\ IdsUnique /\ AddressesUnique
  BY <1>4 DEF IdsCounted, IdsUnique, AddressesUnique
<1> QED BY <1>3, <1>5 DEF IdsInv

LEMMA CreateIds ==
  ASSUME IdsInv, NEW a \in Addr, NEW internal \in BOOLEAN, Create(a, internal)
  PROVE  IdsInv'
<1> USE DEF IdsInv
<1>0. Len(points) \in Nat /\ \A i \in 1 .. Len(points) : points[i] \in Stoppoint
  BY LenProperties, ElementOfSeq DEF TypeInv
<1>1. PICK id \in IdsFor(internal) :
        points' = Append(points, [id |-> id, addr |-> a, name |-> created + 1,
                                  internal |-> internal])
  BY DEF Create
<1> DEFINE p == [id |-> id, addr |-> a, name |-> created + 1, internal |-> internal]
<1>2. id \in Int /\ (Counted(internal) => id = counter + 1)
                 /\ (kind = "breakpoint" /\ internal => id = -1)
  BY IdsAssumption DEF TypeInv, IdsFor, Counted
<1>3. p \in Stoppoint
  BY <1>2 DEF TypeInv, Stoppoint
<1>4. /\ points' \in Seq(Stoppoint) /\ Len(points') = Len(points) + 1
      /\ \A i \in 1 .. Len(points) : points'[i] = points[i]
      /\ points'[Len(points) + 1] = p
  BY <1>1, <1>3, AppendProperties DEF TypeInv
<1>5. UNCHANGED kind /\ counter' = (IF Counted(internal) THEN counter + 1 ELSE counter)
      /\ created' = created + 1 /\ UNCHANGED crashed /\ ~Refused(a)
  BY DEF Create
<1> HIDE DEF p
<1>6. p.id = id /\ p.addr = a /\ p.internal = internal
  BY DEF p
<1>7. TypeInv'
  BY <1>4, <1>5 DEF TypeInv
<1>8. \A i \in 1 .. Len(points) : points[i].id \in Int
  BY <1>0 DEF Stoppoint
<1>9. counter \in Nat
  BY DEF TypeInv
<1>10. IdsCounted'
  <2> SUFFICES ASSUME NEW i \in 1 .. Len(points')
               PROVE  /\ Counted(points'[i].internal) => points'[i].id \in 1 .. counter'
                      /\ kind = "breakpoint" /\ points'[i].internal => points'[i].id = -1
    BY <1>5 DEF IdsCounted, Counted
  <2>1. CASE i \in 1 .. Len(points)
    BY <2>1, <1>0, <1>4, <1>5, <1>9 DEF IdsCounted, Counted
  <2>2. CASE i = Len(points) + 1
    BY <2>2, <1>2, <1>4, <1>5, <1>6, <1>9 DEF Counted
  <2> QED BY <1>0, <1>4, <2>1, <2>2
<1>11. IdsUnique'
  <2> SUFFICES ASSUME NEW i \in 1 .. Len(points'), NEW j \in 1 .. Len(points'),
                      Counted(points'[i].internal), points'[i].id = points'[j].id
               PROVE  i = j
    BY <1>5 DEF IdsUnique, Counted
  <2>1. CASE i \in 1 .. Len(points) /\ j \in 1 .. Len(points)
    BY <2>1, <1>4, <1>5 DEF IdsUnique, Counted
  <2>2. CASE i \in 1 .. Len(points) /\ j = Len(points) + 1
    <3>1. Counted(points[i].internal) /\ points[i].id = id
      BY <2>2, <1>4, <1>5, <1>6 DEF Counted
    <3>2. points[i].id \in 1 .. counter
      BY <2>2, <3>1 DEF IdsCounted
    <3>3. CASE Counted(internal)
      BY <3>1, <3>2, <3>3, <1>2, <1>9
    <3>4. CASE ~Counted(internal)
      BY <3>1, <3>2, <3>4, <1>2, <1>9 DEF Counted
    <3> QED BY <3>3, <3>4
  <2>3. CASE i = Len(points) + 1 /\ j \in 1 .. Len(points)
    <3>1. Counted(internal) /\ id = counter + 1 /\ points[j].id = counter + 1
      BY <2>3, <1>2, <1>4, <1>5, <1>6 DEF Counted
    <3>2. ~Counted(points[j].internal)
      BY <2>3, <3>1, <1>9 DEF IdsCounted
    <3>3. points[j].internal \in BOOLEAN
      BY <2>3, <1>0 DEF Stoppoint
    <3>4. points[j].id = -1
      BY <2>3, <3>1, <3>2, <3>3 DEF IdsCounted, Counted
    <3> QED BY <3>1, <3>4, <1>9
  <2> QED BY <1>0, <1>4, <2>1, <2>2, <2>3
<1>12. AddressesUnique'
  <2> SUFFICES ASSUME kind # "breakpoint",
                      NEW i \in 1 .. Len(points'), NEW j \in 1 .. Len(points'),
                      points'[i].addr = points'[j].addr
               PROVE  i = j
    BY <1>5 DEF AddressesUnique
  <2>1. \A k \in 1 .. Len(points) : points[k].addr # a
    BY <1>5, FindAddressMatches DEF Refused, contains_address
  <2> QED BY <2>1, <1>0, <1>4, <1>6 DEF AddressesUnique
<1> QED BY <1>7, <1>10, <1>11, <1>12

LEMMA EraseIds ==
  ASSUME IdsInv, NEW i \in 0 .. Len(points), Erase(i)
  PROVE  IdsInv'
<1> USE DEF IdsInv
<1>0. Len(points) \in Nat
  BY LenProperties DEF TypeInv
<1>1. CASE i = 0
  BY <1>1 DEF Erase, TypeInv, IdsCounted, IdsUnique, AddressesUnique, Counted
<1>2. CASE i # 0
  <2>0. i \in 1 .. Len(points)
    BY <1>0, <1>2
  <2>1. /\ points' = RemoveAt(points, i)
        /\ UNCHANGED <<kind, counter, created, crashed>>
    BY <1>2 DEF Erase
  <2>2. /\ points' \in Seq(Stoppoint) /\ Len(points') = Len(points) - 1
        /\ \A k \in 1 .. Len(points) - 1 :
             points'[k] = IF k < i THEN points[k] ELSE points[k + 1]
    BY <2>0, <2>1, Erased DEF TypeInv
  <2> DEFINE old(k) == IF k < i THEN k ELSE k + 1
  <2>3. \A k \in 1 .. Len(points') : old(k) \in 1 .. Len(points) /\ points'[k] = points[old(k)]
    BY <1>0, <2>0, <2>2
  <2>4. \A k, l \in 1 .. Len(points') : old(k) = old(l) => k = l
    BY <1>0, <2>0, <2>2
  <2> HIDE DEF old
  <2>5. TypeInv'
    BY <2>1, <2>2 DEF TypeInv
  <2>6. IdsCounted'
    BY <2>1, <2>3 DEF IdsCounted, Counted
  <2>7. IdsUnique'
    BY <2>1, <2>3, <2>4 DEF IdsUnique, Counted
  <2>8. AddressesUnique'
    BY <2>1, <2>3, <2>4 DEF AddressesUnique
  <2> QED BY <2>5, <2>6, <2>7, <2>8
<1> QED BY <1>1, <1>2

LEMMA ThrowsIds ==
  ASSUME IdsInv, NEW a \in Addr, CreateThrows(a)
  PROVE  IdsInv'
<1>1. UNCHANGED <<kind, points, crashed>> /\ counter' = counter + 1 /\ created' = created + 1
  BY DEF CreateThrows
<1>2. counter \in Nat /\ Len(points) \in Nat
  BY LenProperties DEF IdsInv, TypeInv
<1>3. TypeInv'
  BY <1>1 DEF IdsInv, TypeInv
<1>4. IdsCounted'
  BY <1>1, <1>2 DEF IdsInv, IdsCounted, Counted
<1>5. IdsUnique' /\ AddressesUnique'
  BY <1>1 DEF IdsInv, IdsUnique, AddressesUnique, Counted
<1> QED BY <1>3, <1>4, <1>5 DEF IdsInv

LEMMA NextIds == IdsInv /\ [Next]_vars => IdsInv'
<1> SUFFICES ASSUME IdsInv, [Next]_vars PROVE IdsInv'
  OBVIOUS
<1>1. ASSUME NEW a \in Addr, NEW internal \in BOOLEAN, Create(a, internal) PROVE IdsInv'
  BY <1>1, CreateIds
<1>2. ASSUME NEW a \in Addr, CreateThrows(a) PROVE IdsInv'
  BY <1>2, ThrowsIds
<1>3. ASSUME NEW a \in Addr, RemoveByAddress(a) PROVE IdsInv'
  BY <1>3, EraseIds, FindAddressMatches DEF RemoveByAddress, IdsInv
<1>4. ASSUME NEW id \in -1 .. MaxId, RemoveById(id) PROVE IdsInv'
  BY <1>4, EraseIds, FindIdMatches DEF RemoveById, IdsInv
<1>5. CASE UNCHANGED vars
  BY <1>5 DEF vars, IdsInv, TypeInv, IdsCounted, IdsUnique, AddressesUnique, Counted
<1> QED BY <1>1, <1>2, <1>3, <1>4, <1>5 DEF Next

(* Ids stay unique and lookups exact over every sequence of creations,     *)
(* failed creations and deletions.                                         *)
LEMMA IdsInvariant == Spec => []IdsInv
<1>1. Init => IdsInv
  BY InitIds
<1>2. IdsInv /\ [Next]_vars => IdsInv'
  BY NextIds
<1> QED BY <1>1, <1>2, PTL DEF Spec

(* get_by_id returns the stoppoint whose id the user was shown, and no     *)
(* other, for any number of stoppoints.                                    *)
THEOREM IdsFindTheirOwn == Spec => []IdFindsItsOwn
<1>1. IdsInv => IdFindsItsOwn
  <2> SUFFICES ASSUME IdsInv, NEW i \in 1 .. Len(points), Counted(points[i].internal)
               PROVE  FindById(points[i].id) = i
    BY DEF IdFindsItsOwn
  <2> DEFINE f == FindById(points[i].id)
  <2>1. /\ f \in 0 .. Len(points)
        /\ f # 0 => points[f].id = points[i].id
        /\ f = 0 => \A k \in 1 .. Len(points) : points[k].id # points[i].id
    BY FindIdMatches DEF IdsInv
  <2>2. f \in 1 .. Len(points) /\ points[f].id = points[i].id
    BY <2>1
  <2> QED BY <2>2 DEF IdsInv, IdsUnique
<1> QED BY <1>1, IdsInvariant, PTL

(* get_by_address is exact for sites and watchpoints, which are refused at *)
(* an address that is taken.                                               *)
THEOREM AddressesFindTheirOwn == Spec => []AddressFindsItsOwn
<1>1. IdsInv => AddressFindsItsOwn
  <2> SUFFICES ASSUME IdsInv, kind # "breakpoint", NEW i \in 1 .. Len(points)
               PROVE  FindByAddress(points[i].addr) = i
    BY DEF AddressFindsItsOwn
  <2> DEFINE f == FindByAddress(points[i].addr)
  <2>1. /\ f \in 0 .. Len(points)
        /\ f # 0 => points[f].addr = points[i].addr
        /\ f = 0 => \A k \in 1 .. Len(points) : points[k].addr # points[i].addr
    BY FindAddressMatches DEF IdsInv
  <2>2. f \in 1 .. Len(points) /\ points[f].addr = points[i].addr
    BY <2>1
  <2> QED BY <2>2 DEF IdsInv, AddressesUnique
<1> QED BY <1>1, IdsInvariant, PTL
===============================================================================
