------------------------------ MODULE StoppointIds ------------------------------
(***************************************************************************)
(* One stoppoint_collection and the ids of what it holds, as the commands  *)
(* of the debugger use them: watchpoints and breakpoints are numbered by   *)
(* get_next_id, internal breakpoints all have id -1, and the constructor   *)
(* of breakpoint_site leaves m_Id uninitialised.                           *)
(***************************************************************************)
EXTENDS Integers, SequencesExt

CONSTANTS
  Kinds,   \* of "watchpoint", "breakpoint" and "site"
  Addr,    \* addresses
  MaxIds,  \* bound on the stoppoints ever created
  MaxId    \* ids an uninitialised m_Id is drawn from: 0 .. MaxId

ASSUME IdsAssumption ==
  /\ Kinds \subseteq {"watchpoint", "breakpoint", "site"}
  /\ MaxIds \in Nat /\ MaxId \in Nat

VARIABLES
  kind,     \* what the collection holds, fixed by Init
  points,   \* m_Stoppoints, in insertion order
  counter,  \* the static id of get_next_id
  created,  \* stoppoints created so far; history, it also names each of them
  crashed   \* an iterator past the end was dereferenced

vars == <<kind, points, counter, created, crashed>>

Init ==
  /\ kind \in Kinds
  /\ points = <<>>
  /\ counter = 0
  /\ created = 0
  /\ crashed = FALSE

-------------------------------------------------------------------------------

(* find_by_id and find_by_address: the first match, 0 for end(). *)
FindById(id) == SelectInSeq(points, LAMBDA p : p.id = id)
FindByAddress(a) == SelectInSeq(points, LAMBDA p : p.addr = a)

contains_id(id) == FindById(id) # 0
contains_address(a) == FindByAddress(a) # 0

(* Fault variant of IdsFor: the size of the collection as the next id. *)
IdsBySize(internal) == {Len(points) + 1}

(* The m_Id a constructor may leave. *)
IdsFor(internal) ==
  IF kind = "site" THEN 0 .. MaxId
  ELSE IF kind = "breakpoint" /\ internal THEN {-1}
  ELSE {counter + 1}

Counted(internal) == kind = "watchpoint" \/ (kind = "breakpoint" /\ ~internal)

(* Fault variant of Refused: no look at the collection. *)
NothingRefused(a) == FALSE

(* create_breakpoint_site and create_watchpoint refuse a second stoppoint  *)
(* at an address; target's create functions do not.                        *)
Refused(a) == kind # "breakpoint" /\ contains_address(a)

(* create_*: push at the end. *)
Create(a, internal) ==
  /\ ~crashed /\ created < MaxIds
  /\ ~Refused(a)
  /\ \E id \in IdsFor(internal) :
       points' = Append(points, [id |-> id, addr |-> a, name |-> created + 1,
                                 internal |-> internal])
  /\ created' = created + 1
  /\ counter' = IF Counted(internal) THEN counter + 1 ELSE counter
  /\ UNCHANGED <<kind, crashed>>

(* The watchpoint's constructor takes an id, then cannot read its memory. *)
CreateThrows(a) ==
  /\ ~crashed /\ created < MaxIds
  /\ kind = "watchpoint" /\ ~Refused(a)
  /\ created' = created + 1
  /\ counter' = counter + 1
  /\ UNCHANGED <<kind, points, crashed>>

(* remove_by_id, and remove_by_address: disable() is called on *end() when *)
(* nothing matches.                                                        *)
Erase(i) ==
  /\ ~crashed
  /\ IF i = 0 THEN crashed' = TRUE /\ UNCHANGED points
              ELSE points' = RemoveAt(points, i) /\ UNCHANGED crashed
  /\ UNCHANGED <<kind, counter, created>>

RemoveById(id) == Erase(FindById(id))
RemoveByAddress(a) == Erase(FindByAddress(a))

Next ==
  \/ \E a \in Addr :
       \/ \E internal \in BOOLEAN : Create(a, internal)
       \/ CreateThrows(a)
       \/ RemoveByAddress(a)
  \/ \E id \in -1 .. MaxId : RemoveById(id)

Spec == Init /\ [][Next]_vars

-------------------------------------------------------------------------------
(* Properties. *)

(* The id shown for a user's watchpoint or breakpoint finds that one and   *)
(* no other (get_by_id), however many were created and deleted before.     *)
IdFindsItsOwn ==
  \A i \in 1 .. Len(points) :
    Counted(points[i].internal) => FindById(points[i].id) = i

(* With at most one stoppoint per address a lookup by address is exact.    *)
AddressFindsItsOwn ==
  kind # "breakpoint" =>
    \A i \in 1 .. Len(points) : FindByAddress(points[i].addr) = i
===============================================================================
