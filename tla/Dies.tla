---------------------------------- MODULE Dies ----------------------------------
(***************************************************************************)
(* The debugging information entries of a compile unit, as they lie in     *)
(* .debug_info: the entries of a subtree after their parent, each list of  *)
(* children ended by a null entry.  What is modelled is the walk over      *)
(* them: children, the index of functions, range lists, and the functions  *)
(* and inlined blocks at an address.  An entry is a record                 *)
(*   [tag, kids (has_children), sib (has DW_AT_sibling), pcs]              *)
(* where pcs is <<>> or <<low, high>> or a range list of such pairs.       *)
(***************************************************************************)
EXTENDS Integers, SequencesExt

CONSTANTS BaseFlag,    \* the address ~0, which selects a new base
          CuBase       \* the unit's DW_AT_low_pc

ASSUME DiesAssumption == CuBase \in Nat /\ BaseFlag \notin Nat

Null(dies, j) == dies[j].tag = "null"

(* The depth of every entry; the unit's own is 1. *)
Levels(dies) ==
  LET level[k \in DOMAIN dies] ==
        IF k = 1 THEN 1
        ELSE level[k - 1] + (IF Null(dies, k - 1) THEN -1 ELSE IF dies[k - 1].kids THEN 1 ELSE 0)
  IN  level

(* Where DW_AT_sibling points: past the null entry that ends the subtree.  *)
Sibling(dies, j) ==
  LET level == Levels(dies)
  IN  1 + Min({k \in j + 1 .. Len(dies) : Null(dies, k) /\ level[k] = level[j] + 1})

-------------------------------------------------------------------------------
(* The code. *)

(* The null entry at which children_range::iterator ends, from entry j:    *)
(* the loop over sub_children, nested in itself.                           *)
EndOfList(dies) ==
  LET end[j \in DOMAIN dies] ==
        IF Null(dies, j) THEN j
        ELSE end[IF ~dies[j].kids THEN j + 1
                 ELSE IF dies[j].sib THEN Sibling(dies, j) ELSE end[j + 1] + 1]
  IN  end

(* Fault variant of After: the null entry is not stepped over. *)
AfterOnNull(dies, j) ==
  IF ~dies[j].kids THEN j + 1
  ELSE IF dies[j].sib THEN Sibling(dies, j) ELSE EndOfList(dies)[j + 1]

(* children_range::iterator::operator++. *)
After(dies, j) ==
  IF ~dies[j].kids THEN j + 1
  ELSE IF dies[j].sib THEN Sibling(dies, j) ELSE EndOfList(dies)[j + 1] + 1

(* die::children, in order. *)
Children(dies, i) ==
  LET from[j \in DOMAIN dies] == IF Null(dies, j) THEN <<>> ELSE <<j>> \o from[After(dies, j)]
  IN  IF dies[i].kids THEN from[i + 1] ELSE <<>>

(* range_list: the pairs up to <<0, 0>>, relative to the base in force. *)
RangeEntries(raw) ==
  FoldLeft(LAMBDA s, p :
             IF s.done \/ p = <<0, 0>> THEN [s EXCEPT !.done = TRUE]
             ELSE IF p[1] = BaseFlag THEN [s EXCEPT !.base = p[2]]
             ELSE [s EXCEPT !.out = Append(@, <<p[1] + s.base, p[2] + s.base>>)],
           [base |-> CuBase, out |-> <<>>, done |-> FALSE], raw).out

(* die::contains_address. *)
ContainsAddress(d, a) ==
  /\ d.pcs # <<>>
  /\ LET pairs == IF d.list THEN RangeEntries(d.pcs) ELSE <<d.pcs>>
     IN  \E k \in DOMAIN pairs : pairs[k][1] <= a /\ a < pairs[k][2]

(* index and index_die: the functions and inlined blocks that have code.   *)
Indexed(dies) ==
  LET below[i \in DOMAIN dies] ==
        {i} \cup UNION {below[c] : c \in ToSet(Children(dies, i))}
  IN  {i \in below[1] : dies[i].tag \in {"function", "inlined"} /\ dies[i].pcs # <<>>}

(* function_containing_address: the first in the index's order, which is   *)
(* not fixed.                                                              *)
FunctionsAt(dies, a) ==
  {i \in Indexed(dies) : dies[i].tag = "function" /\ ContainsAddress(dies[i], a)}

(* inline_stack_at_address from the function it starts with: one more      *)
(* block as long as a child is an inlined block at the address.            *)
InlineStack(dies, f, a) ==
  LET down[i \in DOMAIN dies] ==
        LET in == SelectSeq(Children(dies, i),
                            LAMBDA c : dies[c].tag = "inlined" /\ ContainsAddress(dies[c], a))
        IN  <<i>> \o (IF in = <<>> THEN <<>> ELSE down[Head(in)])
  IN  down[f]

-------------------------------------------------------------------------------
(* The tree the entries stand for. *)

Complete(dies) == Levels(dies)[Len(dies)] = 2 /\ Null(dies, Len(dies))

Parent(dies, k) ==
  LET level == Levels(dies)
  IN  Max({j \in 1 .. k - 1 : ~Null(dies, j) /\ level[j] = level[k] - 1})

(* The addresses of an entry, as a set: each pair counts from the last     *)
(* base before it, up to the first <<0, 0>>.                               *)
Code(d) ==
  IF d.pcs = <<>> THEN {}
  ELSE IF ~d.list THEN d.pcs[1] .. d.pcs[2] - 1
  ELSE LET stop == Min({k \in DOMAIN d.pcs : d.pcs[k] = <<0, 0>>})
           bases(k) == {j \in 1 .. k : d.pcs[j][1] = BaseFlag}
           base(k) == IF bases(k) = {} THEN CuBase ELSE d.pcs[Max(bases(k))][2]
       IN  UNION {base(k) + d.pcs[k][1] .. base(k) + d.pcs[k][2] - 1 :
                    k \in {j \in 1 .. stop - 1 : d.pcs[j][1] # BaseFlag}}

(* The index has every function and block with code, and the inline stack  *)
(* at an address is the chain of nested entries whose code it lies in,     *)
(* through inlined blocks only (a lexical block between them hides the     *)
(* inner one).                                                             *)
InlineStackAgrees(dies, a) ==
  LET entries == {k \in DOMAIN dies : ~Null(dies, k)}
      chain(f) == LET in[k \in DOMAIN dies] ==
                        k = f \/ (/\ k > f /\ dies[k].tag = "inlined" /\ a \in Code(dies[k])
                                  /\ in[Parent(dies, k)])
                  IN  {k \in entries : in[k]}
      nested(S) == \A j, k \in S : j < k => \E m \in S : m >= j /\ Parent(dies, k) = m
  IN  /\ Indexed(dies) = {k \in entries : dies[k].tag \in {"function", "inlined"}
                                          /\ dies[k].pcs # <<>>}
      /\ \A f \in FunctionsAt(dies, a) :
           nested(chain(f)) => InlineStack(dies, f, a) = SetToSortSeq(chain(f), <)
===============================================================================
