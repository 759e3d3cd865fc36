------------------------------ MODULE MCAlgorithms ------------------------------
(* The pure algorithms: line programs, call frame programs, tables of      *)
(* function addresses, trees of entries and rows of pages are grown item   *)
(* by item, and after each item what the code makes of them is compared    *)
(* with what they mean.                                                    *)
EXTENDS LineTable, CallFrames, Dies, MemoryTransfer

CONSTANTS MaxItems   \* the longest input of each kind

VARIABLES kind, items

LineBaseOf == -1
DataAlignOf == -8
BaseFlagOf == -1

Op(o, n) == [op |-> o, n |-> n]

LineOps == {Op("copy", 0), Op("advance_pc", 3), Op("advance_pc", 64), Op("special", 7),
            Op("set_address", 2), Op("end_sequence", 0), Op("negate_stmt", 0),
            Op("set_file", 2), Op("set_prologue_end", 0), Op("set_discriminator", 1)}

RareLineOps == {Op("set_basic_block", 0), Op("set_epilogue_begin", 0), Op("const_add_pc", 0),
                Op("fixed_advance_pc", 1), Op("advance_line", 1), Op("set_column", 1),
                Op("set_isa", 1), Op("define_file", 0)}

Instr(o, r, n) == [op |-> o, r |-> r, n |-> n]

FrameOps == {Instr("advance", 0, 1), Instr("advance", 0, 300), Instr("offset", 6, 2), Instr("offset", 3, 3),
             Instr("restore", 6, 0), Instr("same", 3, 0), Instr("register", 6, 3),
             Instr("val_offset", 7, 1), Instr("remember", 0, 0), Instr("restore_state", 0, 0),
             Instr("cfa", 6, 16), Instr("cfa_register", 6, 0), Instr("cfa_offset", 0, 16)}

(* What compilers put first: the CFA is rsp + 8, the return address below. *)
Cie == <<Instr("cfa", 7, 8), Instr("offset", 16, 1)>>

Values == [r \in {3, 6, 7, 16} |-> 100 * r]
Memory == [a \in 0 .. 1000 |-> 10000 + a]

Die(tag, kids, sib, list, pcs) == [tag |-> tag, kids |-> kids, sib |-> sib, list |-> list, pcs |-> pcs]

DieOps == {Die("null", FALSE, FALSE, FALSE, <<>>),
           Die("function", TRUE, FALSE, FALSE, <<1, 5>>),
           Die("function", TRUE, TRUE, TRUE, <<<<0, 1>>, <<-1, 1>>, <<1, 4>>, <<0, 0>>, <<7, 9>>>>),
           Die("inlined", TRUE, FALSE, FALSE, <<2, 5>>),
           Die("inlined", FALSE, FALSE, TRUE, <<<<-1, 1>>, <<1, 2>>, <<-1, 3>>, <<1, 2>>, <<0, 0>>>>),
           Die("block", TRUE, TRUE, FALSE, <<>>)}

Unit == Die("unit", TRUE, FALSE, FALSE, <<1, 9>>)

Alphabet(k) == CASE k = "line" -> LineOps [] k = "rare" -> RareLineOps \cup {Op("copy", 0)}
                 [] k = "frame" -> FrameOps [] k = "table" -> {1, 2, 4} [] k = "tree" -> DieOps
                 [] k = "pages" -> BOOLEAN

Init == /\ kind \in DOMAIN MaxItems
        /\ items = IF kind = "tree" THEN <<Unit>> ELSE <<>>

Grow(x) ==
  /\ Len(items) < MaxItems[kind]
  /\ kind = "tree" => Len(items) = 1 \/ ~Complete(items)
  /\ items' = Append(items, IF kind = "table" /\ items # <<>> THEN Last(items) + x ELSE x)
  /\ UNCHANGED kind

Next == \E x \in Alphabet(kind) : Grow(x)

Spec == Init /\ [][Next]_<<kind, items>>

Lengths == [k \in {"line", "rare", "frame", "table", "tree", "pages"} |->
              CASE k = "line" -> 5 [] k = "rare" -> 4 [] k = "frame" -> 5
                [] k = "table" -> 7 [] k = "tree" -> 7 [] k = "pages" -> 4]

(* Every row that execute_instruction emits, through operator++, has the   *)
(* address, line and flags that DWARF 4 gives it, for every program up to  *)
(* the bound without the opcodes the code departs on, and those are        *)
(* refused or lost as the code has it.                                     *)
RowsStandard == kind \in {"line", "rare"} => RowsAgree(items)

(* get_entry_by_address finds the row that covers an address in a table of *)
(* several sequences, and none in the gap after one.                       *)
LookupCovers == kind = "line" => \A a \in 0 .. 9 : LookupAgrees(Rows(items).rows, a)

(* unwind() finds the entry of the function the pc is in, whatever the     *)
(* table's length, and gives the caller's registers of the standard at     *)
(* every pc, across remember_state and restore_state; unless the program   *)
(* gives a register a second rule, restores one, or uses def_cfa_register. *)
UnwindStandard ==
  /\ kind = "table" /\ items # <<>> => \A pc \in 0 .. 30 : SearchAgrees(items, pc)
  /\ kind = "frame" => \A pc \in {10, 11, 12, 310} : UnwindAgrees(Cie, items, 10, pc, Values, Memory)

(* The functions and inlined blocks at an address are those of the tree,   *)
(* whichever of them carry DW_AT_sibling and range lists (children,        *)
(* index_die, contains_address, inline_stack_at_address).                  *)
InlineStackExact ==
  kind = "tree" /\ Len(items) > 1 /\ Complete(items) =>
    \A a \in 1 .. 6 : InlineStackAgrees(items, a)

(* Memory of the length of the pages and one page more, which is missing.  *)
Bytewise == [x \in 0 .. PageSize * (Len(items) + 1) + WordSize |-> x + 1]

(* read_memory and write_memory move exactly the region they are given, at *)
(* every alignment to pages and words, and a transfer that meets a missing *)
(* page does what was done before it and no more.                          *)
TransferExact ==
  kind = "pages" =>
    LET pages == {p \in 0 .. Len(items) - 1 : items[p + 1]}
    IN  \A a \in 0 .. PageSize * Len(items) : \A n \in 0 .. PageSize + 1 :
          a + n <= PageSize * (Len(items) + 1) =>
            /\ ReadAgrees(Bytewise, pages, a, n)
            /\ WriteAgrees(Bytewise, pages, a, [i \in 0 .. n - 1 |-> 100 + i], n)
===============================================================================
