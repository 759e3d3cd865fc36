------------------------------- MODULE LineTable -------------------------------
(***************************************************************************)
(* The line number program of a compile unit: its execution row by row     *)
(* (line_table::iterator) and the lookup of an address in the rows.  An    *)
(* instruction is a record [op, n]; n is the operand, 0 where there is     *)
(* none.                                                                   *)
(***************************************************************************)
EXTENDS Integers, SequencesExt

CONSTANTS
  DefaultIsStmt, LineBase, LineRange,  \* the header's fields
  ConstAdd                             \* (255 - opcode_base) / line_range

ASSUME LineTableAssumption ==
  /\ DefaultIsStmt \in BOOLEAN
  /\ LineBase \in -128 .. 127 /\ LineRange \in 1 .. 255 /\ ConstAdd \in 0 .. 254

(* line_table::entry, and the registers at the start of a sequence. *)
Registers == [address |-> 0, file |-> 1, line |-> 1, column |-> 0, is_stmt |-> DefaultIsStmt,
              basic_block |-> FALSE, end |-> FALSE, prologue |-> FALSE, epilogue |-> FALSE,
              discriminator |-> 0]

(* cursor::sleb128 on a value below 2^14 that was written as ULEB128: the  *)
(* sign of one byte is extended, that of two is not.                       *)
SlebOfUleb(v) == IF v \in 64 .. 127 THEN v - 128 ELSE v

(* Fault variant of Emitted: the flags live on in the next row. *)
EmittedSticky(s) == [s EXCEPT !.rows = Append(@, s.reg), !.reg.discriminator = 0]

(* A row is copied out and the flags are cleared. *)
Emitted(s) ==
  [s EXCEPT !.rows = Append(@, s.reg),
            !.reg = [@ EXCEPT !.basic_block = FALSE, !.prologue = FALSE,
                              !.epilogue = FALSE, !.discriminator = 0]]

(* execute_instruction.  Two standard opcodes have no case and are errors; *)
(* set_isa leaves its operand to be read as the next opcode, so that what  *)
(* follows is lost.  define_file adds a name that no row has yet.          *)
Execute(s, i) ==
  IF s.err \/ s.lost THEN s
  ELSE CASE i.op = "copy"             -> Emitted(s)
         [] i.op = "advance_pc"       -> [s EXCEPT !.reg.address = @ + SlebOfUleb(i.n)]
         [] i.op = "set_file"         -> [s EXCEPT !.reg.column = i.n]
         [] i.op = "negate_stmt"      -> [s EXCEPT !.reg.is_stmt = ~@]
         [] i.op = "set_basic_block"  -> [s EXCEPT !.reg.basic_block = TRUE]
         [] i.op = "const_add_pc"     -> [s EXCEPT !.reg.address = @ + ConstAdd]
         [] i.op = "fixed_advance_pc" -> [s EXCEPT !.reg.address = @ + i.n]
         [] i.op = "set_prologue_end" -> [s EXCEPT !.reg.prologue = TRUE]
         [] i.op = "set_epilogue_begin" -> [s EXCEPT !.reg.epilogue = TRUE]
         [] i.op = "set_isa"          -> [s EXCEPT !.lost = TRUE]
         [] i.op \in {"advance_line", "set_column"} -> [s EXCEPT !.err = TRUE]
         [] i.op = "define_file"      -> s
         [] i.op = "set_address"      -> [s EXCEPT !.reg.address = i.n]
         [] i.op = "set_discriminator" -> [s EXCEPT !.reg.discriminator = i.n]
         [] i.op = "end_sequence" ->
              [s EXCEPT !.rows = Append(@, [s.reg EXCEPT !.end = TRUE]), !.reg = Registers]
         [] i.op = "special" ->
              Emitted([s EXCEPT !.reg.address = @ + (i.n \div LineRange),
                                !.reg.line = @ + LineBase + (i.n % LineRange)])

(* The rows from begin() to end().  A program ends with an instruction     *)
(* that emits a row (end_sequence); behind any other the loop of           *)
(* operator++ reads past the data, which is left out: the rows of such a   *)
(* program are those before it.                                            *)
Rows(prog) ==
  LET after[k \in 0 .. Len(prog)] ==
        IF k = 0 THEN [reg |-> Registers, rows |-> <<>>, err |-> FALSE, lost |-> FALSE]
        ELSE Execute(after[k - 1], prog[k])
  IN  after[Len(prog)]

(* Fault variant of EntryByAddress: the gap after a sequence is a row. *)
EntryByAddressInGap(rows, a) ==
  LET hits == {k \in 1 .. Len(rows) - 1 : rows[k].address <= a /\ rows[k + 1].address > a}
  IN  IF hits = {} THEN 0 ELSE Min(hits)

(* get_entry_by_address: the first of two neighbours with the address      *)
(* between them; 0 is end().                                               *)
EntryByAddress(rows, a) ==
  LET hits == {k \in 1 .. Len(rows) - 1 :
                 rows[k].address <= a /\ rows[k + 1].address > a /\ ~rows[k].end}
  IN  IF hits = {} THEN 0 ELSE Min(hits)

-------------------------------------------------------------------------------
(* What DWARF 4 says of the same program, instruction by instruction from  *)
(* the start of the row's sequence rather than register by register.       *)

SequenceStart(prog, k) == Max({0} \cup {j \in 1 .. k - 1 : prog[j].op = "end_sequence"}) + 1

Emits(i) == i.op \in {"copy", "special", "end_sequence"}

AddressAdvance(i) ==
  CASE i.op \in {"advance_pc", "fixed_advance_pc"} -> i.n
    [] i.op = "const_add_pc" -> ConstAdd
    [] i.op = "special" -> i.n \div LineRange
    [] OTHER -> 0

LineAdvance(i) == IF i.op = "special" THEN LineBase + (i.n % LineRange) ELSE 0

StandardRow(prog, k) ==
  LET b     == SequenceStart(prog, k)
      set   == Max({b - 1} \cup {j \in b .. k : prog[j].op = "set_address"})
      last  == Max({b - 1} \cup {j \in b .. k - 1 : Emits(prog[j])})
      flag(op) == \E j \in last + 1 .. k : prog[j].op = op
      disc  == {j \in last + 1 .. k : prog[j].op = "set_discriminator"}
  IN  [address |-> (IF set < b THEN 0 ELSE prog[set].n)
                     + MapThenSumSet(LAMBDA j : AddressAdvance(prog[j]), set + 1 .. k),
       line |-> 1 + MapThenSumSet(LAMBDA j : LineAdvance(prog[j]), b .. k),
       is_stmt |-> DefaultIsStmt
                     = (Cardinality({j \in b .. k : prog[j].op = "negate_stmt"}) % 2 = 0),
       basic_block |-> flag("set_basic_block"), end |-> prog[k].op = "end_sequence",
       prologue |-> flag("set_prologue_end"), epilogue |-> flag("set_epilogue_begin"),
       discriminator |-> IF disc = {} THEN 0 ELSE prog[Max(disc)].n]

(* Programs on which the code departs from the standard: two opcodes it    *)
(* does not know, one it does not finish reading, and an operand whose     *)
(* sixth bit is taken for a sign.                                          *)
Departs(i) == \/ i.op \in {"advance_line", "set_column", "set_isa"}
              \/ i.op = "advance_pc" /\ i.n \in 64 .. 127

(* The rows of a program are those of the standard, but for the file and   *)
(* the column (set_file writes the column); a program with an unknown      *)
(* opcode is refused.                                                      *)
RowsAgree(prog) ==
  LET s     == Rows(prog)
      emits == {k \in DOMAIN prog : Emits(prog[k])}
      ks    == SetToSortSeq(emits, <)
  IN  IF \A k \in DOMAIN prog : ~Departs(prog[k])
      THEN /\ ~s.err /\ ~s.lost /\ Len(s.rows) = Len(ks)
           /\ \A j \in DOMAIN ks : \A f \in DOMAIN StandardRow(prog, ks[j]) :
                s.rows[j][f] = StandardRow(prog, ks[j])[f]
      ELSE (\A k \in DOMAIN prog : prog[k].op # "set_isa")
             => (s.err <=> \E k \in DOMAIN prog : prog[k].op \in {"advance_line", "set_column"})

(* In a table whose sequences are in address order and do not overlap, the *)
(* lookup returns the last row at or below the address in the sequence     *)
(* that covers it, and end() exactly when no sequence does.                *)
LookupAgrees(rows, a) ==
  LET begins(k) == Max({0} \cup {j \in 1 .. k - 1 : rows[j].end}) + 1
      ends(k)   == Min({j \in k .. Len(rows) : rows[j].end})
      ordered   == /\ rows # <<>> /\ Last(rows).end
                   /\ \A k \in 1 .. Len(rows) - 1 :
                        ~rows[k].end => rows[k].address <= rows[k + 1].address
                   /\ \A j, k \in DOMAIN rows :
                        rows[j].end /\ rows[k].end /\ j < k =>
                          \/ rows[j].address <= rows[begins(k)].address
                          \/ rows[k].address <= rows[begins(j)].address
      covering  == {k \in DOMAIN rows : /\ rows[begins(k)].address <= a
                                        /\ a < rows[ends(k)].address
                                        /\ rows[k].address <= a}
  IN  ordered => EntryByAddress(rows, a) = IF covering = {} THEN 0 ELSE Max(covering)
===============================================================================
