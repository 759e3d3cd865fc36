------------------------------- MODULE CallFrames -------------------------------
(***************************************************************************)
(* Unwinding one frame from .eh_frame: the search of the header's table    *)
(* for the description of a function, the execution of its call frame      *)
(* instructions up to the pc, and the rules applied to the registers.      *)
(* Programs are bytes, because the code does not know how long each        *)
(* instruction is.  Operands are LEB128 of one byte, or the bytes that     *)
(* advance_loc1, 2 and 4 read.                                             *)
(***************************************************************************)
EXTENDS Integers, SequencesExt

CONSTANTS
  Reg,        \* DWARF register numbers
  SP,         \* that of rsp
  DataAlign   \* the CIE's data_alignment_factor; code_alignment_factor is 1

ASSUME CallFramesAssumption == Reg \subseteq 0 .. 31 /\ SP \in Reg /\ DataAlign \in Int

(* eh_hdr::operator[]: the index of the entry found in a table of function *)
(* start addresses, 0 for "Address not found in eh_hdr".  The table is not *)
(* empty: count - 1 would wrap.                                            *)
Search(starts, pc) ==
  LET n == Len(starts)
      find[w \in (0 .. n) \X (-1 .. n - 1)] ==
        LET low   == w[1]
            high  == w[2]
            mid   == (low + high) \div 2
            entry == starts[mid + 1]
        IN  IF low > high THEN high + 1
            ELSE IF entry < pc THEN find[<<mid + 1, high>>]
            ELSE IF entry > pc THEN (IF mid = 0 THEN 0 ELSE find[<<low, mid - 1>>])
            ELSE mid + 1
  IN  find[<<0, n - 1>>]

(* How many bytes execute_cfi_instruction reads behind the opcode.  The    *)
(* opcodes it has no case for (13, def_cfa_register, among them) have none. *)
Operands(op) ==
  CASE op \in 128 .. 191 -> 1                                 \* offset
    [] op \in 64 .. 127 \cup 192 .. 255 -> 0                  \* advance_loc, restore
    [] op = 4 -> 4                                            \* advance_loc4
    [] op \in {3, 5, 9, 12, 17, 18, 20, 21} -> 2
    [] op \in {1, 2, 6, 7, 8, 14, 19} -> 1
    [] OTHER -> 0

(* cursor::u8, u16 and u32: the lowest byte comes first. *)
Little(bytes) == FoldRight(LAMBDA b, high : b + 256 * high, bytes, 0)

(* unordered_map::emplace: a register keeps the rule it has. *)
Put(c, r, rule) == IF r \in DOMAIN c.rules THEN c ELSE [c EXCEPT !.rules = @ @@ (r :> rule)]

(* A register's CIE rule; .at throws when it has none. *)
Restore(c, r) == IF r \in DOMAIN c.cie THEN Put(c, r, c.cie[r]) ELSE [c EXCEPT !.err = TRUE]

(* execute_cfi_instruction with its operands read. *)
Perform(c, op, a) ==
  CASE op \in 64 .. 127  -> [c EXCEPT !.loc = @ + op - 64]
    [] op \in 128 .. 191 -> Put(c, op - 128, <<"offset", a[1] * DataAlign>>)
    [] op \in 192 .. 255 -> Restore(c, op - 192)
    [] op = 1            -> [c EXCEPT !.loc = a[1]]
    [] op \in 2 .. 4     -> [c EXCEPT !.loc = @ + Little(a)]
    [] op \in {5, 17}    -> Put(c, a[1], <<"offset", a[2] * DataAlign>>)
    [] op = 6            -> Restore(c, a[1])
    [] op = 7            -> Put(c, a[1], <<"undefined", 0>>)
    [] op = 8            -> Put(c, a[1], <<"same", 0>>)
    [] op = 9            -> Put(c, a[1], <<"register", a[2]>>)
    [] op = 10           -> [c EXCEPT !.stack = Append(@, <<c.rules, c.cfa>>)]
    [] op = 11           -> IF c.stack = <<>> THEN [c EXCEPT !.lost = TRUE]
                            ELSE [c EXCEPT !.rules = Last(c.stack)[1], !.cfa = Last(c.stack)[2],
                                           !.stack = Front(@)]
    [] op = 12           -> [c EXCEPT !.cfa = <<a[1], a[2]>>]
    [] op = 18           -> [c EXCEPT !.cfa = <<a[1], a[2] * DataAlign>>]
    [] op = 14           -> [c EXCEPT !.cfa[2] = a[1]]
    [] op = 19           -> [c EXCEPT !.cfa[2] = a[1] * DataAlign]
    [] op \in {15, 16, 22} -> [c EXCEPT !.err = TRUE]
    [] op \in {20, 21}   -> Put(c, a[1], <<"val_offset", a[2] * DataAlign>>)
    [] OTHER             -> c

(* Fault variant of Past: the instructions for the pc itself are left out. *)
PastAt(c, pc) == c.fde /\ c.loc >= pc

(* unwind() ends its loop over the FDE here. *)
Past(c, pc) == c.fde /\ c.loc > pc

(* A byte is read: an opcode, or an operand of the opcode before. *)
Byte(c, pc, b) ==
  IF c.err \/ c.lost \/ (c.bytes = <<>> /\ Past(c, pc)) THEN c
  ELSE LET bytes == Append(c.bytes, b)
       IN  IF Len(bytes) <= Operands(bytes[1]) THEN [c EXCEPT !.bytes = bytes]
           ELSE Perform([c EXCEPT !.bytes = <<>>], bytes[1], Tail(bytes))

Run(c, pc, prog) == FoldLeft(LAMBDA d, b : Byte(d, pc, b), c, prog)

(* The two loops of unwind(), for a pc in the range of the FDE found; for  *)
(* any other unwind() throws before them.                                  *)
Context(cie, prog, start, pc) ==
  LET c == Run([loc |-> 0, cfa |-> <<0, 0>>, rules |-> <<>>, cie |-> <<>>, stack |-> <<>>,
                bytes |-> <<>>, fde |-> FALSE, err |-> FALSE, lost |-> FALSE], pc, cie)
  IN  Run([c EXCEPT !.cie = c.rules, !.loc = start, !.fde = TRUE], pc, prog)

(* execute_unwind_rules. *)
Unwound(c, regs, mem) ==
  LET cfa == regs[c.cfa[1]] + c.cfa[2]
      new(r) == LET k == c.rules[r][1]
                    v == c.rules[r][2]
                IN  CASE k = "undefined"  -> "undefined"
                      [] k = "register"   -> regs[v]
                      [] k = "offset"     -> mem[cfa + v]
                      [] k = "val_offset" -> cfa + v
                      [] OTHER -> IF r = SP THEN cfa ELSE regs[r]
  IN  [r \in DOMAIN regs |-> IF r \in DOMAIN c.rules THEN new(r)
                             ELSE IF r = SP THEN cfa ELSE regs[r]]

-------------------------------------------------------------------------------
(* The same from the standard's side: instructions [op, r, n], of which    *)
(* those before the first location past the pc count, without what lies    *)
(* between a remember_state and its restore_state; the last one about a    *)
(* register, or about the CFA, holds.                                      *)

(* How an instruction is written. *)
Encode(i) ==
  CASE i.op = "advance"        -> IF i.n < 64 THEN <<64 + i.n>>
                                  ELSE <<3, i.n % 256, i.n \div 256>>
    [] i.op = "offset"         -> <<128 + i.r, i.n>>
    [] i.op = "restore"        -> <<192 + i.r>>
    [] i.op = "same"           -> <<8, i.r>>
    [] i.op = "register"       -> <<9, i.r, i.n>>
    [] i.op = "val_offset"     -> <<20, i.r, i.n>>
    [] i.op = "remember"       -> <<10>>
    [] i.op = "restore_state"  -> <<11>>
    [] i.op = "cfa"            -> <<12, i.r, i.n>>
    [] i.op = "cfa_register"   -> <<13, i.r>>
    [] i.op = "cfa_offset"     -> <<14, i.n>>

Bytes(is) == FlattenSeq([k \in DOMAIN is |-> Encode(is[k])])

Location(is, start, k) ==
  start + MapThenSumSet(LAMBDA j : IF is[j].op = "advance" THEN is[j].n ELSE 0, 1 .. k)

Executed(is, start, pc) ==
  SubSeq(is, 1, Cardinality({k \in DOMAIN is : Location(is, start, k - 1) <= pc}))

InForce(is) ==
  LET one(s, i) == CASE i.op = "remember" -> [s EXCEPT !.kept = Append(@, s.now)]
                     [] i.op = "restore_state" ->
                          IF s.kept = <<>> THEN s
                          ELSE [now |-> Last(s.kept), kept |-> Front(s.kept)]
                     [] OTHER -> [s EXCEPT !.now = Append(@, i)]
  IN  FoldLeft(one, [now |-> <<>>, kept |-> <<>>], is).now

About(is, ops, r) == {k \in DOMAIN is : is[k].op \in ops /\ is[k].r = r}

RuleOps == {"offset", "same", "register", "val_offset", "restore"}

(* The standard's registers for the frame above. *)
StandardRegs(cie, is, start, pc, regs, mem) ==
  LET all   == cie \o InForce(Executed(is, start, pc))
      last(ops) == Max({k \in DOMAIN all : all[k].op \in ops})
      cfa   == regs[all[last({"cfa", "cfa_register"})].r] + all[last({"cfa", "cfa_offset"})].n
      rule(r) == LET ks == About(all, RuleOps, r)
                     k  == Max(ks)
                     js == About(cie, RuleOps, r)
                 IN  IF all[k].op # "restore" THEN all[k] ELSE cie[Max(js)]
      new(i) == CASE i.op = "offset"     -> mem[cfa + i.n * DataAlign]
                  [] i.op = "val_offset" -> cfa + i.n * DataAlign
                  [] i.op = "register"   -> regs[i.n]
                  [] OTHER -> IF i.r = SP THEN cfa ELSE regs[i.r]
  IN  [r \in DOMAIN regs |-> IF About(all, RuleOps, r) = {} THEN IF r = SP THEN cfa ELSE regs[r]
                             ELSE new(rule(r))]

(* Programs on which the code departs from the standard: a register is     *)
(* given a second rule (emplace keeps the first), a rule is restored, the  *)
(* CFA's register is changed by itself (its operand is then read as an     *)
(* opcode); or there is nothing to restore.                                *)
DepartsFrom(cie, is, start, pc) ==
  LET done == Executed(is, start, pc)
      upTo(k) == cie \o InForce(SubSeq(done, 1, k - 1))
      depth(k) == Cardinality({j \in 1 .. k : done[j].op = "remember"})
                    - Cardinality({j \in 1 .. k : done[j].op = "restore_state"})
  IN  \E k \in DOMAIN done :
        \/ done[k].op \in {"cfa_register", "restore"}
        \/ done[k].op \in RuleOps /\ About(upTo(k), RuleOps, done[k].r) # {}
        \/ depth(k) < 0

(* An address is described by the last entry at or below it. *)
SearchAgrees(starts, pc) ==
  Search(starts, pc) = Max({0} \cup {k \in DOMAIN starts : starts[k] <= pc})

(* Unwinding gives the standard's registers at every pc of the function.   *)
UnwindAgrees(cie, is, start, pc, regs, mem) ==
  LET c == Context(Bytes(cie), Bytes(is), start, pc)
  IN  ~DepartsFrom(cie, is, start, pc) =>
        /\ ~c.err /\ ~c.lost
        /\ Unwound(c, regs, mem) = StandardRegs(cie, is, start, pc, regs, mem)
===============================================================================
