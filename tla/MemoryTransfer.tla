----------------------------- MODULE MemoryTransfer -----------------------------
(***************************************************************************)
(* How process::read_memory and write_memory cut a region of the tracee's  *)
(* memory into the pieces that the kernel moves: pages for                 *)
(* process_vm_readv, words for PTRACE_POKEDATA.  Memory is a function from *)
(* addresses to bytes; pages is the set of pages that are mapped.          *)
(***************************************************************************)
EXTENDS Integers

CONSTANTS PageSize, WordSize   \* 0x1000 and 8 in the code

ASSUME TransferAssumption == WordSize \in Nat \ {0} /\ PageSize \in {k * WordSize : k \in 1 .. 512}

Mapped(pages, a, n) == \A i \in 0 .. n - 1 : (a + i) \div PageSize \in pages

(* How many bytes read_memory gets, with amount of n bytes left: its       *)
(* remote_descs end at the ends of pages, and process_vm_readv moves them  *)
(* one by one up to the first that is not all there.  (It takes IOV_MAX of *)
(* them at most; longer regions are left out.)                             *)
Moved(pages, a, n) ==
  LET moved[amount \in 0 .. n] ==
        LET at             == a + n - amount
            up_to_next_page == PageSize - (at % PageSize)
            chunk_size     == IF amount < up_to_next_page THEN amount ELSE up_to_next_page
        IN  IF amount = 0 \/ ~Mapped(pages, at, chunk_size) THEN 0
            ELSE chunk_size + moved[amount - chunk_size]
  IN  moved[n]

(* read_memory.  An error only if nothing was moved; what was not read is  *)
(* zero.                                                                   *)
ReadMemory(mem, pages, a, n) ==
  LET moved == Moved(pages, a, n)
  IN  [err  |-> n > 0 /\ moved = 0,
       data |-> [i \in 0 .. n - 1 |-> IF i < moved THEN mem[a + i] ELSE 0]]

(* Fault variant of Word: the tail is filled from the start of what was read. *)
WordTailShifted(data, n, at, read) ==
  [j \in 0 .. WordSize - 1 |-> IF at + j < n THEN data[at + j] ELSE read[at + j - n]]

(* The word write_memory puts together: data, and behind its end what was  *)
(* in memory.                                                              *)
Word(data, n, at, read) ==
  [j \in 0 .. WordSize - 1 |-> IF at + j < n THEN data[at + j] ELSE read[j]]

(* One turn of write_memory's loop; PTRACE_POKEDATA takes a whole word. *)
WriteWord(s, pages, a, data, n, at) ==
  LET read == ReadMemory(s.mem, pages, a + at, WordSize)
      word == Word(data, n, at, read.data)
  IN  IF s.err \/ (n - at < WordSize /\ read.err) \/ ~Mapped(pages, a + at, WordSize)
      THEN [s EXCEPT !.err = TRUE]
      ELSE [s EXCEPT !.mem = [x \in DOMAIN @ |-> IF x \in a + at .. a + at + WordSize - 1
                                                  THEN word[x - a - at] ELSE @[x]]]

(* write_memory. *)
WriteMemory(mem, pages, a, data, n) ==
  LET words == (n + WordSize - 1) \div WordSize
      after[k \in 0 .. words] ==
        IF k = 0 THEN [mem |-> mem, err |-> FALSE]
        ELSE WriteWord(after[k - 1], pages, a, data, n, (k - 1) * WordSize)
  IN  after[words]

-------------------------------------------------------------------------------
(* What a transfer does to its region. *)

(* A read gives the bytes up to the first page that is missing and zeros   *)
(* behind it, and is refused only if the first page is missing.            *)
ReadAgrees(mem, pages, a, n) ==
  LET r == ReadMemory(mem, pages, a, n)
  IN  /\ r.err <=> n > 0 /\ a \div PageSize \notin pages
      /\ \A i \in 0 .. n - 1 :
           r.data[i] = IF Mapped(pages, a, i + 1) THEN mem[a + i] ELSE 0

(* A write changes its region and nothing else; one that is refused, which *)
(* happens when a word reaches into a missing page, though the region may  *)
(* not, has changed the words before that one.                             *)
WriteAgrees(mem, pages, a, data, n) ==
  LET w        == WriteMemory(mem, pages, a, data, n)
      wordEnd(i) == (i \div WordSize + 1) * WordSize
  IN  /\ w.err <=> n > 0 /\ ~Mapped(pages, a, wordEnd(n - 1))
      /\ w.mem = [x \in DOMAIN mem |->
                    IF x \in a .. a + n - 1 /\ Mapped(pages, a, wordEnd(x - a))
                    THEN data[x - a] ELSE mem[x]]
===============================================================================
