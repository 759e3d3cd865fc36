-------------------------- MODULE SourceSteppingProofs --------------------------
(***************************************************************************)
(* Stepping by source line, proved for every program, line table and       *)
(* nesting of inlined blocks: the temporary site does not survive its      *)
(* command, a step that is reported has moved, and where step_over and     *)
(* step_out end.                                                           *)
(***************************************************************************)
EXTENDS SourceStepping, SequenceTheorems, FiniteSetTheorems, WellFoundedInduction, TLAPS

(* Addresses behind a call; what the rows after a prologue can be. *)
Returns == {a \in Addr : a - 1 \in Addr}
Pasts == {0} \cup {NextRow(p) : p \in Addr}

Jobs ==
  [op : {"in", "over", "out", "continue", "stepi"}, line : Nat, depth : Nat,
   ret : Returns \cup {0}, inline : BOOLEAN, top : BOOLEAN, past : Pasts,
   over : SUBSET [at : Addr, depth : Nat], block : BOOLEAN]

(* The types, and m_InlineHeight of a stopped program. *)
StepTypes ==
  /\ pc \in Addr /\ stk \in Seq(Returns)
  /\ run \in {"stopped", "running", "gone"}
  /\ busy \in BOOLEAN /\ fresh \in BOOLEAN
  /\ job \in Jobs
  /\ height \in Nat
  /\ run = "stopped" => height <= Height(pc)

(* A command runs while the program does; the loops are those of step_in   *)
(* and step_over.                                                          *)
CommandInv ==
  /\ run = "running" => busy
  /\ busy /\ run = "stopped" => job.op \in {"in", "over"}

Enabled == {a \in Addr : sites[a] = "on"}

(* The int3 bytes are those of the user's enabled sites and of the         *)
(* temporary one, which exists only while the program runs (or is gone).   *)
TrapsInv ==
  /\ traps = Enabled \cup tmp
  /\ tmp \cap Enabled = {}
  /\ run = "stopped" => tmp = {}

(* A run of step_in goes to the end of the prologue. *)
MovesInv ==
  /\ StepMoves
  /\ run = "running" /\ job.op = "in" => goal = job.past

(* The call c, made in the activation at c.depth, has not returned. *)
Open(c) == c.depth < Len(stk) /\ stk[c.depth + 1] = c.at

(* A run over c: before the call, inside it, or back and at the site. *)
Inside(c) ==
  \/ fresh /\ Len(stk) = c.depth /\ Kind[pc] = "call" /\ pc + 1 = c.at
  \/ Open(c)
  \/ ~fresh /\ Len(stk) = c.depth /\ pc = c.at

(* A call at or below the command's own activation is open below d. *)
Rooted(d) == \E b \in job.over : b.depth <= job.depth /\ b.depth < d /\ Open(b)

(* step_over between two turns of its loop, and while the program runs to  *)
(* the return address of a call; without its site there (the user has a    *)
(* disabled one) the run cannot end as a step.                             *)
OverInv ==
  /\ StepOverKeepsFrame
  /\ job.op = "over" /\ ~job.block =>
       /\ busy /\ run = "stopped" => Len(stk) <= job.depth \/ Rooted(Len(stk))
       /\ run = "running" /\ goal \in traps =>
            \E c \in job.over :
              c.at = goal /\ Inside(c) /\ (c.depth <= job.depth \/ Rooted(c.depth))

(* step_out given in the innermost frame: the activation is still there, or *)
(* the program is at its return address and cannot pass.                   *)
OutInv ==
  /\ StepOutReturns
  /\ run = "running" /\ job.op = "out" /\ ~job.inline /\ job.top =>
       /\ goal = job.ret /\ job.depth >= 1
       /\ goal \in traps =>
            \/ job.depth <= Len(stk) /\ stk[job.depth] = job.ret
            \/ ~fresh /\ Len(stk) = job.depth - 1 /\ pc = job.ret

StepInv == StepTypes /\ CommandInv /\ TrapsInv /\ MovesInv /\ OverInv /\ OutInv

-------------------------------------------------------------------------------
(* Sequences and finite sets. *)

LEMMA FrontLast ==
  ASSUME NEW S, NEW s \in Seq(S), s # <<>>
  PROVE  /\ Len(s) \in Nat \ {0} /\ Last(s) = s[Len(s)] /\ Last(s) \in S
         /\ Front(s) \in Seq(S) /\ Len(Front(s)) = Len(s) - 1
         /\ \A i \in 1 .. Len(s) - 1 : Front(s)[i] = s[i]
<1>1. Len(s) \in Nat \ {0} /\ \A i \in 1 .. Len(s) : s[i] \in S
  BY LenProperties, ElementOfSeq, EmptySeq
<1>2. \A i \in 1 .. Len(s) - 1 : s[i] \in S
  BY <1>1
<1>3. /\ SubSeq(s, 1, Len(s) - 1) \in Seq(S)
      /\ Len(SubSeq(s, 1, Len(s) - 1)) =
           IF 1 <= Len(s) - 1 THEN Len(s) - 1 - 1 + 1 ELSE 0
      /\ \A i \in 1 .. Len(s) - 1 - 1 + 1 : SubSeq(s, 1, Len(s) - 1)[i] = s[1 + i - 1]
  BY <1>1, <1>2, SubSeqProperties
<1> DEFINE n == Len(s)
           t == SubSeq(s, 1, n - 1)
<1>4. t \in Seq(S) /\ Len(t) = (IF 1 <= n - 1 THEN n - 1 - 1 + 1 ELSE 0)
      /\ \A i \in 1 .. n - 1 - 1 + 1 : t[i] = s[1 + i - 1]
  BY <1>3
<1>5. n \in Nat \ {0} /\ Front(s) = t
  BY <1>1 DEF Front
<1> HIDE DEF n, t
<1>6. Len(t) = n - 1
  BY <1>4, <1>5
<1>7. \A i \in 1 .. n - 1 : t[i] = s[i]
  BY <1>4, <1>5
<1> QED BY <1>1, <1>4, <1>5, <1>6, <1>7 DEF Last, n

(* A set of naturals has a smallest member. *)
LEMMA NatMin ==
  ASSUME NEW T, T \subseteq Nat, T # {}
  PROVE  \E m \in T : \A k \in T : m <= k
<1> DEFINE R == OpToRel(<, Nat)
<1>1. PICK m \in T : \A k \in T : ~ (<<k, m>> \in R)
  <2>1. IsWellFoundedOn(R, Nat)
    BY NatLessThanWellFounded
  <2> HIDE DEF R
  <2> QED BY <2>1, WFMin
<1>2. ASSUME NEW k \in T PROVE m <= k
  <2>1. <<k, m>> \notin R
    BY <1>1
  <2>2. k \in Nat /\ m \in Nat
    OBVIOUS
  <2>3. ~(k < m)
    BY <2>1, <2>2 DEF OpToRel
  <2> QED BY <2>2, <2>3
<1> QED BY <1>2

LEMMA Arith ==
  ASSUME NEW n \in Nat, NEW x \in Nat, NEW y \in Nat
  PROVE  /\ x >= n + 1 => n + 1 \in 1 .. x + y /\ n + 1 <= x /\ x + y >= n + 1
         /\ y >= 1 => /\ n + 1 \in 1 .. n + y /\ ~(n + 1 <= n)
                      /\ (n + 1) - n = 1 /\ n + y >= n + 1
OBVIOUS

(* Behind n elements of s comes v. *)
At(s, n, v) == Len(s) >= n + 1 /\ s[n + 1] = v

(* Concatenation keeps the elements of the first part, and goes on with    *)
(* the first of the second.                                                *)
LEMMA ConcatKeeps ==
  ASSUME NEW S, NEW a \in Seq(S), NEW b \in Seq(S), NEW n \in Nat, NEW v
  PROVE  /\ a \o b \in Seq(S)
         /\ At(a, n, v) => At(a \o b, n, v)
         /\ Len(b) >= 1 /\ n = Len(a) => At(a \o b, n, b[1])
<1> DEFINE c == a \o b
           x == Len(a)
           y == Len(b)
<1>1. /\ c \in Seq(S) /\ Len(c) = x + y
      /\ \A i \in 1 .. x + y : c[i] = IF i <= x THEN a[i] ELSE b[i - x]
  BY ConcatProperties
<1>2. x \in Nat /\ y \in Nat
  BY LenProperties
<1> HIDE DEF c, x, y
<1>3. x >= n + 1 => Len(c) >= n + 1 /\ c[n + 1] = a[n + 1]
  BY <1>1, <1>2, Arith
<1>4. y >= 1 /\ n = x => Len(c) >= n + 1 /\ c[n + 1] = b[1]
  BY <1>1, <1>2, Arith
<1> QED BY <1>1, <1>3, <1>4 DEF c, x, y, At

(* F holds the concatenations of the first pieces of ss. *)
Concatenates(S, ss, F, K) ==
  /\ \A i \in 1 .. K : ss[i] \in Seq(S)
  /\ F[1] = ss[1] /\ \A i \in 2 .. K : F[i] = F[i - 1] \o ss[i]

(* A sequence folded with concatenation: what stands behind the first part. *)
LEMMA FoldKeeps ==
  ASSUME NEW S, NEW ss, NEW F, NEW K \in Nat, Concatenates(S, ss, F, K)
  PROVE  K >= 2 /\ Len(ss[2]) >= 1 => F[K][Len(ss[1]) + 1] = ss[2][1]
<1> SUFFICES ASSUME K >= 2, Len(ss[2]) >= 1
             PROVE  F[K][Len(ss[1]) + 1] = ss[2][1]
  OBVIOUS
<1> DEFINE n == Len(ss[1])
           v == ss[2][1]
           Keeps(i) == F[i] \in Seq(S) /\ At(F[i], n, v)
           Loses == {i \in 2 .. K : ~Keeps(i)}
<1>1. 1 \in 1 .. K /\ 2 \in 1 .. K /\ 2 \in 2 .. K /\ 2 - 1 = 1 /\ K \in 2 .. K
  OBVIOUS
<1>2. ss[1] \in Seq(S) /\ ss[2] \in Seq(S) /\ F[2] = ss[1] \o ss[2]
  <2>1. \A i \in 1 .. K : ss[i] \in Seq(S)
    BY DEF Concatenates
  <2>2. F[2] = F[2 - 1] \o ss[2] /\ F[1] = ss[1]
    BY <1>1 DEF Concatenates
  <2> QED BY <1>1, <2>1, <2>2
<1>3. n \in Nat /\ n = Len(ss[1])
  BY <1>2, LenProperties
<1> HIDE DEF n
<1>4. Keeps(2)
  <2>1. ss[1] \o ss[2] \in Seq(S) /\ At(ss[1] \o ss[2], n, ss[2][1])
    BY <1>2, <1>3, ConcatKeeps
  <2> QED BY <1>2, <2>1
<1> HIDE DEF v
<1>5. ASSUME NEW i \in 2 .. K, Keeps(i), i # K PROVE Keeps(i + 1)
  <2>1. i + 1 \in 2 .. K /\ i + 1 \in 1 .. K /\ (i + 1) - 1 = i
    BY <1>5
  <2>2. F[i + 1] = F[(i + 1) - 1] \o ss[i + 1]
    <3> DEFINE Joined(j) == F[j] = F[j - 1] \o ss[j]
    <3>1. \A j \in 2 .. K : Joined(j)
      BY Zenon DEF Concatenates
    <3> HIDE DEF Joined
    <3>2. Joined(i + 1)
      BY <2>1, <3>1
    <3> QED BY <3>2 DEF Joined
  <2>3. ss[i + 1] \in Seq(S)
    BY <2>1, Zenon DEF Concatenates
  <2>4. F[i + 1] = F[i] \o ss[i + 1]
    BY <2>1, <2>2, Zenon
  <2> QED BY <1>3, <1>5, <2>3, <2>4, ConcatKeeps, Zenon
<1> HIDE DEF Keeps
<1>6. Loses = {}
  <2> SUFFICES ASSUME Loses # {} PROVE FALSE
    OBVIOUS
  <2>1. PICK m \in Loses : \A k \in Loses : m <= k
    <3>1. Loses \subseteq Nat
      OBVIOUS
    <3> HIDE DEF Loses
    <3> QED BY <3>1, NatMin
  <2>2. m # 2 /\ m \in 2 .. K /\ ~Keeps(m)
    BY <1>4, <2>1
  <2>3. m - 1 \in 2 .. K /\ m - 1 + 1 = m /\ m - 1 # K /\ ~(m <= m - 1)
    BY <2>2
  <2>4. Keeps(m - 1)
    BY <2>1, <2>3
  <2> QED BY <1>5, <2>2, <2>3, <2>4
<1>7. Keeps(K)
  BY <1>1, <1>6
<1> QED BY <1>7 DEF Keeps, At, n, v

Pieces(ss, K, G) == [i \in 1 .. K |-> IF i = 1 THEN ss[i] ELSE G[i - 1] \o ss[i]]

(* The recursive function of FlattenSeq exists. *)
LEMMA FoldExists ==
  ASSUME NEW S, NEW ss, NEW K \in Nat, \A i \in 1 .. K : ss[i] \in Seq(S)
  PROVE  \E G : G = Pieces(ss, K, G)
<1> DEFINE Piece(G, i) == IF i = 1 THEN ss[i] ELSE G[i - 1] \o ss[i]
           Builds(G, m) == G \in [1 .. m -> Seq(S)] /\ \A i \in 1 .. m : G[i] = Piece(G, i)
           Bad == {m \in 0 .. K : ~ \E G : Builds(G, m)}
<1>2. ASSUME NEW m \in 0 .. K, NEW G, Builds(G, m), m # K
      PROVE  \E H : Builds(H, m + 1)
  <2> DEFINE H == [i \in 1 .. m + 1 |-> IF i = m + 1 THEN Piece(G, i) ELSE G[i]]
  <2>1. m + 1 \in 1 .. K /\ m \in Nat
    BY <1>2
  <2>2. Piece(G, m + 1) \in Seq(S)
    <3>1. CASE m = 0
      BY <2>1, <3>1
    <3>2. CASE m # 0
      <4>1. G[m] \in Seq(S) /\ ss[m + 1] \in Seq(S) /\ m + 1 # 1 /\ (m + 1) - 1 = m
        BY <1>2, <2>1, <3>2
      <4> QED BY <4>1, ConcatProperties
    <3> QED BY <3>1, <3>2
  <2>3. H \in [1 .. m + 1 -> Seq(S)]
    BY <1>2, <2>1, <2>2
  <2>4. ASSUME NEW i \in 1 .. m + 1 PROVE H[i] = Piece(H, i)
    <3>1. CASE i = m + 1
      <4>1. i = 1 \/ (i # 1 /\ i - 1 \in 1 .. m /\ i - 1 # m + 1 /\ i - 1 \in 1 .. m + 1)
        BY <2>1, <3>1
      <4> QED BY <3>1, <4>1
    <3>2. CASE i # m + 1
      <4>1. i \in 1 .. m /\ (i = 1 \/ (i # 1 /\ i - 1 \in 1 .. m + 1 /\ i - 1 # m + 1))
        BY <2>1, <3>2
      <4>2. H[i] = G[i] /\ G[i] = Piece(G, i)
        BY <1>2, <3>2, <4>1
      <4> QED BY <4>1, <4>2
    <3> QED BY <3>1, <3>2
  <2> QED BY <2>3, <2>4
<1>3. \E G : Builds(G, 0)
  <2>1. Builds([i \in 1 .. 0 |-> <<>>], 0)
    OBVIOUS
  <2> QED BY <2>1
<1> HIDE DEF Builds
<1>4. Bad = {}
  <2> SUFFICES ASSUME Bad # {} PROVE FALSE
    OBVIOUS
  <2>1. PICK m \in Bad : \A k \in Bad : m <= k
    <3>1. Bad \subseteq Nat
      OBVIOUS
    <3> HIDE DEF Bad
    <3> QED BY <3>1, NatMin
  <2>2. m # 0 /\ m \in 0 .. K /\ ~ \E G : Builds(G, m)
    BY <1>3, <2>1
  <2>3. m - 1 \in 0 .. K /\ m - 1 + 1 = m /\ m - 1 # K /\ ~(m <= m - 1)
    BY <2>2
  <2>4. \E G : Builds(G, m - 1)
    BY <2>1, <2>3
  <2> QED BY <1>2, <2>2, <2>3, <2>4
<1>5. PICK G : Builds(G, K)
  BY <1>4
<1>6. G = Pieces(ss, K, G)
  BY <1>5 DEF Builds, Pieces
<1> QED BY <1>6

(* FlattenSeq as far as the frames need it: its first piece, and the first *)
(* element of the second one behind it.                                    *)
LEMMA FlattenTwo ==
  ASSUME NEW S, NEW ss, NEW K \in Nat, Len(ss) = K,
         \A i \in 1 .. K : ss[i] \in Seq(S)
  PROVE  /\ K = 0 => FlattenSeq(ss) = ss
         /\ K = 1 => FlattenSeq(ss) = ss[1]
         /\ K >= 2 /\ Len(ss[2]) >= 1 =>
              FlattenSeq(ss)[Len(ss[1]) + 1] = ss[2][1]
<1> DEFINE F == CHOOSE G : G = Pieces(ss, K, G)
<1>1. F = Pieces(ss, K, F)
  <2>1. \E G : G = Pieces(ss, K, G)
    BY FoldExists, Zenon
  <2> QED BY <2>1
<1>2. FlattenSeq(ss) = IF K = 0 THEN ss ELSE F[K]
  BY DEF FlattenSeq, Pieces
<1> HIDE DEF F
<1>3. K >= 1 => F[1] = ss[1]
  <2>1. K >= 1 => 1 \in 1 .. K
    OBVIOUS
  <2> QED BY <1>1, <2>1 DEF Pieces
<1>4. \A i \in 2 .. K : F[i] = F[i - 1] \o ss[i]
  <2>1. \A i \in 2 .. K : i \in 1 .. K /\ i # 1
    OBVIOUS
  <2> QED BY <1>1, <2>1 DEF Pieces
<1>5. K >= 2 /\ Len(ss[2]) >= 1 => F[K][Len(ss[1]) + 1] = ss[2][1]
  <2>1. K >= 2 => Concatenates(S, ss, F, K)
    <3>1. K >= 2 => F[1] = ss[1]
      BY <1>3
    <3> QED BY <1>4, <3>1, Zenon DEF Concatenates
  <2> QED BY <2>1, FoldKeeps
<1> QED BY <1>2, <1>3, <1>5

(* reset_inline_height stays within the blocks, and below the function     *)
(* unless the program is at the function's first instruction.              *)
LEMMA HeightBounds ==
  ASSUME NEW p \in Addr
  PROVE  /\ Height(p) \in Nat /\ Len(Inl[p]) \in Nat /\ Height(p) <= Len(Inl[p])
         /\ Inl[p] # <<>> /\ Inl[p][1].low # p => Height(p) <= Len(Inl[p]) - 1
<1> DEFINE n == Len(Inl[p])
           blocks == Reverse(Inl[p])
           H == {h \in DOMAIN blocks : \A j \in 1 .. h : blocks[j].low = p}
<1>1. Inl[p] \in Seq([low : Nat, high : Nat])
  BY SteppingAssumption
<1>2. n \in Nat /\ DOMAIN blocks = 1 .. n /\ Height(p) = Cardinality(H)
  BY <1>1, LenProperties DEF Reverse, Height
<1>3. H \in SUBSET (1 .. n)
  BY <1>2
<1>4. Cardinality(H) \in Nat /\ Cardinality(H) <= n
  <2>1. IsFiniteSet(1 .. n) /\ Cardinality(1 .. n) = n
    BY <1>2, FS_Interval
  <2> HIDE DEF H, n
  <2> QED BY <1>3, <2>1, FS_Subset, FS_CardinalityType
<1>5. ASSUME Inl[p] # <<>>, Inl[p][1].low # p
      PROVE  Cardinality(H) <= n - 1
  <2>1. n >= 1
    BY <1>1, <1>5, EmptySeq, LenProperties
  <2>2. blocks[n] = Inl[p][1]
    BY <1>2, <2>1 DEF Reverse
  <2>3. n \notin H
    BY <1>2, <1>5, <2>1, <2>2
  <2>4. H \in SUBSET (1 .. n - 1)
    BY <1>2, <1>3, <2>3
  <2>5. IsFiniteSet(1 .. n - 1) /\ Cardinality(1 .. n - 1) = n - 1
    <3>1. n \in Nat /\ n >= 1
      BY <1>2, <2>1
    <3> HIDE DEF n
    <3>2. n - 1 \in Int /\ Cardinality(1 .. n - 1) = IF 1 > n - 1 THEN 0 ELSE n - 1 - 1 + 1
      BY <3>1, FS_Interval
    <3> QED BY <3>1, <3>2, FS_Interval
  <2> HIDE DEF H, n
  <2> QED BY <2>4, <2>5, FS_Subset, FS_CardinalityType
<1> QED BY <1>2, <1>4, <1>5

(* The addresses of unwind: the pc and the return addresses, innermost     *)
(* first; each has as many frames as blocks enclose its call.              *)
Rips(p, s) == <<p>> \o Reverse(s)
Blocks(p, s, k) == Len(Inl[IF k = 1 THEN p ELSE Rips(p, s)[k] - 1])
Known(p, s) == {k \in DOMAIN Rips(p, s) : \A j \in 1 .. k : Blocks(p, s, j) > 0}

LEMMA RipTypes ==
  ASSUME NEW p \in Addr, NEW s \in Seq(Returns)
  PROVE  /\ Len(s) \in Nat /\ DOMAIN Rips(p, s) = 1 .. Len(s) + 1
         /\ Rips(p, s)[1] = p
         /\ \A k \in 2 .. Len(s) + 1 : Rips(p, s)[k] = s[Len(s) + 2 - k]
         /\ \A k \in 1 .. Len(s) + 1 : Rips(p, s)[k] \in Addr /\ Blocks(p, s, k) \in Nat
<1> DEFINE n == Len(s)
           r == Reverse(s)
<1>1. n \in Nat /\ (\A k \in 1 .. n : s[k] \in Returns) /\ r = [k \in 1 .. n |-> s[(n - k) + 1]]
  BY LenProperties, ElementOfSeq DEF Reverse
<1> HIDE DEF n
<1>2. \A k \in 1 .. n : r[k] = s[n + 1 - k] /\ r[k] \in Returns
  BY <1>1
<1>3. r \in Seq(Addr) /\ Len(r) = n /\ <<p>> \in Seq(Addr) /\ Len(<<p>>) = 1 /\ <<p>>[1] = p
  <2>1. \A k \in 1 .. n : r[k] \in Addr
    BY <1>2 DEF Returns
  <2>2. r \in [1 .. n -> Addr]
    BY <1>1, <2>1
  <2> QED BY <1>1, <2>2
<1> HIDE DEF r
<1>4. /\ <<p>> \o r \in Seq(Addr) /\ Len(<<p>> \o r) = 1 + n
      /\ \A k \in 1 .. 1 + n :
           (<<p>> \o r)[k] = IF k <= 1 THEN <<p>>[k] ELSE r[k - 1]
  <2>1. Len(<<p>>) + Len(r) = 1 + n
    BY <1>3
  <2> QED BY <1>3, <2>1, ConcatProperties
<1>5. Rips(p, s) = <<p>> \o r
  BY DEF Rips, r
<1> DEFINE t == Rips(p, s)
<1>6. t \in Seq(Addr) /\ Len(t) = n + 1 /\ DOMAIN t = 1 .. n + 1
  BY <1>1, <1>4, <1>5, LenProperties
<1>7. t[1] = p
  BY <1>1, <1>3, <1>4, <1>5
<1>8. ASSUME NEW k \in 2 .. n + 1
      PROVE  t[k] = s[n + 2 - k] /\ t[k] \in Returns
  <2>1. k \in 1 .. 1 + n /\ ~(k <= 1) /\ k - 1 \in 1 .. n /\ n + 1 - (k - 1) = n + 2 - k
    BY <1>1
  <2>2. t[k] = r[k - 1]
    BY <1>4, <1>5, <2>1
  <2> QED BY <1>2, <2>1, <2>2
<1> HIDE DEF t
<1>9. ASSUME NEW k \in 1 .. n + 1
      PROVE  t[k] \in Addr /\ Blocks(p, s, k) \in Nat
  <2>1. \A a \in Addr : Len(Inl[a]) \in Nat
    BY HeightBounds
  <2>2. CASE k = 1
    BY <1>7, <2>1, <2>2 DEF Blocks
  <2>3. CASE k # 1
    <3>1. t[k] \in Addr /\ t[k] - 1 \in Addr
      BY <1>1, <1>8, <2>3 DEF Returns
    <3> QED BY <2>1, <2>3, <3>1 DEF Blocks, t
  <2> QED BY <2>2, <2>3
<1> QED BY <1>1, <1>6, <1>7, <1>8, <1>9 DEF n, t

(* frames()[n] is the caller's frame when the innermost activation has n   *)
(* frames, and it holds the return address.                                *)
LEMMA CallerFrame ==
  ASSUME NEW p \in Addr, NEW s \in Seq(Returns),
         Len(Inl[p]) + 1 \in DOMAIN Frames(p, s)
  PROVE  Inl[p] # <<>> /\ s # <<>> /\ Frames(p, s)[Len(Inl[p]) + 1] = Last(s)
<1> DEFINE known == Known(p, s)
           K == Cardinality(known)
           ss == [k \in 1 .. K |-> [j \in 1 .. Blocks(p, s, k) |-> Rips(p, s)[k]]]
           n == Len(Inl[p])
<1>1. Frames(p, s) = FlattenSeq(ss)
  BY DEF Frames, Known, Blocks, Rips
<1>2. known \in SUBSET (1 .. Len(s) + 1) /\ Len(s) \in Nat /\ n \in Nat
  BY RipTypes, HeightBounds DEF Known
<1>3. K \in Nat /\ K <= Len(s) + 1
  <2>1. Len(s) + 1 \in Nat
    BY <1>2
  <2>2. IsFiniteSet(1 .. Len(s) + 1) /\ Cardinality(1 .. Len(s) + 1) = Len(s) + 1
    BY <2>1, FS_Interval
  <2> HIDE DEF known
  <2> QED BY <1>2, <2>2, FS_Subset, FS_CardinalityType
<1>4. K >= 2 => 2 \in known
  <2> SUFFICES ASSUME 2 \notin known PROVE K <= 1
    BY <1>3
  <2>1. \A k \in known : k <= 1
    <3> SUFFICES ASSUME NEW k \in known, ~(k <= 1) PROVE FALSE
      OBVIOUS
    <3>1. k \in 1 .. Len(s) + 1 /\ (\A j \in 1 .. k : Blocks(p, s, j) > 0) /\ k >= 2
      BY <1>2 DEF Known
    <3>2. 2 \in 1 .. Len(s) + 1 /\ \A j \in 1 .. 2 : j \in 1 .. k
      BY <1>2, <3>1
    <3> QED BY <3>1, <3>2, RipTypes DEF Known
  <2> HIDE DEF known
  <2>2. IsFiniteSet({1}) /\ Cardinality({1}) = 1
    BY FS_Singleton
  <2>3. \A k \in known : k = 1
    BY <1>2, <2>1
  <2>4. known \in SUBSET {1}
    BY <2>3
  <2> QED BY <2>2, <2>4, FS_Subset
<1>5. \A k \in 1 .. K : Rips(p, s)[k] \in Addr /\ Blocks(p, s, k) \in Nat
  BY <1>2, <1>3, RipTypes
<1> HIDE DEF K, known
<1>6. Len(ss) = K /\ \A k \in 1 .. K : ss[k] = [j \in 1 .. Blocks(p, s, k) |-> Rips(p, s)[k]]
  BY <1>3
<1>7. \A k \in 1 .. K : ss[k] \in Seq(Addr) /\ Len(ss[k]) = Blocks(p, s, k)
  BY <1>5, <1>6
<1>8. DOMAIN ss = 1 .. K
  OBVIOUS
<1>9. Blocks(p, s, 1) = n
  BY DEF Blocks
<1> HIDE DEF ss, n
<1>10. /\ K = 0 => FlattenSeq(ss) = ss
       /\ K = 1 => FlattenSeq(ss) = ss[1]
       /\ K >= 2 /\ Len(ss[2]) >= 1 => FlattenSeq(ss)[Len(ss[1]) + 1] = ss[2][1]
  BY <1>3, <1>6, <1>7, FlattenTwo
<1>11. K # 0
  <2> SUFFICES ASSUME K = 0 PROVE FALSE
    OBVIOUS
  <2>1. DOMAIN Frames(p, s) = {}
    BY <1>1, <1>8, <1>10
  <2> QED BY <2>1
<1>12. K # 1
  <2> SUFFICES ASSUME K = 1 PROVE FALSE
    OBVIOUS
  <2>1. ss[1] = [j \in 1 .. n |-> Rips(p, s)[1]]
    BY <1>6, <1>9
  <2>2. DOMAIN Frames(p, s) = 1 .. n
    BY <1>1, <1>10, <2>1
  <2> QED BY <1>2, <2>2 DEF n
<1>13. K >= 2 /\ 1 \in 1 .. K /\ 2 \in 1 .. K
  BY <1>3, <1>11, <1>12
<1>14. Blocks(p, s, 1) > 0 /\ Blocks(p, s, 2) > 0 /\ 2 \in 1 .. Len(s) + 1
  <2>1. 2 \in known
    BY <1>4, <1>13
  <2> QED BY <1>2, <2>1 DEF known, Known
<1>15. s # <<>> /\ Inl[p] # <<>>
  <2>1. Len(s) # 0 /\ Len(Inl[p]) # 0
    BY <1>2, <1>9, <1>14 DEF n
  <2> QED BY <2>1
<1>16. Len(ss[1]) = n /\ Len(ss[2]) >= 1 /\ ss[2][1] = Rips(p, s)[2]
  <2>1. Len(ss[1]) = n /\ Len(ss[2]) = Blocks(p, s, 2) /\ Blocks(p, s, 2) \in Nat
    BY <1>5, <1>7, <1>9, <1>13
  <2>2. ss[2] = [j \in 1 .. Blocks(p, s, 2) |-> Rips(p, s)[2]] /\ 1 \in 1 .. Blocks(p, s, 2)
    BY <1>6, <1>13, <1>14, <2>1
  <2> QED BY <1>14, <2>1, <2>2
<1>17. Rips(p, s)[2] = s[Len(s)]
  <2>1. 2 \in 2 .. Len(s) + 1 /\ Len(s) + 2 - 2 = Len(s)
    BY <1>2, <1>14
  <2> QED BY <2>1, RipTypes
<1> QED BY <1>1, <1>10, <1>13, <1>15, <1>16, <1>17 DEF Last, n

-------------------------------------------------------------------------------
(* The steps of the program. *)

(* A move stays where it is, goes on in the same activation, calls, or     *)
(* returns to the caller.                                                  *)
LEMMA MoveKinds ==
  ASSUME pc \in Addr, stk \in Seq(Returns), NEW m \in Moves
  PROVE  /\ m.pc \in Addr /\ m.stk \in Seq(Returns)
         /\ m.out \in {"signal", "step", "exited"}
         /\ m.out # "step" => m.pc = pc /\ m.stk = stk
         /\ m.out = "step" =>
              \/ Kind[pc] = "plain" /\ m.stk = stk
              \/ Kind[pc] = "call" /\ pc + 1 \in Addr /\ m.stk = Append(stk, pc + 1)
              \/ Kind[pc] = "ret" /\ stk # <<>> /\ m.pc = Last(stk) /\ m.stk = Front(stk)
<1> DEFINE to(p, s, o) == [pc |-> p, stk |-> s, out |-> o]
<1>0. /\ Kind[pc] \in {"plain", "call", "ret"} /\ Succ[pc] \subseteq Addr /\ pc \in Nat
      /\ Kind[pc] = "call" => pc + 1 \in Addr
  BY SteppingAssumption
<1>1. CASE m = to(pc, stk, "signal")
  BY <1>1
<1>2. CASE Kind[pc] = "plain" /\ \E p \in Succ[pc] : m = to(p, stk, "step")
  BY <1>0, <1>2
<1>3. CASE Kind[pc] = "call" /\ \E p \in Succ[pc] : m = to(p, Append(stk, pc + 1), "step")
  <2>1. pc + 1 \in Returns
    BY <1>0, <1>3 DEF Returns
  <2>2. Append(stk, pc + 1) \in Seq(Returns)
    BY <2>1, AppendProperties
  <2> QED BY <1>0, <1>3, <2>1, <2>2
<1>4. CASE Kind[pc] = "ret" /\ stk = <<>> /\ m = to(pc, stk, "exited")
  BY <1>4
<1>5. CASE Kind[pc] = "ret" /\ stk # <<>> /\ m = to(Last(stk), Front(stk), "step")
  <2>1. Last(stk) \in Returns /\ Front(stk) \in Seq(Returns)
    BY <1>5, FrontLast
  <2> QED BY <1>5, <2>1 DEF Returns
<1>6. \/ m = to(pc, stk, "signal")
      \/ Kind[pc] = "plain" /\ \E p \in Succ[pc] : m = to(p, stk, "step")
      \/ Kind[pc] = "call" /\ \E p \in Succ[pc] : m = to(p, Append(stk, pc + 1), "step")
      \/ Kind[pc] = "ret" /\ stk = <<>> /\ m = to(pc, stk, "exited")
      \/ Kind[pc] = "ret" /\ stk # <<>> /\ m = to(Last(stk), Front(stk), "step")
  <2> HIDE DEF to
  <2>1. CASE Kind[pc] = "plain"
    BY <2>1 DEF Moves, to
  <2>2. CASE Kind[pc] = "call"
    BY <2>2 DEF Moves, to
  <2>3. CASE Kind[pc] = "ret"
    BY <2>3 DEF Moves, to
  <2> QED BY <1>0, <2>1, <2>2, <2>3
<1> QED BY <1>1, <1>2, <1>3, <1>4, <1>5, <1>6

(* What a step does to the activations: those below the top stay, and one  *)
(* that ends is left at its return address.                                *)
LEMMA MoveDepth ==
  ASSUME pc \in Addr, stk \in Seq(Returns), NEW m \in Moves, m.out = "step"
  PROVE  /\ Len(stk) \in Nat /\ Len(m.stk) \in Nat
         /\ Kind[pc] = "plain" => m.stk = stk
         /\ Kind[pc] = "call" => /\ Len(m.stk) = Len(stk) + 1
                                /\ m.stk[Len(stk) + 1] = pc + 1
                                /\ \A i \in 1 .. Len(stk) : m.stk[i] = stk[i]
         /\ Kind[pc] = "ret" => /\ Len(m.stk) = Len(stk) - 1
                               /\ m.pc = stk[Len(stk)]
                               /\ \A i \in 1 .. Len(stk) - 1 : m.stk[i] = stk[i]
         /\ Kind[pc] \in {"plain", "call", "ret"}
<1>1. /\ m.stk \in Seq(Returns)
      /\ \/ Kind[pc] = "plain" /\ m.stk = stk
         \/ Kind[pc] = "call" /\ pc + 1 \in Addr /\ m.stk = Append(stk, pc + 1)
         \/ Kind[pc] = "ret" /\ stk # <<>> /\ m.pc = Last(stk) /\ m.stk = Front(stk)
  BY MoveKinds
<1>2. Len(stk) \in Nat /\ Len(m.stk) \in Nat
  BY <1>1, LenProperties
<1>3. CASE Kind[pc] = "plain" /\ m.stk = stk
  BY <1>2, <1>3
<1>4. CASE Kind[pc] = "call" /\ pc + 1 \in Addr /\ m.stk = Append(stk, pc + 1)
  <2>1. /\ Len(Append(stk, pc + 1)) = Len(stk) + 1
        /\ Append(stk, pc + 1)[Len(stk) + 1] = pc + 1
        /\ \A i \in 1 .. Len(stk) : Append(stk, pc + 1)[i] = stk[i]
    <3>1. pc + 1 \in Returns
      BY <1>4, SteppingAssumption DEF Returns
    <3> QED BY <3>1, AppendProperties
  <2> QED BY <1>2, <1>4, <2>1
<1>5. CASE Kind[pc] = "ret" /\ stk # <<>> /\ m.pc = Last(stk) /\ m.stk = Front(stk)
  <2>1. /\ Last(stk) = stk[Len(stk)] /\ Len(Front(stk)) = Len(stk) - 1
        /\ \A i \in 1 .. Len(stk) - 1 : Front(stk)[i] = stk[i]
    BY <1>5, FrontLast
  <2> QED BY <1>2, <1>5, <2>1
<1> QED BY <1>1, <1>3, <1>4, <1>5

(* The locals of a new command. *)
LEMMA JobTypes ==
  ASSUME pc \in Addr, stk \in Seq(Returns), NEW inline \in BOOLEAN,
         NEW op \in {"in", "over", "out", "continue", "stepi"}
  PROVE  /\ Job(op, inline) \in Jobs
         /\ Job(op, inline).op = op /\ Job(op, inline).inline = inline
         /\ Job(op, inline).depth = Len(stk) /\ Job(op, inline).line = Row[pc]
         /\ Job(op, inline).over = {} /\ Job(op, inline).block = FALSE
         /\ stk # <<>> => Job(op, inline).ret = Last(stk)
         /\ Job(op, inline).top => cur = height /\ ~(Inl[pc] # <<>> /\ Inl[pc][1].low = pc)
<1>1. Len(stk) \in Nat /\ Row[pc] \in Nat
  BY LenProperties, SteppingAssumption
<1>2. stk # <<>> => Last(stk) \in Returns
  BY FrontLast
<1>3. (IF stk = <<>> THEN 0 ELSE Last(stk)) \in Returns \cup {0}
  BY <1>2
<1> QED BY <1>1, <1>3 DEF Job, Jobs, Pasts

(* Without debug information at the pc there are no frames.                *)
LEMMA NoFrames ==
  ASSUME NEW p \in Addr, NEW s \in Seq(Returns), Inl[p] = <<>>
  PROVE  DOMAIN Frames(p, s) = {}
<1> DEFINE known == Known(p, s)
           K == Cardinality(known)
           ss == [k \in 1 .. K |-> [j \in 1 .. Blocks(p, s, k) |-> Rips(p, s)[k]]]
<1>1. Frames(p, s) = FlattenSeq(ss)
  BY DEF Frames, Known, Blocks, Rips
<1>2. known = {}
  <2>1. ASSUME NEW k \in known PROVE FALSE
    <3>1. k \in 1 .. Len(s) + 1 /\ \A j \in 1 .. k : Blocks(p, s, j) > 0
      BY RipTypes DEF Known
    <3>2. 1 \in 1 .. k /\ Blocks(p, s, 1) = 0
      BY <3>1 DEF Blocks
    <3> QED BY <3>1, <3>2
  <2> QED BY <2>1
<1>3. K = 0
  BY <1>2, FS_EmptySet
<1> HIDE DEF K, known
<1>4. Len(ss) = 0 /\ DOMAIN ss = {}
  BY <1>3
<1> HIDE DEF ss
<1>5. FlattenSeq(ss) = ss
  <2>1. \A i \in 1 .. 0 : ss[i] \in Seq(Addr)
    OBVIOUS
  <2>2. 0 \in Nat
    OBVIOUS
  <2>3. 0 = 0 => FlattenSeq(ss) = ss
    BY <1>4, <2>1, <2>2, FlattenTwo, Zenon
  <2> QED BY <2>3
<1> QED BY <1>1, <1>4, <1>5

(* The types, the command and the traps, on which the other parts rest. *)
Base == StepTypes /\ CommandInv /\ TrapsInv

LEMMA UnwindBounds ==
  ASSUME NEW p \in Addr, Unwind(p)
  PROVE  height' \in Nat /\ height' <= Height(p)
<1>1. Height(p) \in Nat
  BY HeightBounds
<1> QED BY <1>1 DEF Unwind

LEMMA RunTraps ==
  ASSUME TrapsInv, run = "stopped", NEW a, RunUntil(a), UNCHANGED sites
  PROVE  TrapsInv' /\ run' = "running" /\ goal' = a /\ fresh' = TRUE
BY DEF TrapsInv, RunUntil, Enabled

LEMMA StillTraps ==
  ASSUME TrapsInv, UNCHANGED <<sites, tmp, traps>>, run = "stopped" \/ run' # "stopped"
  PROVE  TrapsInv'
BY DEF TrapsInv, Enabled

(* The end of a command changes only what it reports. *)
LEMMA Returned ==
  ASSUME NEW r, NEW p, NEW s, Return(r, p, s)
  PROVE  /\ busy' = FALSE /\ job' = job /\ fresh' = fresh
         /\ said' = "step" => r = "step"
BY DEF Return

(* One iteration of a loop runs, enters a function, or is a single step. *)
LEMMA IterationCases ==
  ASSUME StepIteration
  PROVE  /\ busy /\ goal = 0 /\ run = "stopped" /\ UNCHANGED sites
         /\ \/ /\ job.op = "over" /\ SkipTo # 0 /\ RunUntil(SkipTo)
               /\ job' = [job EXCEPT !.block = @ \/ AtBlock,
                                     !.over = IF AtBlock THEN @ ELSE @ \cup {[at |-> SkipTo, depth |-> Len(stk)]}]
               /\ UNCHANGED <<pc, stk, stack, busy, said>>
            \/ \E m \in Moves : job.op = "in" /\ m.out = "step" /\ EnterFunction(m)
            \/ \E m \in Moves : ~(job.op = "over" /\ SkipTo # 0) /\ SingleStep(m)
BY Zenon DEF StepIteration

(* A site that is met in a block or at a call: where step_over runs to. *)
LEMMA SkipKinds ==
  ASSUME StepTypes, run = "stopped"
  PROVE  /\ SkipTo = 0 => ~AtBlock /\ Kind[pc] # "call"
         /\ SkipTo # 0 /\ ~AtBlock => Kind[pc] = "call" /\ SkipTo = pc + 1 /\ pc + 1 \in Addr
<1>1. pc \in Addr /\ height \in Nat /\ height <= Height(pc)
  BY DEF StepTypes
<1>2. Height(pc) \in Nat /\ Len(Inl[pc]) \in Nat /\ Height(pc) <= Len(Inl[pc])
  BY <1>1, HeightBounds
<1>3. pc \in Nat /\ (Kind[pc] = "call" => pc + 1 \in Addr)
  BY <1>1, SteppingAssumption
<1>4. AtBlock => SkipTo # 0
  <2> SUFFICES ASSUME AtBlock PROVE SkipTo # 0
    OBVIOUS
  <2>1. Len(Inl[pc]) - height + 1 \in 1 .. Len(Inl[pc])
    BY <1>1, <1>2 DEF AtBlock
  <2>2. DOMAIN Inl[pc] = 1 .. Len(Inl[pc]) /\ Inl[pc] \in Seq([low : Nat, high : Nat])
    BY <1>1, SteppingAssumption, LenProperties
  <2> DEFINE i == Len(Inl[pc]) - height + 1
             b == Inl[pc][i]
  <2>3. b \in [low : Nat, high : Nat] /\ pc < b.high
    <3>1. i \in 1 .. Len(Inl[pc])
      BY <2>1
    <3> HIDE DEF i
    <3>2. b \in [low : Nat, high : Nat]
      BY <2>2, <3>1, ElementOfSeq, Zenon
    <3>3. \A a \in Addr : \A j \in DOMAIN Inl[a] : a < Inl[a][j].high
      BY SteppingAssumption
    <3> QED BY <1>1, <2>2, <3>1, <3>2, <3>3
  <2>4. SkipTo = b.high
    BY DEF SkipTo
  <2> HIDE DEF b
  <2> QED BY <1>3, <2>3, <2>4
<1> QED BY <1>3, <1>4 DEF SkipTo

LEMMA InitBase == Init => Base
<1> SUFFICES ASSUME Init PROVE Base
  OBVIOUS
<1>1. pc \in Addr /\ stk = <<>> /\ stk \in Seq(Returns) /\ pc = Start
  BY SteppingAssumption DEF Init
<1>2. Height(Start) \in Nat /\ Height(Start) <= Height(Start)
  BY SteppingAssumption, HeightBounds
<1>3. job \in Jobs /\ job.op = "continue"
  BY <1>1, JobTypes DEF Init
<1>4. StepTypes
  BY <1>1, <1>2, <1>3 DEF Init, StepTypes
<1>5. CommandInv
  BY DEF Init, CommandInv
<1>6. TrapsInv
  BY DEF Init, TrapsInv, Enabled
<1> QED BY <1>4, <1>5, <1>6 DEF Base

(* A command that begins where the program is stopped. *)
LEMMA NewJob ==
  ASSUME StepTypes, NEW inline \in BOOLEAN,
         NEW op \in {"in", "over", "out", "continue", "stepi"},
         job' = Job(op, inline)
  PROVE  job' \in Jobs /\ job'.op = op
<1>1. pc \in Addr /\ stk \in Seq(Returns)
  BY DEF StepTypes
<1>2. Job(op, inline) \in Jobs /\ Job(op, inline).op = op
  BY <1>1, JobTypes
<1> QED BY <1>2

(* One instruction executes under a step: of a loop or of "step". *)
LEMMA MoveTypes ==
  ASSUME StepTypes, NEW m \in Moves, Move(m), Unwind(m.pc)
  PROVE  /\ pc' \in Addr /\ stk' \in Seq(Returns) /\ run' \in {"stopped", "gone"}
         /\ height' \in Nat /\ height' <= Height(pc')
<1>1. m.pc \in Addr /\ m.stk \in Seq(Returns)
  BY MoveKinds DEF StepTypes
<1>2. height' \in Nat /\ height' <= Height(m.pc)
  BY <1>1, UnwindBounds
<1> QED BY <1>1, <1>2 DEF Move

LEMMA BaseIteration ==
  ASSUME Base, StepIteration
  PROVE  Base'
<1>1. StepTypes /\ CommandInv /\ TrapsInv
  BY DEF Base
<1>2. busy /\ run = "stopped" /\ UNCHANGED sites /\ job.op \in {"in", "over"}
  BY <1>1, IterationCases DEF CommandInv
<1>3. CASE /\ job.op = "over" /\ SkipTo # 0 /\ RunUntil(SkipTo)
           /\ job' = [job EXCEPT !.block = @ \/ AtBlock,
                                 !.over = IF AtBlock THEN @ ELSE @ \cup {[at |-> SkipTo, depth |-> Len(stk)]}]
           /\ UNCHANGED <<pc, stk, stack, busy, said>>
  <2>1. TrapsInv' /\ run' = "running" /\ fresh' = TRUE
    BY <1>1, <1>2, <1>3, RunTraps
  <2>2. job' \in Jobs
    <3>1. ~AtBlock => [at |-> SkipTo, depth |-> Len(stk)] \in [at : Addr, depth : Nat]
      <4>1. ~AtBlock => SkipTo \in Addr
        BY <1>1, <1>2, <1>3, SkipKinds
      <4>2. Len(stk) \in Nat
        BY <1>1, LenProperties DEF StepTypes
      <4> HIDE DEF AtBlock, SkipTo
      <4> QED BY <4>1, <4>2
    <3>2. job \in Jobs /\ AtBlock \in BOOLEAN
      BY <1>1 DEF StepTypes, AtBlock
    <3> HIDE DEF AtBlock, SkipTo
    <3>3. (IF AtBlock THEN job.over ELSE job.over \cup {[at |-> SkipTo, depth |-> Len(stk)]})
            \in SUBSET [at : Addr, depth : Nat]
      BY <3>1, <3>2 DEF Jobs
    <3>4. (job.block \/ AtBlock) \in BOOLEAN
      BY <3>2
    <3> DEFINE O == IF AtBlock THEN job.over ELSE job.over \cup {[at |-> SkipTo, depth |-> Len(stk)]}
               B == job.block \/ AtBlock
    <3>5. job' = [job EXCEPT !.block = B, !.over = O] /\ O \in SUBSET [at : Addr, depth : Nat] /\ B \in BOOLEAN
      BY <1>3, <3>3, <3>4, Zenon
    <3> HIDE DEF O, B
    <3> QED BY <3>2, <3>5 DEF Jobs
  <2>3. pc' = pc /\ stk' = stk /\ height' = height /\ busy' = busy
    BY <1>3 DEF stack
  <2>4. StepTypes' /\ CommandInv'
    BY <1>1, <1>2, <2>1, <2>2, <2>3 DEF StepTypes, CommandInv
  <2> QED BY <2>1, <2>4 DEF Base
<1>4. ASSUME NEW m \in Moves, EnterFunction(m)
      PROVE  Base'
  <2>1. RunUntil(NextRow(m.pc)) /\ busy' = busy
    BY <1>4 DEF EnterFunction
  <2>2. TrapsInv' /\ run' = "running" /\ fresh' = TRUE
    BY <1>1, <1>2, <2>1, RunTraps
  <2>3. m.pc \in Addr /\ m.stk \in Seq(Returns)
    BY <1>1, MoveKinds DEF StepTypes
  <2>4. pc' = m.pc /\ stk' = m.stk /\ height' \in Nat
    BY <1>4, <2>3, UnwindBounds DEF EnterFunction
  <2>5. job' \in Jobs
    <3>1. job \in Jobs /\ job' = [job EXCEPT !.past = NextRow(m.pc)] /\ NextRow(m.pc) \in Pasts
      BY <1>1, <1>4, <2>3 DEF StepTypes, EnterFunction, Pasts
    <3> QED BY <3>1 DEF Jobs
  <2>6. StepTypes' /\ CommandInv'
    BY <1>1, <1>2, <2>1, <2>2, <2>3, <2>4, <2>5 DEF StepTypes, CommandInv
  <2> QED BY <2>2, <2>6 DEF Base
<1>5. ASSUME NEW m \in Moves, SingleStep(m)
      PROVE  Base'
  <2>1. /\ pc' \in Addr /\ stk' \in Seq(Returns) /\ run' \in {"stopped", "gone"}
        /\ height' \in Nat /\ height' <= Height(pc')
    BY <1>1, <1>5, MoveTypes DEF SingleStep
  <2>2. job' = job /\ fresh' = fresh /\ (busy' = busy \/ busy' = FALSE)
    <3>1. CASE UNCHANGED command
      BY <3>1 DEF command
    <3>2. CASE Return(StepReason(m), m.pc, m.stk)
      BY <3>2, Returned
    <3> QED BY <1>5, <3>1, <3>2 DEF SingleStep
  <2>3. UNCHANGED <<sites, tmp, traps>>
    BY <1>2, <1>5 DEF SingleStep
  <2>4. StepTypes' /\ CommandInv'
    BY <1>1, <1>2, <2>1, <2>2 DEF StepTypes, CommandInv
  <2>5. TrapsInv'
    BY <1>1, <1>2, <2>3, StillTraps
  <2> QED BY <2>4, <2>5 DEF Base
<1> QED BY <1>3, <1>4, <1>5, IterationCases

(* A running program stops: at the goal, which may be in the row the       *)
(* command began in, or elsewhere.                                         *)
LEMMA StopCases ==
  ASSUME Stops, StepTypes
  PROVE  /\ run = "running" /\ UNCHANGED <<pc, stk, sites>>
         /\ run' \in {"stopped", "gone"} /\ job' = job /\ fresh' = fresh
         /\ height' \in Nat /\ height' <= Height(pc')
         /\ run' = "stopped" => tmp' = {} /\ traps' = traps \ tmp
         /\ run' = "gone" => UNCHANGED <<tmp, traps>>
         /\ \/ /\ pc = goal /\ pc \in traps /\ run' = "stopped"
               /\ \/ job.op = "over" /\ SameLine(pc) /\ busy' = busy
                  \/ ~(job.op = "over" /\ SameLine(pc)) /\ busy' = FALSE
            \/ busy' = FALSE /\ said' # "step"
<1> SUFFICES ASSUME NEW r \in {"breakpoint", "signal", "exited"},
                    r = "breakpoint" => pc \in traps, Stop(r)
             PROVE  run = "running" =>
                    /\ UNCHANGED <<pc, stk, sites>>
                    /\ run' \in {"stopped", "gone"} /\ job' = job /\ fresh' = fresh
                    /\ height' \in Nat /\ height' <= Height(pc')
                    /\ run' = "stopped" => tmp' = {} /\ traps' = traps \ tmp
                    /\ run' = "gone" => UNCHANGED <<tmp, traps>>
                    /\ \/ /\ pc = goal /\ pc \in traps /\ run' = "stopped"
                          /\ \/ job.op = "over" /\ SameLine(pc) /\ busy' = busy
                             \/ ~(job.op = "over" /\ SameLine(pc)) /\ busy' = FALSE
                       \/ busy' = FALSE /\ said' # "step"
  BY DEF Stops
<1> DEFINE there == r = "breakpoint" /\ pc = goal
           why == IF there THEN "step" ELSE IF r = "exited" /\ (tmp # {} \/ SteppingOff) THEN "error" ELSE r
<1>1. /\ run' = (IF r = "exited" THEN "gone" ELSE "stopped") /\ UNCHANGED <<pc, stk, sites>>
      /\ Unwind(pc) /\ RemoveTemporary(IF there THEN "step" ELSE r)
      /\ \/ job.op = "over" /\ there /\ SameLine(pc) /\ UNCHANGED <<busy, job, fresh, said>>
         \/ ~(job.op = "over" /\ there /\ SameLine(pc)) /\ Return(why, pc, stk)
  BY Zenon DEF Stop
<1>2. height' \in Nat /\ height' <= Height(pc')
  <2>1. pc \in Addr
    BY DEF StepTypes
  <2> QED BY <1>1, <2>1, UnwindBounds
<1>3. /\ run' = "stopped" => tmp' = {} /\ traps' = traps \ tmp
      /\ run' = "gone" => UNCHANGED <<tmp, traps>>
  BY <1>1 DEF RemoveTemporary
<1>4. CASE job.op = "over" /\ there /\ SameLine(pc) /\ UNCHANGED <<busy, job, fresh, said>>
  BY <1>1, <1>2, <1>3, <1>4
<1>5. CASE ~(job.op = "over" /\ there /\ SameLine(pc)) /\ Return(why, pc, stk)
  <2>1. busy' = FALSE /\ job' = job /\ fresh' = fresh /\ (said' = "step" => why = "step")
    BY <1>5, Returned
  <2>2. why = "step" => there
    OBVIOUS
  <2> HIDE DEF why
  <2> QED BY <1>1, <1>2, <1>3, <1>5, <2>1, <2>2
<1> QED BY <1>1, <1>4, <1>5

(* step_out runs to the end of the block or to the caller's frame.         *)
LEMMA OutCases ==
  ASSUME StepOut, StepTypes
  PROVE  /\ Idle /\ UNCHANGED <<pc, stk, sites, height, cur>>
         /\ \E inline \in BOOLEAN :
              /\ job' = Job("out", inline)
              /\ ~inline => Len(Inl[pc]) <= 1 \/ height >= Len(Inl[pc]) - 1
              /\ \/ /\ busy' = TRUE /\ \E a : RunUntil(a) /\ (~inline =>
                         cur + 2 \in DOMAIN Frames(pc, stk) /\ a = Frames(pc, stk)[cur + 2])
                 \/ said' = "undefined" /\ UNCHANGED <<run, tmp, traps, busy, goal, fresh>>
<1> DEFINE n == Len(Inl[pc])
           inline == n > 1 /\ height < n - 1
           frames == Frames(pc, stk)
<1>1. /\ Idle /\ UNCHANGED <<pc, stk, sites, stack>> /\ job' = Job("out", inline)
      /\ \/ /\ inline \/ cur + 2 \in DOMAIN frames
            /\ RunUntil(IF inline THEN Inl[pc][n - height].high ELSE frames[cur + 2])
            /\ busy' = TRUE
         \/ said' = "undefined" /\ UNCHANGED <<run, tmp, traps, busy, goal, fresh>>
  BY Zenon DEF StepOut
<1>2. n \in Nat /\ height \in Nat
  BY HeightBounds DEF StepTypes
<1>3. inline \in BOOLEAN /\ (~inline => n <= 1 \/ height >= n - 1)
  <2> HIDE DEF n
  <2> QED BY <1>2
<1> HIDE DEF n, frames, inline
<1>4. job' = Job("out", inline) /\ (~inline => n <= 1 \/ height >= n - 1)
      /\ \/ /\ busy' = TRUE /\ \E a : RunUntil(a) /\ (~inline =>
                 cur + 2 \in DOMAIN frames /\ a = frames[cur + 2])
         \/ said' = "undefined" /\ UNCHANGED <<run, tmp, traps, busy, goal, fresh>>
  BY <1>1, <1>3, Zenon
<1>5. Idle /\ UNCHANGED <<pc, stk, sites, height, cur>>
  BY <1>1 DEF stack
<1> QED BY <1>3, <1>4, <1>5, Zenon DEF n, frames

LEMMA BaseStep == Base /\ [Next]_vars => Base'
<1> SUFFICES ASSUME Base, [Next]_vars PROVE Base'
  OBVIOUS
<1>0. StepTypes /\ CommandInv /\ TrapsInv
  BY DEF Base
<1>1. ASSUME Idle, UNCHANGED <<pc, stk, run, sites, tmp, traps, fresh>>, job' \in Jobs,
             height' \in Nat, height' <= height, busy' = FALSE \/ job'.op \in {"in", "over"},
             busy' \in BOOLEAN
      PROVE  Base'
  <2>1. Height(pc) \in Nat /\ Height(pc)' = Height(pc)
    BY <1>0, <1>1, HeightBounds DEF StepTypes
  <2>2. StepTypes'
    <3>1. height' <= Height(pc)
      BY <1>0, <1>1, <2>1 DEF StepTypes, Idle
    <3> QED BY <1>0, <1>1, <2>1, <3>1 DEF StepTypes
  <2>3. CommandInv'
    BY <1>1 DEF CommandInv, Idle
  <2>4. TrapsInv'
    BY <1>0, <1>1, StillTraps DEF Idle
  <2> QED BY <2>2, <2>3, <2>4 DEF Base
<1>2. CASE StepInInlined
  <2>1. job' \in Jobs
    BY <1>0, <1>2, NewJob DEF StepInInlined
  <2>2. height' \in Nat /\ height' <= height /\ UNCHANGED <<pc, stk, run, sites, tmp, traps, fresh>>
    BY <1>0, <1>2 DEF StepInInlined, StepTypes, program
  <2>3. Idle /\ busy' = FALSE
    BY <1>0, <1>2 DEF StepInInlined, StepTypes, Idle
  <2> QED BY <1>1, <2>1, <2>2, <2>3
<1>3. ASSUME NEW op \in {"in", "over"}, BeginStep(op)
      PROVE  Base'
  <2>1. job' \in Jobs /\ job'.op = op
    BY <1>0, <1>3, NewJob DEF BeginStep
  <2>2. height' \in Nat /\ height' <= height /\ UNCHANGED <<pc, stk, run, sites, tmp, traps, fresh>> /\ Idle /\ busy' = TRUE
    BY <1>0, <1>3 DEF BeginStep, StepTypes, program, stack
  <2>3. busy' \in BOOLEAN /\ job'.op \in {"in", "over"}
    BY <2>1, <2>2
  <2> QED BY <1>1, <2>1, <2>2, <2>3
<1>4. CASE StepIteration
  BY <1>4, BaseIteration
<1>5. CASE StepOut
  <2>1. Idle /\ UNCHANGED <<pc, stk, sites, height, cur>> /\ job' \in Jobs /\ height \in Nat
    BY <1>0, <1>5, OutCases, NewJob DEF StepTypes
  <2>2. CASE busy' = TRUE /\ \E a : RunUntil(a)
    <3>1. TrapsInv' /\ run' = "running" /\ fresh' = TRUE
      BY <1>0, <2>1, <2>2, RunTraps DEF Idle
    <3>2. StepTypes' /\ CommandInv'
      BY <1>0, <2>1, <2>2, <3>1 DEF StepTypes, CommandInv
    <3> QED BY <3>1, <3>2 DEF Base
  <2>3. CASE UNCHANGED <<run, tmp, traps, busy, goal, fresh>>
    <3>1. busy' = FALSE /\ height' \in Nat /\ height' <= height
      BY <1>0, <2>1, <2>3 DEF StepTypes, Idle
    <3> QED BY <1>1, <2>1, <2>3, <3>1
  <2> QED BY <1>0, <1>5, <2>2, <2>3, OutCases
<1>6. CASE Continue
  <2>1. job' \in Jobs /\ job'.op = "continue"
    BY <1>0, <1>6, NewJob DEF Continue
  <2>2. StepTypes' /\ CommandInv'
    BY <1>0, <1>6, <2>1 DEF StepTypes, CommandInv, Continue, stack
  <2>3. TrapsInv'
    BY <1>0, <1>6, StillTraps DEF Continue
  <2> QED BY <2>2, <2>3 DEF Base
<1>7. CASE StepInstruction
  <2>1. PICK m \in Moves : Move(m) /\ Unwind(m.pc) /\ job' = Job("stepi", FALSE)
    BY <1>7 DEF StepInstruction
  <2>2. job' \in Jobs /\ job'.op = "stepi" /\ Idle /\ UNCHANGED <<sites, tmp, traps, busy, goal, fresh>>
    BY <1>0, <1>7, <2>1, NewJob DEF StepInstruction
  <2>3. /\ pc' \in Addr /\ stk' \in Seq(Returns) /\ run' \in {"stopped", "gone"}
        /\ height' \in Nat /\ height' <= Height(pc')
    BY <1>0, <2>1, MoveTypes
  <2>4. StepTypes' /\ CommandInv'
    BY <1>0, <2>2, <2>3 DEF StepTypes, CommandInv, Idle
  <2>5. TrapsInv'
    BY <1>0, <2>2, StillTraps DEF Idle
  <2> QED BY <2>4, <2>5 DEF Base
<1>8. ASSUME NEW d \in {1, -1}, Select(d)
      PROVE  Base'
  <2>1. Idle /\ UNCHANGED <<pc, stk, run, sites, tmp, traps, fresh, height, busy, job>>
    BY <1>8 DEF Select, program
  <2>2. job' \in Jobs /\ height' \in Nat /\ height' <= height /\ busy' = FALSE
    BY <1>0, <2>1 DEF StepTypes, Idle
  <2> QED BY <1>1, <2>1, <2>2
<1>9. CASE Execute
  <2>1. PICK m \in Moves : pc' = m.pc /\ stk' = m.stk
    BY <1>9 DEF Execute
  <2>2. m.pc \in Addr /\ m.stk \in Seq(Returns)
    BY <1>0, MoveKinds DEF StepTypes
  <2>3. run = "running" /\ fresh' = FALSE /\ UNCHANGED <<run, sites, tmp, traps, stack, busy, job, goal>>
    BY <1>9 DEF Execute
  <2>4. StepTypes' /\ CommandInv'
    BY <1>0, <2>1, <2>2, <2>3 DEF StepTypes, CommandInv, stack
  <2>5. TrapsInv'
    BY <1>0, <2>3, StillTraps
  <2> QED BY <2>4, <2>5 DEF Base
<1>10. CASE Stops
  <2>1. /\ run = "running" /\ UNCHANGED <<pc, stk, sites>>
        /\ run' \in {"stopped", "gone"} /\ job' = job /\ fresh' = fresh
        /\ height' \in Nat /\ height' <= Height(pc')
        /\ run' = "stopped" => tmp' = {} /\ traps' = traps \ tmp
        /\ run' = "gone" => UNCHANGED <<tmp, traps>>
    BY <1>0, <1>10, StopCases
  <2>2. busy' = FALSE \/ (job.op = "over" /\ busy' = busy)
    BY <1>0, <1>10, StopCases
  <2>3. StepTypes' /\ CommandInv'
    BY <1>0, <2>1, <2>2 DEF StepTypes, CommandInv
  <2>4. TrapsInv'
    BY <1>0, <2>1 DEF TrapsInv, Enabled
  <2> QED BY <2>3, <2>4 DEF Base
<1>11. CASE UNCHANGED vars
  <2>1. UNCHANGED <<pc, stk, run, busy, fresh, job, height, sites, tmp, traps>>
    BY <1>11 DEF vars, program, stack, command
  <2>2. StepTypes' /\ CommandInv' /\ TrapsInv'
    BY <1>0, <2>1 DEF StepTypes, CommandInv, TrapsInv, Enabled
  <2> QED BY <2>2 DEF Base
<1> QED BY <1>2, <1>3, <1>4, <1>5, <1>6, <1>7, <1>8, <1>9, <1>10, <1>11 DEF Next

-------------------------------------------------------------------------------
(* The promises of the commands. *)

(* What a command keeps when it only begins, or moves nothing.             *)
LEMMA StepReported ==
  ASSUME NEW m, StepReason(m) = "step"
  PROVE  m.out = "step"
BY DEF StepReason

LEMMA MovesStep == Base /\ MovesInv /\ [Next]_vars => MovesInv'
<1> SUFFICES ASSUME Base, MovesInv, [Next]_vars PROVE MovesInv'
  OBVIOUS
<1>0. StepTypes /\ CommandInv /\ StepMoves /\ busy \in BOOLEAN
  BY DEF Base, MovesInv, StepTypes
<1>1. CASE StepInInlined
  <2>1. job' = Job("in", TRUE) /\ run' = run /\ run = "stopped"
    BY <1>1 DEF StepInInlined, program, Idle
  <2>2. job'.inline
    BY <1>0, <2>1, JobTypes DEF StepTypes
  <2> QED BY <2>1, <2>2 DEF MovesInv, StepMoves
<1>2. ASSUME NEW op \in {"in", "over"}, BeginStep(op)
      PROVE  MovesInv'
  <2>1. busy' = TRUE /\ run' = run /\ run = "stopped"
    BY <1>2 DEF BeginStep, program, Idle
  <2> QED BY <2>1 DEF MovesInv, StepMoves
<1>3. CASE StepIteration
  <2>0. busy /\ run = "stopped"
    BY <1>3, IterationCases
  <2>1. CASE /\ job.op = "over" /\ RunUntil(SkipTo)
             /\ job' = [job EXCEPT !.block = @ \/ AtBlock,
                                   !.over = IF AtBlock THEN @ ELSE @ \cup {[at |-> SkipTo, depth |-> Len(stk)]}]
             /\ UNCHANGED <<pc, stk, stack, busy, said>>
    <3>1. job'.op = "over"
      BY <1>0, <2>1 DEF StepTypes, Jobs
    <3> QED BY <2>0, <2>1, <3>1 DEF MovesInv, StepMoves
  <2>2. ASSUME NEW m \in Moves, EnterFunction(m)
        PROVE  MovesInv'
    <3>1. goal' = NextRow(m.pc) /\ busy' = busy /\ job' = [job EXCEPT !.past = NextRow(m.pc)]
      BY <2>2 DEF EnterFunction, RunUntil
    <3>2. job'.past = NextRow(m.pc)
      BY <1>0, <3>1 DEF StepTypes, Jobs
    <3> QED BY <2>0, <3>1, <3>2 DEF MovesInv, StepMoves
  <2>3. ASSUME NEW m \in Moves, SingleStep(m)
        PROVE  MovesInv'
    <3>1. pc' = m.pc /\ run' # "running"
      BY <2>3 DEF SingleStep, Move
    <3>2. CASE UNCHANGED command
      <4>1. busy' = busy
        BY <3>2 DEF command
      <4> QED BY <2>0, <3>1, <4>1 DEF MovesInv, StepMoves
    <3>3. CASE ~(m.out = "step" /\ SameLine(m.pc)) /\ Return(StepReason(m), m.pc, m.stk)
      <4>1. job' = job /\ (said' = "step" => ~SameLine(m.pc))
        BY <3>3, Returned, StepReported
      <4> QED BY <3>1, <4>1 DEF MovesInv, StepMoves, SameLine
    <3> QED BY <2>3, <3>2, <3>3 DEF SingleStep
  <2> QED BY <1>3, <2>1, <2>2, <2>3, IterationCases
<1>4. ASSUME NEW op \in {"out", "continue", "stepi"}, NEW inline \in BOOLEAN, job' = Job(op, inline)
      PROVE  MovesInv'
  <2>1. job'.op = op
    BY <1>0, <1>4, NewJob
  <2> QED BY <2>1 DEF MovesInv, StepMoves
<1>5. CASE StepOut
  BY <1>0, <1>4, <1>5, OutCases
<1>6. CASE Continue \/ StepInstruction
  BY <1>4, <1>6 DEF Continue, StepInstruction
<1>7. ASSUME NEW d, Select(d)
      PROVE  MovesInv'
  <2>1. UNCHANGED <<pc, stk, run, busy, job, goal>> /\ run # "running" /\ (said' = said \/ said' # "step")
    BY <1>7 DEF Select, program, Idle
  <2> QED BY <1>0, <2>1 DEF MovesInv, StepMoves
<1>8. CASE Execute
  <2>1. run = "running" /\ UNCHANGED <<run, busy, job, goal>>
    BY <1>8 DEF Execute
  <2> QED BY <1>0, <2>1 DEF MovesInv, StepMoves, CommandInv
<1>9. CASE Stops
  <2>1. /\ run = "running" /\ UNCHANGED <<pc, stk>> /\ job' = job /\ run' \in {"stopped", "gone"}
        /\ \/ /\ pc = goal
              /\ \/ busy' = busy
                 \/ ~(job.op = "over" /\ SameLine(pc))
           \/ said' # "step"
    BY <1>0, <1>9, StopCases
  <2>2. busy
    BY <1>0, <2>1 DEF CommandInv
  <2>3. CASE pc = goal /\ ~(job.op = "over" /\ SameLine(pc))
    <3>1. job.op = "in" => pc = job.past
      BY <2>1, <2>3 DEF MovesInv
    <3> QED BY <2>1, <2>3, <3>1 DEF MovesInv, StepMoves, SameLine
  <2> QED BY <2>1, <2>2, <2>3 DEF MovesInv, StepMoves
<1>10. CASE UNCHANGED vars
  BY <1>10 DEF vars, program, command, MovesInv, StepMoves
<1> QED BY <1>1, <1>2, <1>3, <1>5, <1>6, <1>7, <1>8, <1>9, <1>10 DEF Next

(* An instruction keeps an activation, or returns from it.                 *)
LEMMA MoveOpens ==
  ASSUME pc \in Addr, stk \in Seq(Returns), NEW m \in Moves, m.out = "step",
         NEW d \in Nat, d < Len(stk)
  PROVE  \/ d < Len(m.stk) /\ m.stk[d + 1] = stk[d + 1]
         \/ Kind[pc] = "ret" /\ Len(stk) = d + 1 /\ Len(m.stk) = d /\ m.pc = stk[d + 1]
<1>1. Len(stk) \in Nat /\ Len(m.stk) \in Nat /\ d + 1 \in 1 .. Len(stk)
  BY MoveDepth
<1>2. CASE Kind[pc] = "plain"
  BY <1>2, MoveDepth
<1>3. CASE Kind[pc] = "call"
  <2>1. Len(m.stk) = Len(stk) + 1 /\ m.stk[d + 1] = stk[d + 1]
    BY <1>1, <1>3, MoveDepth
  <2> QED BY <1>1, <2>1
<1>4. CASE Kind[pc] = "ret"
  <2>1. /\ Len(m.stk) = Len(stk) - 1 /\ m.pc = stk[Len(stk)]
        /\ \A i \in 1 .. Len(stk) - 1 : m.stk[i] = stk[i]
    BY <1>4, MoveDepth
  <2>2. CASE d + 1 = Len(stk)
    BY <1>1, <1>4, <2>1, <2>2
  <2>3. CASE d + 1 # Len(stk)
    <3>1. d + 1 \in 1 .. Len(stk) - 1
      BY <1>1, <2>3
    <3> QED BY <1>1, <2>1, <3>1
  <2> QED BY <2>2, <2>3
<1> QED BY <1>2, <1>3, <1>4, MoveDepth

(* step_out of the innermost frame runs to where that activation returns.  *)
LEMMA OutTarget ==
  ASSUME Base, Idle, cur = height, ~(Inl[pc] # <<>> /\ Inl[pc][1].low = pc),
         Len(Inl[pc]) <= 1 \/ height >= Len(Inl[pc]) - 1,
         cur + 2 \in DOMAIN Frames(pc, stk)
  PROVE  stk # <<>> /\ Frames(pc, stk)[cur + 2] = Last(stk)
<1>1. pc \in Addr /\ stk \in Seq(Returns) /\ height \in Nat /\ height <= Height(pc)
  BY DEF Base, StepTypes, Idle
<1>2. Inl[pc] # <<>>
  BY <1>1, NoFrames
<1>3. /\ Height(pc) \in Nat /\ Len(Inl[pc]) \in Nat
      /\ Height(pc) <= Len(Inl[pc]) - 1
  BY <1>1, <1>2, HeightBounds
<1>4. cur + 2 = Len(Inl[pc]) + 1
  <2> DEFINE n == Len(Inl[pc])
             h == Height(pc)
  <2>1. n \in Nat /\ h \in Nat /\ h <= n - 1 /\ height <= h /\ (n <= 1 \/ height >= n - 1)
    BY <1>1, <1>3
  <2> HIDE DEF n, h
  <2>2. cur + 2 = n + 1
    BY <1>1, <2>1
  <2> QED BY <2>2 DEF n
<1> QED BY <1>1, <1>4, CallerFrame

LEMMA OutStep == Base /\ OutInv /\ [Next]_vars => OutInv'
<1> SUFFICES ASSUME Base, OutInv, [Next]_vars PROVE OutInv'
  OBVIOUS
<1>0. StepTypes /\ CommandInv /\ StepOutReturns /\ busy \in BOOLEAN
  BY DEF Base, OutInv, StepTypes
<1>1. ASSUME NEW op \in {"in", "over", "continue", "stepi"}, NEW inline \in BOOLEAN, job' = Job(op, inline)
      PROVE  OutInv'
  <2>1. job'.op = op
    BY <1>0, <1>1, NewJob
  <2> QED BY <2>1 DEF OutInv, StepOutReturns
<1>2. CASE StepInInlined \/ BeginStep("in") \/ BeginStep("over") \/ Continue \/ StepInstruction
  BY <1>1, <1>2 DEF StepInInlined, BeginStep, Continue, StepInstruction
<1>3. CASE StepIteration
  <2>1. job.op \in {"in", "over"}
    BY <1>0, <1>3, IterationCases DEF CommandInv
  <2>2. CASE job' = [job EXCEPT !.block = @ \/ AtBlock,
                          !.over = IF AtBlock THEN @ ELSE @ \cup {[at |-> SkipTo, depth |-> Len(stk)]}]
    <3>1. job'.op = job.op
      BY <1>0, <2>2 DEF StepTypes, Jobs
    <3> QED BY <2>1, <3>1 DEF OutInv, StepOutReturns
  <2>3. ASSUME NEW m \in Moves, EnterFunction(m)
        PROVE  OutInv'
    <3>1. job' = [job EXCEPT !.past = NextRow(m.pc)]
      BY <2>3 DEF EnterFunction
    <3>2. job'.op = job.op
      BY <1>0, <3>1 DEF StepTypes, Jobs
    <3> QED BY <2>1, <3>2 DEF OutInv, StepOutReturns
  <2>4. ASSUME NEW m \in Moves, SingleStep(m)
        PROVE  OutInv'
    <3>1. job' = job
      BY <2>4, Returned DEF SingleStep, command
    <3> QED BY <2>1, <3>1 DEF OutInv, StepOutReturns
  <2> QED BY <1>3, <2>2, <2>3, <2>4, IterationCases
<1>4. CASE StepOut
  <2>1. Idle /\ UNCHANGED <<pc, stk>>
    BY <1>0, <1>4, OutCases
  <2>2. PICK inline \in BOOLEAN :
              /\ job' = Job("out", inline)
              /\ ~inline => Len(Inl[pc]) <= 1 \/ height >= Len(Inl[pc]) - 1
              /\ \/ /\ busy' = TRUE /\ \E a : RunUntil(a) /\ (~inline =>
                         cur + 2 \in DOMAIN Frames(pc, stk) /\ a = Frames(pc, stk)[cur + 2])
                 \/ said' = "undefined" /\ UNCHANGED <<run, tmp, traps, busy, goal, fresh>>
    BY <1>0, <1>4, OutCases
  <2>3. /\ job'.op = "out" /\ (job'.inline <=> inline) /\ job'.depth = Len(stk)
        /\ stk # <<>> => job'.ret = Last(stk)
        /\ job'.top => cur = height /\ ~(Inl[pc] # <<>> /\ Inl[pc][1].low = pc)
    BY <1>0, <2>2, JobTypes DEF StepTypes
  <2>4. CASE busy' = TRUE /\ \E a : RunUntil(a) /\ (~inline =>
               cur + 2 \in DOMAIN Frames(pc, stk) /\ a = Frames(pc, stk)[cur + 2])
    <3>1. ASSUME ~job'.inline, job'.top
          PROVE  goal' = job'.ret /\ job'.depth >= 1 /\ job'.depth <= Len(stk') /\ stk'[job'.depth] = job'.ret
      <4>1. stk # <<>> /\ Frames(pc, stk)[cur + 2] = Last(stk)
        BY <2>1, <2>2, <2>3, <2>4, <3>1, OutTarget
      <4>2. goal' = Last(stk)
        BY <2>3, <2>4, <3>1, <4>1 DEF RunUntil
      <4>3. Len(stk) \in Nat \ {0} /\ Last(stk) = stk[Len(stk)]
        BY <1>0, <4>1, FrontLast DEF StepTypes
      <4> QED BY <2>1, <2>3, <4>1, <4>2, <4>3
    <3> QED BY <2>4, <3>1 DEF OutInv, StepOutReturns
  <2>5. CASE said' = "undefined" /\ UNCHANGED <<run, tmp, traps, busy, goal, fresh>>
    BY <2>1, <2>5 DEF OutInv, StepOutReturns, Idle
  <2> QED BY <2>2, <2>4, <2>5
<1>5. ASSUME NEW d, Select(d)
      PROVE  OutInv'
  <2>1. UNCHANGED <<pc, stk, run, busy, job, goal>> /\ run # "running" /\ (said' = said \/ said' # "step")
    BY <1>5 DEF Select, program, Idle
  <2> QED BY <1>0, <2>1 DEF OutInv, StepOutReturns
<1>6. CASE Execute
  <2>1. PICK m \in Moves : m.out = "step" /\ pc' = m.pc /\ stk' = m.stk
    BY <1>6 DEF Execute
  <2>2. /\ run = "running" /\ fresh' = FALSE /\ UNCHANGED <<run, traps, busy, job, goal>>
        /\ fresh \/ pc \notin traps
    BY <1>6 DEF Execute
  <2>3. busy
    BY <1>0, <2>2 DEF CommandInv
  <2>4. ASSUME job.op = "out", ~job.inline, job.top, goal \in traps
        PROVE  \/ job.depth <= Len(stk') /\ stk'[job.depth] = job.ret
               \/ ~fresh' /\ Len(stk') = job.depth - 1 /\ pc' = job.ret
    <3>1. /\ goal = job.ret /\ job.depth >= 1
          /\ \/ job.depth <= Len(stk) /\ stk[job.depth] = job.ret
             \/ ~fresh /\ pc = job.ret
      BY <2>2, <2>4 DEF OutInv
    <3>2. job.depth <= Len(stk) /\ stk[job.depth] = job.ret
      BY <2>2, <2>4, <3>1
    <3>3. job.depth \in Nat /\ Len(stk) \in Nat /\ Len(m.stk) \in Nat
      BY <1>0, <2>1, MoveDepth DEF StepTypes, Jobs
    <3> DEFINE d == job.depth - 1
    <3>4. d \in Nat /\ d < Len(stk) /\ d + 1 = job.depth
      BY <3>1, <3>2, <3>3
    <3>5. \/ d < Len(m.stk) /\ m.stk[d + 1] = stk[d + 1]
          \/ Len(m.stk) = d /\ m.pc = stk[d + 1]
      <4> HIDE DEF d
      <4> QED BY <1>0, <2>1, <3>4, MoveOpens DEF StepTypes
    <3> HIDE DEF d
    <3>6. d < Len(m.stk) => job.depth <= Len(m.stk)
      BY <3>3, <3>4
    <3> QED BY <2>1, <2>2, <3>2, <3>4, <3>5, <3>6 DEF d
  <2> QED BY <2>2, <2>3, <2>4 DEF OutInv, StepOutReturns
<1>7. CASE Stops
  <2>1. /\ run = "running" /\ UNCHANGED <<pc, stk>> /\ job' = job /\ run' \in {"stopped", "gone"}
        /\ \/ /\ pc = goal /\ pc \in traps
              /\ \/ job.op = "over"
                 \/ busy' = FALSE
           \/ said' # "step"
    BY <1>0, <1>7, StopCases
  <2>2. ASSUME job.op = "out", ~job.inline, job.top, said' = "step"
        PROVE  pc = job.ret /\ (Len(stk) = job.depth - 1 \/ (Len(stk) >= job.depth /\ stk[job.depth] = pc))
    <3>1. pc = goal /\ goal \in traps
      BY <2>1, <2>2
    <3>2. /\ goal = job.ret
          /\ \/ job.depth <= Len(stk) /\ stk[job.depth] = job.ret
             \/ Len(stk) = job.depth - 1
      BY <2>1, <2>2, <3>1 DEF OutInv
    <3>3. job.depth \in Nat /\ Len(stk) \in Nat
      BY <1>0, LenProperties DEF StepTypes, Jobs
    <3> QED BY <3>1, <3>2, <3>3
  <2> QED BY <2>1, <2>2 DEF OutInv, StepOutReturns
<1>8. CASE UNCHANGED vars
  BY <1>8 DEF vars, program, command, OutInv, StepOutReturns
<1> QED BY <1>2, <1>3, <1>4, <1>5, <1>6, <1>7, <1>8 DEF Next

(* While the call at or below the command's activation is open below d.    *)
LEMMA RootedKept ==
  ASSUME Base, NEW m \in Moves, m.out = "step", stk' = m.stk, job' = job,
         NEW d \in Nat, d <= Len(stk), d <= Len(stk'), Rooted(d)
  PROVE  Rooted(d)'
<1>1. PICK b \in job.over : b.depth <= job.depth /\ b.depth < d /\ Open(b)
  BY DEF Rooted
<1>2. b.depth \in Nat /\ Len(stk) \in Nat /\ Len(stk') \in Nat
  BY <1>1, MoveDepth DEF Base, StepTypes, Jobs
<1>3. b.depth < Len(stk) /\ stk[b.depth + 1] = b.at
  BY <1>1 DEF Open
<1>4. \/ b.depth < Len(m.stk) /\ m.stk[b.depth + 1] = stk[b.depth + 1]
      \/ Len(m.stk) = b.depth
  <2> DEFINE n == b.depth
  <2>1. n \in Nat /\ n < Len(stk)
    BY <1>2, <1>3
  <2> HIDE DEF n
  <2>2. \/ n < Len(m.stk) /\ m.stk[n + 1] = stk[n + 1]
        \/ Len(m.stk) = n
    BY <2>1, MoveOpens DEF Base, StepTypes
  <2> QED BY <2>2 DEF n
<1>5. Open(b)'
  BY <1>1, <1>2, <1>3, <1>4 DEF Open
<1> QED BY <1>1, <1>5 DEF Rooted

(* Where a turn of the loop of step_over may stand. *)
Within == Len(stk) <= job.depth \/ Rooted(Len(stk))

LEMMA WithinReports == StepTypes /\ Within => StepOverKeepsFrame
<1> SUFFICES ASSUME StepTypes, Within, Len(stk) > job.depth
             PROVE  \E c \in job.over : c.depth <= job.depth /\ stk[c.depth + 1] = c.at
  BY DEF StepOverKeepsFrame
<1>1. Len(stk) \in Nat /\ job.depth \in Nat
  BY LenProperties DEF StepTypes, Jobs
<1>2. Rooted(Len(stk))
  BY <1>1 DEF Within
<1> QED BY <1>2 DEF Rooted, Open

(* A single step of step_over executes no call.                            *)
LEMMA WithinKept ==
  ASSUME Base, Within, NEW m \in Moves, m.out = "step", Kind[pc] # "call",
         stk' = m.stk, job' = job
  PROVE  Within'
<1>1. /\ Len(stk) \in Nat /\ Len(stk') \in Nat /\ job.depth \in Nat
      /\ stk' = stk \/ Len(stk') = Len(stk) - 1
      /\ Kind[pc] = "ret" => \A i \in 1 .. Len(stk) - 1 : stk'[i] = stk[i]
      /\ Kind[pc] # "ret" => stk' = stk
  BY MoveDepth DEF Base, StepTypes, Jobs
<1>2. CASE Len(stk) <= job.depth
  BY <1>1, <1>2 DEF Within
<1>3. CASE Rooted(Len(stk))
  <2>1. PICK b \in job.over : b.depth <= job.depth /\ b.depth < Len(stk) /\ Open(b)
    BY <1>3 DEF Rooted
  <2>2. b.depth \in Nat
    BY <2>1 DEF Base, StepTypes, Jobs
  <2>3. CASE b.depth < Len(stk')
    <3>1. b.depth + 1 \in 1 .. Len(stk')
      BY <1>1, <2>2, <2>3
    <3>2. stk'[b.depth + 1] = stk[b.depth + 1]
      BY <1>1, <3>1
    <3>3. Open(b)'
      BY <2>1, <2>3, <3>2 DEF Open
    <3> QED BY <2>1, <2>3, <3>3 DEF Within, Rooted
  <2>4. CASE ~(b.depth < Len(stk'))
    <3>1. Len(stk') <= job.depth
      BY <1>1, <2>1, <2>2, <2>4
    <3> QED BY <3>1 DEF Within
  <2> QED BY <2>3, <2>4
<1> QED BY <1>2, <1>3 DEF Within

(* The run over the call c, made at or below the command's activation or   *)
(* inside such a call, to its return address.                              *)
Over(c) == c.at = goal /\ Inside(c) /\ (c.depth <= job.depth \/ Rooted(c.depth))

LEMMA OverKept ==
  ASSUME Base, NEW c \in job.over, Over(c), Execute, goal \in traps
  PROVE  Over(c)'
<1>1. PICK m \in Moves : m.out = "step" /\ pc' = m.pc /\ stk' = m.stk
  BY DEF Execute
<1>2. fresh' = FALSE /\ UNCHANGED <<job, goal>> /\ (fresh \/ pc \notin traps)
  BY DEF Execute
<1>3. c.depth \in Nat /\ Len(stk) \in Nat /\ Len(stk') \in Nat
  BY <1>1, MoveDepth DEF Base, StepTypes, Jobs
<1>4. /\ Len(stk) >= c.depth /\ Len(stk') >= c.depth
      /\ Inside(c)'
  <2>1. CASE fresh /\ Len(stk) = c.depth /\ Kind[pc] = "call" /\ pc + 1 = c.at
    <3>1. Len(stk') = c.depth + 1 /\ stk'[c.depth + 1] = c.at
      BY <1>1, <2>1, MoveDepth DEF Base, StepTypes
    <3>2. Open(c)'
      BY <1>3, <3>1 DEF Open
    <3> QED BY <1>3, <2>1, <3>1, <3>2 DEF Inside
  <2>2. CASE Open(c)
    <3> DEFINE n == c.depth
    <3>1. n \in Nat /\ n < Len(stk) /\ stk[n + 1] = c.at
      BY <1>3, <2>2 DEF Open
    <3> HIDE DEF n
    <3>2. \/ n < Len(m.stk) /\ m.stk[n + 1] = stk[n + 1]
          \/ Len(m.stk) = n /\ m.pc = stk[n + 1]
      BY <1>1, <3>1, MoveOpens DEF Base, StepTypes
    <3>3. Len(stk) >= n /\ Len(stk') >= n
      BY <1>1, <1>3, <3>1, <3>2
    <3>4. Open(c)' \/ (Len(stk') = n /\ pc' = c.at)
      BY <1>1, <3>1, <3>2 DEF Open, n
    <3> QED BY <1>2, <3>3, <3>4 DEF Inside, n
  <2>3. CASE ~fresh /\ Len(stk) = c.depth /\ pc = c.at
    BY <1>2, <2>3 DEF Over
  <2> QED BY <2>1, <2>2, <2>3 DEF Over, Inside
<1>5. Rooted(c.depth) => Rooted(c.depth)'
  <2> DEFINE n == c.depth
  <2>1. n \in Nat /\ n <= Len(stk) /\ n <= Len(stk')
    BY <1>3, <1>4
  <2> HIDE DEF n
  <2>2. Rooted(n) => Rooted(n)'
    BY <1>1, <1>2, <2>1, RootedKept
  <2> QED BY <2>2 DEF n
<1> QED BY <1>2, <1>4, <1>5 DEF Over

LEMMA OverWithin ==
  ASSUME Base, NEW c \in job.over, Over(c), pc = goal
  PROVE  Within
<1>1. c.depth \in Nat /\ job.depth \in Nat /\ Len(stk) \in Nat
  BY LenProperties DEF Base, StepTypes, Jobs
<1>2. CASE Open(c)
  <2>1. c.depth < Len(stk)
    BY <1>2 DEF Open
  <2>2. CASE c.depth <= job.depth
    BY <1>2, <2>1, <2>2 DEF Within, Rooted
  <2>3. CASE Rooted(c.depth)
    <3>1. PICK b \in job.over : b.depth <= job.depth /\ b.depth < c.depth /\ Open(b)
      BY <2>3 DEF Rooted
    <3>2. b.depth < Len(stk)
      BY <3>1 DEF Open
    <3> QED BY <3>1, <3>2 DEF Within, Rooted
  <2> QED BY <2>2, <2>3 DEF Over
<1>3. CASE Len(stk) = c.depth
  BY <1>1, <1>3 DEF Over, Within
<1> QED BY <1>2, <1>3 DEF Over, Inside

LEMMA OverStep == Base /\ OverInv /\ [Next]_vars => OverInv'
<1> SUFFICES ASSUME Base, OverInv, [Next]_vars PROVE OverInv'
  OBVIOUS
<1>0. StepTypes /\ CommandInv /\ StepOverKeepsFrame /\ busy \in BOOLEAN
  BY DEF Base, OverInv, StepTypes
<1>9. Within' => StepOverKeepsFrame'
  <2>1. StepTypes'
    BY BaseStep DEF Base
  <2>2. StepTypes' /\ Within' => StepOverKeepsFrame'
    BY WithinReports, PTL
  <2> QED BY <2>1, <2>2
<1>1. ASSUME NEW op \in {"in", "out", "continue", "stepi"}, NEW inline \in BOOLEAN, job' = Job(op, inline)
      PROVE  OverInv'
  <2>1. job'.op = op
    BY <1>0, <1>1, NewJob
  <2> QED BY <2>1 DEF OverInv, StepOverKeepsFrame
<1>2. CASE StepInInlined \/ BeginStep("in") \/ Continue \/ StepInstruction \/ StepOut
  BY <1>0, <1>1, <1>2, OutCases DEF StepInInlined, BeginStep, Continue, StepInstruction
<1>3. CASE BeginStep("over")
  <2>1. busy' = TRUE /\ UNCHANGED <<stk, run>> /\ run = "stopped" /\ job' = Job("over", FALSE)
    BY <1>3 DEF BeginStep, program, Idle
  <2>2. Len(stk') <= job'.depth
    <3>1. Len(stk) \in Nat
      BY <1>0, LenProperties DEF StepTypes
    <3>2. job'.depth = Len(stk)
      BY <1>0, <2>1, JobTypes DEF StepTypes
    <3>3. stk' = stk
      BY <2>1
    <3> QED BY <3>1, <3>2, <3>3
  <2> QED BY <2>1, <2>2 DEF OverInv, StepOverKeepsFrame
<1>4. CASE StepIteration
  <2>0. busy /\ run = "stopped"
    BY <1>4, IterationCases
  <2>1. CASE /\ job.op = "over" /\ SkipTo # 0 /\ RunUntil(SkipTo)
             /\ job' = [job EXCEPT !.block = @ \/ AtBlock,
                                   !.over = IF AtBlock THEN @ ELSE @ \cup {[at |-> SkipTo, depth |-> Len(stk)]}]
             /\ UNCHANGED <<pc, stk, stack, busy, said>>
    <3>1. run' = "running" /\ goal' = SkipTo /\ fresh' = TRUE
      BY <2>1 DEF RunUntil
    <3>2. /\ job'.depth = job.depth /\ (job'.block <=> job.block \/ AtBlock)
          /\ ~AtBlock => job'.over = job.over \cup {[at |-> SkipTo, depth |-> Len(stk)]}
      <4> HIDE DEF AtBlock, SkipTo
      <4> QED BY <1>0, <2>1 DEF StepTypes, Jobs
    <3>3. ASSUME ~job'.block
          PROVE  \E c \in job'.over :
                   c.at = goal' /\ Inside(c)' /\ (c.depth <= job'.depth \/ Rooted(c.depth)')
      <4>1. ~AtBlock /\ ~job.block
        BY <3>2, <3>3
      <4>2. PICK c \in job'.over : c.at = SkipTo /\ c.depth = Len(stk)
        <5> HIDE DEF SkipTo, AtBlock
        <5> DEFINE c == [at |-> SkipTo, depth |-> Len(stk)]
        <5>1. c.at = SkipTo /\ c.depth = Len(stk)
          OBVIOUS
        <5>2. job'.over = job.over \cup {c}
          BY <3>2, <4>1
        <5> HIDE DEF c
        <5> QED BY <5>1, <5>2
      <4>3. Kind[pc] = "call" /\ pc + 1 = c.at
        BY <1>0, <2>0, <2>1, <4>1, <4>2, SkipKinds
      <4> HIDE DEF SkipTo, AtBlock
      <4>4. Inside(c)'
        BY <2>1, <3>1, <4>2, <4>3 DEF Inside
      <4>5. Len(stk) <= job.depth \/ Rooted(Len(stk))
        BY <2>0, <2>1, <4>1 DEF OverInv
      <4>6. Rooted(Len(stk)) => Rooted(c.depth)'
        BY <2>1, <3>2, <4>1, <4>2 DEF Rooted, Open
      <4>7. c.at = goal'
        BY <3>1, <4>2
      <4> QED BY <3>2, <4>2, <4>4, <4>5, <4>6, <4>7
    <3> QED BY <2>0, <2>1, <3>1, <3>3 DEF OverInv, StepOverKeepsFrame
  <2>2. ASSUME NEW m \in Moves, job.op = "in", EnterFunction(m)
        PROVE  OverInv'
    <3>1. job' = [job EXCEPT !.past = NextRow(m.pc)]
      BY <2>2 DEF EnterFunction
    <3>2. job'.op = "in"
      BY <1>0, <2>2, <3>1 DEF StepTypes, Jobs
    <3> QED BY <3>2 DEF OverInv, StepOverKeepsFrame
  <2>3. ASSUME NEW m \in Moves, ~(job.op = "over" /\ SkipTo # 0), SingleStep(m)
        PROVE  OverInv'
    <3>1. stk' = m.stk /\ run' # "running"
      BY <2>3 DEF SingleStep, Move
    <3>2. \/ job' = job /\ busy' = busy /\ m.out = "step"
          \/ job' = job /\ busy' = FALSE /\ (said' = "step" => m.out = "step")
      <4>1. CASE UNCHANGED command /\ m.out = "step"
        BY <4>1 DEF command
      <4>2. CASE Return(StepReason(m), m.pc, m.stk)
        BY <4>2, Returned, StepReported
      <4> QED BY <2>3, <4>1, <4>2 DEF SingleStep
    <3>3. ASSUME job.op = "over", ~job.block, m.out = "step"
          PROVE  Within'
      <4>1. Within
        BY <2>0, <3>3 DEF OverInv, Within
      <4>2. Kind[pc] # "call"
        BY <1>0, <2>0, <2>3, <3>3, SkipKinds
      <4> QED BY <3>1, <3>2, <3>3, <4>1, <4>2, WithinKept
    <3>4. ASSUME job'.op = "over", ~job'.block, m.out = "step"
          PROVE  StepOverKeepsFrame' /\ Within'
      <4>1. Within'
        BY <3>2, <3>3, <3>4
      <4> QED BY <1>9, <4>1
    <3>5. m.out # "step" => busy' = FALSE /\ said' # "step"
      BY <3>2
    <3>6. StepOverKeepsFrame'
      BY <3>4, <3>5 DEF StepOverKeepsFrame
    <3>7. m.out # "step" => ~busy'
      BY <3>5
    <3> QED BY <3>1, <3>4, <3>6, <3>7 DEF OverInv, Within
  <2> QED BY <1>4, <2>1, <2>2, <2>3, IterationCases
<1>5. ASSUME NEW d, Select(d)
      PROVE  OverInv'
  <2>1. UNCHANGED <<pc, stk, run, busy, job, goal>> /\ run # "running" /\ ~busy /\ (said' = said \/ said' # "step")
    BY <1>5 DEF Select, program, Idle
  <2> QED BY <1>0, <2>1 DEF OverInv, StepOverKeepsFrame
<1>6. CASE Execute
  <2>1. run = "running" /\ UNCHANGED <<run, traps, busy, job, goal>>
    BY <1>6 DEF Execute
  <2>2. busy
    BY <1>0, <2>1 DEF CommandInv
  <2>3. ASSUME job.op = "over", ~job.block, goal \in traps
        PROVE  \E c \in job.over : Over(c)'
    <3>1. PICK c \in job.over : Over(c)
      BY <2>1, <2>3 DEF OverInv, Over
    <3> QED BY <1>6, <2>3, <3>1, OverKept
  <2> QED BY <2>1, <2>2, <2>3 DEF OverInv, StepOverKeepsFrame, Over
<1>7. CASE Stops
  <2>1. /\ run = "running" /\ UNCHANGED <<pc, stk>> /\ job' = job /\ run' \in {"stopped", "gone"}
        /\ \/ /\ pc = goal /\ pc \in traps
              /\ \/ busy' = busy
                 \/ busy' = FALSE
           \/ busy' = FALSE /\ said' # "step"
    BY <1>0, <1>7, StopCases
  <2>2. ASSUME job.op = "over", ~job.block, pc = goal, pc \in traps
        PROVE  Within
    <3>1. PICK c \in job.over : Over(c)
      BY <2>1, <2>2 DEF OverInv, Over
    <3> QED BY <2>2, <3>1, OverWithin
  <2>3. Within => Within' /\ StepOverKeepsFrame'
    <3>1. Within => Within'
      BY <2>1 DEF Within, Rooted, Open
    <3> QED BY <1>9, <3>1
  <2>4. busy
    BY <1>0, <2>1 DEF CommandInv
  <2> QED BY <2>1, <2>2, <2>3, <2>4 DEF OverInv, StepOverKeepsFrame, Within
<1>8. CASE UNCHANGED vars
  BY <1>8 DEF vars, program, command, OverInv, StepOverKeepsFrame, Inside, Open, Rooted
<1> QED BY <1>2, <1>3, <1>4, <1>5, <1>6, <1>7, <1>8 DEF Next

-------------------------------------------------------------------------------
(* The theorems. *)

LEMMA StepInvInit == Init => StepInv
<1> SUFFICES ASSUME Init PROVE StepInv
  OBVIOUS
<1>1. StepTypes /\ CommandInv /\ TrapsInv
  BY InitBase DEF Base
<1>2. job.op = "continue" /\ run = "stopped"
  <2>1. pc \in Addr /\ stk \in Seq(Returns) /\ job = Job("continue", FALSE) /\ run = "stopped"
    BY <1>1 DEF Init, StepTypes
  <2> QED BY <2>1, JobTypes
<1>3. MovesInv /\ OverInv /\ OutInv
  BY <1>2 DEF MovesInv, StepMoves, OverInv, StepOverKeepsFrame, OutInv, StepOutReturns
<1> QED BY <1>1, <1>3 DEF StepInv

LEMMA StepInvNext == StepInv /\ [Next]_vars => StepInv'
BY BaseStep, MovesStep, OverStep, OutStep, Zenon DEF StepInv, Base

LEMMA StepInvariant == Spec => []StepInv
BY StepInvInit, StepInvNext, PTL DEF Spec

(* Whichever stop ends a command of target, run_until_address has removed  *)
(* its temporary site: the traps are those of the user's enabled sites.    *)
THEOREM TemporaryIsGone == Spec => []TemporaryGone
<1>1. StepInv => TemporaryGone
  BY DEF StepInv, TrapsInv, Enabled, TemporaryGone
<1> QED BY <1>1, StepInvariant, PTL

(* A step_in or step_over that is reported as done has left its row or its *)
(* activation, or has run past a prologue to the end it aimed at.          *)
THEOREM StepsMove == Spec => []StepMoves
<1>1. StepInv => StepMoves
  BY DEF StepInv, MovesInv
<1> QED BY <1>1, StepInvariant, PTL

(* step_over ends in its own activation or a caller's; deeper only inside  *)
(* a call it stepped over that came back to the site by recursion.         *)
THEOREM StepOverKeeps == Spec => []StepOverKeepsFrame
<1>1. StepInv => StepOverKeepsFrame
  BY DEF StepInv, OverInv
<1> QED BY <1>1, StepInvariant, PTL

(* step_out from the innermost frame ends at the return address of that    *)
(* activation, after it has returned or, by recursion, in a deeper one.    *)
THEOREM StepOutIsExact == Spec => []StepOutReturns
<1>1. StepInv => StepOutReturns
  BY DEF StepInv, OutInv
<1> QED BY <1>1, StepInvariant, PTL

===============================================================================
