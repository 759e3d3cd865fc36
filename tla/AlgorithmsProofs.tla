---------------------------- MODULE AlgorithmsProofs ----------------------------
(***************************************************************************)
(* Proofs about the pure algorithms: what read_memory and write_memory do  *)
(* to a region of any length and alignment, which entry the search of      *)
(* .eh_frame_hdr finds in a table of any length, and which row the lookup  *)
(* of an address in a line table finds.                                    *)
(*                                                                         *)
(* A recursive function is shown to exist by giving its value outright     *)
(* (UpTo, AfterWords, Split) or turn by turn (RunExists); that it has that *)
(* value is shown by a smallest counterexample.                            *)
(***************************************************************************)
EXTENDS MCAlgorithms, WellFoundedInduction, TLAPS

-------------------------------------------------------------------------------
(* Natural numbers. *)

(* A set of naturals has a smallest member. *)
LEMMA NatMin ==
  ASSUME NEW T, T \subseteq Nat, T # {}
  PROVE  \E m \in T : \A k \in T : m <= k
<1> DEFINE R == OpToRel(<, Nat)
<1>1. PICK m \in T : \A k \in T : ~ (<<k, m>> \in R)
  <2>1. IsWellFoundedOn(R, Nat)
    BY NatLessThanWellFounded
  <2> HIDE DEF R
  <2> QED BY <2>1, WFMin
<1>2. ASSUME NEW k \in T PROVE m <= k
  <2>1. <<k, m>> \notin R
    BY <1>1
  <2>2. k \in Nat /\ m \in Nat
    OBVIOUS
  <2>3. ~(k < m)
    BY <2>1, <2>2 DEF OpToRel
  <2> QED BY <2>2, <2>3
<1> QED BY <1>2

(* Numbers on one page have one quotient. *)
LEMMA SamePage ==
  ASSUME NEW P \in Nat \ {0}, NEW x \in Nat, NEW j \in Nat, j < P - (x % P)
  PROVE  (x + j) \div P = x \div P
<1> DEFINE q == x \div P
           r == x % P
           u == (x + j) \div P
           v == (x + j) % P
<1>1. q \in Int /\ r \in 0 .. P - 1 /\ x = P * q + r
  OBVIOUS
<1>2. u \in Int /\ v \in 0 .. P - 1 /\ x + j = P * u + v
  OBVIOUS
<1>3. r + j < P
  BY <1>1
<1> HIDE DEF q, r, u, v
<1>4. P * u + v = P * q + (r + j)
  BY <1>1, <1>2
<1>5. ~(u < q)
  BY <1>1, <1>2, <1>3, <1>4
<1>6. ~(q < u)
  BY <1>1, <1>2, <1>3, <1>4
<1> QED BY <1>1, <1>2, <1>5, <1>6 DEF q, u

-------------------------------------------------------------------------------
(* read_memory. *)

(* m of the amount bytes from at are there, and not the one behind them. *)
UpTo(pages, at, amount, m) ==
  /\ m \in 0 .. amount /\ Mapped(pages, at, m)
  /\ m < amount => ~Mapped(pages, at, m + 1)

LEMMA MappedLess ==
  ASSUME NEW pages, NEW at, NEW m \in Nat, NEW k \in Nat, k <= m, Mapped(pages, at, m)
  PROVE  Mapped(pages, at, k)
<1>1. 0 .. k - 1 \subseteq 0 .. m - 1
  OBVIOUS
<1> QED BY <1>1 DEF Mapped

(* Bytes and the bytes behind them. *)
LEMMA MappedSum ==
  ASSUME NEW pages, NEW at \in Nat, NEW m \in Nat, NEW k \in Nat
  PROVE  Mapped(pages, at, m + k) <=> Mapped(pages, at, m) /\ Mapped(pages, at + m, k)
<1>1. ASSUME Mapped(pages, at, m + k) PROVE Mapped(pages, at, m) /\ Mapped(pages, at + m, k)
  <2>1. Mapped(pages, at, m)
    BY <1>1, MappedLess
  <2>2. ASSUME NEW i \in 0 .. k - 1 PROVE (at + m + i) \div PageSize \in pages
    <3>1. m + i \in 0 .. (m + k) - 1 /\ at + (m + i) = at + m + i
      OBVIOUS
    <3>2. (at + (m + i)) \div PageSize \in pages
      BY <1>1, <3>1 DEF Mapped
    <3> QED BY <3>1, <3>2
  <2> QED BY <2>1, <2>2 DEF Mapped
<1>2. ASSUME Mapped(pages, at, m), Mapped(pages, at + m, k) PROVE Mapped(pages, at, m + k)
  <2> SUFFICES ASSUME NEW i \in 0 .. (m + k) - 1 PROVE (at + i) \div PageSize \in pages
    BY DEF Mapped
  <2>1. CASE i < m
    <3>1. i \in 0 .. m - 1
      BY <2>1
    <3> QED BY <1>2, <3>1 DEF Mapped
  <2>2. CASE ~(i < m)
    <3>1. i - m \in 0 .. k - 1 /\ at + m + (i - m) = at + i
      BY <2>2
    <3>2. (at + m + (i - m)) \div PageSize \in pages
      BY <1>2, <3>1 DEF Mapped
    <3> QED BY <3>1, <3>2
  <2> QED BY <2>1, <2>2
<1> QED BY <1>1, <1>2

LEMMA UpToUnique ==
  ASSUME NEW pages, NEW at, NEW amount \in Nat, NEW m, NEW k,
         UpTo(pages, at, amount, m), UpTo(pages, at, amount, k)
  PROVE  m = k
<1>1. m \in 0 .. amount /\ k \in 0 .. amount
  BY DEF UpTo
<1>2. ~(m < k)
  <2> SUFFICES ASSUME m < k PROVE FALSE
    OBVIOUS
  <2>1. m + 1 \in Nat /\ m + 1 <= k /\ k \in Nat /\ m < amount
    BY <1>1
  <2>2. Mapped(pages, at, m + 1)
    BY <2>1, MappedLess DEF UpTo
  <2> QED BY <2>1, <2>2 DEF UpTo
<1>3. ~(k < m)
  <2> SUFFICES ASSUME k < m PROVE FALSE
    OBVIOUS
  <2>1. k + 1 \in Nat /\ k + 1 <= m /\ m \in Nat /\ k < amount
    BY <1>1
  <2>2. Mapped(pages, at, k + 1)
    BY <2>1, MappedLess DEF UpTo
  <2> QED BY <2>1, <2>2 DEF UpTo
<1> QED BY <1>1, <1>2, <1>3

LEMMA UpToExists ==
  ASSUME NEW pages, NEW at, NEW amount \in Nat
  PROVE  \E m : UpTo(pages, at, amount, m)
<1> DEFINE Missing == {k \in 1 .. amount : ~Mapped(pages, at, k)}
<1>1. CASE Missing = {}
  <2>1. Mapped(pages, at, amount)
    <3>1. CASE amount = 0
      BY <3>1 DEF Mapped
    <3>2. CASE amount # 0
      BY <1>1, <3>2
    <3> QED BY <3>1, <3>2
  <2>2. UpTo(pages, at, amount, amount)
    BY <2>1 DEF UpTo
  <2> QED BY <2>2
<1>2. CASE Missing # {}
  <2>1. PICK k \in Missing : \A l \in Missing : k <= l
    <3>1. Missing \subseteq Nat
      OBVIOUS
    <3> HIDE DEF Missing
    <3> QED BY <1>2, <3>1, NatMin
  <2>2. k \in 1 .. amount /\ k - 1 \in 0 .. amount /\ (k - 1) + 1 = k /\ ~(k <= k - 1)
    BY <2>1
  <2>3. Mapped(pages, at, k - 1)
    <3>1. CASE k - 1 = 0
      BY <3>1 DEF Mapped
    <3>2. CASE k - 1 # 0
      <4>1. k - 1 \in 1 .. amount
        BY <2>2, <3>2
      <4> QED BY <2>1, <2>2, <4>1
    <3> QED BY <3>1, <3>2
  <2>4. UpTo(pages, at, amount, k - 1)
    BY <2>1, <2>2, <2>3 DEF UpTo
  <2> QED BY <2>4
<1> QED BY <1>1, <1>2

(* One piece of the region, from at to the end of the page. *)
Piece(at, amount) ==
  LET up_to_next_page == PageSize - (at % PageSize)
  IN  IF amount < up_to_next_page THEN amount ELSE up_to_next_page

LEMMA PieceMoves ==
  ASSUME PageSize \in Nat \ {0}, NEW pages, NEW at \in Nat, NEW amount \in Nat, amount # 0
  PROVE  LET c == Piece(at, amount)
         IN  /\ c \in 1 .. amount
             /\ Mapped(pages, at, 1) => Mapped(pages, at, c)
<1> DEFINE c == Piece(at, amount)
           left == PageSize - (at % PageSize)
<1>1. left \in Nat /\ left >= 1
  <2>1. at % PageSize \in 0 .. PageSize - 1
    OBVIOUS
  <2> QED BY <2>1
<1>2. c \in 1 .. amount /\ c <= left
  <2> HIDE DEF left
  <2> QED BY <1>1 DEF Piece, left
<1>3. ASSUME Mapped(pages, at, 1) PROVE Mapped(pages, at, c)
  <2> HIDE DEF c
  <2> SUFFICES ASSUME NEW i \in 0 .. c - 1 PROVE (at + i) \div PageSize \in pages
    BY DEF Mapped
  <2>1. i \in Nat /\ i < left
    BY <1>1, <1>2
  <2>2. (at + i) \div PageSize = at \div PageSize
    BY <2>1, SamePage
  <2>3. (at + 0) \div PageSize \in pages
    BY <1>3 DEF Mapped
  <2>4. at + 0 = at
    OBVIOUS
  <2> QED BY <2>2, <2>3, <2>4
<1> QED BY <1>2, <1>3

(* A turn of the loop, given what the rest of the region moves. *)
LEMMA TurnMoves ==
  ASSUME PageSize \in Nat \ {0}, NEW pages, NEW at \in Nat, NEW amount \in Nat, NEW rest,
         LET c == Piece(at, amount)
         IN  amount # 0 => UpTo(pages, at + c, amount - c, rest)
  PROVE  LET c == Piece(at, amount)
         IN  UpTo(pages, at, amount, IF amount = 0 \/ ~Mapped(pages, at, c) THEN 0 ELSE c + rest)
<1> DEFINE c == Piece(at, amount)
<1>1. CASE amount = 0
  <2>1. Mapped(pages, at, 0) /\ 0 \in 0 .. amount /\ ~(0 < amount)
    BY <1>1 DEF Mapped
  <2> QED BY <1>1, <2>1 DEF UpTo
<1>2. CASE amount # 0
  <2>1. c \in 1 .. amount /\ (Mapped(pages, at, 1) => Mapped(pages, at, c))
    BY <1>2, PieceMoves
  <2>2. UpTo(pages, at + c, amount - c, rest)
    BY <1>2
  <2> HIDE DEF c
  <2>3. CASE ~Mapped(pages, at, c)
    <3>1. Mapped(pages, at, 0) /\ 0 \in 0 .. amount /\ 0 + 1 = 1
      BY DEF Mapped
    <3>2. ~Mapped(pages, at, 1)
      BY <2>1, <2>3
    <3>3. UpTo(pages, at, amount, 0)
      BY <3>1, <3>2 DEF UpTo
    <3> QED BY <2>3, <3>3 DEF c
  <2>4. CASE Mapped(pages, at, c)
    <3>1. /\ rest \in 0 .. amount - c /\ Mapped(pages, at + c, rest)
          /\ rest < amount - c => ~Mapped(pages, at + c, rest + 1)
      BY <2>2 DEF UpTo
    <3>2. /\ c \in Nat /\ rest \in Nat /\ rest + 1 \in Nat /\ c + rest \in 0 .. amount
          /\ c + (rest + 1) = (c + rest) + 1
          /\ c + rest < amount => rest < amount - c
      BY <2>1, <3>1
    <3>3. Mapped(pages, at, c + rest)
      BY <2>4, <3>1, <3>2, MappedSum
    <3>4. c + rest < amount => ~Mapped(pages, at, c + (rest + 1))
      BY <3>1, <3>2, MappedSum
    <3>5. UpTo(pages, at, amount, c + rest)
      BY <3>2, <3>3, <3>4 DEF UpTo
    <3> QED BY <1>2, <2>4, <3>5 DEF c
  <2> QED BY <2>3, <2>4
<1> QED BY <1>1, <1>2

(* The recursive function of Moved. *)
Moves(pages, a, n, f) ==
  [amount \in 0 .. n |->
     LET at             == a + n - amount
         up_to_next_page == PageSize - (at % PageSize)
         chunk_size     == IF amount < up_to_next_page THEN amount ELSE up_to_next_page
     IN  IF amount = 0 \/ ~Mapped(pages, at, chunk_size) THEN 0
         ELSE chunk_size + f[amount - chunk_size]]

(* read_memory gets the bytes before the first that is not there. *)
LEMMA MovedExact ==
  ASSUME PageSize \in Nat \ {0}, NEW pages, NEW a \in Nat, NEW n \in Nat
  PROVE  UpTo(pages, a, n, Moved(pages, a, n))
<1> DEFINE At(k) == a + n - k
           C(k) == Piece(At(k), k)
           Turn(f, k) == IF k = 0 \/ ~Mapped(pages, At(k), C(k)) THEN 0 ELSE C(k) + f[k - C(k)]
           F == CHOOSE f : f = Moves(pages, a, n, f)
<1>1. ASSUME NEW f PROVE Moves(pages, a, n, f) = [k \in 0 .. n |-> Turn(f, k)]
  BY DEF Moves, Piece
<1>2. ASSUME NEW f, NEW k \in 0 .. n, k # 0 => UpTo(pages, At(k - C(k)), k - C(k), f[k - C(k)])
      PROVE  UpTo(pages, At(k), k, Turn(f, k))
  <2>1. k \in Nat /\ At(k) \in Nat
    OBVIOUS
  <2>2. k # 0 => C(k) \in 1 .. k
    BY <2>1, PieceMoves
  <2>3. k # 0 => At(k - C(k)) = At(k) + C(k)
    <3> HIDE DEF C
    <3> QED BY <2>2
  <2> DEFINE rest == f[k - C(k)]
             x == At(k)
  <2>4. k # 0 => UpTo(pages, x + C(k), k - C(k), rest)
    <3> HIDE DEF C
    <3> QED BY <1>2, <2>3
  <2> HIDE DEF rest, x, At
  <2>5. UpTo(pages, x, k, IF k = 0 \/ ~Mapped(pages, x, Piece(x, k)) THEN 0 ELSE Piece(x, k) + rest)
    BY <2>1, <2>4, TurnMoves DEF x
  <2> QED BY <2>5 DEF x, rest
<1>3. \A k \in 1 .. n : C(k) \in 1 .. k /\ k - C(k) \in 0 .. n /\ k - C(k) < k
  <2> SUFFICES ASSUME NEW k \in 1 .. n PROVE C(k) \in 1 .. k
    <3> HIDE DEF C
    <3> QED OBVIOUS
  <2>1. k \in Nat /\ At(k) \in Nat /\ k # 0
    OBVIOUS
  <2> HIDE DEF At
  <2> QED BY <2>1, PieceMoves
<1> HIDE DEF C
<1>4. F = Moves(pages, a, n, F)
  <2> DEFINE G == [k \in 0 .. n |-> CHOOSE m : UpTo(pages, At(k), k, m)]
  <2>1. ASSUME NEW k \in 0 .. n PROVE UpTo(pages, At(k), k, G[k])
    <3>1. \E m : UpTo(pages, At(k), k, m)
      BY UpToExists
    <3> QED BY <3>1
  <2> HIDE DEF G
  <2>2. ASSUME NEW k \in 0 .. n PROVE G[k] = Turn(G, k)
    <3>1. k # 0 => UpTo(pages, At(k - C(k)), k - C(k), G[k - C(k)])
      BY <1>3, <2>1
    <3>2. UpTo(pages, At(k), k, Turn(G, k))
      BY <1>2, <3>1
    <3> HIDE DEF Turn, At
    <3> QED BY <2>1, <3>2, UpToUnique
  <2>3. G = [k \in 0 .. n |-> G[k]]
    BY DEF G
  <2>4. G = Moves(pages, a, n, G)
    <3>1. Moves(pages, a, n, G) = [k \in 0 .. n |-> Turn(G, k)]
      BY <1>1
    <3> HIDE DEF Turn
    <3> QED BY <2>2, <2>3, <3>1
  <2> QED BY <2>4
<1> HIDE DEF F
<1>5. \A k \in 0 .. n : F[k] = Turn(F, k)
  BY <1>1, <1>4
<1> DEFINE Bad == {k \in 0 .. n : ~UpTo(pages, At(k), k, F[k])}
<1>6. Bad = {}
  <2> SUFFICES ASSUME Bad # {} PROVE FALSE
    OBVIOUS
  <2>1. PICK k \in Bad : \A l \in Bad : k <= l
    <3>1. Bad \subseteq Nat
      OBVIOUS
    <3> HIDE DEF Bad
    <3> QED BY <3>1, NatMin
  <2>2. k \in 0 .. n /\ ~UpTo(pages, At(k), k, F[k])
    BY <2>1
  <2>3. k # 0 => k - C(k) \notin Bad /\ k - C(k) \in 0 .. n
    <3>1. k # 0 => k \in 1 .. n
      BY <2>2
    <3>2. k # 0 => k - C(k) \in 0 .. n /\ ~(k <= k - C(k))
      BY <1>3, <3>1
    <3> HIDE DEF Bad
    <3> QED BY <2>1, <3>2
  <2>4. k # 0 => UpTo(pages, At(k - C(k)), k - C(k), F[k - C(k)])
    BY <2>3
  <2>5. UpTo(pages, At(k), k, Turn(F, k))
    BY <1>2, <2>2, <2>4
  <2> QED BY <1>5, <2>2, <2>5
<1>7. UpTo(pages, At(n), n, F[n])
  BY <1>6
<1>8. Moved(pages, a, n) = F[n] /\ At(n) = a
  BY DEF Moved, Moves, F
<1> QED BY <1>7, <1>8

(* read_memory returns the bytes of its region up to the first page that   *)
(* is missing and zeros behind it, and throws only if the first page is    *)
(* missing, for every length, alignment and set of pages.                  *)
THEOREM ReadIsExact ==
  ASSUME PageSize \in Nat \ {0}, NEW mem, NEW pages, NEW a \in Nat, NEW n \in Nat
  PROVE  ReadAgrees(mem, pages, a, n)
<1> DEFINE m == Moved(pages, a, n)
<1>1. UpTo(pages, a, n, m)
  BY MovedExact
<1> HIDE DEF m
<1>2. m \in 0 .. n /\ Mapped(pages, a, m) /\ (m < n => ~Mapped(pages, a, m + 1))
  BY <1>1 DEF UpTo
<1>3. (n > 0 /\ m = 0) <=> (n > 0 /\ a \div PageSize \notin pages)
  <2>1. Mapped(pages, a, 1) <=> a \div PageSize \in pages
    <3>1. \A i \in 0 .. 1 - 1 : i = 0
      OBVIOUS
    <3>2. a + 0 = a /\ 0 \in 0 .. 1 - 1
      OBVIOUS
    <3> QED BY <3>1, <3>2 DEF Mapped
  <2>2. m # 0 => Mapped(pages, a, 1)
    <3>1. m # 0 => 1 <= m /\ m \in Nat
      BY <1>2
    <3> QED BY <1>2, <3>1, MappedLess
  <2>3. m = 0 => m + 1 = 1
    OBVIOUS
  <2> QED BY <1>2, <2>1, <2>2, <2>3
<1>4. ASSUME NEW i \in 0 .. n - 1 PROVE i < m <=> Mapped(pages, a, i + 1)
  <2>1. i < m => Mapped(pages, a, i + 1)
    <3>1. i < m => i + 1 <= m /\ i + 1 \in Nat /\ m \in Nat
      BY <1>2
    <3> QED BY <1>2, <3>1, MappedLess
  <2>2. ~(i < m) => ~Mapped(pages, a, i + 1)
    <3>1. ~(i < m) => m + 1 <= i + 1 /\ m + 1 \in Nat /\ i + 1 \in Nat /\ m < n
      BY <1>2
    <3> QED BY <1>2, <3>1, MappedLess
  <2> QED BY <2>1, <2>2
<1> QED BY <1>3, <1>4 DEF ReadAgrees, ReadMemory, m

-------------------------------------------------------------------------------
(* write_memory. *)

(* Words of W bytes: the k-th has the numbers with the quotient k - 1. *)
LEMMA WordOf ==
  ASSUME NEW W \in Nat \ {0}, NEW i \in Nat, NEW k \in Nat \ {0}
  PROVE  i \in (k - 1) * W .. (k - 1) * W + W - 1 <=> i \div W = k - 1
<1> DEFINE q == i \div W
           r == i % W
<1>1. q \in Int /\ r \in 0 .. W - 1 /\ i = W * q + r
  OBVIOUS
<1>2. q \in Nat
  OBVIOUS
<1> HIDE DEF q, r
<1>3. k - 1 \in Nat
  OBVIOUS
<1> DEFINE j == k - 1
<1>4. k = j + 1 /\ j \in Nat
  BY <1>3
<1> HIDE DEF j
<1>5. j * W \in Nat /\ k * W = j * W + W /\ k * W \in Nat
  <2>1. (j + 1) * W = j * W + W
    BY <1>4
  <2>2. j * W \in Nat
    BY <1>4
  <2> QED BY <1>4, <2>1, <2>2
<1>6. W * q = q * W
  BY <1>2
<1>7. q = j => i \in j * W .. j * W + W - 1
  BY <1>1, <1>5, <1>6
<1>8. i \in j * W .. j * W + W - 1 => q = j
  <2> SUFFICES ASSUME i >= j * W, i < j * W + W PROVE q = j
    BY <1>5
  <2>1. ~(q < j)
    BY <1>1, <1>2, <1>4
  <2>2. ~(j < q)
    BY <1>1, <1>2, <1>4
  <2> QED BY <1>2, <1>4, <2>1, <2>2
<1>9. i = q * W + r
  BY <1>1, <1>6
<1>10. i \in j * W .. j * W + W - 1 <=> q = j
  BY <1>7, <1>8
<1> QED BY <1>10, Zenon DEF q, j

(* The k-th word ends where the next one begins. *)
LEMMA WordEnds ==
  ASSUME NEW W \in Nat \ {0}, NEW k \in Nat \ {0}
  PROVE  (k - 1) * W \in Nat /\ k * W \in Nat /\ k * W = (k - 1) * W + W
<1>1. k - 1 \in Nat
  OBVIOUS
<1> DEFINE j == k - 1
<1>2. k = j + 1 /\ j \in Nat
  BY <1>1
<1> HIDE DEF j
<1>3. (j + 1) * W = j * W + W
  BY <1>2
<1>4. j * W \in Nat
  BY <1>2
<1>5. j * W \in Nat /\ k * W \in Nat /\ k * W = j * W + W
  BY <1>2, <1>3, <1>4
<1> QED BY <1>5, Zenon DEF j

LEMMA WordNumber ==
  ASSUME NEW W \in Nat \ {0}, NEW i \in Nat
  PROVE  i \div W \in Nat
  OBVIOUS

(* The number of words that write_memory writes. *)
LEMMA Words ==
  ASSUME NEW W \in Nat \ {0}, NEW n \in Nat
  PROVE  LET K == (n + W - 1) \div W
         IN  /\ K \in Nat /\ (n = 0 => K = 0)
             /\ n > 0 => (n - 1) \div W = K - 1
             /\ \A i \in 0 .. n - 1 : i \div W < K
<1> DEFINE K == (n + W - 1) \div W
           r == (n + W - 1) % W
<1>1. K \in Int /\ r \in 0 .. W - 1 /\ n + W - 1 = W * K + r
  OBVIOUS
<1>2. K \in Nat
  OBVIOUS
<1> HIDE DEF K, r
<1>3. n = 0 => K = 0
  <2> SUFFICES ASSUME n = 0, K # 0 PROVE FALSE
    OBVIOUS
  <2>1. W * K + r = W - 1 /\ K >= 1
    BY <1>1, <1>2
  <2> QED BY <1>1, <1>2, <2>1
<1>4. ASSUME n > 0 PROVE (n - 1) \div W = K - 1
  <2>1. K # 0
    BY <1>1, <1>4
  <2>2. n - 1 \in Nat /\ K \in Nat \ {0} /\ n - 1 = (K - 1) * W + r
    <3>1. (K - 1) * W = W * K - W
      BY <1>2
    <3> QED BY <1>1, <1>2, <1>4, <2>1, <3>1
  <2>3. n - 1 \in (K - 1) * W .. (K - 1) * W + W - 1
    <3>1. (K - 1) * W \in Nat
      BY <2>2, WordEnds
    <3> QED BY <1>1, <2>2, <3>1
  <2>4. n - 1 \in (K - 1) * W .. (K - 1) * W + W - 1 <=> (n - 1) \div W = K - 1
    <3>1. n - 1 \in Nat /\ K \in Nat \ {0}
      BY <2>2
    <3> QED BY <3>1, WordOf, Zenon
  <2> QED BY <2>3, <2>4, Zenon
<1>5. ASSUME NEW i \in 0 .. n - 1 PROVE i \div W < K
  <2> DEFINE q == i \div W
             t == i % W
  <2>1. q \in Int /\ t \in 0 .. W - 1 /\ i = W * q + t
    OBVIOUS
  <2> HIDE DEF q, t
  <2>2. ~(K <= q)
    BY <1>1, <1>2, <2>1
  <2> QED BY <1>2, <2>1, <2>2 DEF q
<1> QED BY <1>2, <1>3, <1>4, <1>5 DEF K

(* Memory and error after k words. *)
AfterWords(mem, pages, a, data, n, k) ==
  [mem |-> [x \in DOMAIN mem |->
             IF /\ x \in a .. a + n - 1 /\ (x - a) \div WordSize < k
                /\ Mapped(pages, a, ((x - a) \div WordSize + 1) * WordSize)
             THEN data[x - a] ELSE mem[x]],
   err |-> ~Mapped(pages, a, k * WordSize)]

(* A word that is there is written, and what it has behind the data is     *)
(* what was in memory.                                                     *)
LEMMA WordWritten ==
  ASSUME PageSize \in Nat \ {0}, WordSize \in Nat \ {0}, NEW s, NEW pages, NEW a \in Nat,
         NEW data, NEW n \in Nat, NEW at \in Nat
  PROVE  LET there == ~s.err /\ Mapped(pages, a + at, WordSize)
         IN  WriteWord(s, pages, a, data, n, at) =
               IF there
               THEN [s EXCEPT !.mem =
                      [x \in DOMAIN @ |-> IF x \in a + at .. a + at + WordSize - 1
                                             /\ x - a < n
                                          THEN data[x - a] ELSE @[x]]]
               ELSE [s EXCEPT !.err = TRUE]
<1> DEFINE read == ReadMemory(s.mem, pages, a + at, WordSize)
           word == Word(data, n, at, read.data)
           new  == [x \in DOMAIN s.mem |-> IF x \in a + at .. a + at + WordSize - 1
                                          THEN word[x - a - at] ELSE s.mem[x]]
<1>1. CASE ~(~s.err /\ Mapped(pages, a + at, WordSize))
  BY <1>1 DEF WriteWord
<1>2. CASE ~s.err /\ Mapped(pages, a + at, WordSize)
  <2>1. ReadAgrees(s.mem, pages, a + at, WordSize)
    <3>1. a + at \in Nat
      OBVIOUS
    <3> QED BY <3>1, ReadIsExact
  <2>2. ~read.err
    <3>1. 0 \in 0 .. WordSize - 1 /\ a + at + 0 = a + at
      OBVIOUS
    <3>2. (a + at) \div PageSize \in pages
      BY <1>2, <3>1 DEF Mapped
    <3> QED BY <2>1, <3>2 DEF ReadAgrees
  <2>3. \A j \in 0 .. WordSize - 1 : read.data[j] = s.mem[a + at + j]
    <3> SUFFICES ASSUME NEW j \in 0 .. WordSize - 1 PROVE read.data[j] = s.mem[a + at + j]
      OBVIOUS
    <3>1. Mapped(pages, a + at, j + 1)
      <4>1. j + 1 \in Nat /\ j + 1 <= WordSize /\ WordSize \in Nat
        OBVIOUS
      <4> QED BY <1>2, <4>1, MappedLess
    <3> QED BY <2>1, <3>1 DEF ReadAgrees
  <2>4. WriteWord(s, pages, a, data, n, at) = [s EXCEPT !.mem = new]
    BY <1>2, <2>2 DEF WriteWord
  <2> HIDE DEF read
  <2>5. ASSUME NEW x \in a + at .. a + at + WordSize - 1
        PROVE  word[x - a - at] = IF x - a < n THEN data[x - a] ELSE s.mem[x]
    <3>1. /\ x - a - at \in 0 .. WordSize - 1 /\ at + (x - a - at) = x - a
          /\ a + at + (x - a - at) = x
      OBVIOUS
    <3>2. word[x - a - at] = IF at + (x - a - at) < n THEN data[at + (x - a - at)]
                             ELSE read.data[x - a - at]
      BY <3>1 DEF Word
    <3>3. read.data[x - a - at] = s.mem[a + at + (x - a - at)]
      BY <2>3, <3>1
    <3> HIDE DEF word
    <3> QED BY <3>1, <3>2, <3>3
  <2> HIDE DEF word
  <2>6. new = [x \in DOMAIN s.mem |-> IF x \in a + at .. a + at + WordSize - 1 /\ x - a < n
                                     THEN data[x - a] ELSE s.mem[x]]
    BY <2>5
  <2> HIDE DEF new
  <2> QED BY <1>2, <2>4, <2>6
<1> QED BY <1>1, <1>2

(* One turn of the loop. *)
LEMMA WordDone ==
  ASSUME PageSize \in Nat \ {0}, WordSize \in Nat \ {0}, NEW mem, NEW pages, NEW a \in Nat,
         NEW data, NEW n \in Nat, NEW k \in Nat \ {0}
  PROVE  WriteWord(AfterWords(mem, pages, a, data, n, k - 1), pages, a, data, n,
                   (k - 1) * WordSize)
           = AfterWords(mem, pages, a, data, n, k)
<1> DEFINE at == (k - 1) * WordSize
           s == AfterWords(mem, pages, a, data, n, k - 1)
           t == AfterWords(mem, pages, a, data, n, k)
           There(i) == Mapped(pages, a, (i \div WordSize + 1) * WordSize)
           Here == Mapped(pages, a + at, WordSize)
<1>1. /\ at \in Nat /\ k * WordSize \in Nat /\ k * WordSize = at + WordSize
      /\ \A i \in Nat : i \in at .. at + WordSize - 1 <=> i \div WordSize = k - 1
      /\ \A i \in Nat : i \div WordSize \in Nat
  <2>1. ASSUME NEW i \in Nat
        PROVE  /\ i \in at .. at + WordSize - 1 <=> i \div WordSize = k - 1
               /\ i \div WordSize \in Nat
    BY WordOf, WordNumber, Zenon
  <2>2. at \in Nat /\ k * WordSize \in Nat /\ k * WordSize = at + WordSize
    BY WordEnds, Zenon
  <2> QED BY <2>1, <2>2, Zenon
<1>2. s = [mem |-> [x \in DOMAIN mem |->
                     IF x \in a .. a + n - 1 /\ (x - a) \div WordSize < k - 1 /\ There(x - a)
                     THEN data[x - a] ELSE mem[x]],
           err |-> ~Mapped(pages, a, at)]
  BY DEF AfterWords
<1>3. t = [mem |-> [x \in DOMAIN mem |->
                     IF x \in a .. a + n - 1 /\ (x - a) \div WordSize < k /\ There(x - a)
                     THEN data[x - a] ELSE mem[x]],
           err |-> ~Mapped(pages, a, k * WordSize)]
  BY DEF AfterWords
<1>4. Mapped(pages, a, k * WordSize) <=> Mapped(pages, a, at) /\ Here
  <2>1. at \in Nat /\ WordSize \in Nat /\ k * WordSize = at + WordSize
    BY <1>1
  <2> HIDE DEF at
  <2>2. Mapped(pages, a, at + WordSize) <=> Mapped(pages, a, at) /\ Here
    BY <2>1, MappedSum
  <2> QED BY <2>1, <2>2
<1> DEFINE there == ~s.err /\ Here
<1>5. there <=> Mapped(pages, a, k * WordSize)
  <2> DEFINE written == [x \in DOMAIN mem |->
                     IF x \in a .. a + n - 1 /\ (x - a) \div WordSize < k - 1 /\ There(x - a)
                     THEN data[x - a] ELSE mem[x]]
  <2>0. s = [mem |-> written, err |-> ~Mapped(pages, a, at)]
    BY <1>2
  <2> HIDE DEF s, at, Here, written
  <2>1. s.err = ~Mapped(pages, a, at)
    BY <2>0
  <2> QED BY <1>4, <2>1
<1>6. WriteWord(s, pages, a, data, n, at)
        = IF there
          THEN [s EXCEPT !.mem = [x \in DOMAIN @ |->
                  IF x \in a + at .. a + at + WordSize - 1 /\ x - a < n
                  THEN data[x - a] ELSE @[x]]]
          ELSE [s EXCEPT !.err = TRUE]
  <2> HIDE DEF s, at
  <2> QED BY <1>1, WordWritten
<1>7. ASSUME NEW x \in a .. a + n - 1, (x - a) \div WordSize = k - 1
      PROVE  There(x - a) <=> Mapped(pages, a, k * WordSize)
  <2>1. (x - a) \div WordSize + 1 = k
    BY <1>7
  <2> QED BY <2>1
<1> HIDE DEF s, t, There, Here, at
<1>8. CASE ~there
  <2>1. s.err = t.err \/ (t.err = TRUE /\ s.err \in BOOLEAN)
    BY <1>2, <1>3, <1>5, <1>8
  <2>2. t.err = TRUE
    BY <1>3, <1>5, <1>8
  <2>3. s.mem = t.mem
    <3>1. ASSUME NEW x \in DOMAIN mem
          PROVE  (x \in a .. a + n - 1 /\ (x - a) \div WordSize < k - 1 /\ There(x - a))
                   <=> (x \in a .. a + n - 1 /\ (x - a) \div WordSize < k /\ There(x - a))
      <4> SUFFICES ASSUME x \in a .. a + n - 1, There(x - a)
                   PROVE  (x - a) \div WordSize < k - 1 <=> (x - a) \div WordSize < k
        OBVIOUS
      <4>1. (x - a) \div WordSize # k - 1
        BY <1>5, <1>7, <1>8
      <4>2. x - a \in Nat /\ (x - a) \div WordSize \in Nat
        <5>1. x - a \in Nat
          OBVIOUS
        <5> QED BY <1>1, <5>1
      <4> QED BY <4>1, <4>2
    <3> QED BY <1>2, <1>3, <3>1
  <2>4. [s EXCEPT !.err = TRUE] = t
    BY <1>2, <1>3, <2>2, <2>3
  <2> QED BY <1>6, <1>8, <2>4 DEF s, t, at
<1>9. CASE there
  <2>1. s.err = FALSE /\ t.err = FALSE
    BY <1>2, <1>3, <1>5, <1>9
  <2> DEFINE w == [x \in DOMAIN s.mem |->
                    IF x \in a + at .. a + at + WordSize - 1 /\ x - a < n
                    THEN data[x - a] ELSE s.mem[x]]
  <2>2. w = t.mem
    <3>1. ASSUME NEW x \in DOMAIN mem
          PROVE  (IF x \in a + at .. a + at + WordSize - 1 /\ x - a < n THEN data[x - a]
                  ELSE IF x \in a .. a + n - 1 /\ (x - a) \div WordSize < k - 1 /\ There(x - a)
                       THEN data[x - a] ELSE mem[x])
                   = (IF x \in a .. a + n - 1 /\ (x - a) \div WordSize < k /\ There(x - a)
                      THEN data[x - a] ELSE mem[x])
      <4>1. CASE x \in a .. a + n - 1
        <5>1. x - a \in Nat /\ x - a < n
          BY <4>1
        <5>2. (x - a) \div WordSize \in Nat
          BY <1>1, <5>1
        <5>3. x \in a + at .. a + at + WordSize - 1 <=> (x - a) \div WordSize = k - 1
          <6>1. x \in a + at .. a + at + WordSize - 1 <=> x - a \in at .. at + WordSize - 1
            BY <1>1, <4>1
          <6> QED BY <1>1, <5>1, <6>1
        <5>4. (x - a) \div WordSize = k - 1 => There(x - a)
          BY <1>5, <1>7, <1>9, <4>1
        <5>5. (x - a) \div WordSize < k <=> \/ (x - a) \div WordSize < k - 1
                                            \/ (x - a) \div WordSize = k - 1
          BY <5>2
        <5> QED BY <4>1, <5>1, <5>3, <5>4, <5>5, Zenon
      <4>2. CASE x \notin a .. a + n - 1
        <5>1. ASSUME x \in a + at .. a + at + WordSize - 1, x - a < n PROVE FALSE
          <6>1. at \in Nat
            BY <1>1
          <6>2. x \in a .. a + n - 1
            BY <5>1, <6>1
          <6> QED BY <4>2, <6>2
        <5> QED BY <4>2, <5>1
      <4> QED BY <4>1, <4>2
    <3> QED BY <1>2, <1>3, <3>1
  <2> HIDE DEF w
  <2>3. [s EXCEPT !.mem = w] = t
    BY <1>2, <1>3, <2>1, <2>2
  <2> QED BY <1>6, <1>9, <2>3 DEF s, t, at, w
<1> QED BY <1>8, <1>9

(* The recursive function of WriteMemory. *)
Writes(mem, pages, a, data, n, K, f) ==
  [k \in 0 .. K |-> IF k = 0 THEN [mem |-> mem, err |-> FALSE]
                   ELSE WriteWord(f[k - 1], pages, a, data, n, (k - 1) * WordSize)]

LEMMA WriteExact ==
  ASSUME PageSize \in Nat \ {0}, WordSize \in Nat \ {0}, NEW D, NEW V, NEW mem \in [D -> V],
         NEW pages, NEW a \in Nat, NEW data, NEW n \in Nat
  PROVE  WriteMemory(mem, pages, a, data, n)
           = AfterWords(mem, pages, a, data, n, (n + WordSize - 1) \div WordSize)
<1> DEFINE K == (n + WordSize - 1) \div WordSize
           G == [k \in 0 .. K |-> AfterWords(mem, pages, a, data, n, k)]
           F == CHOOSE f : f = Writes(mem, pages, a, data, n, K, f)
<1>1. K \in Nat
  BY Words
<1> HIDE DEF K
<1>2. AfterWords(mem, pages, a, data, n, 0) = [mem |-> mem, err |-> FALSE]
  <2>1. Mapped(pages, a, 0 * WordSize)
    BY DEF Mapped
  <2>2. \A x \in DOMAIN mem : x \in a .. a + n - 1 => ~((x - a) \div WordSize < 0)
    <3> SUFFICES ASSUME NEW x \in a .. a + n - 1 PROVE ~((x - a) \div WordSize < 0)
      OBVIOUS
    <3>1. x - a \in Nat /\ 1 \in Nat \ {0}
      OBVIOUS
    <3>2. (x - a) \div WordSize \in Nat
      BY <3>1, WordOf
    <3> QED BY <3>2
  <2>3. mem = [x \in DOMAIN mem |-> mem[x]]
    OBVIOUS
  <2> QED BY <2>1, <2>2, <2>3 DEF AfterWords
<1>3. ASSUME NEW k \in 1 .. K
      PROVE  WriteWord(G[k - 1], pages, a, data, n, (k - 1) * WordSize) = G[k]
  <2>1. k \in Nat \ {0} /\ k - 1 \in 0 .. K /\ k \in 0 .. K
    BY <1>1
  <2>2. /\ G[k - 1] = AfterWords(mem, pages, a, data, n, k - 1)
        /\ G[k] = AfterWords(mem, pages, a, data, n, k)
    BY <2>1
  <2> HIDE DEF G
  <2> QED BY <2>1, <2>2, WordDone
<1>4. G[0] = [mem |-> mem, err |-> FALSE] /\ G = [k \in 0 .. K |-> G[k]]
  BY <1>1, <1>2
<1>5. G[K] = AfterWords(mem, pages, a, data, n, K)
  BY <1>1
<1> HIDE DEF G
<1>6. F = Writes(mem, pages, a, data, n, K, F)
  <2>1. ASSUME NEW k \in 0 .. K
        PROVE  G[k] = IF k = 0 THEN [mem |-> mem, err |-> FALSE]
                      ELSE WriteWord(G[k - 1], pages, a, data, n, (k - 1) * WordSize)
    <3>1. k # 0 => k \in 1 .. K
      BY <1>1
    <3> QED BY <1>3, <1>4, <3>1
  <2>2. G = Writes(mem, pages, a, data, n, K, G)
    BY <1>4, <2>1 DEF Writes
  <2> QED BY <2>2
<1> HIDE DEF F
<1>7. ASSUME NEW k \in 0 .. K
      PROVE  F[k] = IF k = 0 THEN [mem |-> mem, err |-> FALSE]
                    ELSE WriteWord(F[k - 1], pages, a, data, n, (k - 1) * WordSize)
  BY <1>6 DEF Writes
<1> DEFINE Bad == {k \in 0 .. K : F[k] # G[k]}
<1>8. Bad = {}
  <2> SUFFICES ASSUME Bad # {} PROVE FALSE
    OBVIOUS
  <2>1. PICK k \in Bad : \A l \in Bad : k <= l
    <3>1. Bad \subseteq Nat
      BY <1>1
    <3> HIDE DEF Bad
    <3> QED BY <3>1, NatMin
  <2>2. k \in 0 .. K /\ F[k] # G[k]
    BY <2>1
  <2>3. k # 0
    <3>1. 0 \in 0 .. K
      BY <1>1
    <3> QED BY <1>4, <1>7, <2>2, <3>1
  <2>4. k \in 1 .. K /\ k - 1 \in 0 .. K /\ ~(k <= k - 1)
    BY <1>1, <2>2, <2>3
  <2>5. F[k - 1] = G[k - 1]
    BY <2>1, <2>4
  <2>6. F[k] = WriteWord(F[k - 1], pages, a, data, n, (k - 1) * WordSize)
    BY <1>7, <2>2, <2>3
  <2> QED BY <1>3, <2>2, <2>4, <2>5, <2>6
<1>9. F[K] = G[K]
  BY <1>1, <1>8
<1>10. WriteMemory(mem, pages, a, data, n) = F[K]
  BY DEF WriteMemory, Writes, F, K
<1> QED BY <1>5, <1>9, <1>10 DEF K

(* write_memory changes the bytes of its region and no others, also in the *)
(* word it completes with bytes read back, and is refused exactly when a   *)
(* word reaches into a missing page, with the words before that one        *)
(* written, for every length, alignment and set of pages.                  *)
THEOREM WriteIsExact ==
  ASSUME PageSize \in Nat \ {0}, WordSize \in Nat \ {0}, NEW D, NEW V, NEW mem \in [D -> V],
         NEW pages, NEW a \in Nat, NEW data, NEW n \in Nat
  PROVE  WriteAgrees(mem, pages, a, data, n)
<1> DEFINE K == (n + WordSize - 1) \div WordSize
           End(i) == (i \div WordSize + 1) * WordSize
           w == WriteMemory(mem, pages, a, data, n)
<1>1. /\ K \in Nat /\ (n = 0 => K = 0) /\ (n > 0 => (n - 1) \div WordSize = K - 1)
      /\ \A i \in 0 .. n - 1 : i \div WordSize < K
  BY Words
<1>2. w = AfterWords(mem, pages, a, data, n, K)
  BY WriteExact
<1> HIDE DEF K, w
<1>3. w.err <=> n > 0 /\ ~Mapped(pages, a, End(n - 1))
  <2>1. w.err <=> ~Mapped(pages, a, K * WordSize)
    BY <1>2 DEF AfterWords
  <2>2. CASE n = 0
    <3>1. Mapped(pages, a, K * WordSize)
      BY <1>1, <2>2 DEF Mapped
    <3> QED BY <2>1, <2>2, <3>1
  <2>3. CASE n > 0
    <3>1. (n - 1) \div WordSize + 1 = K
      BY <1>1, <2>3
    <3> QED BY <2>1, <2>3, <3>1
  <2> QED BY <2>2, <2>3
<1>4. w.mem = [x \in DOMAIN mem |-> IF x \in a .. a + n - 1 /\ Mapped(pages, a, End(x - a))
                                   THEN data[x - a] ELSE mem[x]]
  <2>1. \A x \in a .. a + n - 1 : (x - a) \div WordSize < K
    <3> SUFFICES ASSUME NEW x \in a .. a + n - 1 PROVE (x - a) \div WordSize < K
      OBVIOUS
    <3>1. x - a \in 0 .. n - 1
      OBVIOUS
    <3> QED BY <1>1, <3>1
  <2> QED BY <1>2, <2>1 DEF AfterWords
<1> QED BY <1>3, <1>4 DEF WriteAgrees, w

-------------------------------------------------------------------------------
(* The inputs that Spec grows. *)

(* What the inputs of a kind consist of. *)
Items(k) == IF k = "table" THEN Int ELSE IF k = "tree" THEN Alphabet(k) \cup {Unit} ELSE Alphabet(k)

Inputs == items \in Seq(Items(kind))

LEMMA InputsGrow == Spec => []Inputs
<1>1. Init => Inputs
  <2> SUFFICES ASSUME Init PROVE items \in Seq(Items(kind))
    BY DEF Inputs
  <2>1. CASE kind = "tree"
    <3>1. Unit \in Items(kind) /\ items = <<Unit>>
      BY <2>1 DEF Init, Items
    <3> HIDE DEF Unit, Items
    <3> QED BY <3>1
  <2>2. CASE kind # "tree"
    BY <2>2 DEF Init
  <2> QED BY <2>1, <2>2
<1>2. Inputs /\ [Next]_<<kind, items>> => Inputs'
  <2> SUFFICES ASSUME Inputs, [Next]_<<kind, items>> PROVE Inputs'
    OBVIOUS
  <2>1. CASE UNCHANGED <<kind, items>>
    BY <2>1, Zenon DEF Inputs
  <2>2. ASSUME NEW x \in Alphabet(kind), Grow(x) PROVE Inputs'
    <3> DEFINE S == Items(kind)
               e == IF kind = "table" /\ items # <<>> THEN Last(items) + x ELSE x
    <3>1. items' = Append(items, e) /\ kind' = kind
      BY <2>2 DEF Grow
    <3>2. e \in S
      <4>1. CASE kind = "table"
        <5>1. x \in Int /\ items \in Seq(Int)
          BY <2>2, <4>1 DEF Alphabet, Inputs, Items
        <5>2. items # <<>> => Last(items) \in Int
          BY <5>1 DEF Last
        <5> QED BY <4>1, <5>1, <5>2 DEF Items
      <4>2. CASE kind # "table"
        BY <2>2, <4>2 DEF Items
      <4> QED BY <4>1, <4>2
    <3> HIDE DEF S, e
    <3>3. items \in Seq(S)
      BY DEF Inputs, S
    <3>4. items' \in Seq(S)
      BY <3>1, <3>2, <3>3
    <3> QED BY <3>1, <3>4, Zenon DEF Inputs, S
  <2> QED BY <2>1, <2>2 DEF Next
<1> QED BY <1>1, <1>2, PTL DEF Spec

(* TransferExact: read_memory and write_memory move exactly the region     *)
(* they are given, at every alignment to pages and words and whatever      *)
(* pages are missing, for every size of pages and words.                   *)
THEOREM TransferIsExact == Spec => []TransferExact
<1>1. Inputs => TransferExact
  <2> SUFFICES ASSUME Inputs PROVE TransferExact
    OBVIOUS
  <2>1. Len(items) \in Nat
    <3>1. items \in Seq(Items(kind))
      BY DEF Inputs
    <3> QED BY <3>1
  <2>2. PageSize \in Nat \ {0} /\ WordSize \in Nat \ {0}
    <3>1. PICK k \in 1 .. 512 : PageSize = k * WordSize
      BY TransferAssumption DEF TransferAssumption
    <3>2. WordSize \in Nat \ {0} /\ k \in Nat /\ k # 0
      BY TransferAssumption DEF TransferAssumption
    <3>3. k * WordSize \in Nat /\ k * WordSize # 0
      BY <3>2
    <3> QED BY <3>1, <3>2, <3>3
  <2>3. Bytewise \in [DOMAIN Bytewise -> Int]
    BY DEF Bytewise
  <2>4. ASSUME NEW pages, NEW a \in 0 .. PageSize * Len(items), NEW n \in 0 .. PageSize + 1, NEW data
        PROVE  ReadAgrees(Bytewise, pages, a, n) /\ WriteAgrees(Bytewise, pages, a, data, n)
    <3>1. a \in Nat /\ n \in Nat
      BY <2>1, <2>2
    <3>2. ReadAgrees(Bytewise, pages, a, n)
      BY <2>2, <3>1, ReadIsExact
    <3>3. WriteAgrees(Bytewise, pages, a, data, n)
      BY <2>2, <2>3, <3>1, WriteIsExact
    <3> QED BY <3>2, <3>3
  <2> QED BY <2>4 DEF TransferExact
<1>2. Spec => []Inputs
  BY InputsGrow
<1> QED BY <1>1, <1>2, PTL

-------------------------------------------------------------------------------
(* get_entry_by_address. *)

LEMMA SmallestOf ==
  ASSUME NEW T, T \subseteq Nat, T # {}
  PROVE  Min(T) \in T /\ \A k \in T : Min(T) <= k
<1>1. \E m \in T : \A k \in T : m <= k
  BY NatMin
<1>2. \E m \in T : \A k \in T : k >= m
  BY <1>1
<1> QED BY <1>1 DEF Min

LEMMA LargestOf ==
  ASSUME NEW N \in Nat, NEW T, T \subseteq 0 .. N, T # {}
  PROVE  Max(T) \in T /\ \A k \in T : k <= Max(T)
<1> DEFINE U == {m \in Nat : \A k \in T : k <= m}
<1>1. N \in U
  OBVIOUS
<1>2. PICK m \in U : \A l \in U : m <= l
  <2>1. U \subseteq Nat /\ U # {}
    BY <1>1
  <2> HIDE DEF U
  <2> QED BY <2>1, NatMin
<1>3. m \in Nat /\ \A k \in T : k <= m
  OBVIOUS
<1>4. m \in T
  <2> SUFFICES ASSUME m \notin T PROVE FALSE
    OBVIOUS
  <2>1. m # 0
    <3>1. PICK k \in T : TRUE
      OBVIOUS
    <3>2. k \in 0 .. N /\ k # m
      BY <3>1
    <3>3. k <= m
      BY <1>3
    <3> QED BY <1>3, <3>2, <3>3
  <2>2. m - 1 \in Nat /\ \A k \in T : k <= m - 1
    <3>1. \A k \in T : k \in Int /\ k # m /\ k <= m
      BY <1>3
    <3> QED BY <1>3, <2>1, <3>1
  <2>3. m <= m - 1
    BY <1>2, <2>2
  <2> QED BY <1>3, <2>3
<1>5. \E j \in T : \A k \in T : j >= k
  BY <1>3, <1>4
<1>6. \A k \in T : Max(T) >= k /\ Max(T) \in T
  BY <1>5 DEF Max
<1> QED BY <1>3, <1>4, <1>6

(* The rows of a table, and what LookupAgrees calls its sequences. *)
IsTable(rows) == \E R : /\ rows \in Seq(R)
                        /\ \A r \in R : r.address \in Int /\ r.end \in BOOLEAN

Before(rows, k) == {j \in 1 .. k - 1 : rows[j].end}
Behind(rows, k) == {j \in k .. Len(rows) : rows[j].end}
Begins(rows, k) == Max({0} \cup Before(rows, k)) + 1
Ends(rows, k) == Min(Behind(rows, k))

Ordered(rows) ==
  /\ rows # <<>> /\ Last(rows).end
  /\ \A k \in 1 .. Len(rows) - 1 : ~rows[k].end => rows[k].address <= rows[k + 1].address
  /\ \A j, k \in DOMAIN rows :
       rows[j].end /\ rows[k].end /\ j < k =>
         \/ rows[j].address <= rows[Begins(rows, k)].address
         \/ rows[k].address <= rows[Begins(rows, j)].address

Covering(rows, a) == {k \in DOMAIN rows : /\ rows[Begins(rows, k)].address <= a
                                          /\ a < rows[Ends(rows, k)].address
                                          /\ rows[k].address <= a}

Hits(rows, a) == {k \in 1 .. Len(rows) - 1 :
                    rows[k].address <= a /\ rows[k + 1].address > a /\ ~rows[k].end}

(* Rows i to j lie in one sequence. *)
Together(rows, i, j) == \A l \in i .. j - 1 : ~rows[l].end

(* The sequence of row k: it begins behind an end, and ends at the next. *)
LEMMA SequenceOf ==
  ASSUME NEW rows, IsTable(rows), Ordered(rows), NEW k \in 1 .. Len(rows)
  PROVE  /\ Len(rows) \in Nat
         /\ Begins(rows, k) \in 1 .. k /\ Together(rows, Begins(rows, k), k)
         /\ Ends(rows, k) \in k .. Len(rows) /\ rows[Ends(rows, k)].end
         /\ Together(rows, k, Ends(rows, k))
<1>1. Len(rows) \in Nat /\ rows[Len(rows)].end
  BY DEF IsTable, Ordered, Last
<1> DEFINE T == {0} \cup Before(rows, k)
           b == Max(T)
           U == Behind(rows, k)
           e == Min(U)
<1>2. b \in T /\ \A j \in T : j <= b
  <2>1. T \subseteq 0 .. k - 1 /\ T # {} /\ k - 1 \in Nat
    BY DEF Before
  <2> HIDE DEF T
  <2> QED BY <2>1, LargestOf
<1>3. e \in U /\ \A j \in U : e <= j
  <2>1. U \subseteq Nat /\ U # {}
    BY <1>1 DEF Behind
  <2> HIDE DEF U
  <2> QED BY <2>1, SmallestOf
<1> HIDE DEF b, e
<1>4. b + 1 \in 1 .. k /\ Together(rows, b + 1, k)
  <2>1. b \in 0 .. k - 1
    BY <1>2 DEF Before
  <2>2. ASSUME NEW l \in b + 1 .. k - 1 PROVE ~rows[l].end
    <3>1. l \in 1 .. k - 1 /\ ~(l <= b)
      BY <2>1
    <3>2. l \notin T
      BY <1>2, <3>1
    <3> QED BY <3>1, <3>2 DEF Before
  <2> QED BY <2>1, <2>2 DEF Together
<1>5. e \in k .. Len(rows) /\ rows[e].end /\ Together(rows, k, e)
  <2>1. e \in k .. Len(rows) /\ rows[e].end
    BY <1>3 DEF Behind
  <2>2. ASSUME NEW l \in k .. e - 1 PROVE ~rows[l].end
    <3>1. l \in k .. Len(rows) /\ ~(e <= l)
      BY <1>1, <2>1
    <3>2. l \notin U
      BY <1>3, <3>1
    <3> QED BY <3>1, <3>2 DEF Behind
  <2> QED BY <2>1, <2>2 DEF Together
<1> QED BY <1>1, <1>4, <1>5 DEF Begins, Ends, b, e

(* A row that is in one sequence with k begins and ends where k does. *)
LEMMA SameSequence ==
  ASSUME NEW rows, NEW k \in 1 .. Len(rows), NEW l \in k .. Len(rows), Len(rows) \in Nat,
         Together(rows, k, l)
  PROVE  Begins(rows, l) = Begins(rows, k) /\ Ends(rows, l) = Ends(rows, k)
<1>1. Before(rows, l) = Before(rows, k)
  <2>1. \A j \in 1 .. l - 1 : j \in 1 .. k - 1 \/ j \in k .. l - 1
    OBVIOUS
  <2>2. \A j \in 1 .. k - 1 : j \in 1 .. l - 1
    OBVIOUS
  <2> QED BY <2>1, <2>2 DEF Before, Together
<1>2. Behind(rows, l) = Behind(rows, k)
  <2>1. \A j \in k .. Len(rows) : j \in l .. Len(rows) \/ j \in k .. l - 1
    OBVIOUS
  <2>2. \A j \in l .. Len(rows) : j \in k .. Len(rows)
    OBVIOUS
  <2> QED BY <2>1, <2>2 DEF Behind, Together
<1> QED BY <1>1, <1>2, Zenon DEF Begins, Ends

(* Addresses do not fall within a sequence. *)
LEMMA AddressesRise ==
  ASSUME NEW rows, IsTable(rows), Ordered(rows), NEW i \in 1 .. Len(rows),
         NEW j \in i .. Len(rows), Together(rows, i, j)
  PROVE  rows[i].address <= rows[j].address
<1>1. Len(rows) \in Nat /\ \A k \in 1 .. Len(rows) : rows[k].address \in Int
  BY DEF IsTable
<1> DEFINE A(k) == rows[k].address
           Bad == {k \in i .. j : ~(A(i) <= A(k))}
<1>2. Bad = {}
  <2> SUFFICES ASSUME Bad # {} PROVE FALSE
    OBVIOUS
  <2>1. PICK k \in Bad : \A l \in Bad : k <= l
    <3>1. Bad \subseteq Nat
      BY <1>1
    <3> HIDE DEF Bad
    <3> QED BY <3>1, NatMin
  <2>2. k \in i .. j /\ ~(A(i) <= A(k))
    BY <2>1
  <2>3. k # i
    BY <1>1, <2>2
  <2>4. k - 1 \in i .. j - 1 /\ k - 1 \in i .. j /\ ~(k <= k - 1) /\ (k - 1) + 1 = k
        /\ k - 1 \in 1 .. Len(rows) - 1
    BY <1>1, <2>2, <2>3
  <2>5. k - 1 \notin Bad
    <3> HIDE DEF Bad
    <3> QED BY <2>1, <2>4
  <2>6. A(i) <= A(k - 1)
    <3> HIDE DEF A
    <3> QED BY <2>4, <2>5
  <2>7. ~rows[k - 1].end
    BY <2>4 DEF Together
  <2>8. A(k - 1) <= A(k)
    BY <2>4, <2>7 DEF Ordered
  <2>9. A(i) \in Int /\ A(k - 1) \in Int /\ A(k) \in Int
    BY <1>1, <2>2, <2>4
  <2> HIDE DEF A, Bad
  <2> QED BY <2>2, <2>6, <2>8, <2>9
<1>3. j \in i .. j
  BY <1>1
<1> QED BY <1>2, <1>3

(* What the lookup stops at is a row of a sequence that covers a. *)
LEMMA HitCovers ==
  ASSUME NEW rows, IsTable(rows), Ordered(rows), NEW a \in Int, NEW k \in Hits(rows, a)
  PROVE  k \in Covering(rows, a)
<1>1. /\ k \in 1 .. Len(rows) - 1 /\ rows[k].address <= a /\ rows[k + 1].address > a
      /\ ~rows[k].end
  BY DEF Hits
<1>2. Len(rows) \in Nat /\ \A l \in 1 .. Len(rows) : rows[l].address \in Int
  BY DEF IsTable
<1>3. k \in 1 .. Len(rows) /\ k + 1 \in 1 .. Len(rows)
  BY <1>1, <1>2
<1> DEFINE b == Begins(rows, k)
           e == Ends(rows, k)
<1>4. /\ b \in 1 .. k /\ Together(rows, b, k)
      /\ e \in k .. Len(rows) /\ rows[e].end /\ Together(rows, k, e)
  BY <1>3, SequenceOf
<1> HIDE DEF b, e
<1>5. rows[b].address <= a
  <2>1. b \in 1 .. Len(rows) /\ k \in b .. Len(rows)
    BY <1>2, <1>3, <1>4
  <2>2. rows[b].address <= rows[k].address
    BY <1>4, <2>1, AddressesRise
  <2>3. rows[b].address \in Int /\ rows[k].address \in Int
    BY <1>2, <1>3, <2>1
  <2> QED BY <1>1, <2>2, <2>3
<1>6. a < rows[e].address
  <2>1. e # k
    BY <1>1, <1>4
  <2>2. e \in k + 1 .. Len(rows) /\ e \in 1 .. Len(rows)
    BY <1>2, <1>3, <1>4, <2>1
  <2>3. Together(rows, k + 1, e)
    BY <1>3, <1>4 DEF Together
  <2>4. rows[k + 1].address <= rows[e].address
    BY <1>3, <2>2, <2>3, AddressesRise
  <2>5. rows[k + 1].address \in Int /\ rows[e].address \in Int
    BY <1>2, <1>3, <2>2
  <2> QED BY <1>1, <2>4, <2>5
<1>7. k \in DOMAIN rows
  BY <1>3 DEF IsTable
<1> QED BY <1>1, <1>5, <1>6, <1>7 DEF Covering, b, e

(* Two rows that cover a are of one sequence. *)
LEMMA OneCovers ==
  ASSUME NEW rows, IsTable(rows), Ordered(rows), NEW a \in Int,
         NEW k \in Covering(rows, a), NEW l \in Covering(rows, a)
  PROVE  Ends(rows, k) = Ends(rows, l)
<1>1. Len(rows) \in Nat /\ \A i \in 1 .. Len(rows) : rows[i].address \in Int
      /\ DOMAIN rows = 1 .. Len(rows)
  BY DEF IsTable
<1>2. k \in 1 .. Len(rows) /\ l \in 1 .. Len(rows)
  BY <1>1 DEF Covering
<1>3. ASSUME NEW i \in Covering(rows, a), NEW j \in Covering(rows, a),
             Ends(rows, i) < Ends(rows, j)
      PROVE  FALSE
  <2> DEFINE c == Ends(rows, i)
             d == Ends(rows, j)
             p == Begins(rows, i)
             q == Begins(rows, j)
  <2>1. /\ i \in 1 .. Len(rows) /\ rows[p].address <= a /\ a < rows[c].address
        /\ j \in 1 .. Len(rows) /\ rows[q].address <= a /\ a < rows[d].address
    <3>1. \A x \in Covering(rows, a) :
            /\ x \in DOMAIN rows /\ rows[Begins(rows, x)].address <= a
            /\ a < rows[Ends(rows, x)].address
      BY Zenon DEF Covering
    <3>2. i \in DOMAIN rows /\ j \in DOMAIN rows
      BY <3>1, Zenon
    <3>3. i \in 1 .. Len(rows) /\ j \in 1 .. Len(rows)
      BY <1>1, <3>2
    <3> QED BY <3>1, <3>3, Zenon
  <2>2. /\ p \in 1 .. i /\ c \in i .. Len(rows) /\ rows[c].end /\ Together(rows, i, c)
        /\ q \in 1 .. j /\ d \in j .. Len(rows) /\ rows[d].end /\ Together(rows, j, d)
    BY <2>1, SequenceOf
  <2>3. Begins(rows, c) = p
    BY <1>1, <2>1, <2>2, SameSequence
  <2>4. Begins(rows, d) = q
    BY <1>1, <2>1, <2>2, SameSequence
  <2>5. c < d
    BY <1>3
  <2> HIDE DEF c, d, p, q
  <2>6. c \in 1 .. Len(rows) /\ d \in 1 .. Len(rows) /\ p \in 1 .. Len(rows) /\ q \in 1 .. Len(rows)
    BY <1>1, <2>1, <2>2
  <2>7. c \in DOMAIN rows /\ d \in DOMAIN rows
    BY <1>1, <2>6
  <2>8. \/ rows[c].address <= rows[Begins(rows, d)].address
        \/ rows[d].address <= rows[Begins(rows, c)].address
    BY <2>2, <2>5, <2>7 DEF Ordered
  <2>9. rows[c].address <= rows[q].address \/ rows[d].address <= rows[p].address
    BY <2>3, <2>4, <2>8
  <2>10. /\ rows[c].address \in Int /\ rows[d].address \in Int
         /\ rows[p].address \in Int /\ rows[q].address \in Int
    BY <1>1, <2>6
  <2> QED BY <2>1, <2>9, <2>10
<1>4. ~(Ends(rows, k) < Ends(rows, l)) /\ ~(Ends(rows, l) < Ends(rows, k))
  BY <1>3, Zenon
<1>5. Ends(rows, k) \in Int /\ Ends(rows, l) \in Int
  <2>1. Ends(rows, k) \in k .. Len(rows)
    BY <1>2, SequenceOf
  <2>2. Ends(rows, l) \in l .. Len(rows)
    BY <1>2, SequenceOf
  <2> QED BY <1>1, <1>2, <2>1, <2>2
<1> QED BY <1>4, <1>5

(* The last row at or below a of the sequence that covers it is a hit. *)
LEMMA LastIsHit ==
  ASSUME NEW rows, IsTable(rows), Ordered(rows), NEW a \in Int, NEW m \in Covering(rows, a),
         \A k \in Covering(rows, a) : k <= m
  PROVE  m \in Hits(rows, a)
<1>1. Len(rows) \in Nat /\ (\A i \in 1 .. Len(rows) : rows[i].address \in Int)
      /\ DOMAIN rows = 1 .. Len(rows)
  BY DEF IsTable
<1>2. /\ m \in 1 .. Len(rows) /\ rows[m].address <= a
      /\ rows[Begins(rows, m)].address <= a /\ a < rows[Ends(rows, m)].address
  BY <1>1 DEF Covering
<1> DEFINE e == Ends(rows, m)
<1>3. e \in m .. Len(rows) /\ rows[e].end /\ Together(rows, m, e)
  BY <1>2, SequenceOf
<1>4. a < rows[e].address
  BY <1>2
<1> HIDE DEF e
<1>5. e # m
  BY <1>1, <1>2, <1>4
<1>6. m \in m .. e - 1 /\ m + 1 \in m .. Len(rows) /\ m + 1 \in 1 .. Len(rows)
      /\ m \in 1 .. Len(rows) - 1
  BY <1>1, <1>2, <1>3, <1>5
<1>7. ~rows[m].end
  BY <1>3, <1>6 DEF Together
<1>8. Together(rows, m, m + 1)
  <2>1. \A l \in m .. (m + 1) - 1 : l = m
    BY <1>2
  <2> QED BY <1>7, <2>1 DEF Together
<1>9. Begins(rows, m + 1) = Begins(rows, m) /\ Ends(rows, m + 1) = Ends(rows, m)
  BY <1>1, <1>2, <1>6, <1>8, SameSequence
<1>10. ASSUME rows[m + 1].address <= a PROVE FALSE
  <2>1. m + 1 \in Covering(rows, a)
    BY <1>1, <1>2, <1>6, <1>9, <1>10 DEF Covering
  <2>2. m + 1 <= m
    BY <2>1
  <2> QED BY <1>2, <2>2
<1>11. rows[m + 1].address > a
  <2>1. rows[m + 1].address \in Int
    BY <1>1, <1>6
  <2> QED BY <1>10, <2>1
<1> QED BY <1>2, <1>6, <1>7, <1>11 DEF Hits

(* No row before it is one. *)
LEMMA NoEarlierHit ==
  ASSUME NEW rows, IsTable(rows), Ordered(rows), NEW a \in Int, NEW m \in Covering(rows, a),
         NEW h \in Hits(rows, a)
  PROVE  ~(h < m)
<1> SUFFICES ASSUME h < m PROVE FALSE
  OBVIOUS
<1>1. Len(rows) \in Nat /\ (\A i \in 1 .. Len(rows) : rows[i].address \in Int)
      /\ DOMAIN rows = 1 .. Len(rows)
  BY DEF IsTable
<1>2. m \in 1 .. Len(rows) /\ rows[m].address <= a
  BY <1>1 DEF Covering
<1>3. h \in 1 .. Len(rows) - 1 /\ rows[h + 1].address > a
  BY DEF Hits
<1>4. h \in 1 .. Len(rows) /\ h + 1 \in 1 .. Len(rows) /\ m \in h + 1 .. Len(rows)
  BY <1>1, <1>2, <1>3
<1> DEFINE e == Ends(rows, h)
<1>5. e = Ends(rows, m)
  <2>1. h \in Covering(rows, a)
    BY HitCovers
  <2> QED BY <2>1, OneCovers
<1>6. Together(rows, h, e)
  BY <1>4, SequenceOf
<1>7. e \in m .. Len(rows)
  <2>1. Ends(rows, m) \in m .. Len(rows)
    BY <1>2, SequenceOf
  <2> QED BY <1>5, <2>1
<1> HIDE DEF e
<1>8. Together(rows, h + 1, m)
  <2>1. \A l \in h + 1 .. m - 1 : l \in h .. e - 1
    BY <1>1, <1>2, <1>3, <1>7
  <2> QED BY <1>6, <2>1 DEF Together
<1>9. rows[h + 1].address <= rows[m].address
  BY <1>4, <1>8, AddressesRise
<1>10. rows[h + 1].address \in Int /\ rows[m].address \in Int
  BY <1>1, <1>2, <1>4
<1> QED BY <1>2, <1>3, <1>9, <1>10

(* get_entry_by_address finds the last row at or below the address in the  *)
(* sequence that covers it, and end() when no sequence does, in every      *)
(* table whose sequences do not overlap: of any length, in any order of    *)
(* the sequences, with gaps between them.                                  *)
THEOREM LookupIsExact ==
  ASSUME NEW rows, IsTable(rows), NEW a \in Int
  PROVE  LookupAgrees(rows, a)
<1>1. ASSUME Ordered(rows)
      PROVE  EntryByAddress(rows, a)
               = IF Covering(rows, a) = {} THEN 0 ELSE Max(Covering(rows, a))
  <2>1. EntryByAddress(rows, a) = IF Hits(rows, a) = {} THEN 0 ELSE Min(Hits(rows, a))
    BY Zenon DEF EntryByAddress, Hits
  <2>2. CASE Covering(rows, a) = {}
    <3>1. Hits(rows, a) = {}
      BY <1>1, <2>2, HitCovers
    <3> QED BY <2>1, <2>2, <3>1, Zenon
  <2>3. CASE Covering(rows, a) # {}
    <3> DEFINE m == Max(Covering(rows, a))
    <3>1. Len(rows) \in Nat /\ Covering(rows, a) \subseteq 0 .. Len(rows)
      <4>1. Len(rows) \in Nat /\ DOMAIN rows = 1 .. Len(rows)
        BY DEF IsTable
      <4>2. Covering(rows, a) \subseteq DOMAIN rows
        BY Zenon DEF Covering
      <4> QED BY <4>1, <4>2
    <3>2. m \in Covering(rows, a) /\ \A k \in Covering(rows, a) : k <= m
      BY <2>3, <3>1, LargestOf
    <3> HIDE DEF m
    <3>3. m \in Hits(rows, a)
      BY <1>1, <3>2, LastIsHit
    <3>4. ASSUME NEW h \in Hits(rows, a) PROVE h = m
      <4>1. ~(h < m)
        BY <1>1, <3>2, NoEarlierHit
      <4>2. h \in Covering(rows, a)
        BY <1>1, HitCovers
      <4>3. h <= m
        BY <3>2, <4>2
      <4>4. h \in Int /\ m \in Int
        BY <3>1, <3>2, <4>2
      <4> QED BY <4>1, <4>3, <4>4
    <3>5. Hits(rows, a) = {m}
      BY <3>3, <3>4
    <3>6. Min(Hits(rows, a)) = m
      <4>1. Hits(rows, a) \subseteq Nat /\ Hits(rows, a) # {}
        BY <3>1, <3>2, <3>5
      <4>2. Min(Hits(rows, a)) \in Hits(rows, a)
        BY <4>1, SmallestOf
      <4> QED BY <3>4, <4>2
    <3> QED BY <2>1, <2>3, <3>5, <3>6 DEF m
  <2> QED BY <2>2, <2>3
<1> QED BY <1>1, Zenon DEF LookupAgrees, Ordered, Covering, Begins, Before, Ends, Behind

-------------------------------------------------------------------------------
(* The rows of a program are a table. *)

Row == [address : Int, file : Int, line : Int, column : Int, is_stmt : BOOLEAN,
        basic_block : BOOLEAN, end : BOOLEAN, prologue : BOOLEAN, epilogue : BOOLEAN,
        discriminator : Int]

LineState == [reg : Row, rows : Seq(Row), err : BOOLEAN, lost : BOOLEAN]

LEMMA RowNumbers ==
  ASSUME NEW r \in Row, NEW n \in Int
  PROVE  /\ [r EXCEPT !.address = n] \in Row /\ [r EXCEPT !.line = n] \in Row
         /\ [r EXCEPT !.column = n] \in Row /\ [r EXCEPT !.discriminator = n] \in Row
<1>1. [r EXCEPT !.address = n] \in Row /\ [r EXCEPT !.line = n] \in Row
  BY DEF Row
<1>2. [r EXCEPT !.column = n] \in Row /\ [r EXCEPT !.discriminator = n] \in Row
  BY DEF Row
<1> QED BY <1>1, <1>2, Zenon

LEMMA RowFlags ==
  ASSUME NEW r \in Row
  PROVE  /\ [r EXCEPT !.is_stmt = ~r.is_stmt] \in Row
         /\ [r EXCEPT !.basic_block = FALSE] \in Row /\ [r EXCEPT !.basic_block = TRUE] \in Row
         /\ [r EXCEPT !.prologue = FALSE] \in Row /\ [r EXCEPT !.prologue = TRUE] \in Row
         /\ [r EXCEPT !.epilogue = FALSE] \in Row /\ [r EXCEPT !.epilogue = TRUE] \in Row
         /\ [r EXCEPT !.end = TRUE] \in Row
<1>1. [r EXCEPT !.is_stmt = ~r.is_stmt] \in Row
  BY DEF Row
<1>2. [r EXCEPT !.basic_block = FALSE] \in Row /\ [r EXCEPT !.basic_block = TRUE] \in Row
  BY DEF Row
<1>3. [r EXCEPT !.prologue = FALSE] \in Row /\ [r EXCEPT !.prologue = TRUE] \in Row
  BY DEF Row
<1>4. [r EXCEPT !.epilogue = FALSE] \in Row /\ [r EXCEPT !.epilogue = TRUE] \in Row
  BY DEF Row
<1>5. [r EXCEPT !.end = TRUE] \in Row
  BY DEF Row
<1> QED BY <1>1, <1>2, <1>3, <1>4, <1>5, Zenon

LEMMA StateSet ==
  ASSUME NEW s \in LineState, NEW r \in Row
  PROVE  /\ [s EXCEPT !.reg = r] \in LineState
         /\ [s EXCEPT !.rows = Append(@, r)] \in LineState
         /\ [s EXCEPT !.err = TRUE] \in LineState
         /\ [s EXCEPT !.lost = TRUE] \in LineState
         /\ s.reg \in Row /\ s.rows \in Seq(Row)
<1>1. s.reg \in Row /\ s.rows \in Seq(Row) /\ Append(s.rows, r) \in Seq(Row)
  BY DEF LineState
<1> HIDE DEF Row
<1>2. [s EXCEPT !.reg = r] \in LineState
  BY DEF LineState
<1>3. [s EXCEPT !.rows = Append(@, r)] \in LineState
  BY <1>1 DEF LineState
<1>4. [s EXCEPT !.err = TRUE] \in LineState
  BY DEF LineState
<1>5. [s EXCEPT !.lost = TRUE] \in LineState
  BY DEF LineState
<1> QED BY <1>1, <1>2, <1>3, <1>4, <1>5, Zenon

LEMMA EmittedIsState ==
  ASSUME NEW s \in LineState
  PROVE  Emitted(s) \in LineState
<1> DEFINE r == s.reg
           q == [r EXCEPT !.basic_block = FALSE, !.prologue = FALSE, !.epilogue = FALSE,
                          !.discriminator = 0]
           t == [s EXCEPT !.rows = Append(@, r)]
<1>1. r \in Row
  BY DEF LineState
<1>2. q \in Row
  <2> DEFINE b == [r EXCEPT !.basic_block = FALSE]
             p == [b EXCEPT !.prologue = FALSE]
             f == [p EXCEPT !.epilogue = FALSE]
  <2> HIDE DEF r
  <2>1. q = [f EXCEPT !.discriminator = 0]
    BY <1>1 DEF Row
  <2>2. b \in Row
    BY <1>1, RowFlags
  <2> HIDE DEF b
  <2>3. p \in Row
    BY <2>2, RowFlags
  <2> HIDE DEF p
  <2>4. f \in Row
    BY <2>3, RowFlags
  <2> HIDE DEF f
  <2>5. 0 \in Int
    OBVIOUS
  <2> QED BY <2>1, <2>4, <2>5, RowNumbers
<1>3. t \in LineState
  <2> HIDE DEF r
  <2> QED BY <1>1, StateSet
<1>4. [t EXCEPT !.reg = q] \in LineState
  <2> HIDE DEF t, q
  <2> QED BY <1>2, <1>3, StateSet
<1>5. Emitted(s) = [t EXCEPT !.reg = q]
  BY DEF Emitted, LineState
<1> QED BY <1>4, <1>5

(* The instructions of a program. *)
IsInstruction(i) ==
  /\ i.n \in Int
  /\ i.op \in {"copy", "advance_pc", "set_file", "negate_stmt", "set_basic_block", "const_add_pc",
               "fixed_advance_pc", "set_prologue_end", "set_epilogue_begin", "set_isa",
               "advance_line", "set_column", "define_file", "set_address", "set_discriminator",
               "end_sequence", "special"}

(* Every opcode keeps the types of the registers and of the rows. *)
LEMMA ExecuteIsState ==
  ASSUME LineTableAssumption, NEW s \in LineState, NEW i, IsInstruction(i)
  PROVE  Execute(s, i) \in LineState
<1> DEFINE r == s.reg
           t == Execute(s, i)
<1>1. r \in Row /\ s.rows \in Seq(Row)
  BY DEF LineState
<1>2. ASSUME NEW q \in Row PROVE [s EXCEPT !.reg = q] \in LineState
  BY StateSet
<1>3. /\ DefaultIsStmt \in BOOLEAN /\ LineBase \in Int /\ LineRange \in Nat \ {0} /\ ConstAdd \in Int
  BY DEF LineTableAssumption
<1>4. CASE s.err \/ s.lost
  BY <1>4 DEF Execute
<1> SUFFICES ASSUME ~(s.err \/ s.lost) PROVE t \in LineState
  BY <1>4
<1>5. r.address \in Int /\ r.line \in Int /\ r.is_stmt \in BOOLEAN /\ i.n \in Int
  BY <1>1 DEF IsInstruction, Row
<1>6. ASSUME NEW q \in Row, t = [s EXCEPT !.reg = q] PROVE t \in LineState
  BY <1>2, <1>6
<1>7. CASE i.op = "copy"
  BY <1>7, EmittedIsState DEF Execute
<1>8. CASE i.op = "advance_pc"
  <2>1. t = [s EXCEPT !.reg = [r EXCEPT !.address = r.address + SlebOfUleb(i.n)]]
    BY <1>8 DEF Execute
  <2>2. r.address + SlebOfUleb(i.n) \in Int
    BY <1>5 DEF SlebOfUleb
  <2> QED BY <1>1, <1>6, <2>1, <2>2, RowNumbers
<1>9. CASE i.op = "set_file"
  <2>1. t = [s EXCEPT !.reg = [r EXCEPT !.column = i.n]]
    BY <1>9 DEF Execute
  <2> QED BY <1>1, <1>5, <1>6, <2>1, RowNumbers
<1>10. CASE i.op = "negate_stmt"
  <2>1. t = [s EXCEPT !.reg = [r EXCEPT !.is_stmt = ~r.is_stmt]]
    BY <1>10 DEF Execute
  <2> QED BY <1>1, <1>6, <2>1, RowFlags
<1>11. CASE i.op = "set_basic_block"
  <2>1. t = [s EXCEPT !.reg = [r EXCEPT !.basic_block = TRUE]]
    BY <1>11 DEF Execute
  <2> QED BY <1>1, <1>6, <2>1, RowFlags
<1>12. CASE i.op = "const_add_pc"
  <2>1. t = [s EXCEPT !.reg = [r EXCEPT !.address = r.address + ConstAdd]]
    BY <1>12 DEF Execute
  <2>2. r.address + ConstAdd \in Int
    BY <1>3, <1>5
  <2> QED BY <1>1, <1>6, <2>1, <2>2, RowNumbers
<1>13. CASE i.op = "fixed_advance_pc"
  <2>1. t = [s EXCEPT !.reg = [r EXCEPT !.address = r.address + i.n]]
    BY <1>13 DEF Execute
  <2>2. r.address + i.n \in Int
    BY <1>5
  <2> QED BY <1>1, <1>6, <2>1, <2>2, RowNumbers
<1>14. CASE i.op = "set_prologue_end"
  <2>1. t = [s EXCEPT !.reg = [r EXCEPT !.prologue = TRUE]]
    BY <1>14 DEF Execute
  <2> QED BY <1>1, <1>6, <2>1, RowFlags
<1>15. CASE i.op = "set_epilogue_begin"
  <2>1. t = [s EXCEPT !.reg = [r EXCEPT !.epilogue = TRUE]]
    BY <1>15 DEF Execute
  <2> QED BY <1>1, <1>6, <2>1, RowFlags
<1>16. CASE i.op \in {"set_isa", "advance_line", "set_column", "define_file"}
  <2>1. t = s \/ t = [s EXCEPT !.err = TRUE] \/ t = [s EXCEPT !.lost = TRUE]
    BY <1>16 DEF Execute
  <2> QED BY <1>1, <2>1, StateSet
<1>17. CASE i.op = "set_address"
  <2>1. t = [s EXCEPT !.reg = [r EXCEPT !.address = i.n]]
    BY <1>17 DEF Execute
  <2> QED BY <1>1, <1>5, <1>6, <2>1, RowNumbers
<1>18. CASE i.op = "set_discriminator"
  <2>1. t = [s EXCEPT !.reg = [r EXCEPT !.discriminator = i.n]]
    BY <1>18 DEF Execute
  <2> QED BY <1>1, <1>5, <1>6, <2>1, RowNumbers
<1>19. CASE i.op = "end_sequence"
  <2> DEFINE last == [r EXCEPT !.end = TRUE]
             u == [s EXCEPT !.rows = Append(@, last)]
  <2>1. last \in Row /\ Registers \in Row
    <3>1. last \in Row
      BY <1>1, RowFlags
    <3>2. Registers \in Row
      BY <1>3 DEF Registers, Row
    <3> QED BY <3>1, <3>2
  <2>2. t = [u EXCEPT !.reg = Registers]
    <3> HIDE DEF Row
    <3> QED BY <1>19 DEF Execute, LineState
  <2> HIDE DEF last
  <2>3. u \in LineState
    BY <2>1, StateSet
  <2> HIDE DEF u, t
  <2> QED BY <2>1, <2>2, <2>3, StateSet
<1>20. CASE i.op = "special"
  <2> DEFINE q == [[r EXCEPT !.address = r.address + (i.n \div LineRange)]
                     EXCEPT !.line = r.line + LineBase + (i.n % LineRange)]
  <2>1. t = Emitted([s EXCEPT !.reg = q])
    <3>1. [s EXCEPT !.reg.address = @ + (i.n \div LineRange),
                    !.reg.line = @ + LineBase + (i.n % LineRange)] = [s EXCEPT !.reg = q]
      BY <1>1 DEF LineState, Row
    <3> QED BY <1>20, <3>1 DEF Execute
  <2>2. q \in Row
    <3>1. i.n \div LineRange \in Int /\ i.n % LineRange \in Int
      BY <1>3, <1>5
    <3> DEFINE x == r.address + (i.n \div LineRange)
               y == r.line + LineBase + (i.n % LineRange)
               w == [r EXCEPT !.address = x]
    <3>2. x \in Int /\ y \in Int
      BY <1>3, <1>5, <3>1
    <3> HIDE DEF x, y
    <3>3. w \in Row
      BY <1>1, <3>2, RowNumbers
    <3> HIDE DEF w
    <3>4. [w EXCEPT !.line = y] \in Row
      BY <3>2, <3>3, RowNumbers
    <3> QED BY <3>4 DEF w, x, y
  <2> HIDE DEF q, t
  <2> QED BY <1>2, <2>1, <2>2, EmittedIsState
<1> QED BY <1>7, <1>8, <1>9, <1>10, <1>11, <1>12, <1>13, <1>14, <1>15, <1>16, <1>17, <1>18,
           <1>19, <1>20, Zenon DEF IsInstruction

(* The program run: the rows after k instructions from those after k - 1. *)
Runs(prog, f) ==
  [k \in 0 .. Len(prog) |->
     IF k = 0 THEN [reg |-> Registers, rows |-> <<>>, err |-> FALSE, lost |-> FALSE]
     ELSE Execute(f[k - 1], prog[k])]

LEMMA RunExists ==
  ASSUME NEW prog, Len(prog) \in Nat
  PROVE  \E f : f = Runs(prog, f)
<1> DEFINE N == Len(prog)
           s == [reg |-> Registers, rows |-> <<>>, err |-> FALSE, lost |-> FALSE]
           Turn(f, k) == IF k = 0 THEN s ELSE Execute(f[k - 1], prog[k])
           Builds(f, m) == f = [k \in 0 .. m |-> Turn(f, k)]
           Bad == {m \in 0 .. N : ~ \E f : Builds(f, m)}
<1>1. ASSUME NEW m \in 0 .. N, NEW f, Builds(f, m), m # N
      PROVE  \E h : Builds(h, m + 1)
  <2> DEFINE last == Execute(f[m], prog[m + 1])
             h == [k \in 0 .. m + 1 |-> IF k = m + 1 THEN last ELSE f[k]]
  <2>1. m \in Nat /\ m \in 0 .. m + 1 /\ m + 1 \in 0 .. m + 1 /\ (m + 1) - 1 = m /\ m + 1 # 0
        /\ m # m + 1
    BY <1>1
  <2> HIDE DEF last
  <2>2. \A k \in 0 .. m : k # m + 1 /\ k \in 0 .. m + 1 /\ h[k] = f[k]
    BY <2>1
  <2>3. h[m + 1] = last /\ h[m] = f[m]
    BY <2>1
  <2>4. ASSUME NEW k \in 0 .. m + 1 PROVE h[k] = Turn(h, k)
    <3>1. CASE k = m + 1
      <4> HIDE DEF h
      <4> QED BY <2>1, <2>3, <3>1 DEF last
    <3>2. CASE k # m + 1
      <4>1. k \in 0 .. m /\ (k # 0 => k - 1 \in 0 .. m)
        BY <2>1, <3>2
      <4>2. f[k] = Turn(f, k)
        BY <1>1, <4>1
      <4>3. h[k] = f[k] /\ (k # 0 => h[k - 1] = f[k - 1])
        BY <2>2, <4>1
      <4> HIDE DEF h, s
      <4> QED BY <4>2, <4>3
    <3> QED BY <3>1, <3>2
  <2>5. h = [k \in 0 .. m + 1 |-> h[k]]
    OBVIOUS
  <2> HIDE DEF h
  <2>6. h = [k \in 0 .. m + 1 |-> Turn(h, k)]
    <3> HIDE DEF Turn
    <3> QED BY <2>4, <2>5
  <2> QED BY <2>6
<1>2. \E f : Builds(f, 0)
  <2> DEFINE f == [k \in 0 .. 0 |-> s]
  <2>1. f = [k \in 0 .. 0 |-> Turn(f, k)]
    <3> HIDE DEF s
    <3> QED OBVIOUS
  <2> QED BY <2>1
<1> HIDE DEF Builds
<1>3. Bad = {}
  <2> SUFFICES ASSUME Bad # {} PROVE FALSE
    OBVIOUS
  <2>1. PICK m \in Bad : \A k \in Bad : m <= k
    <3>1. Bad \subseteq Nat
      OBVIOUS
    <3> HIDE DEF Bad
    <3> QED BY <3>1, NatMin
  <2>2. m # 0 /\ m \in 0 .. N /\ ~ \E f : Builds(f, m)
    BY <1>2, <2>1
  <2>3. m - 1 \in 0 .. N /\ m - 1 + 1 = m /\ m - 1 # N /\ ~(m <= m - 1)
    BY <2>2
  <2>4. \E f : Builds(f, m - 1)
    BY <2>1, <2>3
  <2> QED BY <1>1, <2>2, <2>3, <2>4
<1>4. PICK f : Builds(f, N)
  BY <1>3
<1>5. f = Runs(prog, f)
  BY <1>4, Zenon DEF Builds, Runs
<1> QED BY <1>5

LEMMA RowsAreTable ==
  ASSUME LineTableAssumption, NEW I, \A i \in I : IsInstruction(i), NEW prog \in Seq(I)
  PROVE  IsTable(Rows(prog).rows)
<1> DEFINE N == Len(prog)
           s == [reg |-> Registers, rows |-> <<>>, err |-> FALSE, lost |-> FALSE]
           F == CHOOSE f : f = Runs(prog, f)
           Bad == {k \in 0 .. N : F[k] \notin LineState}
<1>1. N \in Nat /\ \A k \in 1 .. N : prog[k] \in I
  OBVIOUS
<1>2. F = Runs(prog, F)
  <2>1. \E f : f = Runs(prog, f)
    BY <1>1, RunExists
  <2> QED BY <2>1
<1> HIDE DEF F
<1>3. \A k \in 0 .. N : F[k] = IF k = 0 THEN s ELSE Execute(F[k - 1], prog[k])
  <2> HIDE DEF s
  <2> QED BY <1>2 DEF Runs, s
<1>4. s \in LineState
  <2>1. Registers \in Row
    BY DEF Registers, Row, LineTableAssumption
  <2> HIDE DEF Row
  <2>2. <<>> \in Seq(Row)
    OBVIOUS
  <2> QED BY <2>1, <2>2 DEF LineState
<1> HIDE DEF s
<1>5. Bad = {}
  <2> SUFFICES ASSUME Bad # {} PROVE FALSE
    OBVIOUS
  <2>1. PICK k \in Bad : \A l \in Bad : k <= l
    <3>1. Bad \subseteq Nat
      BY <1>1
    <3> HIDE DEF Bad
    <3> QED BY <3>1, NatMin
  <2>2. k \in 0 .. N /\ F[k] \notin LineState
    BY <2>1
  <2>3. k # 0
    BY <1>3, <1>4, <2>2
  <2>4. k \in 1 .. N /\ k - 1 \in 0 .. N /\ ~(k <= k - 1)
    BY <1>1, <2>2, <2>3
  <2>5. F[k - 1] \in LineState
    BY <2>1, <2>4
  <2>6. IsInstruction(prog[k])
    BY <1>1, <2>4
  <2>7. F[k] = Execute(F[k - 1], prog[k])
    BY <1>3, <2>2, <2>3
  <2>8. Execute(F[k - 1], prog[k]) \in LineState
    BY <2>5, <2>6, ExecuteIsState
  <2> QED BY <2>2, <2>7, <2>8
<1>6. Rows(prog) = F[N]
  BY Zenon DEF Rows, Runs, F
<1>7. F[N] \in LineState
  BY <1>1, <1>5
<1>8. Rows(prog).rows \in Seq(Row)
  BY <1>6, <1>7, StateSet DEF LineState
<1>9. \A r \in Row : r.address \in Int /\ r.end \in BOOLEAN
  BY DEF Row
<1> QED BY <1>8, <1>9 DEF IsTable

(* LookupCovers: the lookup of an address agrees with the sequences of the *)
(* table in the rows of every line program, for every header.              *)
THEOREM LookupIsCovered == Spec => []LookupCovers
<1>1. Inputs => LookupCovers
  <2> SUFFICES ASSUME Inputs, kind = "line", NEW a \in 0 .. 9
               PROVE  LookupAgrees(Rows(items).rows, a)
    BY Zenon DEF LookupCovers
  <2>1. items \in Seq(LineOps)
    BY DEF Inputs, Items, Alphabet
  <2>2. \A i \in LineOps : IsInstruction(i)
    BY DEF LineOps, Op, IsInstruction
  <2>3. IsTable(Rows(items).rows)
    BY <2>1, <2>2, LineTableAssumption, RowsAreTable
  <2> QED BY <2>3, LookupIsExact
<1>2. Spec => []Inputs
  BY InputsGrow
<1> QED BY <1>1, <1>2, PTL

-------------------------------------------------------------------------------
(* The search of .eh_frame_hdr. *)

(* What the search comes to between low and high, when the entries at or   *)
(* below the pc are the first s.                                           *)
Split(s, low, high) ==
  IF low > high THEN high + 1 ELSE IF s <= low THEN low ELSE IF s > high THEN high + 1 ELSE s

(* A turn of the loop, with find for the turns behind it. *)
Halved(starts, pc, find, low, high) ==
  LET mid   == (low + high) \div 2
      entry == starts[mid + 1]
  IN  IF low > high THEN high + 1
      ELSE IF entry < pc THEN find[<<mid + 1, high>>]
      ELSE IF entry > pc THEN (IF mid = 0 THEN 0 ELSE find[<<low, mid - 1>>])
      ELSE mid + 1

(* The middle lies between. *)
LEMMA Middle ==
  ASSUME NEW low \in Nat, NEW high \in Int, low <= high
  PROVE  (low + high) \div 2 \in low .. high
<1> DEFINE q == (low + high) \div 2
           r == (low + high) % 2
<1>1. q \in Int /\ r \in 0 .. 1 /\ low + high = 2 * q + r
  OBVIOUS
<1> HIDE DEF q, r
<1>2. q \in low .. high
  BY <1>1
<1> QED BY <1>2 DEF q

(* Of n entries in ascending order, the first s are at or below the pc. *)
SplitAt(n, starts, pc, s) ==
  /\ n \in Nat /\ starts \in [1 .. n -> Int] /\ pc \in Int /\ s \in 0 .. n
  /\ \A k \in 1 .. n : k <= s <=> starts[k] <= pc
  /\ \A j, k \in 1 .. n : j < k => starts[j] < starts[k]

(* The turns in which low and high are closer. *)
Closer(n, s, find, low, high) ==
  \A l \in 0 .. n, h \in -1 .. n - 1 : h - l < high - low => find[<<l, h>>] = Split(s, l, h)

(* Each turn comes to the same if the turns behind it do. *)
LEMMA HalvedSplits ==
  ASSUME NEW n, NEW starts, NEW pc, NEW s, SplitAt(n, starts, pc, s),
         NEW low \in 0 .. n, NEW high \in -1 .. n - 1, NEW find, Closer(n, s, find, low, high)
  PROVE  Halved(starts, pc, find, low, high) = Split(s, low, high)
<1> USE DEF SplitAt, Closer
<1> DEFINE mid == (low + high) \div 2
           entry == starts[mid + 1]
           t == Halved(starts, pc, find, low, high)
<1>1. CASE low > high
  BY <1>1 DEF Halved, Split
<1> SUFFICES ASSUME low <= high PROVE t = Split(s, low, high)
  BY <1>1
<1>2. mid \in low .. high
  BY Middle
<1>3. /\ entry < pc => t = find[<<mid + 1, high>>]
      /\ entry > pc => t = IF mid = 0 THEN 0 ELSE find[<<low, mid - 1>>]
      /\ ~(entry < pc) /\ ~(entry > pc) => t = mid + 1
  <2> HIDE DEF mid, entry
  <2>1. t = IF low > high THEN high + 1
            ELSE IF entry < pc THEN find[<<mid + 1, high>>]
            ELSE IF entry > pc THEN (IF mid = 0 THEN 0 ELSE find[<<low, mid - 1>>])
            ELSE mid + 1
    BY DEF Halved, mid, entry
  <2>2. ~(low > high)
    OBVIOUS
  <2>3. entry \in Int
    <3>1. mid + 1 \in 1 .. n
      BY <1>2
    <3> QED BY <3>1 DEF entry
  <2> HIDE DEF t
  <2> QED BY <2>1, <2>2, <2>3
<1>4. mid + 1 \in 1 .. n /\ entry \in Int
  <2> HIDE DEF mid
  <2>1. mid + 1 \in 1 .. n
    BY <1>2
  <2> QED BY <2>1
<1>5. mid + 1 <= s <=> entry <= pc
  <2> HIDE DEF mid
  <2> QED BY <1>4
<1> HIDE DEF t
<1>6. CASE entry < pc
  <2>1. s >= mid + 1
    BY <1>4, <1>5, <1>6
  <2> HIDE DEF mid, entry
  <2>2. mid + 1 \in 0 .. n /\ high - (mid + 1) < high - low
    BY <1>2
  <2>3. t = Split(s, mid + 1, high)
    BY <1>3, <1>6, <2>2
  <2> QED BY <1>2, <2>1, <2>3 DEF Split
<1>7. CASE entry > pc
  <2>1. s <= mid
    <3> HIDE DEF mid, entry
    <3> QED BY <1>2, <1>4, <1>5, <1>7
  <2> HIDE DEF mid, entry
  <2>2. CASE mid = 0
    BY <1>2, <1>3, <1>7, <2>1, <2>2 DEF Split
  <2>3. CASE mid # 0
    <3>1. mid - 1 \in -1 .. n - 1 /\ (mid - 1) - low < high - low
      BY <1>2
    <3>2. t = Split(s, low, mid - 1)
      BY <1>3, <1>7, <2>3, <3>1
    <3> QED BY <1>2, <2>1, <3>2 DEF Split
  <2> QED BY <2>2, <2>3
<1>8. CASE ~(entry < pc) /\ ~(entry > pc)
  <2>1. s = mid + 1
    <3> HIDE DEF mid
    <3>1. s >= mid + 1 /\ entry = pc
      BY <1>4, <1>5, <1>8
    <3>2. ~(s > mid + 1)
      <4> SUFFICES ASSUME s > mid + 1 PROVE FALSE
        OBVIOUS
      <4>1. s \in 1 .. n
        BY <1>4
      <4>2. entry < starts[s] /\ starts[s] <= pc
        BY <1>4, <4>1
      <4> HIDE DEF entry
      <4>3. starts[s] \in Int
        BY <4>1
      <4> QED BY <3>1, <4>2, <4>3
    <3> QED BY <1>2, <3>1, <3>2
  <2> HIDE DEF mid, entry
  <2> QED BY <1>2, <1>3, <1>8, <2>1 DEF Split
<1> QED BY <1>6, <1>7, <1>8

(* The search as a function of low and high. *)
Halves(starts, pc, n, f) ==
  [w \in (0 .. n) \X (-1 .. n - 1) |-> Halved(starts, pc, f, w[1], w[2])]

LEMMA SearchSplits ==
  ASSUME NEW n, NEW starts, NEW pc, NEW s, SplitAt(n, starts, pc, s), Len(starts) = n
  PROVE  Search(starts, pc) = s
<1> DEFINE D == (0 .. n) \X (-1 .. n - 1)
           F == CHOOSE f : f = Halves(starts, pc, n, f)
           G == [w \in D |-> Split(s, w[1], w[2])]
<1>1. ASSUME NEW find, NEW low \in 0 .. n, NEW high \in -1 .. n - 1, Closer(n, s, find, low, high)
      PROVE  Halved(starts, pc, find, low, high) = Split(s, low, high)
  BY <1>1, HalvedSplits
<1>0. n \in Nat /\ s \in 0 .. n
  BY DEF SplitAt
<1>2. ASSUME NEW w \in D PROVE w[1] \in 0 .. n /\ w[2] \in -1 .. n - 1 /\ w = <<w[1], w[2]>>
  OBVIOUS
<1>3. F = Halves(starts, pc, n, F)
  <2>1. \A l \in 0 .. n, h \in -1 .. n - 1 : G[<<l, h>>] = Split(s, l, h)
    OBVIOUS
  <2>2. ASSUME NEW w \in D PROVE G[w] = Halved(starts, pc, G, w[1], w[2])
    <3>1. Closer(n, s, G, w[1], w[2])
      <4> HIDE DEF G
      <4> QED BY <2>1 DEF Closer
    <3>2. G[w] = Split(s, w[1], w[2])
      OBVIOUS
    <3> HIDE DEF G
    <3> QED BY <1>1, <1>2, <3>1, <3>2
  <2>3. G = [w \in D |-> G[w]]
    OBVIOUS
  <2> HIDE DEF G
  <2>4. G = Halves(starts, pc, n, G)
    BY <2>2, <2>3 DEF Halves
  <2> QED BY <2>4
<1> HIDE DEF F, G
<1>4. ASSUME NEW l \in 0 .. n, NEW h \in -1 .. n - 1
      PROVE  F[<<l, h>>] = Halved(starts, pc, F, l, h)
  <2>1. <<l, h>> \in D /\ <<l, h>>[1] = l /\ <<l, h>>[2] = h
    OBVIOUS
  <2>2. F[<<l, h>>] = Halved(starts, pc, F, <<l, h>>[1], <<l, h>>[2])
    BY <1>3, <2>1, Zenon DEF Halves
  <2> QED BY <2>1, <2>2
(* The turns are counted by how far low and high are apart. *)
<1> DEFINE Wrong(m) == \E l \in 0 .. n, h \in -1 .. n - 1 :
                         h - l + n + 1 = m /\ F[<<l, h>>] # Split(s, l, h)
           Bad == {m \in Nat : Wrong(m)}
<1>5. Bad = {}
  <2> SUFFICES ASSUME Bad # {} PROVE FALSE
    OBVIOUS
  <2>1. PICK m \in Bad : \A k \in Bad : m <= k
    <3>1. Bad \subseteq Nat
      OBVIOUS
    <3> HIDE DEF Bad
    <3> QED BY <3>1, NatMin
  <2>2. PICK l \in 0 .. n, h \in -1 .. n - 1 :
          h - l + n + 1 = m /\ F[<<l, h>>] # Split(s, l, h)
    BY <2>1
  <2>3. Closer(n, s, F, l, h)
    <3> SUFFICES ASSUME NEW x \in 0 .. n, NEW y \in -1 .. n - 1, y - x < h - l
                 PROVE  F[<<x, y>>] = Split(s, x, y)
      BY DEF Closer
    <3>1. y - x + n + 1 \in Nat /\ ~(m <= y - x + n + 1)
      BY <1>0, <2>2
    <3>2. y - x + n + 1 \notin Bad
      <4> HIDE DEF Bad
      <4> QED BY <2>1, <3>1
    <3> QED BY <3>1, <3>2
  <2>4. Halved(starts, pc, F, l, h) = Split(s, l, h)
    BY <1>1, <2>3
  <2> QED BY <1>4, <2>2, <2>4
<1>6. F[<<0, n - 1>>] = Split(s, 0, n - 1)
  <2>1. 0 \in 0 .. n /\ n - 1 \in -1 .. n - 1 /\ (n - 1) - 0 + n + 1 \in Nat
    BY <1>0
  <2>2. ~Wrong((n - 1) - 0 + n + 1)
    <3> HIDE DEF Wrong
    <3> QED BY <1>5, <2>1
  <2> QED BY <2>1, <2>2
<1>7. Split(s, 0, n - 1) = s
  BY <1>0 DEF Split
<1>8. Search(starts, pc) = F[<<0, n - 1>>]
  <2> DEFINE N == Len(starts)
  <2>1. Search(starts, pc) = (CHOOSE f : f = Halves(starts, pc, N, f))[<<0, N - 1>>]
    BY Zenon DEF Search, Halves, Halved
  <2>2. N = n
    OBVIOUS
  <2> HIDE DEF N
  <2> QED BY <2>1, <2>2, Zenon DEF F
<1> QED BY <1>6, <1>7, <1>8

(* The search of .eh_frame_hdr finds the last entry at or below the pc, or *)
(* none when the first lies above it, in every table whose entries are in  *)
(* ascending order, of any length.                                         *)
THEOREM SearchIsExact ==
  ASSUME NEW starts \in Seq(Int), NEW pc \in Int,
         \A j, k \in DOMAIN starts : j < k => starts[j] < starts[k]
  PROVE  SearchAgrees(starts, pc)
<1> DEFINE n == Len(starts)
           T == {0} \cup {k \in DOMAIN starts : starts[k] <= pc}
           s == Max(T)
<1>1. n \in Nat /\ DOMAIN starts = 1 .. n /\ starts \in [1 .. n -> Int]
  OBVIOUS
<1>2. s \in T /\ \A k \in T : k <= s
  <2>1. T \subseteq 0 .. n /\ T # {}
    BY <1>1
  <2> HIDE DEF T, n
  <2> QED BY <1>1, <2>1, LargestOf
<1> HIDE DEF s
<1>3. s \in 0 .. n
  BY <1>1, <1>2
<1>4. ASSUME NEW k \in 1 .. n PROVE k <= s <=> starts[k] <= pc
  <2>1. starts[k] <= pc => k <= s
    BY <1>1, <1>2
  <2>2. ASSUME k <= s PROVE starts[k] <= pc
    <3>1. s \in 1 .. n /\ starts[s] <= pc
      BY <1>1, <1>2, <1>3, <2>2
    <3>2. k = s \/ starts[k] < starts[s]
      BY <1>1, <1>3, <2>2, <3>1
    <3>3. starts[k] \in Int /\ starts[s] \in Int
      BY <1>1, <3>1
    <3> QED BY <3>1, <3>2, <3>3
  <2> QED BY <2>1, <2>2
<1>5. Search(starts, pc) = s
  <2>1. \A j, k \in 1 .. n : j < k => starts[j] < starts[k]
    BY <1>1
  <2>2. n = Len(starts)
    OBVIOUS
  <2> HIDE DEF n
  <2>3. SplitAt(n, starts, pc, s)
    BY <1>1, <1>3, <1>4, <2>1 DEF SplitAt
  <2> QED BY <2>2, <2>3, SearchSplits
<1> QED BY <1>5, Zenon DEF SearchAgrees, s
=================================================================================
