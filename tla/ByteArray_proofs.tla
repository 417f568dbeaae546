--------------------------- MODULE ByteArray_proofs ---------------------------
(***************************************************************************)
(* Proofs about ByteArray, for every size of a byte, a block and a         *)
(* size_t, every number of every width and every string.                   *)
(***************************************************************************)
EXTENDS ByteArray, FiniteSetTheorems, SequenceTheorems, WellFoundedInduction,
        NaturalsInduction, TLAPS

-----------------------------------------------------------------------------
(* Induction and recursion, with sets and functions in the place of        *)
(* predicates and operators.                                               *)

\* A set of natural numbers has a least element.
LEMMA Least ==
  ASSUME NEW T \in SUBSET Nat, T # {}
  PROVE  \E x \in T : \A y \in T : x <= y
<1> DEFINE Less == {ss \in Nat \X Nat : ss[1] < ss[2]}
<1>1. IsWellFoundedOn(Less, Nat)
  BY NatLessThanWellFounded DEF OpToRel
<1>2. PICK x \in T : \A y \in T : ~(<<y, x>> \in Less)
  BY <1>1, WFMin, Zenon
<1>3. ASSUME NEW y \in T PROVE x <= y
  <2>1. x \in Nat /\ y \in Nat
    OBVIOUS
  <2>2. ~(y < x)
    BY <1>2, <2>1
  <2> QED
    BY <2>1, <2>2
<1> QED
  BY <1>3

LEMMA Induct ==
  ASSUME NEW S, 0 \in S, \A n \in Nat : n \in S => n + 1 \in S
  PROVE  \A n \in Nat : n \in S
<1> DEFINE T == Nat \ S
<1> SUFFICES ASSUME T # {} PROVE FALSE
  OBVIOUS
<1>1. PICK x \in T : \A y \in T : x <= y
  BY Least, Zenon
<1>2. x \in Nat /\ x # 0
  OBVIOUS
<1>3. x - 1 \in Nat /\ x - 1 \notin T
  BY <1>1, <1>2
<1> QED
  BY <1>2, <1>3

\* g does n rounds of a loop that starts with a and goes on with h.
Runs(g, n, a, h) == g[0] = a /\ \A i \in 0..(n - 1) : g[i + 1] = h[i][g[i]]

LEMMA RunsAgree ==
  ASSUME NEW n \in Nat, NEW a, NEW h, NEW f, NEW g, Runs(f, n, a, h), Runs(g, n, a, h)
  PROVE  \A i \in 0..n : f[i] = g[i]
<1> DEFINE S == {i \in Nat : i <= n => f[i] = g[i]}
<1>1. 0 \in S
  BY DEF Runs
<1>2. ASSUME NEW i \in Nat, i \in S PROVE i + 1 \in S
  <2> SUFFICES ASSUME i + 1 <= n PROVE f[i + 1] = g[i + 1]
    OBVIOUS
  <2>1. i \in 0..(n - 1) /\ f[i] = g[i]
    BY <1>2
  <2> QED
    BY <2>1 DEF Runs
<1> HIDE DEF S
<1>3. \A i \in Nat : i \in S
  BY <1>1, <1>2, Induct
<1> QED
  BY <1>3 DEF S

\* A loop has a function that says what it has after each round.
Loops(T, a, h) == \E g \in [Nat -> T] : g[0] = a /\ \A n \in Nat : g[n + 1] = h[n][g[n]]

LEMMA Recursion ==
  ASSUME NEW T, NEW a \in T, NEW h \in [Nat -> [T -> T]]
  PROVE  Loops(T, a, h)
<1> DEFINE S == {n \in Nat : \E f \in [0..n -> T] : Runs(f, n, a, h)}
<1>1. 0 \in S
  <2> DEFINE f == [i \in 0..0 |-> a]
  <2>1. f \in [0..0 -> T] /\ Runs(f, 0, a, h)
    BY DEF Runs
  <2> QED
    BY <2>1
<1>2. ASSUME NEW n \in Nat, n \in S PROVE n + 1 \in S
  <2>1. PICK f \in [0..n -> T] : Runs(f, n, a, h)
    BY <1>2
  <2> DEFINE e == [i \in 0..(n + 1) |-> IF i = n + 1 THEN h[n][f[n]] ELSE f[i]]
  <2>2. e \in [0..(n + 1) -> T]
    <3>1. h[n][f[n]] \in T
      OBVIOUS
    <3> QED
      BY <3>1
  <2>3. Runs(e, n + 1, a, h)
    <3>1. e[0] = a
      BY <2>1 DEF Runs
    <3>2. ASSUME NEW i \in 0..n PROVE e[i + 1] = h[i][e[i]]
      <4>1. CASE i = n
        BY <4>1
      <4>2. CASE i # n
        <5>1. i \in 0..(n - 1)
          BY <4>2
        <5>2. f[i + 1] = h[i][f[i]]
          BY <2>1, <5>1 DEF Runs
        <5> QED
          BY <5>1, <5>2
      <4> QED
        BY <4>1, <4>2
    <3>3. 0..((n + 1) - 1) = 0..n
      OBVIOUS
    <3> HIDE DEF e
    <3> QED
      BY <3>1, <3>2, <3>3 DEF Runs
  <2> QED
    BY <2>2, <2>3
<1> DEFINE Part(n) == CHOOSE f : f \in [0..n -> T] /\ Runs(f, n, a, h)
           g == [n \in Nat |-> Part(n)[n]]
<1>3. \A n \in Nat : n \in S
  <2> HIDE DEF S
  <2> QED
    BY <1>1, <1>2, Induct
<1>4. ASSUME NEW n \in Nat PROVE Part(n) \in [0..n -> T] /\ Runs(Part(n), n, a, h)
  BY <1>3
<1>5. g \in [Nat -> T]
  BY <1>4
<1>6. g[0] = a
  BY <1>4 DEF Runs
<1>7. ASSUME NEW n \in Nat PROVE g[n + 1] = h[n][g[n]]
  <2> HIDE DEF Part
  <2>1. Runs(Part(n + 1), n + 1, a, h)
    BY <1>4
  <2>2. Runs(Part(n + 1), n, a, h) /\ Part(n + 1)[n + 1] = h[n][Part(n + 1)[n]]
    BY <2>1 DEF Runs
  <2>3. Part(n + 1)[n] = Part(n)[n]
    BY <1>4, <2>2, RunsAgree
  <2> QED
    BY <2>2, <2>3
<1> QED
  BY <1>5, <1>6, <1>7 DEF Loops

-----------------------------------------------------------------------------
(* Shifts. *)

LEMMA Constants ==
  /\ Bits \in Nat /\ Bits > 1 /\ BaseSize \in Nat /\ BaseSize > 0
  /\ SizeMax \in Nat /\ BaseSize <= SizeMax /\ MaxOps \in Nat
  BY ByteArrayAssumption

LEMMA ShiftDef ==
  /\ Shift \in [Nat -> Nat] /\ Shift[0] = 1
  /\ \A n \in Nat : Shift[n + 1] = 2 * Shift[n]
<1> DEFINE h == [n \in Nat |-> [x \in Nat |-> 2 * x]]
<1>1. PICK g \in [Nat -> Nat] : g[0] = 1 /\ \A n \in Nat : g[n + 1] = h[n][g[n]]
  <2>1. h \in [Nat -> [Nat -> Nat]] /\ 1 \in Nat
    OBVIOUS
  <2> HIDE DEF h
  <2>2. Loops(Nat, 1, h)
    BY <2>1, Recursion, Zenon
  <2> QED
    BY <2>2 DEF Loops
<1>2. g = [k \in Nat |-> IF k = 0 THEN 1 ELSE 2 * g[k - 1]]
  <2>1. ASSUME NEW k \in Nat, k # 0 PROVE g[k] = 2 * g[k - 1]
    <3>1. k - 1 \in Nat /\ (k - 1) + 1 = k
      BY <2>1
    <3> QED
      BY <1>1, <3>1
  <2> QED
    BY <1>1, <2>1
<1>3. Shift = [k \in Nat |-> IF k = 0 THEN 1 ELSE 2 * Shift[k - 1]]
  BY <1>2 DEF Shift
<1>4. Shift[0] = 1 /\ \A n \in Nat : Shift[n + 1] = 2 * Shift[n]
  <2>1. ASSUME NEW n \in Nat PROVE n + 1 \in Nat /\ n + 1 # 0 /\ (n + 1) - 1 = n
    OBVIOUS
  <2> QED
    BY <1>3, <2>1
<1>5. \A n \in Nat : Shift[n] \in Nat
  <2> DEFINE S == {n \in Nat : Shift[n] \in Nat}
  <2>1. 0 \in S /\ \A n \in Nat : n \in S => n + 1 \in S
    BY <1>4
  <2> HIDE DEF S
  <2>2. \A n \in Nat : n \in S
    BY <2>1, Induct
  <2> QED
    BY <2>2 DEF S
<1> QED
  BY <1>3, <1>4, <1>5

LEMMA ShiftSum ==
  ASSUME NEW m \in Nat, NEW n \in Nat
  PROVE  Shift[m + n] = Shift[m] * Shift[n]
<1> DEFINE S == {k \in Nat : Shift[m + k] = Shift[m] * Shift[k]}
<1>1. 0 \in S
  BY ShiftDef
<1>2. ASSUME NEW k \in Nat, k \in S PROVE k + 1 \in S
  <2>1. Shift[m + (k + 1)] = 2 * Shift[m + k] /\ Shift[k + 1] = 2 * Shift[k]
    <3>1. m + k \in Nat /\ m + (k + 1) = (m + k) + 1
      OBVIOUS
    <3> QED
      BY <3>1, ShiftDef
  <2>2. Shift[m] \in Nat /\ Shift[k] \in Nat
    BY ShiftDef
  <2>3. 2 * (Shift[m] * Shift[k]) = Shift[m] * (2 * Shift[k])
    BY <2>2
  <2> QED
    BY <1>2, <2>1, <2>2, <2>3
<1> HIDE DEF S
<1>3. \A k \in Nat : k \in S
  BY <1>1, <1>2, Induct
<1> QED
  BY <1>3 DEF S

LEMMA ShiftPos ==
  ASSUME NEW n \in Nat
  PROVE  Shift[n] \in Nat /\ Shift[n] > n
<1> DEFINE S == {k \in Nat : Shift[k] > k}
<1>1. 0 \in S /\ \A k \in Nat : k \in S => k + 1 \in S
  BY ShiftDef
<1> HIDE DEF S
<1>2. \A k \in Nat : k \in S
  BY <1>1, Induct
<1> QED
  BY <1>2, ShiftDef DEF S

LEMMA ShiftMono ==
  ASSUME NEW m \in Nat, NEW n \in Nat, m <= n
  PROVE  Shift[m] <= Shift[n]
<1>1. n - m \in Nat /\ m + (n - m) = n
  OBVIOUS
<1>2. Shift[n] = Shift[m] * Shift[n - m]
  BY <1>1, ShiftSum
<1>3. Shift[m] \in Nat /\ Shift[n - m] \in Nat /\ Shift[n - m] > 0
  BY <1>1, ShiftPos
<1> QED
  BY <1>2, <1>3

-----------------------------------------------------------------------------
(* Places in the chain. *)

LEMMA MinTwo ==
  ASSUME NEW a \in Int, NEW b \in Int
  PROVE  Min({a, b}) = IF a <= b THEN a ELSE b
  BY DEF Min

LEMMA Locate ==
  ASSUME NEW p \in Nat
  PROVE  /\ NodeAt(p) \in Nat /\ NodeAt(p) >= 1 /\ OffsetAt(p) \in 0..(BaseSize - 1)
         /\ p = (NodeAt(p) - 1) * BaseSize + OffsetAt(p)
<1>1. BaseSize \in Nat /\ BaseSize > 0
  BY Constants
<1> QED
  BY <1>1 DEF NodeAt, OffsetAt

LEMMA LocateBlock ==
  ASSUME NEW k \in Nat, k >= 1, NEW o \in 0..(BaseSize - 1)
  PROVE  /\ (k - 1) * BaseSize + o \in Nat
         /\ NodeAt((k - 1) * BaseSize + o) = k /\ OffsetAt((k - 1) * BaseSize + o) = o
<1>1. BaseSize \in Nat /\ BaseSize > 0
  BY Constants
<1> DEFINE q == k - 1
<1>2. q \in Nat /\ q + 1 = k
  OBVIOUS
<1>3. q * BaseSize + o \in Nat
  BY <1>1, <1>2
<1>4. (q * BaseSize + o) \div BaseSize = q /\ (q * BaseSize + o) % BaseSize = o
  <2> HIDE DEF q
  <2> QED
    BY <1>1, <1>2
<1> QED
  BY <1>2, <1>3, <1>4 DEF NodeAt, OffsetAt

\* Blocks one after the other.
LEMMA Blockwise ==
  ASSUME NEW k \in Int, NEW n \in Int
  PROVE  /\ k * BaseSize \in Int /\ n * BaseSize \in Int
         /\ (k < n => k * BaseSize + BaseSize <= n * BaseSize)
<1>1. BaseSize \in Nat /\ BaseSize > 0
  BY Constants
<1>2. ASSUME k < n PROVE k * BaseSize + BaseSize <= n * BaseSize
  <2>1. PICK d \in Nat : n = k + 1 + d
    <3>1. n - k - 1 \in Nat /\ n = k + 1 + (n - k - 1)
      BY <1>2
    <3> QED
      BY <3>1
  <2>2. n * BaseSize = k * BaseSize + BaseSize + d * BaseSize /\ d * BaseSize >= 0
    BY <1>1, <2>1
  <2> QED
    BY <1>1, <2>2
<1> QED
  BY <1>1, <1>2

LEMMA LocateIn ==
  ASSUME NEW p \in Nat, NEW n \in Nat
  PROVE  p < n * BaseSize <=> NodeAt(p) <= n
<1> DEFINE k == NodeAt(p) - 1
<1>1. /\ k \in Nat /\ NodeAt(p) = k + 1 /\ p = k * BaseSize + OffsetAt(p)
      /\ OffsetAt(p) \in 0..(BaseSize - 1)
  BY Locate
<1>2. BaseSize \in Nat /\ BaseSize > 0
  BY Constants
<1>3. k < n => k * BaseSize + BaseSize <= n * BaseSize
  BY <1>1, Blockwise
<1>4. n <= k => n * BaseSize <= k * BaseSize
  <2>1. CASE n = k
    BY <2>1, <1>1, <1>2
  <2>2. CASE n < k
    BY <2>2, <1>1, <1>2, Blockwise
  <2> QED
    BY <1>1, <2>1, <2>2
<1>5. k * BaseSize \in Int /\ n * BaseSize \in Int
  BY <1>1, Blockwise
<1> HIDE DEF k
<1> QED
  BY <1>1, <1>2, <1>3, <1>4, <1>5

-----------------------------------------------------------------------------
(* Transfers. *)

\* The byte at position i of a chain.
At(blocks, i) == blocks[NodeAt(i)][OffsetAt(i)]

LEMMA BlocksType ==
  ASSUME NEW blocks \in Seq(Block), NEW i \in Nat, i < Len(blocks) * BaseSize
  PROVE  At(blocks, i) \in Byte
<1>1. NodeAt(i) \in 1..Len(blocks) /\ OffsetAt(i) \in 0..(BaseSize - 1)
  BY Locate, LocateIn
<1>2. blocks[NodeAt(i)] \in Block
  BY <1>1
<1> QED
  BY <1>1, <1>2 DEF At, Block

\* The piece in block k of n bytes from p: where it starts in the block, what
\* is done before it, and its length.
Off(p, k) == IF k = NodeAt(p) THEN OffsetAt(p) ELSE 0
Done(p, k) == IF k = NodeAt(p) THEN 0 ELSE (k - NodeAt(p)) * BaseSize - OffsetAt(p)
PieceLen(p, n, k) == Min({n - Done(p, k), BaseSize - Off(p, k)})
Piece(p, n, k) == [node |-> k, at |-> Off(p, k), from |-> Done(p, k), len |-> PieceLen(p, n, k)]

LEMMA SpansArePieces ==
  ASSUME NEW blocks, NEW p, NEW n
  PROVE  Spans(blocks, p, n) =
            {Piece(p, n, k) : k \in {k \in NodeAt(p)..Len(blocks) : Done(p, k) < n}}
  BY DEF Spans, Piece, PieceLen, Done, Off

LEMMA PieceStart ==
  ASSUME NEW p \in Nat, NEW k \in Nat, NodeAt(p) <= k
  PROVE  /\ Off(p, k) \in 0..(BaseSize - 1) /\ Done(p, k) \in Nat
         /\ (k - 1) * BaseSize \in Int /\ Done(p, k) - Off(p, k) = (k - 1) * BaseSize - p
<1> DEFINE f == NodeAt(p)
           o == OffsetAt(p)
           B == BaseSize
<1>1. f \in Nat /\ f >= 1 /\ o \in 0..(B - 1) /\ p = (f - 1) * B + o
  BY Locate
<1>2. B \in Nat /\ B > 0
  BY Constants
<1>3. (k - 1) * B \in Int
  BY <1>2
<1>4. CASE k = f
  BY <1>1, <1>2, <1>3, <1>4 DEF Off, Done
<1>5. CASE k # f
  <2> DEFINE d == k - f
             c == d * B
             e == (f - 1) * B
  <2>1. Off(p, k) = 0 /\ Done(p, k) = c - o
    BY <1>5 DEF Off, Done
  <2>2. d \in Int /\ 0 < d /\ d >= 1
    BY <1>1, <1>5
  <2>3. c \in Int /\ B <= c
    <3> HIDE DEF d
    <3>1. 0 * B + B <= d * B
      BY <2>2, Blockwise
    <3> QED
      BY <1>2, <2>2, <3>1
  <2>4. (k - 1) * B = e + c /\ e \in Int
    BY <1>1, <1>2
  <2> HIDE DEF f, o, B, c, d, e
  <2>5. p = e + o /\ o \in 0..(B - 1)
    BY <1>1 DEF e
  <2>6. Done(p, k) \in Nat
    BY <1>2, <2>1, <2>3, <2>5
  <2>7. Done(p, k) - Off(p, k) = (k - 1) * B - p
    BY <1>2, <2>1, <2>3, <2>4, <2>5
  <2>8. Off(p, k) \in 0..(B - 1)
    BY <1>2, <2>1
  <2> QED
    BY <1>3, <2>6, <2>7, <2>8 DEF B
<1> QED
  BY <1>4, <1>5

LEMMA PieceEnd ==
  ASSUME NEW p \in Nat, NEW n \in Nat, NEW k \in Nat, NodeAt(p) <= k, Done(p, k) < n
  PROVE  /\ PieceLen(p, n, k) \in Nat
         /\ PieceLen(p, n, k) = IF n - Done(p, k) <= BaseSize - Off(p, k) THEN n - Done(p, k)
                                ELSE BaseSize - Off(p, k)
<1>1. Off(p, k) \in 0..(BaseSize - 1) /\ Done(p, k) \in Nat /\ BaseSize \in Nat
  BY PieceStart, Constants
<1>2. n - Done(p, k) \in Nat /\ BaseSize - Off(p, k) \in Nat
  BY <1>1
<1>3. \A a, b \in Nat : Min({a, b}) = IF a <= b THEN a ELSE b
  BY MinTwo
<1> QED
  BY <1>2, <1>3 DEF PieceLen

\* A piece lies in one block, and its bytes are at their distance from p.
LEMMA SpanShape ==
  ASSUME NEW blocks \in Seq(Block), NEW p \in Nat, NEW n \in Nat, NEW x \in Spans(blocks, p, n)
  PROVE  /\ x.node \in 1..Len(blocks) /\ x.at \in 0..(BaseSize - 1)
         /\ x.from \in Nat /\ x.len \in Nat /\ x.len <= BaseSize - x.at /\ x.from + x.len <= n
         /\ x.from - x.at = (x.node - 1) * BaseSize - p
<1>1. PICK k \in NodeAt(p)..Len(blocks) : Done(p, k) < n /\ x = Piece(p, n, k)
  BY SpansArePieces
<1>2. NodeAt(p) \in Nat /\ NodeAt(p) >= 1 /\ Len(blocks) \in Nat /\ BaseSize \in Nat
  BY Locate, Constants
<1>3. k \in Nat /\ NodeAt(p) <= k /\ k \in 1..Len(blocks)
  BY <1>2
<1>4. x.node = k /\ x.at = Off(p, k) /\ x.from = Done(p, k) /\ x.len = PieceLen(p, n, k)
  BY <1>1 DEF Piece
<1>5. /\ Off(p, k) \in 0..(BaseSize - 1) /\ Done(p, k) \in Nat
      /\ Done(p, k) - Off(p, k) = (k - 1) * BaseSize - p
  BY <1>3, PieceStart
<1>6. /\ PieceLen(p, n, k) \in Nat /\ PieceLen(p, n, k) <= BaseSize - Off(p, k)
      /\ Done(p, k) + PieceLen(p, n, k) <= n
  <2>1. PieceLen(p, n, k) = IF n - Done(p, k) <= BaseSize - Off(p, k) THEN n - Done(p, k)
                            ELSE BaseSize - Off(p, k)
    BY <1>1, <1>3, PieceEnd
  <2> QED
    BY <1>1, <1>2, <1>5, <2>1, SMTT(30)
<1> QED
  BY <1>3, <1>4, <1>5, <1>6

\* The bytes it holds are where the chain has them.
LEMMA SpanPlace ==
  ASSUME NEW blocks \in Seq(Block), NEW p \in Nat, NEW n \in Nat, NEW x \in Spans(blocks, p, n),
         NEW i \in 1..n, Holds(x, i)
  PROVE  /\ p + (i - 1) \in Nat
         /\ x.node = NodeAt(p + (i - 1)) /\ x.at + (i - 1 - x.from) = OffsetAt(p + (i - 1))
<1> DEFINE k == x.node
           o == x.at + (i - 1 - x.from)
           b == (k - 1) * BaseSize
<1>1. /\ k \in 1..Len(blocks) /\ x.at \in 0..(BaseSize - 1)
      /\ x.from \in Nat /\ x.len \in Nat /\ x.len <= BaseSize - x.at /\ x.from + x.len <= n
      /\ x.from - x.at = b - p
  BY SpanShape
<1>2. BaseSize \in Nat /\ Len(blocks) \in Nat
  BY Constants
<1>3. b \in Int /\ k \in Nat /\ k >= 1
  BY <1>1, <1>2, SMTT(30)
<1> HIDE DEF b
<1>4. o \in 0..(BaseSize - 1)
  <2>1. ASSUME NEW at \in Nat, NEW from \in Nat, NEW len \in Nat, len <= BaseSize - at,
               i - 1 \in from..(from + len - 1)
        PROVE  at + (i - 1 - from) \in 0..(BaseSize - 1)
    BY <1>2, <2>1
  <2>2. i - 1 \in x.from..(x.from + x.len - 1) /\ x.at \in Nat
    BY <1>1 DEF Holds
  <2> QED
    BY <1>1, <2>1, <2>2
<1>5. p + (i - 1) = b + o /\ p + (i - 1) \in Nat
  <2>1. ASSUME NEW at \in Nat, NEW from \in Nat, NEW c \in Int, from - at = c - p
        PROVE  p + (i - 1) = c + (at + (i - 1 - from)) /\ p + (i - 1) \in Nat
    BY <2>1
  <2>2. x.at \in Nat
    BY <1>1
  <2> QED
    BY <1>1, <1>3, <2>1, <2>2
<1> HIDE DEF o, k
<1>6. NodeAt(b + o) = k /\ OffsetAt(b + o) = o
  BY <1>3, <1>4, LocateBlock DEF b
<1>7. NodeAt(p + (i - 1)) = k /\ OffsetAt(p + (i - 1)) = o
  BY <1>5, <1>6
<1> QED
  BY <1>5, <1>7 DEF k, o

LEMMA SpanExists ==
  ASSUME NEW blocks \in Seq(Block), NEW p \in Nat, NEW n \in Nat, p + n <= Len(blocks) * BaseSize,
         NEW i \in 1..n
  PROVE  \E x \in Spans(blocks, p, n) : Holds(x, i)
<1> DEFINE a == p + (i - 1)
           k == NodeAt(a)
<1>1. BaseSize \in Nat /\ BaseSize > 0 /\ Len(blocks) \in Nat /\ a \in Nat /\ p <= a
  BY Constants
<1>2. Len(blocks) * BaseSize \in Int
  BY <1>1
<1> HIDE DEF a
<1>3. /\ k \in Nat /\ k >= 1 /\ OffsetAt(a) \in 0..(BaseSize - 1)
      /\ a = (k - 1) * BaseSize + OffsetAt(a)
  BY <1>1, Locate
<1> HIDE DEF k
<1>4. k <= Len(blocks)
  <2>1. a < Len(blocks) * BaseSize
    BY <1>1, <1>2 DEF a
  <2> QED
    BY <1>1, <2>1, LocateIn DEF k
<1>5. NodeAt(p) <= k
  <2>1. a < k * BaseSize
    BY <1>1, <1>3, LocateIn DEF k
  <2>2. k * BaseSize \in Int
    BY <1>1, <1>3
  <2>3. p < k * BaseSize
    BY <1>1, <2>1, <2>2
  <2> QED
    BY <1>3, <2>3, LocateIn
<1>6. /\ Off(p, k) \in 0..(BaseSize - 1) /\ Done(p, k) \in Nat
      /\ (k - 1) * BaseSize \in Int /\ Done(p, k) - Off(p, k) = (k - 1) * BaseSize - p
  BY <1>3, <1>5, PieceStart
<1>7. Off(p, k) <= OffsetAt(a)
  <2>1. CASE k = NodeAt(p)
    <3>1. p = (k - 1) * BaseSize + OffsetAt(p) /\ Off(p, k) = OffsetAt(p) /\ OffsetAt(p) \in Int
      BY <2>1, Locate, <1>1 DEF Off
    <3> QED
      BY <1>1, <1>3, <1>6, <3>1
  <2>2. CASE k # NodeAt(p)
    BY <2>2, <1>3 DEF Off
  <2> QED
    BY <2>1, <2>2
<1>8. i - 1 = Done(p, k) + (OffsetAt(a) - Off(p, k))
  <2> DEFINE c == (k - 1) * BaseSize
  <2>1. c \in Int /\ p + (i - 1) = c + OffsetAt(a) /\ Done(p, k) - Off(p, k) = c - p
    BY <1>3, <1>6 DEF a
  <2> HIDE DEF c
  <2>2. OffsetAt(a) \in Int /\ Done(p, k) \in Int /\ Off(p, k) \in Int /\ i \in Int
    BY <1>3, <1>6
  <2> QED
    BY <2>1, <2>2
<1>9. Done(p, k) <= i - 1 /\ Done(p, k) < n
  BY <1>1, <1>3, <1>6, <1>7, <1>8, SMTT(30)
<1>10. Piece(p, n, k) \in Spans(blocks, p, n)
  <2>1. NodeAt(p) \in Nat
    BY Locate
  <2>2. k \in NodeAt(p)..Len(blocks)
    BY <1>1, <1>3, <1>4, <1>5, <2>1
  <2> QED
    BY <1>9, <2>2, SpansArePieces
<1>11. i - 1 < Done(p, k) + PieceLen(p, n, k) /\ PieceLen(p, n, k) \in Nat
  <2>1. /\ PieceLen(p, n, k) \in Nat
        /\ PieceLen(p, n, k) = IF n - Done(p, k) <= BaseSize - Off(p, k) THEN n - Done(p, k)
                               ELSE BaseSize - Off(p, k)
    BY <1>3, <1>5, <1>9, PieceEnd
  <2>2. /\ OffsetAt(a) \in Int /\ Done(p, k) \in Int /\ Off(p, k) \in Int /\ i \in Int
        /\ OffsetAt(a) < BaseSize /\ i <= n
    BY <1>1, <1>3, <1>6
  <2> QED
    BY <1>1, <1>8, <2>1, <2>2
<1>12. Holds(Piece(p, n, k), i)
  BY <1>6, <1>9, <1>11 DEF Holds, Piece
<1> QED
  BY <1>10, <1>12

LEMMA LocateUnique ==
  ASSUME NEW p \in Nat, NEW q \in Nat, NodeAt(p) = NodeAt(q), OffsetAt(p) = OffsetAt(q)
  PROVE  p = q
<1>1. p = (NodeAt(p) - 1) * BaseSize + OffsetAt(p)
  BY Locate
<1>2. q = (NodeAt(q) - 1) * BaseSize + OffsetAt(q)
  BY Locate
<1> QED
  BY <1>1, <1>2

\* n bytes from p are what the chain has there.
LEMMA LoadFlat ==
  ASSUME NEW blocks \in Seq(Block), NEW p \in Nat, NEW n \in Nat, p + n <= Len(blocks) * BaseSize
  PROVE  Load(blocks, Spans(blocks, p, n), n) = [i \in 1..n |-> At(blocks, p + (i - 1))]
<1> DEFINE sp == Spans(blocks, p, n)
<1> SUFFICES ASSUME NEW i \in 1..n
             PROVE  LET x == CHOOSE x \in sp : Holds(x, i)
                    IN blocks[x.node][x.at + (i - 1 - x.from)] = At(blocks, p + (i - 1))
  BY DEF Load
<1> DEFINE x == CHOOSE x \in sp : Holds(x, i)
<1>1. \E y \in sp : Holds(y, i)
  BY SpanExists
<1>2. x \in sp /\ Holds(x, i)
  <2> HIDE DEF sp
  <2> QED
    BY <1>1
<1> HIDE DEF x
<1>3. x.node = NodeAt(p + (i - 1)) /\ x.at + (i - 1 - x.from) = OffsetAt(p + (i - 1))
  BY <1>2, SpanPlace
<1> QED
  BY <1>3 DEF At, x

\* The bytes s from p replace what the chain had there and nothing else.
LEMMA StoreFlat ==
  ASSUME NEW blocks \in Seq(Block), NEW p \in Nat, NEW n \in Nat, p + n <= Len(blocks) * BaseSize,
         NEW s \in Seq(Byte), Len(s) <= n
  PROVE  LET st == Store(blocks, Spans(blocks, p, n), s)
         IN /\ st \in Seq(Block) /\ Len(st) = Len(blocks)
            /\ \A a \in Nat : a < Len(blocks) * BaseSize =>
                  At(st, a) = IF a \in p..(p + Len(s) - 1) THEN s[a - p + 1] ELSE At(blocks, a)
<1> DEFINE sp == Spans(blocks, p, n)
           st == Store(blocks, sp, s)
           idx(x, o) == x.from + (o - x.at) + 1
           Here(k, o) == {x \in sp : x.node = k /\ idx(x, o) \in DOMAIN s /\ Holds(x, idx(x, o))}
           byte(k, o) == IF Here(k, o) = {} THEN blocks[k][o]
                         ELSE s[idx(CHOOSE x \in Here(k, o) : TRUE, o)]
<1>1. st = [k \in DOMAIN blocks |-> [o \in 0..(BaseSize - 1) |-> byte(k, o)]]
  BY DEF Store
<1>2. DOMAIN blocks = 1..Len(blocks) /\ DOMAIN s = 1..Len(s) /\ Len(s) \in Nat /\ Len(blocks) \in Nat
  OBVIOUS
<1>3. BaseSize \in Nat /\ BaseSize > 0
  BY Constants
<1>4. ASSUME NEW k \in 1..Len(blocks), NEW o \in 0..(BaseSize - 1), NEW x \in Here(k, o)
      PROVE  /\ idx(x, o) \in 1..Len(s)
             /\ p + (idx(x, o) - 1) \in Nat
             /\ k = NodeAt(p + (idx(x, o) - 1)) /\ o = OffsetAt(p + (idx(x, o) - 1))
  <2>1. x \in sp /\ x.node = k /\ idx(x, o) \in 1..Len(s) /\ Holds(x, idx(x, o))
    BY <1>2
  <2>2. idx(x, o) \in 1..n
    <3> HIDE DEF idx
    <3> QED
      BY <2>1, <1>2
  <2>3. x.at \in Int /\ x.from \in Int
    BY <2>1, SpanShape, <1>3
  <2>4. x.at + (idx(x, o) - 1 - x.from) = o
    BY <2>3, SMTT(30)
  <2> HIDE DEF idx, sp
  <2>5. /\ p + (idx(x, o) - 1) \in Nat
        /\ x.node = NodeAt(p + (idx(x, o) - 1))
        /\ x.at + (idx(x, o) - 1 - x.from) = OffsetAt(p + (idx(x, o) - 1))
    BY <2>1, <2>2, SpanPlace DEF sp
  <2> QED
    BY <2>1, <2>4, <2>5
<1> HIDE DEF sp
<1>5. ASSUME NEW k \in 1..Len(blocks), NEW o \in 0..(BaseSize - 1), Here(k, o) # {}
      PROVE  idx(CHOOSE x \in Here(k, o) : TRUE, o) \in 1..Len(s)
  <2> DEFINE x == CHOOSE x \in Here(k, o) : TRUE
  <2>1. x \in Here(k, o)
    <3> HIDE DEF Here
    <3> QED
      BY <1>5
  <2> HIDE DEF x, Here, idx
  <2>2. idx(x, o) \in 1..Len(s)
    BY <1>4, <2>1
  <2> QED
    BY <2>2 DEF x
<1>6. ASSUME NEW k \in 1..Len(blocks), NEW o \in 0..(BaseSize - 1) PROVE byte(k, o) \in Byte
  <2> HIDE DEF Here, idx
  <2>1. CASE Here(k, o) = {}
    <3>1. blocks[k] \in Block
      OBVIOUS
    <3>2. byte(k, o) = blocks[k][o]
      BY <2>1
    <3> HIDE DEF byte
    <3> QED
      BY <3>1, <3>2 DEF Block
  <2>2. CASE Here(k, o) # {}
    BY <2>2, <1>5
  <2> QED
    BY <2>1, <2>2
<1>7. st \in Seq(Block) /\ Len(st) = Len(blocks)
  <2> HIDE DEF byte, st
  <2>1. st \in [1..Len(blocks) -> Block]
    BY <1>1, <1>2, <1>6 DEF Block
  <2> QED
    BY <1>2, <2>1
<1>8. ASSUME NEW a \in Nat, a < Len(blocks) * BaseSize
      PROVE  At(st, a) = IF a \in p..(p + Len(s) - 1) THEN s[a - p + 1] ELSE At(blocks, a)
  <2> DEFINE k == NodeAt(a)
             o == OffsetAt(a)
  <2>1. k \in 1..Len(blocks) /\ o \in 0..(BaseSize - 1)
    BY <1>2, <1>8, Locate, LocateIn
  <2>2. At(st, a) = byte(k, o)
    <3> HIDE DEF byte, st
    <3> QED
      BY <1>1, <1>2, <2>1 DEF At
  <2>3. ASSUME NEW x \in Here(k, o) PROVE a = p + (idx(x, o) - 1) /\ idx(x, o) \in 1..Len(s)
    <3> HIDE DEF Here, idx
    <3>1. /\ idx(x, o) \in 1..Len(s) /\ p + (idx(x, o) - 1) \in Nat
          /\ k = NodeAt(p + (idx(x, o) - 1)) /\ o = OffsetAt(p + (idx(x, o) - 1))
      BY <1>4, <2>1
    <3> QED
      BY <3>1, LocateUnique
  <2>4. CASE a \in p..(p + Len(s) - 1)
    <3> DEFINE i == a - p + 1
    <3>1. i \in 1..Len(s) /\ i \in 1..n /\ a = p + (i - 1)
      BY <2>4, <1>2
    <3> HIDE DEF i
    <3>2. PICK x \in sp : Holds(x, i)
      BY <3>1, SpanExists DEF sp
    <3>3. x.node = k /\ x.at + (i - 1 - x.from) = o
      BY <3>1, <3>2, SpanPlace DEF sp
    <3>4. x.at \in Int /\ x.from \in Int
      BY <3>2, SpanShape, <1>3 DEF sp
    <3>5. idx(x, o) = i
      <4> HIDE DEF o
      <4>1. ASSUME NEW at \in Int, NEW from \in Int, NEW c \in Int, at + (i - 1 - from) = c
            PROVE  from + (c - at) + 1 = i
        BY <4>1, <3>1
      <4>2. o \in Int
        BY <2>1, <1>3
      <4> QED
        BY <3>3, <3>4, <4>1, <4>2
    <3> HIDE DEF idx
    <3>6. x \in Here(k, o)
      BY <3>1, <3>2, <3>3, <3>5, <1>2
    <3> DEFINE y == CHOOSE y \in Here(k, o) : TRUE
    <3> HIDE DEF Here
    <3>7. y \in Here(k, o) /\ Here(k, o) # {}
      BY <3>6
    <3> HIDE DEF y
    <3>8. a = p + (idx(y, o) - 1) /\ idx(y, o) \in Int
      BY <2>3, <3>7
    <3>9. idx(y, o) = a - p + 1
      BY <3>8
    <3> QED
      BY <2>2, <2>4, <3>7, <3>9 DEF y
  <2>5. CASE a \notin p..(p + Len(s) - 1)
    <3>1. Here(k, o) = {}
      <4> SUFFICES ASSUME NEW x \in Here(k, o) PROVE FALSE
        BY Zenon
      <4> HIDE DEF Here, idx
      <4> QED
        BY <2>3, <2>5, <1>2
    <3> HIDE DEF Here, idx
    <3> QED
      BY <2>2, <2>5, <3>1 DEF At
  <2> QED
    BY <2>4, <2>5
<1> QED
  BY <1>7, <1>8 DEF sp

-----------------------------------------------------------------------------
(* Growing. *)

LEMMA DivMod ==
  ASSUME NEW n \in Int, NEW d \in Nat, d > 0
  PROVE  /\ n \div d \in Int /\ n % d \in Int /\ d * (n \div d) \in Int
         /\ n = d * (n \div d) + (n % d) /\ 0 <= n % d /\ n % d < d
         /\ (n >= 0 => n \div d >= 0)
  OBVIOUS

\* Rounding up.
LEMMA Ceiling ==
  ASSUME NEW e \in Nat, NEW d \in Nat, d > 0
  PROVE  /\ (e + (d - 1)) \div d \in Nat
         /\ e <= d * ((e + (d - 1)) \div d) /\ d * ((e + (d - 1)) \div d) <= e + (d - 1)
<1> DEFINE n == e + (d - 1)
           q == n \div d
<1>1. n \in Nat
  OBVIOUS
<1> HIDE DEF n
<1>2. q \in Int /\ n % d \in Int /\ d * q \in Int /\ n = d * q + (n % d) /\ 0 <= n % d /\ n % d < d /\ q >= 0
  BY <1>1, DivMod
<1> HIDE DEF q
<1>3. n = e + (d - 1)
  BY DEF n
<1> QED
  BY <1>2, <1>3 DEF q, n

\* addCapacity() makes room for n bytes behind p, within the largest size.
LEMMA Room ==
  ASSUME NEW c \in Nat, NEW cap \in Nat, cap = c * BaseSize, cap <= SizeMax, NEW p \in 0..cap, NEW n \in Nat
  PROVE  /\ Missing(p, cap, n) \in Nat
         /\ (c + Missing(p, cap, n)) * BaseSize = cap + Missing(p, cap, n) * BaseSize
         /\ Missing(p, cap, n) * BaseSize \in Nat
         /\ p + n <= cap + Missing(p, cap, n) * BaseSize
         /\ CanGrow(p, cap, n) => cap + Missing(p, cap, n) * BaseSize <= SizeMax
<1> DEFINE m == Missing(p, cap, n)
<1>1. BaseSize \in Nat /\ BaseSize > 0 /\ SizeMax \in Nat
  BY Constants
<1>2. m \in Nat /\ m * BaseSize \in Nat /\ p + n <= cap + m * BaseSize
  <2>1. CASE n <= cap - p
    BY <1>1, <2>1 DEF Missing
  <2>2. CASE ~(n <= cap - p)
    <3> DEFINE e == n - (cap - p)
    <3>1. e \in Nat
      BY <2>2
    <3>2. m = (e + (BaseSize - 1)) \div BaseSize
      BY <2>2 DEF Missing
    <3> HIDE DEF m, e
    <3>3. m \in Nat /\ e <= BaseSize * m
      BY <1>1, <3>1, <3>2, Ceiling
    <3>4. BaseSize * m = m * BaseSize /\ m * BaseSize \in Nat
      BY <1>1, <3>3
    <3> QED
      BY <3>1, <3>3, <3>4 DEF e
  <2> QED
    BY <2>1, <2>2
<1> HIDE DEF m
<1>3. (c + m) * BaseSize = c * BaseSize + m * BaseSize
  BY <1>1, <1>2
<1>4. ASSUME CanGrow(p, cap, n) PROVE cap + m * BaseSize <= SizeMax
  <2> DEFINE r == SizeMax - cap
             q == r \div BaseSize
  <2>1. r \in Nat
    BY <1>1
  <2>2. m <= q
    BY <1>4 DEF CanGrow, m
  <2> HIDE DEF r
  <2>3. q \in Int /\ BaseSize * q <= r /\ BaseSize * q \in Int
    BY <1>1, <2>1, DivMod
  <2> HIDE DEF q
  <2>4. m * BaseSize <= q * BaseSize
    <3>1. CASE m = q
      BY <3>1, <1>1, <2>3
    <3>2. CASE m < q
      BY <3>2, <1>1, <1>2, <2>3, Blockwise
    <3> QED
      BY <1>2, <2>2, <2>3, <3>1, <3>2
  <2>5. q * BaseSize = BaseSize * q
    BY <1>1, <2>3
  <2> QED
    BY <1>1, <1>2, <2>1, <2>3, <2>4, <2>5 DEF r
<1> QED
  BY <1>2, <1>3, <1>4 DEF m

LEMMA NewBlocksType ==
  ASSUME NEW m \in Nat, NEW new \in NewBlocks(m)
  PROVE  new \in Seq(Block) /\ Len(new) = m
<1>1. Garbage \subseteq Byte
  BY ByteArrayAssumption
<1>2. new \in [1..m -> Block]
  BY <1>1 DEF NewBlocks, Block
<1> QED
  BY <1>2

\* New blocks at the end of the chain.
LEMMA Longer ==
  ASSUME NEW blocks \in Seq(Block), NEW new \in Seq(Block)
  PROVE  /\ blocks \o new \in Seq(Block) /\ Len(blocks \o new) = Len(blocks) + Len(new)
         /\ \A a \in Nat : a < Len(blocks) * BaseSize => At(blocks \o new, a) = At(blocks, a)
<1>1. ASSUME NEW a \in Nat, a < Len(blocks) * BaseSize PROVE At(blocks \o new, a) = At(blocks, a)
  <2>1. NodeAt(a) \in 1..Len(blocks)
    BY <1>1, Locate, LocateIn
  <2> QED
    BY <2>1 DEF At
<1> QED
  BY <1>1

-----------------------------------------------------------------------------
(* Digits. *)

\* A shift is a positive number, and so are the values of a byte and its half.
LEMMA Bytes ==
  /\ Shift[Bits] \in Nat /\ Shift[Bits] > 0 /\ Half \in Nat /\ Half > 0 /\ Shift[Bits] = 2 * Half
  /\ Byte = 0..(Shift[Bits] - 1) /\ Byte \subseteq Nat
<1>1. Bits \in Nat /\ Bits - 1 \in Nat /\ Bits = (Bits - 1) + 1
  BY Constants
<1>2. Shift[(Bits - 1) + 1] = 2 * Shift[Bits - 1]
  BY <1>1, ShiftDef
<1>3. Shift[Bits - 1] \in Nat /\ Shift[Bits - 1] > Bits - 1
  BY <1>1, ShiftPos
<1>4. Shift[Bits - 1] > 0
  BY <1>1, <1>3
<1> QED
  BY <1>1, <1>2, <1>3, <1>4 DEF Half, Byte

LEMMA ShiftAt ==
  ASSUME NEW b \in Nat, NEW i \in Nat
  PROVE  /\ b * i \in Nat /\ Shift[b * i] \in Nat /\ Shift[b * i] > 0
         /\ Shift[b * (i + 1)] = Shift[b * i] * Shift[b]
<1>1. b * i \in Nat /\ b * (i + 1) = b * i + b
  OBVIOUS
<1>2. Shift[b * i] \in Nat /\ Shift[b * i] > b * i
  BY <1>1, ShiftPos
<1>3. Shift[b * i] > 0
  BY <1>1, <1>2
<1>4. Shift[b * i + b] = Shift[b * i] * Shift[b]
  BY <1>1, ShiftSum
<1> QED
  BY <1>1, <1>2, <1>3, <1>4

LEMMA ModulusType ==
  ASSUME NEW w \in Nat
  PROVE  Modulus(w) \in Nat /\ Modulus(w) > 0
  BY ShiftAt, Constants DEF Modulus

\* The digits of a number below a and the one at a.
LEMMA Digit ==
  ASSUME NEW v \in Nat, NEW a \in Nat, a > 0, NEW b \in Nat, b > 0
  PROVE  v % (a * b) = (v % a) + ((v \div a) % b) * a
<1> DEFINE q == v \div a
           r == v % a
           t == q \div b
           u == q % b
<1>1. q \in Nat /\ r \in Nat /\ r < a /\ v = a * q + r
  BY DivMod
<1> HIDE DEF q, r
<1>2. t \in Nat /\ u \in Nat /\ u < b /\ q = b * t + u
  BY <1>1, DivMod
<1> HIDE DEF t, u
<1> DEFINE d == a * b
           x == u * a + r
<1>3. d \in Nat /\ d > 0
  BY SMT
<1>4. v = d * t + x
  <2>1. a * (b * t + u) = (a * b) * t + u * a
    BY <1>2
  <2>2. (a * b) * t \in Int /\ u * a \in Int
    BY <1>2
  <2> QED
    BY <1>1, <1>2, <2>1, <2>2
<1>5. x \in Nat /\ x < d
  <2>1. PICK e \in Nat : b = u + 1 + e
    <3>1. b - u - 1 \in Nat /\ b = u + 1 + (b - u - 1)
      BY <1>2
    <3> QED
      BY <3>1
  <2>2. a * b = u * a + a + e * a /\ u * a \in Nat /\ e * a \in Nat
    BY <1>2, <2>1
  <2> QED
    BY <1>1, <2>2
<1> HIDE DEF d, x
<1>6. (d * t + x) % d = x
  BY <1>2, <1>3, <1>5
<1> QED
  BY <1>4, <1>6 DEF d, x, q, r, u

-----------------------------------------------------------------------------
(* What the loops of the read functions add up to. *)

\* t is what the loop has after each round.
Sums(digits, places, t) ==
  /\ t[0] = 0
  /\ \A i \in 1..Len(digits) : t[i] = t[i - 1] + digits[i] * places[i]

LEMMA ComposeDef ==
  ASSUME NEW digits \in Seq(Nat), NEW places \in [DOMAIN digits -> Nat]
  PROVE  \E t \in [0..Len(digits) -> Nat] : Sums(digits, places, t) /\ Compose(digits, places) = t[Len(digits)]
<1> DEFINE N == Len(digits)
           add(n) == IF n + 1 \in 1..N THEN digits[n + 1] * places[n + 1] ELSE 0
           h == [n \in Nat |-> [x \in Nat |-> x + add(n)]]
           Body(t) == [i \in 0..N |-> IF i = 0 THEN 0 ELSE t[i - 1] + digits[i] * places[i]]
<1>1. N \in Nat /\ DOMAIN digits = 1..N
  OBVIOUS
<1> HIDE DEF N
<1> DEFINE prod == [j \in 1..N |-> digits[j] * places[j]]
<1>2a. prod \in [1..N -> Nat]
  <2> SUFFICES ASSUME NEW j \in 1..N PROVE digits[j] * places[j] \in Nat
    OBVIOUS
  <2>1. digits[j] \in Nat /\ places[j] \in Nat
    BY <1>1
  <2> QED
    BY <2>1
<1>2. \A n \in Nat : add(n) \in Nat
  <2>1. ASSUME NEW n \in Nat, n + 1 \in 1..N PROVE digits[n + 1] \in Nat /\ places[n + 1] \in Nat
    BY <1>1, <2>1
  <2> QED
    BY <2>1
<1>3. h \in [Nat -> [Nat -> Nat]] /\ 0 \in Nat
  <2> HIDE DEF add
  <2> QED
    BY <1>2, SMTT(30)
<1>4. PICK g \in [Nat -> Nat] : g[0] = 0 /\ \A n \in Nat : g[n + 1] = h[n][g[n]]
  <2> HIDE DEF h
  <2>1. Loops(Nat, 0, h)
    BY <1>3, Recursion, Zenon
  <2> QED
    BY <2>1 DEF Loops
<1>5. ASSUME NEW i \in 1..N PROVE g[i] = g[i - 1] + digits[i] * places[i]
  <2> DEFINE n == i - 1
  <2>1. n \in Nat /\ n + 1 = i
    BY <1>1
  <2>2. g[n + 1] = h[n][g[n]]
    BY <1>4, <2>1
  <2>3. h[n][g[n]] = g[n] + add(n)
    <3> HIDE DEF n, add
    <3> QED
      BY <2>1
  <2>4. add(n) = digits[i] * places[i]
    BY <2>1
  <2> HIDE DEF h, add
  <2> QED
    BY <2>1, <2>2, <2>3, <2>4
<1> DEFINE t == [i \in 0..N |-> g[i]]
<1>6. t \in [0..N -> Nat]
  BY <1>1
<1>7. t = Body(t)
  <2>1. ASSUME NEW i \in 0..N PROVE t[i] = Body(t)[i]
    <3>1. CASE i = 0
      BY <3>1, <1>4, <1>1
    <3>2. CASE i # 0
      <4>1. i \in 1..N /\ i - 1 \in 0..N
        BY <1>1, <3>2
      <4> QED
        BY <4>1, <1>5, <3>2
    <3> QED
      BY <3>1, <3>2
  <2> QED
    BY <2>1
<1> DEFINE c == CHOOSE f : f = Body(f)
<1>8. c = Body(c)
  <2> HIDE DEF t
  <2> QED
    BY <1>7
<1>9. Compose(digits, places) = c[N]
  BY DEF Compose, N
<1> HIDE DEF c, h, t
<1>10. ASSUME NEW i \in 1..N PROVE c[i] = c[i - 1] + digits[i] * places[i]
  <2>1. i \in 0..N /\ i # 0
    BY <1>1
  <2> QED
    BY <1>8, <2>1
<1>11. c[0] = 0
  BY <1>8, <1>1
<1>12. \A i \in 0..N : c[i] \in Nat
  <2> DEFINE S == {i \in Nat : i <= N => c[i] \in Nat}
  <2>1. 0 \in S
    BY <1>11
  <2>2. ASSUME NEW i \in Nat, i \in S PROVE i + 1 \in S
    <3> SUFFICES ASSUME i + 1 <= N PROVE c[i + 1] \in Nat
      OBVIOUS
    <3>1. i + 1 \in 1..N /\ (i + 1) - 1 = i /\ c[i] \in Nat
      BY <1>1, <2>2
    <3>2. c[i + 1] = c[i] + digits[i + 1] * places[i + 1]
      BY <1>10, <3>1
    <3>3. prod[i + 1] \in Nat /\ prod[i + 1] = digits[i + 1] * places[i + 1]
      BY <1>2a, <3>1
    <3>4. c[i + 1] = c[i] + prod[i + 1]
      BY <3>2, <3>3
    <3>5. \A x, y \in Nat : x + y \in Nat
      OBVIOUS
    <3> HIDE DEF prod
    <3> QED
      BY <3>1, <3>3, <3>4, <3>5, Zenon
  <2> HIDE DEF S
  <2>3. \A i \in Nat : i \in S
    BY <2>1, <2>2, Induct
  <2> QED
    BY <2>3, <1>1 DEF S
<1>13. c \in [0..N -> Nat]
  BY <1>8, <1>12
<1>14. Sums(digits, places, c)
  BY <1>10, <1>11 DEF Sums, N
<1> QED
  BY <1>9, <1>13, <1>14 DEF N

\* Whatever has the sums of the loop has its result.
LEMMA ComposeIs ==
  ASSUME NEW digits \in Seq(Nat), NEW places \in [DOMAIN digits -> Nat], NEW e, Sums(digits, places, e)
  PROVE  Compose(digits, places) = e[Len(digits)]
<1>1. PICK t \in [0..Len(digits) -> Nat] :
         Sums(digits, places, t) /\ Compose(digits, places) = t[Len(digits)]
  BY ComposeDef
<1> DEFINE N == Len(digits)
           S == {i \in Nat : i <= N => t[i] = e[i]}
<1>2. N \in Nat
  OBVIOUS
<1>3. 0 \in S
  BY <1>1 DEF Sums
<1>4. ASSUME NEW i \in Nat, i \in S PROVE i + 1 \in S
  <2> SUFFICES ASSUME i + 1 <= N PROVE t[i + 1] = e[i + 1]
    OBVIOUS
  <2>1. i + 1 \in 1..N /\ (i + 1) - 1 = i /\ t[i] = e[i]
    BY <1>2, <1>4
  <2>2. t[i + 1] = t[i] + digits[i + 1] * places[i + 1]
    BY <1>1, <2>1 DEF Sums
  <2>3. e[i + 1] = e[i] + digits[i + 1] * places[i + 1]
    BY <2>1 DEF Sums
  <2> QED
    BY <2>1, <2>2, <2>3
<1> HIDE DEF S, N
<1>5. \A i \in Nat : i \in S
  BY <1>3, <1>4, Induct
<1>6. t[N] = e[N]
  BY <1>2, <1>5 DEF S
<1> QED
  BY <1>1, <1>6 DEF N

LEMMA ComposeType ==
  ASSUME NEW digits \in Seq(Nat), NEW places \in [DOMAIN digits -> Nat]
  PROVE  Compose(digits, places) \in Nat
<1>1. PICK t \in [0..Len(digits) -> Nat] : Compose(digits, places) = t[Len(digits)]
  BY ComposeDef
<1>2. Len(digits) \in 0..Len(digits)
  OBVIOUS
<1> QED
  BY <1>1, <1>2

-----------------------------------------------------------------------------
(* Numbers of a fixed width. *)

LEMMA PlaceType ==
  ASSUME NEW width \in Nat, NEW little \in BOOLEAN, NEW i \in 1..width
  PROVE  Place(width, little, i) \in Nat /\ Place(width, little, i) > 0
<1> DEFINE j == IF little THEN i - 1 ELSE width - i
<1>1. j \in Nat /\ Bits \in Nat
  BY Constants
<1>2. Place(width, little, i) = Shift[Bits * j]
  BY DEF Place
<1> HIDE DEF j
<1> QED
  BY <1>1, <1>2, ShiftAt

LEMMA FixedType ==
  ASSUME NEW width \in Nat, NEW v \in Int, NEW little \in BOOLEAN
  PROVE  Fixed(width, v, little) \in Seq(Byte) /\ Len(Fixed(width, v, little)) = width
<1> DEFINE V == v % Modulus(width)
<1>1. V \in Nat
  BY ModulusType
<1> HIDE DEF V
<1>2. ASSUME NEW i \in 1..width PROVE (V \div Place(width, little, i)) % Shift[Bits] \in Byte
  <2> DEFINE a == Place(width, little, i)
             b == Shift[Bits]
  <2>1. a \in Nat /\ a > 0 /\ b \in Nat /\ b > 0 /\ Byte = 0..(b - 1)
    BY PlaceType, Bytes
  <2> HIDE DEF a, b
  <2>2. V \div a \in Int
    BY <1>1, <2>1, DivMod
  <2>3. (V \div a) % b \in 0..(b - 1)
    BY <2>1, <2>2
  <2> QED
    BY <2>1, <2>3 DEF a, b
<1>3. Fixed(width, v, little) = [i \in 1..width |-> (V \div Place(width, little, i)) % Shift[Bits]]
  BY DEF Fixed, V
<1>4. Fixed(width, v, little) \in [1..width -> Byte]
  BY <1>2, <1>3
<1> QED
  BY <1>4

LEMMA ByteSeq ==
  ASSUME NEW s \in Seq(Byte)
  PROVE  /\ s \in Seq(Nat) /\ Len(s) \in Nat /\ DOMAIN s = 1..Len(s)
         /\ \A i \in 1..Len(s) : s[i] \in Byte /\ s[i] \in Nat /\ s[i] < Shift[Bits]
<1>1. Byte \subseteq Nat /\ Byte = 0..(Shift[Bits] - 1) /\ Shift[Bits] \in Nat
  BY Bytes
<1>2. s \in [1..Len(s) -> Byte] /\ Len(s) \in Nat
  OBVIOUS
<1>3. s \in [1..Len(s) -> Nat]
  BY <1>1, <1>2
<1> QED
  BY <1>1, <1>2, <1>3

LEMMA FromFixedType ==
  ASSUME NEW s \in Seq(Byte), NEW little \in BOOLEAN
  PROVE  FromFixed(s, little) \in Nat
<1>1. s \in Seq(Nat) /\ DOMAIN s = 1..Len(s) /\ Len(s) \in Nat
  BY ByteSeq
<1>2. [i \in DOMAIN s |-> Place(Len(s), little, i)] \in [DOMAIN s -> Nat]
  BY <1>1, PlaceType
<1> QED
  BY <1>1, <1>2, ComposeType DEF FromFixed

\* readFixed() gives back what writeFixed() was given, modulo its width.
LEMMA FixedBack ==
  ASSUME NEW width \in Nat, NEW v \in Int, NEW little \in BOOLEAN
  PROVE  FromFixed(Fixed(width, v, little), little) = v % Modulus(width)
<1> DEFINE V == v % Modulus(width)
           s == Fixed(width, v, little)
           b == Shift[Bits]
           e == [i \in 0..width |-> IF little THEN V % Shift[Bits * i]
                                    ELSE V - (V % Shift[Bits * (width - i)])]
           places == [i \in DOMAIN s |-> Place(Len(s), little, i)]
<1>1. V \in Nat /\ V < Modulus(width) /\ Modulus(width) \in Nat /\ Modulus(width) > 0
  BY ModulusType
<1>2. s \in Seq(Nat) /\ Len(s) = width /\ DOMAIN s = 1..width
  BY FixedType, ByteSeq
<1>3. \A i \in 1..width : s[i] = (V \div Place(width, little, i)) % b
  BY DEF Fixed
<1> HIDE DEF s
<1>4. places \in [DOMAIN s -> Nat] /\ \A i \in 1..width : places[i] = Place(width, little, i)
  BY <1>2, PlaceType
<1>5. b \in Nat /\ b > 0 /\ Bits \in Nat
  BY Bytes, Constants
<1> HIDE DEF places, b, V
<1>6. Modulus(width) = Shift[Bits * width] /\ V % Modulus(width) = V /\ V % 1 = 0 /\ Shift[Bits * 0] = 1
  <2>1. Modulus(width) = Shift[Bits * width]
    BY DEF Modulus
  <2>2. Bits * 0 = 0
    BY <1>5
  <2>3. V % Modulus(width) = V
    BY <1>1
  <2>4. V % 1 = 0
    BY <1>1
  <2> QED
    BY <2>1, <2>2, <2>3, <2>4, ShiftDef
<1>7. e[0] = 0 /\ e[width] = V
  <2>1. width - 0 = width /\ width - width = 0 /\ 0 \in 0..width /\ width \in 0..width
    OBVIOUS
  <2>2. CASE little
    BY <2>1, <2>2, <1>6
  <2>3. CASE ~little
    <3>1. e[0] = V - (V % Shift[Bits * (width - 0)]) /\ e[width] = V - (V % Shift[Bits * (width - width)])
      BY <2>1, <2>3
    <3>2. e[0] = V - V /\ e[width] = V - 0
      <4> HIDE DEF e
      <4>1. width - 0 = width /\ width - width = 0
        OBVIOUS
      <4>2. V % Shift[Bits * width] = V /\ V % Shift[Bits * 0] = 0
        BY <1>6
      <4> QED
        BY <3>1, <4>1, <4>2, Zenon
    <3> QED
      BY <3>2, <1>1
  <2> QED
    BY <2>2, <2>3
<1>8. ASSUME NEW i \in 1..width PROVE e[i] = e[i - 1] + s[i] * places[i]
  <2>1. i \in 0..width /\ i - 1 \in 0..width /\ i - 1 \in Nat /\ width - i \in Nat
    OBVIOUS
  <2>2. CASE little
    <3> DEFINE a == Shift[Bits * (i - 1)]
    <3>1. a \in Nat /\ a > 0 /\ Shift[Bits * ((i - 1) + 1)] = a * b
      BY <1>5, <2>1, ShiftAt DEF b
    <3>2. (i - 1) + 1 = i
      OBVIOUS
    <3>3. e[i] = V % (a * b) /\ e[i - 1] = V % a
      BY <2>1, <2>2, <3>1, <3>2
    <3>4. places[i] = a /\ s[i] = (V \div a) % b
      BY <1>3, <1>4, <2>2 DEF Place
    <3> HIDE DEF a, e
    <3>5. V % (a * b) = (V % a) + ((V \div a) % b) * a
      BY <1>1, <1>5, <3>1, Digit
    <3> QED
      BY <3>3, <3>4, <3>5
  <2>3. CASE ~little
    <3> DEFINE a == Shift[Bits * (width - i)]
    <3>1. a \in Nat /\ a > 0 /\ Shift[Bits * ((width - i) + 1)] = a * b
      BY <1>5, <2>1, ShiftAt DEF b
    <3>2. (width - i) + 1 = width - (i - 1)
      OBVIOUS
    <3>3. e[i] = V - (V % a) /\ e[i - 1] = V - (V % (a * b))
      BY <2>1, <2>3, <3>1, <3>2
    <3>4. places[i] = a /\ s[i] = (V \div a) % b
      BY <1>3, <1>4, <2>3 DEF Place
    <3> HIDE DEF a, e
    <3>5. V % (a * b) = (V % a) + ((V \div a) % b) * a
      BY <1>1, <1>5, <3>1, Digit
    <3> DEFINE m == a * b
               d == ((V \div a) % b) * a
    <3>6. m \in Nat /\ m > 0
      BY <1>5, <3>1, SMT
    <3>7. d \in Int
      <4>1. V \div a \in Int
        BY <1>1, <3>1, DivMod
      <4>2. (V \div a) % b \in Int
        BY <4>1, <1>5, DivMod
      <4> QED
        BY <4>2, <3>1
    <3>8. V % a \in Int /\ V % m \in Int
      BY <1>1, <3>1, <3>6, DivMod
    <3> HIDE DEF m, d
    <3>9. e[i] = V - (V % a) /\ e[i - 1] = V - (V % m) /\ V % m = (V % a) + d /\ s[i] * places[i] = d
      BY <3>3, <3>4, <3>5 DEF m, d
    <3>10. \A x, y, z \in Int : z = x + y => V - x = (V - z) + y
      BY <1>1
    <3>11. V - (V % a) = (V - (V % m)) + d
      BY <3>7, <3>8, <3>9, <3>10
    <3> QED
      BY <3>9, <3>11, Zenon
  <2> QED
    BY <2>2, <2>3
<1>9. Sums(s, places, e)
  <2> HIDE DEF e
  <2> QED
    BY <1>2, <1>7, <1>8 DEF Sums
<1> HIDE DEF e
<1>10. Compose(s, places) = e[Len(s)]
  BY <1>2, <1>4, <1>9, ComposeIs
<1> QED
  BY <1>2, <1>7, <1>10 DEF FromFixed, s, places, V

\* The number read back as a signed one.
LEMMA SignedBack ==
  ASSUME NEW w \in Nat, NEW v \in Int, 2 * v \in -Modulus(w)..(Modulus(w) - 1)
  PROVE  Signed(v % Modulus(w), w) = v
<1> DEFINE M == Modulus(w)
<1>1. M \in Nat /\ M > 0
  BY ModulusType
<1>2. 2 * v \in -M..(M - 1)
  OBVIOUS
<1>3. Signed(v % Modulus(w), w) = IF 2 * (v % M) >= M THEN (v % M) - M ELSE v % M
  BY DEF Signed
<1> HIDE DEF M
<1>4. CASE v >= 0
  <2>1. v % M = v
    BY <1>1, <1>2, <1>4
  <2> QED
    BY <1>1, <1>2, <1>3, <2>1
<1>5. CASE v < 0
  <2>1. v % M = v + M
    BY <1>1, <1>2, <1>5
  <2> QED
    BY <1>1, <1>2, <1>3, <2>1
<1> QED
  BY <1>4, <1>5

\* ZigZag: a number near zero is a small unsigned one, and comes back.
LEMMA ZigzagBack ==
  ASSUME NEW w \in Nat, w > 0, NEW v \in Int, 2 * v \in -Modulus(w)..(Modulus(w) - 1)
  PROVE  /\ EncodeZigzag(v, w) \in 0..(Modulus(w) - 1)
         /\ DecodeZigzag(EncodeZigzag(v, w), w) = v
<1> DEFINE M == Modulus(w)
           u == EncodeZigzag(v, w)
<1>1. PICK m \in Nat : M = 2 * m
  <2>1. Bits * w \in Nat /\ Bits * w > 0
    BY Constants, SMT
  <2>2. Bits * w - 1 \in Nat /\ (Bits * w - 1) + 1 = Bits * w
    BY <2>1
  <2>3. Shift[Bits * w] = 2 * Shift[Bits * w - 1] /\ Shift[Bits * w - 1] \in Nat
    BY <2>2, ShiftDef
  <2> QED
    BY <2>3 DEF Modulus
<1>2. M > 0 /\ 2 * v \in -M..(M - 1)
  BY ModulusType
<1>3. u = IF v < 0 THEN M - 1 - ((2 * (v % M)) % M) ELSE (2 * (v % M)) % M
  BY DEF EncodeZigzag
<1>4. \A x : DecodeZigzag(x, w) = LET b == IF x % 2 = 1 THEN M - 1 - (x \div 2) ELSE x \div 2
                                  IN IF 2 * b >= M THEN b - M ELSE b
  BY DEF DecodeZigzag, Signed
<1> HIDE DEF M, u
<1>5. CASE v >= 0
  <2>1. v % M = v
    BY <1>1, <1>2, <1>5
  <2>2. (2 * v) % M = 2 * v
    BY <1>1, <1>2, <1>5
  <2>3. u = 2 * v
    BY <1>3, <1>5, <2>1, <2>2
  <2>4. u % 2 = 0 /\ u \div 2 = v
    BY <2>3
  <2>5. DecodeZigzag(u, w) = IF 2 * v >= M THEN v - M ELSE v
    BY <1>4, <2>4
  <2> QED
    BY <1>1, <1>2, <1>5, <2>3, <2>5 DEF u, M
<1>6. CASE v < 0
  <2>1. v % M = v + M
    BY <1>1, <1>2, <1>6
  <2>2. (2 * (v + M)) % M = 2 * v + M
    BY <1>1, <1>2, <1>6
  <2>3. u = -(2 * v) - 1
    <3>1. (2 * (v % M)) % M = 2 * v + M
      BY <2>1, <2>2
    <3>2. u = M - 1 - (2 * v + M)
      BY <1>3, <1>6, <3>1
    <3> QED
      BY <1>1, <3>2
  <2>4. u % 2 = 1 /\ u \div 2 = -v - 1
    BY <2>3
  <2>5. DecodeZigzag(u, w) = IF 2 * (M - 1 - (-v - 1)) >= M THEN (M - 1 - (-v - 1)) - M ELSE M - 1 - (-v - 1)
    BY <1>4, <2>4
  <2> QED
    BY <1>1, <1>2, <1>6, <2>3, <2>5 DEF u, M
<1> QED
  BY <1>5, <1>6

-----------------------------------------------------------------------------
(* Numbers of a variable length. *)

LEMMA MinIs ==
  ASSUME NEW T \in SUBSET Nat, NEW x \in T, \A y \in T : x <= y
  PROVE  Min(T) = x
<1> DEFINE m == Min(T)
<1>1. m \in T /\ \A y \in T : m <= y
  BY DEF Min
<1> HIDE DEF m
<1>2. m <= x /\ x <= m /\ m \in Nat /\ x \in Nat
  BY <1>1
<1> QED
  BY <1>2 DEF m

LEMMA MinIn ==
  ASSUME NEW T \in SUBSET Nat, T # {}
  PROVE  Min(T) \in T /\ \A y \in T : Min(T) <= y
<1>1. PICK x \in T : \A y \in T : x <= y
  BY Least, Zenon
<1>2. Min(T) = x
  BY <1>1, MinIs
<1> QED
  BY <1>1, <1>2

\* A group has one bit less than a byte.
LEMMA GroupPlaces ==
  /\ GroupPlace(1) = 1
  /\ \A i \in Nat : i >= 1 => /\ GroupPlace(i) \in Nat /\ GroupPlace(i) > 0
                              /\ GroupPlace(i + 1) = GroupPlace(i) * Half
<1> DEFINE d == Bits - 1
<1>1. d \in Nat
  BY Constants
<1>2. Shift[d] = Half /\ \A i : GroupPlace(i) = Shift[d * (i - 1)]
  BY DEF Half, GroupPlace
<1> HIDE DEF d
<1>3. GroupPlace(1) = 1
  <2>1. d * (1 - 1) = 0
    BY <1>1
  <2> QED
    BY <2>1, <1>2, ShiftDef
<1>4. ASSUME NEW i \in Nat, i >= 1
      PROVE  GroupPlace(i) \in Nat /\ GroupPlace(i) > 0 /\ GroupPlace(i + 1) = GroupPlace(i) * Half
  <2> DEFINE j == i - 1
  <2>1. j \in Nat /\ (i + 1) - 1 = j + 1
    BY <1>4
  <2>2. GroupPlace(i) = Shift[d * j] /\ GroupPlace(i + 1) = Shift[d * (j + 1)]
    BY <1>2, <2>1
  <2> HIDE DEF j
  <2> QED
    BY <1>1, <1>2, <2>1, <2>2, ShiftAt
<1> QED
  BY <1>3, <1>4

\* The groups of a width hold its numbers, and one less would not.
LEMMA GroupsHold ==
  ASSUME NEW w \in Nat, w > 0
  PROVE  /\ Groups(w) \in Nat /\ Groups(w) >= 1
         /\ Modulus(w) <= GroupPlace(Groups(w) + 1)
         /\ LastGroup(w) \in Int /\ LastGroup(w) + 1 \in Nat
         /\ Modulus(w) = GroupPlace(Groups(w)) * (LastGroup(w) + 1)
<1> DEFINE d == Bits - 1
           e == Bits * w
           G == Groups(w)
<1>1. d \in Nat /\ d > 0 /\ Bits \in Nat
  BY Constants
<1>2. e \in Nat /\ e > 0
  BY <1>1, Constants, SMT
<1>3. G = (e + (d - 1)) \div d
  <2>1. Bits * w + Bits - 2 = e + (d - 1)
    <3> HIDE DEF e
    <3>1. e + Bits - 2 = e + (d - 1)
      BY <1>1, <1>2
    <3> QED
      BY <3>1 DEF e
  <2> QED
    BY <2>1 DEF Groups
<1>4. Modulus(w) = Shift[e] /\ GroupPlace(G) = Shift[d * (G - 1)] /\ GroupPlace(G + 1) = Shift[d * ((G + 1) - 1)]
  BY DEF Modulus, GroupPlace
<1>5. LastGroup(w) = Shift[e - d * (G - 1)] - 1
  BY DEF LastGroup
<1> HIDE DEF d, e, G
<1>6. G \in Nat /\ e <= d * G /\ d * G <= e + (d - 1) /\ d * G \in Nat
  BY <1>1, <1>2, <1>3, Ceiling
<1>7. G >= 1
  <2>1. G = 0 => d * G = 0
    BY <1>1
  <2> QED
    BY <1>2, <1>6, <2>1
<1>8. d * (G - 1) = d * G - d /\ d * (G - 1) \in Nat /\ (G + 1) - 1 = G
  <2>1. G - 1 \in Nat
    BY <1>6, <1>7
  <2>2. d * (G - 1) \in Nat
    BY <1>1, <2>1
  <2>3. d * (G - 1) = d * G - d
    BY <1>1, <1>6
  <2> QED
    BY <1>6, <2>2, <2>3
<1> DEFINE f == d * (G - 1)
<1>9. f \in Nat /\ e - f \in Nat /\ f + (e - f) = e
  <2>1. f = d * G - d /\ f \in Nat
    BY <1>8
  <2> HIDE DEF f
  <2> QED
    BY <1>1, <1>2, <1>6, <2>1
<1>10. LastGroup(w) = Shift[e - f] - 1 /\ GroupPlace(G) = Shift[f]
  BY <1>4, <1>5
<1> HIDE DEF f
<1>11. Shift[e] = Shift[f] * Shift[e - f] /\ Shift[e - f] \in Nat
  <2>1. Shift[f + (e - f)] = Shift[f] * Shift[e - f]
    BY <1>9, ShiftSum
  <2> QED
    BY <1>9, <2>1, ShiftPos
<1>12. LastGroup(w) + 1 = Shift[e - f] /\ LastGroup(w) \in Int
  BY <1>10, <1>11
<1>13. Shift[e] <= Shift[d * G]
  BY <1>2, <1>6, ShiftMono
<1> QED
  BY <1>4, <1>6, <1>7, <1>8, <1>10, <1>11, <1>12, <1>13 DEF G

\* The number of groups of v: enough, and no more than it takes.
LEMMA GroupCountIs ==
  ASSUME NEW v \in Nat, v < Modulus(8)
  PROVE  /\ GroupCount(v) \in 1..Groups(8) /\ Groups(8) \in Nat
         /\ v < GroupPlace(GroupCount(v) + 1)
         /\ \A m \in 1..Groups(8) : v < GroupPlace(m + 1) => GroupCount(v) <= m
<1> DEFINE G == Groups(8)
           T == {m \in 1..G : v < GroupPlace(m + 1)}
<1>1. G \in Nat /\ G >= 1 /\ Modulus(8) <= GroupPlace(G + 1)
  BY GroupsHold
<1>2. Modulus(8) \in Nat /\ GroupPlace(G + 1) \in Nat
  <2>1. G + 1 \in Nat /\ G + 1 >= 1
    BY <1>1
  <2> QED
    BY <2>1, GroupPlaces, ModulusType
<1>3. G \in T
  BY <1>1, <1>2
<1>4. T \in SUBSET Nat /\ T # {}
  BY <1>1, <1>3
<1>5. GroupCount(v) = Min(T)
  BY DEF GroupCount
<1>6. Min(T) \in T /\ \A y \in T : Min(T) <= y
  <2> HIDE DEF T
  <2> QED
    BY <1>4, MinIn
<1> QED
  BY <1>1, <1>5, <1>6

LEMMA Group ==
  ASSUME NEW v \in Nat, NEW i \in Nat, i >= 1
  PROVE  (v \div GroupPlace(i)) % Half \in Nat /\ (v \div GroupPlace(i)) % Half < Half
<1> DEFINE a == GroupPlace(i)
<1>1. a \in Nat /\ a > 0 /\ Half \in Nat /\ Half > 0
  BY GroupPlaces, Bytes
<1> HIDE DEF a
<1>2. v \div a \in Int
  BY <1>1, DivMod
<1>3. (v \div a) % Half \in Nat /\ (v \div a) % Half < Half
  BY <1>1, <1>2, DivMod
<1> QED
  BY <1>3 DEF a

LEMMA VarintType ==
  ASSUME NEW v \in Nat, v < Modulus(8)
  PROVE  /\ Varint(v) \in Seq(Byte) /\ Len(Varint(v)) = GroupCount(v) /\ GroupCount(v) \in Nat
         /\ GroupCount(v) >= 1
         /\ \A i \in 1..GroupCount(v) :
              Varint(v)[i] = ((v \div GroupPlace(i)) % Half) + (IF i < GroupCount(v) THEN Half ELSE 0)
<1> DEFINE n == GroupCount(v)
           g(i) == (v \div GroupPlace(i)) % Half
           more(i) == IF i < n THEN Half ELSE 0
<1>1. n \in Nat /\ n >= 1
  BY GroupCountIs
<1>2. Varint(v) = [i \in 1..n |-> g(i) + more(i)]
  BY DEF Varint
<1>3. ASSUME NEW i \in 1..n PROVE g(i) + more(i) \in Byte
  <2>1. g(i) \in Nat /\ g(i) < Half
    BY <1>1, Group
  <2>2. Half \in Nat /\ Byte = 0..(2 * Half - 1)
    BY Bytes
  <2>3. more(i) \in {0, Half}
    OBVIOUS
  <2> HIDE DEF g, more
  <2> QED
    BY <2>1, <2>2, <2>3
<1>4. Varint(v) \in [1..n -> Byte]
  <2> HIDE DEF g, more
  <2> QED
    BY <1>2, <1>3
<1>5. Varint(v) \in Seq(Byte) /\ Len(Varint(v)) = n
  <2> HIDE DEF n
  <2> QED
    BY <1>1, <1>4
<1> QED
  BY <1>1, <1>2, <1>5

\* What FromVarint() composes is a number.
LEMMA GroupsType ==
  ASSUME NEW s \in Seq(Byte), NEW n \in 1..Len(s)
  PROVE  /\ [j \in 1..n |-> s[j] % Half] \in Seq(Nat) /\ Len([j \in 1..n |-> s[j] % Half]) = n
         /\ DOMAIN [j \in 1..n |-> s[j] % Half] = 1..n
         /\ [j \in 1..n |-> GroupPlace(j)] \in [1..n -> Nat]
<1>1. n \in Nat /\ 1..n \subseteq 1..Len(s)
  OBVIOUS
<1>2. ASSUME NEW j \in 1..n PROVE s[j] % Half \in Nat /\ GroupPlace(j) \in Nat
  <2>1. s[j] \in Nat /\ Half \in Nat /\ Half > 0
    BY <1>1, ByteSeq, Bytes
  <2>2. s[j] % Half \in Nat
    BY <2>1, DivMod
  <2> QED
    BY <1>1, <2>2, GroupPlaces
<1>3. [j \in 1..n |-> s[j] % Half] \in [1..n -> Nat]
  BY <1>2
<1>4. [j \in 1..n |-> GroupPlace(j)] \in [1..n -> Nat]
  BY <1>2
<1> QED
  BY <1>1, <1>3, <1>4

\* A read function consumes at most what there is, and a number that was read
\* is one.
LEMMA FromVarintType ==
  ASSUME NEW s \in Seq(Byte), NEW w \in Nat
  PROVE  /\ FromVarint(s, w).used \in 0..Len(s) /\ FromVarint(s, w).v \in Nat
<1> DEFINE G == Groups(w)
           Stop == {i \in DOMAIN s : i <= G /\ (s[i] < Half \/ i = G)}
           i == Min(Stop)
           r == Compose([j \in 1..i |-> s[j] % Half], [j \in 1..i |-> GroupPlace(j)])
<1>1. FromVarint(s, w) = IF Stop = {} THEN Bad(Len(s))
                         ELSE IF i = G /\ s[i] > LastGroup(w) THEN Bad(G) ELSE Good(r, i)
  BY DEF FromVarint
<1>2. Len(s) \in Nat /\ DOMAIN s = 1..Len(s)
  OBVIOUS
<1>3. CASE Stop = {}
  BY <1>1, <1>2, <1>3 DEF Bad
<1>4. CASE Stop # {}
  <2>1. Stop \in SUBSET Nat
    BY <1>2
  <2>2. i \in Stop
    <3> HIDE DEF Stop
    <3> QED
      BY <1>4, <2>1, MinIn
  <2>3. i \in 1..Len(s)
    <3> HIDE DEF i
    <3> QED
      BY <1>2, <2>2
  <2> HIDE DEF Stop, i
  <2>4. r \in Nat
    BY <2>3, GroupsType, ComposeType
  <2> HIDE DEF r, G
  <2>5. CASE i = G /\ s[i] > LastGroup(w)
    BY <1>1, <1>2, <1>4, <2>3, <2>5 DEF Bad
  <2>6. CASE ~(i = G /\ s[i] > LastGroup(w))
    BY <1>1, <1>2, <1>4, <2>3, <2>4, <2>6 DEF Good
  <2> QED
    BY <2>5, <2>6
<1> QED
  BY <1>3, <1>4

\* readUint32() and readUint64() give back what writeUint32() and
\* writeUint64() were given, and consume what those wrote.
LEMMA VarintBack ==
  ASSUME NEW w \in {4, 8}, NEW u \in Nat, u < Modulus(w), u < Modulus(8),
         NEW s \in Seq(Byte), GroupCount(u) <= Len(s),
         \A i \in 1..GroupCount(u) : s[i] = Varint(u)[i]
  PROVE  FromVarint(s, w) = Good(u, GroupCount(u))
<1> DEFINE n == GroupCount(u)
           G == Groups(w)
           Stop == {i \in DOMAIN s : i <= G /\ (s[i] < Half \/ i = G)}
           digits == [j \in 1..n |-> s[j] % Half]
           places == [j \in 1..n |-> GroupPlace(j)]
           e == [i \in 0..n |-> u % GroupPlace(i + 1)]
           g(i) == (u \div GroupPlace(i)) % Half
<1>1. /\ n \in Nat /\ n >= 1 /\ n \in 1..Groups(8) /\ Groups(8) \in Nat
      /\ u < GroupPlace(n + 1)
      /\ \A m \in 1..Groups(8) : u < GroupPlace(m + 1) => n <= m
  BY GroupCountIs, VarintType
<1>2. Half \in Nat /\ Half > 0 /\ Len(s) \in Nat /\ DOMAIN s = 1..Len(s) /\ n \in 1..Len(s)
  BY Bytes, <1>1
<1>3. ASSUME NEW i \in 1..n
      PROVE  /\ g(i) \in Nat /\ g(i) < Half
             /\ s[i] = g(i) + (IF i < n THEN Half ELSE 0)
             /\ s[i] \in Nat /\ s[i] % Half = g(i) /\ (s[i] < Half <=> i = n)
  <2>1. g(i) \in Nat /\ g(i) < Half
    BY <1>1, Group
  <2>2. s[i] = g(i) + (IF i < n THEN Half ELSE 0)
    BY VarintType
  <2> HIDE DEF g, n
  <2>3. CASE i < n
    <3>1. s[i] = g(i) + Half
      BY <2>2, <2>3
    <3>2. (g(i) + Half) % Half = g(i)
      BY <1>2, <2>1, SMTT(30)
    <3>3. (g(i) + Half) \in Nat /\ ~(g(i) + Half < Half) /\ i # n
      BY <1>1, <1>2, <2>1, <2>3
    <3> QED
      BY <2>1, <2>2, <3>1, <3>2, <3>3
  <2>4. CASE ~(i < n)
    <3>1. i = n /\ s[i] = g(i) + 0
      BY <1>1, <2>2, <2>4
    <3>2. g(i) % Half = g(i) /\ g(i) + 0 = g(i)
      BY <1>2, <2>1
    <3> QED
      BY <2>1, <2>2, <3>1, <3>2
  <2> QED
    BY <2>3, <2>4
<1>4. G \in Nat /\ G >= 1 /\ Modulus(w) <= GroupPlace(G + 1)
  BY GroupsHold
<1>5. n <= G
  <2>1. CASE G <= Groups(8)
    <3>1. G + 1 \in Nat /\ G + 1 >= 1 /\ G \in 1..Groups(8)
      BY <1>1, <1>4, <2>1
    <3>2. GroupPlace(G + 1) \in Nat /\ Modulus(w) \in Nat
      BY <3>1, GroupPlaces, ModulusType
    <3>3. u < GroupPlace(G + 1)
      BY <1>4, <3>2
    <3> QED
      BY <1>1, <3>1, <3>3
  <2>2. CASE ~(G <= Groups(8))
    BY <1>1, <1>4, <2>2
  <2> QED
    BY <2>1, <2>2
<1> HIDE DEF n, G, g
<1>6. n \in Stop
  <2>1. n \in 1..n
    BY <1>1
  <2>2. s[n] < Half
    BY <1>3, <2>1
  <2> QED
    BY <1>2, <1>5, <2>2
<1>7. ASSUME NEW y \in Stop PROVE n <= y
  <2>1. y \in 1..Len(s) /\ y <= G /\ (s[y] < Half \/ y = G)
    BY <1>2
  <2>2. ASSUME ~(n <= y) PROVE FALSE
    <3>1. y \in 1..n /\ y # n /\ y # G
      BY <1>1, <1>2, <1>4, <1>5, <2>1, <2>2
    <3> QED
      BY <1>3, <2>1, <3>1
  <2> QED
    BY <2>2
<1>8. Min(Stop) = n
  <2>1. Stop \in SUBSET Nat
    BY <1>2
  <2> HIDE DEF Stop
  <2> QED
    BY <1>6, <1>7, <2>1, MinIs
<1>9. ~(n = G /\ s[n] > LastGroup(w))
  <2> SUFFICES ASSUME n = G PROVE ~(s[n] > LastGroup(w))
    OBVIOUS
  <2> DEFINE L == LastGroup(w) + 1
             a == GroupPlace(G)
  <2>1. L \in Nat /\ u < a * L /\ a \in Nat /\ a > 0
    <3>1. L \in Nat /\ Modulus(w) = a * L
      BY GroupsHold DEF G
    <3> HIDE DEF a, L
    <3> QED
      BY <3>1, <1>4, GroupPlaces DEF a
  <2>2. s[n] = g(n) + 0 /\ g(n) \in Nat
    <3>1. n \in 1..n /\ ~(n < n)
      BY <1>1
    <3> QED
      BY <1>3, <3>1
  <2>3. g(n) = (u \div a) % Half
    BY DEF g
  <2>4. LastGroup(w) = L - 1
    <3>1. LastGroup(w) \in Int
      BY GroupsHold
    <3> QED
      BY <3>1
  <2> HIDE DEF L, a
  <2> DEFINE q == u \div a
  <2>5. q \in Nat /\ a * q <= u /\ a * q \in Int
    <3>1. q \in Int /\ u % a \in Int /\ a * q \in Int /\ u = a * q + (u % a) /\ 0 <= u % a /\ q >= 0
      BY <2>1, DivMod
    <3> HIDE DEF q
    <3> QED
      BY <3>1
  <2> HIDE DEF q
  <2>6. q < L
    <3> SUFFICES ASSUME L <= q PROVE FALSE
      BY <2>1, <2>5
    <3>1. q - L \in Nat /\ q = L + (q - L)
      BY <2>1, <2>5
    <3>2. a * (L + (q - L)) = a * L + a * (q - L) /\ a * L \in Nat /\ a * (q - L) \in Nat
      BY <2>1, <3>1
    <3> QED
      BY <2>1, <2>5, <3>1, <3>2
  <2>7. q % Half <= q /\ q % Half \in Nat
    BY <1>2, <2>5
  <2>8. s[n] = q % Half
    BY <2>2, <2>3 DEF q
  <2> QED
    BY <2>1, <2>4, <2>5, <2>6, <2>7, <2>8
<1>10. Compose(digits, places) = u
  <2>1. /\ digits \in Seq(Nat) /\ Len(digits) = n /\ DOMAIN digits = 1..n
        /\ places \in [DOMAIN digits -> Nat]
    BY <1>2, GroupsType
  <2>2. e[0] = 0
    <3>1. u % 1 = 0 /\ GroupPlace(0 + 1) = 1 /\ 0 \in 0..n
      BY <1>1, GroupPlaces
    <3> QED
      BY <3>1
  <2>3. e[n] = u
    <3>1. n + 1 \in Nat /\ n + 1 >= 1 /\ n \in 0..n
      BY <1>1
    <3>2. GroupPlace(n + 1) \in Nat
      BY <3>1, GroupPlaces
    <3>3. \A c \in Nat : u < c => u % c = u
      OBVIOUS
    <3>4. u % GroupPlace(n + 1) = u
      BY <1>1, <3>2, <3>3
    <3> QED
      BY <3>1, <3>4
  <2>4. ASSUME NEW i \in 1..n PROVE e[i] = e[i - 1] + digits[i] * places[i]
    <3> DEFINE a == GroupPlace(i)
    <3>1. i \in Nat /\ i >= 1 /\ i \in 0..n /\ i - 1 \in 0..n /\ (i - 1) + 1 = i
      BY <1>1
    <3>2. a \in Nat /\ a > 0 /\ GroupPlace(i + 1) = a * Half
      BY <3>1, GroupPlaces
    <3>3. e[i] = u % (a * Half) /\ e[i - 1] = u % a
      BY <3>1, <3>2
    <3>4. digits[i] = (u \div a) % Half /\ places[i] = a
      BY <1>3 DEF g
    <3> HIDE DEF e, a, digits, places
    <3>5. u % (a * Half) = (u % a) + ((u \div a) % Half) * a
      BY <1>2, <3>2, Digit
    <3> QED
      BY <3>3, <3>4, <3>5
  <2> HIDE DEF e, digits, places
  <2>5. Sums(digits, places, e)
    BY <2>1, <2>2, <2>4 DEF Sums
  <2>6. Compose(digits, places) = e[Len(digits)]
    BY <2>1, <2>5, ComposeIs
  <2> QED
    BY <2>1, <2>3, <2>6
<1>11. FromVarint(s, w) = LET i == Min(Stop) IN
          IF Stop = {} THEN Bad(Len(s))
          ELSE IF i = G /\ s[i] > LastGroup(w) THEN Bad(G)
          ELSE Good(Compose([j \in 1..i |-> s[j] % Half], [j \in 1..i |-> GroupPlace(j)]), i)
  BY DEF FromVarint, G
<1> HIDE DEF Stop
<1> QED
  BY <1>6, <1>8, <1>9, <1>10, <1>11 DEF n

-----------------------------------------------------------------------------
(* The write functions and the read functions. *)

\* What a write function can be given.
IsNumber(item) ==
  /\ <<item.type, item.width>> \in NumberKinds
  /\ item.v \in Int /\ InRange(item.type, item.width, item.v)
IsString(item) ==
  /\ item.type = "string" /\ item.width \in {0, 2, 4, 8} /\ item.v \in Seq(Byte)
  /\ Len(item.v) <= SizeMax /\ (item.width # 0 => Len(item.v) < Modulus(item.width))
IsRaw(item) == item.type = "raw" /\ item.v \in Seq(Byte)

LEMMA NumberTypes ==
  ASSUME NEW item, IsNumber(item)
  PROVE  /\ item.type \in {"fixed", "signed", "uint", "int"} /\ item.width \in {1, 2, 4, 8}
         /\ item.type \in {"uint", "int"} => item.width \in {4, 8}
  BY DEF IsNumber, NumberKinds

LEMMA ModulusMono ==
  ASSUME NEW w \in {1, 2, 4, 8}
  PROVE  Modulus(w) <= Modulus(8) /\ Modulus(w) \in Nat /\ Modulus(8) \in Nat
<1>1. Bits * w \in Nat /\ Bits * 8 \in Nat /\ Bits * w <= Bits * 8
  BY Constants
<1> QED
  BY <1>1, ShiftMono, ModulusType DEF Modulus

LEMMA SizeFits ==
  ASSUME NEW n \in Nat, n <= SizeMax
  PROVE  n < Modulus(8)
<1>1. SizeMax < Modulus(8) /\ Modulus(8) \in Nat /\ SizeMax \in Nat
  BY ValuesAssumption, ModulusType, Constants
<1> QED
  BY <1>1

\* The number a variable-length one is written as.
LEMMA VarintOf ==
  ASSUME NEW item, IsNumber(item), item.type \in {"uint", "int"}
  PROVE  LET u == IF item.type = "uint" THEN item.v ELSE EncodeZigzag(item.v, item.width)
         IN u \in Nat /\ u < Modulus(item.width) /\ u < Modulus(8)
<1> DEFINE u == IF item.type = "uint" THEN item.v ELSE EncodeZigzag(item.v, item.width)
           M == Modulus(item.width)
<1>1. item.width \in {4, 8} /\ item.v \in Int
  BY NumberTypes DEF IsNumber
<1>2. M \in Nat /\ M <= Modulus(8) /\ Modulus(8) \in Nat
  BY <1>1, ModulusMono
<1>3. u \in 0..(M - 1)
  <2>1. CASE item.type = "uint"
    BY <2>1 DEF IsNumber, InRange
  <2>2. CASE item.type = "int"
    <3>1. 2 * item.v \in -M..(M - 1)
      BY <2>2 DEF IsNumber, InRange
    <3> QED
      BY <1>1, <2>2, <3>1, ZigzagBack
  <2> QED
    BY <2>1, <2>2
<1> HIDE DEF u, M
<1>4. u \in Nat /\ u < M /\ u < Modulus(8)
  BY <1>2, <1>3
<1> QED
  BY <1>4 DEF u, M

LEMMA EncodeType ==
  ASSUME NEW item, IsNumber(item) \/ IsString(item) \/ IsRaw(item), NEW little \in BOOLEAN
  PROVE  Encode(item, little).prefix \in Seq(Byte) /\ Encode(item, little).body \in Seq(Byte)
<1> DEFINE P == Encode(item, little).prefix
           D == Encode(item, little).body
<1>1. CASE IsRaw(item)
  <2>1. item.type = "raw" /\ item.v \in Seq(Byte)
    BY <1>1 DEF IsRaw
  <2>2. P = <<>> /\ D = item.v
    BY <2>1 DEF Encode
  <2> QED
    BY <2>1, <2>2
<1>2. CASE IsString(item)
  <2>1. item.type = "string" /\ item.v \in Seq(Byte) /\ Len(item.v) \in Nat /\ Len(item.v) <= SizeMax
        /\ item.width \in {0, 2, 4, 8}
    BY <1>2 DEF IsString
  <2>2. P = LengthPrefix(item.width, Len(item.v), little) /\ D = item.v
    BY <2>1 DEF Encode
  <2>3. Varint(Len(item.v)) \in Seq(Byte)
    BY <2>1, SizeFits, VarintType
  <2>4. Fixed(item.width, Len(item.v), little) \in Seq(Byte)
    BY <2>1, FixedType
  <2> QED
    BY <2>1, <2>2, <2>3, <2>4 DEF LengthPrefix
<1>3. CASE IsNumber(item)
  <2>1. item.type \in {"fixed", "signed", "uint", "int"} /\ item.width \in Nat /\ item.v \in Int
    BY <1>3, NumberTypes DEF IsNumber
  <2>2. P = <<>>
    BY <2>1 DEF Encode
  <2>3. CASE item.type \in {"fixed", "signed"}
    <3>1. D = Fixed(item.width, item.v, little)
      BY <2>3 DEF Encode
    <3> QED
      BY <2>1, <2>2, <3>1, FixedType
  <2>4. CASE item.type \in {"uint", "int"}
    <3> DEFINE u == IF item.type = "uint" THEN item.v ELSE EncodeZigzag(item.v, item.width)
    <3>1. D = Varint(u)
      BY <2>4 DEF Encode
    <3>2. u \in Nat /\ u < Modulus(8)
      BY <1>3, <2>4, VarintOf
    <3> HIDE DEF u
    <3> QED
      BY <2>2, <3>1, <3>2, VarintType
  <2> QED
    BY <2>1, <2>3, <2>4
<1> QED
  BY <1>1, <1>2, <1>3

LEMMA ReadFixedType ==
  ASSUME NEW s \in Seq(Byte), NEW w \in Nat, NEW little \in BOOLEAN
  PROVE  /\ ReadFixed(s, w, little).used \in 0..Len(s) /\ ReadFixed(s, w, little).v \in Nat
<1>1. CASE Len(s) < w
  BY <1>1 DEF ReadFixed, Bad
<1>2. CASE ~(Len(s) < w)
  <2>1. SubSeq(s, 1, w) \in Seq(Byte)
    BY <1>2
  <2>2. FromFixed(SubSeq(s, 1, w), little) \in Nat
    BY <2>1, FromFixedType
  <2>3. ReadFixed(s, w, little) = Good(FromFixed(SubSeq(s, 1, w), little), w)
    BY <1>2 DEF ReadFixed
  <2> QED
    BY <1>2, <2>2, <2>3 DEF Good
<1> QED
  BY <1>1, <1>2

LEMMA ReadStringType ==
  ASSUME NEW s \in Seq(Byte), NEW w \in Nat, NEW little \in BOOLEAN
  PROVE  ReadString(s, w, little).used \in 0..Len(s)
<1> DEFINE n == IF w = 0 THEN FromVarint(s, 8) ELSE ReadFixed(s, w, little)
<1>1. n.used \in 0..Len(s) /\ n.v \in Nat
  BY FromVarintType, ReadFixedType
<1>2. ReadString(s, w, little) = IF ~n.ok THEN n ELSE IF n.v > Len(s) - n.used THEN Bad(n.used)
                                 ELSE Good(SubSeq(s, n.used + 1, n.used + n.v), n.used + n.v)
  BY DEF ReadString
<1> HIDE DEF n
<1>3. CASE ~n.ok
  BY <1>1, <1>2, <1>3
<1>4. CASE n.ok /\ n.v > Len(s) - n.used
  BY <1>1, <1>2, <1>4 DEF Bad
<1>5. CASE n.ok /\ ~(n.v > Len(s) - n.used)
  <2>1. ReadString(s, w, little).used = n.used + n.v
    BY <1>2, <1>5 DEF Good
  <2> QED
    BY <1>1, <1>5, <2>1
<1> QED
  BY <1>3, <1>4, <1>5

LEMMA DecodeType ==
  ASSUME NEW s \in Seq(Byte), NEW k \in Kinds, NEW little \in BOOLEAN
  PROVE  Decode(k[1], k[2], s, little).used \in 0..Len(s)
<1>1. k[1] \in {"fixed", "signed", "uint", "int", "string"} /\ k[2] \in Nat
  BY DEF Kinds, NumberKinds
<1> DEFINE w == k[2]
           fx == ReadFixed(s, w, little)
           vi == FromVarint(s, w)
<1>2. fx.used \in 0..Len(s) /\ vi.used \in 0..Len(s) /\ ReadString(s, w, little).used \in 0..Len(s)
  BY <1>1, ReadFixedType, FromVarintType, ReadStringType
<1> HIDE DEF w, fx, vi
<1>3. CASE k[1] = "fixed"
  BY <1>2, <1>3 DEF Decode, w, fx
<1>4. CASE k[1] = "signed"
  <2>1. Decode(k[1], k[2], s, little) = IF fx.ok THEN Good(Signed(fx.v, w), fx.used) ELSE fx
    BY <1>4 DEF Decode, w, fx
  <2> QED
    BY <1>2, <2>1 DEF Good
<1>5. CASE k[1] = "uint"
  BY <1>2, <1>5 DEF Decode, w, vi
<1>6. CASE k[1] = "int"
  <2>1. Decode(k[1], k[2], s, little) = IF vi.ok THEN Good(DecodeZigzag(vi.v, w), vi.used) ELSE vi
    BY <1>6 DEF Decode, w, vi
  <2> QED
    BY <1>2, <2>1 DEF Good
<1>7. CASE k[1] = "string"
  BY <1>2, <1>7 DEF Decode, w
<1> QED
  BY <1>1, <1>3, <1>4, <1>5, <1>6, <1>7

\* The first bytes of s are those of t.
Begins(s, t) == Len(t) <= Len(s) /\ \A i \in 1..Len(t) : s[i] = t[i]

LEMMA ReadFixedBack ==
  ASSUME NEW w \in Nat, NEW v \in Int, NEW little \in BOOLEAN, NEW s \in Seq(Byte),
         Begins(s, Fixed(w, v, little))
  PROVE  ReadFixed(s, w, little) = Good(v % Modulus(w), w)
<1> DEFINE t == Fixed(w, v, little)
<1>1. t \in Seq(Byte) /\ Len(t) = w
  BY FixedType
<1>2. FromFixed(t, little) = v % Modulus(w)
  BY FixedBack
<1>3. w <= Len(s) /\ \A i \in 1..w : s[i] = t[i]
  BY <1>1 DEF Begins
<1> HIDE DEF t
<1>4. SubSeq(s, 1, w) = t
  <2>1. SubSeq(s, 1, w) \in Seq(Byte) /\ Len(SubSeq(s, 1, w)) = w
    BY <1>3
  <2>2. \A i \in 1..w : SubSeq(s, 1, w)[i] = t[i]
    BY <1>3
  <2> QED
    BY <1>1, <2>1, <2>2
<1>5. ~(Len(s) < w)
  BY <1>3
<1> QED
  BY <1>2, <1>4, <1>5 DEF ReadFixed

LEMMA ReadVarintBack ==
  ASSUME NEW w \in {4, 8}, NEW u \in Nat, u < Modulus(w), u < Modulus(8), NEW s \in Seq(Byte),
         Begins(s, Varint(u))
  PROVE  FromVarint(s, w) = Good(u, Len(Varint(u)))
<1>1. Len(Varint(u)) = GroupCount(u)
  BY VarintType
<1>2. GroupCount(u) <= Len(s) /\ \A i \in 1..GroupCount(u) : s[i] = Varint(u)[i]
  BY <1>1 DEF Begins
<1> QED
  BY <1>1, <1>2, VarintBack

\* What a write function wrote, the read function of its kind reads: the same
\* value, and exactly the bytes written.
LEMMA DecodeBack ==
  ASSUME NEW item, IsNumber(item) \/ IsString(item), NEW little \in BOOLEAN, NEW s \in Seq(Byte),
         Begins(s, Encode(item, little).prefix \o Encode(item, little).body)
  PROVE  Decode(item.type, item.width, s, little) =
            Good(item.v, Len(Encode(item, little).prefix \o Encode(item, little).body))
<1> DEFINE P == Encode(item, little).prefix
           D == Encode(item, little).body
           w == item.width
<1>1. P \in Seq(Byte) /\ D \in Seq(Byte)
  BY EncodeType
<1>2. CASE IsNumber(item)
  <2>1. /\ item.type \in {"fixed", "signed", "uint", "int"} /\ w \in {1, 2, 4, 8}
        /\ (item.type \in {"uint", "int"} => w \in {4, 8}) /\ item.v \in Int
    BY <1>2, NumberTypes DEF IsNumber
  <2>2. P = <<>>
    BY <2>1 DEF Encode
  <2>3. P \o D = D
    BY <1>1, <2>2
  <2>4. CASE item.type \in {"fixed", "signed"}
    <3> DEFINE M == Modulus(w)
    <3>1. D = Fixed(w, item.v, little)
      BY <2>4 DEF Encode
    <3>2. Len(D) = w
      BY <2>1, <3>1, FixedType
    <3>3. ReadFixed(s, w, little) = Good(item.v % M, w)
      BY <2>1, <2>3, <3>1, ReadFixedBack
    <3>4. CASE item.type = "fixed"
      <4>1. item.v \in 0..(M - 1) /\ M \in Nat
        BY <1>2, <2>1, <3>4, ModulusType DEF IsNumber, InRange
      <4>2. item.v % M = item.v
        <5> HIDE DEF M
        <5> QED
          BY <2>1, <4>1
      <4>3. Decode(item.type, item.width, s, little) = ReadFixed(s, w, little)
        BY <3>4 DEF Decode
      <4> QED
        BY <2>3, <3>2, <3>3, <4>2, <4>3
    <3>5. CASE item.type = "signed"
      <4>1. 2 * item.v \in -M..(M - 1)
        BY <1>2, <3>5 DEF IsNumber, InRange
      <4>2. Signed(item.v % M, w) = item.v
        BY <2>1, <4>1, SignedBack
      <4>3. Decode(item.type, item.width, s, little) =
               LET u == ReadFixed(s, w, little) IN IF u.ok THEN Good(Signed(u.v, w), u.used) ELSE u
        BY <3>5 DEF Decode
      <4>4. Decode(item.type, item.width, s, little) = Good(Signed(item.v % M, w), w)
        BY <3>3, <4>3 DEF Good
      <4> QED
        BY <2>3, <3>2, <4>2, <4>4
    <3> QED
      BY <2>4, <3>4, <3>5
  <2>5. CASE item.type \in {"uint", "int"}
    <3> DEFINE u == IF item.type = "uint" THEN item.v ELSE EncodeZigzag(item.v, item.width)
    <3>1. D = Varint(u)
      BY <2>5 DEF Encode
    <3>2. u \in Nat /\ u < Modulus(w) /\ u < Modulus(8)
      BY <1>2, <2>5, VarintOf
    <3> HIDE DEF u
    <3>3. FromVarint(s, w) = Good(u, Len(D))
      BY <2>1, <2>3, <2>5, <3>1, <3>2, ReadVarintBack
    <3>4. CASE item.type = "uint"
      <4>1. Decode(item.type, item.width, s, little) = FromVarint(s, w)
        BY <3>4 DEF Decode
      <4> QED
        BY <2>3, <3>3, <3>4, <4>1 DEF u
    <3>5. CASE item.type = "int"
      <4>1. 2 * item.v \in -Modulus(w)..(Modulus(w) - 1)
        BY <1>2, <3>5 DEF IsNumber, InRange
      <4>2. DecodeZigzag(u, w) = item.v
        BY <2>1, <3>5, <4>1, ZigzagBack DEF u
      <4>3. Decode(item.type, item.width, s, little) =
               LET x == FromVarint(s, w) IN IF x.ok THEN Good(DecodeZigzag(x.v, w), x.used) ELSE x
        BY <3>5 DEF Decode
      <4>4. Decode(item.type, item.width, s, little) = Good(DecodeZigzag(u, w), Len(D))
        BY <3>3, <4>3 DEF Good
      <4> QED
        BY <2>3, <4>2, <4>4
    <3> QED
      BY <2>5, <3>4, <3>5
  <2> QED
    BY <2>1, <2>4, <2>5
<1>3. CASE IsString(item)
  <2> DEFINE n == Len(item.v)
             m == Len(P)
             r == IF w = 0 THEN FromVarint(s, 8) ELSE ReadFixed(s, w, little)
  <2>1. /\ item.type = "string" /\ w \in {0, 2, 4, 8} /\ item.v \in Seq(Byte) /\ n \in Nat
        /\ n <= SizeMax /\ (w # 0 => n < Modulus(w))
    BY <1>3 DEF IsString
  <2>2. P = LengthPrefix(w, n, little) /\ D = item.v
    BY <2>1 DEF Encode
  <2>3. Begins(s, P \o D) /\ n = Len(D) /\ m = Len(P)
    BY <2>2
  <2>4. Decode(item.type, item.width, s, little) = ReadString(s, w, little)
    BY <2>1 DEF Decode
  <2> HIDE DEF P, D, w, m, n
  <2>5. m \in Nat /\ Len(P \o D) = m + n /\ m + n <= Len(s)
    BY <1>1, <2>3 DEF Begins
  <2>6. ASSUME NEW i \in 1..m PROVE s[i] = P[i]
    <3>1. i \in 1..Len(P \o D) /\ (P \o D)[i] = P[i]
      BY <1>1, <2>1, <2>3, <2>5
    <3> QED
      BY <2>3, <3>1 DEF Begins
  <2>7. ASSUME NEW i \in 1..n PROVE s[m + i] = D[i]
    <3>1. m + i \in 1..Len(P \o D)
      BY <2>1, <2>5
    <3>2. (P \o D)[m + i] = D[i]
      BY <1>1, <2>1, <2>3, <2>5
    <3> QED
      BY <2>3, <3>1, <3>2 DEF Begins
  <2>8. Begins(s, P)
    <3>1. m <= Len(s)
      BY <2>1, <2>5
    <3> QED
      BY <2>3, <2>6, <3>1 DEF Begins
  <2>9. r = Good(n, m)
    <3>1. CASE w = 0
      <4>1. P = Varint(n) /\ n < Modulus(8)
        BY <2>1, <2>2, <3>1, SizeFits DEF LengthPrefix
      <4> QED
        BY <2>1, <2>3, <2>8, <3>1, <4>1, ReadVarintBack
    <3>2. CASE w # 0
      <4>1. P = Fixed(w, n, little) /\ n < Modulus(w) /\ Modulus(w) \in Nat
        BY <2>1, <2>2, <3>2, ModulusType DEF LengthPrefix
      <4>2. \A c \in Nat : n < c => n % c = n
        BY <2>1
      <4>3. n % Modulus(w) = n
        BY <4>1, <4>2
      <4>4. m = w
        BY <2>1, <2>3, <4>1, FixedType
      <4>5. ReadFixed(s, w, little) = Good(n % Modulus(w), w)
        BY <2>1, <2>8, <4>1, ReadFixedBack
      <4> QED
        BY <3>2, <4>3, <4>4, <4>5
    <3> QED
      BY <3>1, <3>2
  <2>10. SubSeq(s, m + 1, m + n) = D
    <3>1. SubSeq(s, m + 1, m + n) \in Seq(Byte) /\ Len(SubSeq(s, m + 1, m + n)) = n
      BY <2>1, <2>5
    <3>2. ASSUME NEW i \in 1..n PROVE SubSeq(s, m + 1, m + n)[i] = s[m + i]
      BY <2>1, <2>5
    <3>3. \A i \in 1..n : SubSeq(s, m + 1, m + n)[i] = D[i]
      BY <2>7, <3>2
    <3>4. D \in Seq(Byte) /\ Len(D) = n
      BY <1>1, <2>3
    <3> DEFINE sub == SubSeq(s, m + 1, m + n)
    <3> HIDE DEF sub
    <3>5. sub = D
      BY <3>1, <3>3, <3>4 DEF sub
    <3> QED
      BY <3>5 DEF sub
  <2>11. ReadString(s, w, little) =
            IF ~r.ok THEN r ELSE IF r.v > Len(s) - r.used THEN Bad(r.used)
            ELSE Good(SubSeq(s, r.used + 1, r.used + r.v), r.used + r.v)
    BY DEF ReadString
  <2>12. r.ok = TRUE /\ r.v = n /\ r.used = m
    BY <2>9 DEF Good
  <2>13. ~(n > Len(s) - m)
    BY <2>1, <2>5
  <2> HIDE DEF r
  <2>14. ReadString(s, w, little) = Good(D, m + n)
    BY <2>10, <2>11, <2>12, <2>13
  <2> QED
    BY <2>2, <2>4, <2>5, <2>14 DEF P, D
<1> QED
  BY <1>2, <1>3

-----------------------------------------------------------------------------
(* The state. *)

LEMMA Types ==
  ASSUME TypeOK
  PROVE  /\ nodes \in Seq(Block) /\ Len(nodes) \in Nat /\ capacity = Len(nodes) * BaseSize
         /\ capacity \in Nat /\ BaseSize <= capacity /\ capacity <= SizeMax
         /\ size \in Nat /\ size <= capacity /\ position \in Nat /\ position <= size
         /\ little_endian \in BOOLEAN /\ ops \in 0..MaxOps
<1>1. nodes \in Seq(Block) /\ capacity = Len(nodes) * BaseSize /\ capacity \in BaseSize..SizeMax
  BY DEF TypeOK
<1>2. Len(nodes) \in Nat /\ BaseSize \in Nat /\ SizeMax \in Nat
  BY <1>1, Constants
<1>3. capacity \in Nat /\ BaseSize <= capacity /\ capacity <= SizeMax
  BY <1>1, <1>2
<1>4. size \in 0..capacity /\ position \in 0..size /\ little_endian \in BOOLEAN /\ ops \in 0..MaxOps
  BY DEF TypeOK
<1> QED
  BY <1>1, <1>2, <1>3, <1>4

\* The bytes of the flat buffer are those of the chain.
LEMMA FlatIs ==
  ASSUME TypeOK
  PROVE  /\ Flat = [i \in 1..size |-> At(nodes, i - 1)]
         /\ Flat \in Seq(Byte) /\ Len(Flat) = size
<1>1. Flat = [i \in 1..size |-> At(nodes, i - 1)]
  BY DEF Flat, At, NodeAt, OffsetAt
<1>2. ASSUME NEW i \in 1..size PROVE At(nodes, i - 1) \in Byte
  <2>1. /\ nodes \in Seq(Block) /\ capacity = Len(nodes) * BaseSize /\ capacity \in Nat
        /\ size \in Nat /\ size <= capacity
    BY Types
  <2>2. i - 1 \in Nat /\ i - 1 < capacity
    BY <2>1
  <2> QED
    BY <2>1, <2>2, BlocksType
<1>3. size \in Nat
  BY Types
<1>4. Flat \in [1..size -> Byte]
  BY <1>1, <1>2
<1> QED
  BY <1>1, <1>3, <1>4

\* What a read hands out is a piece of the flat buffer.
LEMMA ReadableFlat ==
  ASSUME TypeOK, NEW p \in Nat, p <= size, NEW n \in Nat
  PROVE  LET m == IF n <= size - p THEN n ELSE size - p
             s == Readable(p, n)
         IN /\ m \in Nat /\ p + m <= size
            /\ s \in Seq(Byte) /\ Len(s) = m /\ s = SubSeq(Flat, p + 1, p + m)
            /\ \A i \in 1..m : s[i] = At(nodes, p + (i - 1))
<1> DEFINE m == IF n <= size - p THEN n ELSE size - p
           s == Readable(p, n)
<1>1. /\ nodes \in Seq(Block) /\ capacity = Len(nodes) * BaseSize /\ capacity \in Nat
      /\ size \in Nat /\ size <= capacity
  BY Types
<1>2. m \in Nat /\ p + m <= size
  BY <1>1
<1>3. Min({n, size - p}) = m
  BY <1>1, MinTwo
<1>4. s = Load(nodes, Spans(nodes, p, m), m)
  BY <1>3 DEF Readable
<1> HIDE DEF m, s
<1>5. p + m <= Len(nodes) * BaseSize
  BY <1>1, <1>2
<1>6. s = [i \in 1..m |-> At(nodes, p + (i - 1))]
  BY <1>1, <1>2, <1>4, <1>5, LoadFlat
<1>7. ASSUME NEW i \in 1..m PROVE At(nodes, p + (i - 1)) \in Byte /\ Flat[p + i] = At(nodes, p + (i - 1))
  <2>1. p + i \in 1..size /\ (p + i) - 1 = p + (i - 1)
    BY <1>1, <1>2
  <2>2. Flat[p + i] = At(nodes, (p + i) - 1) /\ Flat[p + i] \in Byte
    BY <2>1, FlatIs
  <2> QED
    BY <2>1, <2>2
<1>8. s \in [1..m -> Byte]
  BY <1>6, <1>7
<1>9. s \in Seq(Byte) /\ Len(s) = m
  BY <1>2, <1>8
<1> DEFINE sub == SubSeq(Flat, p + 1, p + m)
<1>10. sub \in Seq(Byte) /\ Len(sub) = m /\ \A i \in 1..m : sub[i] = Flat[p + i]
  <2>1. Flat \in Seq(Byte) /\ Len(Flat) = size
    BY FlatIs
  <2>2. p + m <= Len(Flat)
    BY <1>2, <2>1
  <2> QED
    BY <1>1, <1>2, <2>1, <2>2
<1> HIDE DEF sub
<1>11. s = sub
  BY <1>6, <1>7, <1>9, <1>10
<1> QED
  BY <1>2, <1>6, <1>9, <1>11 DEF m, s, sub

\* Part of what is handed out from p.
LEMMA PartOf ==
  ASSUME TypeOK, NEW p \in Nat, p <= size, NEW n \in Nat, NEW k \in 0..Len(Readable(p, n))
  PROVE  /\ k \in Nat /\ p + k <= size /\ SubSeq(Readable(p, n), 1, k) = SubSeq(Flat, p + 1, p + k)
<1> DEFINE m == IF n <= size - p THEN n ELSE size - p
           s == Readable(p, n)
<1>1. /\ m \in Nat /\ p + m <= size /\ s \in Seq(Byte) /\ Len(s) = m /\ s = SubSeq(Flat, p + 1, p + m)
  BY ReadableFlat
<1>2. Flat \in Seq(Byte) /\ Len(Flat) = size /\ size \in Nat
  BY FlatIs, Types
<1> HIDE DEF m, s
<1>3. k \in Nat /\ k <= m /\ p + k <= size
  BY <1>1, <1>2 DEF s
<1> DEFINE a == SubSeq(s, 1, k)
           b == SubSeq(Flat, p + 1, p + k)
<1>4. a \in Seq(Byte) /\ Len(a) = k /\ \A i \in 1..k : a[i] = s[i]
  <2>1. s \in Seq(Byte) /\ k \in Nat /\ k <= Len(s)
    BY <1>1, <1>3
  <2>2. a \in Seq(Byte) /\ Len(a) = k
    BY <2>1
  <2>3. \A i \in 1..k : a[i] = s[i]
    BY <2>1
  <2> QED
    BY <2>2, <2>3
<1>5. b \in Seq(Byte) /\ Len(b) = k /\ \A i \in 1..k : b[i] = Flat[p + i]
  BY <1>2, <1>3
<1>6. ASSUME NEW i \in 1..k PROVE s[i] = Flat[p + i]
  <2>1. i \in 1..m
    BY <1>1, <1>3
  <2> QED
    BY <1>1, <1>2, <2>1
<1> HIDE DEF a, b
<1>7. a = b
  BY <1>4, <1>5, <1>6, SMTT(30)
<1> QED
  BY <1>3, <1>7 DEF a, b, s

\* addCapacity() and the bytes s written at the position, of a transfer of n.
LEMMA Grown ==
  ASSUME TypeOK, NEW n \in Nat, CanGrow(position, capacity, n), NEW s \in Seq(Byte), Len(s) <= n,
         NEW new \in NewBlocks(Missing(position, capacity, n))
  PROVE  LET blocks == nodes \o new
             st == Store(blocks, Spans(blocks, position, n), s)
             cap == capacity + Len(new) * BaseSize
         IN /\ st \in Seq(Block) /\ cap = Len(st) * BaseSize /\ cap \in Nat /\ cap <= SizeMax
            /\ capacity <= cap /\ position + Len(s) <= cap
            /\ \A a \in Nat : a < cap /\ a \in position..(position + Len(s) - 1) =>
                                At(st, a) = s[a - position + 1]
            /\ \A a \in Nat : a < capacity /\ a \notin position..(position + Len(s) - 1) =>
                                At(st, a) = At(nodes, a)
<1> DEFINE m == Missing(position, capacity, n)
           blocks == nodes \o new
           st == Store(blocks, Spans(blocks, position, n), s)
           cap == capacity + Len(new) * BaseSize
<1>1. /\ nodes \in Seq(Block) /\ Len(nodes) \in Nat /\ capacity = Len(nodes) * BaseSize /\ capacity \in Nat
      /\ capacity <= SizeMax /\ position \in 0..capacity /\ position \in Nat
  BY Types
<1>2. /\ m \in Nat /\ (Len(nodes) + m) * BaseSize = capacity + m * BaseSize /\ m * BaseSize \in Nat
      /\ position + n <= capacity + m * BaseSize /\ capacity + m * BaseSize <= SizeMax
  BY <1>1, Room
<1>3. new \in Seq(Block) /\ Len(new) = m
  BY <1>2, NewBlocksType
<1> HIDE DEF m
<1>4. /\ blocks \in Seq(Block) /\ Len(blocks) = Len(nodes) + m
      /\ \A a \in Nat : a < Len(nodes) * BaseSize => At(blocks, a) = At(nodes, a)
  BY <1>1, <1>3, Longer
<1>5. cap = capacity + m * BaseSize /\ cap = Len(blocks) * BaseSize
  BY <1>2, <1>3, <1>4
<1> HIDE DEF blocks, cap
<1>6. cap \in Nat /\ cap <= SizeMax /\ capacity <= cap /\ position + n <= cap
  <2> DEFINE c == m * BaseSize
  <2>1. c \in Nat /\ cap = capacity + c /\ position + n <= capacity + c /\ capacity + c <= SizeMax
    BY <1>2, <1>5
  <2> HIDE DEF c
  <2> QED
    BY <1>1, <2>1
<1>7. /\ st \in Seq(Block) /\ Len(st) = Len(blocks)
      /\ \A a \in Nat : a < Len(blocks) * BaseSize =>
            At(st, a) = IF a \in position..(position + Len(s) - 1) THEN s[a - position + 1] ELSE At(blocks, a)
  BY <1>1, <1>4, <1>5, <1>6, StoreFlat
<1> HIDE DEF st
<1>8. Len(s) \in Nat /\ position + Len(s) <= cap
  <2>1. Len(s) \in Nat
    OBVIOUS
  <2> QED
    BY <1>1, <1>6, <2>1
<1>9. ASSUME NEW a \in Nat, a < cap, a \in position..(position + Len(s) - 1)
      PROVE  At(st, a) = s[a - position + 1]
  BY <1>5, <1>7, <1>9
<1>10. ASSUME NEW a \in Nat, a < capacity, a \notin position..(position + Len(s) - 1)
       PROVE  At(st, a) = At(nodes, a)
  <2>1. a < cap
    BY <1>1, <1>6, <1>10
  <2>2. At(st, a) = At(blocks, a)
    BY <1>5, <1>7, <1>10, <2>1
  <2> QED
    BY <1>1, <1>4, <1>10, <2>2
<1> QED
  BY <1>5, <1>6, <1>7, <1>8, <1>9, <1>10 DEF blocks, st, cap

-----------------------------------------------------------------------------
(* Writes. *)

\* The bytes s are written at the position, and the chain is long enough.
Transfer(s) ==
  /\ nodes' \in Seq(Block) /\ capacity' = Len(nodes') * BaseSize
  /\ capacity' \in Nat /\ capacity' <= SizeMax /\ capacity <= capacity' /\ position + Len(s) <= capacity'
  /\ \A a \in Nat : a < capacity' /\ a \in position..(position + Len(s) - 1) => At(nodes', a) = s[a - position + 1]
  /\ \A a \in Nat : a < capacity /\ a \notin position..(position + Len(s) - 1) => At(nodes', a) = At(nodes, a)
  /\ position' = position + Len(s) /\ size' = SizeAt(position + Len(s))

LEMMA Transferred ==
  ASSUME TypeOK, NEW n \in Nat, CanGrow(position, capacity, n), NEW s \in Seq(Byte), Len(s) <= n,
         NEW new \in NewBlocks(Missing(position, capacity, n)),
         nodes' = Store(nodes \o new, Spans(nodes \o new, position, n), s),
         capacity' = capacity + Len(new) * BaseSize,
         position' = position + Len(s), size' = SizeAt(position + Len(s))
  PROVE  Transfer(s)
<1> DEFINE blocks == nodes \o new
           st == Store(blocks, Spans(blocks, position, n), s)
           cap == capacity + Len(new) * BaseSize
<1>1. /\ st \in Seq(Block) /\ cap = Len(st) * BaseSize /\ cap \in Nat /\ cap <= SizeMax
      /\ capacity <= cap /\ position + Len(s) <= cap
      /\ \A a \in Nat : a < cap /\ a \in position..(position + Len(s) - 1) => At(st, a) = s[a - position + 1]
      /\ \A a \in Nat : a < capacity /\ a \notin position..(position + Len(s) - 1) => At(st, a) = At(nodes, a)
  BY Grown
<1>2. nodes' = st /\ capacity' = cap
  OBVIOUS
<1> HIDE DEF st, cap
<1> QED
  BY <1>1, <1>2 DEF Transfer

\* Nothing needs no room.
LEMMA NothingFits ==
  ASSUME TypeOK
  PROVE  CanGrow(position, capacity, 0)
<1>1. capacity \in Nat /\ capacity <= SizeMax /\ position \in Nat /\ position <= capacity /\ SizeMax \in Nat
      /\ BaseSize \in Nat /\ BaseSize > 0
  BY Types, Constants
<1>2. Missing(position, capacity, 0) = 0
  BY <1>1 DEF Missing
<1>3. (SizeMax - capacity) \div BaseSize >= 0
  BY <1>1, DivMod
<1> QED
  BY <1>2, <1>3 DEF CanGrow

\* The bytes of an item, and the record of it.
All(item) == Encode(item, little_endian).prefix \o Encode(item, little_endian).body
Noted(item) == [type |-> item.type, width |-> item.width, v |-> item.v,
                at |-> position, end |-> position + Len(All(item))]

\* s is what is left of what was given to write.
Gave(s) == /\ given' \in Seq(Byte) \X Seq(Byte)
           /\ s \in {given'[1] \o given'[2], given'[1], <<>>}

LEMMA WriteItemIs ==
  ASSUME TypeOK, NEW item, IsNumber(item) \/ IsString(item) \/ IsRaw(item), WriteItem(item)
  PROVE  /\ ops' \in 0..MaxOps /\ little_endian' = little_endian /\ out' = <<>>
         /\ \E s \in Seq(Byte) : /\ Transfer(s) /\ Gave(s)
                                 /\ \/ last' = NoItem
                                    \/ item.type # "raw" /\ s = All(item) /\ last' = Noted(item)
<1> DEFINE P == Encode(item, little_endian).prefix
           D == Encode(item, little_endian).body
           whole == Fits(position, capacity, Len(P \o D))
           s == IF whole THEN P \o D ELSE IF Fits(position, capacity, Len(P)) THEN P ELSE <<>>
<1>1. little_endian \in BOOLEAN /\ ops \in 0..MaxOps /\ MaxOps \in Nat
  BY Types, Constants
<1>2. P \in Seq(Byte) /\ D \in Seq(Byte)
  BY <1>1, EncodeType
<1>3. /\ Step /\ WriteBytes(s) /\ given' = <<P, D>> /\ out' = <<>> /\ little_endian' = little_endian
      /\ last' = IF whole /\ item.type # "raw" THEN Noted(item) ELSE NoItem
  BY DEF WriteItem, Noted, All
<1>4. P \o D = All(item)
  BY DEF All
<1> HIDE DEF P, D
<1>5. s \in Seq(Byte) /\ CanGrow(position, capacity, Len(s))
  <2>1. P \o D \in Seq(Byte)
    BY <1>2
  <2>2. CASE whole
    BY <2>1, <2>2 DEF Fits
  <2>3. CASE ~whole /\ Fits(position, capacity, Len(P))
    BY <1>2, <2>3 DEF Fits
  <2>4. CASE ~whole /\ ~Fits(position, capacity, Len(P))
    <3>1. s = <<>>
      BY <2>4
    <3> HIDE DEF s, whole
    <3> QED
      BY <3>1, NothingFits
  <2> QED
    BY <2>2, <2>3, <2>4
<1>6. whole => s = All(item)
  BY <1>4
<1>9. s \in {P \o D, P, <<>>}
  OBVIOUS
<1> HIDE DEF s, whole
<1>10. Gave(s)
  BY <1>2, <1>3, <1>9 DEF Gave
<1>7. Transfer(s)
  <2>1. PICK new \in NewBlocks(Missing(position, capacity, Len(s))) :
           /\ nodes' = Store(nodes \o new, Spans(nodes \o new, position, Len(s)), s)
           /\ capacity' = capacity + Len(new) * BaseSize
           /\ position' = position + Len(s)
           /\ size' = SizeAt(position + Len(s))
    BY <1>3 DEF WriteBytes
  <2>2. Len(s) \in Nat /\ Len(s) <= Len(s)
    BY <1>5
  <2> QED
    BY <1>5, <2>1, <2>2, Transferred
<1>8. ops' \in 0..MaxOps
  BY <1>1, <1>3 DEF Step
<1> QED
  BY <1>3, <1>5, <1>6, <1>7, <1>8, <1>10

\* The write functions are given what they can write.
LEMMA Writers ==
  ASSUME WriteNumber \/ WriteString \/ WriteRaw
  PROVE  \E item : (IsNumber(item) \/ IsString(item) \/ IsRaw(item)) /\ WriteItem(item)
<1>1. CASE WriteNumber
  <2>1. PICK x \in Numbers : WriteItem(x)
    BY <1>1 DEF WriteNumber
  <2>2. IsNumber(x)
    BY ValuesAssumption DEF IsNumber
  <2> QED
    BY <2>1, <2>2
<1>2. CASE WriteString
  <2>1. PICK s \in Strings : \E width \in {0, 2, 4, 8} :
             /\ width # 0 => Len(s) < Modulus(width)
             /\ WriteItem([type |-> "string", width |-> width, v |-> s])
    BY <1>2 DEF WriteString
  <2>2. PICK width \in {0, 2, 4, 8} :
             /\ width # 0 => Len(s) < Modulus(width)
             /\ WriteItem([type |-> "string", width |-> width, v |-> s])
    BY <2>1
  <2>3. IsString([type |-> "string", width |-> width, v |-> s])
    BY <2>2, ValuesAssumption DEF IsString
  <2> QED
    BY <2>2, <2>3
<1>3. CASE WriteRaw
  <2>1. PICK s \in Strings : WriteItem([type |-> "raw", width |-> 0, v |-> s])
    BY <1>3 DEF WriteRaw
  <2>2. IsRaw([type |-> "raw", width |-> 0, v |-> s])
    BY ValuesAssumption DEF IsRaw
  <2> QED
    BY <2>1, <2>2
<1> QED
  BY <1>1, <1>2, <1>3

LEMMA SocketReadIs ==
  ASSUME TypeOK, SocketRead
  PROVE  /\ ops' \in 0..MaxOps /\ little_endian' = little_endian /\ out' = <<>>
         /\ \E s \in Seq(Byte) : /\ Transfer(s) /\ Gave(s)
                                 /\ last' = IF s = <<>> THEN last ELSE NoItem
<1>1. ops \in 0..MaxOps /\ MaxOps \in Nat /\ SizeMax \in Nat
  BY Types, Constants
<1>2. PICK n \in 1..SizeMax : \E s \in Strings \cup {<<>>} :
          /\ CanGrow(position, capacity, n) /\ Len(s) <= n
          /\ \E new \in NewBlocks(Missing(position, capacity, n)) :
                /\ nodes' = Store(nodes \o new, Spans(nodes \o new, position, n), s)
                /\ capacity' = capacity + Len(new) * BaseSize
          /\ given' = <<<<>>, s>>
          /\ position' = position + Len(s) /\ size' = SizeAt(position + Len(s))
          /\ last' = IF s = <<>> THEN last ELSE NoItem
  BY DEF SocketRead, Writable
<1>3. PICK s \in Strings \cup {<<>>} :
          /\ CanGrow(position, capacity, n) /\ Len(s) <= n
          /\ \E new \in NewBlocks(Missing(position, capacity, n)) :
                /\ nodes' = Store(nodes \o new, Spans(nodes \o new, position, n), s)
                /\ capacity' = capacity + Len(new) * BaseSize
          /\ given' = <<<<>>, s>>
          /\ position' = position + Len(s) /\ size' = SizeAt(position + Len(s))
          /\ last' = IF s = <<>> THEN last ELSE NoItem
  BY <1>2
<1>4. PICK new \in NewBlocks(Missing(position, capacity, n)) :
          /\ nodes' = Store(nodes \o new, Spans(nodes \o new, position, n), s)
          /\ capacity' = capacity + Len(new) * BaseSize
  BY <1>3
<1>5. s \in Seq(Byte) /\ n \in Nat
  <2>1. \A x \in Strings : x \in Seq(Byte)
    BY ValuesAssumption
  <2>2. <<>> \in Seq(Byte) /\ n \in Nat
    BY <1>1
  <2> QED
    BY <2>1, <2>2
<1>6. Transfer(s)
  BY <1>3, <1>4, <1>5, Transferred
<1>7. ops' \in 0..MaxOps /\ little_endian' = little_endian /\ out' = <<>>
  BY <1>1 DEF SocketRead, Step
<1>8. Gave(s)
  <2>1. <<>> \in Seq(Byte) /\ <<>> \o s = s
    BY <1>5
  <2>2. given' = <<<<>>, s>>
    BY <1>3
  <2> QED
    BY <1>5, <2>1, <2>2 DEF Gave
<1> QED
  BY <1>3, <1>5, <1>6, <1>7, <1>8

LEMMA TransferTypes ==
  ASSUME TypeOK, NEW s \in Seq(Byte), Transfer(s), ops' \in 0..MaxOps, little_endian' = little_endian
  PROVE  TypeOK' /\ size <= size' /\ position + Len(s) <= size'
<1>1. /\ size \in Nat /\ size <= capacity /\ position \in Nat /\ position <= size /\ little_endian \in BOOLEAN
      /\ capacity \in Nat /\ Len(s) \in Nat /\ BaseSize <= capacity /\ BaseSize \in Nat /\ SizeMax \in Nat
  BY Types, Constants
<1>2. /\ nodes' \in Seq(Block) /\ capacity' = Len(nodes') * BaseSize
      /\ capacity' \in Nat /\ capacity' <= SizeMax /\ capacity <= capacity' /\ position + Len(s) <= capacity'
      /\ position' = position + Len(s)
      /\ size' = IF position + Len(s) > size THEN position + Len(s) ELSE size
  BY DEF Transfer, SizeAt
<1>3. /\ position' \in 0..size' /\ size' \in 0..capacity' /\ size <= size' /\ position + Len(s) <= size'
      /\ capacity' \in BaseSize..SizeMax
  BY <1>1, <1>2
<1> QED
  BY <1>1, <1>2, <1>3 DEF TypeOK

-----------------------------------------------------------------------------
(* The other operations. *)

\* An operation that leaves the chain alone keeps the types if the position
\* ends within the data.
LEMMA StillTypes ==
  ASSUME TypeOK, UNCHANGED <<nodes, capacity>>, little_endian' \in BOOLEAN, Step,
         position' \in 0..size', size' \in 0..capacity
  PROVE  TypeOK'
<1>1. ops \in 0..MaxOps /\ MaxOps \in Nat
  BY Types, Constants
<1>2. ops' \in 0..MaxOps
  BY <1>1 DEF Step
<1> QED
  BY <1>2 DEF TypeOK

\* A read at p hands out n bytes from there, and the position moves by as
\* much or not at all.
ReadStep(p, n) ==
  /\ p \in Nat /\ n \in Nat /\ p + n <= size /\ out' = SubSeq(Flat, p + 1, p + n) /\ given' = <<>>
  /\ position' = position \/ (p = position /\ position' = position + n)
  /\ Step /\ UNCHANGED <<nodes, capacity, size, little_endian, last>>

LEMMA ReadItemIs ==
  ASSUME TypeOK, ReadItem
  PROVE  \E p, n \in Nat : ReadStep(p, n)
<1> DEFINE s == Readable(position, SizeMax)
<1>1. /\ position \in Nat /\ position <= size /\ SizeMax \in Nat /\ little_endian \in BOOLEAN
  BY Types, Constants
<1>2. s \in Seq(Byte)
  BY <1>1, ReadableFlat
<1>3. PICK k \in Kinds : LET r == Decode(k[1], k[2], s, little_endian)
                         IN position' = position + r.used /\ out' = SubSeq(s, 1, r.used)
  BY DEF ReadItem
<1> DEFINE u == Decode(k[1], k[2], s, little_endian).used
<1>4. u \in 0..Len(s)
  BY <1>1, <1>2, DecodeType
<1>5. position' = position + u /\ out' = SubSeq(s, 1, u)
  BY <1>3
<1> HIDE DEF u
<1>6. u \in Nat /\ position + u <= size /\ SubSeq(s, 1, u) = SubSeq(Flat, position + 1, position + u)
  BY <1>1, <1>4, PartOf
<1> HIDE DEF s
<1>7. Step /\ given' = <<>> /\ UNCHANGED <<nodes, capacity, size, little_endian, last>>
  BY DEF ReadItem
<1>8. ReadStep(position, u)
  BY <1>1, <1>5, <1>6, <1>7 DEF ReadStep
<1> QED
  BY <1>1, <1>6, <1>8

LEMMA NothingRead ==
  ASSUME TypeOK
  PROVE  position + 0 <= size /\ <<>> = SubSeq(Flat, position + 1, position + 0)
<1>1. position \in Nat /\ position <= size /\ size \in Nat /\ Flat \in Seq(Byte)
  BY Types, FlatIs
<1>2. position + 0 = position /\ position < position + 1
  BY <1>1
<1>3. SubSeq(Flat, position + 1, position) = <<>>
  BY <1>1
<1> QED
  BY <1>1, <1>2, <1>3

LEMMA ReadRawIs ==
  ASSUME TypeOK, ReadRaw
  PROVE  \E p, n \in Nat : ReadStep(p, n)
<1>1. /\ position \in Nat /\ position <= size /\ SizeMax \in Nat /\ size \in Nat
  BY Types, Constants
<1>2. PICK n \in 0..SizeMax :
         IF n <= size - position THEN out' = Readable(position, n) /\ position' = position + n
         ELSE out' = <<>> /\ UNCHANGED position
  BY DEF ReadRaw
<1>3. Step /\ given' = <<>> /\ UNCHANGED <<nodes, capacity, size, little_endian, last>>
  BY DEF ReadRaw
<1>4. CASE n <= size - position
  <2>1. n \in Nat
    BY <1>1
  <2>2. position + n <= size /\ Readable(position, n) = SubSeq(Flat, position + 1, position + n)
    BY <1>1, <1>4, <2>1, ReadableFlat
  <2>3. ReadStep(position, n)
    BY <1>1, <1>2, <1>3, <1>4, <2>1, <2>2 DEF ReadStep
  <2> QED
    BY <1>1, <2>1, <2>3
<1>5. CASE ~(n <= size - position)
  <2>1. out' = <<>> /\ position' = position
    BY <1>2, <1>5
  <2>2. ReadStep(position, 0)
    BY <1>1, <1>3, <2>1, NothingRead DEF ReadStep
  <2> QED
    BY <1>1, <2>2
<1> QED
  BY <1>4, <1>5

LEMMA ReadAtIs ==
  ASSUME TypeOK, ReadAt
  PROVE  \E p, n \in Nat : ReadStep(p, n)
<1>1. size \in Nat
  BY Types
<1>2. PICK p \in 0..size : \E n \in 0..(size - p) : out' = Readable(p, n)
  BY DEF ReadAt
<1>3. PICK n \in 0..(size - p) : out' = Readable(p, n)
  BY <1>2
<1>4. p \in Nat /\ p <= size /\ n \in Nat /\ n <= size - p
  BY <1>1
<1>5. p + n <= size /\ Readable(p, n) = SubSeq(Flat, p + 1, p + n)
  BY <1>4, ReadableFlat
<1>6. Step /\ given' = <<>> /\ UNCHANGED <<nodes, capacity, size, little_endian, last>> /\ position' = position
  BY DEF ReadAt
<1>7. ReadStep(p, n)
  BY <1>3, <1>4, <1>5, <1>6 DEF ReadStep
<1> QED
  BY <1>4, <1>7

LEMMA AsStringIs ==
  ASSUME TypeOK, AsString
  PROVE  \E p, n \in Nat : ReadStep(p, n)
<1> DEFINE n == size - position
<1>1. size \in Nat /\ position \in Nat /\ position <= size /\ n \in Nat /\ n <= size - position
  BY Types
<1>2. position + n <= size /\ Readable(position, n) = SubSeq(Flat, position + 1, position + n)
  <2> HIDE DEF n
  <2> QED
    BY <1>1, ReadableFlat
<1>3. /\ Step /\ given' = <<>> /\ UNCHANGED <<nodes, capacity, size, little_endian, last>>
      /\ position' = position /\ out' = Readable(position, n)
  BY DEF AsString
<1> HIDE DEF n
<1>4. ReadStep(position, n)
  BY <1>1, <1>2, <1>3 DEF ReadStep
<1> QED
  BY <1>1, <1>4

LEMMA WriteToFileIs ==
  ASSUME TypeOK, WriteToFile
  PROVE  \E p, n \in Nat : ReadStep(p, n)
<1>1. position \in Nat /\ position <= size /\ SizeMax \in Nat
  BY Types, Constants
<1>2. PICK k \in 0..Len(Readable(position, SizeMax)) : out' = SubSeq(Readable(position, SizeMax), 1, k)
  BY DEF WriteToFile
<1>3. /\ k \in Nat /\ position + k <= size
      /\ SubSeq(Readable(position, SizeMax), 1, k) = SubSeq(Flat, position + 1, position + k)
  BY <1>1, PartOf
<1>4. Step /\ given' = <<>> /\ UNCHANGED <<nodes, capacity, size, little_endian, last>> /\ position' = position
  BY DEF WriteToFile
<1>5. ReadStep(position, k)
  BY <1>1, <1>2, <1>3, <1>4 DEF ReadStep
<1> QED
  BY <1>1, <1>3, <1>5

LEMMA SocketWriteIs ==
  ASSUME TypeOK, SocketWrite
  PROVE  \E p, n \in Nat : ReadStep(p, n)
<1>1. position \in Nat /\ position <= size /\ SizeMax \in Nat /\ size \in Nat
  BY Types, Constants
<1>2. PICK n \in 1..SizeMax : \E k \in 0..Len(Readable(position, n)) :
          /\ out' = SubSeq(Readable(position, n), 1, k)
          /\ position' = position + k /\ size' = SizeAt(position + k)
  BY DEF SocketWrite
<1>3. PICK k \in 0..Len(Readable(position, n)) :
          /\ out' = SubSeq(Readable(position, n), 1, k)
          /\ position' = position + k /\ size' = SizeAt(position + k)
  BY <1>2
<1>4. n \in Nat
  BY <1>1
<1>5. /\ k \in Nat /\ position + k <= size
      /\ SubSeq(Readable(position, n), 1, k) = SubSeq(Flat, position + 1, position + k)
  BY <1>1, <1>4, PartOf
<1>6. size' = size
  BY <1>1, <1>3, <1>5 DEF SizeAt
<1>7. Step /\ given' = <<>> /\ UNCHANGED <<nodes, capacity, little_endian, last>>
  BY DEF SocketWrite
<1>8. ReadStep(position, k)
  BY <1>1, <1>3, <1>5, <1>6, <1>7 DEF ReadStep
<1> QED
  BY <1>1, <1>5, <1>8

LEMMA ReadTypes ==
  ASSUME TypeOK, NEW p \in Nat, NEW n \in Nat, ReadStep(p, n)
  PROVE  TypeOK'
<1>1. /\ position \in Nat /\ position <= size /\ size \in Nat /\ size <= capacity /\ capacity \in Nat
      /\ little_endian \in BOOLEAN
  BY Types
<1>2. /\ size' = size /\ UNCHANGED <<nodes, capacity>> /\ little_endian' = little_endian /\ Step
      /\ p + n <= size /\ (position' = position \/ (p = position /\ position' = position + n))
  BY DEF ReadStep
<1>3. position' \in 0..size' /\ size' \in 0..capacity
  BY <1>1, <1>2
<1> QED
  BY <1>1, <1>2, <1>3, StillTypes

LEMMA SetPositionIs ==
  ASSUME TypeOK, SetPosition
  PROVE  \E p \in Nat : /\ p <= capacity /\ position' = p /\ size' = IF p > size THEN p ELSE size
                        /\ Step /\ given' = <<>> /\ out' = <<>>
                        /\ UNCHANGED <<nodes, capacity, little_endian, last>>
<1>1. capacity \in Nat
  BY Types
<1>2. PICK p \in 0..capacity : position' = p /\ size' = SizeAt(p)
  BY DEF SetPosition
<1>3. p \in Nat /\ p <= capacity /\ size' = IF p > size THEN p ELSE size
  BY <1>1, <1>2 DEF SizeAt
<1>4. Step /\ given' = <<>> /\ out' = <<>> /\ UNCHANGED <<nodes, capacity, little_endian, last>>
  BY DEF SetPosition
<1> QED
  BY <1>2, <1>3, <1>4

-----------------------------------------------------------------------------
(* The theorems. *)

\* The steps of Next, by what they do to the buffer.
LEMMA Steps ==
  ASSUME TypeOK, Next
  PROVE  \/ \E item : (IsNumber(item) \/ IsString(item) \/ IsRaw(item)) /\ WriteItem(item)
         \/ \E p, n \in Nat : ReadStep(p, n)
         \/ SetPosition \/ Clear \/ SetIsLittleEndian \/ SocketRead
<1>1. CASE WriteNumber \/ WriteString \/ WriteRaw
  BY <1>1, Writers
<1>2. CASE ReadItem \/ ReadRaw \/ ReadAt \/ AsString \/ WriteToFile \/ SocketWrite
  BY <1>2, ReadItemIs, ReadRawIs, ReadAtIs, AsStringIs, WriteToFileIs, SocketWriteIs
<1> QED
  BY <1>1, <1>2 DEF Next

LEMMA InitTypes ==
  ASSUME Init
  PROVE  TypeOK
<1>1. nodes \in Seq(Block) /\ Len(nodes) = 1
  BY NewBlocksType DEF Init
<1>2. BaseSize \in Nat /\ BaseSize > 0 /\ BaseSize <= SizeMax /\ MaxOps \in Nat
  BY Constants
<1>3. Len(nodes) * BaseSize = BaseSize
  BY <1>1, <1>2
<1>4. capacity = Len(nodes) * BaseSize /\ capacity \in BaseSize..SizeMax /\ size \in 0..capacity
  BY <1>2, <1>3, Constants DEF Init
<1>5. position \in 0..size /\ ops \in 0..MaxOps
  BY <1>2 DEF Init
<1>6. little_endian \in BOOLEAN
  BY Zenon DEF Init
<1> QED
  BY <1>1, <1>4, <1>5, <1>6 DEF TypeOK

LEMMA ClearTypes ==
  ASSUME TypeOK, Clear
  PROVE  TypeOK'
<1>1. /\ nodes \in Seq(Block) /\ capacity = Len(nodes) * BaseSize /\ size <= capacity
      /\ ops \in 0..MaxOps /\ little_endian \in BOOLEAN /\ Len(nodes) \in Nat
      /\ BaseSize \in Nat /\ BaseSize > 0 /\ BaseSize <= SizeMax /\ MaxOps \in Nat
      /\ BaseSize <= capacity /\ SizeMax \in Nat
  BY Types, Constants
<1>1a. Len(nodes) >= 1
  <2>1. Len(nodes) = 0 => Len(nodes) * BaseSize = 0
    BY <1>1
  <2> QED
    BY <1>1, <2>1
<1>2. SubSeq(nodes, 1, 1) \in Seq(Block)
  BY <1>1, <1>1a
<1>3. Len(SubSeq(nodes, 1, 1)) = 1
  BY <1>1
<1>4. 1 * BaseSize = BaseSize
  BY <1>1
<1>5. /\ nodes' = SubSeq(nodes, 1, 1) /\ capacity' = BaseSize /\ position' = 0 /\ size' = 0
      /\ little_endian' = little_endian /\ ops' \in 0..MaxOps
  BY <1>1 DEF Clear, Step
<1> QED
  BY <1>1, <1>2, <1>3, <1>4, <1>5 DEF TypeOK

LEMMA NextTypes ==
  ASSUME TypeOK, [Next]_vars
  PROVE  TypeOK'
<1>1. CASE UNCHANGED vars
  BY <1>1 DEF TypeOK, vars
<1>2. CASE Next
  <2>1. ASSUME NEW item, IsNumber(item) \/ IsString(item) \/ IsRaw(item), WriteItem(item) PROVE TypeOK'
    <3>1. /\ ops' \in 0..MaxOps /\ little_endian' = little_endian
          /\ \E s \in Seq(Byte) : Transfer(s)
      BY <2>1, WriteItemIs
    <3>2. PICK s \in Seq(Byte) : Transfer(s)
      BY <3>1
    <3> QED
      BY <3>1, <3>2, TransferTypes
  <2>2. ASSUME NEW p \in Nat, NEW n \in Nat, ReadStep(p, n) PROVE TypeOK'
    BY <2>2, ReadTypes
  <2>3. CASE SetPosition
    <3>1. PICK p \in Nat : /\ p <= capacity /\ position' = p /\ size' = IF p > size THEN p ELSE size
                           /\ Step /\ UNCHANGED <<nodes, capacity, little_endian>>
      BY <2>3, SetPositionIs
    <3>2. size \in Nat /\ size <= capacity /\ capacity \in Nat /\ little_endian \in BOOLEAN
      BY Types
    <3>3. position' \in 0..size' /\ size' \in 0..capacity /\ little_endian' \in BOOLEAN
      BY <3>1, <3>2
    <3> QED
      BY <3>1, <3>3, StillTypes
  <2>4. CASE Clear
    BY <2>4, ClearTypes
  <2>5. CASE SetIsLittleEndian
    <3>1. /\ Step /\ UNCHANGED <<nodes, capacity>> /\ position' = position /\ size' = size
          /\ little_endian' \in BOOLEAN
      BY <2>5 DEF SetIsLittleEndian
    <3>2. position \in 0..size /\ size \in 0..capacity
      BY DEF TypeOK
    <3> QED
      BY <3>1, <3>2, StillTypes
  <2>6. CASE SocketRead
    <3>1. /\ ops' \in 0..MaxOps /\ little_endian' = little_endian
          /\ \E s \in Seq(Byte) : Transfer(s)
      BY <2>6, SocketReadIs
    <3>2. PICK s \in Seq(Byte) : Transfer(s)
      BY <3>1
    <3> QED
      BY <3>1, <3>2, TransferTypes
  <2> QED
    BY <1>2, <2>1, <2>2, <2>3, <2>4, <2>5, <2>6, Steps
<1> QED
  BY <1>1, <1>2

\* The chain, its capacity, the position and the size of a ByteArray stay
\* within each other and within a size_t, whatever is written, read or sought.
THEOREM TypeCorrect == Spec => []TypeOK
<1>1. Init => TypeOK
  BY InitTypes
<1>2. TypeOK /\ [Next]_vars => TypeOK'
  BY NextTypes
<1> QED
  BY <1>1, <1>2, PTL DEF Spec

\* A write of s is a Put.
LEMMA PutFlat ==
  ASSUME TypeOK, TypeOK', NEW s \in Seq(Byte), Transfer(s), Gave(s), out' = <<>>
  PROVE  Buffer!Put
<1>1. /\ size \in Nat /\ size <= capacity /\ position \in Nat /\ position <= size /\ capacity \in Nat
      /\ Len(s) \in Nat /\ SizeMax \in Nat
  BY Types, Constants
<1>2. Flat = [i \in 1..size |-> At(nodes, i - 1)] /\ Len(Flat) = size
  BY FlatIs
<1>3. Flat' = [i \in 1..size' |-> At(nodes', i - 1)]
  BY DEF Flat, At, NodeAt, OffsetAt
<1>4. /\ capacity' \in Nat /\ capacity' <= SizeMax /\ position + Len(s) <= capacity'
      /\ position' = position + Len(s)
      /\ size' = IF position + Len(s) > size THEN position + Len(s) ELSE size
  BY DEF Transfer, SizeAt
<1>5. ASSUME NEW i \in 1..size'
      PROVE  At(nodes', i - 1) = IF i \in (position + 1)..(position + Len(s)) THEN s[i - position] ELSE Flat[i]
  <2>1. i - 1 \in Nat
    BY <1>1, <1>4
  <2>2. CASE i \in (position + 1)..(position + Len(s))
    <3>1. i - 1 \in position..(position + Len(s) - 1) /\ i - 1 < capacity' /\ (i - 1) - position + 1 = i - position
      BY <1>1, <1>4, <2>2
    <3>2. At(nodes', i - 1) = s[(i - 1) - position + 1]
      BY <2>1, <3>1 DEF Transfer
    <3> QED
      BY <2>2, <3>1, <3>2
  <2>3. CASE i \notin (position + 1)..(position + Len(s))
    <3>1. i - 1 \notin position..(position + Len(s) - 1) /\ i - 1 < capacity /\ i \in 1..size
      BY <1>1, <1>4, <2>3
    <3>2. At(nodes', i - 1) = At(nodes, i - 1)
      BY <2>1, <3>1 DEF Transfer
    <3> QED
      BY <1>2, <2>3, <3>1, <3>2
  <2> QED
    BY <2>2, <2>3
<1>6. Flat' = Buffer!Overwrite(s)
  <2>1. Buffer!Overwrite(s) =
          [i \in 1..size' |-> IF i \in (position + 1)..(position + Len(s)) THEN s[i - position] ELSE Flat[i]]
    BY <1>2, <1>4 DEF Buffer!Overwrite
  <2> QED
    BY <1>3, <1>5, <2>1
<1>7. Len(s) <= SizeMax - position
  BY <1>1, <1>4
<1> QED
  BY <1>4, <1>6, <1>7 DEF Buffer!Put, Gave

LEMMA FlatStill ==
  ASSUME nodes' = nodes, size' = size
  PROVE  Flat' = Flat
  BY DEF Flat

LEMMA GetFlat ==
  ASSUME TypeOK, NEW p \in Nat, NEW n \in Nat, ReadStep(p, n)
  PROVE  Buffer!Get
<1>1. Len(Flat) = size /\ size \in Nat
  BY FlatIs, Types
<1>2. p + n <= size /\ out' = SubSeq(Flat, p + 1, p + n) /\ given' = <<>>
      /\ (position' = position \/ (p = position /\ position' = position + n))
  BY DEF ReadStep
<1>3. Flat' = Flat
  BY FlatStill DEF ReadStep
<1>4. p \in 0..Len(Flat) /\ n \in 0..Len(Flat) /\ p + n <= Len(Flat)
  BY <1>1, <1>2
<1> QED
  BY <1>2, <1>3, <1>4 DEF Buffer!Get

LEMMA SeekFlat ==
  ASSUME TypeOK, TypeOK', SetPosition
  PROVE  Buffer!Seek
<1>1. PICK p \in Nat : /\ p <= capacity /\ position' = p /\ size' = IF p > size THEN p ELSE size
                       /\ given' = <<>> /\ out' = <<>> /\ nodes' = nodes
  BY SetPositionIs
<1>2. /\ size \in Nat /\ capacity \in Nat /\ capacity <= SizeMax /\ SizeMax \in Nat /\ Len(Flat) = size
      /\ Flat = [i \in 1..size |-> At(nodes, i - 1)] /\ DOMAIN Flat = 1..size
  BY Types, FlatIs, Constants
<1>3. p \in 0..SizeMax
  BY <1>1, <1>2
<1>4. CASE p <= size
  <2>1. size' = size
    BY <1>1, <1>2, <1>4
  <2>2. Flat' = Flat
    BY <1>1, <2>1, FlatStill
  <2> QED
    BY <1>1, <1>2, <1>3, <1>4, <2>2 DEF Buffer!Seek
<1>5. CASE ~(p <= size)
  <2>1. size' = p
    BY <1>1, <1>2, <1>5
  <2>2. Flat' = [i \in 1..p |-> At(nodes, i - 1)]
    BY <1>1, <2>1 DEF Flat, At, NodeAt, OffsetAt
  <2>3. \A i \in 1..p : At(nodes, i - 1) \in Byte
    <3> SUFFICES ASSUME NEW i \in 1..p PROVE At(nodes, i - 1) \in Byte
      OBVIOUS
    <3>1. nodes \in Seq(Block) /\ capacity = Len(nodes) * BaseSize /\ i - 1 \in Nat /\ i - 1 < capacity
      BY <1>1, <1>2, Types
    <3> QED
      BY <3>1, BlocksType
  <2>4. Flat' \in [1..p -> Byte]
    BY <2>2, <2>3
  <2>5. \A i \in DOMAIN Flat : Flat'[i] = Flat[i]
    <3> SUFFICES ASSUME NEW i \in 1..size PROVE Flat'[i] = Flat[i]
      BY <1>2
    <3>1. i \in 1..p
      BY <1>2, <1>5
    <3> QED
      BY <1>2, <2>2, <3>1
  <2> QED
    BY <1>1, <1>2, <1>3, <1>5, <2>4, <2>5 DEF Buffer!Seek
<1> QED
  BY <1>4, <1>5

\* ByteArray implements the flat buffer: no operation loses, moves or invents a
\* byte at the boundary of two blocks, the throwing ones included.
THEOREM FlatBuffer == Spec => Implements
<1>1. Init => Buffer!Init
  <2> SUFFICES ASSUME Init PROVE Buffer!Init
    OBVIOUS
  <2>1. size = 0
    BY DEF Init
  <2>2. Flat = <<>>
    BY <2>1, InitTypes, FlatIs
  <2> QED
    BY <2>2 DEF Init, Buffer!Init
<1>2. TypeOK /\ TypeOK' /\ [Next]_vars => [Buffer!Next]_(Buffer!vars)
  <2> SUFFICES ASSUME TypeOK, TypeOK', [Next]_vars PROVE [Buffer!Next]_(Buffer!vars)
    OBVIOUS
  <2>1. CASE UNCHANGED vars
    <3>1. Flat' = Flat
      BY <2>1, FlatStill DEF vars
    <3> QED
      BY <2>1, <3>1 DEF vars, Buffer!vars
  <2>2. CASE Next
    <3>1. ASSUME NEW item, IsNumber(item) \/ IsString(item) \/ IsRaw(item), WriteItem(item) PROVE Buffer!Put
      <4>1. out' = <<>> /\ \E s \in Seq(Byte) : Transfer(s) /\ Gave(s)
        BY <3>1, WriteItemIs
      <4>2. PICK s \in Seq(Byte) : Transfer(s) /\ Gave(s)
        BY <4>1
      <4> QED
        BY <4>1, <4>2, PutFlat
    <3>2. ASSUME NEW p \in Nat, NEW n \in Nat, ReadStep(p, n) PROVE Buffer!Get
      BY <3>2, GetFlat
    <3>3. CASE SetPosition
      BY <3>3, SeekFlat DEF Buffer!Next
    <3>4. CASE Clear
      <4>1. size' = 0 /\ position' = 0 /\ given' = <<>> /\ out' = <<>>
        BY <3>4 DEF Clear
      <4>2. Flat' = <<>>
        BY <4>1 DEF Flat
      <4> QED
        BY <4>1, <4>2 DEF Buffer!Clear, Buffer!Next
    <3>5. CASE SetIsLittleEndian
      <4>1. Flat' = Flat
        BY <3>5, FlatStill DEF SetIsLittleEndian
      <4> QED
        BY <3>5, <4>1 DEF SetIsLittleEndian, Buffer!Nothing, Buffer!Next
    <3>6. CASE SocketRead
      <4>1. out' = <<>> /\ \E s \in Seq(Byte) : Transfer(s) /\ Gave(s)
        BY <3>6, SocketReadIs
      <4>2. PICK s \in Seq(Byte) : Transfer(s) /\ Gave(s)
        BY <4>1
      <4>3. Buffer!Put
        BY <4>1, <4>2, PutFlat
      <4> QED
        BY <4>3 DEF Buffer!Next
    <3>7. CASE \E item : (IsNumber(item) \/ IsString(item) \/ IsRaw(item)) /\ WriteItem(item)
      BY <3>1, <3>7 DEF Buffer!Next
    <3>8. CASE \E p, n \in Nat : ReadStep(p, n)
      BY <3>2, <3>8 DEF Buffer!Next
    <3> QED
      BY <2>2, <3>3, <3>4, <3>5, <3>6, <3>7, <3>8, Steps
  <2> QED
    BY <2>1, <2>2
<1> QED
  BY <1>1, <1>2, TypeCorrect, PTL DEF Spec, Implements, Buffer!Spec

-----------------------------------------------------------------------------
(* What was written is read back. *)

\* The bytes of the last item lie where it was written.
LastKept ==
  last.type # "none" =>
     /\ IsNumber(last) \/ IsString(last)
     /\ last.at \in Nat /\ last.end = last.at + Len(All(last)) /\ last.end <= size
     /\ \A i \in 1..Len(All(last)) : At(nodes, last.at + (i - 1)) = All(last)[i]

LEMMA NotedItem ==
  ASSUME NEW item, IsNumber(item) \/ IsString(item) \/ IsRaw(item), item.type # "raw"
  PROVE  /\ (IsNumber(Noted(item)) \/ IsString(Noted(item))) /\ All(Noted(item)) = All(item)
         /\ Noted(item).at = position /\ Noted(item).end = position + Len(All(item))
<1> DEFINE x == Noted(item)
<1>1. /\ x.type = item.type /\ x.width = item.width /\ x.v = item.v
      /\ x.at = position /\ x.end = position + Len(All(item))
  BY DEF Noted
<1> HIDE DEF x
<1>2. IsNumber(item) \/ IsString(item)
  BY DEF IsRaw
<1>3. IsNumber(x) \/ IsString(x)
  BY <1>1, <1>2 DEF IsNumber, IsString
<1>4. Encode(x, little_endian) = Encode(item, little_endian)
  BY <1>1 DEF Encode
<1> QED
  BY <1>1, <1>3, <1>4 DEF All, x

LEMMA AllType ==
  ASSUME NEW item, IsNumber(item) \/ IsString(item) \/ IsRaw(item), little_endian \in BOOLEAN
  PROVE  All(item) \in Seq(Byte) /\ Len(All(item)) \in Nat
<1>1. Encode(item, little_endian).prefix \in Seq(Byte) /\ Encode(item, little_endian).body \in Seq(Byte)
  BY EncodeType
<1>2. \A a, b \in Seq(Byte) : a \o b \in Seq(Byte) /\ Len(a \o b) \in Nat
  OBVIOUS
<1> QED
  BY <1>1, <1>2 DEF All

\* The item stays where its bytes, the byte order and the end of the data do.
LEMMA LastStays ==
  ASSUME TypeOK, LastKept, last' = last, little_endian' = little_endian, size <= size', size' \in Nat,
         \A a \in Nat : a < capacity => At(nodes', a) = At(nodes, a)
  PROVE  LastKept'
<1> SUFFICES ASSUME last.type # "none"
             PROVE  /\ IsNumber(last) \/ IsString(last)
                    /\ last.at \in Nat /\ last.end = last.at + Len(All(last)) /\ last.end <= size'
                    /\ \A i \in 1..Len(All(last)) : At(nodes', last.at + (i - 1)) = All(last)[i]
  <2>1. All(last)' = All(last)
    BY DEF All
  <2> QED
    BY <2>1 DEF LastKept, IsNumber, IsString
<1>1. /\ IsNumber(last) \/ IsString(last)
      /\ last.at \in Nat /\ last.end = last.at + Len(All(last)) /\ last.end <= size
      /\ \A i \in 1..Len(All(last)) : At(nodes, last.at + (i - 1)) = All(last)[i]
  BY DEF LastKept
<1>2. size \in Nat /\ size <= capacity /\ capacity \in Nat /\ little_endian \in BOOLEAN
  BY Types
<1>3. Len(All(last)) \in Nat
  BY <1>1, <1>2, AllType
<1>4. ASSUME NEW i \in 1..Len(All(last)) PROVE At(nodes', last.at + (i - 1)) = All(last)[i]
  <2>1. last.at + (i - 1) \in Nat /\ last.at + (i - 1) < capacity
    BY <1>1, <1>2, <1>3
  <2> QED
    BY <1>1, <2>1
<1>5. last.end <= size'
  BY <1>1, <1>2, <1>3
<1> QED
  BY <1>1, <1>4, <1>5

LEMMA NoItemKept ==
  ASSUME last' = NoItem
  PROVE  LastKept'
  BY DEF LastKept, NoItem

LEMMA NextLast ==
  ASSUME TypeOK, TypeOK', LastKept, [Next]_vars
  PROVE  LastKept'
<1>0. size \in Nat /\ size' \in Nat /\ little_endian \in BOOLEAN /\ position \in Nat /\ capacity \in Nat
      /\ size <= capacity /\ position <= size
  <2>1. size' \in 0..capacity' /\ capacity' \in BaseSize..SizeMax /\ BaseSize \in Nat /\ SizeMax \in Nat
    BY Constants DEF TypeOK
  <2> QED
    BY <2>1, Types
<1>1. CASE UNCHANGED vars
  <2>1. last' = last /\ little_endian' = little_endian /\ size' = size /\ nodes' = nodes
    BY <1>1 DEF vars
  <2> QED
    BY <1>0, <2>1, LastStays
<1>2. CASE Next
  <2>1. ASSUME NEW item, IsNumber(item) \/ IsString(item) \/ IsRaw(item), WriteItem(item) PROVE LastKept'
    <3>1. /\ ops' \in 0..MaxOps /\ little_endian' = little_endian
          /\ \E s \in Seq(Byte) : /\ Transfer(s)
                                  /\ \/ last' = NoItem
                                     \/ item.type # "raw" /\ s = All(item) /\ last' = Noted(item)
      BY <2>1, WriteItemIs
    <3>2. PICK s \in Seq(Byte) : /\ Transfer(s)
                                 /\ \/ last' = NoItem
                                    \/ item.type # "raw" /\ s = All(item) /\ last' = Noted(item)
      BY <3>1
    <3>3. CASE last' = NoItem
      BY <3>3, NoItemKept
    <3>4. CASE item.type # "raw" /\ s = All(item) /\ last' = Noted(item)
      <4>1. /\ (IsNumber(last') \/ IsString(last')) /\ last'.at = position
            /\ last'.end = position + Len(s)
        BY <2>1, <3>4, NotedItem
      <4>2. All(last)' = s
        <5>1. All(last)' = All(Noted(item))
          BY <3>1, <3>4 DEF All
        <5> QED
          BY <2>1, <3>4, <5>1, NotedItem
      <4>3. position + Len(s) <= size' /\ Len(s) \in Nat
        BY <3>1, <3>2, TransferTypes
      <4>4. position + Len(s) <= capacity' /\ capacity' \in Nat
        BY <3>2 DEF Transfer
      <4>5. ASSUME NEW i \in 1..Len(s) PROVE At(nodes', position + (i - 1)) = s[i]
        <5> DEFINE a == position + (i - 1)
        <5>1. a \in Nat /\ a < capacity' /\ a \in position..(position + Len(s) - 1) /\ a - position + 1 = i
          BY <1>0, <4>3, <4>4
        <5> HIDE DEF a
        <5>2. At(nodes', a) = s[a - position + 1]
          BY <3>2, <5>1 DEF Transfer
        <5> QED
          BY <5>1, <5>2 DEF a
      <4> QED
        BY <1>0, <4>1, <4>2, <4>3, <4>5 DEF LastKept, IsNumber, IsString
    <3> QED
      BY <3>2, <3>3, <3>4
  <2>2. ASSUME NEW p \in Nat, NEW n \in Nat, ReadStep(p, n) PROVE LastKept'
    <3>1. last' = last /\ little_endian' = little_endian /\ size' = size /\ nodes' = nodes
      BY <2>2 DEF ReadStep
    <3> QED
      BY <1>0, <3>1, LastStays
  <2>3. CASE SetPosition
    <3>1. PICK p \in Nat : /\ size' = IF p > size THEN p ELSE size
                           /\ UNCHANGED <<nodes, little_endian, last>>
      BY <2>3, SetPositionIs
    <3>2. size <= size'
      BY <1>0, <3>1
    <3> QED
      BY <1>0, <3>1, <3>2, LastStays
  <2>4. CASE Clear
    BY <2>4, NoItemKept DEF Clear
  <2>5. CASE SetIsLittleEndian
    BY <2>5, NoItemKept DEF SetIsLittleEndian
  <2>6. CASE SocketRead
    <3>1. /\ ops' \in 0..MaxOps /\ little_endian' = little_endian
          /\ \E s \in Seq(Byte) : Transfer(s) /\ last' = IF s = <<>> THEN last ELSE NoItem
      BY <2>6, SocketReadIs
    <3>2. PICK s \in Seq(Byte) : Transfer(s) /\ last' = IF s = <<>> THEN last ELSE NoItem
      BY <3>1
    <3>3. CASE s = <<>>
      <4>1. last' = last /\ Len(s) = 0
        BY <3>2, <3>3
      <4>2. size <= size'
        BY <3>1, <3>2, TransferTypes
      <4>3. ASSUME NEW a \in Nat, a < capacity PROVE At(nodes', a) = At(nodes, a)
        <5>1. a \notin position..(position + Len(s) - 1)
          BY <1>0, <4>1
        <5> QED
          BY <3>2, <4>3, <5>1 DEF Transfer
      <4> QED
        BY <1>0, <3>1, <4>1, <4>2, <4>3, LastStays
    <3>4. CASE s # <<>>
      BY <3>2, <3>4, NoItemKept
    <3> QED
      BY <3>3, <3>4
  <2> QED
    BY <1>2, <2>1, <2>2, <2>3, <2>4, <2>5, <2>6, Steps
<1> QED
  BY <1>1, <1>2

LEMMA KeptIsReadBack ==
  ASSUME TypeOK, LastKept
  PROVE  ReadsBack
<1> SUFFICES ASSUME last.type # "none"
             PROVE  Decode(last.type, last.width, Readable(last.at, SizeMax), little_endian)
                       = Good(last.v, last.end - last.at)
  BY DEF ReadsBack
<1> DEFINE s == Readable(last.at, SizeMax)
           t == All(last)
<1>1. /\ IsNumber(last) \/ IsString(last)
      /\ last.at \in Nat /\ last.end = last.at + Len(t) /\ last.end <= size
      /\ \A i \in 1..Len(t) : At(nodes, last.at + (i - 1)) = t[i]
  BY DEF LastKept
<1>2. size \in Nat /\ size <= SizeMax /\ SizeMax \in Nat /\ little_endian \in BOOLEAN
  BY Types, Constants
<1>3. t \in Seq(Byte) /\ Len(t) \in Nat
  BY <1>1, <1>2, AllType
<1> DEFINE m == IF SizeMax <= size - last.at THEN SizeMax ELSE size - last.at
<1>4. last.at <= size
  BY <1>1, <1>2, <1>3
<1>5. m \in Nat /\ s \in Seq(Byte) /\ Len(s) = m /\ \A i \in 1..m : s[i] = At(nodes, last.at + (i - 1))
  BY <1>1, <1>2, <1>4, ReadableFlat
<1>6. Len(t) <= m
  BY <1>1, <1>2, <1>3
<1> HIDE DEF m, s
<1>7. \A i \in 1..Len(t) : s[i] = t[i]
  <2> SUFFICES ASSUME NEW i \in 1..Len(t) PROVE s[i] = t[i]
    OBVIOUS
  <2>1. i \in 1..m
    BY <1>3, <1>5, <1>6
  <2> QED
    BY <1>1, <1>5, <2>1
<1>8. Begins(s, t)
  BY <1>5, <1>6, <1>7 DEF Begins
<1>9. Decode(last.type, last.width, s, little_endian) = Good(last.v, Len(t))
  BY <1>1, <1>2, <1>5, <1>8, DecodeBack DEF All
<1>10. last.end - last.at = Len(t)
  BY <1>1, <1>3
<1> QED
  BY <1>9, <1>10 DEF s

\* The number or string written last is read back from where it was written:
\* the same value, and exactly its bytes, for every width and at its limits, in
\* both byte orders, across the blocks and whatever is read, sought or received
\* for nothing in between.
THEOREM WrittenIsReadBack == Spec => []ReadsBack
<1>1. Init => LastKept
  BY DEF Init, LastKept, NoItem
<1>2. TypeOK /\ TypeOK' /\ LastKept /\ [Next]_vars => LastKept'
  BY NextLast
<1>3. TypeOK /\ LastKept => ReadsBack
  BY KeptIsReadBack
<1> QED
  BY <1>1, <1>2, <1>3, TypeCorrect, PTL DEF Spec
=============================================================================
