-------------------------- MODULE BufferFifoProofs --------------------------
(***************************************************************************)
(* Theorems about BufferFifo, for any size of a block and any positive     *)
(* filling ratio: the deque of blocks leaks no block, finds its oldest     *)
(* element where the code looks for it, and implements Queue.              *)
(***************************************************************************)
EXTENDS BufferFifo, Sequences, FiniteSetTheorems, WellFoundedInduction, TLAPS

-----------------------------------------------------------------------------
(***************************************************************************)
(* Positions, and the smallest of a set of numbers.                        *)
(***************************************************************************)

\* A position is a block and an index in it.
LEMMA Quotient ==
  ASSUME NEW p \in Nat
  PROVE  /\ p \div BlockSize \in Nat /\ p % BlockSize \in Index
         /\ p = BlockSize * (p \div BlockSize) + (p % BlockSize)
BY BlockAssumption DEF Index

LEMMA QuotientUnique ==
  ASSUME NEW q \in Nat, NEW r \in Index
  PROVE  (BlockSize * q + r) \div BlockSize = q /\ (BlockSize * q + r) % BlockSize = r
BY BlockAssumption DEF Index

\* The first n blocks are the first n * BlockSize positions.
LEMMA InBlocks ==
  ASSUME NEW p \in Nat, NEW n \in Nat
  PROVE  p < n * BlockSize <=> p \div BlockSize < n
BY BlockAssumption, Quotient DEF Index

LEMMA BlockOf ==
  ASSUME NEW n \in Nat, NEW p \in Nat, p < n * BlockSize
  PROVE  p \div BlockSize \in 0..n - 1
BY Quotient, InBlocks

\* A position one block further to the right.
LEMMA NextBlock ==
  ASSUME NEW p \in Nat
  PROVE  /\ (p + BlockSize) \div BlockSize = (p \div BlockSize) + 1
         /\ (p + BlockSize) % BlockSize = p % BlockSize
<1>1. p + BlockSize = BlockSize * ((p \div BlockSize) + 1) + (p % BlockSize)
  BY Quotient, BlockAssumption DEF Index
<1>2. (p \div BlockSize) + 1 \in Nat /\ p % BlockSize \in Index
  BY Quotient
<1> QED BY <1>1, <1>2, QuotientUnique

\* A position counted from the right end of n blocks.
LEMMA Mirror ==
  ASSUME NEW n \in Nat, NEW d \in Nat, d < n * BlockSize
  PROVE  /\ n * BlockSize - 1 - d \in Nat
         /\ (n * BlockSize - 1 - d) \div BlockSize = n - 1 - (d \div BlockSize)
         /\ (n * BlockSize - 1 - d) % BlockSize = BlockSize - 1 - (d % BlockSize)
<1> DEFINE q == d \div BlockSize
           r == d % BlockSize
<1>1. q \in Nat /\ r \in Index /\ d = BlockSize * q + r /\ q < n
  BY Quotient, InBlocks
<1> HIDE DEF q, r
<1>2. n - 1 - q \in Nat /\ BlockSize - 1 - r \in Index
  BY <1>1, BlockAssumption DEF Index
<1>3. n * BlockSize - 1 - d = BlockSize * (n - 1 - q) + (BlockSize - 1 - r)
  BY <1>1, BlockAssumption DEF Index
<1>4. n * BlockSize - 1 - d \in Nat
  BY BlockAssumption
<1> QED BY <1>2, <1>3, <1>4, QuotientUnique DEF q, r

\* Every set of numbers has a smallest one.
LEMMA MinIsLeast ==
  ASSUME NEW T \in SUBSET Nat, T # {}
  PROVE  Min(T) \in T /\ \A n \in T : Min(T) <= n
<1> DEFINE U == {0..n : n \in T}
<1>1. U \subseteq FiniteSubsetsOf(Int) /\ U # {}
  <2>1. ASSUME NEW n \in T PROVE 0..n \subseteq Int /\ IsFiniteSet(0..n)
    BY FS_Interval
  <2> QED BY <2>1 DEF FiniteSubsetsOf
<1>2. PICK x \in U : \A y \in U : <<y, x>> \notin StrictSubsetOrdering(Int)
  BY <1>1, WFMin, FS_StrictSubsetOrderingWellFounded
<1>3. PICK m \in T : x = 0..m
  BY <1>2
<1>4. ASSUME NEW n \in T, n < m PROVE FALSE
  <2>1. 0..n \subseteq 0..m /\ m \in 0..m /\ m \notin 0..n /\ 0..m \subseteq Int
    BY <1>3, <1>4
  <2>2. <<0..n, x>> \in StrictSubsetOrdering(Int)
    BY <1>3, <2>1 DEF StrictSubsetOrdering
  <2> QED BY <1>2, <2>2
<1>5. \A n \in T : m <= n
  BY <1>4
<1> QED BY <1>3, <1>5 DEF Min

LEMMA MultipleRemainder ==
  ASSUME NEW d \in Nat \ {0}, NEW j \in Nat
  PROVE  (d * j) % d = 0
OBVIOUS

\* A power of two is its own least power of two, and so is its double.
LEMMA PowersOfTwo ==
  ASSUME NEW n \in Nat \ {0}, PowerOfTwo(n)
  PROVE  CeilPower(n) = n /\ PowerOfTwo(2 * n)
<1>1. CeilPower(n) = n
  <2> DEFINE T == {m \in n..2 * n : PowerOfTwo(m)}
  <2>1. T \in SUBSET Nat /\ n \in T /\ \A m \in T : n <= m
    OBVIOUS
  <2> HIDE DEF T
  <2>2. Min(T) \in T /\ Min(T) <= n
    BY <2>1, MinIsLeast
  <2>3. Min(T) = n
    <3> DEFINE m == Min(T)
    <3>1. m \in Nat /\ m <= n /\ n <= m
      BY <2>1, <2>2
    <3> HIDE DEF m
    <3>2. m = n
      BY <3>1
    <3> QED BY <3>2 DEF m
  <2> QED BY <2>3 DEF CeilPower, T
<1>2. ASSUME NEW d \in 2..2 * n, (2 * n) % d = 0 PROVE d % 2 = 0
  <2> SUFFICES ASSUME d % 2 # 0 PROVE FALSE
    OBVIOUS
  <2>1. PICK k \in Nat : 2 * n = d * k
    BY <1>2
  <2>2. PICK h \in Nat : d = 2 * h + 1
    BY <2>1
  <2>3. k % 2 = 0
    BY <2>1, <2>2
  <2>4. PICK j \in Nat : k = 2 * j
    BY <2>3
  <2>5. n = d * j
    BY <2>1, <2>4
  <2>6. d \in 2..n
    <3>1. j # 0
      BY <2>5
    <3> QED BY <2>5, <3>1
  <2>7. n % d = 0
    BY <2>5, MultipleRemainder
  <2> QED BY <2>6, <2>7 DEF PowerOfTwo
<1> QED BY <1>1, <1>2 DEF PowerOfTwo

-----------------------------------------------------------------------------
(***************************************************************************)
(* The array of cells.                                                     *)
(***************************************************************************)
Content == [Block -> [Index -> Elem \cup {NULL}]]

\* The last n slots of a vector of c slots are blocks, all different.
GoodVec(v, c, n) ==
  /\ c \in Nat /\ n \in 1..c /\ v \in [0..c - 1 -> Block \cup {NULL}]
  /\ \A s \in c - n..c - 1 : v[s] \in Block
  /\ \A s, t \in c - n..c - 1 : v[s] = v[t] => s = t

\* The slot of position p, and what the position holds if the blocks hold m.
Slot(c, n, p)       == c - n + (p \div BlockSize)
Value(m, v, c, n, p) == m[v[Slot(c, n, p)]][p % BlockSize]

\* Where a position is.
LEMMA Located ==
  ASSUME NEW v, NEW c, NEW n, GoodVec(v, c, n), NEW p \in Nat, p < n * BlockSize
  PROVE  /\ Slot(c, n, p) \in c - n..c - 1 /\ Slot(c, n, p) \in DOMAIN v
         /\ v[Slot(c, n, p)] \in Block /\ p % BlockSize \in Index
         /\ At(v, Slot(c, n, p), p % BlockSize) = <<v[Slot(c, n, p)], p % BlockSize>>
<1>1. p \div BlockSize \in Nat /\ p \div BlockSize < n /\ p % BlockSize \in Index
  BY Quotient, InBlocks DEF GoodVec
<1>2. Slot(c, n, p) \in c - n..c - 1 /\ Slot(c, n, p) \in 0..c - 1
  BY <1>1 DEF GoodVec, Slot
<1> QED BY <1>1, <1>2 DEF GoodVec, At

\* Two positions are not in the same place.
LEMMA Apart ==
  ASSUME NEW v, NEW c, NEW n, GoodVec(v, c, n),
         NEW p \in Nat, p < n * BlockSize, NEW q \in Nat, q < n * BlockSize,
         v[Slot(c, n, p)] = v[Slot(c, n, q)], p % BlockSize = q % BlockSize
  PROVE  p = q
<1>1. Slot(c, n, p) = Slot(c, n, q)
  BY Located DEF GoodVec
<1>2. p \div BlockSize = q \div BlockSize
  BY <1>1, Quotient DEF Slot, GoodVec
<1> QED BY <1>2, Quotient

\* What a position reads.
LEMMA Reads ==
  ASSUME NEW v, NEW c, NEW n, GoodVec(v, c, n), NEW p \in Nat, p < n * BlockSize
  PROVE  Read(At(v, Slot(c, n, p), p % BlockSize)) = Value(cell, v, c, n, p)
BY Located DEF Read, Value

\* A write changes one position.
LEMMA Writes ==
  ASSUME NEW m \in Content, NEW e \in Elem,
         NEW v, NEW c, NEW n, GoodVec(v, c, n), NEW x \in Nat, x < n * BlockSize
  PROVE  LET w == Write(m, At(v, Slot(c, n, x), x % BlockSize), e)
         IN  /\ w \in Content
             /\ \A p \in Nat : p < n * BlockSize =>
                  Value(w, v, c, n, p) = IF p = x THEN e ELSE Value(m, v, c, n, p)
<1> DEFINE w == Write(m, At(v, Slot(c, n, x), x % BlockSize), e)
<1>1. w = [b \in Block |-> [i \in Index |->
             IF <<v[Slot(c, n, x)], x % BlockSize>> = <<b, i>> THEN e ELSE m[b][i]]]
  BY Located DEF Write
<1> HIDE DEF w
<1>2. w \in Content
  BY <1>1 DEF Content
<1>3. ASSUME NEW p \in Nat, p < n * BlockSize
      PROVE  Value(w, v, c, n, p) = IF p = x THEN e ELSE Value(m, v, c, n, p)
  <2> DEFINE b == v[Slot(c, n, p)]
             i == p % BlockSize
  <2>1. b \in Block /\ i \in Index
    BY <1>3, Located
  <2>2. (v[Slot(c, n, x)] = b /\ x % BlockSize = i) <=> p = x
    BY <1>3, Apart
  <2> HIDE DEF b, i
  <2>3. w[b][i] = IF p = x THEN e ELSE m[b][i]
    BY <1>1, <2>1, <2>2
  <2> QED BY <2>3 DEF Value, b, i
<1> QED BY <1>2, <1>3 DEF w

\* What is known of a FIFO that is alive.  Its front is in the last block,
\* unless its only block was emptied by pops.
Live ==
  /\ GoodVec(vec, capacity, nBlocks) /\ PowerOfTwo(capacity)
  /\ {vec[s] : s \in capacity - nBlocks..capacity - 1} = heap
  /\ offset + size <= Cells
  /\ Cells - (offset + size) < BlockSize \/ (nBlocks = 1 /\ offset = 0 /\ size = 0)
Dead  == heap = {} /\ vec = <<>> /\ capacity = 0 /\ nBlocks = 0
Typed == /\ alive \in BOOLEAN /\ heap \subseteq Block /\ cell \in Content
         /\ size \in Nat /\ offset \in Nat

\* The k-th oldest element.
Queued(k) == Value(cell, vec, capacity, nBlocks, offset + size - k)

\* A vector of c slots ends with the same blocks as the one there is.
SameBlocks(v, c) == \A j \in 0..nBlocks - 1 : v[c - nBlocks + j] = vec[capacity - nBlocks + j]

\* A shift moves every element the same distance to the right.
LEMMA Shifts ==
  ASSUME Typed, Live, NEW v, NEW c, GoodVec(v, c, nBlocks),
         SameBlocks(v, c)
  PROVE  /\ RightShifted(v) \in Content
         /\ \A k \in 1..size : Value(RightShifted(v), v, c, nBlocks, Cells - k) = Queued(k)
<1> DEFINE delta == Cells - (offset + size)
           dest == [d \in 0..size - 1 |-> FromRight(v, d)]
           w == RightShifted(v)
           pos(d) == nBlocks * BlockSize - 1 - d
           there(d) == <<v[Slot(c, nBlocks, pos(d))], pos(d) % BlockSize>>
<1>t. /\ nBlocks \in Nat \ {0} /\ BlockSize \in Nat \ {0} /\ size \in Nat /\ offset \in Nat
      /\ Cells = nBlocks * BlockSize /\ Cells \in Nat /\ offset + size <= Cells
  BY BlockAssumption DEF Typed, Live, GoodVec, Cells
<1>1. Cardinality(DOMAIN v) = c
  <2>1. DOMAIN v = 0..c - 1 /\ c \in Nat
    BY DEF GoodVec
  <2>2. Cardinality(0..c - 1) = c
    BY <2>1, FS_Interval
  <2> QED BY <2>1, <2>2
<1>2. ASSUME NEW d \in Nat, d < nBlocks * BlockSize
      PROVE  /\ FromRight(v, d) = there(d) /\ pos(d) \in Nat /\ pos(d) < nBlocks * BlockSize
             /\ v[Slot(c, nBlocks, pos(d))] \in Block /\ pos(d) % BlockSize \in Index
             /\ Read(FromRight(v, d)) = Value(cell, v, c, nBlocks, pos(d))
  <2>1. /\ pos(d) \in Nat /\ pos(d) \div BlockSize = nBlocks - 1 - (d \div BlockSize)
        /\ pos(d) % BlockSize = BlockSize - 1 - (d % BlockSize)
    BY <1>2, <1>t, Mirror
  <2>2. pos(d) < nBlocks * BlockSize
    BY <1>2, <1>t
  <2>3. Slot(c, nBlocks, pos(d)) = c - 1 - (d \div BlockSize)
    <3>1. d \div BlockSize \in Nat
      BY Quotient
    <3> HIDE DEF pos
    <3> QED BY <2>1, <3>1, <1>t DEF Slot, GoodVec
  <2> HIDE DEF pos
  <2>4. FromRight(v, d) = At(v, Slot(c, nBlocks, pos(d)), pos(d) % BlockSize)
    BY <1>1, <2>1, <2>3 DEF FromRight
  <2> QED BY <2>1, <2>2, <2>4, Located, Reads
<1>3. delta \in Nat /\ \A d \in 0..size - 1 : d + delta \in Nat /\ d + delta < nBlocks * BlockSize
  BY <1>t
<1>4. w = [b \in Block |-> [i \in Index |->
             IF \E d \in 0..size - 1 : dest[d] = <<b, i>>
               THEN Read(FromRight(v, (CHOOSE d \in 0..size - 1 : dest[d] = <<b, i>>) + delta))
               ELSE cell[b][i]]]
  BY DEF RightShifted
<1> HIDE DEF w, delta
<1>5. w \in Content
  <2>1. \A l : Read(l) \in Elem \cup {NULL}
    BY DEF Read, Typed, Content
  <2> QED BY <1>4, <2>1 DEF Content, Typed
<1>6. ASSUME NEW d \in 0..size - 1
      PROVE  Value(w, v, c, nBlocks, pos(d)) = Value(cell, v, c, nBlocks, pos(d + delta))
  <2>1. /\ d \in Nat /\ d < nBlocks * BlockSize
        /\ \A a \in 0..size - 1 : a \in Nat /\ a < nBlocks * BlockSize
    BY <1>t
  <2>2. \A a \in 0..size - 1 : dest[a] = there(d) <=> a = d
    <3>1. ASSUME NEW a \in 0..size - 1, there(a) = there(d) PROVE a = d
      <4>1. pos(a) = pos(d)
        BY <1>2, <2>1, <3>1, Apart
      <4> QED BY <4>1, <2>1, <1>t
    <3> QED BY <1>2, <2>1, <3>1
  <2> DEFINE b == v[Slot(c, nBlocks, pos(d))]
             i == pos(d) % BlockSize
  <2>3. b \in Block /\ i \in Index
    BY <1>2, <2>1
  <2>4. /\ \E a \in 0..size - 1 : dest[a] = <<b, i>>
        /\ (CHOOSE a \in 0..size - 1 : dest[a] = <<b, i>>) = d
    BY <2>2
  <2> HIDE DEF b, i, dest
  <2>5. w[b][i] = Read(FromRight(v, d + delta))
    BY <1>4, <2>3, <2>4
  <2> HIDE DEF pos
  <2>6. Read(FromRight(v, d + delta)) = Value(cell, v, c, nBlocks, pos(d + delta))
    BY <1>2, <1>3
  <2> QED BY <2>5, <2>6 DEF Value, b, i
<1>7. ASSUME NEW k \in 1..size
      PROVE  Value(w, v, c, nBlocks, Cells - k) = Queued(k)
  <2>1. k - 1 \in 0..size - 1 /\ pos(k - 1) = Cells - k
    BY <1>t
  <2>2. pos((k - 1) + delta) = offset + size - k
    BY <1>t DEF delta
  <2>3. Value(w, v, c, nBlocks, Cells - k) = Value(cell, v, c, nBlocks, offset + size - k)
    <3> HIDE DEF pos
    <3> QED BY <1>6, <2>1, <2>2
  <2>4. offset + size - k \in Nat /\ offset + size - k < nBlocks * BlockSize
    BY <1>t
  <2>5. (offset + size - k) \div BlockSize \in 0..nBlocks - 1
    BY <2>4, <1>t, BlockOf
  <2> QED BY <2>3, <2>5 DEF Value, Queued, Slot, SameBlocks
<1> QED BY <1>5, <1>7 DEF w

-----------------------------------------------------------------------------
(***************************************************************************)
(* Pushes.                                                                 *)
(***************************************************************************)

\* Whatever comes of reserving a slot, the blocks are at the right end, and
\* also where the code looks for them with the capacity it read before.
LEMMA Reserves ==
  ASSUME Live, NEW r \in Reserve
  PROVE  /\ GoodVec(r.vec, r.cap, nBlocks) /\ PowerOfTwo(r.cap) /\ SameBlocks(r.vec, r.cap)
         /\ r.ok => r.cap > nBlocks
         /\ r.cap >= capacity
         /\ \A j \in 0..nBlocks - 1 : r.vec[capacity - nBlocks + j] = r.vec[r.cap - nBlocks + j]
<1>1. CASE r.vec = vec /\ r.cap = capacity /\ (r.ok => capacity # nBlocks)
  BY <1>1 DEF Live, GoodVec, SameBlocks
<1>2. CASE capacity = nBlocks /\ r.cap = 2 * capacity /\ r.vec = Grown(2 * capacity)
  <2>1. capacity \in Nat \ {0} /\ PowerOfTwo(2 * capacity)
    BY <1>2, PowersOfTwo DEF Live, GoodVec
  <2>2. \A s \in 0..2 * capacity - 1 :
          r.vec[s] = IF s >= capacity THEN vec[s - capacity] ELSE vec[s]
    BY <1>2, <2>1 DEF Grown
  <2>3. r.vec \in [0..2 * capacity - 1 -> Block \cup {NULL}]
    BY <1>2, <2>1 DEF Grown, Live, GoodVec
  <2>4. \A s \in capacity..2 * capacity - 1 : r.vec[s] = vec[s - capacity] /\ r.vec[s] \in Block
    BY <1>2, <2>1, <2>2 DEF Live, GoodVec
  <2>5. \A s, t \in capacity..2 * capacity - 1 : r.vec[s] = r.vec[t] => s = t
    BY <1>2, <2>1, <2>4 DEF Live, GoodVec
  <2>6. SameBlocks(r.vec, r.cap)
    BY <1>2, <2>1, <2>2 DEF SameBlocks
  <2>7. \A j \in 0..nBlocks - 1 : r.vec[capacity - nBlocks + j] = r.vec[r.cap - nBlocks + j]
    BY <1>2, <2>1, <2>2
  <2>8. GoodVec(r.vec, r.cap, nBlocks)
    BY <1>2, <2>1, <2>3, <2>4, <2>5 DEF GoodVec
  <2> QED BY <1>2, <2>1, <2>6, <2>7, <2>8
<1>3. capacity \in Nat \ {0} /\ 2 * CeilPower(capacity) = 2 * capacity
  BY PowersOfTwo DEF Live, GoodVec
<1> QED
  <2>1. CASE capacity # nBlocks
    BY <2>1, <1>1, <1>3 DEF Reserve
  <2>2. CASE capacity = nBlocks
    BY <2>2, <1>1, <1>2, <1>3 DEF Reserve
  <2> QED BY <2>1, <2>2

\* The element is the newest in the queue, or nothing has changed.
Appended(e) ==
  /\ ret' = TRUE /\ size' = size + 1
  /\ \A k \in 1..size + 1 : Queued(k)' = IF k = size + 1 THEN e ELSE Queued(k)
Refused == ret' = FALSE /\ size = Cells /\ size' = size /\ \A k \in 1..size : Queued(k)' = Queued(k)

\* The same blocks are the blocks of the heap.
LEMMA SameHeap ==
  ASSUME Live, NEW v, NEW c, GoodVec(v, c, nBlocks), SameBlocks(v, c)
  PROVE  {v[s] : s \in c - nBlocks..c - 1} = heap
<1>1. ASSUME NEW s \in c - nBlocks..c - 1
      PROVE  v[s] \in {vec[t] : t \in capacity - nBlocks..capacity - 1}
  <2>1. s - (c - nBlocks) \in 0..nBlocks - 1 /\ (c - nBlocks) + (s - (c - nBlocks)) = s
    BY DEF Live, GoodVec
  <2>2. v[s] = vec[capacity - nBlocks + (s - (c - nBlocks))]
    BY <2>1 DEF SameBlocks
  <2>3. capacity - nBlocks + (s - (c - nBlocks)) \in capacity - nBlocks..capacity - 1
    BY <2>1 DEF Live, GoodVec
  <2> QED BY <2>2, <2>3
<1>2. ASSUME NEW t \in capacity - nBlocks..capacity - 1
      PROVE  vec[t] \in {v[s] : s \in c - nBlocks..c - 1}
  <2>1. /\ t - (capacity - nBlocks) \in 0..nBlocks - 1
        /\ (capacity - nBlocks) + (t - (capacity - nBlocks)) = t
    BY DEF Live, GoodVec
  <2>2. vec[t] = v[c - nBlocks + (t - (capacity - nBlocks))]
    BY <2>1 DEF SameBlocks
  <2>3. c - nBlocks + (t - (capacity - nBlocks)) \in c - nBlocks..c - 1
    BY <2>1 DEF Live, GoodVec
  <2> QED BY <2>2, <2>3
<1> QED BY <1>1, <1>2 DEF Live

\* A queued element is in one of the positions of its blocks.
LEMMA QueuedPosition ==
  ASSUME Typed, Live
  PROVE  /\ Cells = nBlocks * BlockSize /\ Cells \in Nat /\ nBlocks \in Nat \ {0}
         /\ BlockSize \in Nat \ {0}
         /\ size \in Nat /\ offset \in Nat /\ offset + size <= Cells
         /\ \A k \in 1..size : offset + size - k \in Nat /\ offset + size - k < nBlocks * BlockSize
<1>1. nBlocks \in Nat \ {0} /\ BlockSize \in Nat \ {0} /\ size \in Nat /\ offset \in Nat
  BY BlockAssumption DEF Typed, Live, GoodVec
<1>2. Cells = nBlocks * BlockSize /\ Cells \in Nat /\ offset + size <= Cells
  BY <1>1 DEF Live, Cells
<1> QED BY <1>1, <1>2

\* What remains the same and what is new once the element is written, x being
\* its position, v the vector and m the content of the blocks.
LEMMA Places ==
  ASSUME Typed, NEW e \in Elem, NEW m \in Content, NEW n,
         GoodVec(vec', capacity', n), nBlocks' = n,
         NEW x \in Nat, x + size + 1 <= n * BlockSize,
         cell' = Write(m, At(vec', Slot(capacity', n, x), x % BlockSize), e),
         offset' = x, size' = size + 1, ret' = TRUE,
         \A k \in 1..size : Value(m, vec', capacity', n, x + 1 + size - k) = Queued(k)
  PROVE  Appended(e) /\ cell' \in Content
<1>t. size \in Nat /\ n \in Nat /\ BlockSize \in Nat \ {0}
  BY BlockAssumption DEF Typed, GoodVec
<1>n. n * BlockSize \in Nat
  BY <1>t
<1>1. /\ cell' \in Content
      /\ \A p \in Nat : p < n * BlockSize =>
           Value(cell', vec', capacity', n, p) = IF p = x THEN e ELSE Value(m, vec', capacity', n, p)
  BY <1>t, <1>n, Writes
<1>2. ASSUME NEW k \in 1..size + 1
      PROVE  Queued(k)' = IF k = size + 1 THEN e ELSE Queued(k)
  <2> DEFINE p == x + 1 + size - k
  <2>1. p \in Nat /\ p < n * BlockSize /\ (p = x <=> k = size + 1) /\ (k # size + 1 => k \in 1..size)
    BY <1>t, <1>n
  <2>2. Queued(k)' = Value(cell', vec', capacity', n, p)
    <3>1. Queued(k)' = Value(cell', vec', capacity', nBlocks', offset' + size' - k)
      BY DEF Queued, Value, Slot
    <3>2. offset' + size' - k = p
      BY <1>t
    <3> QED BY <3>1, <3>2
  <2> HIDE DEF p
  <2>3. Queued(k)' = IF p = x THEN e ELSE Value(m, vec', capacity', n, p)
    BY <1>1, <2>1, <2>2
  <2> QED BY <2>1, <2>3 DEF p
<1> QED BY <1>1, <1>2 DEF Appended

\* There is room on the left.
LEMMA PushesLeft ==
  ASSUME Typed, Live, NEW e \in Elem, PushLeft(e)
  PROVE  Typed' /\ Live' /\ Appended(e)
<1> USE DEF layout
<1>1. /\ offset # 0 /\ cell' = Write(cell, At(vec, Slot(capacity, nBlocks, offset - 1),
                                              (offset - 1) % BlockSize), e)
      /\ offset' = offset - 1 /\ size' = size + 1 /\ ret' = TRUE
      /\ UNCHANGED <<alive, heap, vec, capacity, nBlocks>>
  BY DEF PushLeft, PlaceAt, Slot
<1>2. /\ offset - 1 \in Nat /\ (offset - 1) + size + 1 <= nBlocks * BlockSize
      /\ \A k \in 1..size : (offset - 1) + 1 + size - k = offset + size - k
  BY <1>1, QueuedPosition
<1>3. GoodVec(vec', capacity', nBlocks)
  BY <1>1 DEF Live
<1>4. cell \in Content
  BY DEF Typed
<1>5. \A k \in 1..size : Value(cell, vec', capacity', nBlocks, (offset - 1) + 1 + size - k) = Queued(k)
  BY <1>1, <1>2 DEF Queued
<1>6. Appended(e) /\ cell' \in Content
  BY <1>1, <1>2, <1>3, <1>4, <1>5, Places
<1>7. Typed'
  BY <1>1, <1>2, <1>6 DEF Typed
<1>8. Live'
  <2>1. /\ GoodVec(vec', capacity', nBlocks') /\ PowerOfTwo(capacity')
        /\ {vec'[s] : s \in capacity' - nBlocks'..capacity' - 1} = heap'
    BY <1>1 DEF Live
  <2>2. Cells' = Cells /\ offset' + size' = offset + size
    BY <1>1, QueuedPosition DEF Cells
  <2>3. /\ offset + size <= Cells
        /\ Cells - (offset + size) < BlockSize \/ (nBlocks = 1 /\ offset = 0 /\ size = 0)
    BY DEF Live
  <2> QED BY <1>1, <2>1, <2>2, <2>3 DEF Live
<1> QED BY <1>6, <1>7, <1>8

\* The elements are shifted, or are as many as there are cells.
LEMMA ShiftsOrRefuses ==
  ASSUME Typed, Live, NEW e \in Elem, NEW v, NEW c,
         GoodVec(v, c, nBlocks), PowerOfTwo(c), SameBlocks(v, c), c >= capacity,
         \A j \in 0..nBlocks - 1 : v[capacity - nBlocks + j] = v[c - nBlocks + j],
         offset = 0, ShiftOrRefuse(v, e),
         vec' = v, capacity' = c, UNCHANGED <<alive, heap, nBlocks>>
  PROVE  Typed' /\ Live' /\ (Appended(e) \/ Refused)
<1>h. {v[s] : s \in c - nBlocks..c - 1} = heap
  BY SameHeap
<1>1. CASE size = Cells
  <2>1. ret' = FALSE /\ UNCHANGED <<cell, size, offset>>
    BY <1>1 DEF ShiftOrRefuse
  <2>2. ASSUME NEW k \in 1..size PROVE Queued(k)' = Queued(k)
    <3> DEFINE p == offset + size - k
    <3>1. p \in Nat /\ p < nBlocks * BlockSize
      BY QueuedPosition
    <3>2. nBlocks \in Nat
      BY QueuedPosition
    <3> HIDE DEF p
    <3>3. p \div BlockSize \in 0..nBlocks - 1
      BY <3>1, <3>2, BlockOf
    <3>4. Value(cell, v, c, nBlocks, p) = Value(cell, vec, capacity, nBlocks, p)
      BY <3>3 DEF Value, Slot, SameBlocks
    <3>5. Queued(k)' = Value(cell, v, c, nBlocks, p)
      BY <2>1 DEF Queued, Value, Slot, p
    <3> QED BY <3>4, <3>5 DEF Queued, p
  <2>3. Typed'
    BY <2>1 DEF Typed
  <2>4. Live'
    BY <1>h, <2>1, QueuedPosition DEF Live, GoodVec, Cells
  <2> QED BY <1>1, <2>1, <2>2, <2>3, <2>4 DEF Refused
<1>2. CASE size # Cells
  <2> DEFINE m == RightShifted(v)
             x == Cells - size - 1
  <2>1. x \in Nat /\ x < nBlocks * BlockSize /\ x + size + 1 <= nBlocks * BlockSize
    BY <1>2, QueuedPosition
  <2>2. /\ cell' = Write(m, At(v, Slot(capacity, nBlocks, x), x % BlockSize), e)
        /\ offset' = x /\ size' = size + 1 /\ ret' = TRUE
    BY <1>2 DEF ShiftOrRefuse, PlaceAt, Slot
  <2>3. m \in Content /\ \A k \in 1..size : Value(m, v, c, nBlocks, Cells - k) = Queued(k)
    BY Shifts
  <2>4. \A k \in 1..size : x + 1 + size - k = Cells - k
    BY QueuedPosition
  <2> HIDE DEF m
  <2>5. cell' = Write(m, At(v, Slot(c, nBlocks, x), x % BlockSize), e)
    <3>1. x \div BlockSize \in 0..nBlocks - 1
      <4> HIDE DEF x
      <4> QED BY <2>1, QueuedPosition, BlockOf
    <3>2. /\ v[Slot(capacity, nBlocks, x)] = v[Slot(c, nBlocks, x)]
          /\ Slot(capacity, nBlocks, x) \in 0..c - 1
          /\ Slot(c, nBlocks, x) \in 0..c - 1
      <4> DEFINE j == x \div BlockSize
      <4>1. /\ capacity \in Nat /\ nBlocks \in 1..capacity /\ c \in Nat
            /\ j \in 0..nBlocks - 1
        BY <3>1 DEF GoodVec, Live
      <4>2. Slot(capacity, nBlocks, x) = capacity - nBlocks + j /\ Slot(c, nBlocks, x) = c - nBlocks + j
        BY DEF Slot
      <4> HIDE DEF j
      <4> QED BY <4>1, <4>2
    <3> QED BY <2>2, <3>2 DEF At, GoodVec
  <2> HIDE DEF x
  <2>6. Appended(e) /\ cell' \in Content
    <3>1. \A k \in 1..size : Value(m, vec', capacity', nBlocks, x + 1 + size - k) = Queued(k)
      BY <2>3, <2>4
    <3>2. GoodVec(vec', capacity', nBlocks)
      OBVIOUS
    <3> QED BY <2>1, <2>2, <2>3, <2>5, <3>1, <3>2, Places
  <2>7. Typed'
    BY <2>1, <2>2, <2>6 DEF Typed
  <2>8. Live'
    <3>1. offset' + size' = Cells
      BY <2>2, QueuedPosition DEF x
    <3>2. Cells' = Cells
      BY DEF Cells
    <3> QED BY <1>h, <3>1, <3>2, QueuedPosition DEF Live, GoodVec
  <2> QED BY <2>6, <2>7, <2>8
<1> QED BY <1>1, <1>2

\* A new block on the left: the element goes to its right end.
LEMMA PushesNewBlock ==
  ASSUME Typed, Live, ShiftPercent > 0, NEW e \in Elem, PushNewBlock(e)
  PROVE  Typed' /\ Live' /\ Appended(e)
<1> DEFINE n == nBlocks + 1
<1>t. /\ offset = 0 /\ alive' = alive /\ nBlocks' = n /\ size > 0
      /\ Cells = nBlocks * BlockSize /\ Cells \in Nat /\ nBlocks \in Nat \ {0}
      /\ BlockSize \in Nat \ {0} /\ size \in Nat /\ size <= Cells
      /\ n * BlockSize = Cells + BlockSize
  <2>1. offset = 0 /\ size * 100 >= Cells * ShiftPercent /\ alive' = alive /\ nBlocks' = n
    BY DEF PushNewBlock, WantsBlock
  <2>2. Cells \in Nat \ {0} /\ size \in Nat
    BY QueuedPosition
  <2>3. ShiftPercent \in Nat \ {0}
    BY RatioAssumption
  <2>4. size > 0
    BY <2>1, <2>2, <2>3
  <2>5. n * BlockSize = Cells + BlockSize
    BY QueuedPosition
  <2> QED BY <2>1, <2>4, <2>5, QueuedPosition
<1>1. PICK r \in Reserve :
        /\ r.ok /\ heap # Block /\ heap' = heap \cup {Fresh} /\ capacity' = r.cap
        /\ vec' = [r.vec EXCEPT ![r.cap - nBlocks - 1] = Fresh]
        /\ PlaceAt(cell, vec', r.cap, n, BlockSize, e)
  BY DEF PushNewBlock
<1> DEFINE c == r.cap
<1>2. /\ GoodVec(r.vec, c, nBlocks) /\ PowerOfTwo(c) /\ SameBlocks(r.vec, c)
      /\ c \in Nat /\ n \in 1..c
  BY <1>1, Reserves DEF GoodVec
<1>f. Fresh \in Block \ heap
  <2>1. Block \ heap \in SUBSET Nat /\ Block \ heap # {}
    <3>1. heap \subseteq Block /\ heap # Block /\ Block \subseteq Nat
      BY <1>1, BlockAssumption DEF Block, Typed
    <3> QED BY <3>1
  <2> QED BY <2>1, MinIsLeast DEF Fresh
<1>h. {r.vec[s] : s \in c - nBlocks..c - 1} = heap
  BY <1>2, SameHeap
<1>3. /\ vec' \in [0..c - 1 -> Block \cup {NULL}] /\ vec'[c - n] = Fresh
      /\ \A s \in c - nBlocks..c - 1 : vec'[s] = r.vec[s]
      /\ c - n..c - 1 = {c - n} \cup (c - nBlocks..c - 1)
  BY <1>1, <1>2, <1>f, <1>t DEF GoodVec
<1>4. GoodVec(vec', c, n)
  <2>1. \A s \in c - nBlocks..c - 1 : vec'[s] \in Block /\ vec'[s] # Fresh
    BY <1>2, <1>3, <1>h, <1>f DEF GoodVec
  <2> QED BY <2>1, <1>2, <1>3, <1>f DEF GoodVec
<1>5. {vec'[s] : s \in c - n..c - 1} = heap'
  BY <1>1, <1>3, <1>h
<1> DEFINE x == BlockSize - 1
<1>6. /\ cell' = Write(cell, At(vec', Slot(c, n, x), x % BlockSize), e)
      /\ offset' = x /\ size' = size + 1 /\ ret' = TRUE
  BY <1>1 DEF PlaceAt, Slot
<1>7. x \in Nat /\ x + size + 1 <= n * BlockSize
  BY <1>t
<1>8. ASSUME NEW k \in 1..size
      PROVE  Value(cell, vec', c, n, x + 1 + size - k) = Queued(k)
  <2> DEFINE p == offset + size - k
  <2>1. p \in Nat /\ p < nBlocks * BlockSize /\ x + 1 + size - k = p + BlockSize
    BY <1>t
  <2>q. Queued(k) = Value(cell, vec, capacity, nBlocks, p)
    BY DEF Queued
  <2> HIDE DEF p, x, c
  <2>2. p \div BlockSize \in 0..nBlocks - 1
    BY <2>1, <1>t, BlockOf
  <2>3. /\ (p + BlockSize) \div BlockSize = (p \div BlockSize) + 1
        /\ (p + BlockSize) % BlockSize = p % BlockSize
    BY <2>1, NextBlock
  <2>4. Slot(c, n, p + BlockSize) = c - nBlocks + (p \div BlockSize)
    BY <2>2, <2>3, <1>2, <1>t DEF Slot
  <2>5. vec'[Slot(c, n, p + BlockSize)] = vec[capacity - nBlocks + (p \div BlockSize)]
    <3>1. c - nBlocks + (p \div BlockSize) \in c - nBlocks..c - 1
      BY <2>2, <1>2, <1>t
    <3> QED BY <3>1, <2>2, <2>4, <1>2, <1>3 DEF SameBlocks
  <2> QED BY <2>1, <2>3, <2>5, <2>q DEF Value, Slot
<1>9. Appended(e) /\ cell' \in Content
  <2>1. cell \in Content /\ capacity' = c
    BY <1>1 DEF Typed
  <2> HIDE DEF x, c, n
  <2>2. n \in Nat /\ nBlocks' = n
    BY <1>t, <1>2
  <2> QED BY <1>4, <1>6, <1>7, <1>8, <2>1, <2>2, Places
<1>10. Typed'
  BY <1>t, <1>1, <1>f, <1>6, <1>7, <1>9 DEF Typed
<1>11. Live'
  <2>1. offset' + size' = BlockSize + size /\ Cells' = Cells + BlockSize
    BY <1>t, <1>6 DEF Cells
  <2>2. Cells - size < BlockSize
    BY <1>t DEF Live
  <2>3. Cells' - (offset' + size') < BlockSize /\ offset' + size' <= Cells'
    BY <2>1, <2>2, <1>t
  <2> QED BY <2>3, <1>1, <1>2, <1>4, <1>5, <1>t DEF Live
<1> QED BY <1>9, <1>10, <1>11

\* A push appends its element, or finds every cell taken.
LEMMA Pushes ==
  ASSUME Typed, Live, ShiftPercent > 0, NEW e \in Elem, Push(e)
  PROVE  Typed' /\ Live' /\ (Appended(e) \/ Refused) /\ alive /\ UNCHANGED alive
<1>1. CASE PushLeft(e)
  BY <1>1, PushesLeft DEF PushLeft
<1>2. CASE PushShifting(e)
  <2>1. GoodVec(vec, capacity, nBlocks) /\ PowerOfTwo(capacity) /\ SameBlocks(vec, capacity)
    BY DEF Live, SameBlocks
  <2>2. /\ alive /\ offset = 0 /\ ShiftOrRefuse(vec, e)
        /\ UNCHANGED <<alive, heap, vec, capacity, nBlocks>>
    BY <1>2 DEF PushShifting, layout
  <2>3. capacity >= capacity
    BY <2>1 DEF GoodVec
  <2> QED BY <2>1, <2>2, <2>3, ShiftsOrRefuses
<1>3. CASE PushNewBlock(e)
  BY <1>3, PushesNewBlock DEF PushNewBlock
<1>4. CASE PushNoMemory(e)
  <2>1. PICK r \in Reserve : vec' = r.vec /\ capacity' = r.cap /\ ShiftOrRefuse(r.vec, e)
    BY <1>4 DEF PushNoMemory
  <2>2. alive /\ offset = 0 /\ UNCHANGED <<alive, heap, nBlocks>>
    BY <1>4 DEF PushNoMemory, WantsBlock
  <2> QED BY <2>1, <2>2, Reserves, ShiftsOrRefuses
<1> QED BY <1>1, <1>2, <1>3, <1>4 DEF Push

-----------------------------------------------------------------------------
(***************************************************************************)
(* Pops.                                                                   *)
(***************************************************************************)
Popped ==
  /\ size > 0 /\ ret' = Queued(1) /\ size' = size - 1
  /\ \A k \in 1..size - 1 : Queued(k)' = Queued(k + 1)

\* The code finds the oldest element in the last block.
LEMMA PopsOldest ==
  ASSUME Typed, Live, Pop
  PROVE  ret' = Queued(1) /\ size > 0 /\ Cells - (size + offset) \in Index
<1> DEFINE front == Cells - (size + offset)
           p == offset + size - 1
<1>1. /\ size > 0 /\ ret' = Read(At(vec, capacity - 1, BlockSize - front - 1))
  BY DEF Pop
<1>2. /\ front \in Index /\ front \in Nat /\ front < nBlocks * BlockSize
      /\ nBlocks * BlockSize - 1 - front = p /\ nBlocks \in Nat \ {0}
      /\ p \in Nat /\ p < nBlocks * BlockSize
  BY <1>1, QueuedPosition DEF Live, Index
<1>q. Queued(1) = Value(cell, vec, capacity, nBlocks, p)
  BY DEF Queued
<1>c. capacity \in Nat
  BY DEF Live, GoodVec
<1> HIDE DEF front, p
<1>3. front \div BlockSize = 0 /\ front % BlockSize = front
  BY <1>2, QuotientUnique, BlockAssumption DEF Index
<1>4. p \div BlockSize = nBlocks - 1 /\ p % BlockSize = BlockSize - 1 - front
  BY <1>2, <1>3, Mirror
<1>5. Slot(capacity, nBlocks, p) = capacity - 1 /\ p % BlockSize = BlockSize - front - 1
  BY <1>2, <1>4, <1>c, BlockAssumption DEF Slot, Index
<1>6. Read(At(vec, Slot(capacity, nBlocks, p), p % BlockSize)) = Queued(1)
  BY <1>2, <1>q, Reads DEF Live
<1> QED BY <1>1, <1>2, <1>5, <1>6 DEF front

\* The last block was emptied: it comes before the blocks that hold elements.
LEMMA PopsRotating ==
  ASSUME Typed, Live, Pop, Cells - (size + offset) = BlockSize - 1, nBlocks # 1
  PROVE  Typed' /\ Live' /\ Popped
<1> DEFINE q == offset \div BlockSize
           k == ((offset % BlockSize) + (size - 1)) \div BlockSize
           n == nBlocks
           c == capacity
<1>1. /\ vec' = Rotated(((offset % BlockSize) + size') \div BlockSize)
      /\ size' = size - 1 /\ offset' = offset + BlockSize
      /\ UNCHANGED <<alive, heap, cell, capacity, nBlocks>>
  BY DEF Pop
<1>t. /\ Cells = n * BlockSize /\ n \in Nat /\ n >= 2 /\ n <= c /\ c \in Nat
      /\ size \in Nat /\ offset \in Nat /\ size > 0 /\ BlockSize \in Nat \ {0}
      /\ (n - 1) * BlockSize = n * BlockSize - BlockSize
  BY QueuedPosition, PopsOldest DEF Live, GoodVec
<1>2. offset + (size - 1) = (n - 1) * BlockSize
  BY <1>t
<1>3. q \in Nat /\ offset % BlockSize \in Index /\ offset = BlockSize * q + (offset % BlockSize)
  BY <1>t, Quotient
<1> HIDE DEF q
<1>4. k = n - 1 - q /\ k \in 0..n - 1
  <2>1. q < n
    <3>1. offset < n * BlockSize
      BY <1>t
    <3> QED BY <3>1, <1>t, InBlocks DEF q
  <2>2. (offset % BlockSize) + (size - 1) = BlockSize * (n - 1 - q) + 0
    <3>1. BlockSize * (n - 1 - q) = (n - 1) * BlockSize - BlockSize * q
      BY <1>3, <1>t
    <3>2. offset % BlockSize \in Nat
      BY <1>3, <1>t DEF Index
    <3> DEFINE r == offset % BlockSize
               a == (n - 1) * BlockSize
               b == BlockSize * q
    <3>3. /\ a \in Int /\ b \in Int /\ r \in Nat
          /\ offset = b + r /\ offset + (size - 1) = a /\ BlockSize * (n - 1 - q) = a - b
      BY <1>2, <1>3, <1>t, <3>1, <3>2
    <3> HIDE DEF a, b, r
    <3>4. r + (size - 1) = BlockSize * (n - 1 - q) + 0
      BY <3>3, <1>t
    <3> QED BY <3>4 DEF r
  <2>3. n - 1 - q \in Nat /\ 0 \in Index
    BY <2>1, <1>3, <1>t DEF Index
  <2>4. k = n - 1 - q
    BY <2>2, <2>3, QuotientUnique
  <2> QED BY <2>3, <2>4, <1>3, <1>t
<1>5. vec' = Rotated(k)
  BY <1>1
<1> HIDE DEF k
<1>6. /\ \A s \in 0..c - 1 : vec'[s] = IF s = c - 1 - k           THEN vec[c - 1]
                                       ELSE IF s \in c - k..c - 1 THEN vec[s - 1]
                                       ELSE vec[s]
      /\ DOMAIN vec' = 0..c - 1
      /\ vec' = [s \in 0..c - 1 |-> vec'[s]]
  BY <1>5 DEF Rotated, Live, GoodVec
<1>7. GoodVec(vec, c, n) /\ c \in Nat /\ n \in 1..c
  BY DEF Live, GoodVec
<1> DEFINE from(s) == IF s = c - 1 - k           THEN c - 1
                      ELSE IF s \in c - k..c - 1 THEN s - 1
                      ELSE s
<1>8. /\ \A s \in c - n..c - 1 : from(s) \in c - n..c - 1
      /\ \A s, t \in c - n..c - 1 : from(s) = from(t) => s = t
      /\ \A t \in c - n..c - 1 : \E s \in c - n..c - 1 : from(s) = t
  <2> HIDE DEF n, c
  <2>t. c \in Nat /\ n \in 1..c /\ k \in 0..n - 1
    BY <1>4, <1>7
  <2>1. \A s \in c - n..c - 1 : from(s) \in c - n..c - 1
    BY <2>t
  <2>2. \A s, t \in c - n..c - 1 : from(s) = from(t) => s = t
    BY <2>t
  <2>3. ASSUME NEW t \in c - n..c - 1 PROVE \E s \in c - n..c - 1 : from(s) = t
    <3>1. CASE t = c - 1
      <4>1. c - 1 - k \in c - n..c - 1 /\ from(c - 1 - k) = t
        BY <3>1, <2>t
      <4> QED BY <4>1
    <3>2. CASE t < c - 1 - k
      <4>1. from(t) = t
        BY <3>2, <2>t
      <4> QED BY <4>1
    <3>3. CASE t >= c - 1 - k /\ t # c - 1
      <4>1. t + 1 \in c - n..c - 1 /\ from(t + 1) = t
        BY <3>3, <2>t
      <4> QED BY <4>1
    <3> QED BY <3>1, <3>2, <3>3, <2>t
  <2> QED BY <2>1, <2>2, <2>3
<1>s. /\ \A s \in c - n..c - 1 : vec'[s] = vec[from(s)] /\ vec'[s] \in Block
      /\ \A s \in 0..c - 1 : vec'[s] \in Block \cup {NULL}
  <2>1. \A s \in c - n..c - 1 : s \in 0..c - 1
    BY <1>7
  <2>2. \A s \in c - n..c - 1 : vec'[s] = vec[from(s)]
    BY <2>1, <1>6
  <2>3. \A s \in c - n..c - 1 : vec'[s] \in Block
    <3> HIDE DEF from
    <3> QED BY <2>2, <1>7, <1>8 DEF GoodVec
  <2>4. \A s \in 0..c - 1 : from(s) \in 0..c - 1 /\ vec'[s] = vec[from(s)]
    BY <1>4, <1>6, <1>7
  <2>5. \A s \in 0..c - 1 : vec'[s] \in Block \cup {NULL}
    <3> HIDE DEF from
    <3> QED BY <2>4, <1>7 DEF GoodVec
  <2> QED BY <2>2, <2>3, <2>5
<1> HIDE DEF from
<1>v. GoodVec(vec', c, n)
  <2>1. vec' \in [0..c - 1 -> Block \cup {NULL}]
    BY <1>s, <1>6
  <2>2. ASSUME NEW s \in c - n..c - 1, NEW t \in c - n..c - 1, vec'[s] = vec'[t]
        PROVE  s = t
    <3>1. from(s) = from(t)
      BY <2>2, <1>s, <1>7, <1>8 DEF GoodVec
    <3> QED BY <3>1, <1>8
  <2> QED BY <2>1, <2>2, <1>s, <1>7 DEF GoodVec
<1>9. {vec'[s] : s \in c - n..c - 1} = {vec[s] : s \in c - n..c - 1}
  <2>1. ASSUME NEW s \in c - n..c - 1 PROVE vec'[s] \in {vec[t] : t \in c - n..c - 1}
    BY <1>s, <1>8
  <2>2. ASSUME NEW t \in c - n..c - 1 PROVE vec[t] \in {vec'[s] : s \in c - n..c - 1}
    <3>1. PICK s \in c - n..c - 1 : from(s) = t
      BY <1>8
    <3> QED BY <3>1, <1>s
  <2> QED BY <2>1, <2>2
<1>10. ASSUME NEW j \in 1..size - 1 PROVE Queued(j)' = Queued(j + 1)
  <2> DEFINE p == offset + size - (j + 1)
  <2>1. p \in Nat /\ p < (n - 1) * BlockSize /\ p >= offset
    BY <1>2, <1>t
  <2>2. offset' + size' - j = p + BlockSize
    BY <1>1, <1>t
  <2>3. Queued(j + 1) = Value(cell, vec, c, n, p)
    BY DEF Queued
  <2>4. Queued(j)' = Value(cell, vec', c, n, p + BlockSize)
    <3>1. Queued(j)' = Value(cell', vec', capacity', nBlocks', offset' + size' - j)
      BY DEF Queued, Value, Slot
    <3> QED BY <3>1, <2>2, <1>1
  <2> HIDE DEF p
  <2>5. p \div BlockSize \in Nat /\ p \div BlockSize < n - 1 /\ p \div BlockSize >= q
    <3>1. n - 1 \in Nat
      BY <1>t
    <3>2. p \div BlockSize \in Nat /\ p \div BlockSize < n - 1
      BY <2>1, <3>1, Quotient, InBlocks
    <3>3. ~(p < q * BlockSize)
      BY <2>1, <1>3, <1>t DEF Index
    <3> QED BY <2>1, <3>2, <3>3, <1>3, InBlocks
  <2>6. /\ Slot(c, n, p + BlockSize) = Slot(c, n, p) + 1
        /\ Slot(c, n, p + BlockSize) \in c - k..c - 1
        /\ (p + BlockSize) % BlockSize = p % BlockSize
    <3>1. (p + BlockSize) \div BlockSize = (p \div BlockSize) + 1
          /\ (p + BlockSize) % BlockSize = p % BlockSize
      BY <2>1, NextBlock
    <3> QED BY <3>1, <2>5, <1>4, <1>3, <1>7 DEF Slot
  <2>7. vec'[Slot(c, n, p + BlockSize)] = vec[Slot(c, n, p)]
    <3> DEFINE s == Slot(c, n, p + BlockSize)
    <3>1. Slot(c, n, p) \in Int
      BY <2>5, <1>7 DEF Slot
    <3>2. s \in c - k..c - 1 /\ Slot(c, n, p) = s - 1 /\ s \in 0..c - 1 /\ s # c - 1 - k
      BY <2>6, <3>1, <1>4, <1>7
    <3> HIDE DEF s
    <3> QED BY <3>2, <1>6 DEF s
  <2> QED BY <2>3, <2>4, <2>6, <2>7 DEF Value
<1>11. Typed'
  BY <1>1, <1>t DEF Typed
<1>12. Live'
  <2>1. offset' + size' = Cells' /\ Cells' \in Nat
    BY <1>1, <1>t DEF Cells
  <2>2. Cells' - (offset' + size') < BlockSize /\ offset' + size' <= Cells'
    BY <2>1, <1>t
  <2> QED BY <2>2, <1>1, <1>v, <1>9 DEF Live
<1> QED BY <1>1, <1>10, <1>11, <1>12, PopsOldest DEF Popped

LEMMA Pops ==
  ASSUME Typed, Live, Pop
  PROVE  Typed' /\ Live' /\ Popped
<1>1. CASE Cells - (size + offset) = BlockSize - 1 /\ nBlocks # 1
  BY <1>1, PopsRotating
<1>2. CASE ~(Cells - (size + offset) = BlockSize - 1 /\ nBlocks # 1)
  <2>1. size' = size - 1 /\ UNCHANGED <<alive, heap, cell, vec, capacity, nBlocks, offset>>
    BY <1>2 DEF Pop
  <2>2. ASSUME NEW k \in 1..size - 1 PROVE Queued(k)' = Queued(k + 1)
    <3>1. offset' + size' - k = offset + size - (k + 1)
      BY <2>1, QueuedPosition
    <3>2. Queued(k)' = Value(cell', vec', capacity', nBlocks', offset' + size' - k)
      BY DEF Queued, Value, Slot
    <3> QED BY <2>1, <3>1, <3>2 DEF Queued
  <2>3. Typed'
    BY <2>1, PopsOldest DEF Typed
  <2>4. Live'
    <3>1. Cells' = Cells /\ offset' + size' = offset + size - 1
      BY <2>1, QueuedPosition DEF Cells
    <3>2. nBlocks = 1 => Cells = BlockSize
      BY QueuedPosition
    <3>3. Cells' - (offset' + size') < BlockSize \/ (nBlocks = 1 /\ offset' = 0 /\ size' = 0)
      BY <1>2, <2>1, <3>1, <3>2, PopsOldest, QueuedPosition DEF Index
    <3>4. offset' + size' <= Cells'
      BY <3>1, QueuedPosition
    <3> QED BY <2>1, <3>3, <3>4 DEF Live
  <2> QED BY <2>1, <2>2, <2>3, <2>4, PopsOldest DEF Popped
<1> QED BY <1>1, <1>2

-----------------------------------------------------------------------------
(***************************************************************************)
(* The life of a FIFO.                                                     *)
(***************************************************************************)
Fifo == /\ Typed /\ ret \in Elem \cup BOOLEAN
        /\ alive => Live /\ \A k \in 1..size : Queued(k) \in Elem
        /\ ~alive => Dead

LEMMA InitFifo == Init => Fifo
<1> SUFFICES ASSUME Init PROVE Fifo
  OBVIOUS
<1>1. Typed /\ Dead /\ ~alive /\ ret \in BOOLEAN
  BY DEF Init, Typed, Dead, Content
<1> QED BY <1>1 DEF Fifo

\* A FIFO is created with one block, or not at all.
LEMMA Creates ==
  ASSUME Typed, Dead, Create
  PROVE  /\ Typed' /\ size' = 0 /\ ~alive
         /\ \/ alive' = TRUE /\ ret' = TRUE /\ Live'
            \/ alive' = FALSE /\ ret' = FALSE /\ Dead'
<1>t. BlockSize \in Nat \ {0} /\ MaxBlocks \in Nat
  BY BlockAssumption
<1>1. CASE /\ heap # Block /\ heap' = heap \cup {Fresh} /\ vec' = [s \in {0} |-> Fresh]
           /\ capacity' = 1 /\ nBlocks' = 1 /\ size' = 0 /\ offset' = BlockSize
           /\ alive' = TRUE /\ ret' = TRUE /\ UNCHANGED cell
  <2>1. Fresh \in Block
    <3>1. heap \subseteq Block /\ heap # Block /\ Block \subseteq Nat
      BY <1>1, <1>t DEF Block, Typed
    <3>2. Block \ heap \in SUBSET Nat /\ Block \ heap # {}
      BY <3>1
    <3> QED BY <3>2, MinIsLeast DEF Fresh
  <2>2. Typed'
    BY <1>1, <1>t, <2>1 DEF Typed
  <2>3. GoodVec(vec', 1, 1) /\ {vec'[s] : s \in 0..0} = heap'
    BY <1>1, <2>1 DEF GoodVec, Dead
  <2>4. Cells' = BlockSize
    BY <1>1, <1>t DEF Cells
  <2>5. PowerOfTwo(1)
    BY DEF PowerOfTwo
  <2>6. Live'
    BY <1>1, <1>t, <2>3, <2>4, <2>5 DEF Live
  <2> QED BY <1>1, <2>2, <2>6 DEF Create
<1>2. CASE size' = 0 /\ ret' = FALSE /\ UNCHANGED <<alive, heap, layout, offset, cell>>
  <2>1. Typed' /\ Dead'
    BY <1>2 DEF Typed, Dead, layout
  <2>2. ~alive /\ alive' = FALSE
    BY <1>2 DEF Create, Typed
  <2> QED BY <1>2, <2>1, <2>2
<1> QED BY <1>1, <1>2 DEF Create

\* Its destroy frees every block.
LEMMA Destroys ==
  ASSUME Typed, Live, Destroy
  PROVE  Typed' /\ Dead' /\ ~alive' /\ ret' = ret
<1>1. heap' = {}
  BY DEF Destroy, Live
<1>2. cell' \in Content
  BY DEF Destroy, Typed, Content
<1> QED BY <1>1, <1>2 DEF Destroy, Typed, Dead

LEMMA NextFifo ==
  ASSUME ShiftPercent > 0
  PROVE  Fifo /\ [Next]_vars => Fifo'
<1> SUFFICES ASSUME Fifo, [Next]_vars PROVE Fifo'
  OBVIOUS
<1>0. Typed /\ (alive => Live) /\ (~alive => Dead) /\ size \in Nat
  BY DEF Fifo, Typed
<1>1. CASE Create
  <2>1. ~alive
    BY <1>1 DEF Create
  <2>2. /\ Typed' /\ size' = 0
        /\ \/ alive' = TRUE /\ ret' = TRUE /\ Live'
           \/ alive' = FALSE /\ ret' = FALSE /\ Dead'
    BY <1>0, <1>1, <2>1, Creates
  <2>3. ret' \in Elem \cup BOOLEAN
    BY <2>2
  <2>4. 1..size' = {}
    BY <2>2
  <2> QED BY <2>2, <2>3, <2>4 DEF Fifo
<1>2. ASSUME NEW e \in Elem, Push(e) PROVE Fifo'
  <2>1. alive /\ alive'
    BY <1>2 DEF Push, PushLeft, PushShifting, PushNewBlock, PushNoMemory
  <2>2. Typed' /\ Live' /\ (Appended(e) \/ Refused)
    BY <1>0, <1>2, <2>1, Pushes
  <2>3. \A k \in 1..size : Queued(k) \in Elem
    BY <2>1 DEF Fifo
  <2>4. ret' \in Elem \cup BOOLEAN
    BY <2>2 DEF Appended, Refused
  <2>5. \A k \in 1..size' : Queued(k)' \in Elem
    <3>1. CASE Appended(e)
      <4>1. size' = size + 1 /\ \A k \in 1..size + 1 : k # size + 1 => k \in 1..size
        BY <1>0, <3>1 DEF Appended
      <4>2. \A k \in 1..size + 1 : Queued(k)' = IF k = size + 1 THEN e ELSE Queued(k)
        BY <3>1 DEF Appended
      <4> QED BY <2>3, <4>1, <4>2
    <3>2. CASE Refused
      BY <2>3, <3>2 DEF Refused
    <3> QED BY <2>2, <3>1, <3>2
  <2> QED BY <2>1, <2>2, <2>4, <2>5 DEF Fifo
<1>3. CASE Pop
  <2>1. alive /\ alive'
    BY <1>3 DEF Pop
  <2>2. Typed' /\ Live' /\ Popped
    BY <1>0, <1>3, <2>1, Pops
  <2>3. (\A k \in 1..size' : Queued(k)' \in Elem) /\ ret' \in Elem
    BY <1>0, <2>1, <2>2 DEF Fifo, Popped
  <2> QED BY <2>1, <2>2, <2>3 DEF Fifo
<1>4. CASE PopEmpty \/ UNCHANGED vars
  <2>1. UNCHANGED <<alive, heap, cell, vec, capacity, nBlocks, size, offset>>
        /\ ret' \in Elem \cup BOOLEAN
    BY <1>4 DEF PopEmpty, vars, layout, Fifo
  <2> QED BY <2>1 DEF Fifo, Typed, Live, Dead, Cells, Queued, Value, Slot
<1>5. CASE Destroy
  BY <1>0, <1>5, Destroys DEF Fifo, Destroy
<1> QED BY <1>1, <1>2, <1>3, <1>4, <1>5 DEF Next

\* The types, among them that a pop hands out an element and never a cell
\* that was not written.
THEOREM TypeCorrect == ASSUME ShiftPercent > 0 PROVE Spec => []TypeOK
<1>1. Fifo => TypeOK
  <2> SUFFICES ASSUME Fifo PROVE TypeOK
    OBVIOUS
  <2>1. alive \in BOOLEAN /\ Typed /\ ret \in Elem \cup BOOLEAN
    BY DEF Fifo, Typed
  <2>2. capacity \in Nat /\ vec \in [0..capacity - 1 -> Block \cup {NULL}] /\ nBlocks \in 0..capacity
    <3>1. CASE alive
      BY <3>1 DEF Fifo, Live, GoodVec
    <3>2. CASE ~alive
      BY <3>2 DEF Fifo, Dead
    <3> QED BY <3>1, <3>2
  <2> QED BY <2>1, <2>2 DEF Typed, Content, TypeOK
<1> QED BY <1>1, InitFifo, NextFifo, PTL DEF Spec

\* No block is lost, by a rotation or a failed push, and none is in two slots.
THEOREM BlocksOwned == ASSUME ShiftPercent > 0 PROVE Spec => []OwnsBlocks
<1>1. Fifo => OwnsBlocks
  BY DEF Fifo, Live, Dead, GoodVec, OwnsBlocks
<1> QED BY <1>1, InitFifo, NextFifo, PTL DEF Spec

\* The pop may look for the oldest element in the last block.
THEOREM FrontIsInLastBlock == ASSUME ShiftPercent > 0 PROVE Spec => []FrontInLastBlock
<1>1. Fifo => FrontInLastBlock
  <2> SUFFICES ASSUME Fifo, alive, size > 0 PROVE Cells - (offset + size) \in 0..BlockSize - 1
    BY DEF FrontInLastBlock
  <2>1. Typed /\ Live
    BY DEF Fifo
  <2> QED BY <2>1, QueuedPosition DEF Live
<1> QED BY <1>1, InitFifo, NextFifo, PTL DEF Spec

-----------------------------------------------------------------------------
(***************************************************************************)
(* The deque implements the queue.                                         *)
(***************************************************************************)
LEMMA SeqEqual ==
  ASSUME NEW s \in Seq(Elem), NEW t \in Seq(Elem), Len(s) = Len(t),
         \A i \in 1..Len(s) : s[i] = t[i]
  PROVE  s = t
OBVIOUS

LEMMA ContentsAlive ==
  Fifo /\ alive => /\ Contents = [k \in 1..size |-> Queued(k)] /\ Contents \in Seq(Elem)
                   /\ Len(Contents) = size
<1> SUFFICES ASSUME Fifo, alive
             PROVE  /\ Contents = [k \in 1..size |-> Queued(k)] /\ Contents \in Seq(Elem)
                    /\ Len(Contents) = size
  OBVIOUS
<1>0. Typed /\ Live /\ size \in Nat /\ \A k \in 1..size : Queued(k) \in Elem
  BY DEF Fifo, Typed
<1>1. ASSUME NEW k \in 1..size
      PROVE  Read(At(vec, capacity - nBlocks + ((offset + size - k) \div BlockSize),
                     (offset + size - k) % BlockSize)) = Queued(k)
  <2> DEFINE p == offset + size - k
  <2>1. p \in Nat /\ p < nBlocks * BlockSize
    BY <1>0, QueuedPosition
  <2>2. Queued(k) = Value(cell, vec, capacity, nBlocks, p)
    BY DEF Queued
  <2> HIDE DEF p
  <2>3. Read(At(vec, Slot(capacity, nBlocks, p), p % BlockSize)) = Value(cell, vec, capacity, nBlocks, p)
    BY <1>0, <2>1, Reads DEF Live
  <2> QED BY <2>2, <2>3 DEF Slot, p
<1>2. Contents = [k \in 1..size |-> Queued(k)]
  BY <1>1 DEF Contents
<1> QED BY <1>0, <1>2

LEMMA ContentsDead == ~alive => Contents = <<>>
BY DEF Contents

\* What each call does to the contents.
LEMMA ContentsStep ==
  ASSUME ShiftPercent > 0, Fifo, Next
  PROVE  Abstract!Next
<1>0. /\ (alive => Typed /\ Live) /\ (~alive => Typed /\ Dead) /\ size \in Nat
      /\ alive => /\ Contents = [k \in 1..size |-> Queued(k)] /\ Contents \in Seq(Elem)
                  /\ Len(Contents) = size
      /\ ~alive => Contents = <<>>
  BY ContentsAlive, ContentsDead DEF Fifo, Typed
<1>p. /\ Fifo'
      /\ alive' => /\ Contents' = [k \in 1..size' |-> Queued(k)'] /\ Contents' \in Seq(Elem)
                   /\ Len(Contents') = size'
      /\ ~alive' => Contents' = <<>>
  <2>1. Fifo'
    BY NextFifo
  <2>2. (Fifo /\ alive => /\ Contents = [k \in 1..size |-> Queued(k)] /\ Contents \in Seq(Elem)
                          /\ Len(Contents) = size)'
    BY ContentsAlive, PTL
  <2>3. (~alive => Contents = <<>>)'
    BY ContentsDead, PTL
  <2> QED BY <2>1, <2>2, <2>3
<1> USE DEF Abstract!Next
<1>1. CASE Create
  <2>1. ~alive
    BY <1>1 DEF Create
  <2>2. /\ size' = 0
        /\ \/ alive' = TRUE /\ ret' = TRUE
           \/ alive' = FALSE /\ ret' = FALSE
    BY <1>0, <1>1, <2>1, Creates
  <2>3. Contents' = <<>>
    BY <1>p, <2>2
  <2>4. Abstract!Create
    BY <1>0, <2>1, <2>2, <2>3 DEF Abstract!Create
  <2> QED BY <2>4
<1>2. ASSUME NEW e \in Elem, Push(e) PROVE Abstract!Next
  <2>1. alive /\ alive' /\ UNCHANGED alive /\ (Appended(e) \/ Refused)
    BY <1>0, <1>2, Pushes DEF Push, PushLeft, PushShifting, PushNewBlock, PushNoMemory
  <2>2. CASE Appended(e)
    <3>1. size' = size + 1 /\ \A k \in 1..size + 1 : Queued(k)' = IF k = size + 1 THEN e ELSE Queued(k)
      BY <2>2 DEF Appended
    <3>2. Contents' = Append(Contents, e)
      BY <1>0, <1>p, <2>1, <3>1, SeqEqual
    <3>3. Abstract!Push(e)
      BY <2>1, <2>2, <3>2 DEF Abstract!Push, Appended
    <3> QED BY <3>3
  <2>3. CASE Refused
    <3>1. ret' = FALSE /\ size = Cells /\ size' = size /\ \A k \in 1..size : Queued(k)' = Queued(k)
      BY <2>3 DEF Refused
    <3>2. Contents' = Contents
      BY <1>0, <1>p, <2>1, <3>1
    <3>3. Len(Contents) % BlockSize = 0 /\ Contents # <<>>
      <4>1. /\ Cells = nBlocks * BlockSize /\ BlockSize \in Nat \ {0} /\ nBlocks \in Nat \ {0}
        BY <1>0, <2>1, QueuedPosition
      <4>2. nBlocks * BlockSize = BlockSize * nBlocks /\ nBlocks * BlockSize > 0
        BY <4>1
      <4>3. (BlockSize * nBlocks) % BlockSize = 0
        BY <4>1, MultipleRemainder
      <4>4. Len(Contents) = BlockSize * nBlocks /\ Len(Contents) > 0
        BY <1>0, <2>1, <3>1, <4>1, <4>2
      <4>5. Contents # <<>>
        BY <1>0, <2>1, <4>4
      <4> QED BY <4>3, <4>4, <4>5
    <3>4. Abstract!Refuse
      BY <2>1, <3>1, <3>2, <3>3 DEF Abstract!Refuse
    <3> QED BY <3>4
  <2> QED BY <2>1, <2>2, <2>3
<1>3. CASE Pop
  <2>1. alive /\ alive' /\ UNCHANGED alive /\ Popped
    BY <1>0, <1>3, Pops DEF Pop
  <2>2. size > 0 /\ ret' = Queued(1) /\ size' = size - 1 /\ \A k \in 1..size - 1 : Queued(k)' = Queued(k + 1)
    BY <2>1 DEF Popped
  <2>3. Contents # <<>> /\ Head(Contents) = Queued(1)
    BY <1>0, <2>1, <2>2
  <2>4. Contents' = Tail(Contents)
    BY <1>0, <1>p, <2>1, <2>2, SeqEqual
  <2>5. Abstract!Pop
    BY <2>1, <2>2, <2>3, <2>4 DEF Abstract!Pop
  <2> QED BY <2>5
<1>4. CASE PopEmpty
  <2>1. alive /\ size = 0 /\ ret' = FALSE /\ UNCHANGED <<alive, size>>
    BY <1>4 DEF PopEmpty
  <2>2. Contents = <<>> /\ Contents' = <<>>
    BY <1>0, <1>p, <2>1
  <2>3. Abstract!PopEmpty
    BY <2>1, <2>2 DEF Abstract!PopEmpty
  <2> QED BY <2>3
<1>5. CASE Destroy
  <2>1. alive /\ alive' = FALSE /\ UNCHANGED ret
    BY <1>5 DEF Destroy
  <2>2. Contents' = <<>>
    BY <1>p, <2>1
  <2>3. Abstract!Destroy
    BY <2>1, <2>2 DEF Abstract!Destroy
  <2> QED BY <2>3
<1> QED BY <1>1, <1>2, <1>3, <1>4, <1>5 DEF Next

\* Growing the vector, shifting the elements and rotating the blocks cannot be
\* seen: the deque is first in, first out, and a push fails on full blocks only.
THEOREM FifoIsQueue == ASSUME ShiftPercent > 0 PROVE Spec => ImplementsQueue
<1>1. Init => Abstract!Init
  BY ContentsDead DEF Init, Abstract!Init
<1>2. Fifo /\ [Next]_vars => [Abstract!Next]_(Abstract!vars)
  <2>1. ASSUME UNCHANGED vars PROVE UNCHANGED Abstract!vars
    BY <2>1 DEF vars, layout, Abstract!vars, Contents, Read, At
  <2> QED BY <2>1, ContentsStep
<1> QED BY <1>1, <1>2, InitFifo, NextFifo, PTL DEF Spec, ImplementsQueue, Abstract!Spec
=============================================================================
