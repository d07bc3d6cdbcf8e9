----------------------------- MODULE BufferFifo -----------------------------
(***************************************************************************)
(* The FIFO of full buffers (mtdp_buffer_fifo, heap-allocated variant): a  *)
(* deque of blocks of BlockSize cells.  The vector of block pointers is    *)
(* used from its right end: its last nBlocks slots are the blocks, which   *)
(* concatenated are one array of cells.  The elements are contiguous in    *)
(* it, the newest at `offset', the oldest at offset + size - 1; the cells  *)
(* on the left are free for pushes, those on the right were popped.        *)
(***************************************************************************)
EXTENDS Integers, FiniteSets, FiniteSetsExt

CONSTANTS
  Elem,            \* the buffer pointers that are pushed
  NULL,            \* a cell or a slot never written
  BlockSize,       \* MTDP_BUFFER_FIFO_BLOCK_SIZE
  ShiftPercent,    \* MTDP_BUFFER_FIFO_SHIFT_FILLING_RATIO, in percent
  MaxBlocks        \* bound: blocks the heap can provide

ASSUME NullAssumption  == NULL \notin Elem
ASSUME BlockAssumption == BlockSize \in Nat \ {0} /\ MaxBlocks \in Nat \ {0}
ASSUME RatioAssumption == ShiftPercent \in 0..100

Block == 1..MaxBlocks
Index == 0..BlockSize - 1

VARIABLES
  alive,      \* between a successful init and the destroy
  heap,       \* the blocks allocated and not freed
  cell,       \* cell[b][i]: the content of block b
  vec,        \* blocks.blocks, a function on 0..capacity - 1
  capacity,   \* blocks.capacity
  nBlocks,    \* blocks.size
  size,       \* number of elements
  offset,     \* first_element_offset
  ret         \* result of the last call: a popped element, TRUE or FALSE

layout == <<vec, capacity, nBlocks>>
vars   == <<alive, heap, cell, layout, size, offset, ret>>

Init ==
  /\ alive = FALSE
  /\ heap = {}
  /\ cell = [b \in Block |-> [i \in Index |-> NULL]]
  /\ vec = <<>> /\ capacity = 0 /\ nBlocks = 0
  /\ size = 0 /\ offset = 0
  /\ ret = FALSE

\* The block the heap hands out next: any free one would do.
Fresh == Min(Block \ heap)

\* mtdp_buffer_fifo_init: a vector of one slot and its block, or nothing.
Create ==
  /\ ~alive
  /\ \/ /\ heap # Block
        /\ heap' = heap \cup {Fresh}
        /\ vec' = [s \in {0} |-> Fresh]
        /\ capacity' = 1 /\ nBlocks' = 1
        /\ size' = 0 /\ offset' = BlockSize
        /\ alive' = TRUE /\ ret' = TRUE
     \/ /\ size' = 0
        /\ ret' = FALSE
        /\ UNCHANGED <<alive, heap, layout, offset>>
  /\ UNCHANGED cell

-----------------------------------------------------------------------------
(* Positions. *)

Cells == nBlocks * BlockSize

\* A location is a block and an index in it; outside of the vector, none.
At(v, slot, i) == IF slot \in DOMAIN v THEN <<v[slot], i>> ELSE <<NULL, i>>
Read(loc)      == IF loc[1] \in Block /\ loc[2] \in Index THEN cell[loc[1]][loc[2]] ELSE NULL
Write(c, loc, e) ==
  [b \in Block |-> [i \in Index |-> IF loc = <<b, i>> THEN e ELSE c[b][i]]]

\* The location at distance d from the right end of the vector v.
FromRight(v, d) ==
  At(v, Cardinality(DOMAIN v) - 1 - d \div BlockSize, BlockSize - 1 - (d % BlockSize))

-----------------------------------------------------------------------------
(* mtdp_buffer_fifo_push_back. *)

\* 2^ceil(log2(n)): the least power of two that is not below n.
PowerOfTwo(n) == \A d \in 2..n : n % d = 0 => d % 2 = 0
CeilPower(n)  == Min({m \in n..2 * n : PowerOfTwo(m)})

\* The vector after a successful realloc to cap slots: the pointers are
\* copied to the right end, and their old copies stay at the left end.
Grown(cap) ==
  [s \in 0..cap - 1 |-> IF s >= cap - nBlocks      THEN vec[s - cap + capacity]
                        ELSE IF s < capacity       THEN vec[s]
                        ELSE NULL]

\* Mutant: a full vector is not grown.
Reserve_NeverFull == [ok : {TRUE}, vec : {vec}, cap : {capacity}]

\* The outcomes of mtdp_buffer_fifo_try_reserve_a_block: a free slot in the
\* vector, growing it if it is full, or no memory.
Reserve ==
  LET full == capacity = nBlocks
      cap  == 2 * CeilPower(capacity)
  IN  [ok : {TRUE}, vec : {IF full THEN Grown(cap) ELSE vec},
                    cap : {IF full THEN cap ELSE capacity}]
      \cup [ok : IF full THEN {FALSE} ELSE {}, vec : {vec}, cap : {capacity}]

\* Mutant: the distance of the shift is one short.
RightShifted_OneShort(v) ==
  LET delta == Cells - (offset + size) - 1
      dest  == [d \in 0..size - 1 |-> FromRight(v, d)]
  IN  [b \in Block |-> [i \in Index |->
         IF \E d \in 0..size - 1 : dest[d] = <<b, i>>
           THEN Read(FromRight(v, (CHOOSE d \in 0..size - 1 : dest[d] = <<b, i>>) + delta))
           ELSE cell[b][i]]]

\* mtdp_buffer_fifo_rightshift_elements: the elements move to the right end.
\* Each is read before the loop overwrites it, so all move at once.
RightShifted(v) ==
  LET delta == Cells - (offset + size)
      dest  == [d \in 0..size - 1 |-> FromRight(v, d)]
  IN  [b \in Block |-> [i \in Index |->
         IF \E d \in 0..size - 1 : dest[d] = <<b, i>>
           THEN Read(FromRight(v, (CHOOSE d \in 0..size - 1 : dest[d] = <<b, i>>) + delta))
           ELSE cell[b][i]]]

\* The element goes to the left of offset off.  cap is the `capacity' the
\* function has in its local variable.
PlaceAt(c, v, cap, n, off, e) ==
  /\ cell' = Write(c, At(v, cap - n + (off - 1) \div BlockSize, (off - 1) % BlockSize), e)
  /\ offset' = off - 1
  /\ size' = size + 1
  /\ ret' = TRUE

\* There is free space on the left.
PushLeft(e) ==
  /\ alive /\ offset # 0
  /\ PlaceAt(cell, vec, capacity, nBlocks, offset, e)
  /\ UNCHANGED <<alive, heap, layout>>

\* The filling ratio asks for one more block.
WantsBlock == offset = 0 /\ size * 100 >= Cells * ShiftPercent

\* The last resort, and the first choice below the filling ratio: shift if
\* that makes room, else the push fails.  The local `capacity' is the one the
\* function started with, even if the vector v was reallocated since.
ShiftOrRefuse(v, e) ==
  IF size # Cells
    THEN PlaceAt(RightShifted(v), v, capacity, nBlocks, Cells - size, e)
    ELSE ret' = FALSE /\ UNCHANGED <<cell, size, offset>>

PushShifting(e) ==
  /\ alive /\ offset = 0 /\ ~WantsBlock
  /\ ShiftOrRefuse(vec, e)
  /\ UNCHANGED <<alive, heap, layout>>

\* A block was reserved and allocated: it becomes the leftmost one.
PushNewBlock(e) ==
  /\ alive /\ WantsBlock
  /\ \E r \in Reserve :
       /\ r.ok /\ heap # Block
       /\ heap' = heap \cup {Fresh}
       /\ nBlocks' = nBlocks + 1
       /\ capacity' = r.cap
       /\ vec' = [r.vec EXCEPT ![r.cap - nBlocks - 1] = Fresh]
       /\ PlaceAt(cell, vec', r.cap, nBlocks + 1, BlockSize, e)
  /\ UNCHANGED alive

\* No memory for the vector or, the vector possibly grown, for the block.
PushNoMemory(e) ==
  /\ alive /\ WantsBlock
  /\ \E r \in Reserve :
       /\ vec' = r.vec /\ capacity' = r.cap
       /\ ShiftOrRefuse(r.vec, e)
  /\ UNCHANGED <<alive, heap, nBlocks>>

Push(e) == PushLeft(e) \/ PushShifting(e) \/ PushNewBlock(e) \/ PushNoMemory(e)

-----------------------------------------------------------------------------
(* mtdp_buffer_fifo_pop_front. *)

\* Mutant: the emptied block is overwritten and not put back.
Rotated_Forgets(k) ==
  [s \in DOMAIN vec |-> IF s \in capacity - k..capacity - 1 THEN vec[s - 1] ELSE vec[s]]

\* The last block, just emptied, moves to the left of the k blocks that hold
\* the elements left in the FIFO.
Rotated(k) ==
  [s \in DOMAIN vec |-> IF s = capacity - 1 - k                    THEN vec[capacity - 1]
                        ELSE IF s \in capacity - k..capacity - 1   THEN vec[s - 1]
                        ELSE vec[s]]

\* Mutant: an emptied block stays at the right end.
Pop_NoRotation ==
  /\ alive /\ size > 0
  /\ ret' = Read(At(vec, capacity - 1, BlockSize - (Cells - (size + offset)) - 1))
  /\ size' = size - 1
  /\ UNCHANGED <<alive, heap, cell, layout, offset>>

Pop ==
  /\ alive /\ size > 0
  /\ LET front == Cells - (size + offset)
     IN  /\ ret' = Read(At(vec, capacity - 1, BlockSize - front - 1))
         /\ size' = size - 1
         /\ IF front = BlockSize - 1 /\ nBlocks # 1
              THEN /\ vec' = Rotated(((offset % BlockSize) + size') \div BlockSize)
                   /\ offset' = offset + BlockSize
              ELSE UNCHANGED <<vec, offset>>
  /\ UNCHANGED <<alive, heap, cell, capacity, nBlocks>>

PopEmpty ==
  /\ alive /\ size = 0
  /\ ret' = FALSE
  /\ UNCHANGED <<alive, heap, cell, layout, size, offset>>

\* mtdp_buffer_fifo_destroy frees the blocks of the last nBlocks slots; what
\* they held is lost.
Destroy ==
  /\ alive /\ alive' = FALSE
  /\ heap' = heap \ {vec[s] : s \in capacity - nBlocks..capacity - 1}
  /\ cell' = [b \in Block |-> IF b \in heap' THEN cell[b] ELSE [i \in Index |-> NULL]]
  /\ nBlocks' = 0 /\ capacity' = 0 /\ vec' = <<>>
  /\ UNCHANGED <<size, offset, ret>>

Next == Create \/ (\E e \in Elem : Push(e)) \/ Pop \/ PopEmpty \/ Destroy

Spec == Init /\ [][Next]_vars

-----------------------------------------------------------------------------
TypeOK ==
  /\ alive \in BOOLEAN
  /\ heap \subseteq Block
  /\ cell \in [Block -> [Index -> Elem \cup {NULL}]]
  /\ capacity \in Nat /\ vec \in [0..capacity - 1 -> Block \cup {NULL}]
  /\ nBlocks \in 0..capacity
  /\ size \in Nat /\ offset \in Nat
  /\ ret \in Elem \cup BOOLEAN

\* Every block the FIFO allocated is reachable from exactly one of its last
\* nBlocks slots, so that the destroy frees each of them once.
OwnsBlocks ==
  LET slots == capacity - nBlocks..capacity - 1
  IN  /\ {vec[s] : s \in slots} = heap
      /\ \A s, t \in slots : vec[s] = vec[t] => s = t

\* The next element to pop is in the last block: its right neighbours in the
\* array are fewer than a block, whatever shifts and rotations came before.
FrontInLastBlock ==
  alive /\ size > 0 => Cells - (offset + size) \in 0..BlockSize - 1

\* The elements, oldest first.
Contents ==
  [k \in 1..(IF alive THEN size ELSE 0) |->
     LET p == offset + size - k
     IN  Read(At(vec, capacity - nBlocks + p \div BlockSize, p % BlockSize))]

\* The block deque is a queue that refuses a push only when it is full and
\* has no memory; growing, shifting and rotating blocks cannot be seen.
Abstract == INSTANCE Queue WITH queue <- Contents
ImplementsQueue == Abstract!Spec
=============================================================================
