---------------------------- MODULE PipeBuffers ----------------------------
(***************************************************************************)
(* How many buffers a pipe has, and where: mtdp_pipe_resize and the        *)
(* heap-allocated buffer pool underneath, with the operations that move    *)
(* buffers between the pool, the FIFO, the producer and the consumer.      *)
(* Sizes are unsigned: they wrap at SizeLimit.                             *)
(***************************************************************************)
EXTENDS Integers

CONSTANTS
  SizeLimit,       \* 2^(bits of size_t)
  MinAllocCap,     \* MIN_ALLOC_CAP of the pool
  MaxBuffers,      \* bound: the user asks for 1 to MaxBuffers buffers
  Shrinks,         \* whether the user asks for fewer buffers than there are
  ResizesPaused,   \* whether the user resizes a stopped pipeline too
  MemoryFails      \* whether realloc may fail

ASSUME LimitAssumption == /\ SizeLimit \in Nat /\ MinAllocCap \in Nat
                          /\ MaxBuffers \in Nat /\ MaxBuffers < SizeLimit \div 2
ASSUME UseAssumption   == /\ Shrinks \in BOOLEAN
                          /\ ResizesPaused \in BOOLEAN
                          /\ MemoryFails \in BOOLEAN

VARIABLES
  psize,      \* pool.size
  capacity,   \* pool.capacity
  fsize,      \* fifo.size
  out, in,    \* 1 while the producer, the consumer, holds a buffer
  total,      \* total_buffers
  mode,       \* state of the pipeline the pipe belongs to
  granted     \* what the last successful resize was asked for

held == <<out, in>>
user == <<total, mode, granted>>
vars == <<psize, capacity, fsize, held, user>>

Mode == {"new", "disabled", "active", "stopped", "clearing"}

\* mtdp_pipe_init; total_buffers is not initialised.
Init ==
  /\ psize = 0 /\ capacity = 0 /\ fsize = 0
  /\ out = 0 /\ in = 0
  /\ total \in 0..MaxBuffers
  /\ mode = "new" /\ granted = 0

Outcomes == IF MemoryFails THEN {TRUE, FALSE} ELSE {TRUE}

\* A size cast to ptrdiff_t or signed long.
Signed(n) == IF n < SizeLimit \div 2 THEN n ELSE n - SizeLimit

-----------------------------------------------------------------------------
(* The pool. *)

\* Whether a resize of the pool to n buffers needs a realloc.
Grows(n) == Signed(n) > Signed(capacity)

\* Mutant: the new capacity is not recorded.
PoolResize_OldCapacity(n, ok) ==
  /\ psize' = IF Grows(n) /\ ~ok THEN psize
                                 ELSE (psize + Signed(n) - Signed(capacity)) % SizeLimit
  /\ UNCHANGED capacity

\* mtdp_buffer_pool_resize: the size changes by the difference between n and
\* the capacity.  It fails only if it must grow and the realloc fails.
PoolResize(n, ok) ==
  IF Grows(n) /\ ~ok
    THEN UNCHANGED <<psize, capacity>>
    ELSE /\ psize' = (psize + Signed(n) - Signed(capacity)) % SizeLimit
         /\ capacity' = IF Grows(n) THEN n ELSE capacity

\* The capacity mtdp_buffer_pool_preventive_realloc asks for: the next power
\* of two, and at least MinAllocCap.
NextCapacity(n) ==
  LET enough == {c \in {2^k : k \in 0..n} : c >= n}
      pow    == CHOOSE c \in enough : \A d \in enough : c <= d
  IN  IF pow > MinAllocCap THEN pow ELSE MinAllocCap

\* mtdp_buffer_pool_push_back on a pool found with s buffers.
PoolPushFrom(s) ==
  IF (capacity - s) % SizeLimit >= 1
    THEN psize' = (s + 1) % SizeLimit /\ UNCHANGED capacity
    ELSE \E ok \in Outcomes :
           IF ok THEN psize' = (s + 1) % SizeLimit /\ capacity' = NextCapacity(s + 1)
                 ELSE UNCHANGED <<psize, capacity>>

PoolPush == PoolPushFrom(psize)

-----------------------------------------------------------------------------
(* mtdp_pipe_resize. *)

Count == (psize + fsize) % SizeLimit

\* By how much a resize to n buffers asks the pool to change.
Delta(n) == n - Signed(Count)

\* A pool with too few buffers to take away is left as it is.
Resizes(n) == Delta(n) > 0 \/ (Delta(n) < 0 /\ -Delta(n) <= psize)

\* A shrink pops the FIFO into a NULL pointer: with full buffers in it the
\* call has no defined outcome.
Undefined(n) == fsize > 0 /\ Resizes(n) /\ Delta(n) < 0

\* ok is the outcome of the realloc, if there is one.
Resize(n) ==
  /\ mode \in {"new", "disabled"} \/ (ResizesPaused /\ mode = "stopped")
  /\ n < granted => Shrinks
  /\ ~Undefined(n)
  /\ \E ok \in Outcomes :
       LET asked == (psize + Delta(n)) % SizeLimit
       IN  /\ IF Resizes(n) THEN PoolResize(asked, ok) ELSE UNCHANGED <<psize, capacity>>
           /\ granted' = IF Delta(n) > 0 /\ Grows(asked) /\ ~ok THEN granted ELSE n
  /\ total' = n
  /\ mode' = IF mode = "new" THEN "disabled" ELSE mode
  /\ UNCHANGED <<fsize, held>>

-----------------------------------------------------------------------------
(* The two threads of the pipe.  A stop lets them finish their routines.  *)

Running == mode \in {"active", "stopped"}

GetEmptyBuffer ==
  /\ Running /\ out = 0 /\ psize > 0
  /\ psize' = psize - 1 /\ out' = 1
  /\ UNCHANGED <<capacity, fsize, in, user>>

PushBuffer ==
  /\ Running /\ out = 1
  /\ fsize' = fsize + 1 /\ out' = 0
  /\ UNCHANGED <<psize, capacity, in, user>>

GetFullBuffer ==
  /\ Running /\ in = 0 /\ fsize > 0
  /\ fsize' = fsize - 1 /\ in' = 1
  /\ UNCHANGED <<psize, capacity, out, user>>

\* mtdp_pipe_put_back by the consumer; the callers ignore its result.
PutBack ==
  /\ Running /\ in = 1
  /\ PoolPush /\ in' = 0
  /\ UNCHANGED <<fsize, out, user>>

(* The pipeline around the pipe. *)

Start == mode \in {"disabled", "stopped"} /\ mode' = "active"
Stop  == mode = "active" /\ mode' = "stopped"
Close == mode \in {"active", "stopped"} /\ mode' = "clearing"
Cleared == mode = "clearing" /\ fsize + out + in = 0 /\ mode' = "disabled"

Control ==
  /\ Start \/ Stop \/ Close \/ Cleared
  /\ UNCHANGED <<psize, capacity, fsize, held, total, granted>>

\* Mutant: the FIFO is emptied, its buffers do not go back to the pool.
ClearFifo_Drops ==
  /\ mode = "clearing" /\ fsize > 0
  /\ fsize' = fsize - 1
  /\ UNCHANGED <<psize, capacity, held, user>>

\* mtdp_pipe_clear moves the full buffers to the pool ...
ClearFifo ==
  /\ mode = "clearing" /\ fsize > 0
  /\ PoolPush /\ fsize' = fsize - 1
  /\ UNCHANGED <<held, user>>

\* ... and mtdp_pipeline_clear returns the buffers that were held.
ClearHeld ==
  /\ mode = "clearing" /\ fsize = 0
  /\ \/ in = 1 /\ in' = 0 /\ UNCHANGED out
     \/ in = 0 /\ out = 1 /\ out' = 0 /\ UNCHANGED in
  /\ PoolPush
  /\ UNCHANGED <<fsize, user>>

Next ==
  \/ \E n \in 1..MaxBuffers : Resize(n)
  \/ GetEmptyBuffer \/ PushBuffer \/ GetFullBuffer \/ PutBack
  \/ Control \/ ClearFifo \/ ClearHeld

Spec == Init /\ [][Next]_vars

-----------------------------------------------------------------------------
TypeOK ==
  /\ psize \in 0..SizeLimit - 1 /\ capacity \in Nat /\ fsize \in Nat
  /\ out \in {0, 1} /\ in \in {0, 1}
  /\ total \in Nat /\ granted \in Nat
  /\ mode \in Mode

\* The buffers of the pipe are as many as the user was told there are:
\* mtdp_pipe_resize gives exactly what it was asked for, and no operation
\* loses or gains one.
Conserved == psize + fsize + out + in = granted

\* Every buffer fits into the pool as it is allocated, so that no put-back
\* and no clear ever needs memory.
PutBackFits == psize + fsize + out + in <= capacity

\* pipe.c, mtdp_pipe_check_invariants, asserted around every operation: it
\* fails after a resize that ran out of memory, and after a resize of a
\* stopped pipeline.
AssertHolds == mode # "new" => (total - Count) % SizeLimit \in 0..2
=============================================================================
