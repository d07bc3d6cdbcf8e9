-------------------------------- MODULE Queue --------------------------------
(***************************************************************************)
(* What a buffer FIFO promises to the pipe that uses it: first in, first   *)
(* out; a pop fails on an empty queue only; a push fails only when the     *)
(* elements fill whole blocks, and then the queue is as it was.            *)
(***************************************************************************)
EXTENDS Naturals, Sequences

CONSTANTS Elem, BlockSize

VARIABLES
  alive,   \* between a successful init and the destroy
  queue,   \* the elements, oldest first
  ret      \* result of the last call: a popped element, TRUE or FALSE

vars == <<alive, queue, ret>>

Init == alive = FALSE /\ queue = <<>> /\ ret = FALSE

Create ==
  /\ ~alive
  /\ alive' = ret'
  /\ ret' \in BOOLEAN
  /\ UNCHANGED queue

Push(e) == alive /\ queue' = Append(queue, e) /\ ret' = TRUE /\ UNCHANGED alive

Refuse ==
  /\ alive
  /\ queue # <<>> /\ Len(queue) % BlockSize = 0
  /\ ret' = FALSE
  /\ UNCHANGED <<alive, queue>>

Pop == alive /\ queue # <<>> /\ ret' = Head(queue) /\ queue' = Tail(queue) /\ UNCHANGED alive

PopEmpty == alive /\ queue = <<>> /\ ret' = FALSE /\ UNCHANGED <<alive, queue>>

Destroy == alive /\ alive' = FALSE /\ queue' = <<>> /\ UNCHANGED ret

Next == Create \/ (\E e \in Elem : Push(e)) \/ Refuse \/ Pop \/ PopEmpty \/ Destroy

Spec == Init /\ [][Next]_vars
=============================================================================
