------------------------------- MODULE Stream -------------------------------
(***************************************************************************)
(* What a pipeline promises of its data stream: items are numbered in the  *)
(* order the source hands them over, every item that is not discarded is   *)
(* delivered to the sink exactly once and in that order, and only a        *)
(* disabled pipeline discards, then everything in flight.                  *)
(***************************************************************************)
EXTENDS Naturals, Sequences

VARIABLES
  produced,   \* items handed over so far
  flight,     \* items in flight, oldest first
  consumed,   \* the last item delivered to the sink
  closing     \* the pipeline is being disabled

vars == <<produced, flight, consumed, closing>>

Init == produced = 0 /\ flight = <<>> /\ consumed = 0 /\ closing = FALSE

Produce ==
  /\ produced' = produced + 1
  /\ flight' = Append(flight, produced')
  /\ UNCHANGED <<consumed, closing>>

Deliver ==
  /\ flight # <<>>
  /\ consumed' = Head(flight)
  /\ flight' = Tail(flight)
  /\ UNCHANGED <<produced, closing>>

Close ==
  /\ ~closing /\ closing' = TRUE
  /\ UNCHANGED <<produced, flight, consumed>>

Discard ==
  /\ closing /\ closing' = FALSE
  /\ flight' = <<>>
  /\ UNCHANGED <<produced, consumed>>

Next == Produce \/ Deliver \/ Close \/ Discard

Spec == Init /\ [][Next]_vars
=============================================================================
