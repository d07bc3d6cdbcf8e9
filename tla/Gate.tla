-------------------------------- MODULE Gate --------------------------------
(***************************************************************************)
(* The gate in front of a worker's routine: the thread waits until it is   *)
(* on or destroyed, and passes into its routine, or out of its loop, in    *)
(* one step.  This is the worker Pipeline uses, where `on' is wEnabled and *)
(* the steps below are its EnableWorker, DisableWorker, Gate and so on.    *)
(*                                                                         *)
(* The one freedom of the code is kept here: a disable may come too late   *)
(* for a thread at the gate, and then has its effect with its next pass.   *)
(* In Pipeline that is a pass just before the disable: the thread does     *)
(* nothing else in between.                                                *)
(***************************************************************************)
VARIABLES
  enabled,     \* what the last enable or disable asked for
  on,          \* whether it has had its effect
  destroyed,
  at           \* where the thread is

vars == <<enabled, on, destroyed, at>>

Init == enabled = FALSE /\ on = FALSE /\ destroyed = FALSE /\ at = "none"

Create == at = "none" /\ at' = "gate" /\ UNCHANGED <<enabled, on, destroyed>>

Enable == enabled' = TRUE /\ on' = TRUE /\ UNCHANGED <<destroyed, at>>

Disable ==
  /\ enabled' = FALSE
  /\ on' = FALSE \/ (at = "gate" /\ on' = on)
  /\ UNCHANGED <<destroyed, at>>

Destroy == destroyed' = TRUE /\ on' = enabled /\ UNCHANGED <<enabled, at>>

Pass ==
  /\ at = "gate"
  /\ on \/ destroyed
  /\ at' = IF destroyed THEN "exited" ELSE "run"
  /\ on' = enabled
  /\ UNCHANGED <<enabled, destroyed>>

Return == at = "run" /\ at' = "gate" /\ UNCHANGED <<enabled, on, destroyed>>

Next == Create \/ Enable \/ Disable \/ Destroy \/ Pass \/ Return

Spec == Init /\ [][Next]_vars
=============================================================================
