---------------------------- MODULE MCDatastream ----------------------------
(* The example programs for TLC: their callbacks. *)
EXTENDS Datastream

\* ready_to_push, and mtdp_source_finished or not; no push once the bound
\* on the items is reached.
PayloadSourceActs == {[push |-> TRUE,  finish |-> FALSE],
                      [push |-> TRUE,  finish |-> TRUE],
                      [push |-> FALSE, finish |-> FALSE]}
PayloadStageActs == {[push |-> TRUE, pull |-> TRUE]}
PayloadSinkActs  == {TRUE}
=============================================================================
