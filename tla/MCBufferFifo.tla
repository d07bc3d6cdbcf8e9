---------------------------- MODULE MCBufferFifo ----------------------------
(* Instances of BufferFifo for TLC. *)
EXTENDS BufferFifo, TLC

Symmetry == Permutations(Elem)
=============================================================================
