---------------------------- MODULE MCInstances ----------------------------
(* Instances for TLC: a byte that was written or not; uint32_t has 2 bits. *)
EXTENDS Instances

MCCells == {0, 1}
===========================================================================
