----------------------------- MODULE MCPlacement ----------------------------
(* The default erasure code, 3 of 5, for a file of one block. *)
EXTENDS Placement, TLC

Symmetry == Permutations(Worker)
=============================================================================
