------------------------------ MODULE MCGrpcPool ----------------------------
(* Instances of GrpcPool. *)
EXTENDS GrpcPool, TLC

Symmetry == Permutations(Caller) \cup Permutations(Conn)
=============================================================================
