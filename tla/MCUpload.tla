------------------------------ MODULE MCUpload ------------------------------
(* A file of two chunks on two nodes: each chunk can be acknowledged by    *)
(* one node after a lost answer of the other.                              *)
EXTENDS Upload, TLC

Symmetry == Permutations(Node) \cup Permutations(Chunk)
=============================================================================
