-------------------------- MODULE MCFileLifecycle --------------------------
(* Small instances of the life of a file.                                  *)
EXTENDS FileLifecycle, TLC

Symmetry == Permutations(Node) \cup Permutations(Chunk)
=============================================================================
