------------------------------ MODULE MCKeyStore ----------------------------
(* Instances of KeyStore. *)
EXTENDS KeyStore, TLC

Symmetry == Permutations(Process)
=============================================================================
