-------------------------- MODULE MCUploadPipeline --------------------------
(* The pipeline on instances that TLC can exhaust.                         *)
EXTENDS UploadPipeline, TLC

Symmetry ==
    Permutations(Node) \cup Permutations(CryptoWorker)
        \cup Permutations(UploadWorker)
=============================================================================
