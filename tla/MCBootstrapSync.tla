-------------------------- MODULE MCBootstrapSync --------------------------
(* Two servers with one node or one file: nodes and manifests do not touch *)
(* one another in the synchronisation.                                     *)
EXTENDS BootstrapSync
=============================================================================
