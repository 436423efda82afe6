------------------------------ MODULE MCLogin ------------------------------
(* Login.tla on small sets, for TLC.                                       *)
EXTENDS Login, TLC

Symmetry == Permutations(Clients)
=============================================================================
