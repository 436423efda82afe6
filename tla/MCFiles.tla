------------------------------ MODULE MCFiles ------------------------------
(* Files.tla on small sets, for TLC.                                       *)
EXTENDS Files, TLC

Symmetry == Permutations(Uuids) \cup Permutations(Removals)
=============================================================================
