---------------------------- MODULE MCRegister ----------------------------
(* Register.tla and Flood.tla on small sets, for TLC.                      *)
EXTENDS Register, TLC

Symmetry == Permutations(Requests) \cup Permutations(Keys)
=============================================================================
