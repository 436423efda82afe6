----------------------------- MODULE MCDevices -----------------------------
(* Devices.tla on small sets, for TLC.                                     *)
EXTENDS Devices, TLC

RequestSymmetry == Permutations(Requests)
Symmetry == Permutations(Requests) \cup Permutations(Devices)
=============================================================================
