---------------------------- MODULE MCC2Channel ----------------------------
(* Instances of C2Channel for TLC.                                         *)
EXTENDS C2Channel, TLC

Symmetry == Permutations(Device) \cup Permutations(Operator)
=============================================================================
