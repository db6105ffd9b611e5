----------------------------- MODULE MCDevices -----------------------------
(* Instances of Devices for TLC. *)
EXTENDS Devices, TLC

CONSTANTS d1, d2, a1, a2, k1, q1, q2, p1, o1

Symmetry == Permutations(Device) \cup Permutations(Code) \cup Permutations(Redeemer)
=============================================================================
