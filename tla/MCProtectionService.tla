------------------------- MODULE MCProtectionService -------------------------
(* Instances of ProtectionService for TLC: property 1 has no monitor,       *)
(* property 5 has one.                                                      *)
EXTENDS ProtectionService, TLC

CONSTANTS w1, w2, c1, c2, c3

MCSymmetry == Permutations({w1, w2}) \cup Permutations({c1, c2, c3})
==============================================================================
