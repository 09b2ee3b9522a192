--------------------------- MODULE MCOatAttestation ---------------------------
(* Instances of OatAttestation for TLC: property 1 is interpreted by        *)
(* validatePCRReport, property 4 is left to the white list.                 *)
EXTENDS OatRefinement, TLC

CONSTANTS h1, h2, k1, k2

MCSymmetry == Permutations({h1, h2}) \cup Permutations({k1, k2})
==============================================================================
