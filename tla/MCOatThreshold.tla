---------------------------- MODULE MCOatThreshold ----------------------------
(* An instance of OatThreshold for TLC: property 4 is left to the white     *)
(* list of the host.                                                        *)
EXTENDS OatThreshold

CONSTANTS h1, k1, k2
==============================================================================
