--------------------------- MODULE MCInstanceBuild ---------------------------
(* Instances of InstanceBuild for TLC.                                      *)
EXTENDS InstanceBuild, TLC

Symmetry == Permutations(Instances) \cup Permutations(Hosts)

==============================================================================
