--------------------------- MODULE MCProvisioning ---------------------------
(* TLC instances of Provisioning: see the cfg files.                         *)
EXTENDS Provisioning, TLC

Symmetry == Permutations(Instances) \cup Permutations(Creators)
=============================================================================
