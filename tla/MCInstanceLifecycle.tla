------------------------ MODULE MCInstanceLifecycle ------------------------
(* TLC instances of InstanceLifecycle: see the cfg files.                    *)
EXTENDS InstanceLifecycle, TLC

Symmetry == Permutations(Pids) \cup Permutations(Tasks)
=============================================================================
