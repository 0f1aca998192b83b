--------------------------- MODULE MCPageConnection ---------------------------
(* TLC instances of PageConnection: see the cfg files.                       *)
EXTENDS PageConnection, TLC

Symmetry ==
    Permutations(Recs) \cup Permutations(Conns) \cup Permutations(Calls)
        \cup Permutations(Targets) \cup Permutations(Files)
=============================================================================
