------------------------------ MODULE MCHandles ------------------------------
(* Small instances of Handles. *)
EXTENDS Handles, TLC

Symmetry ==
    Permutations(Bodies) \cup Permutations(Plain) \cup Permutations(Scoped)
    \cup Permutations(Blocks) \cup Permutations(Blockers)
=============================================================================
