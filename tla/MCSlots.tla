------------------------------- MODULE MCSlots --------------------------------
(* Small instances of Slots. *)
EXTENDS Slots
CONSTANTS h1, h2

MCHandles == {h1, h2} \cup Cells
Symmetry ==
    Permutations({h1, h2}) \cup Permutations(Invokers) \cup Permutations(Slots)
        \cup Permutations(Trackables)
=============================================================================
