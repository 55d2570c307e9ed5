---------------------------- MODULE MCDestructors ----------------------------
(* Small instances of Destructors. *)
EXTENDS Destructors, TLC
CONSTANTS b1, b2, o1, o2

(* The slot of b1 tracks both objects, that of b2 one of them. *)
MCTracked == [b \in Bodies |-> IF b = b1 THEN <<o1, o2>> ELSE <<o1>>]
(* The slot of b2 is a signal, which it tracks. *)
MCWrapped == [b \in Bodies |-> IF b = b2 THEN o1 ELSE None]

Symmetry == Permutations(Threads)
=============================================================================
