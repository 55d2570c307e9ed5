------------------------------- MODULE MCSignal -------------------------------
(* Small instances of Signal. *)
EXTENDS Signal
CONSTANTS g, b1, b2, b3, o, f1, f2

MCGroups == {g}
MCRank == [x \in {g} |-> 1]

(* b1 and b2 are grouped, b3 is not; b2 tracks the object, if there is one. *)
MCKeyOf == [b \in Bodies |-> IF b = b3 THEN BackKey ELSE GroupKey(g)]
MCTracked == [b \in Bodies |-> IF b = b2 THEN Objs ELSE {}]
MCFunctionOf == [b \in Bodies |-> IF b = b1 THEN f1 ELSE f2]

Symmetry == Permutations(Procs) \cup Permutations(Lists)
=============================================================================
