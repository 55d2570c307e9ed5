------------------------------ MODULE MCEmission ------------------------------
(* Small instances of Emission. *)
EXTENDS Emission, MCSignal

MCExtended == Bodies \ {b1}
MCCombinerTypes == {"last_value", "own"}
MCSymmetry == Symmetry \cup Permutations(Combs)

(* Bound: one thing at a time of these has been done.  A slot is blocked, or *)
(* was when an invocation that is under way passed over it; set_combiner has *)
(* left the old combiner to an invocation; an object has been dropped.       *)
MaxChanges == 1

Changes ==
    (blocked \cup UNION {overlooked[p] : p \in Procs})
        \cup ({s.comb : s \in UsedStates} \ {shared.comb}) \cup (Objs \ owned)
MCBound == Cardinality(Changes) <= MaxChanges
=============================================================================
