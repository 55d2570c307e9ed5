--------------------------- MODULE MCSignalLifetime ---------------------------
(* Small instances of SignalLifetime. *)
EXTENDS SignalLifetime, TLC

Symmetry == Permutations(Procs) \cup Permutations(Signals) \cup Permutations(Impls)
=============================================================================
