---------------------------- MODULE MCAutoBuffer ----------------------------
(* Small instances of AutoBuffer. *)
EXTENDS AutoBuffer, TLC

Symmetry == Permutations(Buffers)
=============================================================================
