----------------------------- MODULE MCFreeBlocks -----------------------------
(* FreeBlocks for TLC. *)
EXTENDS FreeBlocks, TLC

Symmetry == Permutations(Procs)

=============================================================================
