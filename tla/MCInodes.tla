------------------------------- MODULE MCInodes -------------------------------
(* Symmetry for the runs of Inodes. *)
EXTENDS Inodes, TLC

ProcSymmetry == Permutations(Procs)

=============================================================================
