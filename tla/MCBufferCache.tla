------------------------------ MODULE MCBufferCache ------------------------------
(*****************************************************************************)
(* Instances of BufferCache for TLC; the sets are model values of the cfg.   *)
(*****************************************************************************)
EXTENDS BufferCache, TLC

\* Processes, buffers, blocks that behave alike and contents are interchangeable.
Symmetry ==
    Permutations(Procs) \cup Permutations(Bufs)
    \cup Permutations(Blocks \ Failing) \cup Permutations(Values)

=============================================================================
