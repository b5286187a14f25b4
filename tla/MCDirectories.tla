---------------------------- MODULE MCDirectories ----------------------------
(* Directories with a process that makes names and one that goes about. *)
EXTENDS Directories, TLC

CONSTANTS p1, p2, a, b

MCPaths == (p1 :> {<< >>, <<a>>, <<a, b>>}) @@ (p2 :> {<<a>>, <<b>>, <<a, b>>})

MCCalls == (p1 :> {"mknod", "unlink", "chdir"})
           @@ (p2 :> {"open", "close", "creat", "link", "unlink"})

\* For DirLost.cfg: counts go wrong without a write that fails.
CountsUnlessUncleared == LinkCounts \/ uncleared

MCSymmetry == Permutations(Inos \ {Root})
=============================================================================
