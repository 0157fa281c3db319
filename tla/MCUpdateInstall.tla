-------------------------- MODULE MCUpdateInstall --------------------------
(* UpdateInstall on small instances.                                       *)
EXTENDS UpdateInstall, TLC

CONSTANTS a, b, c, t, u, v

Releases == 1 .. 3
Symmetry ==
    Permutations(FixedPath) \cup Permutations(Instances \ FixedPath) \cup Permutations(Tokens)
=============================================================================
