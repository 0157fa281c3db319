----------------------------- MODULE MCDocument -----------------------------
(* Document on small instances.                                            *)
EXTENDS Document, TLC

CONSTANTS c1, c2, c3, p1, p2

(* Paths, and contents other than the blank one, are interchangeable.      *)
Interchangeable == Permutations(Contents \ {Blank}) \cup Permutations(Paths)
=============================================================================
