--------------------------- MODULE MCTokenSession ---------------------------
(* Small instances of TokenSession for TLC. *)
EXTENDS TokenSession, TLC

\* Pairs and workers are interchangeable.
Symmetry == Permutations(Pair) \cup Permutations(Request)

=============================================================================
