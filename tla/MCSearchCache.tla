--------------------------- MODULE MCSearchCache ---------------------------
(***************************************************************************)
(* Small instances of SearchCache.                                         *)
(***************************************************************************)
EXTENDS SearchCache, TLC

CONSTANTS s1, s2, p1, p2

Symmetry == Permutations(Search) \cup Permutations(Publisher)
=============================================================================
