----------------------------- MODULE MCTreeCache -----------------------------
(***************************************************************************)
(* Small instances of TreeCache.                                           *)
(***************************************************************************)
EXTENDS TreeCache, TLC

CONSTANTS all, floor,       \* the whole tree, and the subtree of one floor
          g1, g2, g3,       \* reads
          m1, m2            \* mutations

Symmetry == Permutations(Readers) \cup Permutations(Writers)
==============================================================================
