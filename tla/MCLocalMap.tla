----------------------------- MODULE MCLocalMap -----------------------------
(* Model checking of LocalMap: the sources and cells are interchangeable.  *)
EXTENDS LocalMap, TLC

Symmetry == Permutations(Nodes) \cup Permutations(Cells)
=============================================================================
