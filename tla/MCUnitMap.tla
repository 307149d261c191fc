----------------------------- MODULE MCUnitMap -----------------------------
(***************************************************************************)
(* UnitMap for TLC: unit objects, hexes and iterators are interchangeable.  *)
(***************************************************************************)
EXTENDS UnitMap, TLC

Symmetry == Permutations(Units) \cup Permutations(Locs) \cup Permutations(Iters)
=============================================================================
