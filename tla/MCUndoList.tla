----------------------------- MODULE MCUndoList -----------------------------
\* One recruit and one veteran on two hexes; the turns begin alike, so hexes
\* are interchangeable.
EXTENDS UndoList
HexSymmetry == Permutations(Hexes)
=============================================================================
