----------------------------- MODULE MCSpatial -----------------------------
(* A table with pages of two rows, over four keys, with boxes of a cell,   *)
(* of two, and of all four, which is big.                                  *)
EXTENDS Spatial, TLC

Box(lo, hi) == [min |-> lo, max |-> hi]
LineBoxes == {Box(0, 0), Box(1, 2), Box(3, 3), Box(0, 3)}
FewChanges == <<2, 2, 1>>
Alike == Permutations(Entities)
=============================================================================
