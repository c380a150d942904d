------------------------------- MODULE MCLive -------------------------------
(* Two pages of a table and one of another, and rows that touch, that stay *)
(* in their fat boxes or leave them, and one that shrinks.                 *)
EXTENDS Live, TLC

Box(lo, hi) == [min |-> lo, max |-> hi]
LineBoxes == {Box(0, 1), Box(1, 2), Box(7, 8), Box(0, 8)}
TwoTables == [A1 |-> "A", A2 |-> "A", B1 |-> "B"]
Sided(a, b) == [A |-> a, B |-> b]
TwoRelations == {Sided("active", "passive"), Sided("none", "active")}
Half == <<1, 2>>
Alike == Permutations(Indices)
=============================================================================
