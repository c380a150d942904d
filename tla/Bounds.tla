-------------------------------- MODULE Bounds -------------------------------
(***************************************************************************)
(* Boxes, in one dimension: what a spatial key's bounds are                *)
(* (src/engine/ecs/spatial.rs, Bounds). Boxes that touch overlap.          *)
(***************************************************************************)
EXTENDS Integers, FiniteSetsExt

Overlaps(a, b) == a.min <= b.max /\ b.min <= a.max
Hull(a, b) == [min |-> Min({a.min, b.min}), max |-> Max({a.max, b.max})]
Covers(outer, inner) == outer.min <= inner.min /\ outer.max >= inner.max
Grown(a, by) == [min |-> a.min - by, max |-> a.max + by]
=============================================================================
