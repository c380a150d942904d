----------------------------- MODULE FrameGraph -----------------------------
(***************************************************************************)
(* Which nodes of a frame overlap (src/engine/ecs/graph.rs): systems by    *)
(* their parameters, apply nodes by the tables their changes may touch.    *)
(***************************************************************************)
EXTENDS Tables

(* Shapes: any set of components from lower up to upper.                   *)
Shape      == [lower : Table, upper : Table]
Exactly(t) == [lower |-> t, upper |-> t]

Meets(shape, q) ==
  UsesTables(q) /\ TableWith(q) \subseteq shape.upper /\ TableWithout(q) \intersect shape.lower = {}

MeetsShape(a, b) == a.lower \union b.lower \subseteq a.upper \intersect b.upper

(* Footprints.  Sparse sets and queues are written.                        *)
NoFootprint == [tables |-> <<>>, sparse |-> {}, events |-> {}, kills |-> FALSE]

AddShape(fp, shape) ==
  IF shape \in ToSet(fp.tables) THEN fp ELSE [fp EXCEPT !.tables = Append(@, shape)]

TableOnly(cs)  == cs \intersect TableComponents
SparseOnly(cs) == cs \intersect SparseComponents

(* bound: before its system has run, an apply's footprint is every table   *)
(* its changing queries match, with any subset of their changes.           *)
MovesRows(q) == TableOnly(q.adds \union q.removes) # {}

BoundSources(w, fp, q) ==   \* a mutant: the tables rows land in are left out
  LET sources == SelectSeq(w.made, LAMBDA t : ~UsesTables(q) \/ Matches(q, t))
      sparse == [fp EXCEPT !.sparse = @ \union SparseOnly(q.adds \union q.removes),
                           !.kills = @ \/ q.despawns]
  IN  IF MovesRows(q) \/ q.despawns
      THEN FoldLeft(LAMBDA f, t : AddShape(f, Exactly(t)), sparse, sources) ELSE sparse

BoundQuery(w, fp, q) ==
  LET sources == SelectSeq(w.made, LAMBDA t : ~UsesTables(q) \/ Matches(q, t))
      range(t) == [lower |-> t \ q.removes, upper |-> t \union TableOnly(q.adds)]
      add(f, t) == IF MovesRows(q) THEN AddShape(AddShape(f, Exactly(t)), range(t))
                                   ELSE AddShape(f, Exactly(t))
      sparse == [fp EXCEPT !.sparse = @ \union SparseOnly(q.adds \union q.removes),
                           !.kills = @ \/ q.despawns]
  IN  IF MovesRows(q) \/ q.despawns THEN FoldLeft(add, sparse, sources) ELSE sparse

Bound(w, s) ==
  LET queries == FoldLeft(LAMBDA fp, q : BoundQuery(w, fp, q), NoFootprint, s.queries)
      spawned(fp, x) == [AddShape(fp, Exactly(TableOnly(x.set))) EXCEPT
                           !.sparse = @ \union SparseOnly(x.set)]
      spawners == FoldLeft(spawned, queries, SetToSeq(s.spawns))
  IN  [spawners EXCEPT !.events = {x[1] : x \in {y \in s.events : y[2]}}]

(* exact: after, it is the tables the log moves each entity through,       *)
(* replayed: now is the table an entity is in by then, if the log moved it.*)
ExactChange(w, acc, change) ==
  LET from == IF acc.now[change.e] # {} THEN acc.now[change.e]
              ELSE IF Alive(w, change.e) THEN {TableOf(w, change.e)} ELSE {}
      moved(t) == IF change.do = "insert" THEN t \union {change.c} ELSE t \ {change.c}
      through(t) == [fp  |-> AddShape(AddShape(acc.fp, Exactly(t)), Exactly(moved(t))),
                     now |-> [acc.now EXCEPT ![change.e] = {moved(t)}]]
      left(fp) == IF from = {} THEN fp
                  ELSE AddShape(fp, Exactly(CHOOSE t \in from : TRUE))
      born == TableOnly(change.set)
  IN  CASE change.do = "send" -> [acc EXCEPT !.fp.events = @ \union {change.q}]
        [] change.do = "despawn" -> [acc EXCEPT !.fp = [left(@) EXCEPT !.kills = TRUE]]
        [] change.do = "spawn" ->
             [fp  |-> [AddShape(acc.fp, Exactly(born)) EXCEPT !.sparse = @ \union SparseOnly(change.set)],
              now |-> [acc.now EXCEPT ![change.e] = {born}]]
        [] SparseOf(change) # {} -> [acc EXCEPT !.fp.sparse = @ \union SparseOf(change)]
        [] OTHER -> IF from = {} THEN acc ELSE through(CHOOSE t \in from : TRUE)

ExactFirst(w, log) ==   \* a mutant: only each entity's first table
  FoldLeft(LAMBDA acc, change : [fp |-> ExactChange(w, acc, change).fp, now |-> acc.now],
           [fp |-> NoFootprint, now |-> [e \in Entities |-> {}]], log).fp

Exact(w, log) ==
  FoldLeft(LAMBDA acc, change : ExactChange(w, acc, change),
           [fp |-> NoFootprint, now |-> [e \in Entities |-> {}]], log).fp

-----------------------------------------------------------------------------
(* Two accesses conflict if they are to one thing and one writes it.       *)
Conflict(a, b) == \E x \in a, y \in b : x[1] = y[1] /\ (x[2] \/ y[2])
Writing(S)     == S \X {TRUE}

SparseSets(s) == UNION {SparseUses(q) : q \in QueriesOf(s)}

(* The columns a system's queries touch in table t.                        *)
Touched(s, t) ==
  UNION {{x \in q.terms : x[1] \in TableComponents} : q \in {p \in QueriesOf(s) : Matches(p, t)}}

SharingSystems(w, x, y) ==   \* a mutant: the columns they touch are left out
  Conflict(SparseSets(x), SparseSets(y)) \/ Conflict(x.events, y.events) \/ Conflict(x.slots, y.slots)

SystemsOverlap(w, x, y) ==
  \/ Conflict(SparseSets(x), SparseSets(y))
  \/ Conflict(x.events, y.events)
  \/ Conflict(x.slots, y.slots)
  \/ \E t \in Made(w) : Conflict(Touched(x, t), Touched(y, t))

(* Moving rows rewrites every column of a table: a query that reads it at  *)
(* all conflicts.                                                          *)
SystemApplyOverlap(s, fp) ==
  \/ Conflict(SparseSets(s), Writing(fp.sparse))
  \/ Conflict(s.events, Writing(fp.events))
  \/ fp.kills /\ \E q \in QueriesOf(s) : SparseDriven(q)
  \/ \E shape \in ToSet(fp.tables), q \in QueriesOf(s) : Meets(shape, q)

AppliesOverlap(a, b) ==
  \/ a.sparse \intersect b.sparse # {}
  \/ a.events \intersect b.events # {}
  \/ \E x \in ToSet(a.tables), y \in ToSet(b.tables) : MeetsShape(x, y)
=============================================================================
