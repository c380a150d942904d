-------------------------------- MODULE Live --------------------------------
(***************************************************************************)
(* A live relation (src/engine/ecs/live.rs): the pairs of rows whose boxes,*)
(* grown, meet, at least one of them of an active table, kept between      *)
(* calls and found from the pages that changed since. Tables stamp a page  *)
(* as its rows or their boxes change, as Spatial shows of them; a row's    *)
(* page within its table is up to the re-sort, any here.                   *)
(***************************************************************************)
EXTENDS Bounds, FiniteSets

CONSTANTS
  Indices,        \* of entities
  TableOf,        \* the table of each page
  Relations,      \* what the relation's sides may be: the side of each table
  Boxes,          \* what a row's box may be
  Grow, Margin,   \* how far boxes are grown, and fat boxes past those
  Most,           \* the share of the active rows <<n, d>> over which a call is afresh
  Few,            \* a call of fewer rows than a Few-th of the candidates tests theirs
  MaxWait,        \* the most calls found afresh before the next walk
  MaxChanges,     \* bound: how many rows change or arrive between two walks
  MaxDeaths       \* bound: how many entities are despawned

VARIABLES
  at, box, generation,   \* of each index: its row's page or None, its box, its owner's generation
  changed, left,         \* the pages stamped, and whether a row left a table, since the last walk
  sides,                 \* the relation's sides, as now loaded
  pairs,                 \* what is kept
  changes                \* rows that changed since the last walk

vars == <<at, box, generation, changed, left, sides, pairs, changes>>

Pages == DOMAIN TableOf
None == "none"
Sides == {"active", "passive", None}
Tables == {TableOf[p] : p \in Pages}

ASSUME LiveAssumption ==
  /\ IsFiniteSet(Indices) /\ None \notin Pages
  /\ Boxes \subseteq [min : Int, max : Int] /\ Relations \subseteq [Tables -> Sides]
  /\ Grow \in Nat /\ Margin \in Nat /\ Few \in Nat /\ MaxWait \in Nat

Here == {i \in Indices : at[i] # None}

NoBox == [min |-> 0, max |-> -1]
Gone == [grown |-> NoBox, fat |-> NoBox, generation |-> 0, side |-> None]

(* Nothing kept, for the sides there are now.                              *)
StartedOver(of) ==
  [sides |-> of, pages |-> [p \in Pages |-> {}], rows |-> [i \in Indices |-> Gone],
   candidates |-> {}, met |-> {}, kept |-> FALSE, fresh |-> TRUE, skip |-> 0, wait |-> 0,
   out |-> {}]

Init ==
  /\ at = [i \in Indices |-> None] /\ box = [i \in Indices |-> NoBox]
  /\ generation = [i \in Indices |-> 1]
  /\ changed = {} /\ left = FALSE /\ changes = 0
  /\ sides \in Relations
  /\ pairs = StartedOver(sides)

-----------------------------------------------------------------------------
(* near_pairs: the pairs afresh, from the tables as they are.              *)
SideOf(i) == IF at[i] = None THEN None ELSE sides[TableOf[at[i]]]
Covered == {i \in Indices : SideOf(i) # None}
Couples == {c \in SUBSET Indices : Cardinality(c) = 2}
Meet(boxes, c) == \A i, j \in c : i # j => Overlaps(boxes[i], boxes[j])

Named(couples, of) == {{<<i, of[i]>> : i \in c} : c \in couples}
GrownBy(by) == [i \in Covered |-> Grown(box[i], by)]
NearPairs ==
  LET grown == GrownBy(Grow)
  IN  Named({c \in Couples : /\ c \subseteq Covered /\ \E i \in c : SideOf(i) = "active"
                             /\ Meet(grown, c)}, generation)

Encloses(fat, b) == Covers(fat, b)   \* a mutant: however far it is past the box
(* Whether a row keeps its fat box.                                        *)
Keeps(fat, b) == Covers(fat, b) /\ Covers(Grown(b, 2 * Margin), fat)

(* What a walk finds of the pages that changed, and what is kept of rows   *)
(* by it. Nothing of one that is gone is read again, nor of candidates     *)
(* that are not all there are: neither is kept here.                       *)
Walked(q) == {p \in Pages : sides[TableOf[p]] # None /\ (q.fresh \/ p \in changed)}
OfItsSide(q, i) == q.rows[i].side # SideOf(i)   \* a mutant: whoever has the index now
Arrived(q, i) == q.rows[i].side # SideOf(i) \/ q.rows[i].generation # generation[i]
Changed(q, i) == Arrived(q, i) \/ q.rows[i].grown # Grown(box[i], Grow)
Moved(q, seen) ==
  {i \in seen : Changed(q, i) /\ (Arrived(q, i) \/ ~Keeps(q.rows[i].fat, Grown(box[i], Grow)))}
Lost(q, walked, seen) ==
  IF left THEN {i \in UNION {q.pages[p] : p \in walked} : i \notin seen /\ q.rows[i].side # None}
  ELSE {}

RowNow(row, i, moved) ==
  LET b == Grown(box[i], Grow)
  IN  [grown |-> b, fat |-> IF i \in moved THEN Grown(b, Margin) ELSE row.fat,
       generation |-> generation[i], side |-> SideOf(i)]

Walk(q) ==
  LET walked  == Walked(q)
      seen    == {i \in Here : at[i] \in walked}
      moved   == Moved(q, seen)
      touched == {i \in seen : Changed(q, i)} \ moved
      lost    == Lost(q, walked, seen)
  IN [moved |-> moved, touched |-> touched, lost |-> lost,
      kept  |-> [q EXCEPT
        !.fresh = FALSE,
        !.pages = [p \in Pages |-> IF p \in walked THEN {i \in seen : at[i] = p} ELSE @[p]],
        !.rows  = [i \in Indices |->
           IF i \in moved \union touched THEN RowNow(@[i], i, moved)
           ELSE IF i \in lost THEN Gone ELSE @[i]]]]

-----------------------------------------------------------------------------
Fats(q)   == [i \in Indices |-> q.rows[i].fat]
Growns(q) == [i \in Indices |-> q.rows[i].grown]
Owners(q) == [i \in Indices |-> q.rows[i].generation]

LivePair(q, c) ==
  (\A i \in c : q.rows[i].side # None) /\ \E i \in c : q.rows[i].side = "active"

(* Pairs of a row of some and any, whose boxes grown as far as their fat   *)
(* boxes can be meet.                                                      *)
Search(some) ==
  LET wide == GrownBy(Grow + 2 * Margin)
  IN  {c \in Couples : c \subseteq Covered /\ c \cap some # {} /\ Meet(wide, c)}

(* Nothing moved or went: the candidates are as they were, and those of    *)
(* some are tested again.                                                  *)
Retested(q, some) ==
  LET met == {c \in q.met : c \cap some = {}}
             \union {c \in q.candidates : c \cap some # {} /\ Meet(Growns(q), c)}
  IN  [q EXCEPT !.met = met, !.out = IF met = q.met /\ some # Indices THEN @ ELSE Named(met, Owners(q))]

(* Each candidate that was and each found, unless an end is gone, both are *)
(* passive, or one moved and their fat boxes no longer meet.               *)
Merged(q, moved, found) ==
  LET new   == {c \in found : LivePair(q, c) /\ Meet(Fats(q), c)}
      old   == IF q.kept THEN q.candidates ELSE {}
      stays == {c \in old \union new : LivePair(q, c) /\ (c \cap moved # {} => Meet(Fats(q), c))}
      met   == {c \in stays : Meet(Growns(q), c)}
  IN  [q EXCEPT !.candidates = stays, !.met = met, !.out = Named(met, Owners(q)), !.kept = TRUE]

(* Too much moved: the next walks are put off, longer each time.           *)
Longer(q) == Min({MaxWait, Max({1, 2 * q.wait})})
FoundAfresh(q, wasFresh) ==
  LET r == [q EXCEPT !.out = NearPairs, !.kept = FALSE, !.candidates = {}, !.met = {}]
  IN  IF wasFresh THEN r ELSE [r EXCEPT !.wait = Longer(q), !.skip = Longer(q)]

Actives == {i \in Here : SideOf(i) = "active"}
Found(w) ==
  LET q == [w.kept EXCEPT !.wait = 0]
      still == q.kept /\ w.moved = {} /\ w.lost = {}
  IN  CASE still /\ Cardinality(w.touched) * Few < Cardinality(q.candidates) -> Retested(q, w.touched)
        [] still /\ Cardinality(w.touched) * Few >= Cardinality(q.candidates) -> Retested(q, Indices)
        [] ~still -> Merged(q, w.moved, Search(IF q.kept THEN w.moved ELSE Actives))

AfterWalk(was, w) ==
  CASE was.kept /\ ~was.fresh /\ w.moved \union w.touched \union w.lost = {} -> w.kept
    [] OTHER ->
       IF Cardinality(w.moved) * Most[2] > Most[1] * Cardinality(Actives)
       THEN FoundAfresh(w.kept, was.fresh) ELSE Found(w)

(* A call. The pages it walked are, and what is kept.                      *)
Current == IF pairs.sides = sides THEN pairs ELSE StartedOver(sides)
Update ==
  IF Current.skip > 0 THEN [Current EXCEPT !.skip = @ - 1, !.out = NearPairs]
  ELSE AfterWalk(Current, Walk(Current))

Call ==
  /\ pairs' = Update
  /\ IF Current.skip > 0 THEN UNCHANGED <<changed, left, changes>>
     ELSE changed' = {} /\ left' = FALSE /\ changes' = 0
  /\ UNCHANGED <<at, box, generation, sides>>

-----------------------------------------------------------------------------
Change(pages) ==
  /\ changes < MaxChanges /\ changes' = changes + 1
  /\ changed' = changed \union pages

(* A re-sort bounds a row anew, and takes it to another page, or not.      *)
Resort(i, p, b) ==
  /\ at[i] # None /\ TableOf[p] = TableOf[at[i]]
  /\ Change({at[i], p})
  /\ at' = [at EXCEPT ![i] = p] /\ box' = [box EXCEPT ![i] = b]
  /\ UNCHANGED <<generation, left, sides, pairs>>

Spawn(i, p, b) ==
  /\ at[i] = None /\ Change({p})
  /\ at' = [at EXCEPT ![i] = p] /\ box' = [box EXCEPT ![i] = b]
  /\ UNCHANGED <<generation, left, sides, pairs>>

(* The index is another entity's from then on.                             *)
Despawn(i) ==
  /\ at[i] # None /\ Cardinality({j \in Indices : generation[j] > 1}) < MaxDeaths
  /\ changed' = changed \union {at[i]} /\ left' = TRUE
  /\ at' = [at EXCEPT ![i] = None] /\ box' = [box EXCEPT ![i] = NoBox]
  /\ generation' = [generation EXCEPT ![i] = @ + 1]
  /\ UNCHANGED <<sides, pairs, changes>>

(* A row goes to another table, as its entity's components change.         *)
Transfer(i, p) ==
  /\ at[i] # None /\ TableOf[p] # TableOf[at[i]]
  /\ Change({at[i], p}) /\ left' = TRUE
  /\ at' = [at EXCEPT ![i] = p]
  /\ UNCHANGED <<box, generation, sides, pairs>>

(* A reload gives the relation other sides.                                *)
Reload(s) ==
  /\ s # sides /\ changes < MaxChanges /\ changes' = changes + 1
  /\ sides' = s
  /\ UNCHANGED <<at, box, generation, changed, left, pairs>>

Next ==
  \/ Call
  \/ \E i \in Indices, p \in Pages, b \in Boxes : Resort(i, p, b) \/ Spawn(i, p, b)
  \/ \E i \in Indices, p \in Pages : Transfer(i, p)
  \/ \E i \in Indices : Despawn(i)
  \/ \E s \in Relations : Reload(s)

Spec == Init /\ [][Next]_vars

-----------------------------------------------------------------------------
(* Called at any time, however much changed since the last call and        *)
(* however that found its pairs, it answers what near_pairs does, found    *)
(* afresh.                                                                 *)
Exact == Update.out = NearPairs

(* While nothing changed since a walk, what is kept is as Pairs::check has *)
(* it: each row with its side, its box and a fat box it keeps, nothing of  *)
(* rows that are gone; and, when candidates are kept, exactly the live     *)
(* pairs whose fat boxes meet, with which of those are pairs.              *)
KeepsTheRows ==
  \A i \in Indices :
    /\ pairs.rows[i].side = SideOf(i)
    /\ i \in Covered =>
         /\ pairs.rows[i].generation = generation[i]
         /\ pairs.rows[i].grown = Grown(box[i], Grow)
         /\ Keeps(pairs.rows[i].fat, pairs.rows[i].grown)
KeepsCandidates ==
  /\ pairs.candidates = {c \in Couples : LivePair(pairs, c) /\ Meet(Fats(pairs), c)}
  /\ pairs.met = {c \in pairs.candidates : Meet(Growns(pairs), c)}
KeptAsChecked ==
  ~pairs.fresh /\ changed = {} /\ pairs.sides = sides => KeepsTheRows /\ (pairs.kept => KeepsCandidates)
=============================================================================
