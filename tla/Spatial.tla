------------------------------- MODULE Spatial -------------------------------
(***************************************************************************)
(* A spatial table as systems and applies change it: a system writes keys  *)
(* in place, and its apply marks the table; rows arrive, leave and are     *)
(* written under the table's guards, and as those are let go of a marked   *)
(* table is re-sorted (src/engine/ecs/world.rs, Structural).               *)
(***************************************************************************)
EXTENDS NearPairs

CONSTANTS
  Entities,
  Boxes,        \* what an entity's bounds may be
  MaxChanges,   \* bound: how many rows are changed at once, of a table of so many pages
  Grow,         \* how far a broadphase grows boxes
  Probe,        \* an active row of another table
  BigAlone      \* bound: nothing else is changed with a row that becomes big

VARIABLES
  table, at,    \* the table's order; where each entity's row is, or None
  value,        \* the bounds of each entity, by its components
  written,      \* whose key or extent was written since the last re-sort
  open,         \* whether its guards are held, to change its rows
  changes,      \* how many were changed since they were taken
  before        \* the rows of each page as they were taken

vars == <<table, at, value, written, open, changes, before>>

None == <<>>
Here == {e \in Entities : at[e] # None}

Init ==
  /\ table = NewOrder
  /\ at = [e \in Entities |-> None] /\ value = [e \in Entities |-> None]
  /\ written = {} /\ open = FALSE /\ changes = 0 /\ before = <<>>

RowsOf(t) == [p \in DOMAIN t.pages |-> t.pages[p].rows]

(* Rows the next re-sort bounds anew.                                      *)
Due(e) == e \in written \/ table.pages[at[e][1]].rows[at[e][2]].key = NoKey
TurnsBigAlone(e, box) ==
  \A x \in Here \ {e} : Due(x) => ~IsBig(value[x]) /\ (box # None => ~IsBig(box))

Allowed == LET n == IF open THEN Len(before) ELSE Len(table.pages)
           IN  IF n \in DOMAIN MaxChanges THEN MaxChanges[n] ELSE 0

(* One more change under the guards, taken before the first, which is      *)
(* later than what was looked at until then.                               *)
Changing(e, box) ==
  /\ changes < Allowed /\ changes' = changes + 1
  /\ BigAlone => TurnsBigAlone(e, box)
  /\ open' = TRUE /\ before' = IF open THEN before ELSE RowsOf(table)

(* A system writes the key of a row in place, or its extent.               *)
WriteInPlace(e, box) ==
  /\ ~open /\ e \in Here /\ Cardinality(written) < Allowed
  /\ BigAlone => TurnsBigAlone(e, box)
  /\ value' = [value EXCEPT ![e] = box] /\ written' = written \union {e}
  /\ UNCHANGED <<table, at, open, changes, before>>

(* Its apply marks the table, unless it failed: then nothing does.         *)
Resort ==
  /\ ~open /\ open' = TRUE /\ written # {}
  /\ table' = [table EXCEPT !.dirty = TRUE]
  /\ before' = RowsOf(table)
  /\ UNCHANGED <<at, value, written, changes>>

(* A row arrives: a spawned entity's, or one's of another table, whose     *)
(* components were last written there.                                     *)
Arrive(e, box, spawned) ==
  /\ e \notin Here
  /\ Changing(e, box)
  /\ LET t == WithRoom(table)
     IN  /\ table' = PushRow(t, e)
         /\ at' = [at EXCEPT ![e] = <<Len(t.pages), Len(Last(t.pages).rows) + 1>>]
  /\ value' = [value EXCEPT ![e] = box]
  /\ written' = IF spawned THEN written \union {e} ELSE written

(* A row leaves: its entity is despawned, or goes to another table.        *)
Leave(e) ==
  /\ e \in Here
  /\ Changing(e, None)
  /\ LET p == at[e][1]
         r == at[e][2]
         rows == table.pages[p].rows
     IN  /\ table' = TakeRow(table, p, r)
         /\ at' = [x \in Entities |->
                     IF x = e THEN None
                     ELSE IF r < Len(rows) /\ x = Last(rows).e THEN <<p, r>> ELSE at[x]]
  /\ value' = [value EXCEPT ![e] = None]
  /\ written' = written \ {e}

(* A key is written under the guards, which marks the table.               *)
Insert(e, box) ==
  /\ e \in Here
  /\ Changing(e, box)
  /\ value' = [value EXCEPT ![e] = box] /\ written' = written \union {e}
  /\ table' = [table EXCEPT !.dirty = TRUE]
  /\ UNCHANGED at

(* The guards are let go of, and a marked table re-sorted. What is stamped *)
(* by then is looked at.                                                   *)
LetGo == IF table.dirty THEN Sorted(table, at, value, written) ELSE table @@ [at |-> at]

Close ==
  /\ open /\ open' = FALSE /\ changes' = 0 /\ before' = <<>>
  /\ \E s \in {LetGo} :
       /\ table' = [pages |-> s.pages, order |-> s.order, runs |-> s.runs, dirty |-> s.dirty,
                    changed |-> {}, lost |-> s.lost]
       /\ at' = s.at
  /\ written' = IF table.dirty THEN {} ELSE written
  /\ UNCHANGED value

Next ==
  \/ \E e \in Entities, box \in Boxes :
       \/ WriteInPlace(e, box) \/ Insert(e, box)
       \/ \E spawned \in BOOLEAN : Arrive(e, box, spawned)
  \/ \E e \in Entities : Leave(e)
  \/ Resort \/ Close

Spec == Init /\ [][Next]_vars

-----------------------------------------------------------------------------
PagesType ==
  \A p \in DOMAIN table.pages :
    /\ table.pages[p].kind \in {"ordered", "big", "staging"}
    /\ table.pages[p].lo \in 0..NoKey
    /\ Len(table.pages[p].rows) <= PageRows

(* Pages hold no more rows than they have room for, the ordered ones are   *)
(* in the order, and each entity with a row has one.                       *)
TypeOK ==
  /\ PagesType
  /\ \A p \in DOMAIN table.pages : table.pages[p].kind = "ordered" <=> p \in ToSet(table.order)
  /\ open \in BOOLEAN /\ changes \in Nat
  /\ written \subseteq Here
  /\ Here = {table.pages[x[1]].rows[x[2]].e : x \in UNION {{p} \X DOMAIN table.pages[p].rows : p \in DOMAIN table.pages}}

InItsPage(i) ==
  LET p == table.pages[table.order[i]]
  IN  \A r \in DOMAIN p.rows : ~IsBig(p.rows[r].box) /\ Holds(p.lo, UpTo(table, i), p.rows[r].key)
BoxHolds(p) ==
  IF p.stale THEN \A r \in DOMAIN p.rows : Covers(p.box, p.rows[r].box) ELSE p.box = HullOf(p.rows)

(* With its guards free, the order is as SpatialPages::check has it: rows  *)
(* are on pages that hold their keys, big ones on pages of their own, none *)
(* is left where it landed, and the boxes of pages and of runs hold them.  *)
(* Nor did a re-sort find a mark where there is no row (Lanes::get).       *)
InOrder ==
  ~open =>
    /\ ~table.lost
    /\ \A i \in 2..Len(table.order) : table.pages[table.order[i - 1]].lo <= table.pages[table.order[i]].lo
    /\ \A i \in DOMAIN table.order : InItsPage(i)
    /\ \A i \in DOMAIN table.order :
         table.pages[table.order[i]].rows # <<>> =>
           Covers(table.runs[RunOf(i)], table.pages[table.order[i]].box)
    /\ \A p \in DOMAIN table.pages :
         /\ table.pages[p].kind = "staging" => table.pages[p].rows = <<>>
         /\ table.pages[p].kind = "big" =>
              \A r \in DOMAIN table.pages[p].rows : IsBig(table.pages[p].rows[r].box)
         /\ BoxHolds(table.pages[p])

(* With its guards free, a region query asks the page of every row whose   *)
(* bounds meet the region, where that entity is, and finds them as they    *)
(* are: but for rows a system that failed wrote, until the next re-sort.   *)
FindsRegions ==
  ~open =>
    \A e \in Here :
      LET row == table.pages[at[e][1]].rows[at[e][2]]
      IN  /\ row.e = e
          /\ e \notin written =>
               /\ row.box = value[e]
               /\ \A region \in Boxes : Overlaps(value[e], region) => at[e][1] \in PagesNear(table, region)

(* With its guards free, the table's rows pair with each other, if they    *)
(* are active, and with an active row of another table, if they are not,   *)
(* as their boxes meet, whatever their pages are.                          *)
Touch(x, y) == Overlaps(Grown(x, Grow), Grown(y, Grow))
RowBox(e) == table.pages[at[e][1]].rows[at[e][2]].box
ProbePage(box) == [NewPage("ordered", 0) EXCEPT !.rows = <<RowOf(Probe, box)>>, !.box = box]
FindsPairs ==
  ~open =>
    /\ PairsIn(table.pages, {}, Grow)
         = {{x[1], x[2]} : x \in {y \in Here \X Here : y[1] # y[2] /\ Touch(RowBox(y[1]), RowBox(y[2]))}}
    /\ \A box \in Boxes :
         PairsIn(<<ProbePage(box)>>, {table}, Grow)
           = {{Probe, e} : e \in {x \in Here : Touch(RowBox(x), box)}}

(* Whatever was written, moved, joined and split, nothing the pages hold   *)
(* is passed over, by a region or by the broadphase.                       *)
Finds == FindsRegions /\ FindsPairs

(* A page whose rows or whose boxes are not what they were when the table  *)
(* was last at rest is stamped: a broadphase that keeps its pairs skips    *)
(* those that are not.                                                     *)
RowsOn(rows, p) == IF p \in DOMAIN rows THEN rows[p] ELSE <<>>
StampsWhatChanged ==
  [][open /\ ~open' =>
       \E s \in {LetGo} : \A p \in DOMAIN s.pages :
         RowsOn(RowsOf(s), p) # RowsOn(before, p) => p \in s.changed]_vars
=============================================================================
