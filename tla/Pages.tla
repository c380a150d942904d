-------------------------------- MODULE Pages --------------------------------
(***************************************************************************)
(* A table's rows, in pages: a row is an entity and a cell in the column   *)
(* of each component, a value and the tick it was written at               *)
(* (src/engine/ecs/world.rs, erased.rs); and the keys an ordered table is  *)
(* kept in order of (src/engine/ecs/ordered.rs).  A table is known by its  *)
(* components.                                                             *)
(***************************************************************************)
EXTENDS SparseSets, FiniteSets

CONSTANTS
  PageRows,    \* how many rows a page holds
  Key,         \* the component whose tables are kept in its order
  LastKey      \* the greatest key there is, and what a new row's is said to be

Cell(value, tick) == [value |-> value, tick |-> tick]
NewPage == [cells |-> <<>>, written |-> 0]

Greater(m, n) == IF m < n THEN n ELSE m

PushCell(page, cell) ==
  [cells |-> Append(page.cells, cell), written |-> Greater(page.written, cell.tick)]
PutCell(page, row, cell) ==
  [cells |-> [page.cells EXCEPT ![row] = cell], written |-> Greater(page.written, cell.tick)]
DropCell(page, row) == [page EXCEPT !.cells = SwapRemove(@, row)]
DropFrom(column, page, row) == [column EXCEPT ![page] = DropCell(@, row)]

IsOrdered(components) == Key \in components

NewTable(components) ==
  [rows |-> <<<<>>>>, columns |-> [c \in components |-> <<NewPage>>],
   arrived |-> 0, left |-> 0,
   keys |-> <<<<>>>>, dirty |-> FALSE, sortedAt |-> 0, keyedBy |-> 0]

ComponentsOf(table) == DOMAIN table.columns

OnLast(pages, page) == [pages EXCEPT ![Len(pages)] = page]

(* A page more if the last is full.                                        *)
WithRoom(table) ==
  IF Len(Last(table.rows)) < PageRows THEN table
  ELSE [table EXCEPT !.rows = Append(@, <<>>),
                     !.columns = [c \in DOMAIN @ |-> Append(@[c], NewPage)],
                     !.keys = Append(@, <<>>)]

(* A row more, on the last page: an entity with a cell for each component  *)
(* of some, which the others' columns have had.                            *)
WithRow(table, e, cells, tick) ==
  [table EXCEPT
     !.rows = OnLast(@, Append(Last(@), e)),
     !.columns = [c \in DOMAIN @ |->
        IF c \in DOMAIN cells THEN OnLast(@[c], PushCell(Last(@[c]), cells[c])) ELSE @[c]],
     !.arrived = tick,
     !.keys = OnLast(@, Append(Last(@), LastKey)),
     !.dirty = IsOrdered(ComponentsOf(table))]

WithoutRow(table, page, row, tick) ==
  [table EXCEPT
     !.rows[page] = SwapRemove(@, row),
     !.columns = [c \in DOMAIN @ |-> DropFrom(@[c], page, row)],
     !.left = tick,
     !.keys[page] = SwapRemove(@, row),
     !.dirty = IsOrdered(ComponentsOf(table))]

WithCell(table, c, at, cell) == [table EXCEPT !.columns[c][at.page] = PutCell(@, at.row, cell)]

(* A value that replaces one may be of the key, and move its row.          *)
Replaced(table, c, at, cell) ==
  [table EXCEPT !.columns[c][at.page] = PutCell(@, at.row, cell), !.dirty = @ \/ c = Key]

-----------------------------------------------------------------------------
(* Re-sorting: the rows that are new or were written since the last time   *)
(* are keyed, or all, if a newer build's glue keys them; and if they are   *)
(* out of order then, all go into pages anew.                              *)
KeyedIfNew(table, p, r, build) ==   \* a mutant: values written in place are not
  table.keyedBy # build \/ table.keys[p][r] = LastKey
KeyedAnew(table, p, r, build) ==
  \/ table.keyedBy # build
  \/ table.keys[p][r] = LastKey
  \/ table.columns[Key][p].cells[r].tick > table.sortedAt

(* The key that a build gives a value: each the other way than the last.   *)
Glue(b, v) == IF b % 2 = 1 THEN v ELSE LastKey - v

Keyed(table, build, tick) ==
  [table EXCEPT
     !.keys = [p \in DOMAIN @ |-> [r \in DOMAIN @[p] |->
        IF KeyedAnew(table, p, r, build)
        THEN Glue(build, table.columns[Key][p].cells[r].value) ELSE @[p][r]]],
     !.dirty = FALSE, !.sortedAt = tick, !.keyedBy = build]

Older(d, e) == d.index < e.index \/ (d.index = e.index /\ d.generation < e.generation)

(* Where the rows are, as <<page, row>>, and which of two is the sooner.   *)
Places(rows) == UNION {{<<p, r>> : r \in DOMAIN rows[p]} : p \in DOMAIN rows}
Sooner(a, b) == a[1] < b[1] \/ (a[1] = b[1] /\ a[2] < b[2])

Before(table, a, b) ==
  LET k == table.keys[a[1]][a[2]]
      l == table.keys[b[1]][b[2]]
  IN  k < l \/ (k = l /\ Older(table.rows[a[1]][a[2]], table.rows[b[1]][b[2]]))

InOrder(table) ==
  \A a, b \in Places(table.rows) : Sooner(a, b) => Before(table, a, b)

(* The one order of places in which each is before those after it.         *)
Sorts(order, table) ==
  /\ IsInjective(order)
  /\ \A i, j \in DOMAIN order : i < j => Before(table, order[i], order[j])
ByKey(table) ==
  CHOOSE order \in [1..Cardinality(Places(table.rows)) -> Places(table.rows)] : Sorts(order, table)

Paged(list) ==
  LET pages == Greater(1, (Len(list) + PageRows - 1) \div PageRows)
  IN  [p \in 1..pages |->
         SubSeq(list, (p - 1) * PageRows + 1,
                IF p = pages THEN Len(list) ELSE p * PageRows)]

WrittenAt(cells) == Max({0} \union {cells[r].tick : r \in DOMAIN cells})

GatheredUnwritten(pages, places) ==   \* a mutant: pages are new
  LET gathered == Paged([n \in DOMAIN places |-> pages[places[n][1]].cells[places[n][2]]])
  IN  [p \in DOMAIN gathered |-> [cells |-> gathered[p], written |-> 0]]
Gathered(pages, places) ==
  LET gathered == Paged([n \in DOMAIN places |-> pages[places[n][1]].cells[places[n][2]]])
  IN  [p \in DOMAIN gathered |-> [cells |-> gathered[p], written |-> WrittenAt(gathered[p])]]

Rearranged(table, places) ==
  [table EXCEPT
     !.rows = Paged([n \in DOMAIN places |-> @[places[n][1]][places[n][2]]]),
     !.columns = [c \in DOMAIN @ |-> Gathered(@[c], places)],
     !.keys = Paged([n \in DOMAIN places |-> @[places[n][1]][places[n][2]]])]

PutInOrder(table) ==
  IF InOrder(table) THEN table ELSE Rearranged(table, ByKey(table))

Resorted(table, build, tick) ==
  IF table.dirty THEN PutInOrder(Keyed(table, build, tick)) ELSE table
==============================================================================
