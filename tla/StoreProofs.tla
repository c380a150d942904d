---------------------------- MODULE StoreProofs -----------------------------
(***************************************************************************)
(* A store (src/engine/ecs/world.rs) of any entities, components and pages,*)
(* changed by any logs, keeps its rows and its slots to each other (TypeOK *)
(* and Indexed), its ordered tables in order (KeptInOrder), and what a     *)
(* reader is told of changes to what there is to tell (ChangesSeen), by    *)
(* one inductive invariant, StoreInv.                                      *)
(*                                                                         *)
(* Between two steps the store is whole.  Within one it is not: a row is   *)
(* taken before its entity has another, an entity has a slot before it has *)
(* a row, a slot is freed and its id is not free before the log is made.   *)
(* Rowed(s, X) is what holds meanwhile: every row's entity is where its    *)
(* slot says, and every entity that is placed has its row, but those in X. *)
(* Each operation is shown to keep it for an X of its own, a log's entries *)
(* for the spawns still to come, and what a log leaves has none.           *)
(*                                                                         *)
(* Nor is a table in order within a step, or told of.  Sound(s, k, some)   *)
(* is what holds of the store s meanwhile, for a reader that looked at k:  *)
(* every ordered table but some is in order or marked to be re-sorted, a   *)
(* row's key is its value's or is to be, every row that the reader reads   *)
(* is one it saw, written since, or of one it did not see, and whoever it  *)
(* saw is there or it is told that one left.  Each operation Carries it.   *)
(***************************************************************************)
EXTENDS Store, WellFoundedInduction, FiniteSetTheorems, TLAPS

-----------------------------------------------------------------------------
(* Tables: rows that come and go, a page at a time.                         *)

(* Who was last in a list takes the place of who is removed.               *)
LEMMA SwapRemoved ==
  ASSUME NEW S, NEW list \in Seq(S), NEW i \in 1..Len(list)
  PROVE  /\ SwapRemove(list, i) \in Seq(S)
         /\ Len(SwapRemove(list, i)) = Len(list) - 1
         /\ DOMAIN SwapRemove(list, i) = 1..Len(list) - 1
         /\ \A r \in 1..Len(list) - 1 :
              SwapRemove(list, i)[r] = IF r = i THEN list[Len(list)] ELSE list[r]
<1>0. Len(list) \in Nat /\ Len(list) - 1 \in Nat /\ 1..Len(list) - 1 \subseteq 1..Len(list)
  OBVIOUS
<1>1. /\ Front(list) \in Seq(S) /\ Len(Front(list)) = Len(list) - 1
      /\ DOMAIN Front(list) = 1..Len(list) - 1
      /\ \A r \in 1..Len(list) - 1 : Front(list)[r] = list[r]
  <2>1. Front(list) = [r \in 1..Len(list) - 1 |-> list[r]]
    BY <1>0 DEF Front
  <2> QED BY <1>0, <2>1
<1>2. Last(list) = list[Len(list)] /\ Last(list) \in S
  BY DEF Last
<1> DEFINE f == Front(list)
<1> HIDE DEF f
<1>3. CASE i = Len(list)
  BY <1>1, <1>3 DEF SwapRemove
<1>4. CASE i # Len(list)
  <2>1. [f EXCEPT ![i] = Last(list)] \in Seq(S)
    BY <1>1, <1>2, <1>4 DEF f
  <2> QED BY <1>1, <1>2, <1>4, <2>1 DEF SwapRemove, f
<1> QED BY <1>3, <1>4

(* A list with one more, and with another last one.                        *)
LEMMA Appended ==
  ASSUME NEW S, NEW list \in Seq(S), NEW x \in S, NEW n, n = Len(list),
         NEW u, u = Append(list, x)
  PROVE  /\ n \in Nat /\ DOMAIN list = 1..n
         /\ u \in Seq(S) /\ Len(u) = n + 1 /\ DOMAIN u = 1..n + 1 /\ u # <<>>
         /\ u[n + 1] = x /\ \A r \in 1..n : u[r] = list[r]
OBVIOUS

(* OnLast replaces the last of a list.                                      *)
LEMMA PutOnLast ==
  ASSUME NEW S, NEW list \in Seq(S), list # <<>>, NEW x \in S, NEW P, P = Len(list),
         NEW u, u = OnLast(list, x)
  PROVE  /\ P \in Nat \ {0} /\ DOMAIN list = 1..P /\ P \in DOMAIN list
         /\ Last(list) = list[P] /\ list[P] \in S
         /\ u \in Seq(S) /\ DOMAIN u = 1..P /\ u # <<>>
         /\ u[P] = x /\ \A p \in 1..P : p # P => u[p] = list[p]
BY DEF OnLast, Last

(* The last of a list that has one is one of it.                            *)
LEMMA LastOf ==
  ASSUME NEW S, NEW list \in Seq(S), list # <<>>, NEW P, P = Len(list)
  PROVE  /\ P \in Nat \ {0} /\ DOMAIN list = 1..P /\ P \in DOMAIN list
         /\ Last(list) = list[P] /\ list[P] \in S
BY DEF Last

EntityLists == Seq(Entity)
KeyLists == Seq(Int)
CellSet == [value : Int, tick : Nat]

(* A page, stamped no earlier than any cell on it was written.             *)
PageSet == {page \in [cells : Seq(CellSet), written : Nat] :
              \A r \in DOMAIN page.cells : page.cells[r].tick <= page.written}

IsColumn(column, rows) ==
  /\ column \in Seq(PageSet) /\ DOMAIN column = DOMAIN rows
  /\ \A p \in DOMAIN rows : Len(column[p].cells) = Len(rows[p])

IsKeys(keys, rows) ==
  /\ keys \in Seq(KeyLists) /\ DOMAIN keys = DOMAIN rows
  /\ \A p \in DOMAIN rows : Len(keys[p]) = Len(rows[p])

IsRows(rows) ==
  /\ rows \in Seq(EntityLists) /\ rows # <<>>
  /\ \A p \in DOMAIN rows : Len(rows[p]) <= PageRows

TableFields == {"rows", "columns", "arrived", "left", "keys", "dirty", "sortedAt", "keyedBy"}

IsTable(table, t) ==
  /\ DOMAIN table = TableFields
  /\ IsRows(table.rows) /\ IsKeys(table.keys, table.rows)
  /\ DOMAIN table.columns = t /\ \A c \in t : IsColumn(table.columns[c], table.rows)
  /\ table.arrived \in Nat /\ table.left \in Nat /\ table.dirty \in BOOLEAN
  /\ table.sortedAt \in Nat /\ table.keyedBy \in Nat
  /\ table.dirty => IsOrdered(t)

(* A new table has one page, with no row.                                   *)
LEMMA NewTableIs ==
  ASSUME NEW t
  PROVE  /\ IsTable(NewTable(t), t)
         /\ DOMAIN NewTable(t).rows = {1} /\ NewTable(t).rows[1] = <<>>
         /\ ~NewTable(t).dirty
<1>1. <<<<>>>> \in Seq(EntityLists) /\ <<<<>>>> \in Seq(KeyLists) /\ <<<<>>>> # <<>>
  BY DEF EntityLists, KeyLists
<1>2. DOMAIN NewTable(t).rows = {1} /\ NewTable(t).rows[1] = <<>>
  BY DEF NewTable
<1>3. IsRows(NewTable(t).rows)
  BY <1>1, StoreAssumption DEF IsRows, NewTable
<1>4. IsKeys(NewTable(t).keys, NewTable(t).rows)
  BY <1>1 DEF IsKeys, NewTable
<1>5. NewPage \in PageSet /\ Len(NewPage.cells) = 0
  BY DEF PageSet, NewPage
<1>6. ASSUME NEW c \in t PROVE IsColumn(NewTable(t).columns[c], NewTable(t).rows)
  BY <1>2, <1>5, <1>6 DEF IsColumn, NewTable
<1> QED BY <1>2, <1>3, <1>4, <1>6 DEF IsTable, NewTable, TableFields

(* A page of a table is as it was in another.                              *)
SamePage(u, v, p) ==
  /\ u.rows[p] = v.rows[p] /\ u.keys[p] = v.keys[p]
  /\ \A c \in DOMAIN v.columns : u.columns[c][p] = v.columns[c][p]

SameStamps(u, v) ==
  u.arrived = v.arrived /\ u.left = v.left /\ u.sortedAt = v.sortedAt /\ u.keyedBy = v.keyedBy

(* WithRoom leaves every page as it was, and room on the last: make_room.   *)
LEMMA WithRoomIs ==
  ASSUME NEW t, NEW table, IsTable(table, t), NEW u, u = WithRoom(table)
  PROVE  /\ IsTable(u, t) /\ Len(Last(u.rows)) < PageRows
         /\ DOMAIN table.rows \subseteq DOMAIN u.rows
         /\ \A p \in DOMAIN table.rows : SamePage(u, table, p)
         /\ \A p \in DOMAIN u.rows \ DOMAIN table.rows : u.rows[p] = <<>>
         /\ SameStamps(u, table) /\ u.dirty = table.dirty
<1> DEFINE full == ~(Len(Last(table.rows)) < PageRows)
<1>1. CASE ~full
  BY <1>1 DEF WithRoom, SamePage, SameStamps
<1>2. CASE full
  <2>1. /\ u.rows = Append(table.rows, <<>>) /\ u.keys = Append(table.keys, <<>>)
        /\ u.columns = [c \in t |-> Append(table.columns[c], NewPage)]
        /\ DOMAIN u = TableFields
        /\ SameStamps(u, table) /\ u.dirty = table.dirty
    BY <1>2 DEF WithRoom, IsTable, TableFields, SameStamps
  <2> DEFINE n == Len(table.rows)
  <2>2. /\ n \in Nat /\ DOMAIN table.rows = 1..n
        /\ u.rows \in Seq(EntityLists) /\ DOMAIN u.rows = 1..n + 1 /\ u.rows # <<>>
        /\ \A p \in 1..n : u.rows[p] = table.rows[p]
        /\ u.rows[n + 1] = <<>> /\ Len(u.rows) = n + 1
    <3>1. table.rows \in Seq(EntityLists) /\ <<>> \in EntityLists
      BY DEF IsTable, IsRows, EntityLists
    <3>2. u.rows \in Seq(EntityLists)
      BY <2>1, <3>1, Appended
    <3>3. Len(u.rows) = n + 1 /\ DOMAIN table.rows = 1..n
      BY <2>1, <3>1, Appended
    <3> QED BY <2>1, <3>1, <3>2, <3>3, Appended
  <2> HIDE DEF n
  <2>3. /\ u.keys \in Seq(KeyLists) /\ DOMAIN u.keys = 1..n + 1
        /\ \A p \in 1..n : u.keys[p] = table.keys[p]
        /\ u.keys[n + 1] = <<>>
    <3>1. table.keys \in Seq(KeyLists) /\ <<>> \in KeyLists /\ DOMAIN table.keys = 1..n
      BY <2>2 DEF IsTable, IsKeys, KeyLists
    <3>2. n = Len(table.keys)
      BY <2>2, <3>1
    <3> QED BY <2>1, <3>1, <3>2, Appended
  <2>4. ASSUME NEW c \in t
        PROVE  /\ u.columns[c] \in Seq(PageSet) /\ DOMAIN u.columns[c] = 1..n + 1
               /\ \A p \in 1..n : u.columns[c][p] = table.columns[c][p]
               /\ u.columns[c][n + 1].cells = <<>>
    <3>1. table.columns[c] \in Seq(PageSet) /\ DOMAIN table.columns[c] = 1..n
      BY <2>2 DEF IsTable, IsColumn
    <3>2. NewPage \in PageSet /\ NewPage.cells = <<>>
      BY DEF PageSet, NewPage
    <3>3. n = Len(table.columns[c])
      BY <2>2, <3>1
    <3>4. u.columns[c] = Append(table.columns[c], NewPage)
      BY <2>1
    <3> QED BY <3>1, <3>2, <3>3, <3>4, Appended
  <2>5. ASSUME NEW p \in DOMAIN table.rows PROVE SamePage(u, table, p)
    BY <2>2, <2>3, <2>4 DEF SamePage, IsTable
  <2>0. \A p \in 1..n + 1 : p = n + 1 \/ p \in 1..n
    BY <2>2
  <2>6. IsRows(u.rows)
    <3>2. \A p \in 1..n : Len(u.rows[p]) <= PageRows
      BY <2>2 DEF IsTable, IsRows
    <3>3. Len(u.rows[n + 1]) <= PageRows
      BY <2>2, StoreAssumption
    <3> QED BY <2>0, <2>2, <3>2, <3>3 DEF IsRows
  <2>7. IsKeys(u.keys, u.rows)
    <3>2. \A p \in 1..n : Len(u.keys[p]) = Len(u.rows[p])
      BY <2>2, <2>3 DEF IsTable, IsKeys
    <3> QED BY <2>0, <2>2, <2>3, <3>2 DEF IsKeys
  <2>8. ASSUME NEW c \in t PROVE IsColumn(u.columns[c], u.rows)
    <3>2. \A p \in 1..n : Len(table.columns[c][p].cells) = Len(table.rows[p])
      BY <2>2 DEF IsTable, IsColumn
    <3>3. \A p \in 1..n : Len(u.columns[c][p].cells) = Len(u.rows[p])
      BY <2>2, <2>4, <3>2
    <3> QED BY <2>0, <2>2, <2>4, <3>3 DEF IsColumn
  <2>9. IsTable(u, t)
    BY <2>1, <2>6, <2>7, <2>8 DEF IsTable, SameStamps
  <2>10. Last(u.rows) = <<>>
    BY <2>2 DEF Last
  <2>11. \A p \in DOMAIN u.rows \ DOMAIN table.rows : u.rows[p] = <<>>
    BY <2>0, <2>2
  <2>12. DOMAIN table.rows \subseteq DOMAIN u.rows
    BY <2>2
  <2> QED BY <2>1, <2>5, <2>9, <2>10, <2>11, <2>12, StoreAssumption
<1> QED BY <1>1, <1>2

(* A page with one more cell.                                              *)
LEMMA PushCellIs ==
  ASSUME NEW page \in PageSet, NEW cell \in CellSet, NEW n, n = Len(page.cells),
         NEW y, y = PushCell(page, cell)
  PROVE  /\ y \in PageSet /\ n \in Nat /\ Len(y.cells) = n + 1 /\ DOMAIN y.cells = 1..n + 1
         /\ DOMAIN page.cells = 1..n /\ y.cells[n + 1] = cell
         /\ \A r \in 1..n : y.cells[r] = page.cells[r]
         /\ y.written >= page.written /\ y.written >= cell.tick
<1>1. y.cells = Append(page.cells, cell) /\ y.written = Greater(page.written, cell.tick)
      /\ DOMAIN y = {"cells", "written"} /\ y = [cells |-> y.cells, written |-> y.written]
  BY DEF PushCell
<1>2. page.cells \in Seq(CellSet) /\ page.written \in Nat /\ cell.tick \in Nat
      /\ \A r \in DOMAIN page.cells : page.cells[r].tick <= page.written
  BY DEF PageSet, CellSet
<1>3. /\ n \in Nat /\ DOMAIN page.cells = 1..n /\ y.cells \in Seq(CellSet)
      /\ Len(y.cells) = n + 1 /\ DOMAIN y.cells = 1..n + 1
      /\ y.cells[n + 1] = cell /\ \A r \in 1..n : y.cells[r] = page.cells[r]
  BY <1>1, <1>2, Appended
<1>4. y.written \in Nat /\ y.written >= page.written /\ y.written >= cell.tick
  BY <1>1, <1>2 DEF Greater
<1>5. ASSUME NEW r \in 1..n + 1 PROVE y.cells[r].tick <= y.written
  <2>1. CASE r = n + 1
    BY <1>3, <1>4, <2>1
  <2>2. CASE r # n + 1
    <3>1. r \in 1..n
      BY <1>3, <2>2
    <3>2. page.cells[r] \in CellSet /\ y.cells[r] = page.cells[r] /\ page.cells[r].tick <= page.written
      BY <1>2, <1>3, <3>1
    <3>3. page.cells[r].tick \in Nat
      BY <3>2 DEF CellSet
    <3> QED BY <1>2, <1>4, <3>2, <3>3
  <2> QED BY <2>1, <2>2
<1>6. y \in PageSet
  BY <1>1, <1>3, <1>4, <1>5 DEF PageSet
<1> QED BY <1>3, <1>4, <1>6

(* Everything on a table's last page but its last row is as it was.        *)
IsWithRow(u, table, t, P, n, e, cells, tick) ==
  /\ DOMAIN u.rows = DOMAIN table.rows /\ P \in DOMAIN table.rows
  /\ n \in Nat /\ DOMAIN u.rows[P] = 1..n + 1 /\ DOMAIN table.rows[P] = 1..n
  /\ \A p \in DOMAIN table.rows \ {P} : SamePage(u, table, p)
  /\ u.rows[P] = Append(table.rows[P], e) /\ u.keys[P] = Append(table.keys[P], LastKey)
  /\ u.rows[P][n + 1] = e /\ \A r \in 1..n : u.rows[P][r] = table.rows[P][r]
  /\ u.keys[P][n + 1] = LastKey /\ \A r \in 1..n : u.keys[P][r] = table.keys[P][r]
  /\ \A c \in t : u.columns[c][P] = PushCell(table.columns[c][P], cells[c])
  /\ u.arrived = tick /\ u.left = table.left /\ u.sortedAt = table.sortedAt
  /\ u.keyedBy = table.keyedBy /\ u.dirty = IsOrdered(t)

(* WithRow adds a row to the last page, and leaves the others: push_row.    *)
LEMMA WithRowIs ==
  ASSUME NEW t, NEW table, IsTable(table, t), Len(Last(table.rows)) < PageRows,
         NEW e \in Entity, NEW cells, DOMAIN cells = t, \A c \in t : cells[c] \in CellSet,
         NEW tick \in Nat, NEW u, u = WithRow(table, e, cells, tick),
         NEW P, P = Len(table.rows), NEW n, n = Len(table.rows[P])
  PROVE  IsTable(u, t) /\ IsWithRow(u, table, t, P, n, e, cells, tick)
<1>1. /\ u.rows = OnLast(table.rows, Append(Last(table.rows), e))
      /\ u.keys = OnLast(table.keys, Append(Last(table.keys), LastKey))
      /\ u.columns = [c \in t |-> OnLast(table.columns[c], PushCell(Last(table.columns[c]), cells[c]))]
      /\ DOMAIN u = TableFields
      /\ u.arrived = tick /\ u.left = table.left /\ u.sortedAt = table.sortedAt
      /\ u.keyedBy = table.keyedBy /\ u.dirty = IsOrdered(t)
  BY DEF WithRow, IsTable, TableFields, ComponentsOf
<1>2. /\ table.rows \in Seq(EntityLists) /\ table.rows # <<>> /\ P \in DOMAIN table.rows
      /\ P \in Nat /\ DOMAIN table.rows = 1..P
      /\ table.rows[P] = Last(table.rows) /\ table.rows[P] \in EntityLists
  <2>1. table.rows \in Seq(EntityLists) /\ table.rows # <<>>
    BY DEF IsTable, IsRows
  <2> QED BY <2>1, LastOf
<1>3. /\ n \in Nat /\ n < PageRows /\ DOMAIN table.rows[P] = 1..n
      /\ Append(table.rows[P], e) \in EntityLists /\ Len(Append(table.rows[P], e)) = n + 1
      /\ DOMAIN Append(table.rows[P], e) = 1..n + 1
  <2>1. table.rows[P] \in Seq(Entity)
    BY <1>2 DEF EntityLists
  <2> QED BY <1>2, <2>1, Appended DEF EntityLists
<1>5. /\ u.rows \in Seq(EntityLists) /\ DOMAIN u.rows = 1..P /\ u.rows # <<>>
      /\ u.rows[P] = Append(table.rows[P], e)
      /\ \A p \in 1..P : p # P => u.rows[p] = table.rows[p]
  <2>1. u.rows = OnLast(table.rows, Append(table.rows[P], e))
    BY <1>1, <1>2
  <2>2. u.rows \in Seq(EntityLists)
    BY <1>2, <1>3, <2>1, PutOnLast
  <2> QED BY <1>2, <1>3, <2>1, <2>2, LastOf DEF OnLast
<1>6. /\ u.keys \in Seq(KeyLists) /\ DOMAIN u.keys = 1..P
      /\ u.keys[P] = Append(table.keys[P], LastKey) /\ Len(u.keys[P]) = n + 1
      /\ \A p \in 1..P : p # P => u.keys[p] = table.keys[p]
  <2>1. table.keys \in Seq(KeyLists) /\ DOMAIN table.keys = 1..P /\ Len(table.keys[P]) = n
    BY <1>2 DEF IsTable, IsKeys
  <2>2. P = Len(table.keys) /\ table.keys # <<>>
    BY <1>2, <2>1
  <2>3. Last(table.keys) = table.keys[P] /\ table.keys[P] \in KeyLists
    BY <2>1, <2>2, LastOf
  <2>4. Append(table.keys[P], LastKey) \in KeyLists /\ Len(Append(table.keys[P], LastKey)) = n + 1
    BY <2>1, <2>3, Appended, StoreAssumption DEF KeyLists
  <2>5. u.keys = OnLast(table.keys, Append(table.keys[P], LastKey))
    BY <1>1, <2>3
  <2>6. u.keys \in Seq(KeyLists)
    BY <2>1, <2>2, <2>4, <2>5, PutOnLast
  <2> QED BY <2>1, <2>2, <2>4, <2>5, <2>6, LastOf DEF OnLast
<1>7. ASSUME NEW c \in t
      PROVE  /\ u.columns[c] \in Seq(PageSet) /\ DOMAIN u.columns[c] = 1..P
             /\ u.columns[c][P] = PushCell(table.columns[c][P], cells[c])
             /\ Len(u.columns[c][P].cells) = n + 1
             /\ \A p \in 1..P : p # P => u.columns[c][p] = table.columns[c][p]
  <2> DEFINE column == table.columns[c]
             x == PushCell(column[P], cells[c])
  <2>1. column \in Seq(PageSet) /\ DOMAIN column = 1..P /\ Len(column[P].cells) = n
    BY <1>2 DEF IsTable, IsColumn
  <2>2. P = Len(column) /\ column # <<>>
    BY <1>2, <2>1
  <2>3. Last(column) = column[P] /\ column[P] \in PageSet
    BY <2>1, <2>2, LastOf
  <2>4. x \in PageSet /\ Len(x.cells) = n + 1
    <3> DEFINE page == column[P]
    <3>1. page \in PageSet /\ n = Len(page.cells) /\ cells[c] \in CellSet
      BY <2>1, <2>3
    <3> HIDE DEF page
    <3> DEFINE cell == cells[c]
               y == PushCell(page, cell)
    <3>2. y = PushCell(page, cell) /\ x = y
      BY DEF page
    <3> HIDE DEF cell, y
    <3>3. y \in PageSet
      BY <3>1, <3>2, PushCellIs DEF cell
    <3>4. Len(y.cells) = n + 1
      BY <3>1, <3>2, PushCellIs DEF cell
    <3> QED BY <3>2, <3>3, <3>4
  <2>5. u.columns[c] = OnLast(column, x)
    BY <1>1, <2>3
  <2> HIDE DEF x, column
  <2>6. /\ u.columns[c] \in Seq(PageSet) /\ DOMAIN u.columns[c] = 1..P /\ u.columns[c][P] = x
        /\ \A p \in 1..P : p # P => u.columns[c][p] = column[p]
    <3>1. u.columns[c] \in Seq(PageSet)
      BY <2>1, <2>2, <2>4, <2>5, PutOnLast
    <3> QED BY <2>1, <2>2, <2>4, <2>5, <3>1, LastOf DEF OnLast
  <2> QED BY <2>4, <2>6 DEF x, column
<1>8. IsRows(u.rows)
  <2>1. ASSUME NEW p \in 1..P PROVE Len(u.rows[p]) <= PageRows
    <3>1. CASE p = P
      BY <1>3, <1>5, <3>1, StoreAssumption
    <3>2. CASE p # P
      BY <1>2, <1>5, <3>2 DEF IsTable, IsRows
    <3> QED BY <3>1, <3>2
  <2> QED BY <1>5, <2>1 DEF IsRows
<1>9. IsKeys(u.keys, u.rows)
  <2>1. ASSUME NEW p \in 1..P PROVE Len(u.keys[p]) = Len(u.rows[p])
    <3>1. CASE p = P
      BY <1>3, <1>5, <1>6, <3>1
    <3>2. CASE p # P
      BY <1>2, <1>5, <1>6, <3>2 DEF IsTable, IsKeys
    <3> QED BY <3>1, <3>2
  <2> QED BY <1>5, <1>6, <2>1 DEF IsKeys
<1>10. ASSUME NEW c \in t PROVE IsColumn(u.columns[c], u.rows)
  <2>1. ASSUME NEW p \in 1..P PROVE Len(u.columns[c][p].cells) = Len(u.rows[p])
    <3>1. CASE p = P
      BY <1>3, <1>5, <1>7, <3>1
    <3>2. CASE p # P
      <4>1. Len(table.columns[c][p].cells) = Len(table.rows[p])
        BY <1>2 DEF IsTable, IsColumn
      <4> QED BY <1>5, <1>7, <3>2, <4>1
    <3> QED BY <3>1, <3>2
  <2> QED BY <1>5, <1>7, <2>1 DEF IsColumn
<1>11. ASSUME NEW p \in DOMAIN table.rows \ {P} PROVE SamePage(u, table, p)
  BY <1>2, <1>5, <1>6, <1>7 DEF SamePage, IsTable
<1>12. IsTable(u, t)
  BY <1>1, <1>8, <1>9, <1>10 DEF IsTable, IsOrdered
<1>13. u.rows[P][n + 1] = e /\ \A r \in 1..n : u.rows[P][r] = table.rows[P][r]
  <2>1. table.rows[P] \in Seq(Entity)
    BY <1>2 DEF EntityLists
  <2> QED BY <1>5, <2>1, Appended
<1>14. u.keys[P][n + 1] = LastKey /\ \A r \in 1..n : u.keys[P][r] = table.keys[P][r]
  <2>1. table.keys[P] \in Seq(Int) /\ Len(table.keys[P]) = n /\ LastKey \in Int
    <3>1. IsKeys(table.keys, table.rows) /\ LastKey \in Int
      BY StoreAssumption DEF IsTable
    <3>2. table.keys \in Seq(KeyLists) /\ DOMAIN table.keys = DOMAIN table.rows
          /\ Len(table.keys[P]) = n
      BY <1>2, <3>1 DEF IsKeys
    <3>3. table.keys[P] \in KeyLists
      BY <1>2, <3>2
    <3> QED BY <3>1, <3>2, <3>3 DEF KeyLists
  <2> QED BY <1>6, <2>1, Appended
<1> QED BY <1>1, <1>2, <1>3, <1>5, <1>6, <1>7, <1>11, <1>12, <1>13, <1>14 DEF IsWithRow

-----------------------------------------------------------------------------

(* A page without a cell.                                                  *)
LEMMA DropCellIs ==
  ASSUME NEW page \in PageSet, NEW n, n = Len(page.cells), NEW row \in 1..n,
         NEW y, y = DropCell(page, row)
  PROVE  /\ y \in PageSet /\ n \in Nat /\ DOMAIN page.cells = 1..n
         /\ Len(y.cells) = n - 1 /\ DOMAIN y.cells = 1..n - 1
         /\ \A r \in 1..n - 1 : y.cells[r] = IF r = row THEN page.cells[n] ELSE page.cells[r]
         /\ y.written = page.written
<1>1. /\ DOMAIN page = {"cells", "written"} /\ page.cells \in Seq(CellSet) /\ page.written \in Nat
      /\ \A r \in DOMAIN page.cells : page.cells[r].tick <= page.written
  BY DEF PageSet
<1>2. /\ y.cells = SwapRemove(page.cells, row) /\ y.written = page.written
      /\ y = [cells |-> y.cells, written |-> y.written]
  BY <1>1 DEF DropCell
<1>3. /\ n \in Nat /\ DOMAIN page.cells = 1..n
      /\ y.cells \in Seq(CellSet) /\ Len(y.cells) = n - 1 /\ DOMAIN y.cells = 1..n - 1
      /\ \A r \in 1..n - 1 : y.cells[r] = IF r = row THEN page.cells[n] ELSE page.cells[r]
  BY <1>1, <1>2, SwapRemoved
<1>4. ASSUME NEW r \in 1..n - 1 PROVE y.cells[r].tick <= y.written
  BY <1>1, <1>2, <1>3
<1>5. y \in PageSet
  BY <1>1, <1>2, <1>3, <1>4 DEF PageSet
<1> QED BY <1>2, <1>3, <1>5

(* A page with another cell in the place of one.                           *)
LEMMA PutCellIs ==
  ASSUME NEW page \in PageSet, NEW n, n = Len(page.cells), NEW row \in 1..n,
         NEW cell \in CellSet, NEW y, y = PutCell(page, row, cell)
  PROVE  /\ y \in PageSet /\ n \in Nat /\ DOMAIN page.cells = 1..n
         /\ Len(y.cells) = n /\ DOMAIN y.cells = 1..n
         /\ \A r \in 1..n : y.cells[r] = IF r = row THEN cell ELSE page.cells[r]
         /\ y.written >= page.written /\ y.written >= cell.tick
<1>1. /\ DOMAIN page = {"cells", "written"} /\ page.cells \in Seq(CellSet) /\ page.written \in Nat
      /\ \A r \in DOMAIN page.cells : page.cells[r].tick <= page.written
      /\ cell.tick \in Nat
  BY DEF PageSet, CellSet
<1>2. /\ y.cells = [page.cells EXCEPT ![row] = cell] /\ y.written = Greater(page.written, cell.tick)
      /\ y = [cells |-> y.cells, written |-> y.written]
  BY <1>1 DEF PutCell
<1>3. /\ n \in Nat /\ DOMAIN page.cells = 1..n
      /\ y.cells \in Seq(CellSet) /\ Len(y.cells) = n /\ DOMAIN y.cells = 1..n
      /\ \A r \in 1..n : y.cells[r] = IF r = row THEN cell ELSE page.cells[r]
  BY <1>1, <1>2
<1>4. y.written \in Nat /\ y.written >= page.written /\ y.written >= cell.tick
  BY <1>1, <1>2 DEF Greater
<1>5. ASSUME NEW r \in 1..n PROVE y.cells[r].tick <= y.written
  <2>1. page.cells[r].tick \in Nat /\ page.cells[r].tick <= page.written
    <3>1. r \in DOMAIN page.cells /\ page.cells[r] \in CellSet
      BY <1>1, <1>3
    <3>2. page.cells[r].tick \in Nat
      BY <3>1 DEF CellSet
    <3> QED BY <1>1, <3>1, <3>2
  <2> QED BY <1>1, <1>3, <1>4, <2>1
<1>6. y \in PageSet
  BY <1>1, <1>2, <1>3, <1>4, <1>5 DEF PageSet
<1> QED BY <1>3, <1>4, <1>6

(* A table without a row: who was last on its page is where it was.        *)
IsWithoutRow(u, table, t, P, n, row, tick) ==
  /\ DOMAIN u.rows = DOMAIN table.rows
  /\ n \in Nat /\ DOMAIN table.rows[P] = 1..n /\ DOMAIN u.rows[P] = 1..n - 1
  /\ \A p \in DOMAIN table.rows \ {P} : SamePage(u, table, p)
  /\ \A r \in 1..n - 1 :
       /\ u.rows[P][r] = IF r = row THEN table.rows[P][n] ELSE table.rows[P][r]
       /\ u.keys[P][r] = IF r = row THEN table.keys[P][n] ELSE table.keys[P][r]
  /\ \A c \in t : u.columns[c][P] = DropCell(table.columns[c][P], row)
  /\ u.left = tick /\ u.arrived = table.arrived /\ u.sortedAt = table.sortedAt
  /\ u.keyedBy = table.keyedBy /\ u.dirty = IsOrdered(t)

(* WithoutRow puts a page's last row where the one taken was, in the list   *)
(* of entities, in every column and in the keys: take_row's swap_remove.    *)
LEMMA WithoutRowIs ==
  ASSUME NEW t, NEW table, IsTable(table, t), NEW P \in DOMAIN table.rows,
         NEW n, n = Len(table.rows[P]), NEW row \in DOMAIN table.rows[P], NEW tick \in Nat,
         NEW u, u = WithoutRow(table, P, row, tick)
  PROVE  IsTable(u, t) /\ IsWithoutRow(u, table, t, P, n, row, tick)
<1>1. /\ u.rows = [table.rows EXCEPT ![P] = SwapRemove(table.rows[P], row)]
      /\ u.keys = [table.keys EXCEPT ![P] = SwapRemove(table.keys[P], row)]
      /\ u.columns = [c \in t |-> [table.columns[c] EXCEPT ![P] = DropCell(table.columns[c][P], row)]]
      /\ DOMAIN u = TableFields
      /\ u.left = tick /\ u.arrived = table.arrived /\ u.sortedAt = table.sortedAt
      /\ u.keyedBy = table.keyedBy /\ u.dirty = IsOrdered(t)
  <2>1. /\ u.rows = [table.rows EXCEPT ![P] = SwapRemove(@, row)]
        /\ u.keys = [table.keys EXCEPT ![P] = SwapRemove(@, row)]
        /\ u.columns = [c \in t |-> [table.columns[c] EXCEPT ![P] = DropCell(@, row)]]
        /\ DOMAIN u = TableFields
        /\ u.left = tick /\ u.arrived = table.arrived /\ u.sortedAt = table.sortedAt
        /\ u.keyedBy = table.keyedBy /\ u.dirty = IsOrdered(t)
    <3>1. DOMAIN table = TableFields /\ DOMAIN table.columns = t
      BY DEF IsTable
    <3>2. u.rows = [table.rows EXCEPT ![P] = SwapRemove(@, row)]
          /\ u.keys = [table.keys EXCEPT ![P] = SwapRemove(@, row)] /\ DOMAIN u = TableFields
      BY <3>1 DEF WithoutRow, TableFields
    <3>3. u.columns = [c \in DOMAIN table.columns |-> DropFrom(table.columns[c], P, row)]
      BY <3>1 DEF WithoutRow, TableFields
    <3> QED BY <3>1, <3>2, <3>3 DEF WithoutRow, TableFields, ComponentsOf, DropFrom
  <2> QED BY <2>1
<1>2. /\ table.rows \in Seq(EntityLists) /\ table.rows # <<>>
      /\ table.rows[P] \in EntityLists
  BY DEF IsTable, IsRows
<1>3. /\ n \in Nat /\ DOMAIN table.rows[P] = 1..n /\ row \in 1..n
      /\ SwapRemove(table.rows[P], row) \in EntityLists
      /\ Len(SwapRemove(table.rows[P], row)) = n - 1
      /\ DOMAIN SwapRemove(table.rows[P], row) = 1..n - 1
      /\ \A r \in 1..n - 1 : SwapRemove(table.rows[P], row)[r] =
                                IF r = row THEN table.rows[P][n] ELSE table.rows[P][r]
  <2>1. table.rows[P] \in Seq(Entity)
    BY <1>2 DEF EntityLists
  <2>2. n \in Nat /\ DOMAIN table.rows[P] = 1..n /\ row \in 1..n
    BY <2>1
  <2>3. SwapRemove(table.rows[P], row) \in Seq(Entity)
    BY <2>1, <2>2, SwapRemoved
  <2> QED BY <2>1, <2>2, <2>3, SwapRemoved DEF EntityLists
<1>4. table.keys \in Seq(KeyLists) /\ DOMAIN table.keys = DOMAIN table.rows /\ table.keys[P] \in Seq(Int)
      /\ Len(table.keys[P]) = n
  BY DEF IsTable, IsKeys, KeyLists
<1>5. /\ SwapRemove(table.keys[P], row) \in KeyLists
      /\ Len(SwapRemove(table.keys[P], row)) = n - 1
      /\ \A r \in 1..n - 1 : SwapRemove(table.keys[P], row)[r] =
                                IF r = row THEN table.keys[P][n] ELSE table.keys[P][r]
  <2> DEFINE k == table.keys[P]
  <2>1. k \in Seq(Int) /\ Len(k) = n /\ row \in 1..Len(k)
    BY <1>3, <1>4
  <2> HIDE DEF k
  <2>2. SwapRemove(k, row) \in Seq(Int)
    BY <2>1, SwapRemoved
  <2>3. Len(SwapRemove(k, row)) = n - 1
    BY <2>1, SwapRemoved
  <2>4. \A r \in 1..n - 1 : SwapRemove(k, row)[r] = IF r = row THEN k[n] ELSE k[r]
    <3>1. \A r \in 1..Len(k) - 1 : SwapRemove(k, row)[r] = IF r = row THEN k[Len(k)] ELSE k[r]
      BY <2>1, SwapRemoved, Zenon
    <3> QED BY <2>1, <3>1
  <2> QED BY <2>2, <2>3, <2>4 DEF KeyLists, k
<1>6. u.rows \in Seq(EntityLists) /\ DOMAIN u.rows = DOMAIN table.rows /\ u.rows # <<>>
      /\ u.rows[P] = SwapRemove(table.rows[P], row) /\ \A p \in DOMAIN table.rows \ {P} : u.rows[p] = table.rows[p]
  <2> DEFINE x == SwapRemove(table.rows[P], row)
  <2>1. x \in EntityLists /\ u.rows = [table.rows EXCEPT ![P] = x]
    BY <1>1, <1>3
  <2> HIDE DEF x
  <2>2. u.rows \in Seq(EntityLists) /\ DOMAIN u.rows = DOMAIN table.rows /\ u.rows[P] = x
        /\ \A p \in DOMAIN table.rows \ {P} : u.rows[p] = table.rows[p]
    BY <1>2, <2>1
  <2>3. u.rows # <<>>
    BY <1>2, <2>2
  <2> QED BY <2>2, <2>3 DEF x
<1>7. u.keys \in Seq(KeyLists) /\ DOMAIN u.keys = DOMAIN table.rows
      /\ u.keys[P] = SwapRemove(table.keys[P], row) /\ \A p \in DOMAIN table.rows \ {P} : u.keys[p] = table.keys[p]
  <2> DEFINE x == SwapRemove(table.keys[P], row)
  <2>1. x \in KeyLists /\ u.keys = [table.keys EXCEPT ![P] = x]
    BY <1>1, <1>5
  <2> HIDE DEF x
  <2>2. u.keys \in Seq(KeyLists) /\ DOMAIN u.keys = DOMAIN table.rows /\ u.keys[P] = x
        /\ \A p \in DOMAIN table.rows \ {P} : u.keys[p] = table.keys[p]
    BY <1>4, <2>1
  <2> QED BY <2>2 DEF x
<1>8. ASSUME NEW c \in t
      PROVE  /\ u.columns[c] \in Seq(PageSet) /\ DOMAIN u.columns[c] = DOMAIN table.rows
             /\ u.columns[c][P] = DropCell(table.columns[c][P], row)
             /\ Len(u.columns[c][P].cells) = n - 1
             /\ \A p \in DOMAIN table.rows \ {P} : u.columns[c][p] = table.columns[c][p]
  <2> DEFINE column == table.columns[c]
             page == column[P]
             x == DropCell(page, row)
  <2>1. column \in Seq(PageSet) /\ DOMAIN column = DOMAIN table.rows /\ n = Len(page.cells)
        /\ page \in PageSet
    BY DEF IsTable, IsColumn
  <2>2. u.columns[c] = [column EXCEPT ![P] = x]
    BY <1>1
  <2> HIDE DEF page
  <2>3. x \in PageSet
    BY <1>3, <2>1, DropCellIs
  <2>4. Len(x.cells) = n - 1
    BY <1>3, <2>1, DropCellIs
  <2> HIDE DEF x, column
  <2>5. /\ u.columns[c] \in Seq(PageSet) /\ DOMAIN u.columns[c] = DOMAIN table.rows
        /\ u.columns[c][P] = x
        /\ \A p \in DOMAIN table.rows \ {P} : u.columns[c][p] = column[p]
    BY <2>1, <2>2, <2>3
  <2> QED BY <2>4, <2>5 DEF x, column, page
<1>9. IsRows(u.rows)
  <2>1. ASSUME NEW p \in DOMAIN u.rows PROVE Len(u.rows[p]) <= PageRows
    <3>1. CASE p = P
      <4>1. n <= PageRows
        BY DEF IsTable, IsRows
      <4> QED BY <1>3, <1>6, <3>1, <4>1, StoreAssumption
    <3>2. CASE p # P
      BY <1>6, <3>2 DEF IsTable, IsRows
    <3> QED BY <3>1, <3>2
  <2> QED BY <1>6, <2>1 DEF IsRows
<1>10. IsKeys(u.keys, u.rows)
  <2>1. ASSUME NEW p \in DOMAIN u.rows PROVE Len(u.keys[p]) = Len(u.rows[p])
    <3>1. CASE p = P
      BY <1>3, <1>5, <1>6, <1>7, <3>1
    <3>2. CASE p # P
      BY <1>6, <1>7, <3>2 DEF IsTable, IsKeys
    <3> QED BY <3>1, <3>2
  <2> QED BY <1>6, <1>7, <2>1 DEF IsKeys
<1>11. ASSUME NEW c \in t PROVE IsColumn(u.columns[c], u.rows)
  <2>1. ASSUME NEW p \in DOMAIN u.rows PROVE Len(u.columns[c][p].cells) = Len(u.rows[p])
    <3>1. CASE p = P
      BY <1>3, <1>6, <1>8, <3>1
    <3>2. CASE p # P
      <4>1. Len(table.columns[c][p].cells) = Len(table.rows[p])
        BY <1>6 DEF IsTable, IsColumn
      <4> QED BY <1>6, <1>8, <3>2, <4>1
    <3> QED BY <3>1, <3>2
  <2> QED BY <1>6, <1>8, <2>1 DEF IsColumn
<1>12. ASSUME NEW p \in DOMAIN table.rows \ {P} PROVE SamePage(u, table, p)
  BY <1>6, <1>7, <1>8 DEF SamePage, IsTable
<1>13. IsTable(u, t)
  BY <1>1, <1>9, <1>10, <1>11 DEF IsTable, IsOrdered
<1>14. \A c \in t : u.columns[c][P] = DropCell(table.columns[c][P], row)
  BY <1>8
<1>15. \A r \in 1..n - 1 :
              /\ u.rows[P][r] = IF r = row THEN table.rows[P][n] ELSE table.rows[P][r]
              /\ u.keys[P][r] = IF r = row THEN table.keys[P][n] ELSE table.keys[P][r]
  BY <1>3, <1>5, <1>6, <1>7
<1> QED BY <1>1, <1>3, <1>6, <1>12, <1>13, <1>14, <1>15 DEF IsWithoutRow

-----------------------------------------------------------------------------
(* Orders of finitely many, and the keys of a table.                        *)

(* Some numbers have a least.                                               *)
LEMMA LeastOfNats ==
  ASSUME NEW T \in SUBSET Nat, T # {}
  PROVE  \E x \in T : \A y \in T : x <= y
<1> DEFINE R == OpToRel(<, Nat)
<1>1. IsWellFoundedOn(R, Nat)
  BY NatLessThanWellFounded
<1>2. R = {p \in Nat \X Nat : p[1] < p[2]}
  BY DEF OpToRel
<1> HIDE DEF R
<1>3. \E x \in T : \A y \in T : <<y, x>> \notin R
  BY <1>1, WFMin
<1>4. ASSUME NEW x \in T, \A y \in T : <<y, x>> \notin R, NEW y \in T
      PROVE  x <= y
  <2>1. ~ (y < x)
    BY <1>2, <1>4
  <2> QED BY <2>1
<1> QED BY <1>3, <1>4

(* Induction over the numbers, for a set.                                  *)
LEMMA ByInduction ==
  ASSUME NEW T, 0 \in T, \A n \in Nat : n \in T => n + 1 \in T
  PROVE  Nat \subseteq T
<1> SUFFICES ASSUME Nat \ T # {} PROVE FALSE
  OBVIOUS
<1>1. PICK x \in Nat \ T : \A y \in Nat \ T : x <= y
  BY LeastOfNats
<1>2. x # 0 /\ x - 1 \in Nat /\ x - 1 \notin T
  BY <1>1
<1>3. x <= x - 1
  BY <1>1, <1>2
<1> QED BY <1>1, <1>3

(* A finite set has a least element under a total order R of it, and can   *)
(* be put in its order.                                                    *)
Orders(R, S) ==
  /\ \A a, b \in S : a # b => <<a, b>> \in R \/ <<b, a>> \in R
  /\ \A a, b, c \in S : <<a, b>> \in R /\ <<b, c>> \in R => <<a, c>> \in R

(* What is ordered has a least, if there are finitely many.                 *)
LEMMA LeastExists ==
  ASSUME NEW R, NEW S, Orders(R, S), NEW U \in SUBSET S, IsFiniteSet(U), U # {}
  PROVE  \E m \in U : \A y \in U \ {m} : <<m, y>> \in R
<1> DEFINE Least(V) == \E m \in V : \A y \in V \ {m} : <<m, y>> \in R
           Has(n) == \A V \in SUBSET S : IsFiniteSet(V) /\ Cardinality(V) = n + 1 => Least(V)
           T == {n \in Nat : Has(n)}
<1>1. 0 \in T
  <2>1. ASSUME NEW V \in SUBSET S, IsFiniteSet(V), Cardinality(V) = 1 PROVE Least(V)
    <3>1. PICK x : V = {x}
      BY <2>1, FS_Singleton
    <3> QED BY <3>1
  <2> HIDE DEF Least
  <2>2. Has(0)
    BY <2>1
  <2> HIDE DEF Has
  <2> QED BY <2>2
<1>2. ASSUME NEW n \in Nat, n \in T PROVE n + 1 \in T
  <2>0. Has(n)
    <3> HIDE DEF Has
    <3> QED BY <1>2
  <2>1. ASSUME NEW V \in SUBSET S, IsFiniteSet(V), Cardinality(V) = n + 1 + 1 PROVE Least(V)
    <3>1. V # {}
      BY <2>1, FS_EmptySet
    <3>2. PICK x : x \in V
      BY <3>1
    <3> DEFINE W == V \ {x}
    <3>3. W \in SUBSET S /\ IsFiniteSet(W) /\ Cardinality(W) = n + 1
      BY <2>1, <3>2, FS_RemoveElement
    <3>4. PICK m \in W : \A y \in W \ {m} : <<m, y>> \in R
      <4> HIDE DEF W
      <4> QED BY <2>0, <3>3
    <3>5. CASE <<x, m>> \in R
      BY <3>2, <3>4, <3>5 DEF Orders
    <3>6. CASE <<x, m>> \notin R
      BY <3>2, <3>4, <3>6 DEF Orders
    <3> QED BY <3>5, <3>6
  <2> HIDE DEF Least
  <2>2. Has(n + 1)
    BY <2>1
  <2> HIDE DEF Has
  <2> QED BY <2>2
<1>3. Nat \subseteq T
  <2> HIDE DEF T
  <2> QED BY <1>1, <1>2, ByInduction
<1>4. Cardinality(U) - 1 \in Nat /\ Cardinality(U) - 1 + 1 = Cardinality(U)
  <2>1. Cardinality(U) \in Nat /\ Cardinality(U) # 0
    BY FS_CardinalityType, FS_EmptySet
  <2> QED BY <2>1
<1>5. Has(Cardinality(U) - 1)
  <2> HIDE DEF Has
  <2> QED BY <1>3, <1>4
<1> QED BY <1>4, <1>5

SortedBy(order, R) ==
  IsInjective(order) /\ \A i, j \in DOMAIN order : i < j => <<order[i], order[j]>> \in R

(* What is ordered, of finitely many, can be put in a sequence in that      *)
(* order.                                                                   *)
LEMMA SortExists ==
  ASSUME NEW R, NEW S, IsFiniteSet(S), Orders(R, S)
  PROVE  \E order \in [1..Cardinality(S) -> S] : SortedBy(order, R)
<1> DEFINE Sortable(V) == \E order \in [1..Cardinality(V) -> V] : SortedBy(order, R)
           Has(n) == \A V \in SUBSET S : IsFiniteSet(V) /\ Cardinality(V) = n => Sortable(V)
           T == {n \in Nat : Has(n)}
<1>1. 0 \in T
  <2>1. ASSUME NEW V \in SUBSET S, IsFiniteSet(V), Cardinality(V) = 0 PROVE Sortable(V)
    <3> DEFINE order == [i \in 1..0 |-> i]
    <3>1. order \in [1..Cardinality(V) -> V] /\ DOMAIN order = {}
      BY <2>1
    <3>2. SortedBy(order, R)
      BY <3>1 DEF SortedBy, IsInjective
    <3> QED BY <3>1, <3>2
  <2> HIDE DEF Sortable
  <2>2. Has(0)
    BY <2>1
  <2> HIDE DEF Has
  <2> QED BY <2>2
<1>2. ASSUME NEW n \in Nat, n \in T PROVE n + 1 \in T
  <2>0. Has(n)
    <3> HIDE DEF Has
    <3> QED BY <1>2
  <2>1. ASSUME NEW V \in SUBSET S, IsFiniteSet(V), Cardinality(V) = n + 1 PROVE Sortable(V)
    <3>1. V # {}
      BY <2>1, FS_EmptySet
    <3>2. PICK m \in V : \A y \in V \ {m} : <<m, y>> \in R
      BY <2>1, <3>1, LeastExists
    <3> DEFINE W == V \ {m}
    <3>3. W \in SUBSET S /\ IsFiniteSet(W) /\ Cardinality(W) = n
      <4>1. IsFiniteSet(W) /\ Cardinality(W) = Cardinality(V) - 1
        BY <2>1, <3>2, FS_RemoveElement
      <4> QED BY <2>1, <4>1
    <3>4. PICK order \in [1..n -> W] : SortedBy(order, R)
      <4> HIDE DEF W
      <4> QED BY <2>0, <3>3
    <3> DEFINE all == [i \in 1..n + 1 |-> IF i = 1 THEN m ELSE order[i - 1]]
    <3>5. \A i \in 1..n + 1 : i = 1 \/ i - 1 \in 1..n
      OBVIOUS
    <3>6. all \in [1..Cardinality(V) -> V]
      BY <2>1, <3>5
    <3>7. ASSUME NEW i \in 1..n + 1, NEW j \in 1..n + 1, i < j
          PROVE  <<all[i], all[j]>> \in R /\ all[i] # all[j]
      <4>1. j - 1 \in 1..n /\ all[j] = order[j - 1] /\ all[j] \in W
        BY <3>5, <3>7
      <4>2. CASE i = 1
        BY <3>2, <4>1, <4>2
      <4>3. CASE i # 1
        <5>1. i - 1 \in 1..n /\ all[i] = order[i - 1] /\ i - 1 < j - 1
          BY <3>5, <3>7, <4>3
        <5> HIDE DEF all, W
        <5>2. DOMAIN order = 1..n /\ i - 1 # j - 1
          BY <3>4, <5>1
        <5>3. <<order[i - 1], order[j - 1]>> \in R
          BY <3>4, <4>1, <5>1, <5>2 DEF SortedBy
        <5>4. order[i - 1] # order[j - 1]
          BY <3>4, <4>1, <5>1, <5>2 DEF SortedBy, IsInjective
        <5> QED BY <4>1, <5>1, <5>3, <5>4
      <4> QED BY <4>2, <4>3
    <3>8. DOMAIN all = 1..n + 1
      OBVIOUS
    <3> HIDE DEF all
    <3>9. SortedBy(all, R)
      <4>1. ASSUME NEW i \in 1..n + 1, NEW j \in 1..n + 1, all[i] = all[j] PROVE i = j
        <5>1. i < j \/ j < i \/ i = j
          OBVIOUS
        <5>2. ~(i < j)
          BY <3>7, <4>1
        <5>3. ~(j < i)
          BY <3>7, <4>1
        <5> QED BY <5>1, <5>2, <5>3
      <4> QED BY <3>7, <3>8, <4>1 DEF SortedBy, IsInjective
    <3> QED BY <3>6, <3>9
  <2> HIDE DEF Sortable
  <2>2. Has(n + 1)
    BY <2>1
  <2> HIDE DEF Has
  <2> QED BY <2>2
<1>3. Nat \subseteq T
  <2> HIDE DEF T
  <2> QED BY <1>1, <1>2, ByInduction
<1>4. Cardinality(S) \in Nat
  BY FS_CardinalityType
<1>5. Has(Cardinality(S))
  <2> HIDE DEF Has
  <2> QED BY <1>3, <1>4
<1> QED BY <1>5

-----------------------------------------------------------------------------
PlaceOf(a, rows) == a = <<a[1], a[2]>> /\ a[1] \in DOMAIN rows /\ a[2] \in DOMAIN rows[a[1]]

(* A place is a page and a row of it.                                       *)
LEMMA PlacesAre ==
  ASSUME NEW rows
  PROVE  /\ \A p \in DOMAIN rows : \A r \in DOMAIN rows[p] : <<p, r>> \in Places(rows)
         /\ \A a \in Places(rows) : PlaceOf(a, rows)
BY DEF Places, PlaceOf

(* There are finitely many places.                                          *)
LEMMA PlacesFinite ==
  ASSUME NEW rows, IsRows(rows)
  PROVE  IsFiniteSet(Places(rows))
<1> DEFINE B == (1..Len(rows)) \X (1..PageRows)
<1>1. rows \in Seq(EntityLists) /\ DOMAIN rows = 1..Len(rows) /\ Len(rows) \in Nat
  BY DEF IsRows
<1>2. \A p \in DOMAIN rows : rows[p] \in Seq(Entity) /\ Len(rows[p]) <= PageRows
  BY <1>1 DEF IsRows, EntityLists
<1>3. \A p \in DOMAIN rows : \A r \in DOMAIN rows[p] : r \in 1..PageRows
  BY <1>2, StoreAssumption
<1>4. Places(rows) \subseteq B
  BY <1>1, <1>3 DEF Places
<1>5. IsFiniteSet(1..Len(rows)) /\ IsFiniteSet(1..PageRows)
  BY <1>1, FS_Interval, StoreAssumption
<1>6. IsFiniteSet(B)
  BY <1>5, FS_Product
<1> HIDE DEF B
<1> QED BY <1>4, <1>6, FS_Subset

(* No two rows are of entities with one index.                             *)
Distinct(rows) ==
  \A a, b \in Places(rows) : rows[a[1]][a[2]].index = rows[b[1]][b[2]].index => a = b

(* A table's keys, and where they are equal its entities, order its rows.   *)
LEMMA KeysOrder ==
  ASSUME NEW t, NEW table, IsTable(table, t), Distinct(table.rows),
         NEW P, P = Places(table.rows), NEW R, R = {x \in P \X P : Before(table, x[1], x[2])}
  PROVE  Orders(R, P)
<1>1. ASSUME NEW a \in P
      PROVE  table.keys[a[1]][a[2]] \in Int /\ table.rows[a[1]][a[2]] \in Entity
  <2>1. a[1] \in DOMAIN table.rows /\ a[2] \in DOMAIN table.rows[a[1]]
    BY <1>1, PlacesAre DEF PlaceOf
  <2>2. table.rows[a[1]] \in EntityLists
    BY <2>1 DEF IsTable, IsRows
  <2>3. table.keys[a[1]] \in KeyLists /\ Len(table.keys[a[1]]) = Len(table.rows[a[1]])
    BY <2>1 DEF IsTable, IsKeys
  <2> QED BY <2>1, <2>2, <2>3 DEF EntityLists, KeyLists
<1> DEFINE K(a) == table.keys[a[1]][a[2]]
           E(a) == table.rows[a[1]][a[2]]
<1>2. \A a, b \in P : Before(table, a, b) <=> K(a) < K(b) \/ (K(a) = K(b) /\ Older(E(a), E(b)))
  BY DEF Before
<1>3. \A a \in P : K(a) \in Int /\ E(a) \in Entity
  BY <1>1
<1>4. \A a, b \in P : E(a).index = E(b).index => a = b
  BY DEF Distinct
<1>5. \A a, b \in P : <<a, b>> \in R <=> Before(table, a, b)
  OBVIOUS
<1> HIDE DEF K, E
<1>6. \A a \in P : E(a).index \in Int /\ E(a).generation \in Int
  BY <1>3 DEF Entity, Index
<1>7. \A a, b \in P : a # b => Before(table, a, b) \/ Before(table, b, a)
  <2>1. ASSUME NEW a \in P, NEW b \in P, a # b
        PROVE  Before(table, a, b) \/ Before(table, b, a)
    <3>1. E(a).index # E(b).index
      BY <1>4, <2>1
    <3> QED BY <1>2, <1>3, <1>6, <3>1 DEF Older
  <2> QED BY <2>1
<1>8. \A a, b, c \in P : Before(table, a, b) /\ Before(table, b, c) => Before(table, a, c)
  BY <1>2, <1>3, <1>6 DEF Older
<1> QED BY <1>5, <1>7, <1>8 DEF Orders

(* The places of a table's rows, put in order.                             *)
LEMMA ByKeyIs ==
  ASSUME NEW t, NEW table, IsTable(table, t), Distinct(table.rows),
         NEW P, P = Places(table.rows), NEW n, n = Cardinality(P)
  PROVE  /\ n \in Nat /\ ByKey(table) \in [1..n -> P] /\ Sorts(ByKey(table), table)
         /\ \A a \in P : \E i \in 1..n : ByKey(table)[i] = a
<1> DEFINE R == {x \in P \X P : Before(table, x[1], x[2])}
<1>1. IsFiniteSet(P)
  BY PlacesFinite DEF IsTable
<1>2. n \in Nat
  BY <1>1, FS_CardinalityType
<1>3. Orders(R, P)
  BY KeysOrder
<1>4. \A a, b : <<a, b>> \in R => Before(table, a, b)
  OBVIOUS
<1> HIDE DEF R
<1>5. PICK order \in [1..n -> P] : SortedBy(order, R)
  BY <1>1, <1>3, SortExists
<1>6. Sorts(order, table)
  BY <1>4, <1>5 DEF SortedBy, Sorts
<1>7. ByKey(table) \in [1..n -> P] /\ Sorts(ByKey(table), table)
  <2>1. ByKey(table) = CHOOSE f \in [1..n -> P] : Sorts(f, table)
    BY DEF ByKey
  <2> QED BY <1>6, <2>1
<1> DEFINE f == ByKey(table)
<1> HIDE DEF f
<1>8. f \in Injection(1..n, P)
  BY <1>7 DEF f, Injection, Sorts, IsInjective
<1>9. Cardinality(1..n) = n
  BY <1>2, FS_Interval
<1>10. f \in Surjection(1..n, P)
  BY <1>1, <1>8, <1>9, FS_Injection
<1>11. \A a \in P : \E i \in 1..n : f[i] = a
  BY <1>10 DEF Surjection
<1> QED BY <1>2, <1>7, <1>11 DEF f

-----------------------------------------------------------------------------
(* Pages.                                                                   *)

(* How many pages a list of n goes into, how many are on one of them, and  *)
(* where in the list the r-th there is from.                               *)
PagesFor(n) == Greater(1, (n + PageRows - 1) \div PageRows)
OnPage(n, p) == IF p = PagesFor(n) THEN n - (p - 1) * PageRows ELSE PageRows
IndexIn(p, r) == (p - 1) * PageRows + r

(* What is paged has so many to a page, and on the last what is left.       *)
LEMMA PagesOf ==
  ASSUME NEW n \in Nat
  PROVE  /\ PagesFor(n) \in Nat \ {0}
         /\ \A p \in 1..PagesFor(n) :
              /\ OnPage(n, p) \in 0..PageRows
              /\ \A r \in 1..OnPage(n, p) : IndexIn(p, r) \in 1..n
         /\ \A k \in 1..n : \E p \in 1..PagesFor(n) : \E r \in 1..OnPage(n, p) : IndexIn(p, r) = k
<1> DEFINE R == PageRows
           q == (n + R - 1) \div R
           N == PagesFor(n)
<1>1. R \in Nat /\ R > 0
  BY StoreAssumption
<1>2. q \in Nat /\ n <= q * R /\ q * R < n + R
  <2> HIDE DEF R
  <2> QED BY <1>1
<1>3. N = Greater(1, q)
  BY DEF PagesFor
<1> HIDE DEF R, q
<1>4. CASE n = 0
  <2>1. q * R < R
    BY <1>1, <1>2, <1>4
  <2>2. q = 0
    BY <1>1, <1>2, <2>1
  <2>3. N = 1
    BY <1>3, <2>2 DEF Greater
  <2> HIDE DEF N
  <2>4. OnPage(n, 1) = 0
    <3>1. PagesFor(n) = 1 /\ (1 - 1) * PageRows = 0
      BY <1>1, <2>3 DEF N, R
    <3> QED BY <1>4, <3>1 DEF OnPage
  <2> QED BY <1>1, <1>4, <2>3, <2>4 DEF N, R
<1>5. CASE n # 0
  <2>1. q # 0
    BY <1>1, <1>2, <1>5
  <2>2. N = q
    BY <1>2, <1>3, <2>1 DEF Greater
  <2> HIDE DEF N
  <2>3. N \in Nat /\ N > 0 /\ n <= N * R /\ N * R < n + R
    BY <1>2, <2>1, <2>2
  <2>4. (N - 1) * R = N * R - R
    BY <1>1, <2>3
  <2>5. ASSUME NEW p \in 1..N
        PROVE  /\ OnPage(n, p) \in 0..R
               /\ \A r \in 1..OnPage(n, p) : IndexIn(p, r) \in 1..n
    <3> DEFINE b == (p - 1) * R
    <3>1. b \in Nat /\ (p # N => b + R <= (N - 1) * R)
      <4>1. p - 1 \in Nat
        OBVIOUS
      <4>2. b \in Nat
        BY <1>1, <4>1
      <4>3. ASSUME p # N PROVE b + R <= (N - 1) * R
        <5>1. p - 1 < N - 1 /\ N - 1 \in Nat
          BY <2>3, <4>3
        <5> QED BY <1>1, <4>1, <5>1
      <4> QED BY <4>2, <4>3
    <3>2. OnPage(n, p) = IF p = N THEN n - b ELSE R
      BY DEF OnPage, N, R
    <3>3. \A r : IndexIn(p, r) = b + r
      BY DEF IndexIn, R
    <3>4. p = N => b = (N - 1) * R
      OBVIOUS
    <3>5. OnPage(n, p) \in 0..R /\ b + OnPage(n, p) <= n
      <4> HIDE DEF b
      <4>1. CASE p = N
        BY <1>1, <2>3, <2>4, <3>1, <3>2, <3>4, <4>1
      <4>2. CASE p # N
        BY <1>1, <2>3, <2>4, <3>1, <3>2, <4>2
      <4> QED BY <4>1, <4>2
    <3> HIDE DEF b
    <3> QED BY <3>1, <3>3, <3>5
  <2>6. ASSUME NEW k \in 1..n
        PROVE  \E p \in 1..N : \E r \in 1..OnPage(n, p) : IndexIn(p, r) = k
    <3> DEFINE d == (k - 1) \div R
               m == (k - 1) % R
               p == d + 1
               r == m + 1
    <3>0. k - 1 \in Nat
      OBVIOUS
    <3>1. d \in Nat /\ k - 1 = d * R + m /\ m \in 0..R - 1
      <4> DEFINE j == k - 1
      <4>1. j \in Nat
        OBVIOUS
      <4> HIDE DEF j
      <4>2. j \div R \in Nat /\ j = (j \div R) * R + (j % R) /\ j % R \in 0..R - 1
        BY <1>1, <4>1
      <4> QED BY <4>2 DEF j
    <3> HIDE DEF d, m
    <3>2. d < N
      <4> SUFFICES ASSUME d >= N PROVE FALSE
        BY <2>3, <3>1
      <4>1. d * R >= N * R
        BY <1>1, <2>3, <3>1
      <4>2. d * R \in Nat /\ N * R \in Nat
        BY <1>1, <2>3, <3>1
      <4> QED BY <2>3, <3>1, <4>1, <4>2
    <3>3. p \in 1..N /\ p - 1 = d
      BY <2>3, <3>1, <3>2
    <3>4. d * R \in Nat
      BY <1>1, <3>1
    <3>5. r \in 1..OnPage(n, p)
      <4>1. OnPage(n, p) = IF p = N THEN n - d * R ELSE R
        BY <3>3 DEF OnPage, N, R
      <4> QED BY <1>1, <3>1, <3>4, <4>1
    <3>6. IndexIn(p, r) = k
      <4>1. IndexIn(p, r) = d * R + r
        BY <3>3 DEF IndexIn, R
      <4> QED BY <3>1, <3>4, <4>1
    <3> HIDE DEF p, r
    <3> QED BY <3>3, <3>5, <3>6
  <2> QED BY <2>3, <2>5, <2>6 DEF N, R
<1> QED BY <1>4, <1>5

(* What is on a sooner page, or sooner on the same, is sooner in the list. *)
LEMMA IndexInOrder ==
  ASSUME NEW p \in Nat \ {0}, NEW r \in 1..PageRows, NEW q \in Nat \ {0}, NEW w \in 1..PageRows
  PROVE  (p < q \/ (p = q /\ r < w)) => IndexIn(p, r) < IndexIn(q, w)
<1> DEFINE R == PageRows
           a == (p - 1) * R
           b == (q - 1) * R
<1>1. R \in Nat /\ R > 0
  BY StoreAssumption
<1>2. a \in Int /\ b \in Int /\ IndexIn(p, r) = a + r /\ IndexIn(q, w) = b + w
  BY <1>1 DEF IndexIn
<1>3. p < q => a + R <= b
  <2>1. p < q => p - 1 < q - 1 /\ p - 1 \in Nat /\ q - 1 \in Nat
    OBVIOUS
  <2> HIDE DEF R
  <2> QED BY <1>1, <2>1
<1>4. p = q => a = b
  OBVIOUS
<1>5. r <= R /\ r > 0 /\ w > 0 /\ r \in Int /\ w \in Int
  BY <1>1
<1> HIDE DEF a, b, R
<1> QED BY <1>1, <1>2, <1>3, <1>4, <1>5

(* A part of a list has what that has from there to there.                  *)
LEMMA SubSeqIs ==
  ASSUME NEW X, NEW list \in Seq(X), NEW a \in Nat \ {0}, NEW b \in Nat, a <= b + 1, b <= Len(list)
  PROVE  /\ SubSeq(list, a, b) \in Seq(X) /\ Len(SubSeq(list, a, b)) = b - a + 1
         /\ DOMAIN SubSeq(list, a, b) = 1..b - a + 1
         /\ \A r \in 1..b - a + 1 : SubSeq(list, a, b)[r] = list[a + r - 1]
<1>1. SubSeq(list, a, b) = [r \in 1..b - a + 1 |-> list[a + r - 1]]
  OBVIOUS
<1>2. b - a + 1 \in Nat /\ \A r \in 1..b - a + 1 : a + r - 1 \in 1..Len(list)
  OBVIOUS
<1>3. [r \in 1..b - a + 1 |-> list[a + r - 1]] \in Seq(X)
  BY <1>2
<1> QED BY <1>1, <1>2, <1>3

IsPaged(u, list, n, L) ==
  /\ DOMAIN u = 1..PagesFor(n) /\ u \in Seq(L) /\ u # <<>>
  /\ \A p \in 1..PagesFor(n) :
       /\ DOMAIN u[p] = 1..OnPage(n, p) /\ Len(u[p]) = OnPage(n, p)
       /\ \A r \in 1..OnPage(n, p) : u[p][r] = list[IndexIn(p, r)]

(* Paged keeps a list's elements and their order: ErasedColumn::gather's    *)
(* pages.                                                                   *)
LEMMA PagedIs ==
  ASSUME NEW X, NEW L, L = Seq(X), NEW list \in Seq(X), NEW n, n = Len(list), NEW u, u = Paged(list)
  PROVE  n \in Nat /\ IsPaged(u, list, n, L)
<1> DEFINE N == PagesFor(n)
           R == PageRows
           To(p) == IF p = N THEN n ELSE p * R
<1>1. n \in Nat /\ R \in Nat /\ R > 0
  BY StoreAssumption
<1>2. N \in Nat \ {0} /\ \A p \in 1..N : OnPage(n, p) \in 0..R
  BY <1>1, PagesOf
<1>3. u = [p \in 1..N |-> SubSeq(list, (p - 1) * R + 1, To(p))]
  BY DEF Paged, PagesFor
<1> HIDE DEF N
<1>4. ASSUME NEW p \in 1..N
      PROVE  /\ u[p] \in L /\ DOMAIN u[p] = 1..OnPage(n, p) /\ Len(u[p]) = OnPage(n, p)
             /\ \A r \in 1..OnPage(n, p) : u[p][r] = list[IndexIn(p, r)]
  <2> DEFINE b == (p - 1) * R
             a == b + 1
             t == To(p)
             m == OnPage(n, p)
  <2>1. b \in Nat /\ p * R = b + R
    <3>1. p - 1 \in Nat /\ p \in Nat
      BY <1>2
    <3> HIDE DEF R
    <3> QED BY <1>1, <3>1
  <2>2. m = (IF p = N THEN n - b ELSE R) /\ m \in 0..R
    BY <1>2 DEF OnPage, N
  <2>3. t = b + m
    <3> HIDE DEF b, R, m
    <3> QED BY <1>1, <2>1, <2>2
  <2>4. t <= n
    <3>1. \A r \in 1..m : b + r \in 1..n
      BY <1>1, PagesOf DEF N, IndexIn
    <3> HIDE DEF m, b, t
    <3>2. CASE m = 0
      <4>1. CASE p = N
        BY <1>1, <2>1, <2>2, <2>3, <3>2, <4>1
      <4>2. CASE p # N
        BY <1>1, <2>2, <3>2, <4>2
      <4> QED BY <4>1, <4>2
    <3>3. CASE m # 0
      <4>1. m \in 1..m
        BY <1>1, <2>2, <3>3
      <4> QED BY <2>3, <3>1, <4>1
    <3> QED BY <3>2, <3>3
  <2>5. u[p] = SubSeq(list, a, t)
    BY <1>3
  <2> HIDE DEF m, b, t
  <2>6. a \in Nat \ {0} /\ t \in Nat /\ a <= t + 1 /\ t <= Len(list) /\ t - a + 1 = m
    BY <1>1, <2>1, <2>2, <2>3, <2>4
  <2> HIDE DEF a
  <2>7. u[p] \in Seq(X)
    BY <2>5, <2>6, SubSeqIs
  <2>8. Len(u[p]) = m /\ DOMAIN u[p] = 1..m
    BY <2>5, <2>6, SubSeqIs
  <2>9. \A r \in 1..m : u[p][r] = list[a + r - 1]
    BY <2>5, <2>6, SubSeqIs
  <2>10. \A r \in 1..m : a + r - 1 = IndexIn(p, r)
    BY <1>1, <2>1, <2>2 DEF a, IndexIn, b, R
  <2> QED BY <2>7, <2>8, <2>9, <2>10 DEF m
<1>5. u \in Seq(L) /\ DOMAIN u = 1..N
  <2>1. \A p \in 1..N : u[p] \in L
    BY <1>4
  <2>2. u = [p \in 1..N |-> u[p]]
    BY <1>3
  <2> HIDE DEF To
  <2> QED BY <1>2, <2>1, <2>2
<1>6. u # <<>>
  BY <1>2, <1>5
<1> QED BY <1>1, <1>4, <1>5, <1>6 DEF N, IsPaged

-----------------------------------------------------------------------------

(* The stamp of a page of these cells.                                     *)
LEMMA WrittenAtIs ==
  ASSUME NEW cells \in Seq(CellSet)
  PROVE  WrittenAt(cells) \in Nat /\ \A r \in DOMAIN cells : cells[r].tick <= WrittenAt(cells)
<1> DEFINE n == Len(cells)
           T == {cells[r].tick : r \in 1..n}
           W == {0} \union T
           f == [r \in 1..n |-> cells[r].tick]
           R == {x \in Nat \X Nat : x[1] >= x[2]}
<1>1. n \in Nat /\ DOMAIN cells = 1..n /\ \A r \in 1..n : cells[r] \in CellSet
  OBVIOUS
<1>2. \A r \in 1..n : cells[r].tick \in Nat
  BY <1>1 DEF CellSet
<1>3. f \in Surjection(1..n, T)
  BY DEF Surjection
<1>4. IsFiniteSet(1..n)
  BY <1>1, FS_Interval
<1>5. IsFiniteSet(T)
  <2> HIDE DEF f, T, n
  <2> QED BY <1>3, <1>4, FS_Surjection
<1>6. IsFiniteSet(W)
  <2>1. W = T \union {0}
    OBVIOUS
  <2> HIDE DEF W, T
  <2> QED BY <1>5, <2>1, FS_AddElement
<1>7. W \in SUBSET Nat /\ W # {}
  BY <1>2
<1>8. Orders(R, Nat)
  BY DEF Orders
<1>9. PICK m \in W : \A y \in W \ {m} : <<m, y>> \in R
  <2> HIDE DEF W, R
  <2> QED BY <1>6, <1>7, <1>8, LeastExists
<1>10. ASSUME NEW y \in W PROVE m >= y
  <2> HIDE DEF W
  <2>1. CASE y = m
    BY <1>7, <2>1
  <2>2. CASE y # m
    BY <1>7, <1>9, <2>2
  <2> QED BY <2>1, <2>2
<1>11. WrittenAt(cells) = Max(W)
  BY <1>1 DEF WrittenAt
<1>12. Max(W) \in W /\ \A y \in W : Max(W) >= y
  <2> HIDE DEF W
  <2> QED BY <1>9, <1>10 DEF Max
<1>13. \A r \in 1..n : cells[r].tick \in W
  OBVIOUS
<1> HIDE DEF W, n
<1> QED BY <1>1, <1>2, <1>7, <1>11, <1>12, <1>13

(* Keyed changes the keys of rows that are keyed anew, and no row or cell:  *)
(* Resort::run's keys.                                                      *)
LEMMA KeyedIs ==
  ASSUME NEW t, NEW table, IsTable(table, t), IsOrdered(t), NEW b \in Nat, NEW tick \in Nat,
         NEW v, v = Keyed(table, b, tick)
  PROVE  /\ IsTable(v, t) /\ v.rows = table.rows /\ v.columns = table.columns
         /\ \A p \in DOMAIN table.rows : \A r \in DOMAIN table.rows[p] :
              v.keys[p][r] = IF KeyedAnew(table, p, r, b)
                             THEN Glue(b, table.columns[Key][p].cells[r].value)
                             ELSE table.keys[p][r]
         /\ ~v.dirty /\ v.sortedAt = tick /\ v.keyedBy = b
         /\ v.arrived = table.arrived /\ v.left = table.left
<1> DEFINE K(p, r) == IF KeyedAnew(table, p, r, b)
                      THEN Glue(b, table.columns[Key][p].cells[r].value)
                      ELSE table.keys[p][r]
<1>1. /\ v.keys = [p \in DOMAIN table.keys |-> [r \in DOMAIN table.keys[p] |-> K(p, r)]]
      /\ v.rows = table.rows /\ v.columns = table.columns /\ DOMAIN v = TableFields
      /\ v.dirty = FALSE /\ v.sortedAt = tick /\ v.keyedBy = b
      /\ v.arrived = table.arrived /\ v.left = table.left
  BY DEF IsTable, TableFields, Keyed
<1>2. ASSUME NEW p \in DOMAIN table.rows
      PROVE  /\ p \in DOMAIN table.keys /\ table.keys[p] \in Seq(Int)
             /\ DOMAIN table.keys[p] = DOMAIN table.rows[p]
             /\ Len(table.keys[p]) = Len(table.rows[p])
  <2>1. table.keys[p] \in Seq(Int) /\ Len(table.keys[p]) = Len(table.rows[p]) /\ p \in DOMAIN table.keys
    BY DEF IsTable, IsKeys, KeyLists
  <2>2. table.rows[p] \in Seq(Entity)
    BY DEF IsTable, IsRows, EntityLists
  <2> QED BY <2>1, <2>2
<1>3. ASSUME NEW p \in DOMAIN table.rows, NEW r \in DOMAIN table.rows[p] PROVE K(p, r) \in Int
  <2>1. table.keys[p][r] \in Int
    BY <1>2
  <2>2. /\ table.columns[Key] \in Seq(PageSet) /\ DOMAIN table.columns[Key] = DOMAIN table.rows
        /\ Len(table.columns[Key][p].cells) = Len(table.rows[p])
    BY DEF IsTable, IsColumn, IsOrdered
  <2>3. table.columns[Key][p] \in PageSet
    BY <2>2
  <2>4. table.columns[Key][p].cells \in Seq(CellSet)
    BY <2>3 DEF PageSet
  <2>5. table.columns[Key][p].cells[r] \in CellSet
    <3>1. table.rows[p] \in Seq(Entity)
      BY DEF IsTable, IsRows, EntityLists
    <3> QED BY <2>2, <2>4, <3>1
  <2>6. Glue(b, table.columns[Key][p].cells[r].value) \in Int
    BY <2>5, StoreAssumption DEF Glue, CellSet
  <2> QED BY <2>1, <2>6
<1> HIDE DEF K
<1>4. ASSUME NEW p \in DOMAIN table.rows
      PROVE  /\ v.keys[p] \in KeyLists /\ Len(v.keys[p]) = Len(table.rows[p])
             /\ \A r \in DOMAIN table.rows[p] : v.keys[p][r] = K(p, r)
  <2> DEFINE n == Len(table.keys[p])
  <2>1. v.keys[p] = [r \in 1..n |-> K(p, r)] /\ n \in Nat /\ DOMAIN table.rows[p] = 1..n
    BY <1>1, <1>2
  <2>2. \A r \in 1..n : K(p, r) \in Int
    BY <1>3, <2>1
  <2> HIDE DEF n
  <2>3. v.keys[p] \in Seq(Int) /\ Len(v.keys[p]) = n /\ \A r \in 1..n : v.keys[p][r] = K(p, r)
    BY <2>1, <2>2
  <2> QED BY <1>2, <2>1, <2>3 DEF KeyLists, n
<1>5. IsKeys(v.keys, table.rows)
  <2>1. table.keys \in Seq(KeyLists) /\ DOMAIN table.keys = DOMAIN table.rows
    BY DEF IsTable, IsKeys
  <2>2. DOMAIN v.keys = DOMAIN table.rows
    BY <1>1, <2>1
  <2>3. v.keys \in Seq(KeyLists)
    <3> DEFINE n == Len(table.keys)
               w == v.keys
    <3>1. n \in Nat /\ DOMAIN table.rows = 1..n
      BY <2>1
    <3>2. w = [p \in 1..n |-> w[p]]
      BY <1>1, <2>1, <3>1
    <3>3. \A p \in 1..n : w[p] \in KeyLists
      BY <1>4, <3>1
    <3> HIDE DEF n, w
    <3>4. w \in Seq(KeyLists)
      BY <3>1, <3>2, <3>3
    <3> QED BY <3>4 DEF w
  <2> QED BY <1>4, <2>2, <2>3 DEF IsKeys
<1>6. IsTable(v, t)
  BY <1>1, <1>5 DEF IsTable
<1> QED BY <1>1, <1>4, <1>6 DEF K

-----------------------------------------------------------------------------
(* A row of a table is one of another, with its key and its cells.         *)
IsOf(u, p, r, v, a) ==
  /\ u.rows[p][r] = v.rows[a[1]][a[2]] /\ u.keys[p][r] = v.keys[a[1]][a[2]]
  /\ \A c \in DOMAIN v.columns : u.columns[c][p].cells[r] = v.columns[c][a[1]].cells[a[2]]

IsGathered(u, column, order, n) ==
  /\ u \in Seq(PageSet) /\ DOMAIN u = 1..PagesFor(n)
  /\ \A p \in 1..PagesFor(n) :
       /\ Len(u[p].cells) = OnPage(n, p)
       /\ \A r \in 1..OnPage(n, p) :
            u[p].cells[r] = column[order[IndexIn(p, r)][1]].cells[order[IndexIn(p, r)][2]]

(* Gathered has each cell at the place it is gathered to, on pages stamped  *)
(* no earlier than they.                                                    *)
LEMMA GatheredIs ==
  ASSUME NEW rows, IsRows(rows), NEW column, IsColumn(column, rows),
         NEW n \in Nat, NEW order \in [1..n -> Places(rows)], NEW u, u = Gathered(column, order)
  PROVE  IsGathered(u, column, order, n)
<1> DEFINE Of(k) == column[order[k][1]].cells[order[k][2]]
           list == [k \in 1..n |-> Of(k)]
           g == Paged(list)
           L == Seq(CellSet)
<1>1. ASSUME NEW k \in 1..n PROVE Of(k) \in CellSet
  <2>1. order[k] \in Places(rows)
    OBVIOUS
  <2>2. order[k][1] \in DOMAIN rows /\ order[k][2] \in DOMAIN rows[order[k][1]]
    BY <2>1, PlacesAre DEF PlaceOf
  <2>3. column[order[k][1]] \in PageSet /\ Len(column[order[k][1]].cells) = Len(rows[order[k][1]])
    BY <2>2 DEF IsColumn
  <2>4. column[order[k][1]].cells \in Seq(CellSet)
    BY <2>3 DEF PageSet
  <2>5. rows[order[k][1]] \in Seq(Entity)
    BY <2>2 DEF IsRows, EntityLists
  <2> QED BY <2>2, <2>3, <2>4, <2>5
<1> HIDE DEF Of
<1>2. list \in Seq(CellSet) /\ Len(list) = n /\ \A k \in 1..n : list[k] = Of(k)
  BY <1>1
<1> HIDE DEF list
<1>3. /\ DOMAIN g = 1..PagesFor(n) /\ g \in Seq(L)
      /\ \A p \in 1..PagesFor(n) : Len(g[p]) = OnPage(n, p)
                               /\ \A r \in 1..OnPage(n, p) : g[p][r] = list[IndexIn(p, r)]
  <2>1. IsPaged(g, list, n, L)
    BY <1>2, PagedIs
  <2> HIDE DEF g, L
  <2> QED BY <2>1 DEF IsPaged
<1>4. u = [p \in DOMAIN g |-> [cells |-> g[p], written |-> WrittenAt(g[p])]]
  <2>1. DOMAIN order = 1..n
    OBVIOUS
  <2>2. [k \in DOMAIN order |-> column[order[k][1]].cells[order[k][2]]] = list
    BY <2>1 DEF list, Of
  <2> HIDE DEF g
  <2> QED BY <2>2 DEF Gathered, g
<1> HIDE DEF g
<1>5. ASSUME NEW p \in 1..PagesFor(n)
      PROVE  /\ u[p] \in PageSet /\ u[p].cells = g[p]
  <2>1. g[p] \in Seq(CellSet)
    <3> HIDE DEF L
    <3>1. g \in Seq(L) /\ p \in DOMAIN g
      BY <1>3
    <3>2. g[p] \in L
      BY <3>1
    <3> QED BY <3>2 DEF L
  <2>2. WrittenAt(g[p]) \in Nat /\ \A r \in DOMAIN g[p] : g[p][r].tick <= WrittenAt(g[p])
    BY <2>1, WrittenAtIs
  <2>3. u[p] = [cells |-> g[p], written |-> WrittenAt(g[p])]
    BY <1>3, <1>4
  <2> QED BY <2>1, <2>2, <2>3 DEF PageSet
<1>6. u \in Seq(PageSet) /\ DOMAIN u = 1..PagesFor(n)
  <2>1. DOMAIN u = 1..PagesFor(n) /\ u = [p \in 1..PagesFor(n) |-> u[p]]
    BY <1>3, <1>4
  <2>2. PagesFor(n) \in Nat
    BY PagesOf
  <2> QED BY <1>5, <2>1, <2>2
<1>7. \A p \in 1..PagesFor(n) : \A r \in 1..OnPage(n, p) : IndexIn(p, r) \in 1..n
  BY PagesOf
<1>8. ASSUME NEW p \in 1..PagesFor(n)
      PROVE  /\ Len(u[p].cells) = OnPage(n, p)
             /\ \A r \in 1..OnPage(n, p) : u[p].cells[r] = Of(IndexIn(p, r))
  BY <1>2, <1>3, <1>5, <1>7
<1> QED BY <1>6, <1>8 DEF Of, IsGathered

IsRearranged(u, v, order, n) ==
  /\ DOMAIN u.rows = 1..PagesFor(n)
  /\ \A p \in DOMAIN u.rows :
       /\ DOMAIN u.rows[p] = 1..OnPage(n, p)
       /\ \A r \in DOMAIN u.rows[p] :
            IndexIn(p, r) \in 1..n /\ IsOf(u, p, r, v, order[IndexIn(p, r)])
  /\ \A i \in 1..n : \E p \in DOMAIN u.rows : \E r \in DOMAIN u.rows[p] : IndexIn(p, r) = i
  /\ SameStamps(u, v) /\ u.dirty = v.dirty

(* Rearranged has each row, with its keys and cells, where the order puts   *)
(* it: what Resort::run rebuilds.                                           *)
LEMMA RearrangedIs ==
  ASSUME NEW t, NEW v, IsTable(v, t), NEW n \in Nat, NEW order \in [1..n -> Places(v.rows)],
         NEW u, u = Rearranged(v, order)
  PROVE  IsTable(u, t) /\ IsRearranged(u, v, order, n)
<1> DEFINE Row(k) == v.rows[order[k][1]][order[k][2]]
           KeyOf(k) == v.keys[order[k][1]][order[k][2]]
           rows == [k \in 1..n |-> Row(k)]
           keys == [k \in 1..n |-> KeyOf(k)]
           N == PagesFor(n)
<1>1. DOMAIN v = TableFields /\ IsRows(v.rows) /\ IsKeys(v.keys, v.rows) /\ DOMAIN v.columns = t
  BY DEF IsTable
<1>2. /\ u.rows = Paged(rows) /\ u.keys = Paged(keys)
      /\ u.columns = [c \in t |-> Gathered(v.columns[c], order)]
      /\ DOMAIN u = TableFields /\ SameStamps(u, v) /\ u.dirty = v.dirty
  <2>1. DOMAIN order = 1..n
    OBVIOUS
  <2> QED BY <1>1, <2>1 DEF Rearranged, TableFields, SameStamps
<1>3. ASSUME NEW k \in 1..n PROVE Row(k) \in Entity /\ KeyOf(k) \in Int
  <2>1. order[k] \in Places(v.rows)
    OBVIOUS
  <2>2. order[k][1] \in DOMAIN v.rows /\ order[k][2] \in DOMAIN v.rows[order[k][1]]
    BY <2>1, PlacesAre DEF PlaceOf
  <2>3. v.rows[order[k][1]] \in Seq(Entity)
    BY <1>1, <2>2 DEF IsRows, EntityLists
  <2>4. v.keys[order[k][1]] \in Seq(Int) /\ Len(v.keys[order[k][1]]) = Len(v.rows[order[k][1]])
    BY <1>1, <2>2 DEF IsKeys, KeyLists
  <2> QED BY <2>2, <2>3, <2>4
<1> HIDE DEF Row, KeyOf
<1>4. rows \in Seq(Entity) /\ Len(rows) = n /\ keys \in Seq(Int) /\ Len(keys) = n
      /\ \A k \in 1..n : rows[k] = Row(k) /\ keys[k] = KeyOf(k)
  BY <1>3
<1> HIDE DEF rows, keys, N
<1>5. /\ DOMAIN u.rows = 1..N /\ u.rows \in Seq(EntityLists) /\ u.rows # <<>>
      /\ \A p \in 1..N : /\ DOMAIN u.rows[p] = 1..OnPage(n, p) /\ Len(u.rows[p]) = OnPage(n, p)
                         /\ \A r \in 1..OnPage(n, p) : u.rows[p][r] = rows[IndexIn(p, r)]
  <2>1. IsPaged(u.rows, rows, n, EntityLists)
    BY <1>2, <1>4, PagedIs DEF EntityLists
  <2> QED BY <2>1 DEF IsPaged, N
<1>6. /\ DOMAIN u.keys = 1..N /\ u.keys \in Seq(KeyLists)
      /\ \A p \in 1..N : /\ Len(u.keys[p]) = OnPage(n, p)
                         /\ \A r \in 1..OnPage(n, p) : u.keys[p][r] = keys[IndexIn(p, r)]
  <2>1. IsPaged(u.keys, keys, n, KeyLists)
    BY <1>2, <1>4, PagedIs DEF KeyLists
  <2> QED BY <2>1 DEF IsPaged, N
<1>7. ASSUME NEW c \in t
      PROVE  /\ u.columns[c] \in Seq(PageSet) /\ DOMAIN u.columns[c] = 1..N
             /\ \A p \in 1..N :
                  /\ Len(u.columns[c][p].cells) = OnPage(n, p)
                  /\ \A r \in 1..OnPage(n, p) : u.columns[c][p].cells[r] =
                       v.columns[c][order[IndexIn(p, r)][1]].cells[order[IndexIn(p, r)][2]]
  <2> DEFINE w == u.columns[c]
             column == v.columns[c]
             vr == v.rows
  <2>1. w = Gathered(column, order) /\ IsColumn(column, vr) /\ IsRows(vr)
        /\ order \in [1..n -> Places(vr)]
    BY <1>1, <1>2 DEF IsTable
  <2> HIDE DEF w, column, vr
  <2>2. IsGathered(w, column, order, n)
    BY <2>1, GatheredIs
  <2> QED BY <2>2 DEF w, column, IsGathered, N
<1>8. /\ \A p \in 1..N : /\ OnPage(n, p) \in 0..PageRows
                         /\ \A r \in 1..OnPage(n, p) : IndexIn(p, r) \in 1..n
      /\ \A k \in 1..n : \E p \in 1..N : \E r \in 1..OnPage(n, p) : IndexIn(p, r) = k
  BY PagesOf DEF N
<1>9. IsRows(u.rows)
  BY <1>5, <1>8, StoreAssumption DEF IsRows
<1>10. IsKeys(u.keys, u.rows)
  BY <1>5, <1>6 DEF IsKeys
<1>11. ASSUME NEW c \in t PROVE IsColumn(u.columns[c], u.rows)
  BY <1>5, <1>7 DEF IsColumn
<1>12. IsTable(u, t)
  BY <1>2, <1>9, <1>10, <1>11 DEF IsTable, SameStamps
<1>13. ASSUME NEW p \in DOMAIN u.rows, NEW r \in DOMAIN u.rows[p]
       PROVE  IndexIn(p, r) \in 1..n /\ IsOf(u, p, r, v, order[IndexIn(p, r)])
  <2>1. p \in 1..N /\ r \in 1..OnPage(n, p) /\ IndexIn(p, r) \in 1..n
    BY <1>5, <1>8
  <2>2. u.rows[p][r] = Row(IndexIn(p, r)) /\ u.keys[p][r] = KeyOf(IndexIn(p, r))
    BY <1>4, <1>5, <1>6, <2>1
  <2>3. \A c \in t : u.columns[c][p].cells[r] =
          v.columns[c][order[IndexIn(p, r)][1]].cells[order[IndexIn(p, r)][2]]
    BY <1>7, <2>1
  <2> QED BY <1>1, <2>1, <2>2, <2>3 DEF IsOf, Row, KeyOf
<1>14. ASSUME NEW p \in DOMAIN u.rows PROVE DOMAIN u.rows[p] = 1..OnPage(n, p)
  BY <1>5
<1>15. ASSUME NEW i \in 1..n
       PROVE  \E p \in DOMAIN u.rows : \E r \in DOMAIN u.rows[p] : IndexIn(p, r) = i
  BY <1>5, <1>8, <1>14
<1>16. DOMAIN u.rows = 1..PagesFor(n)
  BY <1>5 DEF N
<1> QED BY <1>2, <1>12, <1>13, <1>14, <1>15, <1>16 DEF IsRearranged

-----------------------------------------------------------------------------

(* A table's rows are another's, with the keys and cells they have there.  *)
Permuted(u, v) ==
  /\ \A x \in Places(u.rows) : \E a \in Places(v.rows) : IsOf(u, x[1], x[2], v, a)
  /\ \A a \in Places(v.rows) : \E x \in Places(u.rows) : IsOf(u, x[1], x[2], v, a)
  /\ Distinct(u.rows)

(* A table whose rows are of different entities is a permutation of itself. *)
LEMMA PermutedSelf ==
  ASSUME NEW v, Distinct(v.rows)
  PROVE  Permuted(v, v)
BY DEF Permuted, IsOf

(* PutInOrder leaves the same rows with the same keys and cells, in order.  *)
LEMMA PutInOrderIs ==
  ASSUME NEW t, NEW v, IsTable(v, t), Distinct(v.rows), NEW u, u = PutInOrder(v)
  PROVE  /\ IsTable(u, t) /\ Permuted(u, v) /\ InOrder(u)
         /\ SameStamps(u, v) /\ u.dirty = v.dirty
<1>1. CASE InOrder(v)
  <2>1. u = v
    BY <1>1 DEF PutInOrder
  <2> QED BY <1>1, <2>1, PermutedSelf DEF SameStamps
<1>2. CASE ~InOrder(v)
  <2> DEFINE P == Places(v.rows)
             n == Cardinality(P)
             order == ByKey(v)
  <2>1. u = Rearranged(v, order)
    BY <1>2 DEF PutInOrder
  <2>2. n \in Nat /\ order \in [1..n -> P] /\ Sorts(order, v) /\ \A a \in P : \E i \in 1..n : order[i] = a
    BY ByKeyIs
  <2> HIDE DEF n, order
  <2>3. IsTable(u, t) /\ IsRearranged(u, v, order, n)
    BY <2>1, <2>2, RearrangedIs
  <2> DEFINE I(x) == IndexIn(x[1], x[2])
  <2>4. ASSUME NEW x \in Places(u.rows)
        PROVE  /\ x = <<x[1], x[2]>> /\ x[1] \in Nat \ {0} /\ x[2] \in 1..PageRows
               /\ I(x) \in 1..n /\ order[I(x)] \in P /\ IsOf(u, x[1], x[2], v, order[I(x)])
    <3>1. x = <<x[1], x[2]>> /\ x[1] \in DOMAIN u.rows /\ x[2] \in DOMAIN u.rows[x[1]]
      BY PlacesAre DEF PlaceOf
    <3>2. PagesFor(n) \in Nat /\ x[1] \in 1..PagesFor(n) /\ x[2] \in 1..OnPage(n, x[1])
      BY <2>2, <2>3, <3>1, PagesOf DEF IsRearranged
    <3>3. OnPage(n, x[1]) \in 0..PageRows
      BY <2>2, <3>2, PagesOf
    <3>4. I(x) \in 1..n /\ IsOf(u, x[1], x[2], v, order[I(x)])
      BY <2>3, <3>1 DEF IsRearranged
    <3> QED BY <2>2, <3>1, <3>2, <3>3, <3>4, StoreAssumption
  <2>5. ASSUME NEW x \in Places(u.rows), NEW y \in Places(u.rows), Sooner(x, y) PROVE I(x) < I(y)
    <3>1. x[1] < y[1] \/ (x[1] = y[1] /\ x[2] < y[2])
      BY <2>5 DEF Sooner
    <3> QED BY <2>4, <3>1, IndexInOrder
  <2>6. ASSUME NEW x \in Places(u.rows), NEW y \in Places(u.rows), Sooner(x, y) PROVE Before(u, x, y)
    <3>1. I(x) < I(y) /\ I(x) \in 1..n /\ I(y) \in 1..n
      BY <2>4, <2>5, <2>6
    <3> HIDE DEF I
    <3>2. Before(v, order[I(x)], order[I(y)])
      BY <2>2, <3>1 DEF Sorts
    <3> QED BY <2>4, <3>2 DEF Before, IsOf
  <2>7. InOrder(u)
    BY <2>6 DEF InOrder
  <2>8. ASSUME NEW x \in Places(u.rows), NEW y \in Places(u.rows),
               u.rows[x[1]][x[2]].index = u.rows[y[1]][y[2]].index
        PROVE  x = y
    <3> DEFINE i == I(x)
               j == I(y)
    <3>1. i \in 1..n /\ j \in 1..n /\ order[i] \in P /\ order[j] \in P
      BY <2>4
    <3>2. v.rows[order[i][1]][order[i][2]].index = v.rows[order[j][1]][order[j][2]].index
      BY <2>4, <2>8 DEF IsOf
    <3>3. order[i] = order[j]
      BY <3>1, <3>2 DEF Distinct
    <3>4. i = j
      BY <2>2, <3>1, <3>3 DEF Sorts, IsInjective
    <3>5. ~Sooner(x, y) /\ ~Sooner(y, x)
      <4> HIDE DEF I
      <4> QED BY <2>5, <3>1, <3>4
    <3>6. x[1] = y[1] /\ x[2] = y[2]
      BY <2>4, <3>5 DEF Sooner
    <3> QED BY <2>4, <3>6
  <2>9. ASSUME NEW a \in P PROVE \E x \in Places(u.rows) : IsOf(u, x[1], x[2], v, a)
    <3>1. PICK i \in 1..n : order[i] = a
      BY <2>2
    <3>2. PICK p \in DOMAIN u.rows : \E r \in DOMAIN u.rows[p] : IndexIn(p, r) = i
      BY <2>3 DEF IsRearranged
    <3>3. PICK r \in DOMAIN u.rows[p] : IndexIn(p, r) = i
      BY <3>2
    <3>4. <<p, r>> \in Places(u.rows) /\ <<p, r>>[1] = p /\ <<p, r>>[2] = r
      BY PlacesAre
    <3>5. IsOf(u, p, r, v, a)
      BY <2>3, <3>1, <3>3 DEF IsRearranged
    <3> QED BY <3>4, <3>5
  <2>10. Permuted(u, v)
    BY <2>4, <2>8, <2>9 DEF Permuted, Distinct
  <2> QED BY <2>3, <2>7, <2>10 DEF IsRearranged
<1> QED BY <1>1, <1>2

(* A re-sort leaves a table that is in order, with the rows, cells and keys *)
(* that it had but for those keyed anew: Resort::run.                       *)
LEMMA ResortedIs ==
  ASSUME NEW t, NEW table, IsTable(table, t), Distinct(table.rows), NEW b \in Nat, NEW tick \in Nat,
         NEW u, u = Resorted(table, b, tick), NEW v, v = Keyed(table, b, tick)
  PROVE  /\ IsTable(u, t) /\ ~u.dirty /\ (~table.dirty => u = table)
         /\ table.dirty => /\ IsTable(v, t) /\ v.rows = table.rows /\ v.columns = table.columns
                           /\ \A p \in DOMAIN table.rows : \A r \in DOMAIN table.rows[p] :
                                v.keys[p][r] = IF KeyedAnew(table, p, r, b)
                                               THEN Glue(b, table.columns[Key][p].cells[r].value)
                                               ELSE table.keys[p][r]
                           /\ Permuted(u, v) /\ InOrder(u)
                           /\ u.sortedAt = tick /\ u.keyedBy = b
                           /\ u.arrived = table.arrived /\ u.left = table.left
<1>1. CASE ~table.dirty
  BY <1>1 DEF Resorted
<1>2. CASE table.dirty
  <2>1. u = PutInOrder(v)
    BY <1>2 DEF Resorted
  <2>2. IsOrdered(t)
    BY <1>2 DEF IsTable
  <2>3. /\ IsTable(v, t) /\ v.rows = table.rows /\ v.columns = table.columns
        /\ ~v.dirty /\ v.sortedAt = tick /\ v.keyedBy = b
        /\ v.arrived = table.arrived /\ v.left = table.left
    BY <2>2, KeyedIs
  <2>4. \A p \in DOMAIN table.rows : \A r \in DOMAIN table.rows[p] :
           v.keys[p][r] = IF KeyedAnew(table, p, r, b)
                          THEN Glue(b, table.columns[Key][p].cells[r].value)
                          ELSE table.keys[p][r]
    BY <2>2, KeyedIs
  <2>5. /\ IsTable(u, t) /\ Permuted(u, v) /\ InOrder(u)
        /\ SameStamps(u, v) /\ u.dirty = v.dirty
    BY <2>1, <2>3, PutInOrderIs
  <2> QED BY <1>2, <2>3, <2>4, <2>5 DEF SameStamps
<1> QED BY <1>1, <1>2

-----------------------------------------------------------------------------
(* A store: slots and rows.                                                 *)

StoreFields == {"generations", "locations", "next", "free", "deaths", "tables", "sets",
                "tick", "stamp", "freed", "locked"}

(* What the parts of a store are.                                          *)
IsStore(s) ==
  /\ DOMAIN s = StoreFields
  /\ s.generations \in [Index -> Nat] /\ DOMAIN s.locations = Index
  /\ DOMAIN s.sets = SparseComponents /\ s.locked \subseteq SparseComponents
  /\ s.tick \in Nat /\ s.stamp \in Nat /\ s.deaths \in Nat
  /\ DOMAIN s.tables \subseteq SUBSET TableComponents
  /\ \A t \in DOMAIN s.tables : IsTable(s.tables[t], t)

HasRow(s, t, p, r) ==
  t \in DOMAIN s.tables /\ p \in DOMAIN s.tables[t].rows /\ r \in DOMAIN s.tables[t].rows[p]
RowAt(s, t, p, r) == s.tables[t].rows[p][r]

(* But for those with some indices, which have no row, each row's entity   *)
(* is where its slot says, and who is placed has the row there.            *)
Located(s, X) ==
  \A t, p, r : HasRow(s, t, p, r) =>
    /\ RowAt(s, t, p, r).index \notin X
    /\ s.generations[RowAt(s, t, p, r).index] = RowAt(s, t, p, r).generation
    /\ s.locations[RowAt(s, t, p, r).index] = Placed(t, p, r)
Housed(s, i) ==
  \E t, p, r : /\ s.locations[i] = Placed(t, p, r) /\ HasRow(s, t, p, r)
               /\ RowAt(s, t, p, r).index = i
Rowed(s, X) ==
  Located(s, X) /\ \A i \in Index \ X : s.locations[i] \in {Dead, Reserved} \/ Housed(s, i)

SameSets(u, s) == u.sets = s.sets /\ u.locked = s.locked
SameIds(u, s) ==
  /\ u.generations = s.generations /\ u.next = s.next /\ u.free = s.free
  /\ u.freed = s.freed /\ u.deaths = s.deaths
SameTime(u, s) == u.tick = s.tick /\ u.stamp = s.stamp

(* A slot that is placed says where, and is neither dead nor reserved.      *)
LEMMA PlacedIs ==
  ASSUME NEW t, NEW p, NEW r
  PROVE  /\ Placed(t, p, r).is = "placed" /\ Placed(t, p, r).table = t
         /\ Placed(t, p, r).page = p /\ Placed(t, p, r).row = r
         /\ Placed(t, p, r) # Dead /\ Placed(t, p, r) # Reserved
         /\ Dead.is # "placed" /\ Reserved.is # "placed" /\ Dead # Reserved
         /\ \A t2, p2, r2 : Placed(t, p, r) = Placed(t2, p2, r2) => t = t2 /\ p = p2 /\ r = r2
<1>1. /\ Placed(t, p, r).is = "placed" /\ Placed(t, p, r).table = t
      /\ Placed(t, p, r).page = p /\ Placed(t, p, r).row = r
      /\ Dead.is # "placed" /\ Reserved.is # "placed" /\ Dead.is # Reserved.is
  BY DEF Placed, Dead, Reserved
<1>2. \A t2, p2, r2 : /\ Placed(t2, p2, r2).table = t2 /\ Placed(t2, p2, r2).page = p2
                      /\ Placed(t2, p2, r2).row = r2
  BY DEF Placed
<1> QED BY <1>1, <1>2

(* A row is of an entity.                                                  *)
LEMMA RowIs ==
  ASSUME NEW s, IsStore(s), NEW t, NEW p, NEW r, HasRow(s, t, p, r)
  PROVE  /\ RowAt(s, t, p, r) \in Entity /\ RowAt(s, t, p, r).index \in Index
         /\ RowAt(s, t, p, r).generation \in Nat
         /\ IsTable(s.tables[t], t) /\ t \subseteq TableComponents
         /\ p \in 1..Len(s.tables[t].rows) /\ r \in 1..Len(s.tables[t].rows[p])
<1>1. t \in DOMAIN s.tables /\ IsTable(s.tables[t], t) /\ t \subseteq TableComponents
  BY DEF HasRow, IsStore
<1>2. s.tables[t].rows \in Seq(EntityLists) /\ p \in DOMAIN s.tables[t].rows
  BY <1>1 DEF HasRow, IsTable, IsRows
<1>3. s.tables[t].rows[p] \in EntityLists /\ p \in 1..Len(s.tables[t].rows)
  BY <1>2
<1>4. s.tables[t].rows[p] \in Seq(Entity) /\ r \in DOMAIN s.tables[t].rows[p]
  BY <1>3 DEF HasRow, EntityLists
<1>5. s.tables[t].rows[p][r] \in Entity /\ r \in 1..Len(s.tables[t].rows[p])
  BY <1>4
<1> QED BY <1>1, <1>3, <1>5 DEF RowAt, Entity

(* No entity has two rows.                                                  *)
LEMMA RowsDistinct ==
  ASSUME NEW s, IsStore(s), NEW X, Located(s, X), NEW t \in DOMAIN s.tables
  PROVE  Distinct(s.tables[t].rows)
<1> DEFINE rows == s.tables[t].rows
<1> SUFFICES ASSUME NEW a \in Places(rows), NEW b \in Places(rows),
                    rows[a[1]][a[2]].index = rows[b[1]][b[2]].index
             PROVE  a = b
  BY DEF Distinct
<1>1. a = <<a[1], a[2]>> /\ b = <<b[1], b[2]>> /\ HasRow(s, t, a[1], a[2]) /\ HasRow(s, t, b[1], b[2])
  BY PlacesAre DEF PlaceOf, HasRow
<1>2. Placed(t, a[1], a[2]) = Placed(t, b[1], b[2])
  <2>1. s.locations[RowAt(s, t, a[1], a[2]).index] = Placed(t, a[1], a[2])
    BY <1>1 DEF Located
  <2>2. s.locations[RowAt(s, t, b[1], b[2]).index] = Placed(t, b[1], b[2])
    BY <1>1 DEF Located
  <2> QED BY <2>1, <2>2 DEF RowAt
<1>3. a[1] = b[1] /\ a[2] = b[2]
  BY <1>2, PlacedIs
<1> QED BY <1>1, <1>3

(* Making a table that is new changes no other and no slot: table_for.      *)
LEMMA TableForIs ==
  ASSUME NEW s, IsStore(s), NEW t \in SUBSET TableComponents, NEW u, u = TableFor(s, t)
  PROVE  /\ IsStore(u) /\ u.locations = s.locations
         /\ SameSets(u, s) /\ SameIds(u, s) /\ SameTime(u, s)
         /\ DOMAIN u.tables = DOMAIN s.tables \union {t}
         /\ \A v \in DOMAIN u.tables : u.tables[v] = IF v \in DOMAIN s.tables THEN s.tables[v] ELSE NewTable(v)
         /\ \A v, p, r : HasRow(u, v, p, r) <=> HasRow(s, v, p, r)
         /\ \A v, p, r : HasRow(s, v, p, r) => RowAt(u, v, p, r) = RowAt(s, v, p, r)
<1>1. CASE t \in DOMAIN s.tables
  <2>1. u = s
    BY <1>1 DEF TableFor
  <2> QED BY <1>1, <2>1 DEF SameSets, SameIds, SameTime
<1>2. CASE t \notin DOMAIN s.tables
  <2>1. u = [s EXCEPT !.tables = With(@, t, NewTable(t))]
    BY <1>2 DEF TableFor
  <2>2. /\ u.locations = s.locations /\ SameSets(u, s) /\ SameIds(u, s) /\ SameTime(u, s)
        /\ DOMAIN u = StoreFields /\ u.tables = With(s.tables, t, NewTable(t))
    BY <2>1 DEF IsStore, StoreFields, SameSets, SameIds, SameTime
  <2>3. /\ DOMAIN u.tables = DOMAIN s.tables \union {t}
        /\ \A v \in DOMAIN u.tables : u.tables[v] = IF v \in DOMAIN s.tables THEN s.tables[v] ELSE NewTable(v)
    BY <1>2, <2>2 DEF With
  <2>4. IsTable(NewTable(t), t) /\ DOMAIN NewTable(t).rows = {1} /\ NewTable(t).rows[1] = <<>>
    BY NewTableIs
  <2>5. IsStore(u)
    BY <2>2, <2>3, <2>4 DEF IsStore, SameSets, SameIds, SameTime
  <2>6. ASSUME NEW v, NEW p, NEW r PROVE HasRow(u, v, p, r) <=> HasRow(s, v, p, r)
    <3>1. CASE v = t
      <4>1. u.tables[v] = NewTable(t)
        BY <1>2, <2>3, <3>1
      <4> QED BY <1>2, <2>4, <3>1, <4>1 DEF HasRow
    <3>2. CASE v # t
      <4>1. v \in DOMAIN s.tables => u.tables[v] = s.tables[v]
        BY <2>3
      <4> QED BY <2>3, <3>2, <4>1 DEF HasRow
    <3> QED BY <3>1, <3>2
  <2>7. ASSUME NEW v, NEW p, NEW r, HasRow(s, v, p, r) PROVE RowAt(u, v, p, r) = RowAt(s, v, p, r)
    BY <2>3, <2>7 DEF HasRow, RowAt
  <2> QED BY <2>2, <2>3, <2>5, <2>6, <2>7
<1> QED BY <1>1, <1>2

(* What keeps all rows and slots keeps them together.                      *)
LEMMA SameRows ==
  ASSUME NEW s, NEW X, Rowed(s, X), NEW u,
         u.locations = s.locations, u.generations = s.generations,
         \A v, p, r : HasRow(u, v, p, r) <=> HasRow(s, v, p, r),
         \A v, p, r : HasRow(s, v, p, r) => RowAt(u, v, p, r) = RowAt(s, v, p, r)
  PROVE  Rowed(u, X)
<1>1. Located(u, X)
  BY DEF Rowed, Located
<1>2. \A i : Housed(s, i) => Housed(u, i)
  BY DEF Housed
<1> QED BY <1>1, <1>2 DEF Rowed

(* Room on a table's last page changes no row and no slot.                  *)
LEMMA MakeRoomIs ==
  ASSUME NEW s, IsStore(s), NEW t \in DOMAIN s.tables, NEW u, u = MakeRoom(s, t)
  PROVE  /\ IsStore(u) /\ u.locations = s.locations
         /\ SameSets(u, s) /\ SameIds(u, s) /\ SameTime(u, s)
         /\ u.tables = [s.tables EXCEPT ![t] = WithRoom(s.tables[t])]
         /\ Len(Last(u.tables[t].rows)) < PageRows
         /\ \A v, p, r : HasRow(u, v, p, r) <=> HasRow(s, v, p, r)
         /\ \A v, p, r : HasRow(s, v, p, r) => RowAt(u, v, p, r) = RowAt(s, v, p, r)
<1>1. /\ u.locations = s.locations /\ SameSets(u, s) /\ SameIds(u, s) /\ SameTime(u, s)
      /\ DOMAIN u = StoreFields /\ u.tables = [s.tables EXCEPT ![t] = WithRoom(s.tables[t])]
  BY DEF MakeRoom, IsStore, StoreFields, SameSets, SameIds, SameTime
<1> DEFINE old == s.tables[t]
           new == WithRoom(old)
<1>2. IsTable(old, t)
  BY DEF IsStore
<1> HIDE DEF old
<1>3. /\ IsTable(new, t) /\ Len(Last(new.rows)) < PageRows
      /\ DOMAIN old.rows \subseteq DOMAIN new.rows
      /\ \A p \in DOMAIN old.rows : SamePage(new, old, p)
      /\ \A p \in DOMAIN new.rows \ DOMAIN old.rows : new.rows[p] = <<>>
  BY <1>2, WithRoomIs
<1> HIDE DEF new
<1>4. /\ DOMAIN u.tables = DOMAIN s.tables /\ u.tables[t] = new
      /\ \A v \in DOMAIN s.tables \ {t} : u.tables[v] = s.tables[v]
  BY <1>1 DEF new, old
<1>5. IsStore(u)
  BY <1>1, <1>3, <1>4 DEF IsStore, SameSets, SameIds, SameTime
<1>6. ASSUME NEW v, NEW p, NEW r
      PROVE  /\ HasRow(u, v, p, r) <=> HasRow(s, v, p, r)
             /\ HasRow(s, v, p, r) => RowAt(u, v, p, r) = RowAt(s, v, p, r)
  <2>1. CASE v = t
    BY <1>3, <1>4, <2>1 DEF HasRow, RowAt, SamePage, old
  <2>2. CASE v # t
    BY <1>4, <2>2 DEF HasRow, RowAt
  <2> QED BY <2>1, <2>2
<1> QED BY <1>1, <1>3, <1>4, <1>5, <1>6 DEF new, old

(* Taking the tick changes time and nothing else: Structural::tick.         *)
LEMMA StampedIs ==
  ASSUME NEW s, IsStore(s), NEW u, u = Stamped(s)
  PROVE  /\ IsStore(u) /\ u.locations = s.locations /\ u.tables = s.tables
         /\ SameSets(u, s) /\ SameIds(u, s)
         /\ u.stamp = IF s.stamp # 0 THEN s.stamp ELSE s.tick + 1
         /\ u.tick = IF s.stamp # 0 THEN s.tick ELSE s.tick + 1
BY DEF Stamped, IsStore, StoreFields, SameSets, SameIds

-----------------------------------------------------------------------------

(* The row is where its entity's slot said, who was last on its page is    *)
(* where it was, and its entity has none.                                  *)
RowTaken(u, s, X, i, at) ==
  /\ IsStore(u) /\ SameSets(u, s) /\ SameIds(u, s) /\ SameTime(u, s)
  /\ at.table \in DOMAIN s.tables
  /\ at.page \in DOMAIN s.tables[at.table].rows
  /\ at.row \in DOMAIN s.tables[at.table].rows[at.page]
  /\ u.tables = [s.tables EXCEPT
       ![at.table] = WithoutRow(s.tables[at.table], at.page, at.row, s.stamp)]
  /\ Rowed(u, X \union {i})
  /\ u.locations[i] = s.locations[i]
  /\ \A j \in Index : /\ s.locations[j] \in {Dead, Reserved} => u.locations[j] = s.locations[j]
                      /\ s.locations[j].is = "placed" => u.locations[j].is = "placed"

(* Taking a row leaves its entity without, and who was swapped in where it  *)
(* was: take_row, and its place of whom it swapped.                         *)
LEMMA TakeRowIs ==
  ASSUME NEW s, IsStore(s), NEW X, Rowed(s, X), NEW i \in Index \ X, NEW at, at = s.locations[i],
         Housed(s, i), NEW u, u = TakeRow(s, at)
  PROVE  RowTaken(u, s, X, i, at)
<1>1. PICK t, P, row : /\ s.locations[i] = Placed(t, P, row) /\ HasRow(s, t, P, row)
                       /\ RowAt(s, t, P, row).index = i
  BY DEF Housed
<1>2. at = Placed(t, P, row) /\ at.table = t /\ at.page = P /\ at.row = row
  BY <1>1, PlacedIs
<1> DEFINE old == s.tables[t]
           new == WithoutRow(old, P, row, s.stamp)
           n == Len(old.rows[P])
           w == [s EXCEPT !.tables[t] = new]
<1>3. t \in DOMAIN s.tables /\ P \in DOMAIN old.rows /\ row \in DOMAIN old.rows[P] /\ IsTable(old, t)
      /\ s.stamp \in Nat
  BY <1>1 DEF HasRow, IsStore
<1>4. /\ IsTable(new, t) /\ DOMAIN new.rows = DOMAIN old.rows
      /\ n \in Nat /\ DOMAIN old.rows[P] = 1..n /\ DOMAIN new.rows[P] = 1..n - 1
      /\ \A p \in DOMAIN old.rows \ {P} : new.rows[p] = old.rows[p]
      /\ \A r \in 1..n - 1 : new.rows[P][r] = IF r = row THEN old.rows[P][n] ELSE old.rows[P][r]
  <2> HIDE DEF old
  <2>1. IsTable(new, t) /\ IsWithoutRow(new, old, t, P, n, row, s.stamp)
    BY <1>3, WithoutRowIs
  <2> HIDE DEF new, n
  <2> QED BY <2>1 DEF IsWithoutRow, SamePage
<1>5. /\ w.locations = s.locations /\ SameSets(w, s) /\ SameIds(w, s) /\ SameTime(w, s)
      /\ DOMAIN w = StoreFields /\ w.tables = [s.tables EXCEPT ![t] = new]
  BY DEF IsStore, StoreFields, SameSets, SameIds, SameTime
<1>6. u = PlaceSwapped(w, at)
  BY <1>2 DEF TakeRow
<1> HIDE DEF n, w, new
<1>7. /\ DOMAIN w.tables = DOMAIN s.tables /\ w.tables[t] = new
      /\ \A v \in DOMAIN s.tables \ {t} : w.tables[v] = s.tables[v]
  BY <1>3, <1>5
<1>8. /\ u.tables = w.tables /\ SameSets(u, s) /\ SameIds(u, s) /\ SameTime(u, s) /\ DOMAIN u = StoreFields
      /\ u.locations = IF row \in 1..n - 1
                       THEN [s.locations EXCEPT ![old.rows[P][n].index] = at] ELSE s.locations
  <2> DEFINE page == w.tables[at.table].rows[at.page]
  <2>1. page = new.rows[P] /\ DOMAIN page = 1..n - 1
    BY <1>2, <1>4, <1>7
  <2>2. u = IF row \in 1..n - 1 THEN PlaceAt(w, page[row], at) ELSE w
    BY <1>2, <1>6, <2>1 DEF PlaceSwapped
  <2>3. row \in 1..n - 1 => page[row] = old.rows[P][n]
    BY <1>4, <2>1
  <2> HIDE DEF page
  <2>4. CASE row \in 1..n - 1
    <3>1. u = [w EXCEPT !.locations[old.rows[P][n].index] = at]
      BY <2>2, <2>3, <2>4 DEF PlaceAt
    <3> QED BY <1>5, <2>4, <3>1 DEF StoreFields, SameSets, SameIds, SameTime
  <2>5. CASE row \notin 1..n - 1
    BY <1>5, <2>2, <2>5 DEF StoreFields, SameSets, SameIds, SameTime
  <2> QED BY <2>4, <2>5
<1>9. IsStore(u)
  <2>1. DOMAIN u.locations = Index
    BY <1>8 DEF IsStore
  <2> QED BY <1>4, <1>7, <1>8, <2>1 DEF IsStore, SameSets, SameIds, SameTime
<1>10. HasRow(s, t, P, n) /\ n \in 1..n /\ row \in 1..n
       /\ RowAt(s, t, P, n) = old.rows[P][n]
  BY <1>3, <1>4 DEF HasRow, RowAt
<1> DEFINE x == RowAt(s, t, P, n).index
<1>11. x \in Index /\ s.locations[x] = Placed(t, P, n) /\ (row # n => x # i) /\ (row = n => x = i)
  <2>1. x \in Index
    BY <1>10, RowIs
  <2>2. s.locations[x] = Placed(t, P, n)
    BY <1>10 DEF Rowed, Located
  <2> QED BY <1>1, <2>1, <2>2, PlacedIs
<1>12. /\ DOMAIN s.locations = Index
       /\ \A j \in Index : u.locations[j] = IF j = x /\ row # n THEN Placed(t, P, row) ELSE s.locations[j]
  <2>1. row \in 1..n - 1 <=> row # n
    BY <1>4, <1>10
  <2>2. DOMAIN s.locations = Index
    BY DEF IsStore
  <2> HIDE DEF x
  <2>3. old.rows[P][n].index = x
    BY <1>10 DEF x
  <2> QED BY <1>2, <1>8, <1>11, <2>1, <2>2, <2>3
<1> HIDE DEF old, x
<1>13. ASSUME NEW v, NEW p, NEW r, HasRow(u, v, p, r)
       PROVE  \E r2 : /\ HasRow(s, v, p, r2) /\ RowAt(u, v, p, r) = RowAt(s, v, p, r2)
                      /\ IF v = t /\ p = P /\ r = row THEN row # n /\ r2 = n
                         ELSE r2 = r /\ ~(v = t /\ p = P /\ r = n)
  <2>1. CASE v = t /\ p = P
    <3>1. r \in 1..n - 1 /\ r # n /\ HasRow(s, v, p, r) /\ HasRow(s, v, p, n)
      BY <1>3, <1>4, <1>7, <1>8, <1>10, <1>13, <2>1 DEF HasRow, old
    <3>2. RowAt(u, v, p, r) = IF r = row THEN RowAt(s, v, p, n) ELSE RowAt(s, v, p, r)
      BY <1>4, <1>7, <1>8, <2>1, <3>1 DEF RowAt, old
    <3> QED BY <2>1, <3>1, <3>2
  <2>2. CASE v = t /\ p # P
    BY <1>4, <1>7, <1>8, <1>13, <2>2 DEF HasRow, RowAt, old
  <2>3. CASE v # t
    BY <1>7, <1>8, <1>13, <2>3 DEF HasRow, RowAt
  <2> QED BY <2>1, <2>2, <2>3
<1>14. Located(u, X \union {i})
  <2> SUFFICES ASSUME NEW v, NEW p, NEW r, HasRow(u, v, p, r), NEW e, e = RowAt(u, v, p, r)
               PROVE  /\ e.index \notin X \union {i}
                      /\ u.generations[e.index] = e.generation
                      /\ u.locations[e.index] = Placed(v, p, r)
    BY DEF Located
  <2>1. PICK r2 : /\ HasRow(s, v, p, r2) /\ e = RowAt(s, v, p, r2)
                  /\ IF v = t /\ p = P /\ r = row THEN row # n /\ r2 = n
                     ELSE r2 = r /\ ~(v = t /\ p = P /\ r = n)
    BY <1>13
  <2>2. /\ e.index \notin X /\ s.generations[e.index] = e.generation
        /\ s.locations[e.index] = Placed(v, p, r2) /\ e.index \in Index
    BY <2>1, RowIs DEF Rowed, Located
  <2>3. u.generations[e.index] = e.generation
    BY <1>8, <2>2 DEF SameIds
  <2>4. CASE v = t /\ p = P /\ r = row
    <3>1. e.index = x /\ row # n
      BY <2>1, <2>4 DEF x
    <3> QED BY <1>11, <1>12, <2>2, <2>3, <2>4, <3>1
  <2>5. CASE ~(v = t /\ p = P /\ r = row)
    <3>1. s.locations[e.index] = Placed(v, p, r) /\ ~(v = t /\ p = P /\ r = n)
      BY <2>1, <2>2, <2>5
    <3>2. e.index # x /\ e.index # i
      BY <1>1, <1>11, <2>5, <3>1, PlacedIs
    <3> QED BY <1>12, <2>2, <2>3, <3>1, <3>2
  <2> QED BY <2>4, <2>5
<1>15. ASSUME NEW j \in Index \ (X \union {i}), s.locations[j] \notin {Dead, Reserved}
       PROVE  Housed(u, j)
  <2>1. PICK v, p, r : s.locations[j] = Placed(v, p, r) /\ HasRow(s, v, p, r) /\ RowAt(s, v, p, r).index = j
    BY <1>15 DEF Rowed, Housed
  <2>2. ~(v = t /\ p = P /\ r = row)
    BY <1>1, <2>1
  <2>3. CASE v = t /\ p = P
    <3>1. r \in 1..n /\ r # row
      BY <1>4, <2>1, <2>2, <2>3 DEF HasRow, old
    <3>2. CASE r = n
      <4>1. j = x /\ row # n /\ row \in 1..n - 1
        BY <1>4, <1>10, <2>1, <2>3, <3>1, <3>2 DEF x
      <4>2. u.locations[j] = Placed(t, P, row)
        BY <1>11, <1>12, <4>1
      <4>3. HasRow(u, t, P, row)
        BY <1>3, <1>4, <1>7, <1>8, <4>1 DEF HasRow
      <4>4. RowAt(u, t, P, row).index = j
        BY <1>4, <1>7, <1>8, <4>1 DEF RowAt, x, old
      <4> QED BY <4>2, <4>3, <4>4 DEF Housed
    <3>3. CASE r # n
      <4>1. r \in 1..n - 1
        BY <1>4, <3>1, <3>3
      <4>2. HasRow(u, t, P, r)
        BY <1>3, <1>4, <1>7, <1>8, <4>1 DEF HasRow
      <4>3. RowAt(u, t, P, r).index = j
        BY <1>4, <1>7, <1>8, <2>1, <2>3, <3>1, <4>1 DEF RowAt, old
      <4>4. j # x
        BY <1>11, <2>1, <2>3, <3>3, PlacedIs
      <4>5. u.locations[j] = Placed(t, P, r)
        BY <1>12, <2>1, <2>3, <4>4
      <4> QED BY <4>2, <4>3, <4>5 DEF Housed
    <3> QED BY <3>2, <3>3
  <2>4. CASE ~(v = t /\ p = P)
    <3>1. HasRow(u, v, p, r)
      <4>1. CASE v = t
        BY <1>4, <1>7, <1>8, <2>1, <2>4, <4>1 DEF HasRow, old
      <4>2. CASE v # t
        BY <1>7, <1>8, <2>1, <4>2 DEF HasRow
      <4> QED BY <4>1, <4>2
    <3>2. RowAt(u, v, p, r).index = j
      <4>1. CASE v = t
        BY <1>4, <1>7, <1>8, <2>1, <2>4, <4>1 DEF HasRow, RowAt, old
      <4>2. CASE v # t
        BY <1>7, <1>8, <2>1, <4>2 DEF HasRow, RowAt
      <4> QED BY <4>1, <4>2
    <3>3. j # x
      BY <1>11, <2>1, <2>4, PlacedIs
    <3>4. u.locations[j] = Placed(v, p, r)
      BY <1>12, <2>1, <3>3
    <3> QED BY <3>1, <3>2, <3>4 DEF Housed
  <2> QED BY <2>3, <2>4
<1>16. ASSUME NEW j \in Index
       PROVE  /\ s.locations[j] \in {Dead, Reserved} => u.locations[j] = s.locations[j]
              /\ s.locations[j].is = "placed" => u.locations[j].is = "placed"
  BY <1>11, <1>12, PlacedIs
<1>17. u.locations[i] = s.locations[i]
  BY <1>11, <1>12
<1>18. Rowed(u, X \union {i})
  BY <1>14, <1>15, <1>16 DEF Rowed
<1>19. u.tables = [s.tables EXCEPT ![at.table] = WithoutRow(s.tables[at.table], at.page, at.row, s.stamp)]
  BY <1>2, <1>5, <1>8 DEF new, old
<1>20. /\ at.table \in DOMAIN s.tables
       /\ at.page \in DOMAIN s.tables[at.table].rows
       /\ at.row \in DOMAIN s.tables[at.table].rows[at.page]
  BY <1>2, <1>3 DEF old
<1> QED BY <1>8, <1>9, <1>16, <1>17, <1>18, <1>19, <1>20 DEF RowTaken

-----------------------------------------------------------------------------

(* An entity without a row has the last of a table, where its slot says.   *)
RowAdded(u, s, X, e, t, cells) ==
  /\ IsStore(u) /\ SameSets(u, s) /\ SameIds(u, s) /\ SameTime(u, s)
  /\ u.tables = [s.tables EXCEPT ![t] = WithRow(s.tables[t], e, cells, s.stamp)]
  /\ Rowed(u, X \ {e.index})
  /\ u.locations[e.index].is = "placed"
  /\ \A j \in Index \ {e.index} : u.locations[j] = s.locations[j]

(* Adding a row gives its entity the last of the table, where its slot      *)
(* says: push_row, place.                                                   *)
LEMMA AddRowIs ==
  ASSUME NEW s, IsStore(s), NEW X, Rowed(s, X), NEW e \in Entity, e.index \in X,
         s.generations[e.index] = e.generation,
         NEW t \in DOMAIN s.tables, Len(Last(s.tables[t].rows)) < PageRows,
         NEW cells, DOMAIN cells = t, \A c \in t : cells[c] \in CellSet,
         NEW u, u = AddRow(s, e, t, cells)
  PROVE  RowAdded(u, s, X, e, t, cells)
<1> DEFINE old == s.tables[t]
           new == WithRow(old, e, cells, s.stamp)
           P == Len(old.rows)
           n == Len(old.rows[P])
           w == [s EXCEPT !.tables[t] = new]
           i == e.index
<1>1. IsTable(old, t) /\ s.stamp \in Nat /\ i \in Index /\ DOMAIN s.locations = Index
  BY DEF IsStore, Entity
<1>2. IsTable(new, t) /\ IsWithRow(new, old, t, P, n, e, cells, s.stamp)
  <2> HIDE DEF old
  <2> QED BY <1>1, WithRowIs DEF old
<1>3. /\ w.locations = s.locations /\ SameSets(w, s) /\ SameIds(w, s) /\ SameTime(w, s)
      /\ DOMAIN w = StoreFields /\ w.tables = [s.tables EXCEPT ![t] = new]
  BY DEF IsStore, StoreFields, SameSets, SameIds, SameTime
<1>4. u = PlaceAt(w, e, LastRow(w.tables[t], t))
  BY DEF AddRow, PlaceOnLast
<1> HIDE DEF n, w, new, P
<1>5. /\ DOMAIN w.tables = DOMAIN s.tables /\ w.tables[t] = new
      /\ \A v \in DOMAIN s.tables \ {t} : w.tables[v] = s.tables[v]
  BY <1>3
<1>6. /\ DOMAIN new.rows = DOMAIN old.rows /\ P \in DOMAIN old.rows
      /\ n \in Nat /\ DOMAIN new.rows[P] = 1..n + 1 /\ DOMAIN old.rows[P] = 1..n
      /\ \A p \in DOMAIN old.rows \ {P} : new.rows[p] = old.rows[p]
      /\ new.rows[P][n + 1] = e /\ \A r \in 1..n : new.rows[P][r] = old.rows[P][r]
  BY <1>2 DEF IsWithRow, SamePage
<1>7. LastRow(new, t) = Placed(t, P, n + 1)
  <2>1. new.rows \in Seq(EntityLists) /\ new.rows # <<>> /\ old.rows \in Seq(EntityLists)
    BY <1>1, <1>2 DEF IsTable, IsRows
  <2>2. Len(new.rows) = P
    BY <1>6, <2>1 DEF P
  <2>3. Last(new.rows) = new.rows[P] /\ new.rows[P] \in EntityLists
    BY <2>1, <2>2, LastOf
  <2>4. Len(new.rows[P]) = n + 1
    BY <1>6, <2>3 DEF EntityLists
  <2> QED BY <2>2, <2>3, <2>4 DEF LastRow
<1>8. /\ u.tables = w.tables /\ SameSets(u, s) /\ SameIds(u, s) /\ SameTime(u, s) /\ DOMAIN u = StoreFields
      /\ u.locations = [s.locations EXCEPT ![i] = Placed(t, P, n + 1)]
  <2>1. u = [w EXCEPT !.locations[i] = Placed(t, P, n + 1)]
    BY <1>4, <1>5, <1>7 DEF PlaceAt
  <2> QED BY <1>3, <2>1 DEF StoreFields, SameSets, SameIds, SameTime
<1>9. IsStore(u)
  <2>1. DOMAIN u.locations = Index
    BY <1>1, <1>8
  <2> QED BY <1>2, <1>5, <1>8, <2>1 DEF IsStore, SameSets, SameIds, SameTime
<1> HIDE DEF old
<1>10. ASSUME NEW v, NEW p, NEW r, ~(v = t /\ p = P /\ r = n + 1)
       PROVE  /\ HasRow(u, v, p, r) <=> HasRow(s, v, p, r)
              /\ HasRow(s, v, p, r) => RowAt(u, v, p, r) = RowAt(s, v, p, r)
  <2>1. CASE v = t /\ p = P
    <3>1. r \in 1..n + 1 <=> r \in 1..n
      BY <1>6, <1>10, <2>1
    <3> QED BY <1>5, <1>6, <1>8, <2>1, <3>1 DEF HasRow, RowAt, old
  <2>2. CASE v = t /\ p # P
    BY <1>5, <1>6, <1>8, <2>2 DEF HasRow, RowAt, old
  <2>3. CASE v # t
    BY <1>5, <1>8, <2>3 DEF HasRow, RowAt
  <2> QED BY <2>1, <2>2, <2>3
<1>11. HasRow(u, t, P, n + 1) /\ RowAt(u, t, P, n + 1) = e /\ ~HasRow(s, t, P, n + 1)
  BY <1>5, <1>6, <1>8 DEF HasRow, RowAt, old
<1>12. /\ u.locations[i] = Placed(t, P, n + 1)
       /\ \A j \in Index \ {i} : u.locations[j] = s.locations[j]
  BY <1>1, <1>8
<1>13. Located(u, X \ {i})
  <2> SUFFICES ASSUME NEW v, NEW p, NEW r, HasRow(u, v, p, r), NEW d, d = RowAt(u, v, p, r)
               PROVE  /\ d.index \notin X \ {i}
                      /\ u.generations[d.index] = d.generation
                      /\ u.locations[d.index] = Placed(v, p, r)
    BY DEF Located
  <2>1. CASE v = t /\ p = P /\ r = n + 1
    BY <1>8, <1>11, <1>12, <2>1 DEF SameIds
  <2>2. CASE ~(v = t /\ p = P /\ r = n + 1)
    <3>1. HasRow(s, v, p, r) /\ d = RowAt(s, v, p, r)
      BY <1>10, <2>2
    <3>2. /\ d.index \notin X /\ s.generations[d.index] = d.generation
          /\ s.locations[d.index] = Placed(v, p, r) /\ d.index \in Index
      BY <3>1, RowIs DEF Rowed, Located
    <3> QED BY <1>8, <1>12, <3>2 DEF SameIds
  <2> QED BY <2>1, <2>2
<1>14. ASSUME NEW j \in Index \ (X \ {i}), u.locations[j] \notin {Dead, Reserved} PROVE Housed(u, j)
  <2>1. CASE j = i
    BY <1>11, <1>12, <2>1 DEF Housed
  <2>2. CASE j # i
    <3>1. u.locations[j] = s.locations[j] /\ j \in Index \ X
      BY <1>12, <1>14, <2>2
    <3>2. Housed(s, j)
      BY <1>14, <3>1 DEF Rowed
    <3>3. PICK v, p, r : s.locations[j] = Placed(v, p, r) /\ HasRow(s, v, p, r) /\ RowAt(s, v, p, r).index = j
      BY <3>2 DEF Housed
    <3>4. ~(v = t /\ p = P /\ r = n + 1)
      BY <1>11, <3>3
    <3>5. HasRow(u, v, p, r) /\ RowAt(u, v, p, r).index = j
      BY <1>10, <3>3, <3>4
    <3> QED BY <3>1, <3>3, <3>5 DEF Housed
  <2> QED BY <2>1, <2>2
<1>15. Rowed(u, X \ {i})
  BY <1>13, <1>14 DEF Rowed
<1>16. u.tables = [s.tables EXCEPT ![t] = WithRow(s.tables[t], e, cells, s.stamp)]
  BY <1>3, <1>8 DEF new, old
<1> QED BY <1>8, <1>9, <1>12, <1>15, <1>16, PlacedIs DEF RowAdded

-----------------------------------------------------------------------------
(* Ids and sparse sets.                                                     *)

(* What is said of ids: slots that are free, or were freed by who is at    *)
(* work, are different ones of the dead, no slot was used past the next,   *)
(* and after d steps no generation is past d, or d + 1 if it died in this. *)
IdsOK(s, d) ==
  /\ s.next \in 1..MaxIndex + 1
  /\ s.free \in Seq(Index) /\ IsInjective(s.free)
  /\ s.freed \in Seq(Index) /\ IsInjective(s.freed)
  /\ \A a \in DOMAIN s.free : \A b \in DOMAIN s.freed : s.free[a] # s.freed[b]
  /\ \A a \in DOMAIN s.free : s.locations[s.free[a]] = Dead /\ s.free[a] < s.next
  /\ \A b \in DOMAIN s.freed : s.locations[s.freed[b]] = Dead /\ s.freed[b] < s.next
  /\ \A i \in Index : i >= s.next => s.locations[i] = Dead
  /\ \A i \in Index : s.generations[i] <= d + 1 /\ (s.locations[i] # Dead => s.generations[i] <= d)

SetFields == {"entities", "values", "slots", "purgedAt"}

IsSet(set) ==
  /\ DOMAIN set = SetFields
  /\ set.entities \in Seq(Entity) /\ set.values \in Seq(Int) /\ Len(set.values) = Len(set.entities)
  /\ DOMAIN set.slots = Index /\ set.purgedAt \in Nat
  /\ \A n \in DOMAIN set.entities : set.slots[set.entities[n].index] = n
  /\ \A i \in Index : set.slots[i] # Empty =>
       set.slots[i] \in DOMAIN set.entities /\ set.entities[set.slots[i]].index = i

(* The dead that a set has entries of.                                     *)
DeadIn(s, set) == {e \in ToSet(set.entities) : ~Alive(s, e)}

FewDead(s, set) ==
  set.purgedAt <= s.deaths /\ Cardinality(DeadIn(s, set)) <= s.deaths - set.purgedAt

SetsOK(s) == \A c \in SparseComponents : IsSet(s.sets[c]) /\ FewDead(s, s.sets[c])

SameLife(u, s) ==
  SameIds(u, s) /\ \A j \in Index : u.locations[j] = Dead <=> s.locations[j] = Dead

(* What changes no one's life leaves what is said of ids.                   *)
LEMMA SameLifeIds ==
  ASSUME NEW s, NEW d, IdsOK(s, d), NEW u, SameLife(u, s)
  PROVE  IdsOK(u, d)
<1>1. /\ u.next = s.next /\ u.free = s.free /\ u.freed = s.freed /\ u.generations = s.generations
      /\ \A j \in Index : u.locations[j] = Dead <=> s.locations[j] = Dead
  BY DEF SameLife, SameIds
<1>2. /\ \A a \in DOMAIN s.free : s.free[a] \in Index
      /\ \A a \in DOMAIN s.freed : s.freed[a] \in Index
  BY DEF IdsOK
<1> QED BY <1>1, <1>2 DEF IdsOK

(* A set's entries are finitely many, each of an entity.                    *)
LEMMA EntriesAre ==
  ASSUME NEW set, IsSet(set)
  PROVE  /\ IsFiniteSet(ToSet(set.entities))
         /\ \A e : e \in ToSet(set.entities) <=> \E n \in DOMAIN set.entities : e = set.entities[n]
         /\ \A e \in ToSet(set.entities) : e \in Entity /\ e.index \in Index
         /\ Len(set.entities) \in Nat /\ DOMAIN set.entities = 1..Len(set.entities)
         /\ \A n \in DOMAIN set.entities : set.entities[n] \in Entity /\ set.entities[n].index \in Index
<1> DEFINE list == set.entities
<1>1. list \in Seq(Entity) /\ Len(list) \in Nat /\ DOMAIN list = 1..Len(list)
  BY DEF IsSet
<1>2. \A n \in DOMAIN list : list[n] \in Entity /\ list[n].index \in Index
  <2>1. \A n \in DOMAIN list : list[n] \in Entity
    BY <1>1
  <2> HIDE DEF list
  <2> QED BY <2>1 DEF Entity
<1> HIDE DEF list
<1>3. ToSet(list) = {list[n] : n \in DOMAIN list}
  BY DEF ToSet
<1>4. list \in Surjection(1..Len(list), ToSet(list))
  BY <1>1, <1>3 DEF Surjection
<1>5. IsFiniteSet(1..Len(list))
  BY <1>1, FS_Interval
<1>6. IsFiniteSet(ToSet(list))
  BY <1>4, <1>5, FS_Surjection
<1> QED BY <1>1, <1>2, <1>3, <1>6 DEF list

(* The dead that a set has entries of are finitely many.                    *)
LEMMA DeadFinite ==
  ASSUME NEW set, IsSet(set), NEW s
  PROVE  /\ IsFiniteSet(DeadIn(s, set)) /\ Cardinality(DeadIn(s, set)) \in Nat
<1>1. IsFiniteSet(DeadIn(s, set))
  <2>1. DeadIn(s, set) \subseteq ToSet(set.entities)
    BY DEF DeadIn
  <2> QED BY <2>1, EntriesAre, FS_Subset
<1> QED BY <1>1, FS_CardinalityType

(* A set that has no more of the dead has few if it had.                   *)
LEMMA FewerDead ==
  ASSUME NEW s, NEW old, IsSet(old), FewDead(s, old), NEW u, u.deaths = s.deaths, s.deaths \in Nat,
         NEW new, IsSet(new), new.purgedAt = old.purgedAt, DeadIn(u, new) \subseteq DeadIn(s, old)
  PROVE  FewDead(u, new)
<1>1. /\ Cardinality(DeadIn(u, new)) \in Nat /\ Cardinality(DeadIn(s, old)) \in Nat
      /\ IsFiniteSet(DeadIn(s, old))
  BY DeadFinite
<1>2. Cardinality(DeadIn(u, new)) <= Cardinality(DeadIn(s, old))
  BY <1>1, FS_Subset
<1>3. old.purgedAt \in Nat
  BY DEF IsSet
<1> QED BY <1>1, <1>2, <1>3 DEF FewDead

(* What changes no one's life leaves the same alive.                        *)
LEMMA SameLifeAlive ==
  ASSUME NEW s, NEW u, SameLife(u, s), NEW e, e.index \in Index
  PROVE  Alive(u, e) <=> Alive(s, e)
BY DEF SameLife, SameIds, Alive

(* What changes no one's life and no set leaves the sets with few dead.     *)
LEMMA SameLifeSets ==
  ASSUME NEW s, IsStore(s), SetsOK(s), NEW u, SameLife(u, s), SameSets(u, s)
  PROVE  SetsOK(u)
<1> SUFFICES ASSUME NEW c \in SparseComponents PROVE IsSet(s.sets[c]) /\ FewDead(u, s.sets[c])
  BY DEF SetsOK, SameSets
<1> DEFINE set == s.sets[c]
<1>1. IsSet(set) /\ FewDead(s, set)
  BY DEF SetsOK
<1>2. DeadIn(u, set) \subseteq DeadIn(s, set)
  <2> HIDE DEF set
  <2> QED BY <1>1, EntriesAre, SameLifeAlive DEF DeadIn
<1>3. u.deaths = s.deaths /\ s.deaths \in Nat
  BY DEF SameLife, SameIds, IsStore
<1> HIDE DEF set
<1>4. FewDead(u, set)
  BY <1>1, <1>2, <1>3, FewerDead
<1> QED BY <1>1, <1>4 DEF set

-----------------------------------------------------------------------------
(* An entry less: who was last is where it was.                            *)
SlotRemoved(u, set, i, n) ==
  /\ IsSet(u) /\ n \in Nat /\ u.purgedAt = set.purgedAt
  /\ DOMAIN u.entities = 1..n - 1 /\ Len(u.entities) = n - 1
  /\ \A r \in 1..n - 1 : u.entities[r] = IF r = i THEN set.entities[n] ELSE set.entities[r]

(* RemoveSlot puts the last entry where the one removed was, and tells its  *)
(* slot: SparseSet::remove_slot.                                            *)
LEMMA RemoveSlotIs ==
  ASSUME NEW set, IsSet(set), NEW i \in DOMAIN set.entities, NEW n, n = Len(set.entities),
         NEW u, u = RemoveSlot(set, i)
  PROVE  SlotRemoved(u, set, i, n)
<1> DEFINE list == set.entities
           x == list[i].index
           y == list[n].index
<1>1. /\ list \in Seq(Entity) /\ set.values \in Seq(Int) /\ Len(set.values) = n
      /\ n \in Nat /\ DOMAIN list = 1..n /\ i \in 1..n /\ n \in 1..n /\ n = Len(list)
  BY DEF IsSet
<1>2. /\ DOMAIN u = SetFields /\ u.purgedAt = set.purgedAt
      /\ u.entities = SwapRemove(list, i) /\ u.values = SwapRemove(set.values, i)
      /\ u.slots = [z \in Index |-> IF z = x THEN Empty
                                    ELSE IF z = Last(list).index THEN i ELSE set.slots[z]]
  BY DEF RemoveSlot, IsSet, SetFields
<1>3. Last(list) = list[n]
  BY <1>1 DEF Last
<1> HIDE DEF list
<1>4. /\ u.entities \in Seq(Entity) /\ Len(u.entities) = n - 1 /\ DOMAIN u.entities = 1..n - 1
      /\ \A r \in 1..n - 1 : u.entities[r] = IF r = i THEN list[n] ELSE list[r]
  <2> DEFINE w == SwapRemove(list, i)
  <2>1. w \in Seq(Entity)
    BY <1>1, SwapRemoved
  <2>2. Len(w) = Len(list) - 1
    BY <1>1, SwapRemoved
  <2>4. DOMAIN w = 1..Len(list) - 1
    <3> HIDE DEF w
    <3> QED BY <2>1, <2>2
  <2>3. \A r \in 1..Len(list) - 1 : w[r] = IF r = i THEN list[Len(list)] ELSE list[r]
    <3>1. list \in Seq(Entity) /\ i \in 1..Len(list)
      BY <1>1
    <3> QED BY <3>1, SwapRemoved, Zenon
  <2> QED BY <1>1, <1>2, <2>1, <2>2, <2>3, <2>4
<1>5. u.values \in Seq(Int) /\ Len(u.values) = n - 1
  <2> DEFINE values == set.values
             w == SwapRemove(values, i)
  <2>1. values \in Seq(Int) /\ i \in 1..Len(values) /\ Len(values) = n
    BY <1>1
  <2> HIDE DEF values
  <2>2. w \in Seq(Int)
    BY <2>1, SwapRemoved
  <2>3. Len(w) = n - 1
    BY <2>1, SwapRemoved
  <2> QED BY <1>2, <2>2, <2>3 DEF values
<1>6. /\ \A r \in 1..n : list[r].index \in Index /\ set.slots[list[r].index] = r
      /\ \A z \in Index : set.slots[z] # Empty => set.slots[z] \in 1..n /\ list[set.slots[z]].index = z
  BY <1>1, EntriesAre DEF IsSet, list
<1>7. /\ DOMAIN u.slots = Index
      /\ \A z \in Index : u.slots[z] = IF z = x THEN Empty ELSE IF z = y THEN i ELSE set.slots[z]
  BY <1>2, <1>3
<1>8. x \in Index /\ y \in Index /\ set.slots[x] = i /\ set.slots[y] = n
  BY <1>1, <1>6
<1>9. ASSUME NEW r \in 1..n - 1 PROVE u.slots[u.entities[r].index] = r
  <2>1. CASE r = i
    <3>1. u.entities[r].index = y /\ y # x
      <4>1. u.entities[r] = list[n] /\ i # n
        <5>1. i # n
          BY <1>1, <2>1
        <5> QED BY <1>4, <2>1, <5>1
      <4>2. u.entities[r].index = y
        BY <4>1
      <4> HIDE DEF x, y
      <4> QED BY <1>8, <4>1, <4>2
    <3> HIDE DEF x, y
    <3> QED BY <1>7, <1>8, <2>1, <3>1
  <2>2. CASE r # i
    <3>1. u.entities[r].index = list[r].index /\ r \in 1..n /\ r # n
      <4>1. u.entities[r] = list[r]
        BY <1>4, <2>2
      <4>2. r \in 1..n /\ r # n
        BY <1>1
      <4> QED BY <4>1, <4>2
    <3>2. list[r].index \in Index /\ set.slots[list[r].index] = r
      BY <1>6, <3>1
    <3> HIDE DEF x, y
    <3>3. list[r].index # x /\ list[r].index # y
      BY <1>8, <2>2, <3>1, <3>2
    <3> QED BY <1>7, <3>1, <3>2, <3>3
  <2> QED BY <2>1, <2>2
<1>10. ASSUME NEW z \in Index, u.slots[z] # Empty
       PROVE  u.slots[z] \in 1..n - 1 /\ u.entities[u.slots[z]].index = z
  <2>1. z # x
    BY <1>7, <1>10
  <2>2. CASE z = y
    <3>1. u.slots[z] = i /\ i # n
      BY <1>7, <1>8, <2>1, <2>2
    <3>2. i \in 1..n - 1
      BY <1>1, <3>1
    <3> QED BY <1>4, <2>2, <3>1, <3>2
  <2>3. CASE z # y
    <3>1. u.slots[z] = set.slots[z] /\ set.slots[z] \in 1..n /\ list[set.slots[z]].index = z
      BY <1>6, <1>7, <1>10, <2>1, <2>3
    <3>2. set.slots[z] # n /\ set.slots[z] # i
      BY <2>1, <2>3, <3>1
    <3>3. set.slots[z] \in 1..n - 1
      BY <1>1, <3>1, <3>2
    <3> QED BY <1>4, <3>1, <3>2, <3>3
  <2> QED BY <2>2, <2>3
<1>11. u.purgedAt \in Nat
  BY <1>2 DEF IsSet
<1>12. IsSet(u)
  BY <1>2, <1>4, <1>5, <1>7, <1>9, <1>10, <1>11 DEF IsSet
<1> QED BY <1>1, <1>2, <1>4, <1>12 DEF list, SlotRemoved

(* SetInsert leaves a set with the entity's entry and the others':          *)
(* SparseSet::insert.                                                       *)
LEMMA SetInsertIs ==
  ASSUME NEW set, IsSet(set), NEW e \in Entity, NEW v \in Int, NEW u, u = SetInsert(set, e, v)
  PROVE  /\ IsSet(u) /\ u.purgedAt = set.purgedAt
         /\ \A r \in DOMAIN u.entities : \/ u.entities[r] = e
                                         \/ r \in DOMAIN set.entities /\ u.entities[r] = set.entities[r]
<1> DEFINE list == set.entities
           n == Len(list)
           x == e.index
           k == set.slots[x]
<1>1. /\ list \in Seq(Entity) /\ set.values \in Seq(Int) /\ Len(set.values) = n
      /\ n \in Nat /\ DOMAIN list = 1..n /\ x \in Index
  BY DEF IsSet, Entity
<1>2. /\ \A r \in 1..n : list[r].index \in Index /\ set.slots[list[r].index] = r
      /\ \A z \in Index : set.slots[z] # Empty => set.slots[z] \in 1..n /\ list[set.slots[z]].index = z
  BY <1>1, EntriesAre DEF IsSet
<1>3. CASE k # Empty
  <2>1. /\ DOMAIN u = SetFields /\ u.purgedAt = set.purgedAt /\ u.slots = set.slots
        /\ u.entities = [list EXCEPT ![k] = e] /\ u.values = [set.values EXCEPT ![k] = v]
    BY <1>3 DEF SetInsert, IsSet, SetFields
  <2>2. k \in 1..n /\ list[k].index = x
    BY <1>1, <1>2, <1>3
  <2> HIDE DEF list, k
  <2>3. /\ u.entities \in Seq(Entity) /\ Len(u.entities) = n /\ DOMAIN u.entities = 1..n
        /\ \A r \in 1..n : u.entities[r] = IF r = k THEN e ELSE list[r]
    BY <1>1, <2>1, <2>2
  <2>4. u.values \in Seq(Int) /\ Len(u.values) = n
    BY <1>1, <2>1, <2>2
  <2>5. \A r \in 1..n : u.entities[r].index = list[r].index
    BY <2>2, <2>3
  <2>6. set.purgedAt \in Nat /\ DOMAIN set.slots = Index
    BY DEF IsSet
  <2>7. IsSet(u)
    BY <1>2, <2>1, <2>3, <2>4, <2>5, <2>6 DEF IsSet
  <2> QED BY <1>1, <2>1, <2>3, <2>7 DEF list
<1>4. CASE k = Empty
  <2>1. /\ DOMAIN u = SetFields /\ u.purgedAt = set.purgedAt
        /\ u.slots = [set.slots EXCEPT ![x] = n + 1]
        /\ u.entities = Append(list, e) /\ u.values = Append(set.values, v)
    BY <1>4 DEF SetInsert, IsSet, SetFields
  <2> HIDE DEF list, k
  <2>2. /\ u.entities \in Seq(Entity) /\ Len(u.entities) = n + 1 /\ DOMAIN u.entities = 1..n + 1
        /\ u.entities[n + 1] = e /\ \A r \in 1..n : u.entities[r] = list[r]
    BY <1>1, <2>1, Appended
  <2>3. u.values \in Seq(Int) /\ Len(u.values) = n + 1
    BY <1>1, <2>1, Appended
  <2>4. set.purgedAt \in Nat /\ DOMAIN set.slots = Index
    BY DEF IsSet
  <2>5. DOMAIN u.slots = Index /\ \A z \in Index : u.slots[z] = IF z = x THEN n + 1 ELSE set.slots[z]
    BY <2>1, <2>4
  <2>6. ASSUME NEW r \in 1..n + 1 PROVE u.slots[u.entities[r].index] = r
    <3>1. CASE r = n + 1
      BY <1>1, <2>2, <2>5, <3>1
    <3>2. CASE r # n + 1
      <4>1. r \in 1..n /\ u.entities[r] = list[r]
        BY <1>1, <2>2, <3>2
      <4>2. list[r].index # x
        BY <1>2, <1>4, <4>1 DEF k, Empty
      <4> QED BY <1>2, <2>5, <4>1, <4>2
    <3> QED BY <3>1, <3>2
  <2>7. ASSUME NEW z \in Index, u.slots[z] # Empty
        PROVE  u.slots[z] \in 1..n + 1 /\ u.entities[u.slots[z]].index = z
    <3>1. CASE z = x
      BY <1>1, <2>2, <2>5, <3>1
    <3>2. CASE z # x
      <4>1. u.slots[z] = set.slots[z] /\ set.slots[z] \in 1..n /\ list[set.slots[z]].index = z
        BY <1>2, <2>5, <2>7, <3>2
      <4> QED BY <1>1, <2>2, <4>1
    <3> QED BY <3>1, <3>2
  <2>8. IsSet(u)
    BY <2>1, <2>2, <2>3, <2>4, <2>5, <2>6, <2>7 DEF IsSet
  <2>9. ASSUME NEW r \in DOMAIN u.entities
        PROVE  u.entities[r] = e \/ (r \in DOMAIN list /\ u.entities[r] = list[r])
    BY <1>1, <2>2
  <2> QED BY <2>1, <2>8, <2>9 DEF list
<1> QED BY <1>3, <1>4

-----------------------------------------------------------------------------

(* The greatest of some numbers up to k, if that is one of them.           *)
LEMMA MaxIs ==
  ASSUME NEW k \in Nat, NEW s \in SUBSET (1..k), k \in s
  PROVE  Max(s) = k
<1>1. \A y \in s : k >= y
  OBVIOUS
<1>2. \A x \in s : (\A y \in s : x >= y) => x = k
  OBVIOUS
<1> QED BY <1>1, <1>2 DEF Max

(* The steps that a purge makes.                                           *)
PurgeSteps(f, base, seq, n) ==
  /\ f[0] = base
  /\ \A k \in 1..n : f[k] = PurgeAt(f[k - 1], seq[k])
  /\ PurgeAll(base, seq) = f[n]

(* A purge's steps: what the fold of PurgeAt over a list is, one after      *)
(* another.                                                                 *)
LEMMA FoldPurge ==
  ASSUME NEW base, NEW seq, NEW n \in Nat, DOMAIN seq = 1..n
  PROVE  \E f : PurgeSteps(f, base, seq, n)
<1> DEFINE At1(f, s) == IF s = {} THEN base ELSE PurgeAt(f[s \ {Max(s)}], seq[Max(s)])
           Body(f) == [s \in SUBSET (DOMAIN seq) |-> At1(f, s)]
           iter == CHOOSE iter : iter = Body(iter)
           Has(k) == \E f : f = [s \in SUBSET (1..k) |-> At1(f, s)]
           T == {k \in Nat : k <= n => Has(k)}
<1>1. PurgeAll(base, seq) = iter[DOMAIN seq]
  BY DEF PurgeAll, FoldLeft, MapThenFoldSet
<1>2. 0 \in T
  <2> DEFINE f == [s \in SUBSET (1..0) |-> base]
  <2>1. f = [s \in SUBSET (1..0) |-> At1(f, s)]
    <3>1. \A s \in SUBSET (1..0) : s = {}
      OBVIOUS
    <3> QED BY <3>1
  <2>2. Has(0)
    BY <2>1
  <2> HIDE DEF Has
  <2> QED BY <2>2
<1>3. ASSUME NEW k \in Nat, k \in T PROVE k + 1 \in T
  <2> SUFFICES ASSUME k + 1 <= n PROVE Has(k + 1)
    <3> HIDE DEF Has
    <3> QED OBVIOUS
  <2>0. Has(k)
    <3> HIDE DEF Has
    <3> QED BY <1>3
  <2>1. PICK f : f = [s \in SUBSET (1..k) |-> At1(f, s)]
    BY <2>0
  <2> DEFINE g == [s \in SUBSET (1..k + 1) |->
                IF k + 1 \in s THEN PurgeAt(f[s \ {k + 1}], seq[k + 1]) ELSE f[s]]
  <2>2. ASSUME NEW s \in SUBSET (1..k + 1) PROVE g[s] = At1(g, s)
    <3>1. CASE k + 1 \in s
      <4>1. Max(s) = k + 1
        BY <3>1, MaxIs
      <4>2. s \ {k + 1} \in SUBSET (1..k + 1) /\ k + 1 \notin s \ {k + 1} /\ s # {}
        BY <3>1
      <4>3. g[s \ {k + 1}] = f[s \ {k + 1}]
        BY <4>2
      <4>4. g[s] = PurgeAt(f[s \ {k + 1}], seq[k + 1])
        BY <3>1
      <4> HIDE DEF g
      <4> QED BY <4>1, <4>2, <4>3, <4>4
    <3>2. CASE k + 1 \notin s
      <4>1. s \in SUBSET (1..k)
        BY <3>2
      <4>2. g[s] = f[s] /\ f[s] = At1(f, s)
        <5> HIDE DEF At1
        <5> QED BY <2>1, <3>2, <4>1
      <4>3. CASE s = {}
        <5> HIDE DEF g
        <5> QED BY <4>2, <4>3
      <4>4. CASE s # {}
        <5>1. s \ {Max(s)} \in SUBSET (1..k + 1) /\ k + 1 \notin s \ {Max(s)}
          BY <3>2
        <5>2. g[s \ {Max(s)}] = f[s \ {Max(s)}]
          BY <5>1
        <5> HIDE DEF g
        <5> QED BY <4>2, <4>4, <5>2
      <4> QED BY <4>3, <4>4
    <3> QED BY <3>1, <3>2
  <2>3. g = [s \in SUBSET (1..k + 1) |-> At1(g, s)]
    <3> HIDE DEF At1
    <3>1. g = [s \in SUBSET (1..k + 1) |-> g[s]]
      OBVIOUS
    <3> HIDE DEF g
    <3> QED BY <2>2, <3>1
  <2> QED BY <2>3
<1>4. n \in T
  <2> HIDE DEF T
  <2> QED BY <1>2, <1>3, ByInduction
<1>5. iter = Body(iter)
  <2>0. Has(n)
    <3> HIDE DEF Has
    <3> QED BY <1>4
  <2>1. PICK f : f = Body(f)
    <3> HIDE DEF At1
    <3> QED BY <2>0
  <2> HIDE DEF Body
  <2> QED BY <2>1
<1> HIDE DEF iter
<1> DEFINE f == [k \in 0..n |-> iter[1..k]]
<1>6. f[0] = base
  <2>1. 1..0 = {} /\ {} \in SUBSET (DOMAIN seq) /\ 0 \in 0..n
    OBVIOUS
  <2>2. iter[{}] = base
    BY <1>5, <2>1
  <2> QED BY <2>1, <2>2
<1>7. ASSUME NEW k \in 1..n PROVE f[k] = PurgeAt(f[k - 1], seq[k])
  <2>1. 1..k \in SUBSET (DOMAIN seq) /\ 1..k # {} /\ Max(1..k) = k /\ (1..k) \ {k} = 1..k - 1
    <3>1. k \in 1..k /\ 1..k \in SUBSET (1..k) /\ k \in Nat
      OBVIOUS
    <3>2. Max(1..k) = k
      BY <3>1, MaxIs, Zenon
    <3>3. (1..k) \ {k} = 1..k - 1 /\ 1..k \in SUBSET (DOMAIN seq) /\ k \in 1..k
      OBVIOUS
    <3> QED BY <3>2, <3>3
  <2>2. iter[1..k] = PurgeAt(iter[1..k - 1], seq[k])
    BY <1>5, <2>1
  <2>3. f[k] = iter[1..k] /\ f[k - 1] = iter[1..k - 1]
    OBVIOUS
  <2> QED BY <2>2, <2>3
<1>8. f[n] = iter[DOMAIN seq]
  OBVIOUS
<1> HIDE DEF f
<1>9. PurgeSteps(f, base, seq, n)
  BY <1>1, <1>6, <1>7, <1>8 DEF PurgeSteps
<1> QED BY <1>9

IsPurged(u, set, alive) ==
  /\ IsSet(u) /\ u.purgedAt = set.purgedAt
  /\ \A r \in DOMAIN u.entities : u.entities[r] \in alive

(* A purge leaves entries of the living: SparseSet::purge_dead's loop.      *)
LEMMA PurgedIs ==
  ASSUME NEW set, IsSet(set), NEW alive, NEW u, u = Purged(set, alive)
  PROVE  IsPurged(u, set, alive)
<1> DEFINE seq == set.entities
           n == Len(seq)
           base == [set |-> set, at |-> 1, alive |-> alive]
           all == PurgeAll(base, seq)
<1>1. n \in Nat /\ DOMAIN seq = 1..n
  BY EntriesAre
<1>0. u = all.set
  BY DEF Purged
<1>2. PICK f : /\ f[0] = base
               /\ \A k \in 1..n : f[k] = PurgeAt(f[k - 1], seq[k])
               /\ all = f[n]
  <2> HIDE DEF base, n, seq
  <2>1. \E f : PurgeSteps(f, base, seq, n)
    BY <1>1, FoldPurge
  <2> QED BY <2>1 DEF PurgeSteps
<1> HIDE DEF all
<1>3. u = f[n].set
  BY <1>0, <1>2
<1> DEFINE Good(k) ==
             /\ DOMAIN f[k] = {"set", "at", "alive"} /\ f[k].alive = alive /\ IsSet(f[k].set) /\ f[k].set.purgedAt = set.purgedAt
             /\ f[k].at \in Nat \ {0}
             /\ (f[k].at - 1) + (n - Len(f[k].set.entities)) = k
             /\ \A r \in 1..f[k].at - 1 : r \in DOMAIN f[k].set.entities /\ f[k].set.entities[r] \in alive
           T == {k \in Nat : k <= n => Good(k)}
<1>4. 0 \in T
  <2>1. f[0].set = set /\ f[0].at = 1 /\ f[0].alive = alive /\ DOMAIN f[0] = {"set", "at", "alive"}
    BY <1>2
  <2>2. Len(set.entities) = n
    OBVIOUS
  <2>3. Good(0)
    <3> HIDE DEF seq, n, base
    <3> QED BY <1>1, <2>1, <2>2
  <2> QED BY <2>3
<1>5. ASSUME NEW k \in Nat, k \in T PROVE k + 1 \in T
  <2> SUFFICES ASSUME k + 1 <= n PROVE Good(k + 1)
    <3> HIDE DEF Good
    <3> QED OBVIOUS
  <2> DEFINE p == f[k]
             q == f[k + 1]
             list == p.set.entities
             m == Len(list)
  <2>1. Good(k)
    <3> HIDE DEF Good
    <3> QED BY <1>1, <1>5
  <2>2. q = PurgeAt(p, seq[k + 1])
    <3>1. k + 1 \in 1..n /\ k + 1 - 1 = k
      BY <1>1
    <3> HIDE DEF n
    <3> QED BY <1>2, <3>1
  <2>3. /\ DOMAIN p = {"set", "at", "alive"} /\ p.alive = alive /\ IsSet(p.set) /\ p.set.purgedAt = set.purgedAt
        /\ p.at \in Nat \ {0} /\ (p.at - 1) + (n - m) = k
        /\ \A r \in 1..p.at - 1 : r \in DOMAIN list /\ list[r] \in alive
    BY <2>1
  <2>4. m \in Nat /\ DOMAIN list = 1..m
    BY <2>3, EntriesAre
  <2> HIDE DEF p, q, n, seq
  <2>5. p.at \in 1..m
    <3> HIDE DEF m
    <3> QED BY <1>1, <2>3, <2>4
  <2>6. CASE list[p.at] \in alive
    <3>1. q.set = p.set /\ q.at = p.at + 1 /\ q.alive = alive /\ DOMAIN q = {"set", "at", "alive"}
      BY <2>2, <2>3, <2>6 DEF PurgeAt
    <3>2. \A r \in 1..q.at - 1 : r \in DOMAIN list /\ list[r] \in alive
      <4> SUFFICES ASSUME NEW r \in 1..q.at - 1 PROVE r \in DOMAIN list /\ list[r] \in alive
        OBVIOUS
      <4>1. r = p.at \/ r \in 1..p.at - 1
        BY <2>3, <3>1
      <4> QED BY <2>3, <2>4, <2>5, <2>6, <4>1
    <3>3. (q.at - 1) + (n - m) = k + 1 /\ q.at \in Nat \ {0}
      <4> HIDE DEF m
      <4> QED BY <1>1, <2>3, <2>4, <3>1
    <3> QED BY <2>3, <3>1, <3>2, <3>3 DEF q
  <2>7. CASE list[p.at] \notin alive
    <3> DEFINE x == RemoveSlot(p.set, p.at)
    <3>1. q.set = x /\ q.at = p.at /\ q.alive = alive /\ DOMAIN q = {"set", "at", "alive"}
      BY <2>2, <2>3, <2>7 DEF PurgeAt
    <3>2. /\ IsSet(x) /\ x.purgedAt = p.set.purgedAt
          /\ DOMAIN x.entities = 1..m - 1 /\ Len(x.entities) = m - 1
          /\ \A r \in 1..m - 1 : x.entities[r] = IF r = p.at THEN list[m] ELSE list[r]
      <4> DEFINE old == p.set
                 at == p.at
      <4>1. IsSet(old) /\ at \in DOMAIN old.entities /\ m = Len(old.entities)
        BY <2>3, <2>4, <2>5
      <4> HIDE DEF old, at, m
      <4>2. /\ IsSet(RemoveSlot(old, at)) /\ m \in Nat /\ RemoveSlot(old, at).purgedAt = old.purgedAt
            /\ DOMAIN RemoveSlot(old, at).entities = 1..m - 1 /\ Len(RemoveSlot(old, at).entities) = m - 1
            /\ \A r \in 1..m - 1 : RemoveSlot(old, at).entities[r] =
                  IF r = at THEN old.entities[m] ELSE old.entities[r]
        <5>1. SlotRemoved(RemoveSlot(old, at), old, at, m)
          BY <4>1, RemoveSlotIs
        <5> QED BY <5>1 DEF SlotRemoved
      <4> QED BY <4>2 DEF old, at
    <3> HIDE DEF x, m
    <3>3. ASSUME NEW r \in 1..q.at - 1 PROVE r \in DOMAIN x.entities /\ x.entities[r] \in alive
      <4>1. r \in 1..m - 1 /\ r # p.at /\ r \in 1..p.at - 1
        BY <2>3, <2>4, <2>5, <3>1
      <4> QED BY <2>3, <3>2, <4>1
    <3>4. (q.at - 1) + (n - (m - 1)) = k + 1 /\ q.at \in Nat \ {0}
      BY <1>1, <2>3, <2>4, <3>1
    <3> QED BY <2>3, <3>1, <3>2, <3>3, <3>4 DEF q
  <2> QED BY <2>6, <2>7
<1>6. Good(n)
  <2> HIDE DEF T, Good
  <2>1. n \in T
    BY <1>1, <1>4, <1>5, ByInduction
  <2> QED BY <1>1, <2>1 DEF T
<1>7. /\ IsSet(f[n].set) /\ f[n].set.purgedAt = set.purgedAt
      /\ \A r \in DOMAIN f[n].set.entities : f[n].set.entities[r] \in alive
  <2> DEFINE m == Len(f[n].set.entities)
  <2>1. IsSet(f[n].set)
    BY <1>6
  <2>2. m \in Nat /\ DOMAIN f[n].set.entities = 1..m
    BY <2>1, EntriesAre
  <2>3. f[n].at \in Nat /\ (f[n].at - 1) + (n - m) = n
    BY <1>6
  <2>4. f[n].at - 1 = m
    <3> HIDE DEF m, n
    <3> QED BY <1>1, <2>2, <2>3
  <2> QED BY <1>6, <2>2, <2>4
<1> QED BY <1>3, <1>7 DEF IsPurged

-----------------------------------------------------------------------------

(* A set less or more of the living, and none more of the dead.            *)
Spared(new, old, s) ==
  /\ IsSet(new) /\ new.purgedAt = old.purgedAt
  /\ \A r \in DOMAIN new.entities :
       Alive(s, new.entities[r]) \/ \E q \in DOMAIN old.entities : new.entities[r] = old.entities[q]

(* A set with no more of the dead than it had has few if it had.            *)
LEMMA SparedFew ==
  ASSUME NEW s, IsStore(s), NEW old, IsSet(old), FewDead(s, old), NEW new, Spared(new, old, s),
         NEW u, SameLife(u, s)
  PROVE  FewDead(u, new)
<1>1. IsSet(new) /\ new.purgedAt = old.purgedAt
  BY DEF Spared
<1>2. u.deaths = s.deaths /\ s.deaths \in Nat
  BY DEF SameLife, SameIds, IsStore
<1>3. DeadIn(u, new) \subseteq DeadIn(s, old)
  <2> SUFFICES ASSUME NEW e \in ToSet(new.entities), ~Alive(u, e)
               PROVE  e \in ToSet(old.entities) /\ ~Alive(s, e)
    BY DEF DeadIn
  <2>1. e.index \in Index
    BY <1>1, EntriesAre
  <2>2. ~Alive(s, e)
    BY <2>1, SameLifeAlive
  <2>3. PICK r \in DOMAIN new.entities : e = new.entities[r]
    BY <1>1, EntriesAre
  <2>4. \E q \in DOMAIN old.entities : e = old.entities[q]
    BY <2>2, <2>3 DEF Spared
  <2> QED BY <2>2, <2>4, EntriesAre
<1> QED BY <1>1, <1>2, <1>3, FewerDead

(* A set spares itself.                                                     *)
LEMMA SparedSelf ==
  ASSUME NEW s, NEW old, IsSet(old)
  PROVE  Spared(old, old, s)
BY DEF Spared

(* One set changes and no slot does.                                       *)
LEMMA SetChanged ==
  ASSUME NEW s, IsStore(s), SetsOK(s), NEW c \in SparseComponents, NEW new, NEW u,
         u.sets = [s.sets EXCEPT ![c] = new], SameLife(u, s), IsSet(new), FewDead(u, new)
  PROVE  SetsOK(u)
<1> SUFFICES ASSUME NEW x \in SparseComponents PROVE IsSet(u.sets[x]) /\ FewDead(u, u.sets[x])
  BY DEF SetsOK
<1>1. DOMAIN s.sets = SparseComponents
  BY DEF IsStore
<1>2. CASE x = c
  BY <1>1, <1>2
<1>3. CASE x # c
  <2> DEFINE old == s.sets[x]
  <2>1. u.sets[x] = old
    BY <1>1, <1>3
  <2>2. IsSet(old) /\ FewDead(s, old)
    BY DEF SetsOK
  <2> HIDE DEF old
  <2> QED BY <2>1, <2>2, SparedFew, SparedSelf
<1> QED BY <1>2, <1>3

(* Inserting for the living adds none of the dead.                          *)
LEMMA SetInsertSpares ==
  ASSUME NEW s, NEW set, IsSet(set), NEW e \in Entity, Alive(s, e), NEW v \in Int
  PROVE  Spared(SetInsert(set, e, v), set, s)
<1> DEFINE u == SetInsert(set, e, v)
<1> HIDE DEF u
<1>1. IsSet(u) /\ u.purgedAt = set.purgedAt
  BY SetInsertIs DEF u
<1>2. \A r \in DOMAIN u.entities : \/ u.entities[r] = e
                                   \/ r \in DOMAIN set.entities /\ u.entities[r] = set.entities[r]
  BY SetInsertIs DEF u
<1>3. Spared(u, set, s)
  BY <1>1, <1>2 DEF Spared
<1> QED BY <1>3 DEF u

(* Removing adds none of the dead.                                          *)
LEMMA SetRemoveSpares ==
  ASSUME NEW s, NEW set, IsSet(set), NEW e, e.index \in Index
  PROVE  Spared(SetRemove(set, e), set, s)
<1> DEFINE i == SlotOf(set, e)
<1>1. CASE i = Empty
  BY <1>1, SparedSelf DEF SetRemove
<1>2. CASE i # Empty
  <2>1. i \in DOMAIN set.entities
    BY <1>2 DEF SlotOf, IsSet
  <2> DEFINE n == Len(set.entities)
             u == RemoveSlot(set, i)
  <2>2. n \in Nat /\ DOMAIN set.entities = 1..n
    BY EntriesAre
  <2> HIDE DEF i, u
  <2>0. SlotRemoved(u, set, i, n)
    BY <2>1, RemoveSlotIs DEF u
  <2> HIDE DEF n
  <2>3. IsSet(u) /\ u.purgedAt = set.purgedAt
    BY <2>0 DEF SlotRemoved
  <2>4. DOMAIN u.entities = 1..n - 1
    BY <2>0 DEF SlotRemoved
  <2>5. \A r \in 1..n - 1 : u.entities[r] = IF r = i THEN set.entities[n] ELSE set.entities[r]
    BY <2>0 DEF SlotRemoved
  <2>6. ASSUME NEW r \in DOMAIN u.entities
        PROVE  \E q \in DOMAIN set.entities : u.entities[r] = set.entities[q]
    <3>1. r \in 1..n - 1 /\ r \in 1..n /\ n \in 1..n
      BY <2>2, <2>4
    <3> QED BY <2>2, <2>5, <3>1
  <2>7. Spared(u, set, s)
    BY <2>3, <2>6 DEF Spared
  <2> QED BY <1>2, <2>7 DEF SetRemove, u, i
<1> QED BY <1>1, <1>2

(* Purged or put off, a set has no more of the dead than died since it was  *)
(* purged: purge_dead.                                                      *)
LEMMA PurgeIs ==
  ASSUME NEW s, IsStore(s), NEW set, IsSet(set), FewDead(s, set),
         NEW alive, alive = {e \in ToSet(set.entities) : Alive(s, e)},
         NEW new, new = PurgeDead(set, s.deaths, alive), NEW u, SameLife(u, s)
  PROVE  IsSet(new) /\ FewDead(u, new)
<1>1. CASE ~MayPurge(set, s.deaths)
  BY <1>1, SparedFew, SparedSelf DEF PurgeDead
<1>2. CASE MayPurge(set, s.deaths)
  <2> DEFINE marked == [set EXCEPT !.purgedAt = s.deaths]
  <2>1. s.deaths \in Nat /\ u.deaths = s.deaths
    BY DEF IsStore, SameLife, SameIds
  <2>2. /\ DOMAIN marked = SetFields /\ marked.purgedAt = s.deaths
        /\ marked.entities = set.entities /\ marked.values = set.values /\ marked.slots = set.slots
    BY DEF IsSet, SetFields
  <2>3. new = Purged(marked, alive)
    BY <1>2 DEF PurgeDead
  <2> HIDE DEF marked
  <2>4. IsSet(marked)
    BY <2>1, <2>2 DEF IsSet
  <2>5. IsSet(new) /\ new.purgedAt = s.deaths /\ \A r \in DOMAIN new.entities : new.entities[r] \in alive
    <3>1. IsPurged(new, marked, alive)
      BY <2>3, <2>4, PurgedIs
    <3> QED BY <2>2, <3>1 DEF IsPurged
  <2>6. DeadIn(u, new) = {}
    <3> SUFFICES ASSUME NEW e \in ToSet(new.entities), ~Alive(u, e) PROVE FALSE
      BY DEF DeadIn
    <3>1. e.index \in Index /\ e \in alive
      BY <2>5, EntriesAre
    <3> QED BY <3>1, SameLifeAlive
  <2>7. Cardinality(DeadIn(u, new)) = 0
    BY <2>6, FS_EmptySet
  <2>8. FewDead(u, new)
    BY <2>1, <2>5, <2>7 DEF FewDead
  <2> QED BY <2>5, <2>8
<1> QED BY <1>1, <1>2

(* What is no change of a slot or a row.                                   *)
SameSlots(u, s) ==
  /\ IsStore(u) /\ SameIds(u, s) /\ SameTime(u, s)
  /\ u.locations = s.locations /\ u.tables = s.tables

(* What changes no slot changes no one's life.                              *)
LEMMA SameSlotsLife ==
  ASSUME NEW s, NEW u, SameSlots(u, s)
  PROVE  SameLife(u, s)
BY DEF SameSlots, SameLife

(* Locking a set to write it leaves slots and rows, and the set with few    *)
(* dead.                                                                    *)
LEMMA LockSetIs ==
  ASSUME NEW s, IsStore(s), SetsOK(s), NEW c \in SparseComponents, NEW u, u = LockSet(s, c)
  PROVE  SameSlots(u, s) /\ SetsOK(u)
<1>1. CASE c \in s.locked
  BY <1>1 DEF LockSet, SameSlots, SameIds, SameTime
<1>2. CASE c \notin s.locked
  <2> DEFINE set == s.sets[c]
             alive == {e \in ToSet(set.entities) : Alive(s, e)}
             new == PurgeDead(set, s.deaths, alive)
  <2>1. u = [s EXCEPT !.locked = @ \union {c}, !.sets[c] = new]
    BY <1>2 DEF LockSet
  <2> HIDE DEF new
  <2>2. /\ DOMAIN u = StoreFields /\ SameIds(u, s) /\ SameTime(u, s)
        /\ u.locations = s.locations /\ u.tables = s.tables
        /\ u.locked = s.locked \union {c} /\ u.sets = [s.sets EXCEPT ![c] = new]
    BY <2>1 DEF IsStore, StoreFields, SameIds, SameTime
  <2>3. SameSlots(u, s)
    BY <2>2 DEF SameSlots, IsStore, SameIds, SameTime
  <2>4. SameLife(u, s)
    BY <2>3, SameSlotsLife
  <2>5. IsSet(set) /\ FewDead(s, set)
    BY DEF SetsOK
  <2> HIDE DEF set
  <2>6. IsSet(new) /\ FewDead(u, new)
    BY <2>4, <2>5, PurgeIs DEF new
  <2>7. SetsOK(u)
    BY <2>2, <2>4, <2>6, SetChanged
  <2> QED BY <2>3, <2>7
<1> QED BY <1>1, <1>2

(* A set that is replaced by one with no more dead leaves slots, rows and   *)
(* the other sets.                                                          *)
LEMMA SetWritten ==
  ASSUME NEW s, IsStore(s), SetsOK(s), NEW c \in SparseComponents, NEW new, Spared(new, s.sets[c], s),
         NEW u, u = [s EXCEPT !.sets[c] = new]
  PROVE  SameSlots(u, s) /\ SetsOK(u)
<1>1. /\ DOMAIN u = StoreFields /\ SameIds(u, s) /\ SameTime(u, s)
      /\ u.locations = s.locations /\ u.tables = s.tables
      /\ u.locked = s.locked /\ u.sets = [s.sets EXCEPT ![c] = new]
  BY DEF IsStore, StoreFields, SameIds, SameTime
<1>2. SameSlots(u, s)
  BY <1>1 DEF SameSlots, IsStore, SameIds, SameTime
<1>3. SameLife(u, s)
  BY <1>2, SameSlotsLife
<1>4. IsSet(s.sets[c]) /\ FewDead(s, s.sets[c])
  BY DEF SetsOK
<1>5. IsSet(new) /\ FewDead(u, new)
  BY <1>3, <1>4, SparedFew DEF Spared
<1> QED BY <1>1, <1>2, <1>3, <1>5, SetChanged

(* What changes no slot leaves the same alive.                              *)
LEMMA SameSlotsAlive ==
  ASSUME NEW s, NEW u, SameSlots(u, s), NEW e
  PROVE  Alive(u, e) <=> Alive(s, e)
BY DEF SameSlots, SameIds, Alive

(* Two changes of no slot are one.                                          *)
LEMMA SameSlotsTwice ==
  ASSUME NEW s, NEW u, SameSlots(u, s), NEW w, SameSlots(w, u)
  PROVE  SameSlots(w, s)
BY DEF SameSlots, SameIds, SameTime

(* Inserting a sparse value leaves slots and rows, and sets with few dead.  *)
LEMMA InsertSparseIs ==
  ASSUME NEW s, IsStore(s), SetsOK(s), NEW c \in SparseComponents, NEW e \in Entity, Alive(s, e),
         NEW v \in Int, NEW u, u = InsertSparse(s, e, c, v)
  PROVE  SameSlots(u, s) /\ SetsOK(u)
<1> DEFINE w == LockSet(s, c)
           new == SetInsert(w.sets[c], e, v)
<1>1. u = [w EXCEPT !.sets[c] = new]
  BY DEF InsertSparse
<1> HIDE DEF w, new
<1>2. SameSlots(w, s) /\ SetsOK(w)
  BY LockSetIs DEF w
<1>3. IsStore(w) /\ IsSet(w.sets[c]) /\ Alive(w, e)
  BY <1>2, SameSlotsAlive DEF SameSlots, SetsOK
<1>4. Spared(new, w.sets[c], w)
  BY <1>3, SetInsertSpares DEF new
<1>5. SameSlots(u, w) /\ SetsOK(u)
  BY <1>1, <1>2, <1>3, <1>4, SetWritten
<1> QED BY <1>2, <1>5, SameSlotsTwice

(* Removing a sparse value leaves slots and rows, and sets with few dead.   *)
LEMMA RemoveSparseIs ==
  ASSUME NEW s, IsStore(s), SetsOK(s), NEW c \in SparseComponents, NEW e, e.index \in Index,
         NEW u, u = RemoveSparse(s, e, c)
  PROVE  SameSlots(u, s) /\ SetsOK(u)
<1> DEFINE w == LockSet(s, c)
           new == SetRemove(w.sets[c], e)
<1>1. u = [w EXCEPT !.sets[c] = new]
  BY DEF RemoveSparse
<1> HIDE DEF w, new
<1>2. SameSlots(w, s) /\ SetsOK(w)
  BY LockSetIs DEF w
<1>3. IsStore(w) /\ IsSet(w.sets[c])
  BY <1>2 DEF SameSlots, SetsOK
<1>4. Spared(new, w.sets[c], w)
  BY <1>3, SetRemoveSpares DEF new
<1>5. SameSlots(u, w) /\ SetsOK(u)
  BY <1>1, <1>2, <1>3, <1>4, SetWritten
<1> QED BY <1>2, <1>5, SameSlotsTwice

(* Changing a sparse value leaves slots and rows, and sets with few dead.   *)
LEMMA SetSparseIs ==
  ASSUME NEW s, IsStore(s), SetsOK(s), NEW c \in SparseComponents, NEW e, e.index \in Index, NEW v \in Int,
         NEW u, u = SetSparse(LockSet(s, c), e, c, v)
  PROVE  SameSlots(u, s) /\ SetsOK(u)
<1> DEFINE w == LockSet(s, c)
           set == w.sets[c]
           i == SlotOf(set, e)
           new == [set EXCEPT !.values[i] = v]
<1>1. u = IF i = Empty THEN w ELSE [w EXCEPT !.sets[c].values[i] = v]
  BY DEF SetSparse
<1>2. SameSlots(w, s) /\ SetsOK(w)
  BY LockSetIs
<1> HIDE DEF w
<1>3. IsStore(w) /\ IsSet(set)
  BY <1>2 DEF SameSlots, SetsOK
<1>4. CASE i = Empty
  BY <1>1, <1>2, <1>4
<1>5. CASE i # Empty
  <2>1. i \in DOMAIN set.entities
    BY <1>3, <1>5 DEF SlotOf, IsSet
  <2>2. u = [w EXCEPT !.sets[c] = new]
    BY <1>1, <1>5
  <2> HIDE DEF set, i
  <2>3. /\ DOMAIN new = SetFields /\ new.entities = set.entities /\ new.slots = set.slots
        /\ new.purgedAt = set.purgedAt /\ new.values = [set.values EXCEPT ![i] = v]
    BY <1>3 DEF IsSet, SetFields
  <2> HIDE DEF new
  <2>4. new.values \in Seq(Int) /\ Len(new.values) = Len(set.values)
    <3>1. set.values \in Seq(Int) /\ i \in 1..Len(set.values)
      BY <1>3, <2>1 DEF IsSet
    <3> QED BY <2>3, <3>1
  <2>5. IsSet(new)
    BY <1>3, <2>3, <2>4 DEF IsSet
  <2>6. Spared(new, set, w)
    BY <2>3, <2>5 DEF Spared
  <2>7. SameSlots(u, w) /\ SetsOK(u)
    BY <1>2, <1>3, <2>2, <2>6, SetWritten DEF set
  <2> QED BY <1>2, <2>7, SameSlotsTwice
<1> QED BY <1>4, <1>5

-----------------------------------------------------------------------------
(* What a Structural does.                                                  *)

(* What an apply has made of a store, after d steps.                       *)
OK(s, d) == IsStore(s) /\ Rowed(s, {}) /\ IdsOK(s, d) /\ SetsOK(s)

(* Who is yet to be spawned keeps the slot that was reserved for it.       *)
SlotsKept(u, s, X) ==
  \A j \in Index \ X : s.locations[j] = Reserved =>
     u.locations[j] = Reserved /\ u.generations[j] = s.generations[j]

(* Two changes that keep reserved slots are one.                            *)
LEMMA SlotsKeptTwice ==
  ASSUME NEW s, NEW X, NEW u, SlotsKept(u, s, X), NEW w, SlotsKept(w, u, X)
  PROVE  SlotsKept(w, s, X)
BY DEF SlotsKept

(* A slot is dead, reserved or placed where its row is.                     *)
LEMMA SlotIs ==
  ASSUME NEW s, NEW X, Rowed(s, X), NEW i \in Index \ X
  PROVE  /\ s.locations[i] \in {Dead, Reserved} \/ s.locations[i].is = "placed"
         /\ s.locations[i].is = "placed" => Housed(s, i)
         /\ s.locations[i] \in {Dead, Reserved} => s.locations[i].is # "placed"
BY PlacedIs DEF Rowed, Housed

(* A value of a row, and the page it is on.                                *)
LEMMA CellIs ==
  ASSUME NEW s, IsStore(s), NEW t, NEW p, NEW r, HasRow(s, t, p, r), NEW c \in t
  PROVE  /\ s.tables[t].columns[c] \in Seq(PageSet)
         /\ p \in DOMAIN s.tables[t].columns[c]
         /\ s.tables[t].columns[c][p] \in PageSet
         /\ r \in DOMAIN s.tables[t].columns[c][p].cells
         /\ s.tables[t].columns[c][p].cells[r] \in CellSet
<1>1. IsTable(s.tables[t], t) /\ p \in DOMAIN s.tables[t].rows /\ r \in 1..Len(s.tables[t].rows[p])
  BY RowIs DEF HasRow
<1>2. IsColumn(s.tables[t].columns[c], s.tables[t].rows)
  BY <1>1 DEF IsTable
<1> DEFINE column == s.tables[t].columns[c]
<1>3. /\ column \in Seq(PageSet) /\ p \in DOMAIN column
      /\ Len(column[p].cells) = Len(s.tables[t].rows[p])
  BY <1>1, <1>2 DEF IsColumn
<1> HIDE DEF column
<1>4. column[p] \in PageSet
  BY <1>3
<1>5. column[p].cells \in Seq(CellSet)
  BY <1>4 DEF PageSet
<1>6. r \in DOMAIN column[p].cells
  BY <1>1, <1>3, <1>5
<1>7. column[p].cells[r] \in CellSet
  BY <1>5, <1>6
<1> QED BY <1>3, <1>4, <1>6, <1>7 DEF column

(* A cell of a table is another, at a greater tick or not.                 *)
CellPut(u, table, c, P, row, cell) ==
  /\ DOMAIN u = TableFields /\ u.rows = table.rows /\ u.keys = table.keys /\ SameStamps(u, table)
  /\ u.columns = [table.columns EXCEPT ![c] =
       [table.columns[c] EXCEPT ![P] = PutCell(table.columns[c][P], row, cell)]]

(* A table with another cell is one.                                        *)
LEMMA PutColumnIs ==
  ASSUME NEW t, NEW table, IsTable(table, t), NEW c \in t, NEW P \in DOMAIN table.rows,
         NEW row \in DOMAIN table.rows[P], NEW cell \in CellSet,
         NEW u, CellPut(u, table, c, P, row, cell), u.dirty \in BOOLEAN, u.dirty => IsOrdered(t)
  PROVE  IsTable(u, t)
<1> DEFINE column == table.columns[c]
           page == column[P]
           y == PutCell(page, row, cell)
           rows == table.rows
<1>1. IsColumn(column, rows) /\ DOMAIN table.columns = t /\ IsRows(rows)
  BY DEF IsTable
<1> HIDE DEF column, rows
<1>2. column \in Seq(PageSet) /\ P \in DOMAIN column /\ Len(page.cells) = Len(rows[P])
      /\ rows[P] \in Seq(Entity) /\ row \in 1..Len(rows[P])
  <2>1. rows \in Seq(EntityLists) /\ P \in DOMAIN rows /\ row \in DOMAIN rows[P]
    BY <1>1 DEF rows, IsRows
  <2>2. rows[P] \in EntityLists
    BY <2>1
  <2> QED BY <1>1, <2>1, <2>2 DEF IsColumn, EntityLists
<1>3. page \in PageSet
  BY <1>2
<1> HIDE DEF page
<1>4. page.cells \in Seq(CellSet) /\ row \in DOMAIN page.cells /\ row \in 1..Len(page.cells)
  BY <1>2, <1>3 DEF PageSet
<1>5. y \in PageSet
  BY <1>3, <1>4, PutCellIs
<1>6. Len(y.cells) = Len(page.cells)
  BY <1>3, <1>4, PutCellIs
<1> HIDE DEF y
<1> DEFINE new == [column EXCEPT ![P] = y]
<1>7. new \in Seq(PageSet) /\ DOMAIN new = DOMAIN column
      /\ new[P] = y /\ \A p \in DOMAIN column \ {P} : new[p] = column[p]
  BY <1>2, <1>5
<1> HIDE DEF new
<1>8. IsColumn(new, rows)
  BY <1>1, <1>2, <1>6, <1>7 DEF IsColumn
<1>9. DOMAIN u.columns = t /\ u.columns[c] = new /\ \A x \in t \ {c} : u.columns[x] = table.columns[x]
  BY <1>1 DEF new, column, page, y, CellPut
<1> QED BY <1>8, <1>9 DEF IsTable, SameStamps, rows, CellPut

-----------------------------------------------------------------------------
(* Rows that are another's: what stays fresh and keyed.                     *)

(* What a system saw when it last looked, k, and what it would now look at.*)
Saw(e, k) == \E row \in k.saw : row.entity = e
IsWatched(t, k) == k.reads \in t /\ k.without \intersect t = {}

(* A row's value was seen then, or was written since, or no row of its     *)
(* entity was: which then arrived since, if it is where a system looks.    *)
FreshCell(e, cell, k) ==
  [entity |-> e, value |-> cell.value] \in k.saw \/ cell.tick > k.since \/ ~Saw(e, k)
FreshRow(v, t, p, r, k) ==
  FreshCell(v.rows[p][r], v.columns[k.reads][p].cells[r], k)
  /\ \/ [entity |-> v.rows[p][r], value |-> v.columns[k.reads][p].cells[r].value] \in k.saw
     \/ v.columns[k.reads][p].cells[r].tick > k.since
     \/ IsWatched(t, k) => v.arrived > k.since
IsFresh(v, t, k) ==
  k.reads \in t => \A p \in DOMAIN v.rows : \A r \in DOMAIN v.rows[p] : FreshRow(v, t, p, r, k)

(* A row's key is its value's, or is to be: the row is new or was written. *)
KeyedAs(v, p, r) == v.keys[p][r] = Glue(v.keyedBy, v.columns[Key][p].cells[r].value)
MayKey(v, p, r) ==
  v.keys[p][r] = LastKey \/ v.columns[Key][p].cells[r].tick > v.sortedAt \/ KeyedAs(v, p, r)
AllMayKey(v) == \A p \in DOMAIN v.rows : \A r \in DOMAIN v.rows[p] : MayKey(v, p, r)
AtRest(v) ==
  InOrder(v) /\ \A p \in DOMAIN v.rows : \A r \in DOMAIN v.rows[p] : KeyedAs(v, p, r)

(* At a time, a table but for some is in order, or is to be put in order.  *)
IsKept(v, t, time, some) ==
  /\ v.sortedAt <= time
  /\ IsOrdered(t) => AllMayKey(v) /\ (v.dirty \/ t \in some \/ AtRest(v))

(* A table that is new is in order and has nothing to be seen.             *)
LEMMA NewIsKept ==
  ASSUME NEW t, NEW time \in Nat, NEW some, NEW k
  PROVE  IsKept(NewTable(t), t, time, some) /\ IsFresh(NewTable(t), t, k)
<1>1. /\ DOMAIN NewTable(t).rows = {1} /\ NewTable(t).rows[1] = <<>> /\ NewTable(t).sortedAt = 0
  BY NewTableIs DEF NewTable
<1>2. DOMAIN NewTable(t).rows[1] = {}
  BY <1>1
<1>3. InOrder(NewTable(t))
  BY <1>1, <1>2, PlacesAre DEF InOrder, PlaceOf
<1> QED BY <1>1, <1>2, <1>3 DEF IsKept, IsFresh, AllMayKey, AtRest

(* A row is one of another table's, with its key and its cells.            *)
SameRow(u, p, r, v, q, m, t) ==
  /\ q \in DOMAIN v.rows /\ m \in DOMAIN v.rows[q]
  /\ u.rows[p][r] = v.rows[q][m] /\ u.keys[p][r] = v.keys[q][m]
  /\ \A c \in t : u.columns[c][p].cells[r] = v.columns[c][q].cells[m]

(* A row is as fresh in the one as in the other, and as well keyed.        *)
LEMMA SameRowFresh ==
  ASSUME NEW t, NEW u, NEW v, NEW p, NEW r, NEW q, NEW m, SameRow(u, p, r, v, q, m, t),
         NEW k, k.reads \in t, IsFresh(v, t, k), u.arrived = v.arrived \/ u.arrived > k.since
  PROVE  FreshRow(u, t, p, r, k)
<1>1. FreshRow(v, t, q, m, k)
  BY DEF IsFresh, SameRow
<1>2. u.rows[p][r] = v.rows[q][m] /\ u.columns[k.reads][p].cells[r] = v.columns[k.reads][q].cells[m]
  BY DEF SameRow
<1> QED BY <1>1, <1>2, Zenon DEF FreshRow

(* A row that is another's is keyed, or to be keyed, as that.               *)
LEMMA SameRowKeyed ==
  ASSUME NEW t, NEW u, NEW v, NEW p, NEW r, NEW q, NEW m, SameRow(u, p, r, v, q, m, t),
         IsOrdered(t), AllMayKey(v), u.sortedAt = v.sortedAt, u.keyedBy = v.keyedBy
  PROVE  MayKey(u, p, r)
<1>1. MayKey(v, q, m)
  BY DEF AllMayKey, SameRow
<1>2. u.keys[p][r] = v.keys[q][m] /\ u.columns[Key][p].cells[r] = v.columns[Key][q].cells[m]
  BY DEF SameRow, IsOrdered
<1> QED BY <1>1, <1>2, Zenon DEF MayKey, KeyedAs

(* A table with the rows of another, and marked if it is ordered.          *)
RowsFrom(u, v, t) ==
  \A p \in DOMAIN u.rows : \A r \in DOMAIN u.rows[p] : \E q, m : SameRow(u, p, r, v, q, m, t)

(* A table whose rows are all another's is as fresh.                        *)
LEMMA RowsFromFresh ==
  ASSUME NEW t, NEW u, NEW v, RowsFrom(u, v, t),
         NEW k, IsFresh(v, t, k), u.arrived = v.arrived \/ u.arrived > k.since
  PROVE  IsFresh(u, t, k)
BY SameRowFresh DEF RowsFrom, IsFresh

(* A table whose rows are all another's is keyed, or to be keyed, as that.  *)
LEMMA RowsFromKeyed ==
  ASSUME NEW t, NEW u, NEW v, RowsFrom(u, v, t),
         IsOrdered(t), AllMayKey(v), u.sortedAt = v.sortedAt, u.keyedBy = v.keyedBy
  PROVE  AllMayKey(u)
BY SameRowKeyed DEF RowsFrom, AllMayKey

(* Two tables have the same rows, keyed with the same values, at the same  *)
(* places.                                                                 *)
SamePlaces(u, v) ==
  /\ u.keyedBy = v.keyedBy
  /\ \A p, r : p \in DOMAIN u.rows /\ r \in DOMAIN u.rows[p] <=> p \in DOMAIN v.rows /\ r \in DOMAIN v.rows[p]
  /\ \A p, r : p \in DOMAIN v.rows /\ r \in DOMAIN v.rows[p] =>
       /\ u.rows[p][r] = v.rows[p][r] /\ u.keys[p][r] = v.keys[p][r]
       /\ u.columns[Key][p].cells[r] = v.columns[Key][p].cells[r]

(* A table with the same rows, keyed with the same values at the same       *)
(* places, is in order if that is.                                          *)
LEMMA SamePlacesRest ==
  ASSUME NEW u, NEW v, SamePlaces(u, v), AtRest(v)
  PROVE  AtRest(u)
<1>1. ASSUME NEW a \in Places(u.rows), NEW b \in Places(u.rows), Sooner(a, b) PROVE Before(u, a, b)
  <2>1. /\ a[1] \in DOMAIN v.rows /\ a[2] \in DOMAIN v.rows[a[1]] /\ a = <<a[1], a[2]>>
        /\ b[1] \in DOMAIN v.rows /\ b[2] \in DOMAIN v.rows[b[1]] /\ b = <<b[1], b[2]>>
    BY PlacesAre DEF SamePlaces, PlaceOf
  <2>2. a \in Places(v.rows) /\ b \in Places(v.rows)
    BY <2>1, PlacesAre
  <2>3. Before(v, a, b)
    BY <1>1, <2>2 DEF AtRest, InOrder
  <2>4. /\ u.rows[a[1]][a[2]] = v.rows[a[1]][a[2]] /\ u.keys[a[1]][a[2]] = v.keys[a[1]][a[2]]
        /\ u.rows[b[1]][b[2]] = v.rows[b[1]][b[2]] /\ u.keys[b[1]][b[2]] = v.keys[b[1]][b[2]]
    BY <2>1 DEF SamePlaces
  <2> QED BY <2>3, <2>4 DEF Before
<1>2. ASSUME NEW p \in DOMAIN u.rows, NEW r \in DOMAIN u.rows[p] PROVE KeyedAs(u, p, r)
  <2>1. p \in DOMAIN v.rows /\ r \in DOMAIN v.rows[p] /\ u.keyedBy = v.keyedBy
    BY DEF SamePlaces
  <2>2. KeyedAs(v, p, r)
    BY <2>1 DEF AtRest
  <2>3. u.keys[p][r] = v.keys[p][r] /\ u.columns[Key][p].cells[r] = v.columns[Key][p].cells[r]
    BY <2>1 DEF SamePlaces
  <2> QED BY <2>1, <2>2, <2>3 DEF KeyedAs
<1> QED BY <1>1, <1>2 DEF AtRest, InOrder

-----------------------------------------------------------------------------

(* A cell of a page without one.                                           *)
LEMMA DropCellAt ==
  ASSUME NEW page \in PageSet, NEW n, n = Len(page.cells), NEW row \in 1..n,
         NEW y, y = DropCell(page, row), NEW r \in 1..n - 1
  PROVE  y.cells[r] = IF r = row THEN page.cells[n] ELSE page.cells[r]
<1> DEFINE list == page.cells
<1>1. list \in Seq(CellSet) /\ DOMAIN page = {"cells", "written"}
  BY DEF PageSet
<1>2. y.cells = SwapRemove(list, row) /\ row \in 1..Len(list) /\ r \in 1..Len(list) - 1 /\ n = Len(list)
  BY <1>1 DEF DropCell
<1> HIDE DEF list
<1>3. \A x \in 1..Len(list) - 1 :
         SwapRemove(list, row)[x] = IF x = row THEN list[Len(list)] ELSE list[x]
  BY <1>1, <1>2, SwapRemoved, Zenon
<1>4. y.cells[r] = IF r = row THEN list[n] ELSE list[r]
  BY <1>2, <1>3, Zenon
<1> QED BY <1>4 DEF list

(* A page that is as it was has the rows that it had.                      *)
LEMMA SamePageRows ==
  ASSUME NEW t, NEW u, NEW v, DOMAIN v.columns = t, NEW p \in DOMAIN v.rows, SamePage(u, v, p),
         NEW r \in DOMAIN v.rows[p]
  PROVE  SameRow(u, p, r, v, p, r, t)
BY DEF SamePage, SameRow

(* Room on the last page changes no row.                                   *)
LEMMA WithRoomKept ==
  ASSUME NEW t, NEW table, IsTable(table, t), NEW u, u = WithRoom(table),
         NEW time, NEW some, IsKept(table, t, time, some)
  PROVE  IsKept(u, t, time, some) /\ \A k : IsFresh(table, t, k) => IsFresh(u, t, k)
<1>1. /\ IsTable(u, t) /\ DOMAIN table.rows \subseteq DOMAIN u.rows
      /\ \A p \in DOMAIN table.rows : SamePage(u, table, p)
      /\ \A p \in DOMAIN u.rows \ DOMAIN table.rows : u.rows[p] = <<>>
      /\ SameStamps(u, table) /\ u.dirty = table.dirty
  BY WithRoomIs
<1>2. DOMAIN table.columns = t /\ DOMAIN <<>> = {}
  BY DEF IsTable
<1>3. ASSUME NEW p \in DOMAIN u.rows, NEW r \in DOMAIN u.rows[p]
      PROVE  p \in DOMAIN table.rows /\ r \in DOMAIN table.rows[p] /\ SameRow(u, p, r, table, p, r, t)
  <2>1. p \in DOMAIN table.rows
    BY <1>1, <1>2
  <2>2. SamePage(u, table, p)
    BY <1>1, <2>1
  <2>3. r \in DOMAIN table.rows[p]
    BY <2>2 DEF SamePage
  <2> QED BY <1>2, <2>1, <2>2, <2>3, SamePageRows
<1>4. RowsFrom(u, table, t)
  BY <1>3 DEF RowsFrom
<1>5. IsOrdered(t) => SamePlaces(u, table)
  <2> SUFFICES ASSUME IsOrdered(t) PROVE SamePlaces(u, table)
    OBVIOUS
  <2>1. ASSUME NEW p \in DOMAIN table.rows, NEW r \in DOMAIN table.rows[p]
        PROVE  /\ p \in DOMAIN u.rows /\ r \in DOMAIN u.rows[p]
               /\ u.rows[p][r] = table.rows[p][r] /\ u.keys[p][r] = table.keys[p][r]
               /\ u.columns[Key][p].cells[r] = table.columns[Key][p].cells[r]
    BY <1>1, <1>2 DEF SamePage, IsOrdered
  <2> QED BY <1>1, <1>3, <2>1 DEF SamePlaces, SameStamps
<1>6. ASSUME IsOrdered(t) PROVE AllMayKey(u) /\ (u.dirty \/ t \in some \/ AtRest(u))
  <2>1. AllMayKey(table) /\ (table.dirty \/ t \in some \/ AtRest(table))
    BY <1>6 DEF IsKept
  <2> QED BY <1>1, <1>4, <1>5, <1>6, <2>1, RowsFromKeyed, SamePlacesRest DEF SameStamps
<1>7. \A k : IsFresh(table, t, k) => IsFresh(u, t, k)
  BY <1>1, <1>4, RowsFromFresh DEF SameStamps
<1> QED BY <1>1, <1>6, <1>7 DEF IsKept, SameStamps

(* A row more is of who was not seen, or has a value that was, or was      *)
(* written since; and the table is to be put in order.                     *)
LEMMA WithRowKept ==
  ASSUME NEW t, NEW table, IsTable(table, t), Len(Last(table.rows)) < PageRows,
         NEW e \in Entity, NEW cells, DOMAIN cells = t, \A c \in t : cells[c] \in CellSet,
         NEW tick \in Nat, NEW u, u = WithRow(table, e, cells, tick),
         NEW time, NEW some, IsKept(table, t, time, some)
  PROVE  /\ IsKept(u, t, time, some)
         /\ \A k : /\ IsFresh(table, t, k) /\ tick > k.since
                   /\ k.reads \in t => FreshCell(e, cells[k.reads], k)
                   => IsFresh(u, t, k)
<1> DEFINE P == Len(table.rows)
           n == Len(table.rows[P])
<1>1. IsWithRow(u, table, t, P, n, e, cells, tick)
  BY WithRowIs
<1>2. DOMAIN table.columns = t /\ table.rows \in Seq(EntityLists)
  BY DEF IsTable, IsRows
<1> HIDE DEF P, n
<1>3. /\ DOMAIN u.rows = DOMAIN table.rows /\ P \in DOMAIN table.rows
      /\ n \in Nat /\ DOMAIN u.rows[P] = 1..n + 1 /\ DOMAIN table.rows[P] = 1..n
      /\ \A p \in DOMAIN table.rows \ {P} : SamePage(u, table, p)
  BY <1>1 DEF IsWithRow
<1>4. /\ u.rows[P][n + 1] = e /\ \A r \in 1..n : u.rows[P][r] = table.rows[P][r]
      /\ u.keys[P][n + 1] = LastKey /\ \A r \in 1..n : u.keys[P][r] = table.keys[P][r]
  BY <1>1 DEF IsWithRow
<1>5. /\ u.arrived = tick /\ u.sortedAt = table.sortedAt
      /\ u.keyedBy = table.keyedBy /\ u.dirty = IsOrdered(t)
  BY <1>1 DEF IsWithRow
<1>6. ASSUME NEW c \in t
      PROVE  /\ u.columns[c][P].cells[n + 1] = cells[c]
             /\ \A r \in 1..n : u.columns[c][P].cells[r] = table.columns[c][P].cells[r]
  <2> DEFINE page == table.columns[c][P]
             y == PushCell(page, cells[c])
  <2>1. u.columns[c][P] = y
    BY <1>1 DEF IsWithRow
  <2>2. page \in PageSet /\ n = Len(page.cells) /\ cells[c] \in CellSet
    <3>1. IsColumn(table.columns[c], table.rows)
      BY DEF IsTable
    <3> QED BY <1>3, <3>1 DEF IsColumn, n
  <2> HIDE DEF page, y
  <2>3. y.cells[n + 1] = cells[c] /\ \A r \in 1..n : y.cells[r] = page.cells[r]
    BY <2>2, PushCellIs DEF y
  <2> QED BY <2>1, <2>3 DEF page
<1>7. ASSUME NEW p \in DOMAIN u.rows, NEW r \in DOMAIN u.rows[p], p # P \/ r # n + 1
      PROVE  SameRow(u, p, r, table, p, r, t)
  <2>1. CASE p # P
    <3>1. p \in DOMAIN table.rows /\ SamePage(u, table, p)
      BY <1>3, <2>1
    <3>2. r \in DOMAIN table.rows[p]
      BY <3>1 DEF SamePage
    <3> QED BY <1>2, <3>1, <3>2, SamePageRows
  <2>2. CASE p = P
    <3>1. r \in 1..n
      BY <1>3, <1>7, <2>2
    <3> QED BY <1>3, <1>4, <1>6, <2>2, <3>1 DEF SameRow
  <2> QED BY <2>1, <2>2
<1>8. ASSUME IsOrdered(t) PROVE AllMayKey(u)
  <2>1. AllMayKey(table)
    BY <1>8 DEF IsKept
  <2>2. ASSUME NEW p \in DOMAIN u.rows, NEW r \in DOMAIN u.rows[p] PROVE MayKey(u, p, r)
    <3>1. CASE p = P /\ r = n + 1
      BY <1>4, <3>1 DEF MayKey
    <3>2. CASE p # P \/ r # n + 1
      BY <1>5, <1>7, <1>8, <2>1, <3>2, SameRowKeyed
    <3> QED BY <3>1, <3>2
  <2> QED BY <2>2 DEF AllMayKey
<1>9. ASSUME NEW k, IsFresh(table, t, k), tick > k.since,
             k.reads \in t => FreshCell(e, cells[k.reads], k)
      PROVE  IsFresh(u, t, k)
  <2> SUFFICES ASSUME k.reads \in t, NEW p \in DOMAIN u.rows, NEW r \in DOMAIN u.rows[p]
               PROVE  FreshRow(u, t, p, r, k)
    BY DEF IsFresh
  <2>1. CASE p = P /\ r = n + 1
    <3>1. FreshCell(u.rows[p][r], u.columns[k.reads][p].cells[r], k)
      BY <1>4, <1>6, <1>9, <2>1
    <3>2. u.arrived > k.since
      BY <1>5, <1>9
    <3> QED BY <3>1, <3>2 DEF FreshRow
  <2>2. CASE p # P \/ r # n + 1
    BY <1>5, <1>7, <1>9, <2>2, SameRowFresh
  <2> QED BY <2>1, <2>2
<1> QED BY <1>5, <1>8, <1>9 DEF IsKept

(* A row less: who was swapped in is as fresh and as well keyed, and the   *)
(* table is to be put in order.                                            *)
LEMMA WithoutRowKept ==
  ASSUME NEW t, NEW table, IsTable(table, t), NEW P \in DOMAIN table.rows,
         NEW row \in DOMAIN table.rows[P], NEW tick \in Nat,
         NEW u, u = WithoutRow(table, P, row, tick),
         NEW time, NEW some, IsKept(table, t, time, some)
  PROVE  IsKept(u, t, time, some) /\ \A k : IsFresh(table, t, k) => IsFresh(u, t, k)
<1> DEFINE n == Len(table.rows[P])
<1>1. IsWithoutRow(u, table, t, P, n, row, tick)
  BY WithoutRowIs
<1>2. DOMAIN table.columns = t
  BY DEF IsTable
<1> HIDE DEF n
<1>3. /\ DOMAIN u.rows = DOMAIN table.rows
      /\ n \in Nat /\ DOMAIN table.rows[P] = 1..n /\ DOMAIN u.rows[P] = 1..n - 1
      /\ \A p \in DOMAIN table.rows \ {P} : SamePage(u, table, p)
  BY <1>1 DEF IsWithoutRow
<1>4. \A r \in 1..n - 1 :
        /\ u.rows[P][r] = IF r = row THEN table.rows[P][n] ELSE table.rows[P][r]
        /\ u.keys[P][r] = IF r = row THEN table.keys[P][n] ELSE table.keys[P][r]
  BY <1>1 DEF IsWithoutRow
<1>5. /\ u.arrived = table.arrived /\ u.sortedAt = table.sortedAt
      /\ u.keyedBy = table.keyedBy /\ u.dirty = IsOrdered(t)
  BY <1>1 DEF IsWithoutRow
<1>6. ASSUME NEW c \in t, NEW r \in 1..n - 1
      PROVE  u.columns[c][P].cells[r] = IF r = row THEN table.columns[c][P].cells[n]
                                                   ELSE table.columns[c][P].cells[r]
  <2> DEFINE page == table.columns[c][P]
             y == DropCell(page, row)
  <2>1. u.columns[c][P] = y
    BY <1>1 DEF IsWithoutRow
  <2>2. page \in PageSet /\ n = Len(page.cells) /\ row \in 1..n
    <3>1. IsColumn(table.columns[c], table.rows)
      BY DEF IsTable
    <3> QED BY <1>3, <3>1 DEF IsColumn, n
  <2> HIDE DEF page, y
  <2>4. y = DropCell(page, row)
    BY DEF y
  <2>3. y.cells[r] = IF r = row THEN page.cells[n] ELSE page.cells[r]
    BY <2>2, <2>4, DropCellAt
  <2> QED BY <2>1, <2>3 DEF page
<1>7. ASSUME NEW p \in DOMAIN u.rows, NEW r \in DOMAIN u.rows[p]
      PROVE  \E q, m : SameRow(u, p, r, table, q, m, t)
  <2>1. CASE p # P
    <3>1. p \in DOMAIN table.rows /\ SamePage(u, table, p)
      BY <1>3, <2>1
    <3>2. r \in DOMAIN table.rows[p]
      BY <3>1 DEF SamePage
    <3> QED BY <1>2, <3>1, <3>2, SamePageRows
  <2>2. CASE p = P
    <3>1. r \in 1..n - 1 /\ r \in 1..n /\ n \in 1..n
      BY <1>3, <2>2
    <3>2. CASE r = row
      <4>1. SameRow(u, p, r, table, P, n, t)
        BY <1>3, <1>4, <1>6, <2>2, <3>1, <3>2 DEF SameRow
      <4> QED BY <4>1
    <3>3. CASE r # row
      <4>1. SameRow(u, p, r, table, P, r, t)
        BY <1>3, <1>4, <1>6, <2>2, <3>1, <3>3 DEF SameRow
      <4> QED BY <4>1
    <3> QED BY <3>2, <3>3
  <2> QED BY <2>1, <2>2
<1>8. RowsFrom(u, table, t)
  BY <1>7 DEF RowsFrom
<1>9. \A k : IsFresh(table, t, k) => IsFresh(u, t, k)
  BY <1>5, <1>8, RowsFromFresh
<1>10. IsOrdered(t) => AllMayKey(u)
  BY <1>5, <1>8, RowsFromKeyed DEF IsKept
<1> QED BY <1>5, <1>9, <1>10 DEF IsKept

-----------------------------------------------------------------------------

(* A table's cells once one of them was put.                               *)
LEMMA CellPutCells ==
  ASSUME NEW t, NEW table, IsTable(table, t), NEW c \in t, NEW P \in DOMAIN table.rows,
         NEW row \in DOMAIN table.rows[P], NEW cell,
         NEW u, CellPut(u, table, c, P, row, cell),
         NEW x \in t, NEW p \in DOMAIN table.rows, NEW r \in DOMAIN table.rows[p]
  PROVE  u.columns[x][p].cells[r] =
           IF x = c /\ p = P /\ r = row THEN cell ELSE table.columns[x][p].cells[r]
<1> DEFINE column == table.columns[c]
           page == column[P]
           new == [column EXCEPT ![P] = PutCell(page, row, cell)]
<1>1. DOMAIN table.columns = t /\ IsColumn(column, table.rows) /\ IsRows(table.rows)
  BY DEF IsTable
<1>2. u.columns = [table.columns EXCEPT ![c] = new]
  BY DEF CellPut
<1>3. P \in DOMAIN column /\ column \in Seq(PageSet) /\ Len(page.cells) = Len(table.rows[P])
      /\ DOMAIN column = DOMAIN table.rows
  BY <1>1 DEF IsColumn
<1>4. page \in PageSet /\ table.rows[P] \in Seq(Entity)
  BY <1>1, <1>3 DEF IsRows, EntityLists
<1> HIDE DEF column, page, new
<1>5. page.cells \in Seq(CellSet) /\ DOMAIN page.cells = DOMAIN table.rows[P]
  BY <1>3, <1>4 DEF PageSet
<1>6. CASE x # c
  BY <1>1, <1>2, <1>6
<1>7. CASE x = c /\ p # P
  <2>1. u.columns[x] = new /\ new[p] = column[p]
    BY <1>1, <1>2, <1>3, <1>7 DEF new
  <2> QED BY <1>7, <2>1 DEF column
<1>8. CASE x = c /\ p = P
  <2>1. u.columns[x][p] = PutCell(page, row, cell)
    BY <1>1, <1>2, <1>3, <1>8 DEF new
  <2>2. u.columns[x][p].cells = [page.cells EXCEPT ![row] = cell]
    BY <2>1 DEF PutCell
  <2>3. u.columns[x][p].cells[r] = IF r = row THEN cell ELSE page.cells[r]
    BY <1>5, <1>8, <2>2
  <2> QED BY <1>8, <2>3 DEF column, page
<1> QED BY <1>6, <1>7, <1>8

(* A cell that is put is fresh, and its row to be keyed if it is of a key. *)
LEMMA CellPutKept ==
  ASSUME NEW t, NEW table, IsTable(table, t), NEW c \in t, NEW P \in DOMAIN table.rows,
         NEW row \in DOMAIN table.rows[P], NEW cell, table.sortedAt < cell.tick,
         NEW u, CellPut(u, table, c, P, row, cell)
  PROVE  /\ \A k : IsFresh(table, t, k) /\ cell.tick > k.since => IsFresh(u, t, k)
         /\ IsOrdered(t) /\ AllMayKey(table) => AllMayKey(u)
         /\ IsOrdered(t) /\ AtRest(table) /\ c # Key => AtRest(u)
<1>1. /\ u.rows = table.rows /\ u.keys = table.keys /\ u.arrived = table.arrived
      /\ u.sortedAt = table.sortedAt /\ u.keyedBy = table.keyedBy
  BY DEF CellPut, SameStamps
<1>2. ASSUME NEW p \in DOMAIN table.rows, NEW r \in DOMAIN table.rows[p], NEW x \in t
      PROVE  u.columns[x][p].cells[r] =
               IF x = c /\ p = P /\ r = row THEN cell ELSE table.columns[x][p].cells[r]
  BY CellPutCells
<1>3. ASSUME NEW k, IsFresh(table, t, k), cell.tick > k.since PROVE IsFresh(u, t, k)
  <2> SUFFICES ASSUME k.reads \in t, NEW p \in DOMAIN table.rows, NEW r \in DOMAIN table.rows[p]
               PROVE  FreshRow(u, t, p, r, k)
    BY <1>1 DEF IsFresh
  <2> DEFINE now == u.columns[k.reads][p].cells[r]
  <2>1. now = cell \/ now = table.columns[k.reads][p].cells[r]
    BY <1>2
  <2>2. FreshRow(table, t, p, r, k)
    BY <1>3 DEF IsFresh
  <2>3. CASE now = cell
    BY <1>3, <2>3 DEF FreshRow, FreshCell
  <2>4. CASE now = table.columns[k.reads][p].cells[r]
    BY <1>1, <2>2, <2>4 DEF FreshRow
  <2> QED BY <2>1, <2>3, <2>4
<1>4. ASSUME IsOrdered(t), AllMayKey(table) PROVE AllMayKey(u)
  <2> SUFFICES ASSUME NEW p \in DOMAIN table.rows, NEW r \in DOMAIN table.rows[p]
               PROVE  MayKey(u, p, r)
    BY <1>1 DEF AllMayKey
  <2> DEFINE now == u.columns[Key][p].cells[r]
  <2>1. now = cell \/ now = table.columns[Key][p].cells[r]
    BY <1>2, <1>4 DEF IsOrdered
  <2>2. MayKey(table, p, r)
    BY <1>4 DEF AllMayKey
  <2>3. CASE now = cell
    BY <1>1, <2>3 DEF MayKey
  <2>4. CASE now = table.columns[Key][p].cells[r]
    BY <1>1, <2>2, <2>4 DEF MayKey, KeyedAs
  <2> QED BY <2>1, <2>3, <2>4
<1>5. ASSUME IsOrdered(t), AtRest(table), c # Key PROVE AtRest(u)
  <2>1. \A p \in DOMAIN table.rows : \A r \in DOMAIN table.rows[p] :
           u.columns[Key][p].cells[r] = table.columns[Key][p].cells[r]
    BY <1>2, <1>5 DEF IsOrdered
  <2>2. SamePlaces(u, table)
    BY <1>1, <2>1 DEF SamePlaces
  <2> QED BY <1>5, <2>2, SamePlacesRest
<1> QED BY <1>3, <1>4, <1>5

(* What only has its pages' stamps changed is as fresh and in order.       *)
SameCells(u, v, t) ==
  /\ u.rows = v.rows /\ u.keys = v.keys /\ SameStamps(u, v) /\ u.dirty = v.dirty
  /\ \A x \in t : \A p \in DOMAIN v.rows : \A r \in DOMAIN v.rows[p] :
       u.columns[x][p].cells[r] = v.columns[x][p].cells[r]

(* What leaves a table's rows, cells and keys leaves it as fresh and as     *)
(* much in order.                                                           *)
LEMMA SameCellsKept ==
  ASSUME NEW t, NEW u, NEW v, SameCells(u, v, t)
  PROVE  /\ \A k : IsFresh(v, t, k) => IsFresh(u, t, k)
         /\ IsOrdered(t) /\ AllMayKey(v) => AllMayKey(u)
         /\ IsOrdered(t) /\ AtRest(v) => AtRest(u)
<1>1. ASSUME NEW p \in DOMAIN u.rows, NEW r \in DOMAIN u.rows[p] PROVE SameRow(u, p, r, v, p, r, t)
  BY DEF SameCells, SameRow
<1>2. RowsFrom(u, v, t)
  BY <1>1 DEF RowsFrom
<1>3. IsOrdered(t) => SamePlaces(u, v)
  BY DEF SameCells, SameStamps, SamePlaces, IsOrdered
<1> QED BY <1>2, <1>3, RowsFromFresh, RowsFromKeyed, SamePlacesRest DEF SameCells, SameStamps

(* A re-sort leaves a table that it is made of in order, with every row    *)
(* keyed as the build has it, and what is fresh fresh.                     *)
LEMMA ResortedKept ==
  ASSUME NEW t, NEW table, IsTable(table, t), Distinct(table.rows), NEW b \in Nat, NEW tick \in Nat,
         NEW u, u = Resorted(table, b, tick)
  PROVE  /\ ~u.dirty /\ (~table.dirty => u = table) /\ u.arrived = table.arrived /\ u.left = table.left
         /\ table.dirty /\ AllMayKey(table) => AtRest(u) /\ AllMayKey(u) /\ u.sortedAt = tick
         /\ \A k : IsFresh(table, t, k) => IsFresh(u, t, k)
<1> DEFINE v == Keyed(table, b, tick)
<1>1. CASE ~table.dirty
  <2>1. ~u.dirty /\ u = table
    BY <1>1, ResortedIs
  <2> QED BY <1>1, <2>1
<1>2. CASE table.dirty
  <2>1. /\ ~u.dirty /\ IsTable(v, t) /\ v.rows = table.rows /\ v.columns = table.columns
        /\ \A p \in DOMAIN table.rows : \A r \in DOMAIN table.rows[p] :
             v.keys[p][r] = IF KeyedAnew(table, p, r, b)
                            THEN Glue(b, table.columns[Key][p].cells[r].value)
                            ELSE table.keys[p][r]
        /\ Permuted(u, v) /\ InOrder(u) /\ u.sortedAt = tick /\ u.keyedBy = b
        /\ u.arrived = table.arrived /\ u.left = table.left
    BY <1>2, ResortedIs
  <2>2. IsOrdered(t)
    BY <1>2 DEF IsTable
  <2> HIDE DEF v
  <2>3. ASSUME NEW p \in DOMAIN u.rows, NEW r \in DOMAIN u.rows[p]
        PROVE  \E q, m : /\ q \in DOMAIN table.rows /\ m \in DOMAIN table.rows[q]
                         /\ IsOf(u, p, r, v, <<q, m>>)
    <3>1. <<p, r>> \in Places(u.rows)
      BY PlacesAre
    <3>2. PICK a \in Places(v.rows) : IsOf(u, p, r, v, a)
      BY <2>1, <3>1 DEF Permuted
    <3>3. a = <<a[1], a[2]>> /\ a[1] \in DOMAIN table.rows /\ a[2] \in DOMAIN table.rows[a[1]]
      BY <2>1, <3>2, PlacesAre DEF PlaceOf
    <3> QED BY <3>2, <3>3
  <2>4. ASSUME AllMayKey(table), NEW p \in DOMAIN u.rows, NEW r \in DOMAIN u.rows[p]
        PROVE  KeyedAs(u, p, r)
    <3>1. PICK q, m : /\ q \in DOMAIN table.rows /\ m \in DOMAIN table.rows[q]
                      /\ IsOf(u, p, r, v, <<q, m>>)
      BY <2>3
    <3>2. u.keys[p][r] = v.keys[q][m]
      BY <3>1 DEF IsOf
    <3>3. u.columns[Key][p].cells[r] = table.columns[Key][q].cells[m]
      <4>1. Key \in DOMAIN v.columns
        BY <2>1, <2>2 DEF IsTable, IsOrdered
      <4> QED BY <2>1, <3>1, <4>1 DEF IsOf
    <3>4. MayKey(table, q, m)
      BY <2>4, <3>1 DEF AllMayKey
    <3>5. v.keys[q][m] = Glue(b, table.columns[Key][q].cells[m].value)
      <4>1. CASE KeyedAnew(table, q, m, b)
        BY <2>1, <3>1, <4>1
      <4>2. CASE ~KeyedAnew(table, q, m, b)
        <5>1. v.keys[q][m] = table.keys[q][m]
          BY <2>1, <3>1, <4>2
        <5>2. KeyedAs(table, q, m) /\ table.keyedBy = b
          BY <3>4, <4>2 DEF MayKey, KeyedAnew
        <5> QED BY <5>1, <5>2 DEF KeyedAs
      <4> QED BY <4>1, <4>2
    <3> QED BY <2>1, <3>2, <3>3, <3>5 DEF KeyedAs
  <2>5. AllMayKey(table) => AtRest(u) /\ AllMayKey(u) /\ u.sortedAt = tick
    BY <2>1, <2>4 DEF AtRest, AllMayKey, MayKey
  <2>6. ASSUME NEW k, IsFresh(table, t, k) PROVE IsFresh(u, t, k)
    <3> SUFFICES ASSUME k.reads \in t, NEW p \in DOMAIN u.rows, NEW r \in DOMAIN u.rows[p]
                 PROVE  FreshRow(u, t, p, r, k)
      BY DEF IsFresh
    <3>1. PICK q, m : /\ q \in DOMAIN table.rows /\ m \in DOMAIN table.rows[q]
                      /\ IsOf(u, p, r, v, <<q, m>>)
      BY <2>3
    <3>2. u.rows[p][r] = table.rows[q][m]
      BY <2>1, <3>1 DEF IsOf
    <3>3. u.columns[k.reads][p].cells[r] = table.columns[k.reads][q].cells[m]
      <4>1. k.reads \in DOMAIN v.columns
        BY <2>1 DEF IsTable
      <4> QED BY <2>1, <3>1, <4>1 DEF IsOf
    <3>4. FreshRow(table, t, q, m, k)
      BY <2>6, <3>1 DEF IsFresh
    <3> QED BY <2>1, <3>2, <3>3, <3>4, Zenon DEF FreshRow
  <2> QED BY <1>2, <2>1, <2>5, <2>6
<1> QED BY <1>1, <1>2

-----------------------------------------------------------------------------
(* What is sound of a store.                                                *)

(* Whoever a system saw is where it looks, or it is told that one left.    *)
Noticed(s, k) ==
  \/ \E t \in DOMAIN s.tables : IsWatched(t, k) /\ s.tables[t].left > k.since
  \/ \A x \in k.saw : \E t, p, r :
       IsWatched(t, k) /\ HasRow(s, t, p, r) /\ RowAt(s, t, p, r) = x.entity

(* Every table but for some is kept in order, and what a system is told is *)
(* all that has changed.                                                   *)
Sound(s, k, some) ==
  /\ k.since \in Nat /\ k.since <= s.tick /\ (s.stamp = 0 \/ s.stamp > k.since)
  /\ \A t \in DOMAIN s.tables : IsKept(s.tables[t], t, s.tick, some) /\ IsFresh(s.tables[t], t, k)
  /\ Noticed(s, k)

(* What is sound of a store is of another, with no table re-sorted.        *)
SameSorted(u, s) ==
  \A t \in DOMAIN s.tables : t \in DOMAIN u.tables /\ u.tables[t].sortedAt = s.tables[t].sortedAt
Carries(u, s) ==
  SameSorted(u, s) /\ \A k, some : Sound(s, k, some) => Sound(u, k, some)

(* One step after another carries what each does.                           *)
LEMMA CarriesTwice ==
  ASSUME NEW s, NEW u, Carries(u, s), NEW w, Carries(w, u)
  PROVE  Carries(w, s)
BY DEF Carries, SameSorted

(* What changes no table and no time carries all that is sound.             *)
LEMMA CarriesSame ==
  ASSUME NEW s, NEW u, u.tables = s.tables, SameTime(u, s)
  PROVE  Carries(u, s)
BY DEF Carries, SameSorted, Sound, SameTime, Noticed, HasRow, RowAt

(* Where a system looks no row left, and who was there is.                 *)
Stays(u, s, k) ==
  /\ \A t \in DOMAIN s.tables : IsWatched(t, k) =>
       t \in DOMAIN u.tables /\ u.tables[t].left = s.tables[t].left
  /\ \A t, p, r : HasRow(s, t, p, r) /\ IsWatched(t, k) =>
       \E q, m : HasRow(u, t, q, m) /\ RowAt(u, t, q, m) = RowAt(s, t, p, r)

(* Where no row left and whoever was there is, a system is told what it     *)
(* was.                                                                     *)
LEMMA NoticedStill ==
  ASSUME NEW s, NEW k, Noticed(s, k), NEW u, Stays(u, s, k)
  PROVE  Noticed(u, k)
<1> USE DEF Stays
<1>1. CASE \E t \in DOMAIN s.tables : IsWatched(t, k) /\ s.tables[t].left > k.since
  BY <1>1 DEF Noticed
<1>2. CASE \A x \in k.saw : \E t, p, r :
             IsWatched(t, k) /\ HasRow(s, t, p, r) /\ RowAt(s, t, p, r) = x.entity
  <2>1. ASSUME NEW x \in k.saw
        PROVE  \E t, p, r : IsWatched(t, k) /\ HasRow(u, t, p, r) /\ RowAt(u, t, p, r) = x.entity
    <3>1. PICK t, p, r : IsWatched(t, k) /\ HasRow(s, t, p, r) /\ RowAt(s, t, p, r) = x.entity
      BY <1>2
    <3>2. PICK q, m : HasRow(u, t, q, m) /\ RowAt(u, t, q, m) = RowAt(s, t, p, r)
      BY <3>1
    <3> QED BY <3>1, <3>2
  <2> QED BY <2>1 DEF Noticed
<1> QED BY <1>1, <1>2 DEF Noticed

(* Where every row is what it was, a system is told what it was.            *)
LEMMA NoticedSame ==
  ASSUME NEW s, NEW k, Noticed(s, k), NEW u,
         \A t \in DOMAIN s.tables : t \in DOMAIN u.tables /\ u.tables[t].left = s.tables[t].left,
         \A t, p, r : HasRow(s, t, p, r) => HasRow(u, t, p, r) /\ RowAt(u, t, p, r) = RowAt(s, t, p, r)
  PROVE  Noticed(u, k)
<1>1. CASE \E t \in DOMAIN s.tables : IsWatched(t, k) /\ s.tables[t].left > k.since
  BY <1>1 DEF Noticed
<1>2. CASE \A x \in k.saw : \E t, p, r :
             IsWatched(t, k) /\ HasRow(s, t, p, r) /\ RowAt(s, t, p, r) = x.entity
  <2>1. ASSUME NEW x \in k.saw
        PROVE  \E t, p, r : IsWatched(t, k) /\ HasRow(u, t, p, r) /\ RowAt(u, t, p, r) = x.entity
    <3>1. PICK t, p, r : IsWatched(t, k) /\ HasRow(s, t, p, r) /\ RowAt(s, t, p, r) = x.entity
      BY <1>2
    <3>2. HasRow(u, t, p, r) /\ RowAt(u, t, p, r) = x.entity
      BY <3>1
    <3> QED BY <3>1, <3>2
  <2> QED BY <2>1 DEF Noticed
<1> QED BY <1>1, <1>2 DEF Noticed

(* A table is changed, with no time passing.                               *)
LEMMA TableChanged ==
  ASSUME NEW s, NEW k, NEW some, Sound(s, k, some), NEW t \in DOMAIN s.tables, NEW new,
         NEW u, u.tables = [s.tables EXCEPT ![t] = new], SameTime(u, s),
         IsKept(new, t, s.tick, some), IsFresh(new, t, k), Noticed(u, k)
  PROVE  Sound(u, k, some)
BY DEF Sound, SameTime

(* A tick is taken, and there is a table.                                  *)
LEMMA PreparedCarries ==
  ASSUME NEW s, IsStore(s), NEW t \in SUBSET TableComponents, NEW u, u = Stamped(TableFor(s, t))
  PROVE  Carries(u, s) /\ u.stamp # 0
<1> DEFINE w == TableFor(s, t)
<1>1. u = Stamped(w)
  OBVIOUS
<1> HIDE DEF w
<1>2. /\ IsStore(w) /\ SameTime(w, s)
      /\ DOMAIN w.tables = DOMAIN s.tables \union {t}
      /\ \A v \in DOMAIN w.tables : w.tables[v] = IF v \in DOMAIN s.tables THEN s.tables[v] ELSE NewTable(v)
      /\ \A v, p, r : HasRow(w, v, p, r) <=> HasRow(s, v, p, r)
      /\ \A v, p, r : HasRow(s, v, p, r) => RowAt(w, v, p, r) = RowAt(s, v, p, r)
  BY TableForIs DEF w
<1>3. /\ u.tables = w.tables
      /\ u.stamp = IF w.stamp # 0 THEN w.stamp ELSE w.tick + 1
      /\ u.tick = IF w.stamp # 0 THEN w.tick ELSE w.tick + 1
  BY <1>1, <1>2, StampedIs
<1>4. w.tick = s.tick /\ w.stamp = s.stamp /\ s.tick \in Nat /\ s.stamp \in Nat
  BY <1>2 DEF SameTime, IsStore
<1>5. u.stamp # 0 /\ u.tick \in Nat /\ s.tick <= u.tick
  BY <1>3, <1>4
<1>6. ASSUME NEW k, NEW some, Sound(s, k, some) PROVE Sound(u, k, some)
  <2>1. k.since \in Nat /\ k.since <= u.tick /\ u.stamp > k.since
    BY <1>3, <1>4, <1>6 DEF Sound
  <2>2. ASSUME NEW v \in DOMAIN u.tables
        PROVE  IsKept(u.tables[v], v, u.tick, some) /\ IsFresh(u.tables[v], v, k)
    <3>1. CASE v \in DOMAIN s.tables
      <4>1. u.tables[v] = s.tables[v]
        BY <1>2, <1>3, <3>1
      <4>2. s.tables[v].sortedAt \in Nat
        BY <3>1 DEF IsStore, IsTable
      <4>3. IsKept(s.tables[v], v, s.tick, some) /\ IsFresh(s.tables[v], v, k)
        BY <1>6, <3>1 DEF Sound
      <4>4. s.tables[v].sortedAt <= u.tick
        BY <1>4, <1>5, <4>2, <4>3 DEF IsKept
      <4> QED BY <4>1, <4>3, <4>4 DEF IsKept
    <3>2. CASE v \notin DOMAIN s.tables
      <4>1. u.tables[v] = NewTable(v)
        BY <1>2, <1>3, <3>2
      <4> QED BY <1>5, <4>1, NewIsKept
    <3> QED BY <3>1, <3>2
  <2>3. Noticed(u, k)
    <3>1. Noticed(s, k)
      BY <1>6 DEF Sound
    <3>2. \A v \in DOMAIN s.tables : v \in DOMAIN u.tables /\ u.tables[v] = s.tables[v]
      BY <1>2, <1>3
    <3>3. \A v, p, r : HasRow(s, v, p, r) => HasRow(u, v, p, r) /\ RowAt(u, v, p, r) = RowAt(s, v, p, r)
      BY <3>2 DEF HasRow, RowAt
    <3>4. \A v \in DOMAIN s.tables : v \in DOMAIN u.tables /\ u.tables[v].left = s.tables[v].left
      BY <3>2
    <3> QED BY <3>1, <3>3, <3>4, NoticedSame
  <2> QED BY <2>1, <2>2, <2>3 DEF Sound
<1>7. SameSorted(u, s)
  BY <1>2, <1>3 DEF SameSorted
<1> QED BY <1>5, <1>6, <1>7 DEF Carries

(* Room is made.                                                           *)
LEMMA MakeRoomCarries ==
  ASSUME NEW s, IsStore(s), NEW t \in DOMAIN s.tables, NEW u, u = MakeRoom(s, t)
  PROVE  Carries(u, s)
<1> DEFINE old == s.tables[t]
           new == WithRoom(old)
<1>1. /\ SameTime(u, s) /\ u.tables = [s.tables EXCEPT ![t] = new]
      /\ \A v, p, r : HasRow(u, v, p, r) <=> HasRow(s, v, p, r)
      /\ \A v, p, r : HasRow(s, v, p, r) => RowAt(u, v, p, r) = RowAt(s, v, p, r)
  BY MakeRoomIs
<1>2. IsTable(old, t)
  BY DEF IsStore
<1> HIDE DEF old
<1>3. new.left = old.left /\ new.sortedAt = old.sortedAt
  BY <1>2, WithRoomIs DEF SameStamps
<1>4. ASSUME NEW k, NEW some, Sound(s, k, some) PROVE Sound(u, k, some)
  <2>1. IsKept(old, t, s.tick, some) /\ IsFresh(old, t, k) /\ Noticed(s, k)
    BY <1>4 DEF Sound, old
  <2>2. IsKept(new, t, s.tick, some) /\ IsFresh(new, t, k)
    BY <1>2, <2>1, WithRoomKept
  <2> HIDE DEF new
  <2>3. Noticed(u, k)
    <3>1. \A v \in DOMAIN s.tables : v \in DOMAIN u.tables /\ u.tables[v].left = s.tables[v].left
      BY <1>1, <1>3 DEF old
    <3>2. \A v, p, r : HasRow(s, v, p, r) => HasRow(u, v, p, r) /\ RowAt(u, v, p, r) = RowAt(s, v, p, r)
      BY <1>1
    <3> QED BY <2>1, <3>1, <3>2, NoticedSame
  <2> QED BY <1>1, <1>4, <2>2, <2>3, TableChanged
<1> HIDE DEF new
<1>5. SameSorted(u, s)
  BY <1>1, <1>3 DEF SameSorted, old
<1> QED BY <1>4, <1>5 DEF Carries

-----------------------------------------------------------------------------

(* A row is taken: a system that watches its table is told.                *)
LEMMA RowTakenCarries ==
  ASSUME NEW s, IsStore(s), s.stamp # 0, NEW X, NEW i, NEW at, NEW u, RowTaken(u, s, X, i, at)
  PROVE  Carries(u, s)
<1> DEFINE t == at.table
           old == s.tables[t]
           new == WithoutRow(old, at.page, at.row, s.stamp)
           n == Len(old.rows[at.page])
<1>1. /\ SameTime(u, s) /\ t \in DOMAIN s.tables /\ at.page \in DOMAIN old.rows
      /\ at.row \in DOMAIN old.rows[at.page] /\ u.tables = [s.tables EXCEPT ![t] = new]
  BY DEF RowTaken
<1>2. IsTable(old, t) /\ s.stamp \in Nat
  BY <1>1 DEF IsStore
<1> HIDE DEF old, t
<1>3. IsWithoutRow(new, old, t, at.page, n, at.row, s.stamp)
  BY <1>1, <1>2, WithoutRowIs
<1>4. new.left = s.stamp /\ new.sortedAt = old.sortedAt
  BY <1>3 DEF IsWithoutRow
<1>5. ASSUME NEW k, NEW some, Sound(s, k, some) PROVE Sound(u, k, some)
  <2>1. IsKept(old, t, s.tick, some) /\ IsFresh(old, t, k) /\ Noticed(s, k) /\ s.stamp > k.since
    BY <1>1, <1>5 DEF Sound, old
  <2>2. IsKept(new, t, s.tick, some) /\ IsFresh(new, t, k)
    BY <1>1, <1>2, <2>1, WithoutRowKept
  <2> HIDE DEF new
  <2>3. CASE IsWatched(t, k)
    <3>1. t \in DOMAIN u.tables /\ u.tables[t] = new
      BY <1>1
    <3>2. Noticed(u, k)
      BY <1>4, <2>1, <2>3, <3>1 DEF Noticed
    <3> QED BY <1>1, <1>5, <2>2, <3>2, TableChanged
  <2>4. CASE ~IsWatched(t, k)
    <3>1. \A v \in DOMAIN s.tables : IsWatched(v, k) => v \in DOMAIN u.tables /\ u.tables[v] = s.tables[v]
      BY <1>1, <2>4
    <3>2. \A v, p, r : HasRow(s, v, p, r) /\ IsWatched(v, k) =>
             \E q, m : HasRow(u, v, q, m) /\ RowAt(u, v, q, m) = RowAt(s, v, p, r)
      <4>1. \A v, p, r : HasRow(s, v, p, r) /\ IsWatched(v, k) =>
               HasRow(u, v, p, r) /\ RowAt(u, v, p, r) = RowAt(s, v, p, r)
        BY <3>1 DEF HasRow, RowAt
      <4> QED BY <4>1
    <3>3. \A v \in DOMAIN s.tables : IsWatched(v, k) =>
             v \in DOMAIN u.tables /\ u.tables[v].left = s.tables[v].left
      BY <3>1
    <3>5. Stays(u, s, k)
      BY <3>2, <3>3 DEF Stays
    <3>4. Noticed(u, k)
      BY <2>1, <3>5, NoticedStill
    <3> QED BY <1>1, <1>5, <2>2, <3>4, TableChanged
  <2> QED BY <2>3, <2>4
<1> HIDE DEF new
<1>6. SameSorted(u, s)
  BY <1>1, <1>4 DEF SameSorted, old
<1> QED BY <1>5, <1>6 DEF Carries

(* The value of an entity's row that a system reads is one that it saw, or *)
(* was written since, or it did not see any of the entity.                 *)
FreshFor(s, e, cells, t) ==
  \A k, some : Sound(s, k, some) /\ k.reads \in t => FreshCell(e, cells[k.reads], k)

Adds(u, s, e, t, cells) ==
  /\ SameSorted(u, s)
  /\ \A k, some : Sound(s, k, some) /\ (k.reads \in t => FreshCell(e, cells[k.reads], k))
                    => Sound(u, k, some)

(* A row is added: a system that watches its table is told.                *)
LEMMA RowAddedSound ==
  ASSUME NEW s, IsStore(s), s.stamp # 0, NEW X, NEW e \in Entity, NEW t \in DOMAIN s.tables,
         Len(Last(s.tables[t].rows)) < PageRows,
         NEW cells, DOMAIN cells = t, \A c \in t : cells[c] \in CellSet,
         NEW u, RowAdded(u, s, X, e, t, cells)
  PROVE  Adds(u, s, e, t, cells)
<1> DEFINE old == s.tables[t]
           new == WithRow(old, e, cells, s.stamp)
           P == Len(old.rows)
           n == Len(old.rows[P])
<1>1. SameTime(u, s) /\ u.tables = [s.tables EXCEPT ![t] = new]
  BY DEF RowAdded
<1>2. IsTable(old, t) /\ s.stamp \in Nat /\ Len(Last(old.rows)) < PageRows
  BY DEF IsStore
<1> HIDE DEF old
<1>3. IsWithRow(new, old, t, P, n, e, cells, s.stamp)
  BY <1>2, WithRowIs
<1> HIDE DEF P, n
<1>4. /\ new.left = old.left /\ new.sortedAt = old.sortedAt /\ DOMAIN new.rows = DOMAIN old.rows
      /\ n \in Nat /\ DOMAIN new.rows[P] = 1..n + 1 /\ DOMAIN old.rows[P] = 1..n
      /\ \A p \in DOMAIN old.rows \ {P} : new.rows[p] = old.rows[p]
      /\ \A r \in 1..n : new.rows[P][r] = old.rows[P][r]
  BY <1>3 DEF IsWithRow, SamePage
<1>5. \A p \in DOMAIN old.rows : \A r \in DOMAIN old.rows[p] :
         r \in DOMAIN new.rows[p] /\ new.rows[p][r] = old.rows[p][r]
  <2> SUFFICES ASSUME NEW p \in DOMAIN old.rows, NEW r \in DOMAIN old.rows[p]
               PROVE  r \in DOMAIN new.rows[p] /\ new.rows[p][r] = old.rows[p][r]
    OBVIOUS
  <2> HIDE DEF new
  <2>1. CASE p = P
    BY <1>4, <2>1
  <2>2. CASE p # P
    BY <1>4, <2>2
  <2> QED BY <2>1, <2>2
<1>6. ASSUME NEW k, NEW some, Sound(s, k, some), k.reads \in t => FreshCell(e, cells[k.reads], k)
      PROVE  Sound(u, k, some)
  <2>1. IsKept(old, t, s.tick, some) /\ IsFresh(old, t, k) /\ Noticed(s, k) /\ s.stamp > k.since
    BY <1>6 DEF Sound, old
  <2>2. IsKept(new, t, s.tick, some) /\ IsFresh(new, t, k)
    BY <1>2, <1>6, <2>1, WithRowKept
  <2> HIDE DEF new
  <2>3. \A v \in DOMAIN s.tables : v \in DOMAIN u.tables /\ u.tables[v].left = s.tables[v].left
    BY <1>1, <1>4 DEF old
  <2>4. \A v, p, r : HasRow(s, v, p, r) => HasRow(u, v, p, r) /\ RowAt(u, v, p, r) = RowAt(s, v, p, r)
    <3> SUFFICES ASSUME NEW v, NEW p, NEW r, HasRow(s, v, p, r)
                 PROVE  HasRow(u, v, p, r) /\ RowAt(u, v, p, r) = RowAt(s, v, p, r)
      OBVIOUS
    <3>1. CASE v = t
      BY <1>1, <1>4, <1>5, <3>1 DEF HasRow, RowAt, old
    <3>2. CASE v # t
      BY <1>1, <3>2 DEF HasRow, RowAt
    <3> QED BY <3>1, <3>2
  <2>5. Noticed(u, k)
    <3>1. \A v, p, r : HasRow(s, v, p, r) /\ IsWatched(v, k) =>
             \E q, m : HasRow(u, v, q, m) /\ RowAt(u, v, q, m) = RowAt(s, v, p, r)
      BY <2>4
    <3>2. \A v \in DOMAIN s.tables : IsWatched(v, k) =>
             v \in DOMAIN u.tables /\ u.tables[v].left = s.tables[v].left
      BY <2>3
    <3>3. Stays(u, s, k)
      BY <3>1, <3>2 DEF Stays
    <3> QED BY <2>1, <3>3, NoticedStill
  <2> QED BY <1>1, <1>6, <2>2, <2>5, TableChanged
<1> HIDE DEF new
<1>7. SameSorted(u, s)
  BY <1>1, <1>4 DEF SameSorted, old
<1> QED BY <1>6, <1>7 DEF Adds

-----------------------------------------------------------------------------

(* A row goes to another table.                                            *)
LEMMA MoveEntityIs ==
  ASSUME NEW s, IsStore(s), Rowed(s, {}), NEW e \in Entity, IsPlaced(s, e), NEW at, at = At(s, e),
         NEW to \in DOMAIN s.tables, to # at.table,
         NEW cells, DOMAIN cells = to, \A c \in to : cells[c] \in CellSet,
         NEW u, u = MoveEntity(s, e, at, to, cells)
  PROVE  /\ IsStore(u) /\ Rowed(u, {}) /\ SameSets(u, s) /\ SameTime(u, s)
         /\ SameLife(u, s) /\ SlotsKept(u, s, {})
         /\ s.stamp # 0 /\ FreshFor(s, e, cells, to) => Carries(u, s)
<1> DEFINE i == e.index
           w1 == MakeRoom(s, to)
           w2 == TakeRow(w1, at)
<1>1. i \in Index \ {} /\ s.generations[i] = e.generation /\ s.locations[i].is = "placed"
      /\ at = s.locations[i]
  BY DEF IsPlaced, At, Entity
<1>2. u = AddRow(w2, e, to, cells)
  BY DEF MoveEntity
<1> HIDE DEF w1, w2, i
<1>3. /\ IsStore(w1) /\ w1.locations = s.locations
      /\ SameSets(w1, s) /\ SameIds(w1, s) /\ SameTime(w1, s)
      /\ w1.tables = [s.tables EXCEPT ![to] = WithRoom(s.tables[to])]
      /\ Len(Last(w1.tables[to].rows)) < PageRows
      /\ \A v, p, r : HasRow(w1, v, p, r) <=> HasRow(s, v, p, r)
      /\ \A v, p, r : HasRow(s, v, p, r) => RowAt(w1, v, p, r) = RowAt(s, v, p, r)
  BY MakeRoomIs DEF w1
<1>4. Rowed(w1, {})
  BY <1>3, SameRows DEF SameIds
<1>5. at = w1.locations[i] /\ w1.locations[i].is = "placed" /\ Housed(w1, i)
  BY <1>1, <1>3, <1>4, SlotIs
<1>6. RowTaken(w2, w1, {}, i, at)
  BY <1>1, <1>3, <1>4, <1>5, TakeRowIs DEF w2
<1>7. to \in DOMAIN w2.tables /\ w2.tables[to] = w1.tables[to] /\ IsStore(w2) /\ Rowed(w2, {i})
  BY <1>3, <1>6 DEF RowTaken
<1>8. RowAdded(u, w2, {i}, e, to, cells)
  <2>1. i \in {i} /\ w2.generations[i] = e.generation
    BY <1>1, <1>3, <1>6 DEF SameIds, RowTaken
  <2>2. Len(Last(w2.tables[to].rows)) < PageRows
    BY <1>3, <1>7
  <2> QED BY <1>2, <1>7, <2>1, <2>2, AddRowIs DEF i
<1>9. Rowed(u, {})
  <2>1. {i} \ {i} = {}
    OBVIOUS
  <2> QED BY <1>8, <2>1 DEF RowAdded, i
<1>10. SameSets(u, s) /\ SameTime(u, s) /\ SameIds(u, s)
  BY <1>3, <1>6, <1>8 DEF SameSets, SameTime, SameIds, RowTaken, RowAdded
<1>11. ASSUME NEW j \in Index
       PROVE  /\ s.locations[j] \in {Dead, Reserved} => u.locations[j] = s.locations[j]
              /\ s.locations[j].is = "placed" => u.locations[j].is = "placed"
              /\ s.locations[j] \in {Dead, Reserved} \/ s.locations[j].is = "placed"
  <2>1. s.locations[j] \in {Dead, Reserved} \/ s.locations[j].is = "placed"
    BY SlotIs
  <2>2. s.locations[i] \notin {Dead, Reserved}
    BY <1>1, SlotIs
  <2> QED BY <1>3, <1>6, <1>8, <2>1, <2>2 DEF RowTaken, RowAdded, i
<1>12. SameLife(u, s)
  BY <1>10, <1>11, PlacedIs DEF SameLife
<1>13. SlotsKept(u, s, {})
  BY <1>10, <1>11 DEF SlotsKept, SameIds
<1>14. ASSUME s.stamp # 0, FreshFor(s, e, cells, to) PROVE Carries(u, s)
  <2>1. w1.stamp # 0 /\ w2.stamp # 0
    BY <1>3, <1>6, <1>14 DEF SameTime, RowTaken
  <2>2. Carries(w1, s)
    BY MakeRoomCarries DEF w1
  <2>3. Carries(w2, w1)
    BY <1>3, <1>6, <2>1, RowTakenCarries
  <2>4. Carries(w2, s)
    BY <2>2, <2>3, CarriesTwice
  <2>5. Len(Last(w2.tables[to].rows)) < PageRows
    BY <1>3, <1>7
  <2>6. Adds(u, w2, e, to, cells)
    BY <1>7, <1>8, <2>1, <2>5, RowAddedSound
  <2>7. ASSUME NEW k, NEW some, Sound(s, k, some) PROVE Sound(u, k, some)
    <3>1. Sound(w2, k, some)
      BY <2>4, <2>7 DEF Carries
    <3>2. k.reads \in to => FreshCell(e, cells[k.reads], k)
      BY <1>14, <2>7 DEF FreshFor
    <3> QED BY <2>6, <3>1, <3>2 DEF Adds
  <2>8. SameSorted(u, s)
    BY <2>4, <2>6 DEF Carries, SameSorted, Adds
  <2> QED BY <2>7, <2>8 DEF Carries
<1> QED BY <1>8, <1>9, <1>10, <1>12, <1>13, <1>14 DEF RowAdded

(* Replacing a value leaves rows, slots and sets: insert_id's replace.      *)
LEMMA ReplaceCellIs ==
  ASSUME NEW s, IsStore(s), Rowed(s, {}), NEW e \in Entity, IsPlaced(s, e), NEW at, at = At(s, e),
         NEW c \in at.table, NEW v \in Int, NEW u, u = ReplaceCell(s, at, c, v)
  PROVE  /\ IsStore(u) /\ Rowed(u, {}) /\ SameSets(u, s) /\ SameLife(u, s) /\ SlotsKept(u, s, {})
         /\ Carries(u, s)
<1>1. PICK t, P, row : /\ s.locations[e.index] = Placed(t, P, row) /\ HasRow(s, t, P, row)
  BY SlotIs DEF IsPlaced, Housed, Entity
<1>2. at.table = t /\ at.page = P /\ at.row = row
  BY <1>1, PlacedIs DEF At
<1> DEFINE old == s.tables[t]
           cell == Cell(v, s.tick + 1)
           new == u.tables[t]
<1>3. /\ u.locations = s.locations /\ SameIds(u, s) /\ SameSets(u, s)
      /\ u.stamp = s.stamp /\ u.tick = s.tick + 1 /\ DOMAIN u = StoreFields
      /\ u.tables = [s.tables EXCEPT ![t] = Replaced(old, c, at, cell)]
  BY <1>2 DEF ReplaceCell, IsStore, StoreFields, SameIds, SameSets
<1>4. t \in DOMAIN s.tables /\ P \in DOMAIN old.rows /\ row \in DOMAIN old.rows[P] /\ IsTable(old, t)
      /\ c \in t
  BY <1>1, <1>2 DEF HasRow, IsStore
<1>5. /\ DOMAIN u.tables = DOMAIN s.tables /\ new = Replaced(old, c, at, cell)
      /\ \A x \in DOMAIN s.tables \ {t} : u.tables[x] = s.tables[x]
  BY <1>3, <1>4
<1> HIDE DEF old, new, cell
<1>6. CellPut(new, old, c, P, row, cell) /\ new.dirty = (old.dirty \/ c = Key)
  BY <1>2, <1>4, <1>5 DEF Replaced, IsTable, TableFields, SameStamps, CellPut
<1>7. cell \in CellSet
  BY DEF cell, Cell, CellSet, IsStore
<1>8. IsTable(new, t)
  <2>1. new.dirty \in BOOLEAN /\ (new.dirty => IsOrdered(t))
    BY <1>4, <1>6 DEF IsTable, IsOrdered
  <2> QED BY <1>4, <1>6, <1>7, <2>1, PutColumnIs
<1>9. IsStore(u)
  BY <1>3, <1>5, <1>8 DEF IsStore, SameIds, SameSets, new
<1>10. ASSUME NEW x, NEW p, NEW r
       PROVE  /\ HasRow(u, x, p, r) <=> HasRow(s, x, p, r)
              /\ HasRow(s, x, p, r) => RowAt(u, x, p, r) = RowAt(s, x, p, r)
  BY <1>4, <1>5, <1>6 DEF HasRow, RowAt, new, old, CellPut
<1>11. Rowed(u, {})
  BY <1>3, <1>10, SameRows DEF SameIds
<1>12. s.tick \in Nat /\ u.tick = s.tick + 1 /\ u.stamp = s.stamp /\ cell.tick = s.tick + 1
  BY <1>3 DEF cell, Cell, IsStore
<1>13. new.left = old.left /\ new.sortedAt = old.sortedAt /\ old.sortedAt \in Nat
  BY <1>4, <1>6 DEF CellPut, SameStamps, IsTable
<1>14. ASSUME NEW k, NEW some, Sound(s, k, some) PROVE Sound(u, k, some)
  <2>1. k.since \in Nat /\ k.since <= u.tick /\ (u.stamp = 0 \/ u.stamp > k.since) /\ cell.tick > k.since
    BY <1>12, <1>14 DEF Sound
  <2>2. IsKept(old, t, s.tick, some) /\ IsFresh(old, t, k) /\ Noticed(s, k)
    BY <1>4, <1>14 DEF Sound, old
  <2>3. old.sortedAt < cell.tick
    BY <1>12, <1>13, <2>2 DEF IsKept
  <2>4. /\ IsFresh(new, t, k)
        /\ IsOrdered(t) /\ AllMayKey(old) => AllMayKey(new)
        /\ IsOrdered(t) /\ AtRest(old) /\ c # Key => AtRest(new)
    BY <1>4, <1>6, <2>1, <2>2, <2>3, CellPutKept
  <2>5. IsKept(new, t, u.tick, some)
    <3>1. new.sortedAt <= u.tick
      BY <1>12, <1>13, <2>2 DEF IsKept
    <3>2. IsOrdered(t) => AllMayKey(new) /\ (new.dirty \/ t \in some \/ AtRest(new))
      BY <1>6, <2>2, <2>4 DEF IsKept
    <3> QED BY <3>1, <3>2 DEF IsKept
  <2>6. ASSUME NEW x \in DOMAIN u.tables
        PROVE  IsKept(u.tables[x], x, u.tick, some) /\ IsFresh(u.tables[x], x, k)
    <3>1. CASE x = t
      BY <2>4, <2>5, <3>1 DEF new
    <3>2. CASE x # t
      <4>1. u.tables[x] = s.tables[x] /\ x \in DOMAIN s.tables
        BY <1>5, <3>2
      <4>2. IsKept(s.tables[x], x, s.tick, some) /\ IsFresh(s.tables[x], x, k)
        BY <1>14, <4>1 DEF Sound
      <4>3. s.tables[x].sortedAt \in Nat
        BY <4>1 DEF IsStore, IsTable
      <4>4. s.tables[x].sortedAt <= u.tick
        BY <1>12, <4>2, <4>3 DEF IsKept
      <4> QED BY <4>1, <4>2, <4>4 DEF IsKept
    <3> QED BY <3>1, <3>2
  <2>7. Noticed(u, k)
    <3>1. \A x \in DOMAIN s.tables : x \in DOMAIN u.tables /\ u.tables[x].left = s.tables[x].left
      BY <1>5, <1>13 DEF new, old
    <3>2. \A x, p, r : HasRow(s, x, p, r) => HasRow(u, x, p, r) /\ RowAt(u, x, p, r) = RowAt(s, x, p, r)
      BY <1>10
    <3> QED BY <2>2, <3>1, <3>2, NoticedSame
  <2> QED BY <2>1, <2>6, <2>7 DEF Sound
<1>15. SameSorted(u, s)
  BY <1>5, <1>13 DEF SameSorted, new, old
<1>16. Carries(u, s)
  BY <1>14, <1>15 DEF Carries
<1> QED BY <1>3, <1>9, <1>11, <1>16 DEF SameLife, SlotsKept, SameIds

-----------------------------------------------------------------------------

(* What keeps a store as it should be, but for the slots of some.          *)
Kept(u, s, d, X) == OK(u, d) /\ SlotsKept(u, s, X) /\ Carries(u, s)

(* No change keeps a store.                                                 *)
LEMMA KeptSelf ==
  ASSUME NEW s, NEW d, OK(s, d)
  PROVE  Kept(s, s, d, {})
<1>1. Carries(s, s)
  BY DEF Carries, SameSorted
<1> QED BY <1>1 DEF Kept, SlotsKept

(* What keeps rows where slots say, sets with few dead and everyone's life  *)
(* keeps a store.                                                           *)
LEMMA KeptLife ==
  ASSUME NEW s, NEW d, OK(s, d), NEW u, IsStore(u), Rowed(u, {}), SetsOK(u), SameLife(u, s),
         NEW X, SlotsKept(u, s, X), Carries(u, s)
  PROVE  Kept(u, s, d, X)
BY SameLifeIds DEF OK, Kept

(* A change of a set keeps a store.                                         *)
LEMMA KeptSlots ==
  ASSUME NEW s, NEW d, OK(s, d), NEW u, SameSlots(u, s), SetsOK(u)
  PROVE  Kept(u, s, d, {})
<1>1. Rowed(u, {})
  <2>1. \A v, p, r : HasRow(u, v, p, r) <=> HasRow(s, v, p, r)
    BY DEF SameSlots, HasRow
  <2>2. \A v, p, r : HasRow(s, v, p, r) => RowAt(u, v, p, r) = RowAt(s, v, p, r)
    BY DEF SameSlots, RowAt
  <2> QED BY <2>1, <2>2, SameRows DEF SameSlots, SameIds, OK
<1>2. SlotsKept(u, s, {})
  BY DEF SlotsKept, SameSlots, SameIds
<1>3. Carries(u, s)
  BY CarriesSame DEF SameSlots
<1> QED BY <1>1, <1>2, <1>3, SameSlotsLife, KeptLife DEF SameSlots

(* Two changes that keep a store are one.                                   *)
LEMMA KeptTwice ==
  ASSUME NEW s, NEW d, NEW X, NEW u, Kept(u, s, d, X), NEW w, Kept(w, u, d, X)
  PROVE  Kept(w, s, d, X)
BY SlotsKeptTwice, CarriesTwice DEF Kept

(* What keeps all reserved slots keeps all but some.                        *)
LEMMA KeptMore ==
  ASSUME NEW s, NEW d, NEW u, Kept(u, s, d, {}), NEW X
  PROVE  Kept(u, s, d, X)
BY DEF Kept, SlotsKept

(* A tick is taken, and there is a table for who is to come.               *)
Prepared(u, s, t) ==
  /\ IsStore(u) /\ u.locations = s.locations /\ SameSets(u, s) /\ SameIds(u, s)
  /\ t \in DOMAIN u.tables
  /\ \A v, p, r : HasRow(u, v, p, r) <=> HasRow(s, v, p, r)
  /\ \A v, p, r : HasRow(s, v, p, r) => RowAt(u, v, p, r) = RowAt(s, v, p, r)

(* A tick and a table for who is to come: no row and no slot changes.       *)
LEMMA PreparedIs ==
  ASSUME NEW s, IsStore(s), NEW t \in SUBSET TableComponents, NEW u, u = Stamped(TableFor(s, t))
  PROVE  Prepared(u, s, t)
<1> DEFINE w == TableFor(s, t)
<1>1. u = Stamped(w)
  OBVIOUS
<1> HIDE DEF w
<1>2. /\ IsStore(w) /\ w.locations = s.locations
      /\ SameSets(w, s) /\ SameIds(w, s) /\ t \in DOMAIN w.tables
      /\ \A v, p, r : HasRow(w, v, p, r) <=> HasRow(s, v, p, r)
      /\ \A v, p, r : HasRow(s, v, p, r) => RowAt(w, v, p, r) = RowAt(s, v, p, r)
  BY TableForIs DEF w
<1>3. /\ IsStore(u) /\ u.locations = w.locations /\ u.tables = w.tables
      /\ SameSets(u, w) /\ SameIds(u, w)
  BY <1>1, <1>2, StampedIs
<1>4. \A v, p, r : HasRow(u, v, p, r) <=> HasRow(w, v, p, r)
  BY <1>3 DEF HasRow
<1>5. \A v, p, r : RowAt(u, v, p, r) = RowAt(w, v, p, r)
  BY <1>3 DEF RowAt
<1> QED BY <1>2, <1>3, <1>4, <1>5 DEF Prepared, SameSets, SameIds

(* Preparing changes no one's life, and rows stay where slots say.          *)
LEMMA PreparedLife ==
  ASSUME NEW s, NEW t, NEW u, Prepared(u, s, t)
  PROVE  /\ SameLife(u, s) /\ SlotsKept(u, s, {})
         /\ \A X : Rowed(s, X) => Rowed(u, X)
<1>1. SameLife(u, s) /\ SlotsKept(u, s, {})
  BY DEF Prepared, SameLife, SlotsKept, SameIds
<1>2. ASSUME NEW X, Rowed(s, X) PROVE Rowed(u, X)
  BY <1>2, SameRows DEF Prepared, SameIds
<1> QED BY <1>1, <1>2

(* Two changes of no one's life are one.                                    *)
LEMMA SameLifeTwice ==
  ASSUME NEW s, NEW u, SameLife(u, s), NEW w, SameLife(w, u)
  PROVE  SameLife(w, s)
BY DEF SameLife, SameIds

(* Two changes of no set are one.                                           *)
LEMMA SameSetsTwice ==
  ASSUME NEW s, NEW u, SameSets(u, s), NEW w, SameSets(w, u)
  PROVE  SameSets(w, s)
BY DEF SameSets

(* A placed entity's row goes to another table.                            *)
LEMMA MovedIs ==
  ASSUME NEW s, NEW d, OK(s, d), NEW e \in Entity, IsPlaced(s, e), NEW at, at = At(s, e),
         NEW to \in SUBSET TableComponents, to # at.table,
         NEW w, w = Stamped(TableFor(s, to)),
         NEW cells, DOMAIN cells = to, \A c \in to : cells[c] \in CellSet,
         FreshFor(w, e, cells, to), NEW u, u = MoveEntity(w, e, at, to, cells)
  PROVE  Kept(u, s, d, {})
<1>1. IsStore(s) /\ Rowed(s, {}) /\ SetsOK(s)
  BY DEF OK
<1>2. Prepared(w, s, to)
  BY <1>1, PreparedIs
<1>3. SameLife(w, s) /\ SlotsKept(w, s, {}) /\ Rowed(w, {})
  BY <1>1, <1>2, PreparedLife
<1>4. /\ IsStore(w) /\ SameSets(w, s) /\ to \in DOMAIN w.tables
      /\ IsPlaced(w, e) /\ at = At(w, e)
  BY <1>2 DEF Prepared, SameIds, IsPlaced, At
<1>8. Carries(w, s) /\ w.stamp # 0
  BY <1>1, PreparedCarries
<1>5. /\ IsStore(u) /\ Rowed(u, {}) /\ SameSets(u, w) /\ SameLife(u, w) /\ SlotsKept(u, w, {})
      /\ Carries(u, w)
  BY <1>3, <1>4, <1>8, MoveEntityIs
<1>9. Carries(u, s)
  BY <1>5, <1>8, CarriesTwice
<1>6. SameSets(u, s) /\ SameLife(u, s) /\ SlotsKept(u, s, {})
  BY <1>3, <1>4, <1>5, SameSetsTwice, SameLifeTwice, SlotsKeptTwice
<1>7. SetsOK(u)
  BY <1>1, <1>6, SameLifeSets
<1> QED BY <1>5, <1>6, <1>7, <1>9, KeptLife

(* Where a placed entity is.                                               *)
LEMMA PlaceIs ==
  ASSUME NEW s, IsStore(s), Rowed(s, {}), NEW e \in Entity, IsPlaced(s, e), NEW at, at = At(s, e)
  PROVE  /\ HasRow(s, at.table, at.page, at.row) /\ at.table \subseteq TableComponents
         /\ e.index \in Index /\ Housed(s, e.index) /\ RowAt(s, at.table, at.page, at.row) = e
<1>0. e.index \in Index \ {} /\ s.locations[e.index].is = "placed"
  BY DEF IsPlaced, Entity
<1>1. Housed(s, e.index)
  BY <1>0, SlotIs
<1>2. PICK t, P, row : /\ s.locations[e.index] = Placed(t, P, row) /\ HasRow(s, t, P, row)
                       /\ RowAt(s, t, P, row).index = e.index
  BY <1>1 DEF Housed
<1>3. at.table = t /\ at.page = P /\ at.row = row
  BY <1>2, PlacedIs DEF At
<1>4. RowAt(s, t, P, row) \in Entity /\ t \subseteq TableComponents
  BY <1>2, RowIs
<1>5. RowAt(s, t, P, row).generation = e.generation
  BY <1>2 DEF Rowed, Located, IsPlaced
<1>6. RowAt(s, t, P, row) = e
  BY <1>2, <1>4, <1>5 DEF Entity
<1> QED BY <1>0, <1>1, <1>2, <1>3, <1>4, <1>6

(* The values a row takes along are cells.                                  *)
LEMMA PreparedCells ==
  ASSUME NEW s, NEW t, NEW u, Prepared(u, s, t), NEW at, HasRow(s, at.table, at.page, at.row),
         NEW cs \in SUBSET at.table
  PROVE  DOMAIN Carried(u, at, cs) = cs /\ \A c \in cs : Carried(u, at, cs)[c] \in CellSet
<1>1. HasRow(u, at.table, at.page, at.row) /\ IsStore(u)
  BY DEF Prepared
<1>2. ASSUME NEW c \in cs PROVE CellAt(u, at, c) \in CellSet
  BY <1>1, CellIs DEF CellAt
<1> QED BY <1>2 DEF Carried

(* The values that a row takes along are as fresh as they were.            *)
LEMMA CarriedFresh ==
  ASSUME NEW s, IsStore(s), NEW at, HasRow(s, at.table, at.page, at.row),
         NEW cs \in SUBSET at.table, NEW e, e = RowAt(s, at.table, at.page, at.row)
  PROVE  FreshFor(s, e, Carried(s, at, cs), cs)
<1> SUFFICES ASSUME NEW k, NEW some, Sound(s, k, some), k.reads \in cs
             PROVE  FreshCell(e, CellAt(s, at, k.reads), k)
  BY DEF FreshFor, Carried
<1> DEFINE v == s.tables[at.table]
<1>1. at.table \in DOMAIN s.tables /\ at.page \in DOMAIN v.rows /\ at.row \in DOMAIN v.rows[at.page]
      /\ e = v.rows[at.page][at.row]
  BY DEF HasRow, RowAt
<1>2. IsFresh(v, at.table, k)
  BY <1>1 DEF Sound
<1>3. FreshRow(v, at.table, at.page, at.row, k)
  BY <1>1, <1>2 DEF IsFresh
<1> QED BY <1>1, <1>3 DEF FreshRow, CellAt

(* What a mover carries over is as fresh when room was made for it as it    *)
(* was: move_entity, spawn_into.                                            *)
LEMMA PreparedFresh ==
  ASSUME NEW s, Rowed(s, {}), IsStore(s), NEW e \in Entity, IsPlaced(s, e), NEW at, at = At(s, e),
         NEW t, NEW u, Prepared(u, s, t), NEW cs \in SUBSET at.table
  PROVE  FreshFor(u, e, Carried(u, at, cs), cs)
<1>1. HasRow(s, at.table, at.page, at.row) /\ RowAt(s, at.table, at.page, at.row) = e
  BY PlaceIs
<1>2. /\ HasRow(u, at.table, at.page, at.row) /\ RowAt(u, at.table, at.page, at.row) = e
      /\ IsStore(u)
  BY <1>1 DEF Prepared
<1> QED BY <1>2, CarriedFresh

(* An insert that moves a row to the table with one component more keeps    *)
(* the store.                                                               *)
LEMMA InsertNewIs ==
  ASSUME NEW s, NEW d, OK(s, d), NEW e \in Entity, IsPlaced(s, e), NEW c \in TableComponents,
         c \notin At(s, e).table, NEW v \in Int, NEW u, u = InsertNew(s, e, c, v)
  PROVE  Kept(u, s, d, {})
<1> DEFINE at == At(s, e)
           to == at.table \union {c}
           w == Stamped(TableFor(s, to))
           old == Carried(w, at, at.table)
           cells == With(old, c, Cell(v, w.stamp))
<1>1. u = MoveEntity(w, e, at, to, cells)
  BY DEF InsertNew, InsertRow
<1>2. HasRow(s, at.table, at.page, at.row) /\ at.table \subseteq TableComponents
  BY PlaceIs DEF OK
<1>3. Prepared(w, s, to)
  BY <1>2, PreparedIs DEF OK
<1>4. DOMAIN old = at.table /\ \A x \in at.table : old[x] \in CellSet
  BY <1>2, <1>3, PreparedCells
<1>5. w.stamp \in Nat
  BY <1>3 DEF Prepared, IsStore
<1>6. Cell(v, w.stamp) \in CellSet
  BY <1>5 DEF Cell, CellSet
<1>7. DOMAIN cells = to /\ \A x \in to : cells[x] \in CellSet
  BY <1>4, <1>6 DEF With
<1>8. FreshFor(w, e, old, at.table)
  BY <1>3, PreparedFresh DEF OK
<1>9. w.stamp # 0
  BY <1>2, PreparedCarries DEF OK
<1>10. FreshFor(w, e, cells, to)
  <2> SUFFICES ASSUME NEW k, NEW some, Sound(w, k, some), k.reads \in to
               PROVE  FreshCell(e, cells[k.reads], k)
    BY DEF FreshFor
  <2>1. CASE k.reads = c
    <3>1. cells[k.reads] = Cell(v, w.stamp)
      BY <2>1 DEF With
    <3>2. w.stamp > k.since
      BY <1>9 DEF Sound
    <3> HIDE DEF cells, w
    <3> QED BY <3>1, <3>2 DEF FreshCell, Cell
  <2>2. CASE k.reads # c
    <3>1. k.reads \in at.table /\ cells[k.reads] = old[k.reads]
      BY <1>4, <2>2 DEF With
    <3> HIDE DEF cells, old, w, at
    <3> QED BY <1>8, <3>1 DEF FreshFor
  <2> QED BY <2>1, <2>2
<1> HIDE DEF cells, w
<1> QED BY <1>1, <1>2, <1>7, <1>10, MovedIs DEF w

(* A remove that moves a row to the table with one component less keeps the *)
(* store.                                                                   *)
LEMMA RemoveOldIs ==
  ASSUME NEW s, NEW d, OK(s, d), NEW e \in Entity, IsPlaced(s, e), NEW c \in At(s, e).table,
         NEW u, u = RemoveOld(s, e, c)
  PROVE  Kept(u, s, d, {})
<1> DEFINE at == At(s, e)
           to == at.table \ {c}
           w == Stamped(TableFor(s, to))
           cells == Carried(w, at, to)
<1>1. u = MoveEntity(w, e, at, to, cells)
  BY DEF RemoveOld, RemoveRow
<1>2. HasRow(s, at.table, at.page, at.row) /\ at.table \subseteq TableComponents
  BY PlaceIs DEF OK
<1>3. Prepared(w, s, to)
  BY <1>2, PreparedIs DEF OK
<1>4. DOMAIN cells = to /\ \A x \in to : cells[x] \in CellSet
  BY <1>2, <1>3, PreparedCells
<1>5. FreshFor(w, e, cells, to)
  BY <1>3, PreparedFresh DEF OK
<1> HIDE DEF cells, w
<1> QED BY <1>1, <1>2, <1>4, <1>5, MovedIs DEF w

(* An insert or a set that replaces a value keeps the store.                *)
LEMMA ReplacedIs ==
  ASSUME NEW s, NEW d, OK(s, d), NEW e \in Entity, IsPlaced(s, e), NEW c \in At(s, e).table, NEW v \in Int,
         NEW u, u = ReplaceCell(s, At(s, e), c, v)
  PROVE  Kept(u, s, d, {})
<1>1. IsStore(s) /\ Rowed(s, {}) /\ SetsOK(s)
  BY DEF OK
<1>2. /\ IsStore(u) /\ Rowed(u, {}) /\ SameSets(u, s) /\ SameLife(u, s) /\ SlotsKept(u, s, {})
      /\ Carries(u, s)
  BY <1>1, ReplaceCellIs
<1> QED BY <1>1, <1>2, SameLifeSets, KeptLife

(* An insert keeps the store: Structural::insert_id.                        *)
LEMMA InsertIdIs ==
  ASSUME NEW s, NEW d, OK(s, d), NEW e \in Entity, NEW c \in Components, NEW v \in Int,
         NEW u, u = InsertId(s, e, c, v)
  PROVE  Kept(u, s, d, {})
<1>1. CASE c \in SparseComponents /\ Alive(s, e)
  <2>1. u = InsertSparse(s, e, c, v)
    BY <1>1 DEF InsertId
  <2>2. SameSlots(u, s) /\ SetsOK(u)
    BY <1>1, <2>1, InsertSparseIs DEF OK
  <2> QED BY <2>2, KeptSlots
<1>2. CASE c \in SparseComponents /\ ~Alive(s, e)
  BY <1>2, KeptSelf DEF InsertId
<1>3. CASE c \notin SparseComponents /\ ~IsPlaced(s, e)
  BY <1>3, KeptSelf DEF InsertId
<1>4. CASE c \notin SparseComponents /\ IsPlaced(s, e) /\ c \in At(s, e).table
  BY <1>4, ReplacedIs DEF InsertId
<1>5. CASE c \notin SparseComponents /\ IsPlaced(s, e) /\ c \notin At(s, e).table
  <2>1. u = InsertNew(s, e, c, v) /\ c \in TableComponents
    BY <1>5 DEF InsertId, Components
  <2> QED BY <1>5, <2>1, InsertNewIs
<1> QED BY <1>1, <1>2, <1>3, <1>4, <1>5

(* A remove keeps the store: Structural::remove_id.                         *)
LEMMA RemoveIdIs ==
  ASSUME NEW s, NEW d, OK(s, d), NEW e \in Entity, NEW c \in Components,
         NEW u, u = RemoveId(s, e, c)
  PROVE  Kept(u, s, d, {})
<1>1. CASE c \in SparseComponents
  <2>1. u = RemoveSparse(s, e, c) /\ e.index \in Index
    BY <1>1 DEF RemoveId, Entity
  <2>2. SameSlots(u, s) /\ SetsOK(u)
    BY <1>1, <2>1, RemoveSparseIs DEF OK
  <2> QED BY <2>2, KeptSlots
<1>2. CASE c \notin SparseComponents /\ IsPlaced(s, e) /\ c \in At(s, e).table
  BY <1>2, RemoveOldIs DEF RemoveId
<1>3. CASE c \notin SparseComponents /\ ~(IsPlaced(s, e) /\ c \in At(s, e).table)
  BY <1>3, KeptSelf DEF RemoveId
<1> QED BY <1>1, <1>2, <1>3

(* A value changed between frames keeps the store.                          *)
LEMMA SetIdIs ==
  ASSUME NEW s, NEW d, OK(s, d), NEW e \in Entity, NEW c \in Components, NEW v \in Int,
         NEW u, u = SetId(s, e, c, v)
  PROVE  Kept(u, s, d, {})
<1>1. CASE c \in SparseComponents
  <2>1. u = SetSparse(LockSet(s, c), e, c, v) /\ e.index \in Index
    BY <1>1 DEF SetId, Entity
  <2>2. SameSlots(u, s) /\ SetsOK(u)
    BY <1>1, <2>1, SetSparseIs DEF OK
  <2> QED BY <2>2, KeptSlots
<1>2. CASE c \notin SparseComponents /\ IsPlaced(s, e) /\ c \in At(s, e).table
  BY <1>2, ReplacedIs DEF SetId
<1>3. CASE c \notin SparseComponents /\ ~(IsPlaced(s, e) /\ c \in At(s, e).table)
  BY <1>3, KeptSelf DEF SetId
<1> QED BY <1>1, <1>2, <1>3

(* Locking a set keeps the store.                                           *)
LEMMA LockedIs ==
  ASSUME NEW s, NEW d, OK(s, d), NEW c \in SparseComponents, NEW u, u = LockSet(s, c)
  PROVE  Kept(u, s, d, {})
<1>1. SameSlots(u, s) /\ SetsOK(u)
  BY LockSetIs DEF OK
<1> QED BY <1>1, KeptSlots

-----------------------------------------------------------------------------

(* Who holds a slot that was reserved has no row.                          *)
LEMMA ReservedRowed ==
  ASSUME NEW s, Rowed(s, {}), NEW i \in Index, s.locations[i] = Reserved
  PROVE  Rowed(s, {i})
<1>1. Located(s, {i})
  <2>1. ASSUME NEW t, NEW p, NEW r, HasRow(s, t, p, r) PROVE RowAt(s, t, p, r).index # i
    BY <2>1, PlacedIs DEF Rowed, Located
  <2> QED BY <2>1 DEF Rowed, Located
<1> QED BY <1>1 DEF Rowed

(* A spawn's row keeps the store, and takes the slot that was reserved for  *)
(* it.                                                                      *)
LEMMA SpawnRowIs ==
  ASSUME NEW s, NEW d, OK(s, d), NEW e \in Entity,
         s.locations[e.index] = Reserved, s.generations[e.index] = e.generation,
         NEW values, DOMAIN values \subseteq TableComponents, \A c \in DOMAIN values : values[c] \in Int,
         NEW u, u = SpawnRow(s, e, values)
  PROVE  Kept(u, s, d, {e.index})
<1> DEFINE t == DOMAIN values
           i == e.index
           w == Stamped(TableFor(s, t))
           x == MakeRoom(w, t)
           cells == [c \in t |-> Cell(values[c], x.stamp)]
<1>1. u = PushRow(w, e, t, values)
  BY DEF SpawnRow
<1>2. Prepared(w, s, t)
  BY PreparedIs DEF OK
<1> HIDE DEF w
<1>3. i \in Index
  BY DEF Entity
<1>4. Rowed(s, {i})
  BY <1>3, ReservedRowed DEF OK
<1>5. SameLife(w, s) /\ Rowed(w, {i}) /\ IsStore(w) /\ t \in DOMAIN w.tables /\ SameSets(w, s)
      /\ w.locations = s.locations
  BY <1>2, <1>4, PreparedLife DEF Prepared
<1> HIDE DEF x
<1>6. /\ IsStore(x) /\ x.locations = w.locations
      /\ SameSets(x, w) /\ SameIds(x, w) /\ SameTime(x, w)
      /\ x.tables = [w.tables EXCEPT ![t] = WithRoom(w.tables[t])]
      /\ Len(Last(x.tables[t].rows)) < PageRows
      /\ \A v, p, r : HasRow(x, v, p, r) <=> HasRow(w, v, p, r)
      /\ \A v, p, r : HasRow(w, v, p, r) => RowAt(x, v, p, r) = RowAt(w, v, p, r)
  BY <1>5, MakeRoomIs DEF x
<1>7. Rowed(x, {i})
  BY <1>5, <1>6, SameRows DEF SameIds
<1>8. u = AddRow(x, e, t, cells)
  <2>1. x.stamp = w.stamp
    BY <1>6 DEF SameTime
  <2> QED BY <1>1, <2>1 DEF PushRow, x
<1>9. DOMAIN cells = t /\ \A c \in t : cells[c] \in CellSet
  BY <1>6 DEF Cell, CellSet, IsStore
<1> HIDE DEF cells
<1>10. RowAdded(u, x, {i}, e, t, cells)
  <2>1. i \in {i} /\ x.generations[i] = e.generation /\ t \in DOMAIN x.tables
    BY <1>2, <1>5, <1>6 DEF SameIds, Prepared
  <2> QED BY <1>6, <1>7, <1>8, <1>9, <2>1, AddRowIs DEF i
<1>11. Rowed(u, {})
  <2>1. {i} \ {i} = {}
    OBVIOUS
  <2> QED BY <1>10, <2>1 DEF RowAdded
<1>12. SameIds(u, s) /\ SameSets(u, s)
  BY <1>2, <1>6, <1>10 DEF Prepared, SameIds, SameSets, RowAdded
<1>13. \A j \in Index \ {i} : u.locations[j] = s.locations[j]
  BY <1>5, <1>6, <1>10 DEF RowAdded
<1>14. SameLife(u, s)
  <2>1. u.locations[i] # Dead /\ s.locations[i] # Dead
    BY <1>10, PlacedIs DEF RowAdded
  <2> QED BY <1>12, <1>13, <2>1 DEF SameLife
<1>15. SlotsKept(u, s, {i})
  BY <1>12, <1>13 DEF SlotsKept, SameIds
<1>16. IsStore(u)
  BY <1>10 DEF RowAdded
<1>17. SetsOK(u)
  BY <1>12, <1>14, SameLifeSets DEF OK
<1>18. Carries(x, s) /\ x.stamp # 0
  <2>1. Carries(w, s) /\ w.stamp # 0
    BY PreparedCarries DEF w, OK
  <2>2. Carries(x, w)
    BY <1>5, MakeRoomCarries DEF x
  <2> QED BY <1>6, <2>1, <2>2, CarriesTwice DEF SameTime
<1>19. Carries(u, s)
  <2>1. t \in DOMAIN x.tables
    BY <1>5, <1>6
  <2>2. Adds(u, x, e, t, cells)
    BY <1>6, <1>9, <1>10, <1>18, <2>1, RowAddedSound
  <2>3. ASSUME NEW k, NEW some, Sound(s, k, some) PROVE Sound(u, k, some)
    <3>1. Sound(x, k, some)
      BY <1>18, <2>3 DEF Carries
    <3>2. x.stamp > k.since
      BY <1>18, <3>1 DEF Sound
    <3>3. k.reads \in t => FreshCell(e, cells[k.reads], k)
      <4>1. k.reads \in t => cells[k.reads] = Cell(values[k.reads], x.stamp)
        BY DEF cells
      <4> QED BY <3>2, <4>1 DEF FreshCell, Cell
    <3> QED BY <2>2, <3>1, <3>3 DEF Adds
  <2>4. SameSorted(u, s)
    BY <1>18, <2>2 DEF Carries, Adds, SameSorted
  <2> QED BY <2>3, <2>4 DEF Carries
<1> QED BY <1>11, <1>14, <1>15, <1>16, <1>17, <1>19, KeptLife

(* An entity dies: its slot is free for another, of a later generation.    *)
Died(u, s, i) ==
  /\ u.next = s.next /\ u.free = s.free /\ u.freed = Append(s.freed, i)
  /\ u.generations = [s.generations EXCEPT ![i] = s.generations[i] + 1]
  /\ u.locations[i] = Dead
  /\ \A j \in Index \ {i} : u.locations[j] = Dead <=> s.locations[j] = Dead

(* A death leaves what is said of ids: the slot is freed once, and its      *)
(* generation goes up by one.                                               *)
LEMMA KilledIds ==
  ASSUME NEW s, NEW d \in Nat, IdsOK(s, d), s.generations \in [Index -> Nat],
         NEW i \in Index, s.locations[i] # Dead, NEW u, Died(u, s, i)
  PROVE  IdsOK(u, d)
<1> USE DEF Died
<1> DEFINE freed == s.freed
           m == Len(freed)
<1>1. freed \in Seq(Index) /\ m \in Nat /\ DOMAIN freed = 1..m
  BY DEF IdsOK
<1>2. /\ u.freed \in Seq(Index) /\ DOMAIN u.freed = 1..m + 1
      /\ u.freed[m + 1] = i /\ \A k \in 1..m : u.freed[k] = freed[k]
  <2> HIDE DEF freed
  <2> QED BY <1>1, Appended DEF freed
<1>0. /\ \A b \in DOMAIN s.freed : s.locations[s.freed[b]] = Dead /\ s.freed[b] < s.next
      /\ \A a \in DOMAIN s.free : s.locations[s.free[a]] = Dead /\ s.free[a] < s.next
      /\ \A a \in DOMAIN s.free : \A b \in DOMAIN s.freed : s.free[a] # s.freed[b]
      /\ s.next \in 1..MaxIndex + 1 /\ s.free \in Seq(Index) /\ IsInjective(s.free)
      /\ IsInjective(s.freed) /\ \A j \in Index : j >= s.next => s.locations[j] = Dead
      /\ \A j \in Index : s.generations[j] <= d + 1 /\ (s.locations[j] # Dead => s.generations[j] <= d)
  BY DEF IdsOK
<1>3. /\ \A k \in 1..m : freed[k] \in Index
      /\ \A k \in 1..m : freed[k] # i
  <2>1. \A k \in 1..m : freed[k] \in Index
    BY <1>1
  <2>2. \A k \in 1..m : s.locations[freed[k]] = Dead
    BY <1>0, <1>1
  <2> QED BY <2>1, <2>2
<1>4. \A a, b \in 1..m : freed[a] = freed[b] => a = b
  BY <1>0, <1>1 DEF IsInjective
<1>5. \A k \in DOMAIN s.free : s.free[k] # i /\ s.free[k] \in Index
  BY <1>0
<1>12. u.freed \in Seq(Index)
  BY <1>2
<1>13. i < s.next
  <2>1. i \in 1..MaxIndex /\ MaxIndex \in Nat
    BY StoreAssumption DEF Index
  <2> QED BY <1>0, <2>1
<1> HIDE DEF m, freed
<1>6. IsInjective(u.freed)
  <2> SUFFICES ASSUME NEW a \in 1..m + 1, NEW b \in 1..m + 1, u.freed[a] = u.freed[b] PROVE a = b
    BY <1>2 DEF IsInjective
  <2>1. a = m + 1 \/ a \in 1..m
    BY <1>1
  <2>2. b = m + 1 \/ b \in 1..m
    BY <1>1
  <2>3. CASE a = m + 1 /\ b = m + 1
    BY <2>3
  <2>4. CASE a = m + 1 /\ b \in 1..m
    <3>1. u.freed[a] = i /\ u.freed[b] # i
      BY <1>2, <1>3, <2>4
    <3> QED BY <3>1
  <2>5. CASE a \in 1..m /\ b = m + 1
    <3>1. u.freed[b] = i /\ u.freed[a] # i
      BY <1>2, <1>3, <2>5
    <3> QED BY <3>1
  <2>6. CASE a \in 1..m /\ b \in 1..m
    <3>1. freed[a] = freed[b]
      BY <1>2, <2>6
    <3> QED BY <1>4, <2>6, <3>1
  <2> QED BY <2>1, <2>2, <2>3, <2>4, <2>5, <2>6
<1>7. ASSUME NEW k \in DOMAIN u.freed
      PROVE  /\ u.locations[u.freed[k]] = Dead /\ u.freed[k] < u.next
             /\ \A a \in DOMAIN u.free : u.free[a] # u.freed[k]
  <2>1. CASE k = m + 1
    <3>1. u.freed[k] = i
      BY <1>2, <2>1
    <3> QED BY <1>5, <1>13, <3>1
  <2>2. CASE k # m + 1
    <3>1. k \in 1..m /\ u.freed[k] = freed[k]
      BY <1>1, <1>2, <2>2
    <3>2. freed[k] \in Index /\ freed[k] # i /\ k \in DOMAIN freed
      BY <1>1, <1>3, <3>1
    <3>3. s.locations[freed[k]] = Dead
      BY <1>0, <3>2 DEF freed
    <3>4. u.locations[freed[k]] = Dead
      BY <3>2, <3>3
    <3>5. freed[k] < s.next /\ \A a \in DOMAIN s.free : s.free[a] # freed[k]
      BY <1>0, <3>2 DEF freed
    <3> QED BY <3>1, <3>4, <3>5
  <2> QED BY <2>1, <2>2
<1>8. \A a \in DOMAIN u.free : u.locations[u.free[a]] = Dead /\ u.free[a] < u.next
  <2> SUFFICES ASSUME NEW a \in DOMAIN s.free PROVE u.locations[s.free[a]] = Dead /\ s.free[a] < s.next
    OBVIOUS
  <2>1. s.free[a] \in Index \ {i} /\ s.locations[s.free[a]] = Dead /\ s.free[a] < s.next
    BY <1>0, <1>5
  <2> QED BY <2>1
<1>9. \A j \in Index : j >= u.next => u.locations[j] = Dead
  BY <1>0
<1>10. ASSUME NEW j \in Index
       PROVE  u.generations[j] <= d + 1 /\ (u.locations[j] # Dead => u.generations[j] <= d)
  <2>1. CASE j = i
    <3>1. u.generations[j] = s.generations[i] + 1 /\ s.generations[i] <= d /\ s.generations[i] \in Nat
      BY <1>0, <2>1
    <3> QED BY <2>1, <3>1
  <2>2. CASE j # i
    BY <1>0, <2>2
  <2> QED BY <2>1, <2>2
<1>11. u.next \in 1..MaxIndex + 1 /\ u.free \in Seq(Index) /\ IsInjective(u.free)
  BY <1>0
<1> QED BY <1>12, <1>6, <1>7, <1>8, <1>9, <1>10, <1>11 DEF IdsOK

(* A death leaves a set with one dead more at the most, and one more has    *)
(* died.                                                                    *)
LEMMA KilledSets ==
  ASSUME NEW s, IsStore(s), SetsOK(s), NEW e \in Entity, s.generations[e.index] = e.generation,
         NEW u, u.sets = s.sets, u.deaths = s.deaths + 1,
         \A j \in Index \ {e.index} : /\ u.generations[j] = s.generations[j]
                                      /\ u.locations[j] = Dead <=> s.locations[j] = Dead
  PROVE  SetsOK(u)
<1> SUFFICES ASSUME NEW c \in SparseComponents PROVE IsSet(s.sets[c]) /\ FewDead(u, s.sets[c])
  BY DEF SetsOK
<1> DEFINE set == s.sets[c]
<1>1. IsSet(set) /\ FewDead(s, set)
  BY DEF SetsOK
<1> HIDE DEF set
<1>2. DeadIn(u, set) \subseteq DeadIn(s, set) \union {e}
  <2> SUFFICES ASSUME NEW f \in ToSet(set.entities), ~Alive(u, f), f # e PROVE ~Alive(s, f)
    BY DEF DeadIn
  <2>1. f \in Entity
    BY <1>1, EntriesAre
  <2>2. CASE f.index = e.index
    BY <2>1, <2>2 DEF Alive, Entity
  <2>3. CASE f.index # e.index
    BY <2>1, <2>3 DEF Alive, Entity
  <2> QED BY <2>2, <2>3
<1>3. IsFiniteSet(DeadIn(s, set)) /\ Cardinality(DeadIn(s, set)) \in Nat
  BY <1>1, DeadFinite
<1>4. /\ IsFiniteSet(DeadIn(s, set) \union {e})
      /\ Cardinality(DeadIn(s, set) \union {e}) <= Cardinality(DeadIn(s, set)) + 1
  <2>1. Cardinality(DeadIn(s, set) \union {e}) =
          IF e \in DeadIn(s, set) THEN Cardinality(DeadIn(s, set)) ELSE Cardinality(DeadIn(s, set)) + 1
    BY <1>3, FS_AddElement
  <2>2. IsFiniteSet(DeadIn(s, set) \union {e})
    BY <1>3, FS_AddElement
  <2> QED BY <1>3, <2>1, <2>2
<1>5. Cardinality(DeadIn(u, set)) \in Nat /\ Cardinality(DeadIn(s, set) \union {e}) \in Nat
  BY <1>1, <1>4, DeadFinite, FS_CardinalityType
<1>6. Cardinality(DeadIn(u, set)) <= Cardinality(DeadIn(s, set) \union {e})
  BY <1>2, <1>4, FS_Subset
<1>7. s.deaths \in Nat /\ set.purgedAt \in Nat
  BY <1>1 DEF IsStore, IsSet
<1>8. FewDead(u, set)
  BY <1>1, <1>3, <1>4, <1>5, <1>6, <1>7 DEF FewDead
<1> QED BY <1>1, <1>8 DEF set

(* A despawn keeps the store: Structural::despawn.                          *)
LEMMA DespawnIs ==
  ASSUME NEW s, NEW d \in Nat, OK(s, d), NEW e \in Entity, NEW u, u = Despawn(s, e)
  PROVE  Kept(u, s, d, {})
<1>1. CASE ~IsPlaced(s, e)
  BY <1>1, KeptSelf DEF Despawn
<1>2. CASE IsPlaced(s, e)
  <2> DEFINE i == e.index
             at == At(s, e)
             x == Stamped(s)
             y == TakeRow(x, at)
             z == Kill(y, e)
  <2>1. u = [z EXCEPT !.freed = Append(@, i)]
    BY <1>2 DEF Despawn
  <2>2. IsStore(s) /\ Rowed(s, {}) /\ SetsOK(s) /\ IdsOK(s, d)
    BY DEF OK
  <2>3. i \in Index \ {} /\ s.locations[i].is = "placed" /\ at = s.locations[i] /\ s.generations[i] = e.generation
    BY <1>2 DEF IsPlaced, At, Entity
  <2>4. /\ IsStore(x) /\ x.locations = s.locations /\ x.tables = s.tables
        /\ SameSets(x, s) /\ SameIds(x, s)
    BY <2>2, StampedIs
  <2> HIDE DEF x
  <2>5. Rowed(x, {})
    <3>1. \A v, p, r : HasRow(x, v, p, r) <=> HasRow(s, v, p, r)
      BY <2>4 DEF HasRow
    <3>2. \A v, p, r : HasRow(s, v, p, r) => RowAt(x, v, p, r) = RowAt(s, v, p, r)
      BY <2>4 DEF RowAt
    <3> QED BY <2>2, <2>4, <3>1, <3>2, SameRows DEF SameIds
  <2>6. Housed(x, i)
    BY <2>3, <2>4, <2>5, SlotIs
  <2> HIDE DEF y
  <2>7. RowTaken(y, x, {}, i, at)
    BY <2>3, <2>4, <2>5, <2>6, TakeRowIs DEF y
  <2>8. /\ IsStore(y) /\ SameSets(y, s) /\ SameIds(y, s) /\ Rowed(y, {i})
        /\ \A j \in Index : /\ s.locations[j] \in {Dead, Reserved} => y.locations[j] = s.locations[j]
                            /\ s.locations[j].is = "placed" => y.locations[j].is = "placed"
    <3>1. {} \union {i} = {i}
      OBVIOUS
    <3> QED BY <2>4, <2>7, <3>1 DEF RowTaken, SameSets, SameIds
  <2>9. /\ DOMAIN u = StoreFields /\ u.sets = y.sets /\ u.locked = y.locked /\ u.tables = y.tables
        /\ u.next = y.next /\ u.free = y.free /\ u.tick = y.tick /\ u.stamp = y.stamp
        /\ u.freed = Append(y.freed, i) /\ u.deaths = y.deaths + 1
        /\ u.locations = [y.locations EXCEPT ![i] = Dead]
        /\ u.generations = [y.generations EXCEPT ![i] = @ + 1]
    BY <2>1, <2>8 DEF Kill, IsStore, StoreFields
  <2> HIDE DEF z, i
  <2>10. /\ u.locations[i] = Dead /\ DOMAIN u.locations = Index
         /\ \A j \in Index \ {i} : u.locations[j] = y.locations[j] /\ u.generations[j] = y.generations[j]
         /\ u.generations \in [Index -> Nat] /\ u.deaths \in Nat
    BY <2>3, <2>8, <2>9 DEF IsStore
  <2>11. IsStore(u)
    BY <2>8, <2>9, <2>10 DEF IsStore
  <2>12. \A v, p, r : (HasRow(u, v, p, r) <=> HasRow(y, v, p, r)) /\ RowAt(u, v, p, r) = RowAt(y, v, p, r)
    BY <2>9 DEF HasRow, RowAt
  <2>13. Rowed(u, {})
    <3>1. Located(u, {})
      <4> SUFFICES ASSUME NEW t, NEW p, NEW r, HasRow(u, t, p, r)
                   PROVE  /\ u.generations[RowAt(u, t, p, r).index] = RowAt(u, t, p, r).generation
                          /\ u.locations[RowAt(u, t, p, r).index] = Placed(t, p, r)
        BY DEF Located
      <4>1. HasRow(y, t, p, r) /\ RowAt(u, t, p, r) = RowAt(y, t, p, r)
        BY <2>12
      <4>2. RowAt(y, t, p, r).index \in Index \ {i}
        BY <2>8, <4>1, RowIs DEF Rowed, Located
      <4> QED BY <2>8, <2>10, <4>1, <4>2 DEF Rowed, Located
    <3>2. ASSUME NEW j \in Index, Housed(y, j), j # i PROVE Housed(u, j)
      BY <2>10, <2>12, <3>2 DEF Housed
    <3>3. ASSUME NEW j \in Index PROVE u.locations[j] \in {Dead, Reserved} \/ Housed(u, j)
      <4>1. CASE j = i
        BY <2>10, <4>1
      <4>2. CASE j # i
        BY <2>8, <2>10, <3>2, <4>2 DEF Rowed
      <4> QED BY <4>1, <4>2
    <3> QED BY <3>1, <3>3 DEF Rowed
  <2>14. ASSUME NEW j \in Index \ {i} PROVE u.locations[j] = Dead <=> s.locations[j] = Dead
    BY <2>2, <2>8, <2>10, SlotIs, PlacedIs
  <2>15. IdsOK(u, d)
    <3>1. s.locations[i] # Dead
      BY <2>3, PlacedIs
    <3>2. /\ u.next = s.next /\ u.free = s.free /\ u.freed = Append(s.freed, i)
          /\ u.generations = [s.generations EXCEPT ![i] = s.generations[i] + 1]
          /\ s.generations \in [Index -> Nat]
      BY <2>2, <2>8, <2>9 DEF SameIds, IsStore
    <3>3. i \in Index /\ u.locations[i] = Dead /\ IdsOK(s, d)
      BY <2>2, <2>3, <2>10
    <3>4. \A j \in Index \ {i} : u.locations[j] = Dead <=> s.locations[j] = Dead
      BY <2>14
    <3>5. Died(u, s, i)
      BY <3>2, <3>3, <3>4 DEF Died
    <3> QED BY <3>1, <3>2, <3>3, <3>5, KilledIds
  <2>16. SetsOK(u)
    <3>1. u.sets = s.sets /\ u.deaths = s.deaths + 1
      BY <2>8, <2>9 DEF SameSets, SameIds
    <3>2. \A j \in Index \ {e.index} : /\ u.generations[j] = s.generations[j]
                                       /\ u.locations[j] = Dead <=> s.locations[j] = Dead
      BY <2>8, <2>10, <2>14 DEF SameIds, i
    <3> QED BY <2>2, <2>3, <3>1, <3>2, KilledSets DEF i
  <2>17. SlotsKept(u, s, {})
    <3> SUFFICES ASSUME NEW j \in Index, s.locations[j] = Reserved
                 PROVE  u.locations[j] = Reserved /\ u.generations[j] = s.generations[j]
      BY DEF SlotsKept
    <3>1. j # i
      BY <2>3, PlacedIs
    <3> QED BY <2>8, <2>10, <3>1 DEF SameIds
  <2>18. Carries(x, s) /\ x.stamp # 0
    <3>1. HasRow(s, at.table, at.page, at.row) /\ at.table \subseteq TableComponents
      BY <1>2, <2>2, PlaceIs
    <3>2. TableFor(s, at.table) = s
      BY <3>1 DEF TableFor, HasRow
    <3> QED BY <2>2, <3>1, <3>2, PreparedCarries DEF x
  <2>19. Carries(y, x) /\ SameTime(u, y)
    BY <2>4, <2>7, <2>9, <2>18, RowTakenCarries DEF SameTime
  <2>20. Carries(u, y)
    BY <2>9, <2>19, CarriesSame
  <2>21. Carries(u, s)
    BY <2>18, <2>19, <2>20, CarriesTwice
  <2> QED BY <2>11, <2>13, <2>15, <2>16, <2>17, <2>21 DEF OK, Kept
<1> QED BY <1>1, <1>2

-----------------------------------------------------------------------------
(* Logs, spawns and runs.                                                   *)

InsertedSteps(f, base, seq, n) ==
  /\ f[0] = base
  /\ \A k \in 1..n : f[k] = Inserted(f[k - 1], seq[k])
  /\ InsertAll(base, seq) = f[n]

(* A spawn's inserts, one after another.                                    *)
LEMMA FoldInserted ==
  ASSUME NEW base, NEW seq, NEW n \in Nat, DOMAIN seq = 1..n
  PROVE  \E f : InsertedSteps(f, base, seq, n)
<1> DEFINE At1(f, s) == IF s = {} THEN base ELSE Inserted(f[s \ {Max(s)}], seq[Max(s)])
           Body(f) == [s \in SUBSET (DOMAIN seq) |-> At1(f, s)]
           iter == CHOOSE iter : iter = Body(iter)
           Has(k) == \E f : f = [s \in SUBSET (1..k) |-> At1(f, s)]
           T == {k \in Nat : k <= n => Has(k)}
<1>1. InsertAll(base, seq) = iter[DOMAIN seq]
  BY DEF InsertAll, FoldLeft, MapThenFoldSet
<1>2. 0 \in T
  <2> DEFINE f == [s \in SUBSET (1..0) |-> base]
  <2>1. f = [s \in SUBSET (1..0) |-> At1(f, s)]
    <3>1. \A s \in SUBSET (1..0) : s = {}
      OBVIOUS
    <3> QED BY <3>1
  <2>2. Has(0)
    BY <2>1
  <2> HIDE DEF Has
  <2> QED BY <2>2
<1>3. ASSUME NEW k \in Nat, k \in T PROVE k + 1 \in T
  <2> SUFFICES ASSUME k + 1 <= n PROVE Has(k + 1)
    <3> HIDE DEF Has
    <3> QED OBVIOUS
  <2>0. Has(k)
    <3> HIDE DEF Has
    <3> QED BY <1>3
  <2>1. PICK f : f = [s \in SUBSET (1..k) |-> At1(f, s)]
    BY <2>0
  <2> DEFINE g == [s \in SUBSET (1..k + 1) |->
                IF k + 1 \in s THEN Inserted(f[s \ {k + 1}], seq[k + 1]) ELSE f[s]]
  <2>2. ASSUME NEW s \in SUBSET (1..k + 1) PROVE g[s] = At1(g, s)
    <3>1. CASE k + 1 \in s
      <4>1. Max(s) = k + 1
        BY <3>1, MaxIs
      <4>2. s \ {k + 1} \in SUBSET (1..k + 1) /\ k + 1 \notin s \ {k + 1} /\ s # {}
        BY <3>1
      <4>3. g[s \ {k + 1}] = f[s \ {k + 1}]
        BY <4>2
      <4>4. g[s] = Inserted(f[s \ {k + 1}], seq[k + 1])
        BY <3>1
      <4> HIDE DEF g
      <4> QED BY <4>1, <4>2, <4>3, <4>4
    <3>2. CASE k + 1 \notin s
      <4>1. s \in SUBSET (1..k)
        BY <3>2
      <4>2. g[s] = f[s] /\ f[s] = At1(f, s)
        <5> HIDE DEF At1
        <5> QED BY <2>1, <3>2, <4>1
      <4>3. CASE s = {}
        <5> HIDE DEF g
        <5> QED BY <4>2, <4>3
      <4>4. CASE s # {}
        <5>1. s \ {Max(s)} \in SUBSET (1..k + 1) /\ k + 1 \notin s \ {Max(s)}
          BY <3>2
        <5>2. g[s \ {Max(s)}] = f[s \ {Max(s)}]
          BY <5>1
        <5> HIDE DEF g
        <5> QED BY <4>2, <4>4, <5>2
      <4> QED BY <4>3, <4>4
    <3> QED BY <3>1, <3>2
  <2>3. g = [s \in SUBSET (1..k + 1) |-> At1(g, s)]
    <3> HIDE DEF At1
    <3>1. g = [s \in SUBSET (1..k + 1) |-> g[s]]
      OBVIOUS
    <3> HIDE DEF g
    <3> QED BY <2>2, <3>1
  <2> QED BY <2>3
<1>4. n \in T
  <2> HIDE DEF T
  <2> QED BY <1>2, <1>3, ByInduction
<1>5. iter = Body(iter)
  <2>0. Has(n)
    <3> HIDE DEF Has
    <3> QED BY <1>4
  <2>1. PICK f : f = Body(f)
    <3> HIDE DEF At1
    <3> QED BY <2>0
  <2> HIDE DEF Body
  <2> QED BY <2>1
<1> HIDE DEF iter
<1> DEFINE f == [k \in 0..n |-> iter[1..k]]
<1>6. f[0] = base
  <2>1. 1..0 = {} /\ {} \in SUBSET (DOMAIN seq) /\ 0 \in 0..n
    OBVIOUS
  <2>2. iter[{}] = base
    BY <1>5, <2>1
  <2> QED BY <2>1, <2>2
<1>7. ASSUME NEW k \in 1..n PROVE f[k] = Inserted(f[k - 1], seq[k])
  <2>1. 1..k \in SUBSET (DOMAIN seq) /\ 1..k # {} /\ Max(1..k) = k /\ (1..k) \ {k} = 1..k - 1
    <3>1. k \in 1..k /\ 1..k \in SUBSET (1..k) /\ k \in Nat
      OBVIOUS
    <3>2. Max(1..k) = k
      BY <3>1, MaxIs, Zenon
    <3>3. (1..k) \ {k} = 1..k - 1 /\ 1..k \in SUBSET (DOMAIN seq) /\ k \in 1..k
      OBVIOUS
    <3> QED BY <3>2, <3>3
  <2>2. iter[1..k] = Inserted(iter[1..k - 1], seq[k])
    BY <1>5, <2>1
  <2>3. f[k] = iter[1..k] /\ f[k - 1] = iter[1..k - 1]
    OBVIOUS
  <2> QED BY <2>2, <2>3
<1>8. f[n] = iter[DOMAIN seq]
  OBVIOUS
<1> HIDE DEF f
<1>9. InsertedSteps(f, base, seq, n)
  BY <1>1, <1>6, <1>7, <1>8 DEF InsertedSteps
<1> QED BY <1>9

RunSteps(f, base, seq, n) ==
  /\ f[0] = base
  /\ \A k \in 1..n : f[k] = Made(f[k - 1], seq[k])
  /\ MakeRun(base, seq) = f[n]

(* A run's changes, one after another.                                      *)
LEMMA FoldRun ==
  ASSUME NEW base, NEW seq, NEW n \in Nat, DOMAIN seq = 1..n
  PROVE  \E f : RunSteps(f, base, seq, n)
<1> DEFINE At1(f, s) == IF s = {} THEN base ELSE Made(f[s \ {Max(s)}], seq[Max(s)])
           Body(f) == [s \in SUBSET (DOMAIN seq) |-> At1(f, s)]
           iter == CHOOSE iter : iter = Body(iter)
           Has(k) == \E f : f = [s \in SUBSET (1..k) |-> At1(f, s)]
           T == {k \in Nat : k <= n => Has(k)}
<1>1. MakeRun(base, seq) = iter[DOMAIN seq]
  BY DEF MakeRun, FoldLeft, MapThenFoldSet
<1>2. 0 \in T
  <2> DEFINE f == [s \in SUBSET (1..0) |-> base]
  <2>1. f = [s \in SUBSET (1..0) |-> At1(f, s)]
    <3>1. \A s \in SUBSET (1..0) : s = {}
      OBVIOUS
    <3> QED BY <3>1
  <2>2. Has(0)
    BY <2>1
  <2> HIDE DEF Has
  <2> QED BY <2>2
<1>3. ASSUME NEW k \in Nat, k \in T PROVE k + 1 \in T
  <2> SUFFICES ASSUME k + 1 <= n PROVE Has(k + 1)
    <3> HIDE DEF Has
    <3> QED OBVIOUS
  <2>0. Has(k)
    <3> HIDE DEF Has
    <3> QED BY <1>3
  <2>1. PICK f : f = [s \in SUBSET (1..k) |-> At1(f, s)]
    BY <2>0
  <2> DEFINE g == [s \in SUBSET (1..k + 1) |->
                IF k + 1 \in s THEN Made(f[s \ {k + 1}], seq[k + 1]) ELSE f[s]]
  <2>2. ASSUME NEW s \in SUBSET (1..k + 1) PROVE g[s] = At1(g, s)
    <3>1. CASE k + 1 \in s
      <4>1. Max(s) = k + 1
        BY <3>1, MaxIs
      <4>2. s \ {k + 1} \in SUBSET (1..k + 1) /\ k + 1 \notin s \ {k + 1} /\ s # {}
        BY <3>1
      <4>3. g[s \ {k + 1}] = f[s \ {k + 1}]
        BY <4>2
      <4>4. g[s] = Made(f[s \ {k + 1}], seq[k + 1])
        BY <3>1
      <4> HIDE DEF g
      <4> QED BY <4>1, <4>2, <4>3, <4>4
    <3>2. CASE k + 1 \notin s
      <4>1. s \in SUBSET (1..k)
        BY <3>2
      <4>2. g[s] = f[s] /\ f[s] = At1(f, s)
        <5> HIDE DEF At1
        <5> QED BY <2>1, <3>2, <4>1
      <4>3. CASE s = {}
        <5> HIDE DEF g
        <5> QED BY <4>2, <4>3
      <4>4. CASE s # {}
        <5>1. s \ {Max(s)} \in SUBSET (1..k + 1) /\ k + 1 \notin s \ {Max(s)}
          BY <3>2
        <5>2. g[s \ {Max(s)}] = f[s \ {Max(s)}]
          BY <5>1
        <5> HIDE DEF g
        <5> QED BY <4>2, <4>4, <5>2
      <4> QED BY <4>3, <4>4
    <3> QED BY <3>1, <3>2
  <2>3. g = [s \in SUBSET (1..k + 1) |-> At1(g, s)]
    <3> HIDE DEF At1
    <3>1. g = [s \in SUBSET (1..k + 1) |-> g[s]]
      OBVIOUS
    <3> HIDE DEF g
    <3> QED BY <2>2, <3>1
  <2> QED BY <2>3
<1>4. n \in T
  <2> HIDE DEF T
  <2> QED BY <1>2, <1>3, ByInduction
<1>5. iter = Body(iter)
  <2>0. Has(n)
    <3> HIDE DEF Has
    <3> QED BY <1>4
  <2>1. PICK f : f = Body(f)
    <3> HIDE DEF At1
    <3> QED BY <2>0
  <2> HIDE DEF Body
  <2> QED BY <2>1
<1> HIDE DEF iter
<1> DEFINE f == [k \in 0..n |-> iter[1..k]]
<1>6. f[0] = base
  <2>1. 1..0 = {} /\ {} \in SUBSET (DOMAIN seq) /\ 0 \in 0..n
    OBVIOUS
  <2>2. iter[{}] = base
    BY <1>5, <2>1
  <2> QED BY <2>1, <2>2
<1>7. ASSUME NEW k \in 1..n PROVE f[k] = Made(f[k - 1], seq[k])
  <2>1. 1..k \in SUBSET (DOMAIN seq) /\ 1..k # {} /\ Max(1..k) = k /\ (1..k) \ {k} = 1..k - 1
    <3>1. k \in 1..k /\ 1..k \in SUBSET (1..k) /\ k \in Nat
      OBVIOUS
    <3>2. Max(1..k) = k
      BY <3>1, MaxIs, Zenon
    <3>3. (1..k) \ {k} = 1..k - 1 /\ 1..k \in SUBSET (DOMAIN seq) /\ k \in 1..k
      OBVIOUS
    <3> QED BY <3>2, <3>3
  <2>2. iter[1..k] = Made(iter[1..k - 1], seq[k])
    BY <1>5, <2>1
  <2>3. f[k] = iter[1..k] /\ f[k - 1] = iter[1..k - 1]
    OBVIOUS
  <2> QED BY <2>2, <2>3
<1>8. f[n] = iter[DOMAIN seq]
  OBVIOUS
<1> HIDE DEF f
<1>9. RunSteps(f, base, seq, n)
  BY <1>1, <1>6, <1>7, <1>8 DEF RunSteps
<1> QED BY <1>9

MadeAllSteps(f, base, seq, n) ==
  /\ f[0] = base
  /\ \A k \in 1..n : f[k] = MadeAll(f[k - 1], seq[k])
  /\ MakeAll(base, seq) = f[n]

(* A log's changes, one after another.                                      *)
LEMMA FoldMadeAll ==
  ASSUME NEW base, NEW seq, NEW n \in Nat, DOMAIN seq = 1..n
  PROVE  \E f : MadeAllSteps(f, base, seq, n)
<1> DEFINE At1(f, s) == IF s = {} THEN base ELSE MadeAll(f[s \ {Max(s)}], seq[Max(s)])
           Body(f) == [s \in SUBSET (DOMAIN seq) |-> At1(f, s)]
           iter == CHOOSE iter : iter = Body(iter)
           Has(k) == \E f : f = [s \in SUBSET (1..k) |-> At1(f, s)]
           T == {k \in Nat : k <= n => Has(k)}
<1>1. MakeAll(base, seq) = iter[DOMAIN seq]
  BY DEF MakeAll, FoldLeft, MapThenFoldSet
<1>2. 0 \in T
  <2> DEFINE f == [s \in SUBSET (1..0) |-> base]
  <2>1. f = [s \in SUBSET (1..0) |-> At1(f, s)]
    <3>1. \A s \in SUBSET (1..0) : s = {}
      OBVIOUS
    <3> QED BY <3>1
  <2>2. Has(0)
    BY <2>1
  <2> HIDE DEF Has
  <2> QED BY <2>2
<1>3. ASSUME NEW k \in Nat, k \in T PROVE k + 1 \in T
  <2> SUFFICES ASSUME k + 1 <= n PROVE Has(k + 1)
    <3> HIDE DEF Has
    <3> QED OBVIOUS
  <2>0. Has(k)
    <3> HIDE DEF Has
    <3> QED BY <1>3
  <2>1. PICK f : f = [s \in SUBSET (1..k) |-> At1(f, s)]
    BY <2>0
  <2> DEFINE g == [s \in SUBSET (1..k + 1) |->
                IF k + 1 \in s THEN MadeAll(f[s \ {k + 1}], seq[k + 1]) ELSE f[s]]
  <2>2. ASSUME NEW s \in SUBSET (1..k + 1) PROVE g[s] = At1(g, s)
    <3>1. CASE k + 1 \in s
      <4>1. Max(s) = k + 1
        BY <3>1, MaxIs
      <4>2. s \ {k + 1} \in SUBSET (1..k + 1) /\ k + 1 \notin s \ {k + 1} /\ s # {}
        BY <3>1
      <4>3. g[s \ {k + 1}] = f[s \ {k + 1}]
        BY <4>2
      <4>4. g[s] = MadeAll(f[s \ {k + 1}], seq[k + 1])
        BY <3>1
      <4> HIDE DEF g
      <4> QED BY <4>1, <4>2, <4>3, <4>4
    <3>2. CASE k + 1 \notin s
      <4>1. s \in SUBSET (1..k)
        BY <3>2
      <4>2. g[s] = f[s] /\ f[s] = At1(f, s)
        <5> HIDE DEF At1
        <5> QED BY <2>1, <3>2, <4>1
      <4>3. CASE s = {}
        <5> HIDE DEF g
        <5> QED BY <4>2, <4>3
      <4>4. CASE s # {}
        <5>1. s \ {Max(s)} \in SUBSET (1..k + 1) /\ k + 1 \notin s \ {Max(s)}
          BY <3>2
        <5>2. g[s \ {Max(s)}] = f[s \ {Max(s)}]
          BY <5>1
        <5> HIDE DEF g
        <5> QED BY <4>2, <4>4, <5>2
      <4> QED BY <4>3, <4>4
    <3> QED BY <3>1, <3>2
  <2>3. g = [s \in SUBSET (1..k + 1) |-> At1(g, s)]
    <3> HIDE DEF At1
    <3>1. g = [s \in SUBSET (1..k + 1) |-> g[s]]
      OBVIOUS
    <3> HIDE DEF g
    <3> QED BY <2>2, <3>1
  <2> QED BY <2>3
<1>4. n \in T
  <2> HIDE DEF T
  <2> QED BY <1>2, <1>3, ByInduction
<1>5. iter = Body(iter)
  <2>0. Has(n)
    <3> HIDE DEF Has
    <3> QED BY <1>4
  <2>1. PICK f : f = Body(f)
    <3> HIDE DEF At1
    <3> QED BY <2>0
  <2> HIDE DEF Body
  <2> QED BY <2>1
<1> HIDE DEF iter
<1> DEFINE f == [k \in 0..n |-> iter[1..k]]
<1>6. f[0] = base
  <2>1. 1..0 = {} /\ {} \in SUBSET (DOMAIN seq) /\ 0 \in 0..n
    OBVIOUS
  <2>2. iter[{}] = base
    BY <1>5, <2>1
  <2> QED BY <2>1, <2>2
<1>7. ASSUME NEW k \in 1..n PROVE f[k] = MadeAll(f[k - 1], seq[k])
  <2>1. 1..k \in SUBSET (DOMAIN seq) /\ 1..k # {} /\ Max(1..k) = k /\ (1..k) \ {k} = 1..k - 1
    <3>1. k \in 1..k /\ 1..k \in SUBSET (1..k) /\ k \in Nat
      OBVIOUS
    <3>2. Max(1..k) = k
      BY <3>1, MaxIs, Zenon
    <3>3. (1..k) \ {k} = 1..k - 1 /\ 1..k \in SUBSET (DOMAIN seq) /\ k \in 1..k
      OBVIOUS
    <3> QED BY <3>2, <3>3
  <2>2. iter[1..k] = MadeAll(iter[1..k - 1], seq[k])
    BY <1>5, <2>1
  <2>3. f[k] = iter[1..k] /\ f[k - 1] = iter[1..k - 1]
    OBVIOUS
  <2> QED BY <2>2, <2>3
<1>8. f[n] = iter[DOMAIN seq]
  OBVIOUS
<1> HIDE DEF f
<1>9. MadeAllSteps(f, base, seq, n)
  BY <1>1, <1>6, <1>7, <1>8 DEF MadeAllSteps
<1> QED BY <1>9

LoggedSteps(f, seq, n) ==
  /\ f[0] = <<>>
  /\ \A k \in 1..n : f[k] = Logged(f[k - 1], seq[k])
  /\ LogAll(seq) = f[n]

(* What a log has become, change after change.                              *)
LEMMA FoldLogged ==
  ASSUME NEW seq, NEW n \in Nat, DOMAIN seq = 1..n
  PROVE  \E f : LoggedSteps(f, seq, n)
<1> DEFINE At1(f, s) == IF s = {} THEN <<>> ELSE Logged(f[s \ {Max(s)}], seq[Max(s)])
           Body(f) == [s \in SUBSET (DOMAIN seq) |-> At1(f, s)]
           iter == CHOOSE iter : iter = Body(iter)
           Has(k) == \E f : f = [s \in SUBSET (1..k) |-> At1(f, s)]
           T == {k \in Nat : k <= n => Has(k)}
<1>1. LogAll(seq) = iter[DOMAIN seq]
  BY DEF LogAll, FoldLeft, MapThenFoldSet
<1>2. 0 \in T
  <2> DEFINE f == [s \in SUBSET (1..0) |-> <<>>]
  <2>1. f = [s \in SUBSET (1..0) |-> At1(f, s)]
    <3>1. \A s \in SUBSET (1..0) : s = {}
      OBVIOUS
    <3> QED BY <3>1
  <2>2. Has(0)
    BY <2>1
  <2> HIDE DEF Has
  <2> QED BY <2>2
<1>3. ASSUME NEW k \in Nat, k \in T PROVE k + 1 \in T
  <2> SUFFICES ASSUME k + 1 <= n PROVE Has(k + 1)
    <3> HIDE DEF Has
    <3> QED OBVIOUS
  <2>0. Has(k)
    <3> HIDE DEF Has
    <3> QED BY <1>3
  <2>1. PICK f : f = [s \in SUBSET (1..k) |-> At1(f, s)]
    BY <2>0
  <2> DEFINE g == [s \in SUBSET (1..k + 1) |->
                IF k + 1 \in s THEN Logged(f[s \ {k + 1}], seq[k + 1]) ELSE f[s]]
  <2>2. ASSUME NEW s \in SUBSET (1..k + 1) PROVE g[s] = At1(g, s)
    <3>1. CASE k + 1 \in s
      <4>1. Max(s) = k + 1
        BY <3>1, MaxIs
      <4>2. s \ {k + 1} \in SUBSET (1..k + 1) /\ k + 1 \notin s \ {k + 1} /\ s # {}
        BY <3>1
      <4>3. g[s \ {k + 1}] = f[s \ {k + 1}]
        BY <4>2
      <4>4. g[s] = Logged(f[s \ {k + 1}], seq[k + 1])
        BY <3>1
      <4> HIDE DEF g
      <4> QED BY <4>1, <4>2, <4>3, <4>4
    <3>2. CASE k + 1 \notin s
      <4>1. s \in SUBSET (1..k)
        BY <3>2
      <4>2. g[s] = f[s] /\ f[s] = At1(f, s)
        <5> HIDE DEF At1
        <5> QED BY <2>1, <3>2, <4>1
      <4>3. CASE s = {}
        <5> HIDE DEF g
        <5> QED BY <4>2, <4>3
      <4>4. CASE s # {}
        <5>1. s \ {Max(s)} \in SUBSET (1..k + 1) /\ k + 1 \notin s \ {Max(s)}
          BY <3>2
        <5>2. g[s \ {Max(s)}] = f[s \ {Max(s)}]
          BY <5>1
        <5> HIDE DEF g
        <5> QED BY <4>2, <4>4, <5>2
      <4> QED BY <4>3, <4>4
    <3> QED BY <3>1, <3>2
  <2>3. g = [s \in SUBSET (1..k + 1) |-> At1(g, s)]
    <3> HIDE DEF At1
    <3>1. g = [s \in SUBSET (1..k + 1) |-> g[s]]
      OBVIOUS
    <3> HIDE DEF g
    <3> QED BY <2>2, <3>1
  <2> QED BY <2>3
<1>4. n \in T
  <2> HIDE DEF T
  <2> QED BY <1>2, <1>3, ByInduction
<1>5. iter = Body(iter)
  <2>0. Has(n)
    <3> HIDE DEF Has
    <3> QED BY <1>4
  <2>1. PICK f : f = Body(f)
    <3> HIDE DEF At1
    <3> QED BY <2>0
  <2> HIDE DEF Body
  <2> QED BY <2>1
<1> HIDE DEF iter
<1> DEFINE f == [k \in 0..n |-> iter[1..k]]
<1>6. f[0] = <<>>
  <2>1. 1..0 = {} /\ {} \in SUBSET (DOMAIN seq) /\ 0 \in 0..n
    OBVIOUS
  <2>2. iter[{}] = <<>>
    BY <1>5, <2>1
  <2> QED BY <2>1, <2>2
<1>7. ASSUME NEW k \in 1..n PROVE f[k] = Logged(f[k - 1], seq[k])
  <2>1. 1..k \in SUBSET (DOMAIN seq) /\ 1..k # {} /\ Max(1..k) = k /\ (1..k) \ {k} = 1..k - 1
    <3>1. k \in 1..k /\ 1..k \in SUBSET (1..k) /\ k \in Nat
      OBVIOUS
    <3>2. Max(1..k) = k
      BY <3>1, MaxIs, Zenon
    <3>3. (1..k) \ {k} = 1..k - 1 /\ 1..k \in SUBSET (DOMAIN seq) /\ k \in 1..k
      OBVIOUS
    <3> QED BY <3>2, <3>3
  <2>2. iter[1..k] = Logged(iter[1..k - 1], seq[k])
    BY <1>5, <2>1
  <2>3. f[k] = iter[1..k] /\ f[k - 1] = iter[1..k - 1]
    OBVIOUS
  <2> QED BY <2>2, <2>3
<1>8. f[n] = iter[DOMAIN seq]
  OBVIOUS
<1> HIDE DEF f
<1>9. LoggedSteps(f, seq, n)
  BY <1>1, <1>6, <1>7, <1>8 DEF LoggedSteps
<1> QED BY <1>9

(* Inserting some values keeps the store.                                   *)
LEMMA InsertAllIs ==
  ASSUME NEW s, NEW d, OK(s, d), NEW n \in Nat, NEW seq, DOMAIN seq = 1..n,
         \A k \in 1..n : seq[k].entity \in Entity /\ seq[k].component \in Components /\ seq[k].value \in Int,
         NEW u, u = InsertAll(s, seq)
  PROVE  Kept(u, s, d, {})
<1>1. \E f : InsertedSteps(f, s, seq, n)
  BY FoldInserted
<1>2. PICK f : /\ f[0] = s
               /\ \A k \in 1..n : f[k] = Inserted(f[k - 1], seq[k])
               /\ u = f[n]
  BY <1>1 DEF InsertedSteps
<1> DEFINE Good(k) == Kept(f[k], s, d, {})
           T == {k \in Nat : k <= n => Good(k)}
<1>3. 0 \in T
  BY <1>2, KeptSelf
<1>4. ASSUME NEW k \in Nat, k \in T PROVE k + 1 \in T
  <2> SUFFICES ASSUME k + 1 <= n PROVE Good(k + 1)
    <3> HIDE DEF Good
    <3> QED OBVIOUS
  <2>1. Kept(f[k], s, d, {})
    BY <1>4
  <2>2. k + 1 \in 1..n /\ k + 1 - 1 = k
    OBVIOUS
  <2>3. f[k + 1] = InsertId(f[k], seq[k + 1].entity, seq[k + 1].component, seq[k + 1].value)
    BY <1>2, <2>2 DEF Inserted
  <2>4. Kept(f[k + 1], f[k], d, {})
    BY <2>1, <2>2, <2>3, InsertIdIs DEF Kept
  <2> QED BY <2>1, <2>4, KeptTwice
<1>5. Good(n)
  <2> HIDE DEF T, Good
  <2>1. n \in T
    BY <1>3, <1>4, ByInduction
  <2> QED BY <2>1 DEF T
<1> QED BY <1>2, <1>5

(* What a set is as a sequence.                                            *)
LEMMA SetToSeqIs ==
  ASSUME NEW S, IsFiniteSet(S), NEW list, list = SetToSeq(S)
  PROVE  \E n \in Nat : DOMAIN list = 1..n /\ \A k \in 1..n : list[k] \in S
<1> DEFINE n == Cardinality(S)
<1>1. n \in Nat /\ ExistsBijection(1..n, S)
  BY FS_CardinalityType
<1> HIDE DEF n
<1>2. PICK f \in Bijection(1..n, S) : TRUE
  BY <1>1 DEF ExistsBijection
<1>3. f \in [1..n -> S] /\ IsInjective(f)
  BY <1>2 DEF Bijection, Injection, Surjection, IsInjective
<1>4. list = CHOOSE g \in [1..n -> S] : IsInjective(g)
  BY DEF SetToSeq, n
<1>5. list \in [1..n -> S]
  BY <1>3, <1>4
<1> QED BY <1>1, <1>5

(* What a change has, by its op.                                            *)
LEMMA ChangeIs ==
  ASSUME NEW c \in Changes(Entity)
  PROVE  /\ c.entity \in Entity
         /\ c.op \in {"insert", "set", "remove", "spawn", "despawn"}
         /\ c.op \in {"insert", "set"} => c.component \in Components /\ c.value \in Int
         /\ c.op = "remove" => c.component \in Components
         /\ c.op = "spawn" => DOMAIN c.values \subseteq Components /\ \A k \in DOMAIN c.values : c.values[k] \in Int
<1>1. Values \subseteq Int
  BY StoreAssumption
<1>2. CASE c \in [op : {"insert", "set"}, entity : Entity, component : Components, value : Values]
  BY <1>1, <1>2
<1>3. CASE c \in [op : {"remove"}, entity : Entity, component : Components]
  BY <1>3
<1>4. CASE c \in [op : {"spawn"}, entity : Entity, values : UNION {[cs -> Values] : cs \in SUBSET Components}]
  <2>1. c.op = "spawn" /\ c.entity \in Entity /\ c.values \in UNION {[cs -> Values] : cs \in SUBSET Components}
    BY <1>4
  <2>2. PICK cs \in SUBSET Components : c.values \in [cs -> Values]
    BY <2>1
  <2>3. DOMAIN c.values = cs /\ \A k \in cs : c.values[k] \in Int
    BY <1>1, <2>2
  <2> QED BY <2>1, <2>3
<1>5. CASE c \in [op : {"despawn"}, entity : Entity]
  BY <1>5
<1> QED BY <1>2, <1>3, <1>4, <1>5 DEF Changes

(* What is made of a change, by its op.                                     *)
LEMMA MadeOf ==
  ASSUME NEW s, NEW c
  PROVE  /\ c.op = "insert" => Made(s, c) = Inserted(s, c)
         /\ c.op = "remove" => Made(s, c) = RemoveId(s, c.entity, c.component)
         /\ c.op = "set" => Made(s, c) = SetId(s, c.entity, c.component, c.value)
         /\ c.op = "spawn" => Made(s, c) = Spawn(s, c.entity, c.values)
         /\ c.op = "despawn" => Made(s, c) = Despawn(s, c.entity)
BY ZenonT(60) DEF Made

(* Whose slot a change takes.                                              *)
SpawnOf(c) == IF c.op = "spawn" THEN {c.entity.index} ELSE {}
Ready(s, e) == s.locations[e.index] = Reserved /\ s.generations[e.index] = e.generation

(* A spawn keeps the store, but for the slot it was reserved:               *)
(* Structural::spawn.                                                       *)
LEMMA SpawnIs ==
  ASSUME NEW s, NEW d, OK(s, d), NEW e \in Entity, Ready(s, e),
         NEW values, DOMAIN values \subseteq Components, \A c \in DOMAIN values : values[c] \in Int,
         NEW u, u = Spawn(s, e, values)
  PROVE  Kept(u, s, d, {e.index})
<1> DEFINE own == Only(values, TableComponents)
           cs == DOMAIN values \intersect SparseComponents
           list == SetToSeq(cs)
           seq == Inserts(e, values, list)
           w == SpawnRow(s, e, own)
<1>1. DOMAIN own \subseteq TableComponents /\ \A c \in DOMAIN own : own[c] \in Int
  BY DEF Only
<1>2. u = InsertAll(w, seq)
  BY DEF Spawn
<1> HIDE DEF own
<1>3. Kept(w, s, d, {e.index})
  BY <1>1, SpawnRowIs DEF Ready
<1> HIDE DEF w
<1>4. IsFiniteSet(cs)
  BY StoreAssumption, FS_Subset
<1> HIDE DEF cs
<1>5. \E n \in Nat : DOMAIN list = 1..n /\ \A k \in 1..n : list[k] \in cs
  BY <1>4, SetToSeqIs
<1>6. PICK n \in Nat : DOMAIN list = 1..n /\ \A k \in 1..n : list[k] \in cs
  BY <1>5
<1> HIDE DEF list
<1>7. DOMAIN seq = 1..n
  BY <1>6 DEF Inserts
<1>8. ASSUME NEW k \in 1..n
      PROVE  seq[k].entity \in Entity /\ seq[k].component \in Components /\ seq[k].value \in Int
  <2>1. seq[k].entity = e /\ seq[k].component = list[k] /\ seq[k].value = values[list[k]]
    BY <1>6 DEF Inserts
  <2>2. list[k] \in DOMAIN values
    BY <1>6 DEF cs
  <2> QED BY <2>1, <2>2
<1> HIDE DEF seq
<1>9. Kept(u, w, d, {})
  BY <1>2, <1>3, <1>7, <1>8, InsertAllIs DEF Kept
<1>10. Kept(u, w, d, {e.index})
  BY <1>9, KeptMore
<1> QED BY <1>3, <1>10, KeptTwice

(* A change keeps the store, and takes no slot but a spawn's.               *)
LEMMA MadeIs ==
  ASSUME NEW s, NEW d \in Nat, OK(s, d), NEW c \in Changes(Entity), c.op = "spawn" => Ready(s, c.entity),
         NEW u, u = Made(s, c)
  PROVE  Kept(u, s, d, SpawnOf(c))
<1> USE ChangeIs
<1>1. CASE c.op = "insert"
  <2>1. u = InsertId(s, c.entity, c.component, c.value)
    BY <1>1, MadeOf DEF Inserted
  <2>2. c.entity \in Entity /\ c.component \in Components /\ c.value \in Int
    BY <1>1
  <2>3. Kept(u, s, d, {})
    BY <2>1, <2>2, InsertIdIs
  <2> QED BY <1>1, <2>3 DEF SpawnOf
<1>2. CASE c.op = "remove"
  <2>1. u = RemoveId(s, c.entity, c.component)
    BY <1>2, MadeOf
  <2>2. c.entity \in Entity /\ c.component \in Components
    BY <1>2
  <2>3. Kept(u, s, d, {})
    BY <2>1, <2>2, RemoveIdIs
  <2> QED BY <1>2, <2>3 DEF SpawnOf
<1>3. CASE c.op = "set"
  <2>1. u = SetId(s, c.entity, c.component, c.value)
    BY <1>3, MadeOf
  <2>2. c.entity \in Entity /\ c.component \in Components /\ c.value \in Int
    BY <1>3
  <2>3. Kept(u, s, d, {})
    BY <2>1, <2>2, SetIdIs
  <2> QED BY <1>3, <2>3 DEF SpawnOf
<1>4. CASE c.op = "spawn"
  <2>1. u = Spawn(s, c.entity, c.values)
    BY <1>4, MadeOf
  <2>2. /\ c.entity \in Entity /\ Ready(s, c.entity) /\ DOMAIN c.values \subseteq Components
        /\ \A k \in DOMAIN c.values : c.values[k] \in Int
    BY <1>4
  <2>3. Kept(u, s, d, {c.entity.index})
    BY <2>1, <2>2, SpawnIs
  <2> QED BY <1>4, <2>3 DEF SpawnOf
<1>5. CASE c.op = "despawn"
  <2>1. u = Despawn(s, c.entity)
    BY <1>5, MadeOf
  <2>2. c.entity \in Entity
    OBVIOUS
  <2>3. Kept(u, s, d, {})
    BY <2>1, <2>2, DespawnIs
  <2> QED BY <1>5, <2>3 DEF SpawnOf
<1> QED BY <1>1, <1>2, <1>3, <1>4, <1>5

-----------------------------------------------------------------------------

(* What a log has once its sparse changes were joined in runs.             *)
SparseChange == {c \in Changes(Entity) : IsSparseChange(c)}
RunSet == [op : {"run"}, component : SparseComponents, changes : Seq(SparseChange)]
Entry == Changes(Entity) \union RunSet

(* A run keeps the store: Run::apply.                                       *)
LEMMA RunIs ==
  ASSUME NEW s, NEW d \in Nat, OK(s, d), NEW changes \in Seq(SparseChange), NEW u, u = MakeRun(s, changes)
  PROVE  Kept(u, s, d, {})
<1> DEFINE n == Len(changes)
<1>1. n \in Nat /\ DOMAIN changes = 1..n
  OBVIOUS
<1>2. \A k \in 1..n : changes[k] \in SparseChange
  OBVIOUS
<1> HIDE DEF n
<1>3. \E f : RunSteps(f, s, changes, n)
  BY <1>1, FoldRun
<1>4. PICK f : /\ f[0] = s
               /\ \A k \in 1..n : f[k] = Made(f[k - 1], changes[k])
               /\ u = f[n]
  BY <1>3 DEF RunSteps
<1> DEFINE Good(k) == Kept(f[k], s, d, {})
           T == {k \in Nat : k <= n => Good(k)}
<1>5. 0 \in T
  BY <1>4, KeptSelf
<1>6. ASSUME NEW k \in Nat, k \in T PROVE k + 1 \in T
  <2> SUFFICES ASSUME k + 1 <= n PROVE Good(k + 1)
    <3> HIDE DEF Good
    <3> QED OBVIOUS
  <2>1. Kept(f[k], s, d, {})
    <3>1. k <= n
      BY <1>1
    <3> QED BY <1>6, <3>1
  <2>2. k + 1 \in 1..n /\ k + 1 - 1 = k
    BY <1>1
  <2> DEFINE c == changes[k + 1]
  <2>3. f[k + 1] = Made(f[k], c) /\ c \in SparseChange
    BY <1>2, <1>4, <2>2
  <2> HIDE DEF c
  <2>4. c \in Changes(Entity) /\ c.op \in {"insert", "remove"}
    BY <2>3 DEF SparseChange, IsSparseChange
  <2>5. Kept(f[k + 1], f[k], d, SpawnOf(c))
    BY <2>1, <2>3, <2>4, MadeIs DEF Kept
  <2>6. SpawnOf(c) = {}
    BY <2>4 DEF SpawnOf
  <2> QED BY <2>1, <2>5, <2>6, KeptTwice
<1>7. Good(n)
  <2> HIDE DEF T, Good
  <2>1. n \in T
    BY <1>1, <1>5, <1>6, ByInduction
  <2> QED BY <1>1, <2>1 DEF T
<1> QED BY <1>4, <1>7

(* What a log has keeps the store.                                          *)
LEMMA MadeAllIs ==
  ASSUME NEW s, NEW d \in Nat, OK(s, d), NEW c \in Entry, c.op = "spawn" => Ready(s, c.entity),
         NEW u, u = MadeAll(s, c)
  PROVE  Kept(u, s, d, SpawnOf(c))
<1>1. CASE c \in Changes(Entity)
  <2>1. c.op # "run"
    BY <1>1, ChangeIs
  <2>2. u = Made(s, c)
    BY <2>1 DEF MadeAll
  <2> QED BY <1>1, <2>2, MadeIs
<1>2. CASE c \in RunSet
  <2>1. c.op = "run" /\ c.component \in SparseComponents /\ c.changes \in Seq(SparseChange)
    BY <1>2 DEF RunSet
  <2> DEFINE w == LockSet(s, c.component)
  <2>2. u = MakeRun(w, c.changes)
    BY <2>1 DEF MadeAll
  <2>3. Kept(w, s, d, {})
    BY <2>1, LockedIs
  <2> HIDE DEF w
  <2>4. Kept(u, w, d, {})
    BY <2>1, <2>2, <2>3, RunIs DEF Kept
  <2>5. SpawnOf(c) = {}
    BY <2>1 DEF SpawnOf
  <2> QED BY <2>3, <2>4, <2>5, KeptTwice
<1> QED BY <1>1, <1>2 DEF Entry

(* The latest of some entries of a log.                                    *)
LEMMA LatestIs ==
  ASSUME NEW n \in Nat, NEW runs \in SUBSET (1..n), runs # {}
  PROVE  \E i \in runs : \A j \in runs : j <= i
<1> DEFINE S == {n - i : i \in runs}
<1>1. S \in SUBSET Nat /\ S # {}
  <2>1. \A i \in runs : i \in 1..n /\ n - i \in Nat
    OBVIOUS
  <2> QED BY <2>1
<1> HIDE DEF S
<1>2. PICK x \in S : \A y \in S : x <= y
  BY <1>1, LeastOfNats
<1>3. PICK i \in runs : x = n - i
  BY <1>2 DEF S
<1>4. \A j \in runs : n - j \in S
  BY DEF S
<1>5. ASSUME NEW j \in runs PROVE j <= i
  <2>1. n - i <= n - j
    BY <1>2, <1>3, <1>4
  <2> QED BY <2>1
<1> QED BY <1>5

(* An entry is a run or one of the first k changes.                        *)
LoggedFrom(list, log, k) ==
  /\ list \in Seq(Entry)
  /\ \A a \in DOMAIN list : list[a] \in RunSet \/ \E i \in 1..k : list[a] = log[i]
  /\ \A a, b \in DOMAIN list : a # b /\ list[a].op = "spawn" /\ list[b].op = "spawn" =>
       list[a].entity # list[b].entity

SpawnsOnce(log) ==
  \A i \in DOMAIN log : log[i].op = "spawn" =>
    \A j \in DOMAIN log \ {i} : log[j].entity # log[i].entity

(* Joining a run leaves the log's other entries.                            *)
LEMMA JoinedIs ==
  ASSUME NEW list \in Seq(Entry), NEW c \in SparseChange, NEW runs, runs = RunsFor(list, c), runs # {},
         NEW u, u = JoinedTo(list, c, runs)
  PROVE  /\ u \in Seq(Entry) /\ DOMAIN u = DOMAIN list
         /\ \A a \in DOMAIN list : u[a] = list[a] \/ u[a] \in RunSet
<1> DEFINE n == Len(list)
           i == CHOOSE i \in runs : \A j \in runs : j <= i
           new == [list[i] EXCEPT !.changes = Append(@, c)]
<1>1. n \in Nat /\ DOMAIN list = 1..n
  OBVIOUS
<1>2. runs \in SUBSET (1..n) /\ \A a \in runs : list[a].op = "run"
  BY <1>1 DEF RunsFor
<1>3. u = [list EXCEPT ![i] = new]
  BY DEF JoinedTo
<1>4. i \in runs
  <2> HIDE DEF n
  <2>1. \E x \in runs : \A j \in runs : j <= x
    BY <1>1, <1>2, LatestIs
  <2> QED BY <2>1
<1> HIDE DEF i, n
<1>5. list[i] \in RunSet
  <2>1. i \in DOMAIN list /\ list[i].op = "run"
    BY <1>1, <1>2, <1>4
  <2>2. list[i] \in Entry
    BY <2>1
  <2> QED BY <2>1, <2>2, ChangeIs DEF Entry
<1>6. new \in RunSet
  <2> DEFINE changes == list[i].changes
  <2>1. changes \in Seq(SparseChange)
    BY <1>5 DEF RunSet
  <2>2. Append(changes, c) \in Seq(SparseChange)
    BY <2>1
  <2> HIDE DEF changes
  <2>3. new = [list[i] EXCEPT !.changes = Append(changes, c)]
    BY DEF changes
  <2> QED BY <1>5, <2>2, <2>3 DEF RunSet
<1> HIDE DEF new
<1>7. i \in DOMAIN list /\ new \in Entry
  BY <1>1, <1>2, <1>4, <1>6 DEF Entry
<1> QED BY <1>3, <1>6, <1>7

(* Logging a change leaves the log with runs and changes that were logged.  *)
LEMMA LoggedIs ==
  ASSUME NEW log, NEW n \in Nat, DOMAIN log = 1..n, SpawnsOnce(log), NEW k \in Nat, k + 1 \in 1..n,
         log[k + 1] \in Changes(Entity),
         NEW list, LoggedFrom(list, log, k), NEW u, u = Logged(list, log[k + 1])
  PROVE  LoggedFrom(u, log, k + 1)
<1> DEFINE c == log[k + 1]
           runs == RunsFor(list, c)
           m == Len(list)
<1>0. /\ list \in Seq(Entry)
      /\ \A a \in DOMAIN list : list[a] \in RunSet \/ \E i \in 1..k : list[a] = log[i]
      /\ \A a, b \in DOMAIN list : a # b /\ list[a].op = "spawn" /\ list[b].op = "spawn" =>
           list[a].entity # list[b].entity
  BY DEF LoggedFrom
<1>1. m \in Nat /\ DOMAIN list = 1..m
  BY <1>0
<1>2. \A r \in RunSet : r.op = "run"
  BY DEF RunSet
<1>3. \A i \in 1..k : i \in 1..k + 1 /\ i \in 1..n /\ i # k + 1
  OBVIOUS
<1>4. CASE IsSparseChange(c) /\ runs # {}
  <2>1. c \in SparseChange
    BY <1>4 DEF SparseChange
  <2>2. u = JoinedTo(list, c, runs)
    BY <1>4 DEF Logged
  <2> HIDE DEF c, runs
  <2>3. /\ u \in Seq(Entry) /\ DOMAIN u = DOMAIN list
        /\ \A a \in DOMAIN list : u[a] = list[a] \/ u[a] \in RunSet
    BY <1>0, <1>4, <2>1, <2>2, JoinedIs DEF runs
  <2>4. ASSUME NEW a \in DOMAIN u PROVE u[a] \in RunSet \/ \E i \in 1..k + 1 : u[a] = log[i]
    BY <1>0, <1>3, <2>3
  <2>5. ASSUME NEW a \in DOMAIN u, NEW b \in DOMAIN u, a # b, u[a].op = "spawn", u[b].op = "spawn"
        PROVE  u[a].entity # u[b].entity
    <3>1. u[a] = list[a] /\ u[b] = list[b]
      BY <1>2, <2>3, <2>5
    <3> QED BY <1>0, <2>3, <2>5, <3>1
  <2> QED BY <2>3, <2>4, <2>5 DEF LoggedFrom
<1>5. CASE ~(IsSparseChange(c) /\ runs # {})
  <2>1. \E x : u = Append(list, x) /\ (x = c \/ x \in RunSet)
    <3>1. CASE ~IsSparseChange(c)
      BY <3>1 DEF Logged
    <3>2. CASE IsSparseChange(c) /\ runs = {}
      <4>1. u = Append(list, RunOf(c))
        BY <3>2 DEF Logged, JoinedTo
      <4>2. c \in SparseChange /\ c.component \in SparseComponents
        BY <3>2 DEF SparseChange, IsSparseChange
      <4>3. <<c>> \in Seq(SparseChange)
        BY <4>2
      <4>4. RunOf(c) \in RunSet
        BY <4>2, <4>3 DEF RunOf, RunSet
      <4> QED BY <4>1, <4>4
    <3> QED BY <1>5, <3>1, <3>2
  <2>2. PICK x : u = Append(list, x) /\ (x = c \/ x \in RunSet)
    BY <2>1
  <2>3. x \in Entry
    BY <2>2 DEF Entry
  <2> HIDE DEF c, m
  <2>4. u \in Seq(Entry) /\ DOMAIN u = 1..m + 1 /\ u[m + 1] = x /\ \A a \in 1..m : u[a] = list[a]
    <3>1. Len(list) = m
      BY DEF m
    <3> QED BY <1>0, <1>1, <2>2, <2>3, <3>1
  <2>5. \A a \in 1..m + 1 : a \in 1..m \/ a = m + 1
    BY <1>1
  <2>6. ASSUME NEW a \in DOMAIN u PROVE u[a] \in RunSet \/ \E i \in 1..k + 1 : u[a] = log[i]
    <3>1. CASE a = m + 1
      BY <2>2, <2>4, <3>1 DEF c
    <3>2. CASE a \in 1..m
      BY <1>0, <1>1, <1>3, <2>4, <3>2
    <3> QED BY <2>4, <2>5, <3>1, <3>2
  <2>7. ASSUME NEW a \in 1..m, u[a].op = "spawn", x.op = "spawn"
        PROVE  u[a].entity # x.entity
    <3>1. x = log[k + 1] /\ log[k + 1].op = "spawn"
      BY <1>2, <2>2, <2>7 DEF c
    <3>2. u[a] = list[a] /\ list[a] \notin RunSet
      BY <1>2, <2>4, <2>7
    <3>3. PICK i \in 1..k : list[a] = log[i]
      BY <1>0, <1>1, <3>2
    <3>4. i \in DOMAIN log \ {k + 1}
      BY <1>3
    <3> QED BY <3>1, <3>2, <3>3, <3>4 DEF SpawnsOnce
  <2>8. ASSUME NEW a \in DOMAIN u, NEW b \in DOMAIN u, a # b, u[a].op = "spawn", u[b].op = "spawn"
        PROVE  u[a].entity # u[b].entity
    <3>1. CASE a \in 1..m /\ b \in 1..m
      BY <1>0, <1>1, <2>4, <2>8, <3>1
    <3>2. CASE a = m + 1 /\ b \in 1..m
      BY <2>4, <2>7, <2>8, <3>2
    <3>3. CASE a \in 1..m /\ b = m + 1
      BY <2>4, <2>7, <2>8, <3>3
    <3> QED BY <2>4, <2>5, <2>8, <3>1, <3>2, <3>3
  <2> QED BY <2>4, <2>6, <2>8 DEF LoggedFrom
<1> QED BY <1>4, <1>5

(* A log of changes, each spawn of another entity than the others are to.  *)
IsLog(log) == log \in Seq(Changes(Entity)) /\ SpawnsOnce(log)

(* A log that was batched has runs and the changes that are not in any,     *)
(* with each spawn once.                                                    *)
LEMMA LogAllIs ==
  ASSUME NEW log, IsLog(log), NEW list, list = LogAll(log)
  PROVE  LoggedFrom(list, log, Len(log))
<1> DEFINE n == Len(log)
<1>1. n \in Nat /\ DOMAIN log = 1..n /\ \A k \in 1..n : log[k] \in Changes(Entity)
  BY DEF IsLog
<1> HIDE DEF n
<1>2. \E f : LoggedSteps(f, log, n)
  BY <1>1, FoldLogged
<1>3. PICK f : /\ f[0] = <<>>
               /\ \A k \in 1..n : f[k] = Logged(f[k - 1], log[k])
               /\ list = f[n]
  BY <1>2 DEF LoggedSteps
<1> DEFINE Good(k) == LoggedFrom(f[k], log, k)
           T == {k \in Nat : k <= n => Good(k)}
<1>4. 0 \in T
  <2>1. <<>> \in Seq(Entry) /\ DOMAIN <<>> = {}
    OBVIOUS
  <2>2. LoggedFrom(<<>>, log, 0)
    BY <2>1 DEF LoggedFrom
  <2> QED BY <1>3, <2>2
<1>5. ASSUME NEW k \in Nat, k \in T PROVE k + 1 \in T
  <2> SUFFICES ASSUME k + 1 <= n PROVE Good(k + 1)
    <3> HIDE DEF Good
    <3> QED OBVIOUS
  <2>1. LoggedFrom(f[k], log, k)
    <3>1. k <= n
      BY <1>1
    <3> QED BY <1>5, <3>1
  <2>2. k + 1 \in 1..n /\ k + 1 - 1 = k
    BY <1>1
  <2>3. f[k + 1] = Logged(f[k], log[k + 1]) /\ log[k + 1] \in Changes(Entity)
    BY <1>1, <1>3, <2>2
  <2> QED BY <1>1, <2>1, <2>2, <2>3, LoggedIs DEF IsLog
<1>6. Good(n)
  <2> HIDE DEF T, Good
  <2>1. n \in T
    BY <1>1, <1>4, <1>5, ByInduction
  <2> QED BY <1>1, <2>1 DEF T
<1> QED BY <1>3, <1>6 DEF n

-----------------------------------------------------------------------------
(* A log is made, and re-sorting.                                           *)

(* The changes of a log are made, and so each spawn finds its slot.        *)
AllReady(s, list, k) ==
  \A b \in DOMAIN list : b > k /\ list[b].op = "spawn" => Ready(s, list[b].entity)

(* A change leaves the slots of the spawns that come after it in the log    *)
(* reserved for them.                                                       *)
LEMMA StillReady ==
  ASSUME NEW s, NEW d \in Nat, OK(s, d), NEW list, NEW log, NEW n, LoggedFrom(list, log, n),
         \A i \in 1..n : log[i] \in Changes(Entity),
         NEW k \in Nat, k + 1 \in DOMAIN list, AllReady(s, list, k),
         NEW u, Kept(u, s, d, SpawnOf(list[k + 1]))
  PROVE  AllReady(u, list, k + 1)
<1> SUFFICES ASSUME NEW b \in DOMAIN list, b > k + 1, list[b].op = "spawn" PROVE Ready(u, list[b].entity)
  BY DEF AllReady
<1> DEFINE e == list[b].entity
           c == list[k + 1]
<1>0. /\ list \in Seq(Entry)
      /\ \A a \in DOMAIN list : list[a] \in RunSet \/ \E i \in 1..n : list[a] = log[i]
      /\ \A x, y \in DOMAIN list : x # y /\ list[x].op = "spawn" /\ list[y].op = "spawn" =>
           list[x].entity # list[y].entity
  BY DEF LoggedFrom
<1>1. DOMAIN list \subseteq Nat
  BY <1>0
<1>2. b > k /\ b # k + 1
  BY <1>1
<1>3. Ready(s, e)
  BY <1>2 DEF AllReady
<1>4. ASSUME NEW x \in DOMAIN list, list[x].op = "spawn" PROVE list[x] \in Changes(Entity)
  <2>1. list[x] \notin RunSet
    BY <1>4 DEF RunSet
  <2> QED BY <1>0, <2>1
<1>5. e \in Entity
  BY <1>4, ChangeIs
<1>6. e.index \notin SpawnOf(c)
  <2>1. CASE c.op # "spawn"
    BY <2>1 DEF SpawnOf
  <2>2. CASE c.op = "spawn"
    <3>1. c.entity \in Entity /\ Ready(s, c.entity) /\ c.entity # e
      <4>1. c \in Changes(Entity)
        BY <1>4, <2>2
      <4>2. k + 1 > k
        OBVIOUS
      <4>3. Ready(s, c.entity)
        BY <2>2, <4>2 DEF AllReady
      <4> QED BY <1>0, <1>2, <2>2, <4>1, <4>3, ChangeIs
    <3> HIDE DEF c, e
    <3>2. c.entity.index # e.index
      BY <1>3, <1>5, <3>1 DEF Ready, Entity
    <3> QED BY <2>2, <3>2 DEF SpawnOf
  <2> QED BY <2>1, <2>2
<1> HIDE DEF e, c
<1>7. SlotsKept(u, s, SpawnOf(c)) /\ e.index \in Index
  BY <1>5 DEF Kept, c, Entity
<1>8. Ready(u, e)
  BY <1>3, <1>6, <1>7 DEF SlotsKept, Ready
<1> QED BY <1>8 DEF e

(* Making a log's changes keeps a store whole, if each spawn's slot was     *)
(* reserved.                                                                *)
LEMMA MakeAllIs ==
  ASSUME NEW s, NEW d \in Nat, OK(s, d), NEW log, IsLog(log),
         \A i \in DOMAIN log : log[i].op = "spawn" => Ready(s, log[i].entity),
         NEW u, u = MakeAll(s, LogAll(log))
  PROVE  OK(u, d) /\ Carries(u, s)
<1> DEFINE list == LogAll(log)
           n == Len(list)
           m == Len(log)
<1> HIDE DEF list
<1>1. LoggedFrom(list, log, m)
  BY LogAllIs DEF list
<1>2. list \in Seq(Entry) /\ m \in Nat /\ DOMAIN log = 1..m /\ \A i \in 1..m : log[i] \in Changes(Entity)
  BY <1>1 DEF LoggedFrom, IsLog
<1>3. n \in Nat /\ DOMAIN list = 1..n /\ \A k \in 1..n : list[k] \in Entry
  BY <1>2
<1> HIDE DEF n, m
<1>4. AllReady(s, list, 0)
  <2> SUFFICES ASSUME NEW b \in DOMAIN list, list[b].op = "spawn" PROVE Ready(s, list[b].entity)
    BY DEF AllReady
  <2>1. list[b] \notin RunSet
    BY DEF RunSet
  <2>2. \E i \in 1..m : list[b] = log[i]
    BY <1>1, <2>1 DEF LoggedFrom
  <2> QED BY <1>2, <2>2
<1>5. \E f : MadeAllSteps(f, s, list, n)
  BY <1>3, FoldMadeAll
<1>6. PICK f : /\ f[0] = s
               /\ \A k \in 1..n : f[k] = MadeAll(f[k - 1], list[k])
               /\ u = f[n]
  BY <1>5 DEF MadeAllSteps, list
<1> DEFINE Good(k) == OK(f[k], d) /\ AllReady(f[k], list, k) /\ Carries(f[k], s)
           T == {k \in Nat : k <= n => Good(k)}
<1>7. 0 \in T
  <2>1. Carries(s, s)
    BY DEF Carries, SameSorted
  <2> QED BY <1>4, <1>6, <2>1
<1>8. ASSUME NEW k \in Nat, k \in T PROVE k + 1 \in T
  <2> SUFFICES ASSUME k + 1 <= n PROVE Good(k + 1)
    <3> HIDE DEF Good
    <3> QED OBVIOUS
  <2>1. OK(f[k], d) /\ AllReady(f[k], list, k) /\ Carries(f[k], s)
    <3>1. k <= n
      BY <1>3
    <3> QED BY <1>8, <3>1
  <2>2. k + 1 \in 1..n /\ k + 1 - 1 = k /\ k + 1 > k
    BY <1>3
  <2> DEFINE c == list[k + 1]
  <2>3. f[k + 1] = MadeAll(f[k], c) /\ c \in Entry /\ (c.op = "spawn" => Ready(f[k], c.entity))
    <3>1. f[k + 1] = MadeAll(f[k + 1 - 1], list[k + 1])
      BY <1>6, <2>2
    <3>2. list[k + 1] \in Entry /\ k + 1 \in DOMAIN list
      BY <1>3, <2>2
    <3>3. list[k + 1].op = "spawn" => Ready(f[k], list[k + 1].entity)
      BY <2>1, <2>2, <3>2 DEF AllReady
    <3> QED BY <2>2, <3>1, <3>2, <3>3
  <2> HIDE DEF c
  <2>4. Kept(f[k + 1], f[k], d, SpawnOf(c))
    BY <2>1, <2>3, MadeAllIs
  <2>5. AllReady(f[k + 1], list, k + 1)
    BY <1>1, <1>2, <1>3, <2>1, <2>2, <2>4, StillReady DEF c
  <2>6. Carries(f[k + 1], s)
    BY <2>1, <2>4, CarriesTwice DEF Kept
  <2> QED BY <2>4, <2>5, <2>6 DEF Kept
<1>9. Good(n)
  <2> HIDE DEF T, Good
  <2>1. n \in T
    BY <1>3, <1>7, <1>8, ByInduction
  <2> QED BY <1>3, <2>1 DEF T
<1> QED BY <1>6, <1>9

-----------------------------------------------------------------------------
(* A re-sort: a table has the rows it had, each where it now is.           *)
HasIn(table, p, r) == p \in DOMAIN table.rows /\ r \in DOMAIN table.rows[p]
SameContents(u, table, t) ==
  /\ IsTable(u, t) /\ Distinct(u.rows) /\ ~u.dirty /\ (~table.dirty => u = table)
  /\ \A p, r : HasIn(u, p, r) => \E q, m : HasIn(table, q, m) /\ u.rows[p][r] = table.rows[q][m]
  /\ \A q, m : HasIn(table, q, m) => \E p, r : HasIn(u, p, r) /\ u.rows[p][r] = table.rows[q][m]

(* A re-sorted table has the rows that it had.                              *)
LEMMA ContentsOf ==
  ASSUME NEW t, NEW table, IsTable(table, t), Distinct(table.rows), NEW b \in Nat, NEW tick \in Nat,
         NEW u, u = Resorted(table, b, tick)
  PROVE  SameContents(u, table, t)
<1> DEFINE v == Keyed(table, b, tick)
<1>1. IsTable(u, t) /\ ~u.dirty /\ (~table.dirty => u = table)
  BY ResortedIs
<1>2. CASE ~table.dirty
  BY <1>1, <1>2 DEF SameContents
<1>3. CASE table.dirty
  <2>1. v.rows = table.rows /\ Permuted(u, v)
    BY <1>3, ResortedIs
  <2> HIDE DEF v
  <2>2. ASSUME NEW p, NEW r, HasIn(u, p, r)
        PROVE  \E q, m : HasIn(table, q, m) /\ u.rows[p][r] = table.rows[q][m]
    <3>1. <<p, r>> \in Places(u.rows)
      BY <2>2, PlacesAre DEF HasIn
    <3>2. PICK a \in Places(v.rows) : IsOf(u, p, r, v, a)
      BY <2>1, <3>1 DEF Permuted
    <3>3. HasIn(table, a[1], a[2]) /\ u.rows[p][r] = table.rows[a[1]][a[2]]
      BY <2>1, <3>2, PlacesAre DEF IsOf, HasIn, PlaceOf
    <3> QED BY <3>3
  <2>3. ASSUME NEW q, NEW m, HasIn(table, q, m)
        PROVE  \E p, r : HasIn(u, p, r) /\ u.rows[p][r] = table.rows[q][m]
    <3>1. <<q, m>> \in Places(v.rows)
      BY <2>1, <2>3, PlacesAre DEF HasIn
    <3>2. PICK x \in Places(u.rows) : IsOf(u, x[1], x[2], v, <<q, m>>)
      BY <2>1, <3>1 DEF Permuted
    <3>3. HasIn(u, x[1], x[2]) /\ u.rows[x[1]][x[2]] = table.rows[q][m]
      BY <2>1, <3>2, PlacesAre DEF IsOf, HasIn, PlaceOf
    <3> QED BY <3>3
  <2> QED BY <1>1, <1>3, <2>1, <2>2, <2>3 DEF SameContents, Permuted
<1> QED BY <1>2, <1>3

(* What a re-sort does to a store.                                         *)
Moved(s, u) ==
  UNION {PlacesIn(u.tables[t], t) : t \in {t \in DOMAIN u.tables : s.tables[t].dirty}}
ResortedStore(u, s) ==
  /\ DOMAIN u = StoreFields /\ SameSets(u, s) /\ SameIds(u, s) /\ SameTime(u, s)
  /\ DOMAIN u.tables = DOMAIN s.tables
  /\ \A t \in DOMAIN s.tables : u.tables[t] = Resorted(s.tables[t], build, s.tick)
  /\ DOMAIN u.locations = Index
  /\ \A i \in Index : u.locations[i] =
       IF \E m \in Moved(s, u) : m.index = i
       THEN (CHOOSE m \in Moved(s, u) : m.index = i).at ELSE s.locations[i]

(* What a re-sort does to a store's parts.                                  *)
LEMMA ResortedStoreIs ==
  ASSUME NEW s, IsStore(s), NEW u, u = Resort(s)
  PROVE  ResortedStore(u, s)
<1> DEFINE tables == [t \in DOMAIN s.tables |-> Resorted(s.tables[t], build, s.tick)]
           moved == UNION {PlacesIn(tables[t], t) : t \in {t \in DOMAIN tables : s.tables[t].dirty}}
<1>1. u = Replace(s, tables, moved)
  BY DEF Resort
<1> HIDE DEF moved
<1>2. /\ DOMAIN u = StoreFields /\ SameSets(u, s) /\ SameIds(u, s) /\ SameTime(u, s)
      /\ u.tables = tables
      /\ u.locations = [i \in Index |->
           IF \E m \in moved : m.index = i THEN (CHOOSE m \in moved : m.index = i).at ELSE s.locations[i]]
  BY <1>1 DEF Replace, IsStore, StoreFields, SameSets, SameIds, SameTime
<1>3. moved = Moved(s, u)
  BY <1>2 DEF moved, Moved
<1> QED BY <1>2, <1>3 DEF ResortedStore

(* Who is told of a new place is who has a row in a re-sorted table.        *)
LEMMA MovedAre ==
  ASSUME NEW s, NEW u, NEW m
  PROVE  m \in Moved(s, u) <=>
           \E t, p, r : /\ HasRow(u, t, p, r) /\ s.tables[t].dirty
                        /\ m = [index |-> RowAt(u, t, p, r).index, at |-> Placed(t, p, r)]
BY DEF Moved, PlacesIn, HasRow, RowAt

(* A re-sort tells every entity it moves, and no one else, a new place:     *)
(* Resort::run.                                                             *)
LEMMA ResortIs ==
  ASSUME NEW s, IsStore(s), Rowed(s, {}), build \in Nat, NEW u, u = Resort(s)
  PROVE  IsStore(u) /\ Rowed(u, {}) /\ SameSets(u, s) /\ SameLife(u, s)
<1>1. ResortedStore(u, s)
  BY ResortedStoreIs
<1>2. ASSUME NEW t \in DOMAIN s.tables PROVE SameContents(u.tables[t], s.tables[t], t)
  <2>1. IsTable(s.tables[t], t) /\ s.tick \in Nat
    BY DEF IsStore
  <2>2. Distinct(s.tables[t].rows)
    BY RowsDistinct DEF Rowed
  <2> QED BY <1>1, <2>1, <2>2, ContentsOf DEF ResortedStore
<1>3. DOMAIN u.tables = DOMAIN s.tables
  BY <1>1 DEF ResortedStore
<1>4. IsStore(u)
  <2>1. \A t \in DOMAIN s.tables : IsTable(u.tables[t], t)
    BY <1>2 DEF SameContents
  <2>2. u.tick = s.tick /\ u.stamp = s.stamp /\ u.deaths = s.deaths /\ u.generations = s.generations
        /\ u.sets = s.sets /\ u.locked = s.locked
    BY <1>1 DEF ResortedStore, SameSets, SameIds, SameTime
  <2> QED BY <1>1, <1>3, <2>1, <2>2 DEF IsStore, ResortedStore
<1>5. ASSUME NEW t, NEW p, NEW r, HasRow(u, t, p, r)
      PROVE  \E q, m : HasRow(s, t, q, m) /\ RowAt(s, t, q, m) = RowAt(u, t, p, r)
  <2>1. t \in DOMAIN s.tables /\ HasIn(u.tables[t], p, r)
    BY <1>3, <1>5 DEF HasRow, HasIn
  <2>2. SameContents(u.tables[t], s.tables[t], t)
    BY <1>2, <2>1
  <2>3. \E q, m : HasIn(s.tables[t], q, m) /\ u.tables[t].rows[p][r] = s.tables[t].rows[q][m]
    BY <2>1, <2>2 DEF SameContents
  <2> QED BY <2>1, <2>3 DEF HasRow, HasIn, RowAt
<1>6. ASSUME NEW t, NEW q, NEW m, HasRow(s, t, q, m)
      PROVE  \E p, r : HasRow(u, t, p, r) /\ RowAt(u, t, p, r) = RowAt(s, t, q, m)
  <2>1. t \in DOMAIN s.tables /\ HasIn(s.tables[t], q, m)
    BY <1>6 DEF HasRow, HasIn
  <2>2. SameContents(u.tables[t], s.tables[t], t)
    BY <1>2, <2>1
  <2>3. \E p, r : HasIn(u.tables[t], p, r) /\ u.tables[t].rows[p][r] = s.tables[t].rows[q][m]
    BY <2>1, <2>2 DEF SameContents
  <2> QED BY <1>3, <2>1, <2>3 DEF HasRow, HasIn, RowAt
<1>7. ASSUME NEW t, NEW p, NEW r, HasRow(u, t, p, r)
      PROVE  /\ RowAt(u, t, p, r).index \in Index
             /\ s.generations[RowAt(u, t, p, r).index] = RowAt(u, t, p, r).generation
             /\ \E q, m : s.locations[RowAt(u, t, p, r).index] = Placed(t, q, m)
  <2>1. PICK q, m : HasRow(s, t, q, m) /\ RowAt(s, t, q, m) = RowAt(u, t, p, r)
    BY <1>5, <1>7
  <2>2. RowAt(u, t, p, r).index \in Index
    BY <2>1, RowIs
  <2> QED BY <2>1, <2>2 DEF Rowed, Located
<1>8. ASSUME NEW t, NEW p, NEW r, HasRow(u, t, p, r),
             NEW t2, NEW p2, NEW r2, HasRow(u, t2, p2, r2),
             RowAt(u, t2, p2, r2).index = RowAt(u, t, p, r).index
      PROVE  t2 = t /\ p2 = p /\ r2 = r
  <2>1. t2 = t
    BY <1>7, <1>8, PlacedIs
  <2>2. t \in DOMAIN s.tables /\ p \in DOMAIN u.tables[t].rows /\ r \in DOMAIN u.tables[t].rows[p]
        /\ p2 \in DOMAIN u.tables[t].rows /\ r2 \in DOMAIN u.tables[t].rows[p2]
    BY <1>3, <1>8, <2>1 DEF HasRow
  <2>3. <<p, r>> \in Places(u.tables[t].rows) /\ <<p2, r2>> \in Places(u.tables[t].rows)
    BY <2>2, PlacesAre
  <2>4. Distinct(u.tables[t].rows)
    BY <1>2, <2>2 DEF SameContents
  <2>5. u.tables[t].rows[p][r].index = u.tables[t].rows[p2][r2].index
    BY <1>8, <2>1 DEF RowAt
  <2>6. <<p, r>> = <<p2, r2>>
    BY <2>3, <2>4, <2>5 DEF Distinct
  <2> QED BY <2>1, <2>6
<1>9. ASSUME NEW t, NEW p, NEW r, HasRow(u, t, p, r)
      PROVE  u.locations[RowAt(u, t, p, r).index] = Placed(t, p, r)
  <2> DEFINE i == RowAt(u, t, p, r).index
             a == [index |-> i, at |-> Placed(t, p, r)]
  <2>1. i \in Index
    BY <1>7, <1>9
  <2>2. ASSUME NEW m \in Moved(s, u), m.index = i PROVE m = a /\ s.tables[t].dirty
    <3>1. PICK t2, p2, r2 : /\ HasRow(u, t2, p2, r2) /\ s.tables[t2].dirty
                            /\ m = [index |-> RowAt(u, t2, p2, r2).index, at |-> Placed(t2, p2, r2)]
      BY MovedAre
    <3>2. RowAt(u, t2, p2, r2).index = i
      BY <2>2, <3>1
    <3>3. t2 = t /\ p2 = p /\ r2 = r
      BY <1>8, <1>9, <3>1, <3>2
    <3> QED BY <3>1, <3>3
  <2>3. CASE s.tables[t].dirty
    <3>1. a \in Moved(s, u)
      BY <1>9, <2>3, MovedAre
    <3>2. a.index = i /\ a.at = Placed(t, p, r)
      OBVIOUS
    <3> HIDE DEF a, i
    <3>3. (CHOOSE m \in Moved(s, u) : m.index = i) = a
      BY <2>2, <3>1, <3>2
    <3>4. u.locations[i] = (CHOOSE m \in Moved(s, u) : m.index = i).at
      BY <1>1, <2>1, <3>1, <3>2 DEF ResortedStore
    <3> QED BY <3>2, <3>3, <3>4 DEF i
  <2>4. CASE ~s.tables[t].dirty
    <3>1. ~\E m \in Moved(s, u) : m.index = i
      BY <2>2, <2>4
    <3>2. u.locations[i] = s.locations[i]
      <4> HIDE DEF i
      <4> QED BY <1>1, <2>1, <3>1 DEF ResortedStore
    <3>3. t \in DOMAIN s.tables /\ u.tables[t] = s.tables[t]
      BY <1>2, <1>3, <1>9, <2>4 DEF HasRow, SameContents
    <3>4. HasRow(s, t, p, r) /\ RowAt(s, t, p, r) = RowAt(u, t, p, r)
      BY <1>9, <3>3 DEF HasRow, RowAt
    <3> QED BY <3>2, <3>4 DEF Rowed, Located
  <2> QED BY <2>3, <2>4
<1>10. Located(u, {})
  BY <1>1, <1>7, <1>9 DEF Located, ResortedStore, SameIds
<1>11. ASSUME NEW i \in Index, Housed(s, i) PROVE Housed(u, i)
  <2>1. PICK t, q, m : HasRow(s, t, q, m) /\ RowAt(s, t, q, m).index = i
    BY <1>11 DEF Housed
  <2>2. PICK p, r : HasRow(u, t, p, r) /\ RowAt(u, t, p, r) = RowAt(s, t, q, m)
    BY <1>6, <2>1
  <2>3. u.locations[i] = Placed(t, p, r)
    BY <1>9, <2>1, <2>2
  <2> QED BY <2>1, <2>2, <2>3 DEF Housed
<1>12. ASSUME NEW i \in Index, s.locations[i] \in {Dead, Reserved} PROVE u.locations[i] = s.locations[i]
  <2>1. ASSUME NEW m \in Moved(s, u), m.index = i PROVE FALSE
    <3>1. PICK t, p, r : /\ HasRow(u, t, p, r)
                         /\ m = [index |-> RowAt(u, t, p, r).index, at |-> Placed(t, p, r)]
      BY MovedAre
    <3>2. RowAt(u, t, p, r).index = i
      BY <2>1, <3>1
    <3> QED BY <1>7, <1>12, <3>1, <3>2, PlacedIs
  <2> QED BY <1>1, <2>1 DEF ResortedStore
<1>13. Rowed(u, {})
  BY <1>10, <1>11, <1>12 DEF Rowed
<1>14. SameLife(u, s)
  <2>1. ASSUME NEW j \in Index PROVE u.locations[j] = Dead <=> s.locations[j] = Dead
    <3>1. CASE s.locations[j] \in {Dead, Reserved}
      BY <1>12, <3>1
    <3>2. CASE Housed(s, j)
      BY <1>11, <3>2, PlacedIs DEF Housed
    <3> QED BY <3>1, <3>2 DEF Rowed
  <2> QED BY <1>1, <2>1 DEF SameLife, ResortedStore
<1> QED BY <1>1, <1>4, <1>13, <1>14 DEF ResortedStore

(* A re-sort leaves no table to be re-sorted, and what is sound so, but    *)
(* for the tables that were to be left out and were not re-sorted.         *)
LEMMA ResortSound ==
  ASSUME NEW s, IsStore(s), Rowed(s, {}), build \in Nat, NEW u, u = Resort(s),
         NEW k, NEW some, Sound(s, k, some), NEW still,
         \A t \in some \intersect DOMAIN s.tables : ~s.tables[t].dirty => t \in still
  PROVE  Sound(u, k, still) /\ \A t \in DOMAIN u.tables : ~u.tables[t].dirty
<1>1. ResortedStore(u, s)
  BY ResortedStoreIs
<1>2. /\ DOMAIN u.tables = DOMAIN s.tables /\ u.tick = s.tick /\ u.stamp = s.stamp
      /\ \A t \in DOMAIN s.tables : u.tables[t] = Resorted(s.tables[t], build, s.tick)
      /\ s.tick \in Nat
  BY <1>1 DEF ResortedStore, SameTime, IsStore
<1>3. ASSUME NEW t \in DOMAIN s.tables
      PROVE  /\ SameContents(u.tables[t], s.tables[t], t) /\ u.tables[t].left = s.tables[t].left
             /\ IsKept(u.tables[t], t, u.tick, still) /\ IsFresh(u.tables[t], t, k)
  <2> DEFINE old == s.tables[t]
             new == u.tables[t]
  <2>1. IsTable(old, t) /\ Distinct(old.rows) /\ new = Resorted(old, build, s.tick)
    BY <1>2, RowsDistinct DEF IsStore, Rowed
  <2>2. /\ IsKept(old, t, s.tick, some) /\ IsFresh(old, t, k)
        /\ (t \in some /\ ~old.dirty => t \in still)
    BY DEF Sound
  <2> HIDE DEF old, new
  <2>3. SameContents(new, old, t)
    BY <1>2, <2>1, ContentsOf
  <2>4. /\ ~new.dirty /\ (~old.dirty => new = old) /\ new.left = old.left
        /\ old.dirty /\ AllMayKey(old) => AtRest(new) /\ AllMayKey(new) /\ new.sortedAt = s.tick
        /\ IsFresh(new, t, k)
    BY <1>2, <2>1, <2>2, ResortedKept
  <2>5. IsKept(new, t, u.tick, still)
    <3>1. CASE ~old.dirty
      BY <1>2, <2>2, <2>4, <3>1 DEF IsKept
    <3>2. CASE old.dirty
      <4>1. IsOrdered(t)
        BY <2>1, <3>2 DEF IsTable
      <4> QED BY <1>2, <2>2, <2>4, <3>2, <4>1 DEF IsKept
    <3> QED BY <3>1, <3>2
  <2> QED BY <2>3, <2>4, <2>5 DEF old, new
<1>4. ASSUME NEW t, NEW q, NEW m, HasRow(s, t, q, m)
      PROVE  \E p, r : HasRow(u, t, p, r) /\ RowAt(u, t, p, r) = RowAt(s, t, q, m)
  <2>1. t \in DOMAIN s.tables /\ HasIn(s.tables[t], q, m)
    BY <1>4 DEF HasRow, HasIn
  <2>2. \E p, r : HasIn(u.tables[t], p, r) /\ u.tables[t].rows[p][r] = s.tables[t].rows[q][m]
    BY <1>3, <2>1 DEF SameContents
  <2> QED BY <1>2, <2>1, <2>2 DEF HasRow, HasIn, RowAt
<1>5. Noticed(u, k)
  <2>1. \A t \in DOMAIN s.tables : IsWatched(t, k) =>
           t \in DOMAIN u.tables /\ u.tables[t].left = s.tables[t].left
    BY <1>2, <1>3
  <2>2. \A t, p, r : HasRow(s, t, p, r) /\ IsWatched(t, k) =>
           \E q, m : HasRow(u, t, q, m) /\ RowAt(u, t, q, m) = RowAt(s, t, p, r)
    BY <1>4
  <2>3. Noticed(s, k)
    BY DEF Sound
  <2>4. Stays(u, s, k)
    BY <2>1, <2>2 DEF Stays
  <2> QED BY <2>3, <2>4, NoticedStill
<1>6. \A t \in DOMAIN u.tables : ~u.tables[t].dirty
  BY <1>2, <1>3 DEF SameContents
<1> QED BY <1>2, <1>3, <1>5, <1>6 DEF Sound

-----------------------------------------------------------------------------

(* What keeps rows where slots say, sets and everyone's life keeps a store  *)
(* whole.                                                                   *)
LEMMA SameLifeOK ==
  ASSUME NEW s, NEW d, OK(s, d), NEW u, IsStore(u), Rowed(u, {}), SameSets(u, s), SameLife(u, s)
  PROVE  OK(u, d)
BY SameLifeIds, SameLifeSets DEF OK

(* The slots that were freed may be used.                                  *)
FreedIds(u, s) ==
  /\ u.next = s.next /\ u.generations = s.generations /\ u.locations = s.locations
  /\ u.free = s.free \o s.freed /\ u.freed = <<>>

(* Slots that were freed are free, none of them twice.                      *)
LEMMA FreedIdsOK ==
  ASSUME NEW s, NEW d, IdsOK(s, d), NEW u, FreedIds(u, s)
  PROVE  IdsOK(u, d)
<1> DEFINE a == s.free
           b == s.freed
           m == Len(a)
           n == Len(b)
<1>1. /\ u.next = s.next /\ u.generations = s.generations /\ u.locations = s.locations
      /\ u.free = a \o b /\ u.freed = <<>>
  BY DEF FreedIds
<1>2. /\ s.next \in 1..MaxIndex + 1
      /\ a \in Seq(Index) /\ b \in Seq(Index)
      /\ \A x, y \in DOMAIN a : a[x] = a[y] => x = y
      /\ \A x, y \in DOMAIN b : b[x] = b[y] => x = y
      /\ \A x \in DOMAIN a : \A y \in DOMAIN b : a[x] # b[y]
      /\ \A x \in DOMAIN a : s.locations[a[x]] = Dead /\ a[x] < s.next
      /\ \A x \in DOMAIN b : s.locations[b[x]] = Dead /\ b[x] < s.next
      /\ \A i \in Index : i >= s.next => s.locations[i] = Dead
      /\ \A i \in Index : s.generations[i] <= d + 1 /\ (s.locations[i] # Dead => s.generations[i] <= d)
  BY DEF IdsOK, IsInjective
<1> HIDE DEF a, b
<1>3. m \in Nat /\ n \in Nat /\ DOMAIN a = 1..m /\ DOMAIN b = 1..n
  BY <1>2
<1>4. /\ u.free \in Seq(Index) /\ DOMAIN u.free = 1..m + n
      /\ \A x \in 1..m + n : u.free[x] = IF x <= m THEN a[x] ELSE b[x - m]
  BY <1>1, <1>2
<1> HIDE DEF m, n
<1>5. ASSUME NEW x \in 1..m + n
      PROVE  \/ x \in 1..m /\ u.free[x] = a[x]
             \/ x - m \in 1..n /\ u.free[x] = b[x - m]
  BY <1>3, <1>4
<1>6. IsInjective(u.free)
  <2> SUFFICES ASSUME NEW x \in 1..m + n, NEW y \in 1..m + n, u.free[x] = u.free[y] PROVE x = y
    BY <1>4 DEF IsInjective
  <2>1. CASE x \in 1..m /\ u.free[x] = a[x] /\ y \in 1..m /\ u.free[y] = a[y]
    BY <1>2, <1>3, <2>1
  <2>2. CASE x \in 1..m /\ u.free[x] = a[x] /\ y - m \in 1..n /\ u.free[y] = b[y - m]
    BY <1>2, <1>3, <2>2
  <2>3. CASE x - m \in 1..n /\ u.free[x] = b[x - m] /\ y \in 1..m /\ u.free[y] = a[y]
    BY <1>2, <1>3, <2>3
  <2>4. CASE x - m \in 1..n /\ u.free[x] = b[x - m] /\ y - m \in 1..n /\ u.free[y] = b[y - m]
    <3>1. x - m = y - m
      BY <1>2, <1>3, <2>4
    <3> QED BY <1>3, <3>1
  <2> QED BY <1>5, <2>1, <2>2, <2>3, <2>4
<1>7. ASSUME NEW x \in 1..m + n PROVE s.locations[u.free[x]] = Dead /\ u.free[x] < s.next
  <2>1. CASE x \in 1..m /\ u.free[x] = a[x]
    BY <1>2, <1>3, <2>1
  <2>2. CASE x - m \in 1..n /\ u.free[x] = b[x - m]
    BY <1>2, <1>3, <2>2
  <2> QED BY <1>5, <2>1, <2>2
<1>8. u.freed \in Seq(Index) /\ DOMAIN u.freed = {} /\ IsInjective(u.freed)
  <2>1. <<>> \in Seq(Index) /\ DOMAIN <<>> = {}
    OBVIOUS
  <2> QED BY <1>1, <2>1 DEF IsInjective
<1>9. /\ \A x \in DOMAIN u.free : u.locations[u.free[x]] = Dead /\ u.free[x] < u.next
      /\ \A x \in DOMAIN u.freed : u.locations[u.freed[x]] = Dead /\ u.freed[x] < u.next
      /\ \A x \in DOMAIN u.free : \A y \in DOMAIN u.freed : u.free[x] # u.freed[y]
  BY <1>1, <1>4, <1>7, <1>8
<1>10. /\ u.next \in 1..MaxIndex + 1
       /\ \A i \in Index : i >= u.next => u.locations[i] = Dead
       /\ \A i \in Index : u.generations[i] <= d + 1 /\ (u.locations[i] # Dead => u.generations[i] <= d)
  BY <1>1, <1>2
<1> QED BY <1>4, <1>6, <1>8, <1>9, <1>10 DEF IdsOK

(* The tables of a store that was closed, in which none is to be re-sorted,*)
(* and those of some that were not.                                        *)
Closed(u, s) ==
  /\ DOMAIN u.tables = DOMAIN s.tables
  /\ \A t \in DOMAIN s.tables : ~s.tables[t].dirty => u.tables[t] = s.tables[t]
Clean(s) == s.stamp = 0 /\ \A t \in DOMAIN s.tables : ~s.tables[t].dirty
StillOf(u, s, some) == {t \in some : u.tables[t].sortedAt = s.tables[t].sortedAt}

(* A re-sort looks at no list of slots, and the slots are given back first. *)
LEMMA CloseInEitherOrder ==
  ASSUME NEW s, IsStore(s)
  PROVE  Close(s) = [Resort(s) EXCEPT !.free = @ \o s.freed, !.freed = <<>>, !.stamp = 0, !.locked = {}]
<1> DEFINE f == Freed(s)
           tables == [t \in DOMAIN s.tables |-> Resorted(s.tables[t], build, s.tick)]
           moved == UNION {PlacesIn(tables[t], t) : t \in {t \in DOMAIN tables : s.tables[t].dirty}}
<1>1. /\ DOMAIN f = StoreFields /\ f.tables = s.tables /\ f.tick = s.tick /\ f.locations = s.locations
      /\ f = [s EXCEPT !.free = s.free \o s.freed, !.freed = <<>>]
  BY DEF Freed, IsStore, StoreFields
<1>2. Resort(s) = Replace(s, tables, moved)
  BY DEF Resort
<1>3. Resort(f) = Replace(f, tables, moved)
  BY <1>1 DEF Resort
<1> DEFINE at == [i \in Index |-> IF \E m \in moved : m.index = i
                                  THEN (CHOOSE m \in moved : m.index = i).at ELSE s.locations[i]]
           w == Resort(s)
           v == Resort(f)
<1>4. w = [s EXCEPT !.tables = tables, !.locations = at]
  BY <1>2 DEF Replace
<1>5. v = [f EXCEPT !.tables = tables, !.locations = at]
  BY <1>1, <1>3 DEF Replace
<1> HIDE DEF f, tables, moved, at, w, v
<1>6. DOMAIN s = StoreFields /\ DOMAIN w = StoreFields /\ DOMAIN v = StoreFields
  BY <1>1, <1>4, <1>5 DEF IsStore
<1>7. w.free = s.free
  BY <1>4, <1>6 DEF StoreFields
<1>8. v = [w EXCEPT !.free = w.free \o s.freed, !.freed = <<>>]
  BY <1>1, <1>4, <1>5, <1>6, <1>7 DEF StoreFields
<1>9. Close(s) = [v EXCEPT !.stamp = 0, !.locked = {}]
  BY DEF Close, f, v
<1> QED BY <1>8, <1>9 DEF w

(* Closing a log puts in order every table that it marked: left out of      *)
(* order are those that were and that it did not mark (Structural::drop).   *)
LEMMA CloseSound ==
  ASSUME NEW s, NEW d, OK(s, d), build \in Nat, NEW u, u = Close(s),
         NEW k, NEW some, Sound(s, k, some), NEW still,
         \A t \in some \intersect DOMAIN s.tables : ~s.tables[t].dirty => t \in still
  PROVE  Sound(u, k, still) /\ Clean(u)
<1> DEFINE w == Resort(s)
<1>1. u = [w EXCEPT !.free = @ \o s.freed, !.freed = <<>>, !.stamp = 0, !.locked = {}]
  <2>1. IsStore(s)
    BY DEF OK
  <2> QED BY <2>1, CloseInEitherOrder, Zenon
<1>2. Sound(w, k, still) /\ \A t \in DOMAIN w.tables : ~w.tables[t].dirty
  BY ResortSound DEF OK
<1>3. DOMAIN w = StoreFields
  BY ResortedStoreIs DEF ResortedStore, OK
<1> HIDE DEF w
<1>4. u.tables = w.tables /\ u.tick = w.tick /\ u.stamp = 0
  BY <1>1, <1>3 DEF StoreFields
<1>5. Noticed(u, k)
  BY <1>2, <1>4 DEF Sound, Noticed, HasRow, RowAt
<1> QED BY <1>2, <1>4, <1>5 DEF Sound, Clean

(* A Structural's end keeps a store whole: Structural::drop.                *)
LEMMA CloseIs ==
  ASSUME NEW s, NEW d, OK(s, d), build \in Nat, NEW u, u = Close(s)
  PROVE  OK(u, d) /\ Closed(u, s)
<1> DEFINE w == Resort(s)
<1>1. u = [w EXCEPT !.free = @ \o s.freed, !.freed = <<>>, !.stamp = 0, !.locked = {}]
  <2>1. IsStore(s)
    BY DEF OK
  <2> QED BY <2>1, CloseInEitherOrder, Zenon
<1> HIDE DEF w
<1>2. IsStore(w) /\ Rowed(w, {}) /\ SameSets(w, s) /\ SameLife(w, s)
  BY ResortIs DEF w, OK
<1>3. OK(w, d)
  BY <1>2, SameLifeOK
<1>4. /\ DOMAIN u = StoreFields /\ u.free = w.free \o s.freed /\ u.freed = <<>> /\ u.stamp = 0 /\ u.locked = {}
      /\ u.next = w.next /\ u.generations = w.generations /\ u.locations = w.locations
      /\ u.tables = w.tables /\ u.sets = w.sets /\ u.deaths = w.deaths /\ u.tick = w.tick
  BY <1>1, <1>2 DEF IsStore, StoreFields
<1>5. FreedIds(u, w)
  BY <1>2, <1>4 DEF FreedIds, SameLife, SameIds
<1>6. IdsOK(u, d)
  BY <1>3, <1>5, FreedIdsOK DEF OK
<1>7. IsStore(u)
  BY <1>2, <1>4 DEF IsStore
<1>8. Rowed(u, {})
  <2>1. \A v, p, r : (HasRow(u, v, p, r) <=> HasRow(w, v, p, r)) /\ RowAt(u, v, p, r) = RowAt(w, v, p, r)
    BY <1>4 DEF HasRow, RowAt
  <2> QED BY <1>2, <1>4, <2>1, SameRows
<1>9. SetsOK(u)
  <2> SUFFICES ASSUME NEW c \in SparseComponents PROVE IsSet(w.sets[c]) /\ FewDead(u, w.sets[c])
    BY <1>4 DEF SetsOK
  <2> DEFINE set == w.sets[c]
  <2>1. IsSet(set) /\ FewDead(w, set)
    BY <1>3 DEF OK, SetsOK
  <2> HIDE DEF set
  <2>2. DeadIn(u, set) \subseteq DeadIn(w, set) /\ u.deaths = w.deaths /\ w.deaths \in Nat
    BY <1>2, <1>4 DEF DeadIn, Alive, IsStore
  <2>3. FewDead(u, set)
    BY <2>1, <2>2, FewerDead
  <2> QED BY <2>1, <2>3 DEF set
<1>10. Closed(u, s)
  <2>1. ResortedStore(w, s)
    BY ResortedStoreIs DEF w, OK
  <2>2. ASSUME NEW t \in DOMAIN s.tables, ~s.tables[t].dirty PROVE w.tables[t] = s.tables[t]
    <3>1. w.tables[t] = Resorted(s.tables[t], build, s.tick)
      BY <2>1 DEF ResortedStore
    <3> QED BY <2>2, <3>1 DEF Resorted
  <2> QED BY <1>4, <2>1, <2>2 DEF Closed, ResortedStore
<1> QED BY <1>6, <1>7, <1>8, <1>9, <1>10 DEF OK

(* Applying a log keeps a store whole: Engine::apply.                       *)
LEMMA ApplyLogIs ==
  ASSUME NEW s, NEW d \in Nat, OK(s, d), build \in Nat, NEW log, IsLog(log),
         \A i \in DOMAIN log : log[i].op = "spawn" => Ready(s, log[i].entity),
         NEW u, u = ApplyLog(s, log)
  PROVE  /\ OK(u, d)
         /\ \A k, some : some \subseteq DOMAIN s.tables /\ Sound(s, k, some)
                           => Sound(u, k, StillOf(u, s, some)) /\ Clean(u)
         /\ DOMAIN s.tables \subseteq DOMAIN u.tables
<1> DEFINE w == MakeAll(s, LogAll(log))
<1>1. OK(w, d) /\ Carries(w, s)
  BY MakeAllIs
<1>2. u = Close(w)
  BY DEF ApplyLog
<1> HIDE DEF w
<1>3. OK(u, d) /\ Closed(u, w)
  BY <1>1, <1>2, CloseIs
<1>4. ASSUME NEW k, NEW some \in SUBSET DOMAIN s.tables, Sound(s, k, some)
      PROVE  Sound(u, k, StillOf(u, s, some)) /\ Clean(u)
  <2>1. Sound(w, k, some)
    BY <1>1, <1>4 DEF Carries
  <2>2. ASSUME NEW t \in some \intersect DOMAIN w.tables, ~w.tables[t].dirty
        PROVE  t \in StillOf(u, s, some)
    <3>1. t \in DOMAIN s.tables /\ u.tables[t] = w.tables[t]
      BY <1>3, <1>4, <2>2 DEF Closed
    <3>2. w.tables[t].sortedAt = s.tables[t].sortedAt
      BY <1>1, <3>1 DEF Carries, SameSorted
    <3> QED BY <2>2, <3>1, <3>2 DEF StillOf
  <2> QED BY <1>1, <1>2, <2>1, <2>2, CloseSound
<1>5. DOMAIN s.tables \subseteq DOMAIN u.tables
  BY <1>1, <1>3 DEF Carries, SameSorted, Closed
<1> QED BY <1>3, <1>4, <1>5

(* A store that is whole after some steps is after one more.                *)
LEMMA LaterOK ==
  ASSUME NEW s, NEW d \in Nat, OK(s, d)
  PROVE  OK(s, d + 1)
<1>1. \A i \in Index : s.generations[i] \in Nat
  BY DEF OK, IsStore
<1>2. \A i \in Index : s.generations[i] <= d + 2 /\ (s.locations[i] # Dead => s.generations[i] <= d + 1)
  BY <1>1 DEF OK, IdsOK
<1>3. \A i \in Index : s.generations[i] <= d + 1 + 1
  BY <1>2
<1> QED BY <1>2, <1>3 DEF OK, IdsOK

-----------------------------------------------------------------------------
(* A write in place: cells and stamps of pages change, and no row.         *)
LEMMA MarkedIs ==
  ASSUME NEW page \in PageSet, NEW tick \in Nat, NEW u, u = Marked(page, tick)
  PROVE  u \in PageSet /\ u.cells = page.cells
<1>1. /\ page.cells \in Seq(CellSet) /\ page.written \in Nat /\ DOMAIN page = {"cells", "written"}
      /\ \A r \in DOMAIN page.cells : page.cells[r].tick <= page.written
  BY DEF PageSet
<1>2. CASE page.cells = <<>>
  BY <1>2 DEF Marked
<1>3. CASE page.cells # <<>>
  <2> DEFINE written == Greater(page.written, tick)
  <2>1. u = [page EXCEPT !.written = written]
    BY <1>3 DEF Marked
  <2>2. written \in Nat /\ page.written <= written
    BY <1>1 DEF Greater
  <2> HIDE DEF written
  <2>3. u = [cells |-> page.cells, written |-> written]
    BY <2>1 DEF PageSet
  <2>4. u.cells = page.cells /\ u.written = written /\ u \in [cells : Seq(CellSet), written : Nat]
    BY <1>1, <2>2, <2>3
  <2>5. \A r \in DOMAIN page.cells : page.cells[r].tick \in Nat
    <3>1. \A r \in DOMAIN page.cells : page.cells[r] \in CellSet
      BY <1>1
    <3> QED BY <3>1 DEF CellSet
  <2>6. \A r \in DOMAIN page.cells : page.cells[r].tick <= written
    BY <1>1, <2>2, <2>5
  <2> QED BY <2>4, <2>6 DEF PageSet
<1> QED BY <1>2, <1>3

(* Marking a column's pages leaves the rows.                                *)
LEMMA WrittenByIs ==
  ASSUME NEW t, NEW table, IsTable(table, t), NEW c, NEW tick \in Nat, NEW u, u = WrittenBy(table, c, tick)
  PROVE  IsTable(u, t) /\ SameCells(u, table, t)
<1>1. CASE c \notin t
  <2>1. u = table
    BY <1>1 DEF WrittenBy, ComponentsOf, IsTable
  <2> QED BY <2>1 DEF SameCells, SameStamps
<1>2. CASE c \in t
  <2> DEFINE old == table.columns[c]
             new == [p \in DOMAIN old |-> Marked(old[p], tick)]
             n == Len(old)
  <2>1. u = [table EXCEPT !.columns[c] = new]
    BY <1>2 DEF WrittenBy, ComponentsOf, IsTable
  <2>2. IsColumn(old, table.rows) /\ DOMAIN table.columns = t /\ DOMAIN table = TableFields
    BY <1>2 DEF IsTable
  <2> HIDE DEF old
  <2>3. /\ old \in Seq(PageSet) /\ DOMAIN old = DOMAIN table.rows
        /\ \A p \in DOMAIN old : Len(old[p].cells) = Len(table.rows[p])
    BY <2>2 DEF IsColumn
  <2>4. n \in Nat /\ DOMAIN old = 1..n /\ \A p \in 1..n : old[p] \in PageSet
    BY <2>3
  <2>5. \A p \in 1..n : Marked(old[p], tick) \in PageSet /\ Marked(old[p], tick).cells = old[p].cells
    BY <2>4, MarkedIs
  <2>6. new \in Seq(PageSet) /\ DOMAIN new = DOMAIN old /\ \A p \in DOMAIN old : new[p].cells = old[p].cells
    BY <2>4, <2>5
  <2> HIDE DEF new
  <2>7. IsColumn(new, table.rows)
    BY <2>3, <2>6 DEF IsColumn
  <2>8. /\ DOMAIN u = TableFields /\ u.rows = table.rows /\ u.keys = table.keys /\ u.dirty = table.dirty
        /\ u.columns = [table.columns EXCEPT ![c] = new] /\ SameStamps(u, table)
    BY <2>1, <2>2 DEF TableFields, SameStamps
  <2>9. DOMAIN u.columns = t /\ \A x \in t : u.columns[x] = IF x = c THEN new ELSE table.columns[x]
    BY <2>2, <2>8
  <2>10. IsTable(u, t)
    BY <2>7, <2>8, <2>9 DEF IsTable, SameStamps
  <2>11. ASSUME NEW x \in t, NEW p \in DOMAIN table.rows, NEW r \in DOMAIN table.rows[p]
         PROVE  u.columns[x][p].cells[r] = table.columns[x][p].cells[r]
    BY <2>3, <2>6, <2>9 DEF old
  <2> QED BY <2>8, <2>10, <2>11 DEF SameCells
<1> QED BY <1>1, <1>2

(* Putting a cell leaves the rows.                                          *)
LEMMA WithCellIs ==
  ASSUME NEW t, NEW table, IsTable(table, t), NEW c \in t, NEW at, NEW cell \in CellSet,
         at.page \in DOMAIN table.rows, at.row \in DOMAIN table.rows[at.page],
         NEW u, u = WithCell(table, c, at, cell)
  PROVE  /\ IsTable(u, t) /\ u.rows = table.rows
         /\ CellPut(u, table, c, at.page, at.row, cell) /\ u.dirty = table.dirty
<1>1. CellPut(u, table, c, at.page, at.row, cell) /\ u.dirty = table.dirty
  BY DEF WithCell, IsTable, TableFields, SameStamps, CellPut
<1>2. table.dirty \in BOOLEAN /\ (table.dirty => IsOrdered(t))
  BY DEF IsTable
<1>3. IsTable(u, t)
  BY <1>1, <1>2, PutColumnIs
<1> QED BY <1>1, <1>3 DEF CellPut

(* Tables change, and neither rows nor slots.                              *)
LEMMA TablesWritten ==
  ASSUME NEW s, NEW d, OK(s, d), NEW u, DOMAIN u = StoreFields, u.locations = s.locations,
         SameSets(u, s), SameIds(u, s), u.tick \in Nat, u.stamp \in Nat,
         DOMAIN u.tables = DOMAIN s.tables,
         \A t \in DOMAIN s.tables : IsTable(u.tables[t], t) /\ u.tables[t].rows = s.tables[t].rows
  PROVE  OK(u, d)
<1>1. IsStore(u)
  BY DEF OK, IsStore, SameSets, SameIds
<1>2. \A v, p, r : HasRow(u, v, p, r) <=> HasRow(s, v, p, r)
  BY DEF HasRow
<1>3. \A v, p, r : HasRow(s, v, p, r) => RowAt(u, v, p, r) = RowAt(s, v, p, r)
  BY DEF HasRow, RowAt
<1>4. Rowed(u, {})
  BY <1>2, <1>3, SameRows DEF OK, SameIds
<1>5. SameLife(u, s)
  BY DEF SameLife
<1> QED BY <1>1, <1>4, <1>5, SameLifeOK

(* What the tables are once a value of one was written.                    *)
Rewritten(u, s, at, c) ==
  /\ u.tick = s.tick + 1 /\ u.stamp = s.stamp /\ DOMAIN u.tables = DOMAIN s.tables
  /\ \A t \in DOMAIN s.tables \ {at.table} : SameCells(u.tables[t], s.tables[t], t)
  /\ \E v, cell : /\ SameCells(v, s.tables[at.table], at.table) /\ IsTable(v, at.table)
                  /\ cell.tick = u.tick /\ u.tables[at.table].dirty = v.dirty
                  /\ CellPut(u.tables[at.table], v, c, at.page, at.row, cell)

(* A write in place keeps a store whole.                                    *)
LEMMA WriteAtIs ==
  ASSUME NEW s, NEW d, OK(s, d), NEW at, HasRow(s, at.table, at.page, at.row), NEW c \in at.table,
         NEW v \in Int, NEW u, u = WriteAt(s, at, c, v)
  PROVE  OK(u, d) /\ Rewritten(u, s, at, c)
<1> DEFINE tick == s.tick + 1
           cell == Cell(v, tick)
           T == at.table
           marked == [t \in DOMAIN s.tables |-> WrittenBy(s.tables[t], c, cell.tick)]
           new == WithCell(marked[T], c, at, cell)
<1>1. /\ DOMAIN s = StoreFields /\ s.tick \in Nat /\ s.stamp \in Nat
      /\ \A t \in DOMAIN s.tables : IsTable(s.tables[t], t)
  BY DEF OK, IsStore
<1>2. /\ DOMAIN u = StoreFields /\ u.locations = s.locations /\ SameSets(u, s) /\ SameIds(u, s)
      /\ u.tick = tick /\ u.stamp = s.stamp
      /\ u.tables = AllWritten(s.tables, c, at, cell)
  BY <1>1 DEF WriteAt, StoreFields, SameSets, SameIds
<1>3. cell \in CellSet /\ cell.tick = tick
  BY <1>1 DEF Cell, CellSet
<1>10. u.tables = [marked EXCEPT ![T] = new]
  BY <1>2 DEF AllWritten
<1> HIDE DEF cell
<1>11. \A t \in DOMAIN s.tables : IsTable(marked[t], t) /\ SameCells(marked[t], s.tables[t], t)
  BY <1>1, <1>3, WrittenByIs
<1>4. \A t \in DOMAIN s.tables : IsTable(marked[t], t) /\ marked[t].rows = s.tables[t].rows
  BY <1>11 DEF SameCells
<1>5. T \in DOMAIN s.tables /\ at.page \in DOMAIN s.tables[T].rows /\ at.row \in DOMAIN s.tables[T].rows[at.page]
      /\ DOMAIN marked = DOMAIN s.tables
  BY DEF HasRow
<1> HIDE DEF marked, T
<1>6. /\ IsTable(new, T) /\ new.rows = marked[T].rows
      /\ CellPut(new, marked[T], c, at.page, at.row, cell) /\ new.dirty = marked[T].dirty
  BY <1>3, <1>4, <1>5, WithCellIs DEF T
<1> HIDE DEF new
<1>7. /\ DOMAIN u.tables = DOMAIN s.tables
      /\ \A t \in DOMAIN s.tables : u.tables[t] = IF t = T THEN new ELSE marked[t]
  BY <1>5, <1>10
<1>8. \A t \in DOMAIN s.tables : IsTable(u.tables[t], t) /\ u.tables[t].rows = s.tables[t].rows
  BY <1>4, <1>6, <1>7
<1>9. u.tick \in Nat /\ u.stamp \in Nat
  BY <1>1, <1>2
<1>12. OK(u, d)
  BY <1>2, <1>7, <1>8, <1>9, TablesWritten
<1>13. Rewritten(u, s, at, c)
  BY <1>2, <1>3, <1>5, <1>6, <1>7, <1>11 DEF Rewritten, T
<1> QED BY <1>12, <1>13

(* Saying that keys were written keeps a store whole.                       *)
LEMMA TouchedIs ==
  ASSUME NEW s, NEW d, OK(s, d), NEW u, u = Touched(s)
  PROVE  OK(u, d)
<1>1. /\ DOMAIN s = StoreFields /\ s.tick \in Nat /\ s.stamp \in Nat
      /\ \A t \in DOMAIN s.tables : IsTable(s.tables[t], t)
  BY DEF OK, IsStore
<1>2. /\ DOMAIN u = StoreFields /\ u.locations = s.locations /\ SameSets(u, s) /\ SameIds(u, s)
      /\ u.tick = s.tick /\ u.stamp = s.stamp /\ DOMAIN u.tables = DOMAIN s.tables
      /\ \A t \in DOMAIN s.tables : u.tables[t] = [s.tables[t] EXCEPT !.dirty = IsOrdered(t)]
  BY <1>1 DEF Touched, StoreFields, SameSets, SameIds
<1>3. ASSUME NEW t \in DOMAIN s.tables
      PROVE  IsTable(u.tables[t], t) /\ u.tables[t].rows = s.tables[t].rows
  <2> DEFINE old == s.tables[t]
             new == u.tables[t]
  <2>1. new = [old EXCEPT !.dirty = IsOrdered(t)] /\ IsTable(old, t)
    BY <1>1, <1>2
  <2> HIDE DEF old, new
  <2>2. /\ DOMAIN new = TableFields /\ new.rows = old.rows /\ new.columns = old.columns /\ new.keys = old.keys
        /\ SameStamps(new, old) /\ new.dirty = IsOrdered(t)
    BY <2>1 DEF IsTable, TableFields, SameStamps
  <2>3. IsOrdered(t) \in BOOLEAN
    BY DEF IsOrdered
  <2>4. IsTable(new, t)
    BY <2>1, <2>2, <2>3 DEF IsTable, SameStamps
  <2> QED BY <2>2, <2>4 DEF old, new
<1>4. u.tick \in Nat /\ u.stamp \in Nat
  BY <1>1, <1>2
<1> QED BY <1>2, <1>3, <1>4, TablesWritten

-----------------------------------------------------------------------------
(* What a row's write leaves.                                               *)

(* What is sound but for some tables is but for more.                      *)
LEMMA SoundMore ==
  ASSUME NEW s, NEW k, NEW some, Sound(s, k, some), NEW more, some \subseteq more
  PROVE  Sound(s, k, more)
BY DEF Sound, IsKept

(* A write leaves what a system is told all that has changed, and, if it   *)
(* is of a key, its table to be left out of those in order.                *)
LEMMA WriteSound ==
  ASSUME NEW s, IsStore(s), NEW at, HasRow(s, at.table, at.page, at.row), NEW c \in at.table,
         NEW u, Rewritten(u, s, at, c), NEW k, NEW some, Sound(s, k, some),
         NEW still, some \subseteq still, c = Key => at.table \in still
  PROVE  Sound(u, k, still)
<1> DEFINE T == at.table
<1>1. /\ u.tick = s.tick + 1 /\ u.stamp = s.stamp /\ DOMAIN u.tables = DOMAIN s.tables
      /\ \A t \in DOMAIN s.tables \ {T} : SameCells(u.tables[t], s.tables[t], t)
      /\ s.tick \in Nat /\ \A t \in DOMAIN s.tables : s.tables[t].sortedAt \in Nat
  BY DEF Rewritten, IsStore, IsTable
<1>2. /\ k.since \in Nat /\ k.since <= s.tick /\ (s.stamp = 0 \/ s.stamp > k.since) /\ Noticed(s, k)
      /\ \A t \in DOMAIN s.tables : IsKept(s.tables[t], t, s.tick, some) /\ IsFresh(s.tables[t], t, k)
  BY DEF Sound
<1>3. T \in DOMAIN s.tables /\ at.page \in DOMAIN s.tables[T].rows /\ at.row \in DOMAIN s.tables[T].rows[at.page]
  BY DEF HasRow
<1>4. ASSUME NEW t \in DOMAIN s.tables, t # T
      PROVE  /\ IsKept(u.tables[t], t, u.tick, still) /\ IsFresh(u.tables[t], t, k)
             /\ u.tables[t].rows = s.tables[t].rows /\ u.tables[t].left = s.tables[t].left
  <2> DEFINE old == s.tables[t]
             new == u.tables[t]
  <2>1. SameCells(new, old, t) /\ IsKept(old, t, s.tick, some) /\ IsFresh(old, t, k) /\ old.sortedAt \in Nat
    BY <1>1, <1>2, <1>4
  <2> HIDE DEF old, new
  <2>2. /\ IsFresh(new, t, k)
        /\ IsOrdered(t) /\ AllMayKey(old) => AllMayKey(new)
        /\ IsOrdered(t) /\ AtRest(old) => AtRest(new)
    BY <2>1, SameCellsKept
  <2>3. /\ new.rows = old.rows /\ new.left = old.left /\ new.sortedAt = old.sortedAt
        /\ new.dirty = old.dirty
    BY <2>1 DEF SameCells, SameStamps
  <2>4. IsKept(new, t, u.tick, still)
    BY <1>1, <2>1, <2>2, <2>3 DEF IsKept
  <2> QED BY <2>2, <2>3, <2>4 DEF old, new
<1>5. /\ IsKept(u.tables[T], T, u.tick, still) /\ IsFresh(u.tables[T], T, k)
      /\ u.tables[T].rows = s.tables[T].rows /\ u.tables[T].left = s.tables[T].left
  <2> DEFINE old == s.tables[T]
             new == u.tables[T]
  <2>1. PICK v, cell : /\ SameCells(v, old, T) /\ IsTable(v, T) /\ cell.tick = u.tick /\ new.dirty = v.dirty
                       /\ CellPut(new, v, c, at.page, at.row, cell)
    BY DEF Rewritten
  <2>2. /\ IsKept(old, T, s.tick, some) /\ IsFresh(old, T, k) /\ old.sortedAt \in Nat
        /\ at.page \in DOMAIN old.rows /\ at.row \in DOMAIN old.rows[at.page]
    BY <1>1, <1>2, <1>3
  <2> HIDE DEF old, new
  <2>3. /\ IsFresh(v, T, k)
        /\ IsOrdered(T) /\ AllMayKey(old) => AllMayKey(v)
        /\ IsOrdered(T) /\ AtRest(old) => AtRest(v)
    BY <2>1, <2>2, SameCellsKept
  <2>4. /\ v.rows = old.rows /\ v.left = old.left /\ v.sortedAt = old.sortedAt /\ v.dirty = old.dirty
        /\ new.rows = v.rows /\ new.left = v.left /\ new.sortedAt = v.sortedAt
    BY <2>1 DEF SameCells, SameStamps, CellPut
  <2>5. v.sortedAt < cell.tick /\ cell.tick > k.since
    BY <1>1, <1>2, <2>1, <2>2, <2>4 DEF IsKept
  <2>6. /\ IsFresh(new, T, k)
        /\ IsOrdered(T) /\ AllMayKey(v) => AllMayKey(new)
        /\ IsOrdered(T) /\ AtRest(v) /\ c # Key => AtRest(new)
    BY <2>1, <2>2, <2>3, <2>4, <2>5, CellPutKept
  <2>7. new.sortedAt <= u.tick
    BY <1>1, <2>2, <2>4 DEF IsKept
  <2>8. IsOrdered(T) => AllMayKey(new) /\ (new.dirty \/ T \in still \/ AtRest(new))
    BY <2>1, <2>2, <2>3, <2>4, <2>6 DEF IsKept
  <2>9. IsKept(new, T, u.tick, still)
    BY <2>7, <2>8 DEF IsKept
  <2> QED BY <2>4, <2>6, <2>9 DEF old, new
<1>6. \A t \in DOMAIN s.tables :
        /\ IsKept(u.tables[t], t, u.tick, still) /\ IsFresh(u.tables[t], t, k)
        /\ u.tables[t].rows = s.tables[t].rows /\ u.tables[t].left = s.tables[t].left
  BY <1>4, <1>5
<1>7. Noticed(u, k)
  <2>1. \A t \in DOMAIN s.tables : t \in DOMAIN u.tables /\ u.tables[t].left = s.tables[t].left
    BY <1>1, <1>6
  <2>2. \A t, p, r : HasRow(s, t, p, r) => HasRow(u, t, p, r) /\ RowAt(u, t, p, r) = RowAt(s, t, p, r)
    BY <1>1, <1>6 DEF HasRow, RowAt
  <2> QED BY <1>2, <2>1, <2>2, NoticedSame
<1>8. k.since <= u.tick
  BY <1>1, <1>2
<1> QED BY <1>1, <1>2, <1>6, <1>7, <1>8 DEF Sound

(* A row's write leaves no table marked and no stamp: what a query hands    *)
(* out marks pages and cells only.                                          *)
LEMMA WriteClean ==
  ASSUME NEW s, Clean(s), NEW at, NEW c, NEW u, Rewritten(u, s, at, c)
  PROVE  Clean(u)
<1>1. u.stamp = 0 /\ DOMAIN u.tables = DOMAIN s.tables
  BY DEF Clean, Rewritten
<1>2. ASSUME NEW t \in DOMAIN s.tables PROVE u.tables[t].dirty = s.tables[t].dirty
  <2>1. CASE t # at.table
    BY <2>1 DEF Rewritten, SameCells
  <2>2. CASE t = at.table
    <3>1. PICK v, cell : /\ SameCells(v, s.tables[at.table], at.table)
                         /\ u.tables[at.table].dirty = v.dirty
      BY DEF Rewritten
    <3> QED BY <2>2, <3>1 DEF SameCells
  <2> QED BY <2>1, <2>2
<1> QED BY <1>1, <1>2 DEF Clean

(* Every ordered table is to be re-sorted, and so none to be left out.     *)
LEMMA TouchedSound ==
  ASSUME NEW s, IsStore(s), NEW k, NEW some, Sound(s, k, some), NEW u, u = Touched(s)
  PROVE  Sound(u, k, {})
<1>1. /\ u.tick = s.tick /\ u.stamp = s.stamp /\ DOMAIN u.tables = DOMAIN s.tables
      /\ \A t \in DOMAIN s.tables : u.tables[t] = [s.tables[t] EXCEPT !.dirty = IsOrdered(t)]
  BY DEF Touched, IsStore, StoreFields
<1>2. ASSUME NEW t \in DOMAIN s.tables
      PROVE  /\ IsKept(u.tables[t], t, u.tick, {}) /\ IsFresh(u.tables[t], t, k)
             /\ u.tables[t].rows = s.tables[t].rows /\ u.tables[t].left = s.tables[t].left
  <2> DEFINE old == s.tables[t]
             new == u.tables[t]
  <2>1. new = [old EXCEPT !.dirty = IsOrdered(t)] /\ DOMAIN old = TableFields
    BY <1>1 DEF IsStore, IsTable
  <2>2. IsKept(old, t, s.tick, some) /\ IsFresh(old, t, k)
    BY DEF Sound
  <2> HIDE DEF old, new
  <2>3. /\ new.rows = old.rows /\ new.columns = old.columns /\ new.keys = old.keys
        /\ SameStamps(new, old) /\ new.dirty = IsOrdered(t)
    BY <2>1 DEF TableFields, SameStamps
  <2>4. IsFresh(new, t, k)
    BY <2>2, <2>3 DEF IsFresh, FreshRow, SameStamps
  <2>5. AllMayKey(old) => AllMayKey(new)
    BY <2>3 DEF AllMayKey, MayKey, KeyedAs, SameStamps
  <2>6. IsKept(new, t, u.tick, {})
    BY <1>1, <2>2, <2>3, <2>5 DEF IsKept, SameStamps
  <2> QED BY <2>3, <2>4, <2>6 DEF old, new, SameStamps
<1>3. Noticed(u, k)
  <2>1. \A t \in DOMAIN s.tables : t \in DOMAIN u.tables /\ u.tables[t].left = s.tables[t].left
    BY <1>1, <1>2
  <2>2. \A t, p, r : HasRow(s, t, p, r) => HasRow(u, t, p, r) /\ RowAt(u, t, p, r) = RowAt(s, t, p, r)
    BY <1>1, <1>2 DEF HasRow, RowAt
  <2>3. Noticed(s, k)
    BY DEF Sound
  <2> QED BY <2>1, <2>2, <2>3, NoticedSame
<1> QED BY <1>1, <1>2, <1>3 DEF Sound

(* A slot is taken.                                                        *)
LEMMA TakenSound ==
  ASSUME NEW s, IsStore(s), NEW u, u = Taken(s)
  PROVE  /\ u.tables = s.tables /\ u.stamp = s.stamp
         /\ \A k, some : Sound(s, k, some) => Sound(u, k, some)
<1>1. u.tables = s.tables /\ SameTime(u, s)
  BY DEF Taken, IsStore, StoreFields, SameTime
<1>2. Carries(u, s)
  BY <1>1, CarriesSame
<1> QED BY <1>1, <1>2 DEF Carries, SameTime

-----------------------------------------------------------------------------

(* The slot that is taken is no one's, and is not to be taken again.       *)
SlotTaken(u, s, x) ==
  /\ x \in Index /\ s.locations[x] = Dead /\ u.locations = [s.locations EXCEPT ![x] = Reserved]
  /\ u.generations = s.generations /\ u.freed = s.freed
  /\ s.next <= u.next /\ u.next \in 1..MaxIndex + 1 /\ x < u.next
  /\ u.free \in Seq(Index) /\ IsInjective(u.free)
  /\ \A a \in DOMAIN u.free : u.free[a] # x /\ \E b \in DOMAIN s.free : u.free[a] = s.free[b]
  /\ \A a \in DOMAIN s.freed : s.freed[a] # x

(* The slot that is taken is no one's, and is taken once:                   *)
(* Entities::reserve.                                                       *)
LEMMA TakenIs ==
  ASSUME NEW s, NEW d, OK(s, d), HasSlot(s), NEW u, u = Taken(s), NEW x, x = FreeSlot(s)
  PROVE  SlotTaken(u, s, x)
<1> DEFINE free == s.free
           n == Len(free)
<1>1. /\ DOMAIN s = StoreFields /\ DOMAIN s.locations = Index /\ MaxIndex \in Nat \ {0} /\ Index = 1..MaxIndex
  BY StoreAssumption DEF OK, IsStore, Index
<1>2. /\ u.locations = [s.locations EXCEPT ![x] = Reserved]
      /\ u.generations = s.generations /\ u.freed = s.freed
      /\ u.free = IF free = <<>> THEN free ELSE Front(free)
      /\ u.next = IF free = <<>> THEN s.next + 1 ELSE s.next
  BY <1>1 DEF Taken, StoreFields
<1>3. /\ s.next \in 1..MaxIndex + 1 /\ free \in Seq(Index)
      /\ \A a, b \in DOMAIN free : free[a] = free[b] => a = b
      /\ \A a \in DOMAIN free : s.locations[free[a]] = Dead /\ free[a] < s.next
      /\ \A a \in DOMAIN s.freed : s.locations[s.freed[a]] = Dead /\ s.freed[a] < s.next
      /\ \A a \in DOMAIN free : \A b \in DOMAIN s.freed : free[a] # s.freed[b]
      /\ \A i \in Index : i >= s.next => s.locations[i] = Dead
  BY DEF OK, IdsOK, IsInjective
<1>4. x = IF free # <<>> THEN free[n] ELSE s.next
  BY DEF FreeSlot, Last
<1>5. free # <<>> \/ s.next <= MaxIndex
  BY DEF HasSlot
<1> HIDE DEF free
<1>6. CASE free = <<>>
  <2>1. u.free = <<>> /\ DOMAIN u.free = {} /\ u.free \in Seq(Index) /\ IsInjective(u.free)
    <3>1. <<>> \in Seq(Index) /\ DOMAIN <<>> = {}
      OBVIOUS
    <3> QED BY <1>2, <1>6, <3>1 DEF IsInjective
  <2>2. x = s.next /\ u.next = s.next + 1
    BY <1>2, <1>4, <1>6
  <2>3. /\ x \in Index /\ s.locations[x] = Dead /\ s.next <= u.next /\ u.next \in 1..MaxIndex + 1 /\ x < u.next
    BY <1>1, <1>3, <1>5, <1>6, <2>2
  <2>4. s.freed \in Seq(Index)
    BY DEF OK, IdsOK
  <2>5. ASSUME NEW a \in DOMAIN s.freed PROVE s.freed[a] # x
    <3>1. s.freed[a] \in 1..MaxIndex /\ s.freed[a] < s.next
      BY <1>1, <1>3, <2>4
    <3> QED BY <1>3, <2>2, <3>1
  <2> QED BY <1>2, <2>1, <2>3, <2>5 DEF SlotTaken
<1>7. CASE free # <<>>
  <2>1. n \in Nat \ {0} /\ DOMAIN free = 1..n /\ n \in DOMAIN free
    BY <1>3, <1>7
  <2>2. u.free = SubSeq(free, 1, n - 1) /\ u.next = s.next /\ x = free[n]
    BY <1>2, <1>4, <1>7 DEF Front
  <2>3. u.free \in Seq(Index) /\ DOMAIN u.free = 1..n - 1 /\ \A a \in 1..n - 1 : u.free[a] = free[a]
    BY <1>3, <2>1, <2>2
  <2> HIDE DEF n
  <2>4. \A a \in 1..n - 1 : a \in 1..n /\ a # n
    BY <2>1
  <2>5. IsInjective(u.free)
    BY <1>3, <2>1, <2>3, <2>4 DEF IsInjective
  <2>6. \A a \in DOMAIN u.free : u.free[a] # x /\ \E b \in DOMAIN free : u.free[a] = free[b]
    BY <1>3, <2>1, <2>2, <2>3, <2>4
  <2>7. x \in Index /\ s.locations[x] = Dead /\ x < u.next
    BY <1>3, <2>1, <2>2
  <2>8. s.next <= u.next /\ u.next \in 1..MaxIndex + 1
    BY <1>3, <2>2
  <2>9. \A a \in DOMAIN s.freed : s.freed[a] # x
    BY <1>3, <2>1, <2>2
  <2> QED BY <1>2, <2>3, <2>5, <2>6, <2>7, <2>8, <2>9 DEF SlotTaken, free
<1> QED BY <1>6, <1>7

(* Taking a slot leaves what is said of ids.                                *)
LEMMA TakenIds ==
  ASSUME NEW s, NEW d \in Nat, IdsOK(s, d), DOMAIN s.locations = Index, s.generations \in [Index -> Nat],
         NEW u, NEW x, SlotTaken(u, s, x)
  PROVE  IdsOK(u, d + 1)
<1>1. /\ s.next \in 1..MaxIndex + 1 /\ s.free \in Seq(Index)
      /\ \A a \in DOMAIN s.free : s.free[a] \in Index /\ s.locations[s.free[a]] = Dead /\ s.free[a] < s.next
      /\ \A a \in DOMAIN s.freed : s.freed[a] \in Index /\ s.locations[s.freed[a]] = Dead /\ s.freed[a] < s.next
      /\ \A a \in DOMAIN s.free : \A b \in DOMAIN s.freed : s.free[a] # s.freed[b]
      /\ \A i \in Index : i >= s.next => s.locations[i] = Dead
      /\ \A i \in Index : s.generations[i] <= d + 1 /\ (s.locations[i] # Dead => s.generations[i] <= d)
      /\ s.freed \in Seq(Index) /\ IsInjective(s.freed)
  BY DEF IdsOK
<1>2. /\ x \in Index /\ s.locations[x] = Dead
      /\ u.generations = s.generations /\ u.freed = s.freed
      /\ s.next <= u.next /\ u.next \in 1..MaxIndex + 1 /\ x < u.next
      /\ u.free \in Seq(Index) /\ IsInjective(u.free)
      /\ \A a \in DOMAIN u.free : u.free[a] # x /\ \E b \in DOMAIN s.free : u.free[a] = s.free[b]
      /\ \A a \in DOMAIN s.freed : s.freed[a] # x
  BY DEF SlotTaken
<1>3. u.locations[x] = Reserved /\ \A i \in Index \ {x} : u.locations[i] = s.locations[i]
  BY <1>2 DEF SlotTaken
<1>4. Index \subseteq Int /\ MaxIndex \in Nat
  BY StoreAssumption DEF Index
<1>10. s.next \in Int /\ u.next \in Int /\ s.next <= u.next
  BY <1>1, <1>2, <1>4
<1>11. \A i \in Index : i < s.next => i < u.next
  BY <1>4, <1>10
<1>5. ASSUME NEW a \in DOMAIN u.free
      PROVE  u.locations[u.free[a]] = Dead /\ u.free[a] < u.next /\ \A b \in DOMAIN u.freed : u.free[a] # u.freed[b]
  <2>1. PICK b \in DOMAIN s.free : u.free[a] = s.free[b]
    BY <1>2
  <2>2. s.free[b] \in Index \ {x} /\ s.free[b] < s.next
    BY <1>1, <1>2, <2>1
  <2>3. s.free[b] < u.next
    BY <1>11, <2>2
  <2>4. u.locations[s.free[b]] = Dead
    BY <1>1, <1>3, <2>2
  <2> QED BY <1>1, <1>2, <2>1, <2>3, <2>4
<1>6. ASSUME NEW a \in DOMAIN u.freed PROVE u.locations[u.freed[a]] = Dead /\ u.freed[a] < u.next
  <2>1. s.freed[a] \in Index \ {x} /\ s.freed[a] < s.next /\ u.freed[a] = s.freed[a]
    BY <1>1, <1>2
  <2>2. s.freed[a] < u.next
    BY <1>11, <2>1
  <2> QED BY <1>1, <1>2, <1>3, <2>1, <2>2
<1>7. ASSUME NEW i \in Index, i >= u.next PROVE u.locations[i] = Dead
  <2>1. i >= s.next /\ i # x
    BY <1>1, <1>2, <1>4, <1>7
  <2> QED BY <1>1, <1>3, <2>1
<1>8. ASSUME NEW i \in Index
      PROVE  u.generations[i] <= d + 1 + 1 /\ (u.locations[i] # Dead => u.generations[i] <= d + 1)
  <2>1. s.generations[i] \in Nat /\ s.generations[i] <= d + 1 /\ u.generations[i] = s.generations[i]
    BY <1>1, <1>2
  <2> QED BY <2>1
<1>9. u.freed \in Seq(Index) /\ IsInjective(u.freed)
  BY <1>1, <1>2
<1> QED BY <1>2, <1>5, <1>6, <1>7, <1>8, <1>9 DEF IdsOK

(* Reserving an id keeps a store whole.                                     *)
LEMMA TakenOK ==
  ASSUME NEW s, NEW d \in Nat, OK(s, d), HasSlot(s), NEW u, u = Taken(s)
  PROVE  /\ OK(u, d + 1)
         /\ NewId(s) \in [index : Index, generation : 0..d + 1]
<1> DEFINE x == FreeSlot(s)
<1>1. SlotTaken(u, s, x)
  BY TakenIs
<1> HIDE DEF x
<1>2. IsStore(s) /\ Rowed(s, {}) /\ IdsOK(s, d) /\ SetsOK(s)
  BY DEF OK
<1>3. IdsOK(u, d + 1)
  BY <1>1, <1>2, TakenIds DEF IsStore
<1>4. /\ DOMAIN u = StoreFields /\ u.generations = s.generations /\ u.tables = s.tables /\ u.sets = s.sets
      /\ u.locked = s.locked /\ u.deaths = s.deaths /\ u.tick = s.tick /\ u.stamp = s.stamp
  BY <1>2 DEF Taken, IsStore, StoreFields
<1>5. /\ x \in Index /\ s.locations[x] = Dead /\ DOMAIN u.locations = Index
      /\ u.locations[x] = Reserved /\ \A i \in Index \ {x} : u.locations[i] = s.locations[i]
  BY <1>1, <1>2 DEF SlotTaken, IsStore
<1>6. IsStore(u)
  BY <1>2, <1>4, <1>5 DEF IsStore
<1>7. \A v, p, r : (HasRow(u, v, p, r) <=> HasRow(s, v, p, r)) /\ RowAt(u, v, p, r) = RowAt(s, v, p, r)
  BY <1>4 DEF HasRow, RowAt
<1>8. Located(u, {})
  <2> SUFFICES ASSUME NEW t, NEW p, NEW r, HasRow(s, t, p, r)
               PROVE  /\ u.generations[RowAt(s, t, p, r).index] = RowAt(s, t, p, r).generation
                      /\ u.locations[RowAt(s, t, p, r).index] = Placed(t, p, r)
    BY <1>7 DEF Located
  <2>1. RowAt(s, t, p, r).index \in Index /\ s.locations[RowAt(s, t, p, r).index] = Placed(t, p, r)
    BY <1>2, RowIs DEF Rowed, Located
  <2>2. RowAt(s, t, p, r).index # x
    BY <1>5, <2>1, PlacedIs
  <2> QED BY <1>2, <1>4, <1>5, <2>1, <2>2 DEF Rowed, Located
<1>9. ASSUME NEW i \in Index PROVE u.locations[i] \in {Dead, Reserved} \/ Housed(u, i)
  <2>1. CASE i = x
    BY <1>5, <2>1
  <2>2. CASE i # x /\ s.locations[i] \in {Dead, Reserved}
    BY <1>5, <2>2
  <2>3. CASE i # x /\ Housed(s, i)
    BY <1>5, <1>7, <2>3 DEF Housed
  <2> QED BY <1>2, <2>1, <2>2, <2>3 DEF Rowed
<1>10. Rowed(u, {})
  BY <1>8, <1>9 DEF Rowed
<1>11. SetsOK(u)
  <2> SUFFICES ASSUME NEW c \in SparseComponents PROVE IsSet(s.sets[c]) /\ FewDead(u, s.sets[c])
    BY <1>4 DEF SetsOK
  <2> DEFINE set == s.sets[c]
  <2>1. IsSet(set) /\ FewDead(s, set)
    BY <1>2 DEF SetsOK
  <2> HIDE DEF set
  <2>2. DeadIn(u, set) \subseteq DeadIn(s, set)
    <3> SUFFICES ASSUME NEW e \in ToSet(set.entities), Alive(s, e) PROVE Alive(u, e)
      BY DEF DeadIn
    <3>1. e.index \in Index /\ s.generations[e.index] = e.generation /\ s.locations[e.index] # Dead
      BY <2>1, EntriesAre DEF Alive
    <3>2. e.index # x
      BY <1>5, <3>1
    <3> QED BY <1>4, <1>5, <3>1, <3>2 DEF Alive
  <2>3. u.deaths = s.deaths /\ s.deaths \in Nat
    BY <1>2, <1>4 DEF IsStore
  <2>4. FewDead(u, set)
    BY <2>1, <2>2, <2>3, FewerDead
  <2> QED BY <2>1, <2>4 DEF set
<1>12. NewId(s) \in [index : Index, generation : 0..d + 1]
  <2>1. s.generations[x] \in Nat /\ s.generations[x] <= d + 1
    BY <1>2, <1>5 DEF IsStore, IdsOK
  <2>2. NewId(s) = [index |-> x, generation |-> s.generations[x]]
    BY DEF NewId, x
  <2>3. s.generations[x] \in 0..d + 1
    BY <2>1
  <2> QED BY <1>5, <2>2, <2>3
<1> QED BY <1>3, <1>6, <1>10, <1>11, <1>12 DEF OK

-----------------------------------------------------------------------------

(* A log of changes to some, made of one to others.                        *)
FilledFrom(u, log, who) ==
  /\ u \in Seq(Changes(Entity)) /\ DOMAIN u = DOMAIN log
  /\ \A i \in DOMAIN log : u[i].op = log[i].op /\ u[i].entity = who[log[i].entity]

(* A change with another entity is a change.                                *)
LEMMA ChangeOf ==
  ASSUME NEW W, NEW c \in Changes(W), NEW e \in Entity, NEW u, u = [c EXCEPT !.entity = e]
  PROVE  u \in Changes(Entity) /\ u.op = c.op /\ u.entity = e
<1> DEFINE V == UNION {[cs -> Values] : cs \in SUBSET Components}
<1> HIDE DEF V
<1>1. CASE c \in [op : {"insert", "set"}, entity : W, component : Components, value : Values]
  <2>1. u \in [op : {"insert", "set"}, entity : Entity, component : Components, value : Values]
        /\ u.op = c.op /\ u.entity = e
    BY <1>1
  <2> QED BY <2>1 DEF Changes
<1>2. CASE c \in [op : {"remove"}, entity : W, component : Components]
  <2>1. u \in [op : {"remove"}, entity : Entity, component : Components] /\ u.op = c.op /\ u.entity = e
    BY <1>2
  <2> QED BY <2>1 DEF Changes
<1>3. CASE c \in [op : {"spawn"}, entity : W, values : V]
  <2>1. u \in [op : {"spawn"}, entity : Entity, values : V] /\ u.op = c.op /\ u.entity = e
    BY <1>3
  <2> QED BY <2>1 DEF Changes, V
<1>4. CASE c \in [op : {"despawn"}, entity : W]
  <2>1. u \in [op : {"despawn"}, entity : Entity] /\ u.op = c.op /\ u.entity = e
    BY <1>4
  <2> QED BY <2>1 DEF Changes
<1> QED BY <1>1, <1>2, <1>3, <1>4 DEF Changes, V

(* A change is to one of whom it is said to be.                             *)
LEMMA OfWhom ==
  ASSUME NEW W, NEW c \in Changes(W)
  PROVE  c.entity \in W
BY DEF Changes

(* A log made to the given is a log of their changes.                       *)
LEMMA FilledIs ==
  ASSUME NEW W, NEW log \in Seq(Changes(W)), NEW who, \A e \in W : who[e] \in Entity,
         NEW u, u = Filled(log, who)
  PROVE  FilledFrom(u, log, who)
<1> DEFINE n == Len(log)
<1>1. n \in Nat /\ DOMAIN log = 1..n /\ \A i \in 1..n : log[i] \in Changes(W)
  OBVIOUS
<1> HIDE DEF n
<1>2. DOMAIN u = 1..n /\ \A i \in 1..n : u[i] = [log[i] EXCEPT !.entity = who[log[i].entity]]
  BY <1>1 DEF Filled
<1>3. ASSUME NEW i \in 1..n
      PROVE  u[i] \in Changes(Entity) /\ u[i].op = log[i].op /\ u[i].entity = who[log[i].entity]
  <2> DEFINE c == log[i]
             e == who[c.entity]
  <2>1. c \in Changes(W) /\ e \in Entity /\ u[i] = [c EXCEPT !.entity = e]
    BY <1>1, <1>2, OfWhom
  <2> HIDE DEF e, c
  <2>2. u[i] \in Changes(Entity) /\ u[i].op = c.op /\ u[i].entity = e
    BY <2>1, ChangeOf
  <2> QED BY <2>2 DEF e, c
<1>4. u \in Seq(Changes(Entity))
  <2>1. u = [i \in 1..n |-> u[i]]
    BY <1>2 DEF Filled
  <2> DEFINE S == Changes(Entity)
  <2> HIDE DEF S
  <2>2. \A i \in 1..n : u[i] \in S
    BY <1>3 DEF S
  <2>3. u \in Seq(S)
    BY <1>1, <2>1, <2>2
  <2> QED BY <2>3 DEF S
<1> QED BY <1>1, <1>2, <1>3, <1>4 DEF FilledFrom

-----------------------------------------------------------------------------
(* The inductive invariant.                                                *)
Ids(d) == [index : Index, generation : 0..d]
Looked == [since |-> reader.since, saw |-> reader.saw, reads |-> scene.reads, without |-> scene.without]
StoreInv ==
  /\ scene \in Scenes /\ build \in Nat /\ done \in Nat
  /\ OK(store, done)
  /\ given \subseteq Ids(done)
  /\ lost \subseteq DOMAIN store.tables
  /\ Sound(store, Looked, lost) /\ Clean(store)

(* Ids given by a step are ids, and are given by a later one.               *)
LEMMA IdsAre ==
  ASSUME NEW d \in Nat
  PROVE  Ids(d) \subseteq Entity /\ Ids(d) \subseteq Ids(d + 1)
<1>1. 0..d \subseteq Nat /\ 0..d \subseteq 0..d + 1
  OBVIOUS
<1> QED BY <1>1 DEF Ids, Entity

(* The first world is whole, with a slot reserved for each first entity.    *)
LEMMA FirstIs ==
  ASSUME NEW n \in 0..MaxIndex, NEW u, u = AtFirst(n)
  PROVE  /\ OK(u, 0)
         /\ \A i \in 1..n : First(i) \in Ids(0) /\ First(i) \in Entity /\ Ready(u, First(i))
         /\ \A k : k.since = 0 /\ k.saw = {} => Sound(u, k, {})
<1>1. /\ MaxIndex \in Nat \ {0} /\ Index = 1..MaxIndex /\ n \in Nat /\ n <= MaxIndex
  BY StoreAssumption DEF Index
<1>2. /\ DOMAIN u = StoreFields /\ u.generations = [i \in Index |-> 0]
      /\ u.locations = [i \in Index |-> IF i <= n THEN Reserved ELSE Dead]
      /\ u.next = n + 1 /\ u.free = <<>> /\ u.freed = <<>> /\ u.deaths = 0
      /\ u.tables = [t \in {{}} |-> NewTable(t)] /\ u.sets = [c \in SparseComponents |-> NewSet]
      /\ u.tick = 1 /\ u.stamp = 0 /\ u.locked = {}
  BY DEF AtFirst, NewStore, StoreFields
<1>3. /\ DOMAIN u.tables = {{}} /\ u.tables[{}] = NewTable({})
      /\ IsTable(NewTable({}), {}) /\ DOMAIN NewTable({}).rows = {1} /\ NewTable({}).rows[1] = <<>>
  BY <1>2, NewTableIs
<1>4. IsStore(u)
  <2>1. \A t \in DOMAIN u.tables : IsTable(u.tables[t], t)
    BY <1>3
  <2>2. DOMAIN u.tables \subseteq SUBSET TableComponents
    BY <1>3
  <2>3. u.generations \in [Index -> Nat] /\ DOMAIN u.locations = Index /\ DOMAIN u.sets = SparseComponents
    BY <1>2
  <2>4. u.tick \in Nat /\ u.stamp \in Nat /\ u.deaths \in Nat /\ u.locked \subseteq SparseComponents
    BY <1>2
  <2> QED BY <1>2, <2>1, <2>2, <2>3, <2>4 DEF IsStore
<1>5. \A t, p, r : ~HasRow(u, t, p, r)
  <2> SUFFICES ASSUME NEW t, NEW p, NEW r, HasRow(u, t, p, r) PROVE FALSE
    OBVIOUS
  <2>1. t = {} /\ p = 1 /\ r \in DOMAIN u.tables[t].rows[p]
    BY <1>3 DEF HasRow
  <2>2. u.tables[t].rows[p] = <<>>
    BY <1>3, <2>1
  <2> QED BY <2>1, <2>2
<1>6. Rowed(u, {})
  BY <1>2, <1>5 DEF Rowed, Located
<1>7. IdsOK(u, 0)
  <2>1. <<>> \in Seq(Index) /\ DOMAIN <<>> = {}
    OBVIOUS
  <2>2. IsInjective(<<>>)
    BY <2>1 DEF IsInjective
  <2>3. \A i \in Index : i >= u.next => u.locations[i] = Dead
    BY <1>1, <1>2
  <2>4. \A i \in Index : u.generations[i] <= 0 + 1 /\ (u.locations[i] # Dead => u.generations[i] <= 0)
    BY <1>2
  <2>5. u.next \in 1..MaxIndex + 1
    BY <1>1, <1>2
  <2> QED BY <1>2, <2>1, <2>2, <2>3, <2>4, <2>5 DEF IdsOK
<1>8. SetsOK(u)
  <2> SUFFICES ASSUME NEW c \in SparseComponents PROVE IsSet(NewSet) /\ FewDead(u, NewSet)
    BY <1>2 DEF SetsOK
  <2>1. /\ DOMAIN NewSet = SetFields /\ NewSet.entities = <<>> /\ NewSet.values = <<>>
        /\ NewSet.slots = [i \in Index |-> Empty] /\ NewSet.purgedAt = 0
    BY DEF NewSet, SetFields
  <2>2. <<>> \in Seq(Entity) /\ <<>> \in Seq(Int) /\ DOMAIN <<>> = {} /\ Len(<<>>) = 0
    OBVIOUS
  <2>3. IsSet(NewSet)
    BY <2>1, <2>2 DEF IsSet
  <2>4. DeadIn(u, NewSet) = {}
    BY <2>1, <2>2 DEF DeadIn, ToSet
  <2>5. Cardinality(DeadIn(u, NewSet)) = 0
    BY <2>4, FS_EmptySet
  <2> QED BY <1>2, <2>1, <2>3, <2>5 DEF FewDead
<1>9. ASSUME NEW i \in 1..n PROVE First(i) \in Ids(0) /\ First(i) \in Entity /\ Ready(u, First(i))
  <2>1. i \in Index /\ i <= n /\ First(i).index = i /\ First(i).generation = 0
    BY <1>1 DEF First
  <2>2. First(i) \in Ids(0)
    BY <2>1 DEF First, Ids
  <2> QED BY <1>2, <2>1, <2>2, IdsAre DEF Ready
<1>10. ASSUME NEW k, k.since = 0, k.saw = {} PROVE Sound(u, k, {})
  <2>1. \A t \in DOMAIN u.tables : IsKept(u.tables[t], t, u.tick, {}) /\ IsFresh(u.tables[t], t, k)
    <3>1. u.tick \in Nat /\ IsKept(NewTable({}), {}, u.tick, {}) /\ IsFresh(NewTable({}), {}, k)
      BY <1>2, NewIsKept
    <3> QED BY <1>3, <3>1
  <2>2. Noticed(u, k)
    BY <1>10 DEF Noticed
  <2>3. k.since \in Nat /\ k.since <= u.tick /\ u.stamp = 0
    BY <1>2, <1>10
  <2> QED BY <2>1, <2>2, <2>3 DEF Sound
<1> QED BY <1>4, <1>6, <1>7, <1>8, <1>9, <1>10 DEF OK

(* What a system sees: the values of rows of some tables.                  *)
SeenAt(s, t, p, r) ==
  [entity |-> s.tables[t].rows[p][r], value |-> s.tables[t].columns[scene.reads][p].cells[r].value]

(* What a system sees is what some row of a watched table shows it.         *)
LEMMA SeenAre ==
  ASSUME NEW s, NEW x
  PROVE  x \in Seen(s, Watched(s)) <=>
           \E t, p, r : /\ t \in Watched(s) /\ p \in DOMAIN s.tables[t].rows
                        /\ r \in DOMAIN s.tables[t].rows[p] /\ x = SeenAt(s, t, p, r)
<1> DEFINE W == Watched(s)
           On(t, p) == {SeenAt(s, t, p, r) : r \in DOMAIN s.tables[t].rows[p]}
           In(t) == UNION {On(t, p) : p \in DOMAIN s.tables[t].rows}
<1> HIDE DEF W
<1>1. Seen(s, W) = UNION {In(t) : t \in W}
  BY DEF Seen, SeenAt
<1>2. \A t : x \in In(t) <=> \E p \in DOMAIN s.tables[t].rows : x \in On(t, p)
  BY Zenon
<1>3. x \in Seen(s, W) <=> \E t \in W : x \in In(t)
  <2> HIDE DEF In
  <2> QED BY <1>1, Zenon
<1>4. \A t, p : x \in On(t, p) <=> \E r \in DOMAIN s.tables[t].rows[p] : x = SeenAt(s, t, p, r)
  OBVIOUS
<1> HIDE DEF On, In
<1>5. ASSUME x \in Seen(s, W)
      PROVE  \E t, p, r : /\ t \in W /\ p \in DOMAIN s.tables[t].rows
                          /\ r \in DOMAIN s.tables[t].rows[p] /\ x = SeenAt(s, t, p, r)
  <2>1. PICK t \in W : x \in In(t)
    BY <1>3, <1>5, Zenon
  <2>2. PICK p \in DOMAIN s.tables[t].rows : x \in On(t, p)
    BY <1>2, <2>1, Zenon
  <2>3. PICK r \in DOMAIN s.tables[t].rows[p] : x = SeenAt(s, t, p, r)
    BY <1>4, <2>2, Zenon
  <2> QED BY <2>1, <2>2, <2>3, Zenon
<1>6. ASSUME NEW t, NEW p, NEW r, t \in W, p \in DOMAIN s.tables[t].rows,
             r \in DOMAIN s.tables[t].rows[p], x = SeenAt(s, t, p, r)
      PROVE  x \in Seen(s, W)
  <2>1. x \in On(t, p)
    BY <1>4, <1>6, Zenon
  <2>2. x \in In(t)
    BY <1>2, <1>6, <2>1, Zenon
  <2> QED BY <1>3, <1>6, <2>2, Zenon
<1>7. x \in Seen(s, W) <=>
        \E t, p, r : /\ t \in W /\ p \in DOMAIN s.tables[t].rows
                     /\ r \in DOMAIN s.tables[t].rows[p] /\ x = SeenAt(s, t, p, r)
  BY <1>5, <1>6, Zenon
<1> QED BY <1>7 DEF W

(* A system looks: what it sees is all that there is for it to see.        *)
LEMMA ReadSound ==
  ASSUME NEW s, IsStore(s), Rowed(s, {}), Clean(s), NEW some,
         \A t \in DOMAIN s.tables : IsKept(s.tables[t], t, s.tick, some),
         NEW k, k.since = s.tick, k.saw = Seen(s, Watched(s)),
         k.reads = scene.reads, k.without = scene.without
  PROVE  Sound(s, k, some)
<1>1. ASSUME NEW t, NEW p, NEW r, HasRow(s, t, p, r), IsWatched(t, k)
      PROVE  [entity |-> RowAt(s, t, p, r), value |-> s.tables[t].columns[k.reads][p].cells[r].value] \in k.saw
  <2>1. t \in Watched(s)
    BY <1>1 DEF HasRow, Watched, IsWatched
  <2>2. SeenAt(s, t, p, r) \in Seen(s, Watched(s))
    BY <1>1, <2>1, SeenAre DEF HasRow
  <2> QED BY <2>2 DEF SeenAt, RowAt
<1>2. ASSUME NEW x \in k.saw
      PROVE  \E t, p, r : IsWatched(t, k) /\ HasRow(s, t, p, r) /\ RowAt(s, t, p, r) = x.entity
  <2>1. PICK t, p, r : /\ t \in Watched(s) /\ p \in DOMAIN s.tables[t].rows
                       /\ r \in DOMAIN s.tables[t].rows[p] /\ x = SeenAt(s, t, p, r)
    BY SeenAre
  <2>2. x.entity = s.tables[t].rows[p][r]
    BY <2>1 DEF SeenAt
  <2>3. IsWatched(t, k) /\ t \in DOMAIN s.tables
    BY <2>1 DEF Watched, IsWatched
  <2> QED BY <2>1, <2>2, <2>3 DEF HasRow, RowAt
<1>3. ASSUME NEW t \in DOMAIN s.tables PROVE IsFresh(s.tables[t], t, k)
  <2> SUFFICES ASSUME k.reads \in t, NEW p \in DOMAIN s.tables[t].rows, NEW r \in DOMAIN s.tables[t].rows[p]
               PROVE  FreshRow(s.tables[t], t, p, r, k)
    BY DEF IsFresh
  <2>1. HasRow(s, t, p, r) /\ RowAt(s, t, p, r) = s.tables[t].rows[p][r]
    BY DEF HasRow, RowAt
  <2>2. CASE IsWatched(t, k)
    BY <1>1, <2>1, <2>2 DEF FreshRow, FreshCell
  <2>3. CASE ~IsWatched(t, k)
    <3>1. ASSUME Saw(RowAt(s, t, p, r), k) PROVE FALSE
      <4>1. PICK x \in k.saw : x.entity = RowAt(s, t, p, r)
        BY <3>1 DEF Saw
      <4>2. PICK t2, p2, r2 : IsWatched(t2, k) /\ HasRow(s, t2, p2, r2) /\ RowAt(s, t2, p2, r2) = x.entity
        BY <1>2
      <4>3. Placed(t, p, r) = Placed(t2, p2, r2)
        BY <2>1, <4>1, <4>2 DEF Rowed, Located
      <4>4. t = t2
        BY <4>3, PlacedIs
      <4> QED BY <2>3, <4>2, <4>4
    <3> QED BY <2>1, <2>3, <3>1 DEF FreshRow, FreshCell
  <2> QED BY <2>2, <2>3
<1>4. Noticed(s, k)
  BY <1>2 DEF Noticed
<1>5. k.since \in Nat /\ k.since <= s.tick /\ s.stamp = 0
  BY DEF IsStore, Clean
<1> QED BY <1>3, <1>4, <1>5 DEF Sound

(* The first store, as its log spawned it, satisfies the inductive          *)
(* invariant.                                                               *)
THEOREM StoreInvInit == Init => StoreInv
<1> SUFFICES ASSUME Init PROVE StoreInv
  OBVIOUS
<1> DEFINE n == scene.entities
           start == scene.start
           who == [i \in Index |-> First(i)]
           log == Filled(start, who)
           s == AtFirst(n)
<1>1. /\ scene \in Scenes /\ build = 1 /\ store = ApplyLog(s, log) /\ done = 0
      /\ given = {First(i) : i \in 1..n} /\ reader = [since |-> 0, saw |-> {}] /\ lost = {}
  BY DEF Init
<1>2. /\ n \in 0..MaxIndex /\ start \in Seq(Changes(1..n))
      /\ \A i \in DOMAIN start :
           /\ start[i].op = "spawn"
           /\ \A j \in DOMAIN start \ {i} : start[j].entity # start[i].entity
      /\ MaxIndex \in Nat
  BY <1>1, StoreAssumption
<1> HIDE DEF n, start, s
<1>3. /\ OK(s, 0) /\ \A i \in 1..n : First(i) \in Ids(0) /\ First(i) \in Entity /\ Ready(s, First(i))
      /\ \A k : k.since = 0 /\ k.saw = {} => Sound(s, k, {})
  BY <1>2, FirstIs DEF s
<1>4. \A i \in 1..n : i \in Index /\ who[i] = First(i)
  BY <1>2 DEF Index
<1> HIDE DEF who, log
<1>5. FilledFrom(log, start, who)
  BY <1>2, <1>3, <1>4, FilledIs DEF log
<1>6. \A i \in DOMAIN start : start[i].entity \in 1..n
  <2>1. \A i \in DOMAIN start : start[i] \in Changes(1..n)
    BY <1>2
  <2> QED BY <2>1, OfWhom
<1>7. /\ log \in Seq(Changes(Entity)) /\ DOMAIN log = DOMAIN start
      /\ \A i \in DOMAIN start : log[i].entity = First(start[i].entity)
  BY <1>4, <1>5, <1>6 DEF FilledFrom
<1>8. SpawnsOnce(log)
  <2> SUFFICES ASSUME NEW i \in DOMAIN start, NEW j \in DOMAIN start \ {i}
               PROVE  log[j].entity # log[i].entity
    BY <1>7 DEF SpawnsOnce
  <2>1. start[j].entity # start[i].entity
    BY <1>2
  <2>2. First(start[j].entity).index = start[j].entity /\ First(start[i].entity).index = start[i].entity
    BY DEF First
  <2> QED BY <1>7, <2>1, <2>2
<1>9. \A i \in DOMAIN log : Ready(s, log[i].entity)
  BY <1>3, <1>6, <1>7
<1>10. OK(store, 0) /\ Sound(store, Looked, {}) /\ Clean(store)
  <2>1. build \in Nat /\ IsLog(log)
    BY <1>1, <1>7, <1>8 DEF IsLog
  <2>2. /\ OK(store, 0)
        /\ \A k, some : some \subseteq DOMAIN s.tables /\ Sound(s, k, some)
                         => Sound(store, k, StillOf(store, s, some)) /\ Clean(store)
    BY <1>1, <1>3, <1>9, <2>1, ApplyLogIs
  <2>3. Looked.since = 0 /\ Looked.saw = {}
    BY <1>1 DEF Looked
  <2>4. Sound(s, Looked, {}) /\ StillOf(store, s, {}) = {} /\ {} \subseteq DOMAIN s.tables
    BY <1>3, <2>3 DEF StillOf
  <2>5. Sound(store, Looked, {}) /\ Clean(store)
    BY <2>2, <2>4
  <2> QED BY <2>2, <2>5
<1> QED BY <1>1, <1>3, <1>10 DEF StoreInv

(* Every step keeps the inductive invariant: an id reserved, a log applied, *)
(* a value written in place, a build installed, a read.                     *)
THEOREM StoreInvNext == StoreInv /\ [Next]_vars => StoreInv'
<1> SUFFICES ASSUME StoreInv, [Next]_vars PROVE StoreInv'
  OBVIOUS
<1>1. /\ scene \in Scenes /\ build \in Nat /\ done \in Nat /\ OK(store, done)
      /\ given \subseteq Ids(done) /\ lost \subseteq DOMAIN store.tables
      /\ Sound(store, Looked, lost) /\ Clean(store) /\ IsStore(store)
  BY DEF StoreInv, OK
<1>2. /\ done + 1 \in Nat /\ given \subseteq Entity /\ given \subseteq Ids(done + 1)
      /\ OK(store, done + 1)
  BY <1>1, IdsAre, LaterOK
<1>3. ASSUME Reserve PROVE StoreInv'
  <2>1. /\ done' = done + 1 /\ scene' = scene /\ build' = build /\ HasSlot(store)
        /\ store' = Taken(store) /\ given' = given \union {NewId(store)}
    BY <1>3 DEF Reserve, Step
  <2>2. OK(store', done + 1) /\ NewId(store) \in Ids(done + 1)
    BY <1>1, <2>1, TakenOK DEF Ids
  <2>3. Looked' = Looked /\ lost' = lost
    BY <1>3, <2>1 DEF Reserve, Looked
  <2>4. Sound(store', Looked, lost) /\ Clean(store') /\ lost \subseteq DOMAIN store'.tables
    BY <1>1, <2>1, TakenSound DEF Clean
  <2> QED BY <1>1, <1>2, <2>1, <2>2, <2>3, <2>4 DEF StoreInv
<1>4. ASSUME NEW log \in scene.logs, NEW who \in [scene.who -> given], Apply(Filled(log, who))
      PROVE  StoreInv'
  <2> DEFINE u == Filled(log, who)
  <2>1. /\ done' = done + 1 /\ scene' = scene /\ build' = build /\ MayApply(u)
        /\ store' = ApplyLog(store, u) /\ given' = given
        /\ lost' = StillLost(store'.tables) /\ reader' = reader
    BY <1>4 DEF Apply, Step
  <2>2. log \in Seq(Changes(scene.who)) /\ \A e \in scene.who : who[e] \in Entity
    BY <1>1, <1>2, StoreAssumption
  <2> HIDE DEF u
  <2>3. FilledFrom(u, log, who)
    BY <2>2, FilledIs DEF u
  <2>4. \A i \in DOMAIN u : u[i].op = "spawn" => Ready(store, u[i].entity)
    BY <2>1 DEF MayApply, IsReserved, Alive, At, Ready
  <2>5. SpawnsOnce(u)
    BY <2>1 DEF MayApply, SpawnsOnce
  <2>6. IsLog(u)
    BY <2>3, <2>5 DEF FilledFrom, IsLog
  <2>7. /\ OK(store', done)
        /\ \A k, some : some \subseteq DOMAIN store.tables /\ Sound(store, k, some)
                         => Sound(store', k, StillOf(store', store, some)) /\ Clean(store')
        /\ DOMAIN store.tables \subseteq DOMAIN store'.tables
    BY <1>1, <2>1, <2>4, <2>6, ApplyLogIs
  <2>8. OK(store', done + 1)
    BY <1>1, <2>7, LaterOK
  <2>9. Looked' = Looked /\ lost' = StillOf(store', store, lost)
    BY <2>1 DEF Looked, StillLost, StillOf
  <2>10. lost' \subseteq DOMAIN store'.tables
    BY <1>1, <2>7, <2>9 DEF StillOf
  <2>11. Sound(store', Looked, lost') /\ Clean(store')
    BY <1>1, <2>7, <2>9
  <2> QED BY <1>1, <1>2, <2>1, <2>8, <2>9, <2>10, <2>11 DEF StoreInv
<1>5. ASSUME NEW e \in given, NEW c \in scene.writes, NEW v \in Values, NEW fails \in scene.fails,
             Write(e, c, v, fails)
      PROVE  StoreInv'
  <2> DEFINE w == WriteAt(store, At(store, e), c, v)
  <2>1. /\ done' = done + 1 /\ scene' = scene /\ build' = build /\ given' = given
        /\ IsPlaced(store, e) /\ c \in At(store, e).table
        /\ store' = Settled(w, c, fails) /\ reader' = reader
        /\ lost' = IF c = Key /\ fails THEN lost \union {At(store, e).table} ELSE StillLost(store'.tables)
    BY <1>5 DEF Write, Step
  <2>2. HasRow(store, At(store, e).table, At(store, e).page, At(store, e).row)
    BY <1>1, <1>2, <2>1, PlaceIs DEF OK
  <2>3. OK(w, done) /\ Rewritten(w, store, At(store, e), c)
    <3>1. v \in Int
      BY StoreAssumption
    <3> QED BY <1>1, <2>1, <2>2, <3>1, WriteAtIs
  <2> HIDE DEF w
  <2>4. OK(store', done)
    <3>1. CASE c = Key /\ ~fails
      <4>1. store' = Close(Touched(w))
        BY <2>1, <3>1 DEF Settled
      <4>2. OK(Touched(w), done)
        BY <2>3, TouchedIs
      <4> QED BY <1>1, <4>1, <4>2, CloseIs
    <3>2. CASE ~(c = Key /\ ~fails)
      BY <2>1, <2>3, <3>2 DEF Settled
    <3> QED BY <3>1, <3>2
  <2>5. OK(store', done + 1)
    BY <1>1, <2>4, LaterOK
  <2> DEFINE T == At(store, e).table
             more == IF c = Key THEN lost \union {T} ELSE lost
  <2>6. Looked' = Looked
    BY <2>1 DEF Looked
  <2>7. Sound(w, Looked, more) /\ Clean(w)
    <3>1. lost \subseteq more /\ (c = Key => T \in more)
      OBVIOUS
    <3> HIDE DEF more
    <3> QED BY <1>1, <2>1, <2>2, <2>3, <3>1, WriteSound, WriteClean
  <2>8. DOMAIN w.tables = DOMAIN store.tables /\ T \in DOMAIN store.tables
    BY <2>2, <2>3 DEF Rewritten, HasRow
  <2>9. CASE c = Key /\ ~fails
    <3> DEFINE x == Touched(w)
    <3>1. store' = Close(x)
      BY <2>1, <2>9 DEF Settled
    <3>2. OK(x, done) /\ Sound(x, Looked, {}) /\ DOMAIN x.tables = DOMAIN w.tables
      <4>1. DOMAIN x.tables = DOMAIN w.tables
        BY <2>3 DEF Touched, OK, IsStore, StoreFields
      <4> QED BY <2>3, <2>7, <4>1, TouchedIs, TouchedSound DEF OK
    <3> HIDE DEF x
    <3>3. Closed(store', x)
      BY <1>1, <3>1, <3>2, CloseIs
    <3>4. Sound(store', Looked, {}) /\ Clean(store')
      <4>1. \A t \in {} \intersect DOMAIN x.tables : ~x.tables[t].dirty => t \in {}
        OBVIOUS
      <4> QED BY <1>1, <3>1, <3>2, <4>1, CloseSound
    <3>5. lost' \subseteq lost /\ DOMAIN store'.tables = DOMAIN store.tables
      BY <2>1, <2>8, <2>9, <3>2, <3>3 DEF Closed, StillLost
    <3>6. Sound(store', Looked, lost')
      BY <3>4, SoundMore
    <3> QED BY <1>1, <1>2, <2>1, <2>5, <2>6, <3>4, <3>5, <3>6 DEF StoreInv
  <2>10. CASE ~(c = Key /\ ~fails)
    <3>1. store' = w
      BY <2>1, <2>10 DEF Settled
    <3>2. lost' = more
      <4>1. CASE c = Key /\ fails
        BY <2>1, <4>1
      <4>2. CASE c # Key
        <5>1. \A t \in lost : w.tables[t].sortedAt = store.tables[t].sortedAt
          BY <1>1, <2>3 DEF Rewritten, SameCells, SameStamps, CellPut
        <5> QED BY <2>1, <3>1, <4>2, <5>1 DEF StillLost
      <4> QED BY <2>10, <4>1, <4>2
    <3>3. more \subseteq DOMAIN store'.tables
      BY <1>1, <2>8, <3>1
    <3> HIDE DEF more
    <3> QED BY <1>1, <1>2, <2>1, <2>5, <2>6, <2>7, <3>1, <3>2, <3>3 DEF StoreInv
  <2> QED BY <2>9, <2>10
<1>6. CASE Install
  <2>1. Looked' = Looked
    BY <1>6 DEF Install, Step, Looked
  <2> QED BY <1>1, <1>2, <1>6, <2>1 DEF Install, Step, StoreInv
<1>7. CASE Read
  <2>1. /\ Looked'.since = store.tick /\ Looked'.saw = Seen(store, Watched(store))
        /\ Looked'.reads = scene.reads /\ Looked'.without = scene.without
        /\ store' = store /\ lost' = lost
    BY <1>7 DEF Read, Step, Looked
  <2>2. Sound(store, Looked', lost)
    <3>1. Rowed(store, {}) /\ \A t \in DOMAIN store.tables : IsKept(store.tables[t], t, store.tick, lost)
      BY <1>1 DEF Sound, OK
    <3> HIDE DEF Looked
    <3> QED BY <1>1, <2>1, <3>1, ReadSound
  <2> QED BY <1>1, <1>2, <1>7, <2>1, <2>2 DEF Read, Step, StoreInv
<1>8. CASE UNCHANGED vars
  <2>1. Looked' = Looked
    BY <1>8 DEF vars, Looked
  <2> QED BY <1>1, <1>8, <2>1 DEF vars, StoreInv
<1> QED BY <1>3, <1>4, <1>5, <1>6, <1>7, <1>8 DEF Next

(* The inductive invariant always holds.                                    *)
THEOREM StoreInvAlways == Spec => []StoreInv
BY StoreInvInit, StoreInvNext, PTL DEF Spec

(* TypeOK is part of the inductive invariant.                               *)
LEMMA TypesFollow == StoreInv => TypeOK
<1> SUFFICES ASSUME StoreInv PROVE TypeOK
  OBVIOUS
<1>1. IdsOK(store, done) /\ IsStore(store) /\ given \subseteq Ids(done)
  BY DEF StoreInv, OK
<1>2. /\ store.next \in 1..MaxIndex + 1 /\ IsInjective(store.free) /\ store.free \in Seq(Index)
      /\ \A a \in DOMAIN store.free : store.locations[store.free[a]] = Dead /\ store.free[a] < store.next
  BY <1>1 DEF IdsOK
<1>3. \A a \in DOMAIN store.free : store.free[a] \in Index
  BY <1>2
<1>4. ToSet(store.free) = {store.free[a] : a \in DOMAIN store.free}
  BY DEF ToSet
<1>5. DOMAIN store.tables \subseteq SUBSET TableComponents
  BY <1>1 DEF IsStore
<1> QED BY <1>1, <1>2, <1>3, <1>4, <1>5 DEF TypeOK, Ids

(* Indexed follows from the inductive invariant.                            *)
LEMMA IndicesFollow == StoreInv => Indexed
<1> SUFFICES ASSUME StoreInv PROVE Indexed
  OBVIOUS
<1>1. /\ IsStore(store) /\ Rowed(store, {}) /\ SetsOK(store)
      /\ given \subseteq Entity
  BY IdsAre DEF StoreInv, OK
<1>2. ASSUME NEW t \in DOMAIN store.tables, NEW p \in DOMAIN store.tables[t].rows
      PROVE  /\ Len(store.tables[t].rows[p]) <= PageRows
             /\ \A c \in t : Len(store.tables[t].columns[c][p].cells) = Len(store.tables[t].rows[p])
             /\ Len(store.tables[t].keys[p]) = Len(store.tables[t].rows[p])
             /\ \A r \in DOMAIN store.tables[t].rows[p] :
                  /\ IsPlaced(store, store.tables[t].rows[p][r])
                  /\ At(store, store.tables[t].rows[p][r]) = Placed(t, p, r)
  <2>1. IsTable(store.tables[t], t)
    BY <1>1 DEF IsStore
  <2>2. ASSUME NEW r \in DOMAIN store.tables[t].rows[p]
        PROVE  /\ IsPlaced(store, store.tables[t].rows[p][r])
               /\ At(store, store.tables[t].rows[p][r]) = Placed(t, p, r)
    <3>1. HasRow(store, t, p, r)
      BY DEF HasRow
    <3>2. /\ store.generations[store.tables[t].rows[p][r].index] = store.tables[t].rows[p][r].generation
          /\ store.locations[store.tables[t].rows[p][r].index] = Placed(t, p, r)
      BY <1>1, <3>1 DEF Rowed, Located, RowAt
    <3> QED BY <3>2, PlacedIs DEF IsPlaced, At
  <2>3. IsRows(store.tables[t].rows) /\ IsKeys(store.tables[t].keys, store.tables[t].rows)
        /\ \A c \in t : IsColumn(store.tables[t].columns[c], store.tables[t].rows)
    BY <2>1 DEF IsTable
  <2> QED BY <2>2, <2>3 DEF IsRows, IsKeys, IsColumn
<1>3. ASSUME NEW e \in given, IsPlaced(store, e)
      PROVE  /\ At(store, e).row \in DOMAIN store.tables[At(store, e).table].rows[At(store, e).page]
             /\ store.tables[At(store, e).table].rows[At(store, e).page][At(store, e).row] = e
  BY <1>1, <1>3, PlaceIs DEF HasRow, RowAt
<1>4. RowsLocated
  BY <1>2, <1>3 DEF RowsLocated
<1>5. SetsIndexed
  BY <1>1 DEF SetsOK, IsSet, FewDead, DeadIn, SetsIndexed
<1> QED BY <1>4, <1>5 DEF Indexed

(* A store whose tables are in order or to be re-sorted, none of which is   *)
(* marked between steps, has its tables in order.                           *)
LEMMA OrderFollows == StoreInv => KeptInOrder
<1> SUFFICES ASSUME StoreInv, NEW t \in DOMAIN store.tables, IsOrdered(t), t \notin lost
             PROVE  /\ ~store.tables[t].dirty
                    /\ InOrder(store.tables[t])
                    /\ \A p \in DOMAIN store.tables[t].rows : \A r \in DOMAIN store.tables[t].rows[p] :
                         store.tables[t].keys[p][r] =
                           Glue(store.tables[t].keyedBy, store.tables[t].columns[Key][p].cells[r].value)
  BY DEF KeptInOrder
<1>1. Sound(store, Looked, lost) /\ ~store.tables[t].dirty
  BY DEF StoreInv, Clean
<1>2. IsKept(store.tables[t], t, store.tick, lost)
  BY <1>1 DEF Sound
<1>3. AtRest(store.tables[t])
  BY <1>1, <1>2 DEF IsKept
<1> QED BY <1>1, <1>3 DEF AtRest, KeyedAs

(* A store that is fresh for a reader tells it all that has changed.        *)
LEMMA ChangesFollow == StoreInv => ChangesSeen
<1> SUFFICES ASSUME StoreInv PROVE ChangesSeen
  OBVIOUS
<1> DEFINE k == Looked
<1>1. /\ IsStore(store) /\ Rowed(store, {}) /\ Sound(store, k, lost)
      /\ k.since = reader.since /\ k.saw = reader.saw /\ k.reads = scene.reads /\ k.without = scene.without
  BY DEF StoreInv, OK, Looked
<1> HIDE DEF k
<1>2. ASSUME NEW row \in Seen(store, Watched(store)) \ reader.saw
      PROVE  \/ WrittenSince(row.entity)
             \/ ~SawIt(row.entity) /\ Since(store.tables[At(store, row.entity).table].arrived)
  <2>1. PICK t, p, r : /\ t \in Watched(store) /\ p \in DOMAIN store.tables[t].rows
                       /\ r \in DOMAIN store.tables[t].rows[p] /\ row = SeenAt(store, t, p, r)
    BY SeenAre
  <2>2. row = [entity |-> store.tables[t].rows[p][r],
               value |-> store.tables[t].columns[scene.reads][p].cells[r].value]
    BY <2>1 DEF SeenAt
  <2>3. t \in DOMAIN store.tables /\ scene.reads \in t /\ IsWatched(t, k)
    BY <1>1, <2>1 DEF Watched, IsWatched
  <2>4. HasRow(store, t, p, r) /\ row.entity = RowAt(store, t, p, r)
    <3>1. row.entity = store.tables[t].rows[p][r]
      BY <2>2
    <3>2. HasRow(store, t, p, r)
      BY <2>1, <2>3, Zenon DEF HasRow
    <3> QED BY <3>1, <3>2 DEF RowAt
  <2>5. At(store, row.entity) = Placed(t, p, r)
    BY <1>1, <2>4 DEF Rowed, Located, At
  <2>6. At(store, row.entity).table = t /\ At(store, row.entity).page = p /\ At(store, row.entity).row = r
    BY <2>5, PlacedIs
  <2> DEFINE v == store.tables[t]
             cell == v.columns[scene.reads][p].cells[r]
  <2>7. IsFresh(v, t, k)
    BY <1>1, <2>3 DEF Sound
  <2>8. FreshRow(v, t, p, r, k)
    BY <1>1, <2>1, <2>3, <2>7 DEF IsFresh
  <2>9. /\ cell.tick > reader.since \/ ~Saw(row.entity, k)
        /\ cell.tick > reader.since \/ v.arrived > reader.since
    BY <1>1, <2>2, <2>3, <2>8 DEF FreshRow, FreshCell
  <2>10. CASE cell.tick > reader.since
    <3> DEFINE page == v.columns[scene.reads][p]
    <3>1. page \in PageSet /\ r \in DOMAIN page.cells /\ page.cells[r] \in CellSet
      BY <1>1, <2>3, <2>4, CellIs
    <3>2. page.cells[r].tick <= page.written /\ page.written \in Nat /\ page.cells[r].tick \in Nat
      BY <3>1 DEF PageSet, CellSet
    <3>3. reader.since \in Nat
      BY <1>1 DEF Sound
    <3>4. page.written > reader.since
      BY <2>10, <3>2, <3>3
    <3> QED BY <2>6, <2>10, <3>4 DEF WrittenSince, Since, CellAt
  <2>11. CASE ~Saw(row.entity, k) /\ v.arrived > reader.since
    BY <1>1, <2>6, <2>11 DEF Saw, SawIt, Since
  <2> QED BY <2>9, <2>10, <2>11
<1>3. ASSUME NEW row \in reader.saw, \A now \in Seen(store, Watched(store)) : now.entity # row.entity
      PROVE  \E t \in Watched(store) : Since(store.tables[t].left)
  <2>1. Noticed(store, k)
    BY <1>1 DEF Sound
  <2>2. CASE \E t \in DOMAIN store.tables : IsWatched(t, k) /\ store.tables[t].left > k.since
    BY <1>1, <2>2 DEF Watched, IsWatched, Since
  <2>3. CASE \A x \in k.saw : \E t, p, r :
               IsWatched(t, k) /\ HasRow(store, t, p, r) /\ RowAt(store, t, p, r) = x.entity
    <3>1. PICK t, p, r : IsWatched(t, k) /\ HasRow(store, t, p, r) /\ RowAt(store, t, p, r) = row.entity
      BY <1>1, <2>3
    <3> DEFINE now == SeenAt(store, t, p, r)
    <3>2. t \in Watched(store) /\ p \in DOMAIN store.tables[t].rows /\ r \in DOMAIN store.tables[t].rows[p]
      BY <1>1, <3>1 DEF HasRow, Watched, IsWatched
    <3>3. now \in Seen(store, Watched(store))
      BY <3>2, SeenAre
    <3>4. now.entity = row.entity
      BY <3>1 DEF RowAt, SeenAt
    <3> QED BY <1>3, <3>3, <3>4
  <2> QED BY <2>1, <2>2, <2>3 DEF Noticed
<1> QED BY <1>2, <1>3 DEF ChangesSeen

(* Spec => []TypeOK: free slots are different ones of the dead below the    *)
(* next, and no id is of a generation past the steps that were taken        *)
(* (Entities::reserve, kill).                                               *)
THEOREM StoreTypes == Spec => []TypeOK
BY StoreInvAlways, TypesFollow, PTL

(* Spec => []Indexed, for any number of entities, components, rows and      *)
(* pages, any logs and builds: every row's entity is where its slot says,   *)
(* who is placed has its row there, columns and keys are in step with rows, *)
(* a sparse entry's index leads back to it, and a set has no more of the    *)
(* dead than have died since its last purge (world.rs: take_row, push_row,  *)
(* Resort::run, SparseSet, purge_dead).                                     *)
THEOREM StoreIndexed == Spec => []Indexed
BY StoreInvAlways, IndicesFollow, PTL

(* Spec => []KeptInOrder: whenever its guards are free an ordered table has *)
(* its rows in the order of their keys, and each key is that of the row's   *)
(* value under the build that last re-sorted the table, but for a table     *)
(* that a failed system wrote keys in: Structural::drop, and what           *)
(* Resort::run in ordered.rs keys anew, new rows and those written since    *)
(* the last re-sort, is enough.                                             *)
THEOREM StoreKeptInOrder == Spec => []KeptInOrder
BY StoreInvAlways, OrderFollows, PTL

(* Spec => []ChangesSeen: a value that a reader sees and did not see when   *)
(* it last looked is of a row and a page said to be written since, or came  *)
(* with an entity it did not see to a table said to have had one arrive,    *)
(* and if one it saw is gone a table is said to have had one leave:         *)
(* Query::for_each_written, arrived_since and left_since miss nothing,      *)
(* whatever pages and tables rows move over in between.                     *)
THEOREM StoreChangesSeen == Spec => []ChangesSeen
BY StoreInvAlways, ChangesFollow, PTL
==============================================================================
