---------------------------- MODULE SpatialPages ----------------------------
(***************************************************************************)
(* The order of a spatial table (src/engine/ecs/spatial.rs): the table's   *)
(* pages, each with a range of keys, the box of each of its rows and the   *)
(* box around them all; the ordered pages by range; boxes over runs of     *)
(* those; and how a re-sort takes each row to the page its key says.       *)
(* Space has one dimension here, where a box is an interval and the key of *)
(* one is the cell of its centre, as wide as a unit.                       *)
(***************************************************************************)
EXTENDS Bounds, SequencesExt

CONSTANTS
  PageRows,     \* how many rows a page holds
  Run,          \* how many ordered pages a run is
  Big,          \* the reach over which a row is on a page for big ones
  NoKey         \* the key of a row new to the table, over that of any box

Empty == [min |-> NoKey, max |-> -NoKey]
IsBig(box) == box.max - box.min > 2 * Big
KeyOf(box) == (box.min + box.max) \div 2

(* Pages may share a lowest key: all but the last of them hold only that.  *)
Holds(lo, hi, key) == key >= lo /\ (key < hi \/ (key = hi /\ hi = lo))

HullOf(rows) == FoldLeft(LAMBDA box, row : Hull(box, row.box), Empty, rows)
Without(list, i) ==
  IF i = Len(list) THEN Front(list) ELSE [Front(list) EXCEPT ![i] = Last(list)]

NewPage(kind, lo) ==
  [kind |-> kind, lo |-> lo, rows |-> <<>>, box |-> Empty, stale |-> FALSE]

(* One ordered page for every key to start.                                *)
NewOrder ==
  [pages |-> <<NewPage("ordered", 0)>>, order |-> <<1>>, runs |-> <<Empty>>, dirty |-> FALSE,
   changed |-> {}, lost |-> FALSE]

(* A row lands on the last page, or on one more if that is full.           *)
WithRoom(t) ==
  IF Len(Last(t.pages).rows) < PageRows THEN t
  ELSE [t EXCEPT !.pages = Append(@, NewPage("staging", NoKey))]

PushRow(t, e) ==
  [t EXCEPT !.pages[Len(t.pages)] =
      [@ EXCEPT !.rows = Append(@, [e |-> e, box |-> Empty, key |-> NoKey]), !.stale = TRUE],
    !.dirty = TRUE]

UnstampedTake(t, p, r) ==   \* a mutant: the page a row left is not stamped
  [t EXCEPT !.pages[p] = [@ EXCEPT !.rows = Without(@, r), !.stale = TRUE]]

(* One that leaves does not mark the table: its page is stamped here.      *)
TakeRow(t, p, r) ==
  [t EXCEPT !.pages[p] = [@ EXCEPT !.rows = Without(@, r), !.stale = TRUE],
            !.changed = @ \union {p}]

(* The upper key of the page i-th in the order.                            *)
UpTo(t, i) == IF i < Len(t.order) THEN t.pages[t.order[i + 1]].lo ELSE NoKey
PlaceOf(t, p) == CHOOSE i \in DOMAIN t.order : t.order[i] = p

(* The pages a region query asks the rows of: those of runs it meets, and  *)
(* of all that are not ordered.                                            *)
RunOf(i) == (i - 1) \div Run + 1
PagesNear(t, region) ==
  {t.order[i] : i \in {j \in DOMAIN t.order :
     Overlaps(t.runs[RunOf(j)], region) /\ Overlaps(t.pages[t.order[j]].box, region)}}
  \union {p \in DOMAIN t.pages : t.pages[p].kind # "ordered" /\ Overlaps(t.pages[p].box, region)}

-----------------------------------------------------------------------------
(* A re-sort: the order, with each ordered page's upper key as it began,   *)
(* the rows marked to move, the empty pages there are, and where  *)
(* each entity is.                                                         *)
Unsorted(t, at) ==
  t @@ [hi |-> [p \in DOMAIN t.pages |->
                  IF p \in ToSet(t.order) THEN UpTo(t, PlaceOf(t, p)) ELSE NoKey],
        marks |-> {}, free |-> <<>>, at |-> at]

WrittenOnly(page, written) ==   \* a mutant: rows new to the table are those written
  {r \in DOMAIN page.rows : page.rows[r].e \in written}

(* The rows new to the table, and those written since the last re-sort.    *)
Fresh(page, written) ==
  {r \in DOMAIN page.rows : page.rows[r].key = NoKey \/ page.rows[r].e \in written}

Placed(page, hi, row) ==
  CASE page.kind = "ordered" -> ~IsBig(row.box) /\ Holds(page.lo, hi, row.key)
    [] page.kind = "big"     -> IsBig(row.box)
    [] page.kind = "staging" -> FALSE

RowOf(e, box) == [e |-> e, box |-> box, key |-> KeyOf(box)]

ReboundPage(s, p, value, fresh) ==
  LET rows == [r \in DOMAIN s.pages[p].rows |->
                 IF r \in fresh THEN RowOf(s.pages[p].rows[r].e, value[s.pages[p].rows[r].e])
                 ELSE s.pages[p].rows[r]]
  IN IF fresh = {} THEN s
     ELSE [s EXCEPT
             !.pages[p] = [@ EXCEPT !.rows = rows, !.box = HullOf(rows), !.stale = FALSE],
             !.changed = @ \union {p},
             !.marks = @ \union {<<p, r>> : r \in {x \in fresh : ~Placed(s.pages[p], s.hi[p], rows[x])}}]

Rebounded(s, value, written) ==
  FoldLeft(LAMBDA x, p : ReboundPage(x, p, value, Fresh(x.pages[p], written)),
           s, [p \in DOMAIN s.pages |-> p])

(* A row to the end of another page. The mark of its page's last row, which *)
(* comes to its place, comes along.                                        *)
Remarked(marks, p, r, last) ==
  (marks \ {<<p, r>>, <<p, last>>}) \union (IF <<p, last>> \in marks THEN {<<p, r>>} ELSE {})
MoveRow(s, p, r, q) ==
  LET row  == s.pages[p].rows[r]
      last == Len(s.pages[p].rows)
      moved == (row.e :> <<q, Len(s.pages[q].rows) + 1>>) @@ s.at
  IN [s EXCEPT
        !.marks = Remarked(@, p, r, last),
        !.pages[p] = [@ EXCEPT !.rows = Without(@, r), !.stale = TRUE],
        !.pages[q] = [@ EXCEPT !.rows = Append(@, row), !.stale = TRUE],
        !.at = IF r = last THEN moved ELSE (s.pages[p].rows[last].e :> <<p, r>>) @@ moved]

RECURSIVE MoveFrom(_, _, _, _, _)
MoveFrom(s, q, to, keys, r) ==
  IF r > Len(s.pages[q].rows) THEN s
  ELSE IF s.pages[q].rows[r].key \in keys THEN MoveFrom(MoveRow(s, q, r, to), q, to, keys, r)
  ELSE MoveFrom(s, q, to, keys, r + 1)

(* A page for a range or for big rows: one that is free, or one more. The  *)
(* result of this and of what needs one is the order and the page.         *)
Given(s, p) == [order |-> s, page |-> p]
FreshPage(s, kind, lo) ==
  IF s.free # <<>>
  THEN Given([s EXCEPT !.free = Front(@),
                       !.pages[Last(s.free)] = [@ EXCEPT !.kind = kind, !.lo = lo]], Last(s.free))
  ELSE Given([s EXCEPT !.pages = Append(@, NewPage(kind, lo)), !.hi = Append(@, NoKey)], Len(s.pages) + 1)

OrderedPage(s, lo, i) ==
  LET made == FreshPage(s, "ordered", lo)
  IN  Given([made.order EXCEPT !.order = InsertAt(@, i, made.page)], made.page)

(* b with the bits under the highest it differs from a in cleared: a       *)
(* boundary of the largest block of keys over a and up to b.               *)
Boundary(a, b) ==
  LET top == Max({h \in 0..8 : a \div (2^h) # b \div (2^h)}) IN b - (b % (2^top))

(* A full ordered page, the i-th in the order, in two, around a block of   *)
(* keys between its quartiles; or around its least key if half its rows    *)
(* have that.                                                              *)
SplitAtKey(s, q, i, range, k, key) ==
  IF key > k
  THEN LET above == OrderedPage(s, key, i + 1)
       IN  Given(MoveFrom(above.order, q, above.page, {j \in range : j >= key}, 1), above.page)
  ELSE LET below == OrderedPage(s, s.pages[q].lo, i)
           apart == s.pages[q].lo < k
           from  == IF apart THEN [below.order EXCEPT !.pages[q].lo = k] ELSE s
           again == OrderedPage(from, k, IF apart THEN i + 2 ELSE i + 1)
       IN  IF apart /\ key < k THEN Given(from, below.page)
           ELSE Given(MoveFrom(again.order, q, again.page, {j \in range : j > k}, 1), again.page)

SplitAround(s, q, i, range, keys, key) ==
  LET n   == Len(keys)
      a   == keys[n \div 4 + 1]
      b   == keys[(n * 3) \div 4 + 1]
      cut == IF a < b THEN Boundary(a, b) ELSE keys[n \div 2 + 1]
      upper == OrderedPage(s, cut, i + 1)
  IN  Given(MoveFrom(upper.order, q, upper.page, {j \in range : j >= cut}, 1),
            IF key >= cut THEN upper.page ELSE q)

Split(s, q, key) ==
  LET i     == PlaceOf(s, q)
      range == {k \in 0..NoKey : Holds(s.pages[q].lo, UpTo(s, i), k)}
      keys  == SortSeq(SelectSeq([r \in DOMAIN s.pages[q].rows |-> s.pages[q].rows[r].key],
                                 LAMBDA k : k \in range), <)
  IN  IF keys = <<>> THEN OrderedPage(s, key, i + 1)
      ELSE IF keys[Len(keys) \div 2 + 1] = keys[1] THEN SplitAtKey(s, q, i, range, keys[1], key)
      ELSE SplitAround(s, q, i, range, keys, key)

(* Where a row belongs, with room made there.                              *)
PageFor(s, key) ==
  s.order[Max({i \in DOMAIN s.order : s.pages[s.order[i]].lo <= key} \union {1})]

TargetOfBig(s, p) ==
  LET some == {q \in DOMAIN s.pages : s.pages[q].kind = "big" /\ Len(s.pages[q].rows) < PageRows}
  IN  IF s.pages[p].kind = "big" THEN Given(s, p)
      ELSE IF some # {} THEN Given(s, Min(some))
      ELSE FreshPage(s, "big", NoKey)

NeverSplit(s, p, key) == Given(s, PageFor(s, key))   \* a mutant: full or not
TargetByKey(s, p, key) ==
  LET q == PageFor(s, key)
  IN  IF s.pages[p].kind = "ordered" /\ Holds(s.pages[p].lo, s.hi[p], key) THEN Given(s, p)
      ELSE IF q = p \/ Len(s.pages[q].rows) < PageRows THEN Given(s, q)
      ELSE Split(s, q, key)

Target(s, p, row) ==
  IF IsBig(row.box) THEN TargetOfBig(s, p) ELSE TargetByKey(s, p, row.key)

(* The rows a page is marked to lose, the last first. A mark where there   *)
(* is no row is an assertion that fails.                                   *)
RECURSIVE MoveMarked(_, _)
MoveMarked(s, p) ==
  LET marked == {r \in 1..PageRows : <<p, r>> \in s.marks}
      r == Max(marked)
      to == Target([s EXCEPT !.marks = @ \ {<<p, r>>}], p, s.pages[p].rows[r])
  IN IF marked = {} \/ s.lost THEN s
     ELSE IF r > Len(s.pages[p].rows) THEN [s EXCEPT !.lost = TRUE]
     ELSE MoveMarked(IF to.page = p THEN to.order ELSE MoveRow(to.order, p, r, to.page), p)

(* Each ordered page into the one before it, where both fit in one.        *)
RECURSIVE Emptied(_, _, _)
Emptied(s, b, a) == IF s.pages[b].rows = <<>> THEN s ELSE Emptied(MoveRow(s, b, 1, a), b, a)

AnyKeys(s, i, a, b) == FALSE   \* a mutant: pages of one key fold into any
OneKey(s, i, a, b) ==
  UpTo(s, i + 1) = s.pages[b].lo /\ s.pages[a].lo # s.pages[b].lo /\ s.pages[b].rows # <<>>

RECURSIVE Merged(_, _)
Merged(s, i) ==
  LET a == s.order[i]
      b == s.order[i + 1]
      one == Emptied(s, b, a)
  IN IF i >= Len(s.order) THEN s
     ELSE IF \/ OneKey(s, i, a, b)
             \/ Len(s.pages[a].rows) + Len(s.pages[b].rows) > (PageRows * 3) \div 4
     THEN Merged(s, i + 1)
     ELSE Merged([one EXCEPT !.order = RemoveAt(@, i + 1), !.free = Append(@, b),
                             !.pages[b] = [@ EXCEPT !.kind = "staging", !.lo = NoKey]], i)

Reshaped(s) ==
  LET empty == SelectSeq([p \in DOMAIN s.pages |-> p],
                         LAMBDA p : s.pages[p].kind = "staging" /\ s.pages[p].rows = <<>>)
  IN  Merged(FoldLeft(MoveMarked, [s EXCEPT !.free = empty], [p \in DOMAIN s.pages |-> p]), 1)

(* The boxes of pages whose rows came or went, and over runs.              *)
ReboundStale(s, p) ==
  IF ~s.pages[p].stale THEN s
  ELSE [s EXCEPT !.pages[p] = [@ EXCEPT !.box = HullOf(s.pages[p].rows), !.stale = FALSE],
                 !.changed = @ \union {p}]

RunBoxes(s) ==
  [n \in 1..RunOf(Len(s.order)) |->
     FoldLeft(LAMBDA box, i : IF RunOf(i) = n THEN Hull(box, s.pages[s.order[i]].box) ELSE box,
              Empty, [i \in DOMAIN s.order |-> i])]

Sorted(t, at, value, written) ==
  LET began   == Unsorted(t, at)
      bounded == Rebounded(began, value, written)
      reshape == bounded.marks # {} \/ \E p \in DOMAIN t.pages : t.pages[p].stale
      moved   == IF reshape THEN Reshaped(bounded) ELSE bounded
      boxed   == FoldLeft(ReboundStale, moved, [p \in DOMAIN moved.pages |-> p])
  IN [boxed EXCEPT !.dirty = FALSE,
        !.runs = IF reshape \/ bounded # began THEN RunBoxes(boxed) ELSE @]
=============================================================================
