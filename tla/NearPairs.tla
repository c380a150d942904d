------------------------------ MODULE NearPairs ------------------------------
(***************************************************************************)
(* The broadphase over the order (src/engine/ecs/query.rs, near_pairs):    *)
(* pairs of rows whose boxes, grown, meet, at least one of an active       *)
(* table. Active pages are swept against each other, and passive ones met  *)
(* through their tables' runs. It is cut in ranges over the threads, whose *)
(* pairs are put together: the same, and a set here.                       *)
(***************************************************************************)
EXTENDS SpatialPages

Reaching(rows, box, grow) == {row \in ToSet(rows) : Overlaps(Grown(row.box, grow), box)}
Cross(rows, others, grow) ==
  {{x[1].e, x[2].e} : x \in {y \in rows \X others :
      y[1].e # y[2].e /\ Overlaps(Grown(y[1].box, grow), Grown(y[2].box, grow))}}

(* The active tables' pages that have rows, their boxes grown, along the   *)
(* line.                                                                   *)
SweptPages(pages, grow) ==
  LET some  == SelectSeq(pages, LAMBDA p : p.rows # <<>>)
      grown == [i \in DOMAIN some |-> [rows |-> some[i].rows, box |-> Grown(some[i].box, grow)]]
  IN  SortSeq(grown, LAMBDA p, q : p.box.min < q.box.min)

(* A swept page against itself, and each after it up to one that begins    *)
(* past it.                                                                *)
Sweep(swept, i, grow) ==
  LET a == swept[i]
      reach == {j \in i + 1..Len(swept) : \A k \in i + 1..j : swept[k].box.min <= a.box.max}
  IN  Cross(ToSet(a.rows), ToSet(a.rows), grow)
      \union UNION {Cross(Reaching(a.rows, swept[j].box, grow), Reaching(swept[j].rows, a.box, grow), grow)
                      : j \in {k \in reach : Overlaps(a.box, swept[k].box)}}

(* The swept pages a box meets, none of which begins further before it     *)
(* than the widest is wide.                                                *)
Widest(swept) == Max({0} \union {swept[i].box.max - swept[i].box.min : i \in DOMAIN swept})
(* A mutant: pages that begin before the box are passed over.             *)
NearFrom(swept, box) ==
  {i \in DOMAIN swept : /\ box.min <= swept[i].box.min
                        /\ Overlaps(swept[i].box, box)}
Near(swept, box) ==
  {i \in DOMAIN swept : /\ box.min - Widest(swept) <= swept[i].box.min
                        /\ Overlaps(swept[i].box, box)}

MeetPage(swept, near, page, grow) ==
  LET box == Grown(page.box, grow)
  IN  UNION {Cross(Reaching(swept[i].rows, box, grow), Reaching(page.rows, swept[i].box, grow), grow)
               : i \in {j \in near : Overlaps(swept[j].box, box)}}

(* The swept pages against a passive table's runs, and against its pages   *)
(* that are in none.                                                       *)
MeetRun(swept, t, n, grow) ==
  UNION {MeetPage(swept, Near(swept, Grown(t.runs[n], grow)), t.pages[t.order[i]], grow)
           : i \in {j \in DOMAIN t.order : RunOf(j) = n /\ t.pages[t.order[j]].rows # <<>>}}
MeetBig(swept, t, p, grow) ==
  MeetPage(swept, Near(swept, Grown(t.pages[p].box, grow)), t.pages[p], grow)
MeetUnits(swept, t, grow) ==
  UNION {MeetRun(swept, t, n, grow) : n \in DOMAIN t.runs}
  \union UNION {MeetBig(swept, t, p, grow)
                  : p \in {q \in DOMAIN t.pages : t.pages[q].kind # "ordered" /\ t.pages[q].rows # <<>>}}

PairsIn(pages, passive, grow) ==
  LET swept == SweptPages(pages, grow)
  IN  UNION {Sweep(swept, i, grow) : i \in DOMAIN swept}
      \union UNION {MeetUnits(swept, t, grow) : t \in passive}
=============================================================================
