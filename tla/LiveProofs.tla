----------------------------- MODULE LiveProofs -----------------------------
(***************************************************************************)
(* What a live relation (src/engine/ecs/live.rs) answers is what           *)
(* near_pairs does, for any tables, rows, boxes, margins and relations,    *)
(* and however much changes between its calls: Exact and KeptAsChecked.    *)
(*                                                                         *)
(* The invariant says what is kept of each page from when it was walked    *)
(* last: of one not stamped since, what there is.  The pages, the rows and *)
(* the candidates are each kept in step by a lemma about Walk, Retested or *)
(* Merged; tables change the world under them, and stamp what they change. *)
(***************************************************************************)
EXTENDS Live, FiniteSetTheorems, TLAPS

Box == [min : Int, max : Int]
Row == [grown : Box, fat : Box, generation : Nat, side : Sides]
Kept ==
  [sides : Relations, pages : [Pages -> SUBSET Indices], rows : [Indices -> Row],
   candidates : SUBSET Couples, met : SUBSET Couples, kept : BOOLEAN, fresh : BOOLEAN,
   skip : Int, wait : Int, out : SUBSET SUBSET (Indices \X Nat)]

(* Every variable is of its type.                                          *)
TypeInv ==
  /\ at \in [Indices -> Pages \union {None}] /\ box \in [Indices -> Box]
  /\ generation \in [Indices -> Nat]
  /\ changed \subseteq Pages /\ left \in BOOLEAN
  /\ sides \in Relations /\ pairs \in Kept

SideIn(q, p) == q.sides[TableOf[p]]

(* A walk saw each row on one page, and rows only of pages with a side.    *)
PagesInv(q) ==
  /\ q.fresh => q.pages = [p \in Pages |-> {}] /\ q.rows = [i \in Indices |-> Gone] /\ ~q.kept
  /\ \A p \in Pages : SideIn(q, p) = None => q.pages[p] = {}
  /\ \A p1, p2 \in Pages : \A i \in q.pages[p1] : i \in q.pages[p2] => p1 = p2
  /\ \A i \in Indices : q.rows[i].side # None => \E p \in Pages : i \in q.pages[p]
  /\ \A i \in Indices : q.rows[i].side # None => Keeps(q.rows[i].fat, q.rows[i].grown)

(* A page that was not stamped since is as it was walked, and so are its   *)
(* rows; and unless one left a table, all that were walked are in theirs.  *)
RowIs(row, i, side) ==
  row.side = side /\ row.generation = generation[i] /\ row.grown = Grown(box[i], Grow)
FollowsInv(q) ==
  ~q.fresh =>
    /\ \A p \in Pages \ changed : SideIn(q, p) # None =>
         /\ q.pages[p] = {i \in Indices : at[i] = p}
         /\ \A i \in q.pages[p] : RowIs(q.rows[i], i, SideIn(q, p))
    /\ ~left => \A p \in Pages : \A i \in q.pages[p] : at[i] # None /\ TableOf[at[i]] = TableOf[p]

(* The candidates, while they are kept, are the live pairs whose fat boxes *)
(* meet, and the pairs answered those whose own do.                        *)
CandidatesOf(q) == {c \in Couples : LivePair(q, c) /\ Meet(Fats(q), c)}
CandidatesInv(q) ==
  q.kept =>
    /\ ~(q.skip > 0)
    /\ q.candidates = CandidatesOf(q)
    /\ q.met = {c \in q.candidates : Meet(Growns(q), c)}
    /\ q.out = Named(q.met, Owners(q))

IInv == TypeInv /\ PagesInv(pairs) /\ FollowsInv(pairs) /\ CandidatesInv(pairs)

-----------------------------------------------------------------------------
(* Boxes.                                                                  *)
LEMMA LeastOfTwo ==
  ASSUME NEW a \in Int, NEW b \in Int
  PROVE  Min({a, b}) \in Int
BY DEF Min

LEMMA GreatestOfTwo ==
  ASSUME NEW a \in Int, NEW b \in Int
  PROVE  Max({a, b}) \in Int
BY DEF Max

LEMMA GrownIsBox ==
  ASSUME NEW b \in Box, NEW n \in Int
  PROVE  /\ Grown(b, n) \in Box
         /\ Grown(b, n).min = b.min - n /\ Grown(b, n).max = b.max + n
BY DEF Grown, Box

(* A fat box is kept by the box it was made of.                            *)
LEMMA FatIsKept ==
  ASSUME NEW b \in Box
  PROVE  Keeps(Grown(b, Margin), b)
<1> DEFINE g == Grown(b, Margin)
<1>1. Margin \in Nat
  BY LiveAssumption
<1>2. g.min = b.min - Margin /\ g.max = b.max + Margin
  BY <1>1, GrownIsBox
<1>3. Grown(b, 2 * Margin).min = b.min - 2 * Margin /\ Grown(b, 2 * Margin).max = b.max + 2 * Margin
  BY <1>1, GrownIsBox
<1>4. b.min \in Int /\ b.max \in Int
  BY DEF Box
<1>5. Covers(g, b)
  BY <1>1, <1>2, <1>4 DEF Covers
<1>6. Covers(Grown(b, 2 * Margin), g)
  BY <1>1, <1>2, <1>3, <1>4 DEF Covers
<1> QED BY <1>5, <1>6 DEF Keeps

(* What meets inside meets outside.                                        *)
LEMMA CoversMeets ==
  ASSUME NEW a \in Box, NEW b \in Box, NEW c \in Box, NEW d \in Box,
         Covers(a, b), Covers(c, d), Overlaps(b, d)
  PROVE  Overlaps(a, c)
BY DEF Covers, Overlaps, Box

LEMMA KeepsCovers ==
  ASSUME NEW f \in Box, NEW b \in Box, Keeps(f, b)
  PROVE  Covers(f, b) /\ Covers(Grown(b, 2 * Margin), f)
BY DEF Keeps

LEMMA GrownTwice ==
  ASSUME NEW b \in Box
  PROVE  Grown(Grown(b, Grow), 2 * Margin) = Grown(b, Grow + 2 * Margin)
<1>1. Margin \in Nat /\ Grow \in Nat
  BY LiveAssumption
<1>2. \A x \in Int : x - Grow - 2 * Margin = x - (Grow + 2 * Margin) /\ x + Grow + 2 * Margin = x + (Grow + 2 * Margin)
  BY <1>1
<1> QED BY <1>1, <1>2 DEF Grown, Box

LEMMA CoupleFacts ==
  ASSUME NEW c \in Couples
  PROVE  c \subseteq Indices /\ c # {}
BY FS_EmptySet DEF Couples

-----------------------------------------------------------------------------
(* A row, once it was walked, is the one there is; or there is none.       *)
RowFits(row, i) ==
  IF SideOf(i) = None THEN row.side = None
  ELSE RowIs(row, i, SideOf(i)) /\ Keeps(row.fat, row.grown)

(* A call of the relation walks with what it has for its sides.            *)
Walks(q) == q \in Kept /\ q.sides = sides /\ PagesInv(q) /\ FollowsInv(q)

LEMMA SideFacts ==
  ASSUME TypeInv, NEW i \in Indices
  PROVE  /\ SideOf(i) \in Sides
         /\ SideOf(i) # None => at[i] \in Pages /\ SideOf(i) = sides[TableOf[at[i]]]
         /\ i \in Covered <=> SideOf(i) # None
         /\ box[i] \in Box /\ generation[i] \in Nat
<1>1. at[i] \in Pages \union {None} /\ sides \in [Tables -> Sides]
  BY LiveAssumption DEF TypeInv
<1>2. at[i] # None => TableOf[at[i]] \in Tables
  BY <1>1 DEF Tables
<1> QED BY <1>1, <1>2 DEF SideOf, Covered, TypeInv, Sides

(* A walk that is done: every row fits, and each page is as it is.         *)
Fits(q) ==
  /\ ~q.fresh /\ q.sides = sides
  /\ \A i \in Indices : RowFits(q.rows[i], i)
  /\ \A p \in Pages : q.pages[p] = IF sides[TableOf[p]] # None THEN {i \in Indices : at[i] = p} ELSE {}

(* Of what a walk sees: the rows of the pages it walks, of their sides.    *)
LEMMA SeenFacts ==
  ASSUME TypeInv, NEW q, NEW i \in Here, at[i] \in Walked(q)
  PROVE  SideOf(i) # None /\ at[i] \in Pages
BY DEF Walked, SideOf, Here

(* A row of a page not walked, of a side, is as it was kept.               *)
LEMMA UnwalkedFits ==
  ASSUME TypeInv, NEW q, Walks(q), NEW i \in Indices, SideOf(i) # None, at[i] \notin Walked(q)
  PROVE  /\ q.pages[at[i]] = {j \in Indices : at[j] = at[i]}
         /\ RowIs(q.rows[i], i, SideOf(i)) /\ Keeps(q.rows[i].fat, q.rows[i].grown)
<1>1. at[i] \in Pages /\ SideOf(i) = sides[TableOf[at[i]]]
  BY SideFacts
<1>2. ~q.fresh /\ at[i] \notin changed
  BY <1>1 DEF Walked
<1>3. SideIn(q, at[i]) = SideOf(i)
  BY <1>1 DEF SideIn, Walks
<1>4. /\ q.pages[at[i]] = {j \in Indices : at[j] = at[i]}
      /\ \A j \in q.pages[at[i]] : RowIs(q.rows[j], j, SideIn(q, at[i]))
  BY <1>1, <1>2, <1>3 DEF Walks, FollowsInv
<1>5. RowIs(q.rows[i], i, SideOf(i))
  BY <1>3, <1>4
<1>6. Keeps(q.rows[i].fat, q.rows[i].grown)
  BY <1>5 DEF RowIs, Walks, PagesInv
<1> QED BY <1>4, <1>5, <1>6

(* A row that is gone, or is of a table with no side, is found lost, if    *)
(* anything was kept of it.                                                *)
LEMMA GoneIsLost ==
  ASSUME TypeInv, NEW q, Walks(q), NEW i \in Indices, SideOf(i) = None, q.rows[i].side # None,
         NEW seen, i \notin seen
  PROVE  i \in Lost(q, Walked(q), seen)
<1>1. PICK p \in Pages : i \in q.pages[p]
  BY DEF Walks, PagesInv
<1>2. SideIn(q, p) # None
  BY <1>1 DEF Walks, PagesInv
<1>3. ~q.fresh
  BY <1>1 DEF Walks, PagesInv
<1>4. p \in Walked(q)
  <2>1. SUFFICES ASSUME p \notin changed PROVE FALSE
    BY <1>2 DEF Walked, SideIn, Walks
  <2>2. at[i] = p
    BY <1>1, <1>2, <1>3, <2>1 DEF Walks, FollowsInv
  <2>3. SideOf(i) = sides[TableOf[p]]
    BY <2>2, LiveAssumption DEF SideOf
  <2> QED BY <2>3, <1>2 DEF SideIn, Walks
<1>5. left
  <2>1. SUFFICES ASSUME ~left PROVE FALSE
    OBVIOUS
  <2>2. at[i] # None /\ TableOf[at[i]] = TableOf[p]
    BY <1>1, <1>3, <2>1 DEF Walks, FollowsInv
  <2> QED BY <2>2, <1>2 DEF SideOf, SideIn, Walks
<1> QED BY <1>1, <1>4, <1>5 DEF Lost

(* What a walk leaves of the rows it neither moved nor lost: those touched *)
(* have a new box within the fat box they had, and the rest are as before. *)
Rests(q, w) ==
  /\ w.kept = [q EXCEPT !.fresh = FALSE, !.pages = w.kept.pages, !.rows = w.kept.rows]
  /\ w.kept.pages \in [Pages -> SUBSET Indices] /\ w.kept.rows \in [Indices -> Row]
  /\ w.moved \subseteq Indices /\ w.touched \subseteq Indices /\ w.lost \subseteq Indices
  /\ \A i \in w.lost : w.kept.rows[i].side = None
  /\ \A i \in Indices \ (w.moved \union w.lost) :
       /\ w.kept.rows[i].fat = q.rows[i].fat /\ w.kept.rows[i].side = q.rows[i].side
       /\ w.kept.rows[i].generation = q.rows[i].generation
       /\ i \notin w.touched => w.kept.rows[i] = q.rows[i]

(* After a walk every row fits, whatever was stamped since the last.       *)
LEMMA WalkFits ==
  ASSUME TypeInv, NEW q, Walks(q)
  PROVE  Fits(Walk(q).kept) /\ Rests(q, Walk(q))
<1> DEFINE walked == Walked(q)
           seen == {i \in Here : at[i] \in walked}
           moved == Moved(q, seen)
           touched == {i \in seen : Changed(q, i)} \ moved
           lost == Lost(q, walked, seen)
           Pg(p) == IF p \in walked THEN {i \in seen : at[i] = p} ELSE q.pages[p]
           Rw(i) == IF i \in moved \union touched THEN RowNow(q.rows[i], i, moved)
                    ELSE IF i \in lost THEN Gone ELSE q.rows[i]
           w == Walk(q)
           k == w.kept
<1>1. /\ w.moved = moved /\ w.touched = touched /\ w.lost = lost
      /\ k = [q EXCEPT !.fresh = FALSE, !.pages = [p \in Pages |-> Pg(p)], !.rows = [i \in Indices |-> Rw(i)]]
  <2>1. q.pages = [p \in Pages |-> q.pages[p]] /\ q.rows = [i \in Indices |-> q.rows[i]]
    BY DEF Walks, Kept
  <2> QED BY <2>1 DEF Walk
<1>2. q \in Kept
  BY DEF Walks
<1>3. k.sides = q.sides /\ ~k.fresh /\ k.pages = [p \in Pages |-> Pg(p)] /\ k.rows = [i \in Indices |-> Rw(i)]
  BY <1>1, <1>2 DEF Kept
<1>4. /\ seen \subseteq Indices /\ moved \subseteq seen /\ touched \subseteq seen
      /\ lost \subseteq Indices /\ lost \cap seen = {}
  <2>1. seen \subseteq Indices
    BY DEF Here
  <2>2. moved \subseteq seen /\ touched \subseteq seen
    BY DEF Moved
  <2>3. lost \subseteq Indices /\ lost \cap seen = {}
    BY <1>2 DEF Lost, Kept, Walked
  <2> QED BY <2>1, <2>2, <2>3
<1> HIDE DEF w, k, moved, touched, lost, seen, Pg, Rw
<1>5. ASSUME NEW i \in seen
      PROVE  /\ i \in Indices /\ SideOf(i) # None /\ at[i] \in walked
             /\ i \in moved => Rw(i) = RowNow(q.rows[i], i, moved)
             /\ i \in touched => Rw(i) = RowNow(q.rows[i], i, moved) /\ ~Arrived(q, i)
                                  /\ Keeps(q.rows[i].fat, Grown(box[i], Grow)) /\ i \notin moved
             /\ i \notin moved \union touched => Rw(i) = q.rows[i] /\ ~Changed(q, i)
  <2>1. i \in Here /\ at[i] \in walked
    BY DEF seen
  <2>2. i \in Indices /\ SideOf(i) # None
    BY <2>1, SeenFacts DEF Here
  <2>3. i \notin lost
    BY <1>4
  <2>4. i \in touched => ~Arrived(q, i) /\ Keeps(q.rows[i].fat, Grown(box[i], Grow)) /\ i \notin moved
    BY DEF touched, moved, Moved
  <2>5. i \notin moved \union touched => ~Changed(q, i)
    BY DEF touched, moved
  <2> QED BY <2>1, <2>2, <2>3, <2>4, <2>5 DEF Rw
<1>6. ASSUME NEW i \in Indices
      PROVE  RowFits(Rw(i), i)
  <2>0. box[i] \in Box /\ Grow \in Nat /\ Grown(box[i], Grow) \in Box
    BY SideFacts, LiveAssumption, GrownIsBox
  <2>1. CASE i \in moved
    <3>1. i \in seen /\ SideOf(i) # None /\ Rw(i) = RowNow(q.rows[i], i, moved)
      BY <1>4, <1>5, <2>1
    <3>2. RowIs(Rw(i), i, SideOf(i)) /\ Rw(i).fat = Grown(Grown(box[i], Grow), Margin)
      BY <2>1, <3>1 DEF RowNow, RowIs
    <3>3. Keeps(Rw(i).fat, Rw(i).grown)
      BY <2>0, <3>2, FatIsKept DEF RowIs
    <3> QED BY <3>1, <3>2, <3>3 DEF RowFits
  <2>2. CASE i \in touched
    <3>1. /\ i \in seen /\ SideOf(i) # None /\ Rw(i) = RowNow(q.rows[i], i, moved) /\ i \notin moved
          /\ Keeps(q.rows[i].fat, Grown(box[i], Grow))
      BY <1>4, <1>5, <2>2
    <3>2. RowIs(Rw(i), i, SideOf(i)) /\ Rw(i).fat = q.rows[i].fat
      BY <3>1 DEF RowNow, RowIs
    <3> QED BY <3>1, <3>2 DEF RowFits, RowIs
  <2>3. CASE i \in seen \ (moved \union touched)
    <3>1. SideOf(i) # None /\ Rw(i) = q.rows[i] /\ ~Changed(q, i)
      BY <1>5, <2>3
    <3>2. RowIs(Rw(i), i, SideOf(i))
      BY <3>1 DEF RowIs, Changed, Arrived
    <3>3. Keeps(Rw(i).fat, Rw(i).grown)
      BY <3>1, <3>2 DEF RowIs, Walks, PagesInv
    <3> QED BY <3>1, <3>2, <3>3 DEF RowFits
  <2>4. CASE i \notin seen /\ SideOf(i) # None
    <3>1. at[i] \in Pages /\ at[i] \notin walked
      BY <2>4, SideFacts, LiveAssumption DEF seen, Here
    <3>2. /\ q.pages[at[i]] = {j \in Indices : at[j] = at[i]}
          /\ RowIs(q.rows[i], i, SideOf(i)) /\ Keeps(q.rows[i].fat, q.rows[i].grown)
      BY <2>4, <3>1, UnwalkedFits
    <3>3. i \notin lost
      <4>1. SUFFICES ASSUME NEW p \in walked, i \in q.pages[p] PROVE FALSE
        BY DEF lost, Lost
      <4>2. p \in Pages /\ i \in q.pages[at[i]]
        BY <3>2 DEF Walked
      <4>3. p = at[i]
        BY <3>1, <4>1, <4>2 DEF Walks, PagesInv
      <4> QED BY <3>1, <4>1, <4>3
    <3>4. Rw(i) = q.rows[i]
      BY <1>4, <2>4, <3>3 DEF Rw
    <3> QED BY <2>4, <3>2, <3>4 DEF RowFits
  <2>5. CASE SideOf(i) = None
    <3>1. i \notin seen
      BY <1>5, <2>5
    <3>2. q.rows[i].side # None => i \in lost
      BY <2>5, <3>1, GoneIsLost DEF lost
    <3>3. Rw(i).side = None
      BY <1>4, <3>1, <3>2 DEF Rw, Gone
    <3> QED BY <2>5, <3>3 DEF RowFits
  <2> QED BY <2>1, <2>2, <2>3, <2>4, <2>5
<1>7. ASSUME NEW p \in Pages
      PROVE  Pg(p) = IF sides[TableOf[p]] # None THEN {i \in Indices : at[i] = p} ELSE {}
  <2>1. CASE p \in walked
    BY <2>1, LiveAssumption DEF Pg, seen, Here, Walked
  <2>2. CASE p \notin walked /\ sides[TableOf[p]] # None
    <3>1. ~q.fresh /\ p \notin changed /\ SideIn(q, p) # None
      BY <2>2 DEF Walked, SideIn, Walks
    <3>2. q.pages[p] = {i \in Indices : at[i] = p}
      BY <3>1 DEF Walks, FollowsInv
    <3> QED BY <2>2, <3>2 DEF Pg
  <2>3. CASE p \notin walked /\ sides[TableOf[p]] = None
    BY <2>3 DEF Pg, Walks, PagesInv, SideIn
  <2> QED BY <2>1, <2>2, <2>3
<1>8. Fits(k)
  <2>1. k.sides = sides
    BY <1>3 DEF Walks
  <2>2. \A i \in Indices : RowFits(k.rows[i], i)
    BY <1>3, <1>6
  <2>3. \A p \in Pages : k.pages[p] = IF sides[TableOf[p]] # None THEN {i \in Indices : at[i] = p} ELSE {}
    BY <1>3, <1>7
  <2> QED BY <1>3, <2>1, <2>2, <2>3 DEF Fits
<1>9. Rests(q, w)
  <2>1. k.pages \in [Pages -> SUBSET Indices]
    BY <1>3, <1>7
  <2>2. k.rows \in [Indices -> Row]
    <3>1. SUFFICES ASSUME NEW i \in Indices PROVE Rw(i) \in Row
      BY <1>3
    <3>2. q.rows[i] \in Row
      BY <1>2 DEF Kept
    <3>3. Gone \in Row
      BY DEF Gone, Row, NoBox, Box, Sides
    <3>4. RowNow(q.rows[i], i, moved) \in Row
      <4>1. Grow \in Nat /\ Margin \in Nat /\ box[i] \in Box
        BY SideFacts, LiveAssumption
      <4>2. Grown(box[i], Grow) \in Box /\ Grown(Grown(box[i], Grow), Margin) \in Box
        BY <4>1, GrownIsBox
      <4>3. generation[i] \in Nat /\ SideOf(i) \in Sides
        BY SideFacts
      <4> QED BY <3>2, <4>2, <4>3 DEF RowNow, Row
    <3> QED BY <3>2, <3>3, <3>4 DEF Rw
  <2>3. ASSUME NEW i \in w.lost PROVE k.rows[i].side = None
    <3>1. i \in Indices /\ i \notin seen /\ i \in lost
      BY <1>1, <1>4, <2>3
    <3> QED BY <1>3, <1>4, <3>1 DEF Rw, Gone
  <2>4. ASSUME NEW i \in Indices \ (w.moved \union w.lost)
        PROVE  /\ k.rows[i].fat = q.rows[i].fat /\ k.rows[i].side = q.rows[i].side
               /\ k.rows[i].generation = q.rows[i].generation
               /\ i \notin w.touched => k.rows[i] = q.rows[i]
    <3>1. i \notin moved /\ i \notin lost /\ k.rows[i] = Rw(i)
      BY <1>1, <1>3
    <3>2. CASE i \in touched
      <4>1. Rw(i) = RowNow(q.rows[i], i, moved) /\ ~Arrived(q, i)
        BY <1>4, <1>5, <3>2
      <4> QED BY <1>1, <3>1, <3>2, <4>1 DEF RowNow, Arrived
    <3>3. CASE i \notin touched
      BY <3>1, <3>3 DEF Rw
    <3> QED BY <3>2, <3>3
  <2>5. w.moved \subseteq Indices /\ w.touched \subseteq Indices /\ w.lost \subseteq Indices
    BY <1>1, <1>4
  <2>6. k = [q EXCEPT !.fresh = FALSE, !.pages = k.pages, !.rows = k.rows]
    BY <1>1, <1>3
  <2> QED BY <2>1, <2>2, <2>3, <2>4, <2>5, <2>6 DEF Rests, k
<1> QED BY <1>8, <1>9 DEF w, k

-----------------------------------------------------------------------------
(* Couples of indices, named by equal generations, are named alike.        *)
LEMMA NamedAlike ==
  ASSUME NEW couples, NEW f, NEW g, \A c \in couples : \A i \in c : f[i] = g[i]
  PROVE  Named(couples, f) = Named(couples, g)
<1>1. \A c \in couples : {<<i, f[i]>> : i \in c} = {<<i, g[i]>> : i \in c}
  OBVIOUS
<1> QED BY <1>1 DEF Named

(* The pairs answered of rows that fit are those near_pairs finds, though  *)
(* they are looked for among those whose fat boxes meet alone.             *)
LEMMA Answer ==
  ASSUME TypeInv, NEW q, q.rows \in [Indices -> Row], \A i \in Indices : RowFits(q.rows[i], i)
  PROVE  NearPairs = Named({c \in CandidatesOf(q) : Meet(Growns(q), c)}, Owners(q))
<1> DEFINE grown == GrownBy(Grow)
           near == {c \in Couples : /\ c \subseteq Covered /\ \E i \in c : SideOf(i) = "active"
                                    /\ Meet(grown, c)}
           met == {c \in CandidatesOf(q) : Meet(Growns(q), c)}
<1>1. ASSUME NEW i \in Covered
      PROVE  /\ i \in Indices /\ q.rows[i].side = SideOf(i) /\ q.rows[i].side # None
             /\ q.rows[i].generation = generation[i] /\ q.rows[i].grown = grown[i]
             /\ Keeps(q.rows[i].fat, q.rows[i].grown)
  BY DEF RowFits, RowIs, Covered, GrownBy
<1>2. ASSUME NEW i \in Indices, q.rows[i].side # None
      PROVE  i \in Covered
  BY <1>2 DEF RowFits, Covered
<1>3. near \subseteq met
  <2>1. SUFFICES ASSUME NEW c \in near PROVE c \in met
    OBVIOUS
  <2>2. c \in Couples /\ c \subseteq Covered /\ c \subseteq Indices
    BY DEF Covered
  <2>3. LivePair(q, c)
    <3>1. \A i \in c : q.rows[i].side # None
      BY <1>1, <2>2
    <3>2. \E i \in c : q.rows[i].side = "active"
      BY <1>1, <2>2
    <3> QED BY <3>1, <3>2 DEF LivePair
  <2>4. ASSUME NEW i \in c, NEW j \in c, i # j
        PROVE  Overlaps(q.rows[i].grown, q.rows[j].grown) /\ Overlaps(q.rows[i].fat, q.rows[j].fat)
    <3>1. i \in Covered /\ j \in Covered /\ i \in Indices /\ j \in Indices
      BY <2>2
    <3>2. q.rows[i].grown = grown[i] /\ q.rows[j].grown = grown[j] /\ Overlaps(grown[i], grown[j])
      BY <1>1, <2>4, <3>1 DEF Meet
    <3>3. q.rows[i] \in Row /\ q.rows[j] \in Row
      BY <3>1
    <3>4. /\ q.rows[i].fat \in Box /\ q.rows[i].grown \in Box
          /\ q.rows[j].fat \in Box /\ q.rows[j].grown \in Box
      BY <3>3 DEF Row
    <3>5. Covers(q.rows[i].fat, q.rows[i].grown) /\ Covers(q.rows[j].fat, q.rows[j].grown)
      BY <1>1, <3>1 DEF Keeps
    <3> QED BY <3>2, <3>4, <3>5, CoversMeets
  <2>5. Meet(Growns(q), c) /\ Meet(Fats(q), c)
    BY <2>2, <2>4 DEF Meet, Growns, Fats
  <2> QED BY <2>2, <2>3, <2>5 DEF CandidatesOf
<1>4. met \subseteq near
  <2>1. SUFFICES ASSUME NEW c \in met PROVE c \in near
    OBVIOUS
  <2>2. c \in Couples /\ c \subseteq Indices /\ LivePair(q, c) /\ Meet(Growns(q), c)
    BY CoupleFacts DEF CandidatesOf
  <2>3. c \subseteq Covered
    BY <1>2, <2>2 DEF LivePair
  <2>4. \E i \in c : SideOf(i) = "active"
    BY <1>1, <2>2, <2>3 DEF LivePair
  <2>5. ASSUME NEW i \in c, NEW j \in c, i # j PROVE Overlaps(grown[i], grown[j])
    <3>1. i \in Covered /\ j \in Covered /\ i \in Indices /\ j \in Indices
      BY <2>2, <2>3
    <3>2. Overlaps(q.rows[i].grown, q.rows[j].grown)
      BY <2>2, <2>5, <3>1 DEF Meet, Growns
    <3> QED BY <1>1, <3>1, <3>2
  <2>6. Meet(grown, c)
    BY <2>5 DEF Meet
  <2> QED BY <2>2, <2>3, <2>4, <2>6
<1>5. near = met
  BY <1>3, <1>4
<1>6. \A c \in near : \A i \in c : generation[i] = Owners(q)[i]
  BY <1>1 DEF Owners
<1>7. Named(near, generation) = Named(near, Owners(q))
  BY <1>6, NamedAlike
<1> QED BY <1>5, <1>7 DEF NearPairs

(* Candidates, and those that meet, as they are kept.                      *)
KeepsPairs(q) ==
  /\ q.candidates = CandidatesOf(q)
  /\ q.met = {c \in q.candidates : Meet(Growns(q), c)}
  /\ q.out = Named(q.met, Owners(q))

(* Nothing but the pairs is other than in q.                               *)
Repaired(r, q) ==
  r = [q EXCEPT !.candidates = r.candidates, !.met = r.met, !.out = r.out, !.kept = r.kept]

(* A live pair's fat boxes meet as before, when its rows keep theirs.      *)
LEMMA SamePairs ==
  ASSUME NEW q, NEW old, NEW c \in Couples,
         \A i \in c : /\ q.rows[i].fat = old.rows[i].fat /\ q.rows[i].side = old.rows[i].side
  PROVE  /\ LivePair(q, c) <=> LivePair(old, c)
         /\ Meet(Fats(q), c) <=> Meet(Fats(old), c)
<1>1. c \subseteq Indices
  BY CoupleFacts
<1>2. LivePair(q, c) <=> LivePair(old, c)
  BY DEF LivePair
<1>3. \A i \in c : Fats(q)[i] = Fats(old)[i]
  BY <1>1 DEF Fats
<1> QED BY <1>2, <1>3 DEF Meet

(* Nothing moved or went, and those of some have new boxes: testing theirs *)
(* again suffices.                                                         *)
LEMMA RetestedKeeps ==
  ASSUME NEW old \in Kept, KeepsPairs(old), NEW q \in Kept, NEW some \in SUBSET Indices,
         q.candidates = old.candidates, q.met = old.met, q.out = old.out,
         \A i \in Indices :
           /\ q.rows[i].fat = old.rows[i].fat /\ q.rows[i].side = old.rows[i].side
           /\ q.rows[i].generation = old.rows[i].generation
           /\ i \notin some => q.rows[i] = old.rows[i]
  PROVE  \A r : r = Retested(q, some) =>
           KeepsPairs(r) /\ Repaired(r, q) /\ r.kept = q.kept
<1> TAKE r
<1> HAVE r = Retested(q, some)
<1> DEFINE met == {c \in q.met : c \cap some = {}}
                  \union {c \in q.candidates : c \cap some # {} /\ Meet(Growns(q), c)}
           out == IF met = q.met /\ some # Indices THEN q.out ELSE Named(met, Owners(q))
<1>1. r = [q EXCEPT !.met = met, !.out = out]
  BY DEF Retested
<1>2. /\ r.met = met /\ r.out = out /\ r.rows = q.rows /\ r.candidates = q.candidates
      /\ r.kept = q.kept
  BY <1>1 DEF Kept
<1>3. CandidatesOf(r) = CandidatesOf(old)
  <2>1. ASSUME NEW c \in Couples
        PROVE  /\ LivePair(r, c) <=> LivePair(old, c)
               /\ Meet(Fats(r), c) <=> Meet(Fats(old), c)
    <3>1. \A i \in c : r.rows[i].fat = old.rows[i].fat /\ r.rows[i].side = old.rows[i].side
      BY <1>2, CoupleFacts
    <3> QED BY <3>1, SamePairs
  <2> QED BY <2>1 DEF CandidatesOf
<1>4. r.candidates = CandidatesOf(r)
  BY <1>2, <1>3 DEF KeepsPairs
<1>5. Growns(r) = Growns(q) /\ Owners(r) = Owners(q)
  BY <1>2 DEF Growns, Owners
<1>6. ASSUME NEW c \in Couples, c \cap some = {}
      PROVE  Meet(Growns(q), c) <=> Meet(Growns(old), c)
  <2>1. c \subseteq Indices
    BY CoupleFacts
  <2>2. \A i \in c : Growns(q)[i] = Growns(old)[i]
    BY <1>6, <2>1 DEF Growns
  <2> QED BY <2>2 DEF Meet
<1>7. q.met = {c \in q.candidates : Meet(Growns(old), c)}
  BY DEF KeepsPairs
<1>8. q.candidates \subseteq Couples
  BY DEF Kept
<1>9. met = {c \in q.candidates : Meet(Growns(q), c)}
  <2>1. ASSUME NEW c
        PROVE c \in met <=> c \in q.candidates /\ Meet(Growns(q), c)
    BY <1>6, <1>7, <1>8
  <2> QED BY <2>1
<1>10. Owners(old) = Owners(q)
  BY DEF Owners
<1>11. out = Named(met, Owners(q))
  BY <1>10 DEF KeepsPairs
<1>12. KeepsPairs(r)
  BY <1>2, <1>4, <1>5, <1>9, <1>11 DEF KeepsPairs
<1>13. Repaired(r, q)
  BY <1>1, <1>2 DEF Repaired, Kept
<1> QED BY <1>2, <1>12, <1>13

(* A live pair whose fat boxes meet is among those a search of some of its *)
(* rows finds: it looks as far as a fat box can be.                        *)
LEMMA SearchFinds ==
  ASSUME TypeInv, NEW q, q.rows \in [Indices -> Row], \A i \in Indices : RowFits(q.rows[i], i),
         NEW some, NEW c \in CandidatesOf(q), c \cap some # {}
  PROVE  c \in Search(some)
<1> DEFINE wide == GrownBy(Grow + 2 * Margin)
<1>1. c \in Couples /\ c \subseteq Indices /\ LivePair(q, c) /\ Meet(Fats(q), c)
  BY CoupleFacts DEF CandidatesOf
<1>2. ASSUME NEW i \in c
      PROVE  i \in Covered /\ Covers(wide[i], q.rows[i].fat) /\ wide[i] \in Box /\ q.rows[i].fat \in Box
  <2>1. i \in Indices /\ q.rows[i].side # None /\ q.rows[i] \in Row
    BY <1>1 DEF LivePair
  <2>2. /\ i \in Covered /\ RowIs(q.rows[i], i, SideOf(i)) /\ Keeps(q.rows[i].fat, q.rows[i].grown)
    BY <2>1 DEF RowFits, Covered
  <2>3. q.rows[i].fat \in Box
    BY <2>1 DEF Row
  <2>4. box[i] \in Box /\ Grow \in Nat /\ Margin \in Nat
    BY <2>1, SideFacts, LiveAssumption
  <2>5. Grown(Grown(box[i], Grow), 2 * Margin) = wide[i]
    BY <2>2, <2>4, GrownTwice DEF GrownBy
  <2>6. Covers(wide[i], q.rows[i].fat)
    BY <2>2, <2>5 DEF RowIs, Keeps
  <2>7. wide[i] \in Box
    BY <2>2, <2>4, GrownIsBox DEF GrownBy
  <2> QED BY <2>2, <2>3, <2>6, <2>7
<1>3. ASSUME NEW i \in c, NEW j \in c, i # j
      PROVE  Overlaps(wide[i], wide[j])
  <2>1. Overlaps(q.rows[i].fat, q.rows[j].fat)
    BY <1>1, <1>3 DEF Meet, Fats
  <2> QED BY <1>2, <2>1, CoversMeets
<1>4. Meet(wide, c)
  BY <1>3 DEF Meet
<1> QED BY <1>1, <1>2, <1>4 DEF Search

(* Of rows that did not move, those that are there have the fat boxes and  *)
(* the sides they had.                                                     *)
Unmoved(q, old, moved) ==
  \A i \in Indices \ moved : q.rows[i].side # None =>
    q.rows[i].fat = old.rows[i].fat /\ q.rows[i].side = old.rows[i].side

(* The candidates there were, but those whose ends went or moved apart,    *)
(* and those found of the rows that moved are the candidates there are:    *)
(* or, when none were kept, those found of the active rows are.            *)
LEMMA MergedKeeps ==
  ASSUME TypeInv, NEW old \in Kept, old.kept => KeepsPairs(old),
         NEW q \in Kept, q.candidates = old.candidates, q.kept = old.kept,
         \A i \in Indices : RowFits(q.rows[i], i),
         NEW moved, Unmoved(q, old, moved)
  PROVE  \A r : r = Merged(q, moved, Search(IF q.kept THEN moved ELSE Actives)) =>
           KeepsPairs(r) /\ Repaired(r, q) /\ r.kept
<1> TAKE r
<1> HAVE r = Merged(q, moved, Search(IF q.kept THEN moved ELSE Actives))
<1> DEFINE found == Search(IF q.kept THEN moved ELSE Actives)
           before == IF q.kept THEN q.candidates ELSE {}
           new == {c \in found : LivePair(q, c) /\ Meet(Fats(q), c)}
           stays == {c \in before \union new : LivePair(q, c) /\ (c \cap moved # {} => Meet(Fats(q), c))}
           met == {c \in stays : Meet(Growns(q), c)}
<1>1. r = [q EXCEPT !.candidates = stays, !.met = met, !.out = Named(met, Owners(q)), !.kept = TRUE]
  BY DEF Merged
<1>2. /\ r.candidates = stays /\ r.met = met /\ r.out = Named(met, Owners(q)) /\ r.rows = q.rows
      /\ r.kept
  BY <1>1 DEF Kept
<1>3. ASSUME NEW c \in Couples, LivePair(q, c), c \cap moved = {}
      PROVE  /\ LivePair(old, c)
             /\ Meet(Fats(q), c) <=> Meet(Fats(old), c)
  <2>1. \A i \in c : i \in Indices /\ i \notin moved /\ q.rows[i].side # None
    BY <1>3, CoupleFacts DEF LivePair
  <2>2. \A i \in c : q.rows[i].fat = old.rows[i].fat /\ q.rows[i].side = old.rows[i].side
    BY <2>1 DEF Unmoved
  <2> QED BY <1>3, <2>2, SamePairs
<1>4. q.kept => before = CandidatesOf(old) /\ before \subseteq Couples
  BY DEF KeepsPairs, CandidatesOf
<1>5. found \subseteq Couples
  BY DEF Search
<1>6. stays \subseteq CandidatesOf(q)
  <2>1. SUFFICES ASSUME NEW c \in stays PROVE c \in CandidatesOf(q)
    OBVIOUS
  <2>2. c \in Couples /\ LivePair(q, c)
    BY <1>4, <1>5
  <2>3. Meet(Fats(q), c)
    <3>1. CASE c \in new
      BY <3>1
    <3>2. CASE c \cap moved # {}
      BY <3>2
    <3>3. CASE c \in before /\ c \cap moved = {}
      BY <1>3, <1>4, <2>2, <3>3 DEF CandidatesOf
    <3> QED BY <3>1, <3>2, <3>3
  <2> QED BY <2>2, <2>3 DEF CandidatesOf
<1>7. CandidatesOf(q) \subseteq stays
  <2>1. SUFFICES ASSUME NEW c \in CandidatesOf(q) PROVE c \in stays
    OBVIOUS
  <2>2. c \in Couples /\ c \subseteq Indices /\ LivePair(q, c) /\ Meet(Fats(q), c)
    BY CoupleFacts DEF CandidatesOf
  <2>3. c \in before \union new
    <3>1. CASE q.kept /\ c \cap moved = {}
      BY <1>3, <1>4, <2>2, <3>1 DEF CandidatesOf
    <3>2. CASE q.kept /\ c \cap moved # {}
      BY <2>2, <3>2, SearchFinds DEF Kept
    <3>3. CASE ~q.kept
      <4>1. PICK i \in c : q.rows[i].side = "active"
        BY <2>2 DEF LivePair
      <4>2. i \in Indices /\ SideOf(i) = "active"
        BY <2>2, <4>1 DEF RowFits, RowIs, None
      <4>3. i \in Actives
        BY <4>2 DEF Actives, Here, SideOf, None
      <4>4. c \in Search(Actives)
        BY <2>1, <4>3, SearchFinds DEF Kept
      <4> QED BY <2>2, <3>3, <4>4
    <3> QED BY <3>1, <3>2, <3>3
  <2> QED BY <2>2, <2>3
<1>8. stays = CandidatesOf(q)
  BY <1>6, <1>7
<1>9. CandidatesOf(r) = CandidatesOf(q) /\ Growns(r) = Growns(q) /\ Owners(r) = Owners(q)
  BY <1>2 DEF CandidatesOf, LivePair, Fats, Growns, Owners
<1>10. KeepsPairs(r)
  BY <1>2, <1>8, <1>9 DEF KeepsPairs
<1>11. Repaired(r, q)
  BY <1>1, <1>2 DEF Repaired, Kept
<1> QED BY <1>2, <1>10, <1>11

-----------------------------------------------------------------------------
(* How many rows or candidates there are is a number: a call of few rows   *)
(* tests theirs, one of more all.                                          *)
LEMMA HowMany ==
  ASSUME NEW some \in SUBSET Indices, NEW couples \in SUBSET Couples
  PROVE  Cardinality(some) * Few \in Nat /\ Cardinality(couples) \in Nat
<1>1. IsFiniteSet(Indices) /\ Few \in Nat
  BY LiveAssumption
<1>2. IsFiniteSet(SUBSET Indices)
  BY <1>1, FS_SUBSET
<1>3. couples \subseteq SUBSET Indices
  BY DEF Couples
<1>4. IsFiniteSet(some) /\ IsFiniteSet(couples)
  BY <1>1, <1>2, <1>3, FS_Subset
<1>5. Cardinality(some) \in Nat /\ Cardinality(couples) \in Nat
  BY <1>4, FS_CardinalityType
<1> QED BY <1>1, <1>5

LEMMA NamedType ==
  ASSUME NEW couples \in SUBSET Couples, NEW of \in [Indices -> Nat]
  PROVE  Named(couples, of) \in SUBSET SUBSET (Indices \X Nat)
<1>1. SUFFICES ASSUME NEW c \in couples, NEW i \in c PROVE <<i, of[i]>> \in Indices \X Nat
  BY DEF Named
<1> QED BY CoupleFacts

(* What is answered afresh, and how long the next walks are put off.       *)
LEMMA NearPairsType ==
  ASSUME TypeInv
  PROVE  NearPairs \in SUBSET SUBSET (Indices \X Nat)
BY NamedType DEF NearPairs, TypeInv

LEMMA LongerType ==
  ASSUME NEW q \in Kept
  PROVE  Longer(q) \in Int
<1>1. 2 * q.wait \in Int /\ MaxWait \in Int
  BY LiveAssumption DEF Kept
<1>2. Max({1, 2 * q.wait}) \in Int
  BY <1>1, GreatestOfTwo
<1> QED BY <1>1, <1>2, LeastOfTwo DEF Longer

(* What is kept of rows that fit and are paired as they should be answers  *)
(* what near_pairs does.                                                   *)
LEMMA KeptAnswers ==
  ASSUME TypeInv, NEW q \in Kept, \A i \in Indices : RowFits(q.rows[i], i), KeepsPairs(q)
  PROVE  q.out = NearPairs
BY Answer DEF KeepsPairs, Kept

(* A call after its walk: whichever way it goes, it answers NearPairs, and *)
(* what it keeps of pairs is right, or nothing.                            *)
Outcome(r, k) ==
  /\ r \in Kept /\ r.out = NearPairs
  /\ r.sides = k.sides /\ r.pages = k.pages /\ r.rows = k.rows /\ r.fresh = k.fresh
  /\ r.kept => ~(r.skip > 0) /\ KeepsPairs(r)

LEMMA PairsFound ==
  ASSUME TypeInv, NEW was \in Kept, CandidatesInv(was), ~(was.skip > 0),
         NEW w, Rests(was, w), \A i \in Indices : RowFits(w.kept.rows[i], i), w.kept \in Kept
  PROVE  Outcome(Found(w), w.kept)
<1>a. PICK q : q = [w.kept EXCEPT !.wait = 0]
  OBVIOUS
<1>b. PICK r : r = Found(w)
  OBVIOUS
<1> DEFINE still == q.kept /\ w.moved = {} /\ w.lost = {}
<1>1. /\ q \in Kept /\ q.rows = w.kept.rows /\ q.sides = w.kept.sides /\ q.pages = w.kept.pages
      /\ q.fresh = w.kept.fresh /\ q.skip = w.kept.skip /\ q.kept = w.kept.kept
      /\ q.candidates = w.kept.candidates /\ q.met = w.kept.met /\ q.out = w.kept.out
  BY <1>a DEF Kept
<1>2. /\ w.kept.candidates = was.candidates /\ w.kept.met = was.met /\ w.kept.out = was.out
      /\ w.kept.kept = was.kept /\ w.kept.skip = was.skip
  BY DEF Rests, Kept
<1>3. was.kept => KeepsPairs(was)
  BY DEF CandidatesInv, KeepsPairs
<1>4. ASSUME still
      PROVE  \/ r = Retested(q, w.touched)
             \/ r = Retested(q, Indices)
  <2>1. w.touched \in SUBSET Indices /\ q.candidates \in SUBSET Couples
    BY <1>1 DEF Rests, Kept
  <2>2. Cardinality(w.touched) * Few \in Nat /\ Cardinality(q.candidates) \in Nat
    BY <2>1, HowMany
  <2>3. \/ Cardinality(w.touched) * Few < Cardinality(q.candidates)
        \/ Cardinality(w.touched) * Few >= Cardinality(q.candidates)
    BY <2>2
  <2> QED BY <1>a, <1>b, <1>4, <2>3 DEF Found
<1>5. ASSUME ~still
      PROVE  r = Merged(q, w.moved, Search(IF q.kept THEN w.moved ELSE Actives))
  BY <1>a, <1>b, <1>5 DEF Found
<1>6. CASE still
  <2>1. /\ KeepsPairs(was)
        /\ \A i \in Indices :
             /\ q.rows[i].fat = was.rows[i].fat /\ q.rows[i].side = was.rows[i].side
             /\ q.rows[i].generation = was.rows[i].generation
             /\ i \notin w.touched => q.rows[i] = was.rows[i]
    BY <1>1, <1>2, <1>3, <1>6 DEF Rests
  <2>2. PICK some \in SUBSET Indices : r = Retested(q, some) /\ w.touched \subseteq some
    BY <1>4, <1>6 DEF Rests
  <2>3. KeepsPairs(r) /\ Repaired(r, q) /\ r.kept = q.kept
    <3>1. q.candidates = was.candidates /\ q.met = was.met /\ q.out = was.out
      BY <1>1, <1>2
    <3>2. \A i \in Indices :
            /\ q.rows[i].fat = was.rows[i].fat /\ q.rows[i].side = was.rows[i].side
            /\ q.rows[i].generation = was.rows[i].generation
            /\ i \notin some => q.rows[i] = was.rows[i]
      BY <2>1, <2>2
    <3>3. q \in Kept /\ KeepsPairs(was) /\ r = Retested(q, some)
      BY <1>1, <2>1, <2>2
    <3> QED BY <3>1, <3>2, <3>3, RetestedKeeps
  <2>4. /\ r.sides = q.sides /\ r.pages = q.pages /\ r.rows = q.rows /\ r.fresh = q.fresh
        /\ r.skip = q.skip
    BY <1>1, <2>3 DEF Kept, Repaired
  <2>5. r \in Kept
    <3>1. r.candidates \in SUBSET Couples /\ r.met \in SUBSET Couples
      BY <2>3 DEF KeepsPairs, CandidatesOf
    <3>2. Owners(r) \in [Indices -> Nat]
      BY <1>1, <2>4 DEF Owners, Kept, Row
    <3>3. r.out \in SUBSET SUBSET (Indices \X Nat)
      BY <2>3, <3>1, <3>2, NamedType DEF KeepsPairs
    <3> QED BY <1>1, <2>3, <3>1, <3>3 DEF Kept, Repaired
  <2>6. r.out = NearPairs
    BY <1>1, <2>3, <2>4, <2>5, KeptAnswers
  <2> QED BY <1>1, <1>2, <2>3, <2>4, <2>5, <2>6, <1>b DEF Outcome
<1>7. CASE ~still
  <2>1. KeepsPairs(r) /\ Repaired(r, q) /\ r.kept
    <3>1. Unmoved(q, was, w.moved)
      BY <1>1 DEF Rests, Unmoved
    <3>2. q.candidates = was.candidates /\ q.kept = was.kept /\ \A i \in Indices : RowFits(q.rows[i], i)
      BY <1>1, <1>2
    <3>3. /\ q \in Kept
          /\ was.kept => KeepsPairs(was)
          /\ r = Merged(q, w.moved, Search(IF q.kept THEN w.moved ELSE Actives))
      BY <1>1, <1>3, <1>5, <1>7
    <3> QED BY <3>1, <3>2, <3>3, MergedKeeps
  <2>2. /\ r.sides = q.sides /\ r.pages = q.pages /\ r.rows = q.rows /\ r.fresh = q.fresh
        /\ r.skip = q.skip
    BY <1>1, <2>1 DEF Kept, Repaired
  <2>3. r \in Kept
    <3>1. r.candidates \in SUBSET Couples /\ r.met \in SUBSET Couples
      BY <2>1 DEF KeepsPairs, CandidatesOf
    <3>2. Owners(r) \in [Indices -> Nat]
      BY <1>1, <2>2 DEF Owners, Kept, Row
    <3>3. r.out \in SUBSET SUBSET (Indices \X Nat)
      BY <2>1, <3>1, <3>2, NamedType DEF KeepsPairs
    <3> QED BY <1>1, <2>1, <3>1, <3>3 DEF Kept, Repaired
  <2>4. r.out = NearPairs
    BY <1>1, <2>1, <2>2, <2>3, KeptAnswers
  <2> QED BY <1>1, <1>2, <2>1, <2>2, <2>3, <2>4, <1>b DEF Outcome
<1> QED BY <1>b, <1>6, <1>7

(* Nothing that changed is of the relation: what it kept is the answer.    *)
LEMMA NothingFound ==
  ASSUME TypeInv, NEW was \in Kept, CandidatesInv(was), ~(was.skip > 0), was.kept,
         NEW w, Rests(was, w), \A i \in Indices : RowFits(w.kept.rows[i], i), w.kept \in Kept,
         w.moved \union w.touched \union w.lost = {}
  PROVE  Outcome(w.kept, w.kept)
<1>1. /\ w.kept.candidates = was.candidates /\ w.kept.met = was.met /\ w.kept.out = was.out
      /\ w.kept.skip = was.skip
  BY DEF Rests, Kept
<1>2. w.kept.rows = was.rows
  <2>1. \A i \in Indices : w.kept.rows[i] = was.rows[i]
    BY DEF Rests
  <2>2. w.kept.rows \in [Indices -> Row] /\ was.rows \in [Indices -> Row]
    BY DEF Kept
  <2> QED BY <2>1, <2>2
<1>3. KeepsPairs(w.kept)
  BY <1>1, <1>2 DEF CandidatesInv, KeepsPairs, CandidatesOf, LivePair, Fats, Growns, Owners
<1>4. w.kept.out = NearPairs
  BY <1>3, KeptAnswers
<1> QED BY <1>1, <1>3, <1>4 DEF Outcome

LEMMA FoundAfreshAnswers ==
  ASSUME TypeInv, NEW q \in Kept, NEW wasFresh
  PROVE  Outcome(FoundAfresh(q, wasFresh), q)
<1> DEFINE r == [q EXCEPT !.out = NearPairs, !.kept = FALSE, !.candidates = {}, !.met = {}]
<1>1. r \in Kept
  BY NearPairsType DEF Kept
<1>2. /\ r.out = NearPairs /\ ~r.kept /\ r.sides = q.sides /\ r.pages = q.pages
      /\ r.rows = q.rows /\ r.fresh = q.fresh
  BY DEF Kept
<1>3. Longer(q) \in Int
  BY LongerType
<1> DEFINE l == [r EXCEPT !.wait = Longer(q), !.skip = Longer(q)]
<1>4. FoundAfresh(q, wasFresh) = IF wasFresh THEN r ELSE l
  BY DEF FoundAfresh
<1> HIDE DEF r
<1>5. CASE wasFresh
  <2>1. FoundAfresh(q, wasFresh) = r
    BY <1>4, <1>5
  <2> QED BY <1>1, <1>2, <2>1 DEF Outcome
<1>6. CASE ~wasFresh
  <2>1. FoundAfresh(q, wasFresh) = l
    BY <1>4, <1>6
  <2>2. l \in Kept /\ l.out = r.out /\ l.kept = r.kept /\ l.sides = r.sides
    BY <1>1, <1>3 DEF Kept
  <2>3. l.pages = r.pages /\ l.rows = r.rows /\ l.fresh = r.fresh
    BY <1>1 DEF Kept
  <2> QED BY <1>2, <2>1, <2>2, <2>3 DEF Outcome
<1> QED BY <1>5, <1>6

(* A call that walks answers what near_pairs does.                         *)
LEMMA AfterWalkAnswers ==
  ASSUME TypeInv, NEW was, Walks(was), CandidatesInv(was), ~(was.skip > 0)
  PROVE  Outcome(AfterWalk(was, Walk(was)), Walk(was).kept) /\ Fits(Walk(was).kept)
<1>a. PICK w : w = Walk(was)
  OBVIOUS
<1>1. Fits(w.kept) /\ Rests(was, w)
  BY <1>a, WalkFits
<1>2. was \in Kept /\ w.kept \in Kept
  <2> DEFINE e == [was EXCEPT !.fresh = FALSE, !.pages = w.kept.pages, !.rows = w.kept.rows]
  <2>1. was \in Kept
    BY DEF Walks
  <2>2. w.kept.pages \in [Pages -> SUBSET Indices] /\ w.kept.rows \in [Indices -> Row] /\ w.kept = e
    BY <1>1 DEF Rests
  <2>3. e \in Kept
    BY <2>1, <2>2 DEF Kept
  <2> QED BY <2>1, <2>2, <2>3
<1>3. \A i \in Indices : RowFits(w.kept.rows[i], i)
  BY <1>1 DEF Fits
<1>4. CASE was.kept /\ ~was.fresh /\ w.moved \union w.touched \union w.lost = {}
  <2>1. AfterWalk(was, w) = w.kept
    BY <1>4 DEF AfterWalk
  <2> QED BY <1>a, <1>1, <1>2, <1>3, <1>4, <2>1, NothingFound
<1>5. CASE ~(was.kept /\ ~was.fresh /\ w.moved \union w.touched \union w.lost = {})
  <2>1. AfterWalk(was, w) = FoundAfresh(w.kept, was.fresh) \/ AfterWalk(was, w) = Found(w)
    BY <1>5 DEF AfterWalk
  <2>2. Outcome(FoundAfresh(w.kept, was.fresh), w.kept)
    BY <1>2, FoundAfreshAnswers
  <2>3. Outcome(Found(w), w.kept)
    BY <1>1, <1>2, <1>3, PairsFound
  <2> QED BY <1>a, <1>1, <2>1, <2>2, <2>3
<1> QED BY <1>4, <1>5

-----------------------------------------------------------------------------
(* What a call begins with walks: what is kept, or, of a relation reloaded *)
(* with other sides, nothing.                                              *)
LEMMA CurrentWalks ==
  ASSUME IInv
  PROVE  Walks(Current) /\ CandidatesInv(Current)
<1>1. CASE pairs.sides = sides
  BY <1>1 DEF Current, Walks, IInv, TypeInv
<1>2. CASE pairs.sides # sides
  <2> DEFINE q == StartedOver(sides)
  <2>1. q \in Kept /\ q.sides = sides
    BY DEF StartedOver, Kept, Gone, NoBox, Row, Box, Sides, IInv, TypeInv
  <2>2. PagesInv(q) /\ FollowsInv(q) /\ CandidatesInv(q)
    BY DEF StartedOver, PagesInv, FollowsInv, CandidatesInv, Gone, SideIn
  <2> QED BY <1>2, <2>1, <2>2 DEF Current, Walks
<1> QED BY <1>1, <1>2

(* A call: it answers what near_pairs does; and, if it walks, every row    *)
(* fits after it.                                                          *)
LEMMA UpdateAnswers ==
  ASSUME IInv
  PROVE  /\ Update \in Kept /\ Update.out = NearPairs /\ CandidatesInv(Update)
         /\ Current.skip > 0 => /\ Update.pages = Current.pages /\ Update.rows = Current.rows
                                /\ Update.fresh = Current.fresh /\ Update.sides = Current.sides
                                /\ Update.kept = Current.kept
         /\ ~(Current.skip > 0) => Fits(Update)
<1>a. PICK q : q = Current
  OBVIOUS
<1>b. PICK u : u = Update
  OBVIOUS
<1>1. Walks(q) /\ CandidatesInv(q) /\ q \in Kept /\ TypeInv
  BY <1>a, CurrentWalks DEF Walks, IInv
<1>2. CASE q.skip > 0
  <2>0. Current.skip > 0
    BY <1>a, <1>2
  <2>1. u = [Current EXCEPT !.skip = @ - 1, !.out = NearPairs]
    <3>1. Update = IF Current.skip > 0 THEN [Current EXCEPT !.skip = @ - 1, !.out = NearPairs]
                   ELSE AfterWalk(Current, Walk(Current))
      BY Zenon DEF Update
    <3>2. Update = [Current EXCEPT !.skip = @ - 1, !.out = NearPairs]
      BY <2>0, <3>1
    <3> QED BY <1>b, <3>2, Zenon
  <2>2. u \in Kept
    <3>1. Current \in Kept /\ NearPairs \in SUBSET SUBSET (Indices \X Nat)
      BY <1>a, <1>1, NearPairsType
    <3>2. Current.skip - 1 \in Int
      BY <3>1 DEF Kept
    <3> QED BY <2>1, <3>1, <3>2 DEF Kept
  <2>3. /\ u.out = NearPairs /\ u.pages = q.pages /\ u.rows = q.rows /\ u.fresh = q.fresh
        /\ u.sides = q.sides /\ u.kept = q.kept
    BY <1>a, <1>1, <2>1 DEF Kept
  <2>4. CandidatesInv(u)
    BY <1>1, <1>2, <2>3 DEF CandidatesInv
  <2> QED BY <1>a, <1>b, <1>2, <2>2, <2>3, <2>4
<1>3. CASE ~(q.skip > 0)
  <2>1. u = AfterWalk(q, Walk(q))
    BY <1>a, <1>b, <1>3 DEF Update
  <2>2. Outcome(u, Walk(q).kept) /\ Fits(Walk(q).kept)
    BY <1>1, <1>3, <2>1, AfterWalkAnswers
  <2>3. Fits(u)
    BY <2>2 DEF Fits, Outcome
  <2>4. CandidatesInv(u)
    BY <2>2 DEF Outcome, CandidatesInv, KeepsPairs
  <2> QED BY <1>a, <1>b, <1>3, <2>2, <2>3, <2>4 DEF Outcome
<1> QED BY <1>2, <1>3

(* A walk that is done is one the next follows.                            *)
LEMMA FitsIsKept ==
  ASSUME TypeInv, NEW q \in Kept, Fits(q)
  PROVE  /\ PagesInv(q)
         /\ \A p \in Pages : SideIn(q, p) # None =>
              /\ q.pages[p] = {i \in Indices : at[i] = p}
              /\ \A i \in q.pages[p] : RowIs(q.rows[i], i, SideIn(q, p))
         /\ \A p \in Pages : \A i \in q.pages[p] : at[i] # None /\ TableOf[at[i]] = TableOf[p]
<1>1. \A p \in Pages : SideIn(q, p) = sides[TableOf[p]]
  BY DEF SideIn, Fits
<1>2. ASSUME NEW p \in Pages, NEW i \in q.pages[p]
      PROVE  i \in Indices /\ at[i] = p /\ at[i] # None /\ SideIn(q, p) # None /\ SideOf(i) = SideIn(q, p)
  <2>1. i \in Indices /\ at[i] = p /\ sides[TableOf[p]] # None
    BY <1>2 DEF Fits
  <2> QED BY <1>1, <2>1, LiveAssumption DEF SideOf
<1>3. ASSUME NEW p \in Pages, SideIn(q, p) # None
      PROVE  /\ q.pages[p] = {i \in Indices : at[i] = p}
             /\ \A i \in q.pages[p] : RowIs(q.rows[i], i, SideIn(q, p))
  <2>1. q.pages[p] = {i \in Indices : at[i] = p}
    BY <1>1, <1>3 DEF Fits
  <2>2. ASSUME NEW i \in q.pages[p] PROVE RowIs(q.rows[i], i, SideIn(q, p))
    <3>1. RowFits(q.rows[i], i)
      BY <1>2, <2>2 DEF Fits
    <3> QED BY <1>2, <2>2, <3>1 DEF RowFits
  <2> QED BY <2>1, <2>2
<1>4. ASSUME NEW i \in Indices, q.rows[i].side # None
      PROVE  (\E p \in Pages : i \in q.pages[p]) /\ Keeps(q.rows[i].fat, q.rows[i].grown)
  <2>1. SideOf(i) # None /\ Keeps(q.rows[i].fat, q.rows[i].grown)
    BY <1>4 DEF Fits, RowFits
  <2>2. at[i] \in Pages /\ sides[TableOf[at[i]]] # None
    BY <2>1, SideFacts
  <2>3. i \in q.pages[at[i]]
    BY <2>2 DEF Fits
  <2> QED BY <2>1, <2>2, <2>3
<1>5. PagesInv(q)
  <2>1. ~q.fresh
    BY DEF Fits
  <2>2. \A p \in Pages : SideIn(q, p) = None => q.pages[p] = {}
    BY <1>2
  <2>3. \A p1, p2 \in Pages : \A i \in q.pages[p1] : i \in q.pages[p2] => p1 = p2
    BY <1>2
  <2> QED BY <1>4, <2>1, <2>2, <2>3 DEF PagesInv
<1> QED BY <1>2, <1>3, <1>5

(* What a call keeps, it keeps of the tables as they were at its walk.     *)
LEMMA CallKeeps ==
  ASSUME IInv, Call
  PROVE  IInv'
<1>1. TypeInv /\ Walks(Current) /\ UNCHANGED <<at, box, generation, sides>> /\ pairs' = Update
  BY CurrentWalks DEF Call, IInv
<1>2. PICK u : u = Update
  OBVIOUS
<1>3. pairs' = u /\ u \in Kept /\ CandidatesInv(u)
  BY <1>1, <1>2, UpdateAnswers
<1>4. CASE Current.skip > 0
  <2>1. UNCHANGED <<changed, left>>
    BY <1>4 DEF Call
  <2>2. /\ u.pages = Current.pages /\ u.rows = Current.rows /\ u.fresh = Current.fresh
        /\ u.sides = Current.sides /\ u.kept = Current.kept
    BY <1>2, <1>4, UpdateAnswers
  <2>3. PagesInv(u) /\ FollowsInv(u)
    BY <1>1, <2>2 DEF Walks, PagesInv, FollowsInv, SideIn
  <2>4. TypeInv'
    BY <1>1, <1>3, <2>1 DEF TypeInv
  <2>5. PagesInv(pairs)' /\ CandidatesInv(pairs)'
    BY <1>3, <2>3 DEF PagesInv, CandidatesInv, SideIn, CandidatesOf
  <2>6. FollowsInv(pairs)'
    BY <1>1, <1>3, <2>1, <2>3 DEF FollowsInv, SideIn, RowIs
  <2> QED BY <2>4, <2>5, <2>6 DEF IInv
<1>5. CASE ~(Current.skip > 0)
  <2>1. changed' = {} /\ left' = FALSE
    BY <1>5 DEF Call
  <2>2. Fits(u)
    BY <1>2, <1>5, UpdateAnswers
  <2>3. TypeInv'
    BY <1>1, <1>3, <2>1 DEF TypeInv
  <2>4. PagesInv(pairs)' /\ CandidatesInv(pairs)'
    <3>1. PagesInv(u)
      BY <1>1, <1>3, <2>2, FitsIsKept
    <3> QED BY <1>3, <3>1 DEF PagesInv, CandidatesInv, SideIn, CandidatesOf
  <2>5. FollowsInv(pairs)'
    <3>1. /\ \A p \in Pages : SideIn(u, p) # None =>
               /\ u.pages[p] = {i \in Indices : at[i] = p}
               /\ \A i \in u.pages[p] : RowIs(u.rows[i], i, SideIn(u, p))
          /\ \A p \in Pages : \A i \in u.pages[p] : at[i] # None /\ TableOf[at[i]] = TableOf[p]
      BY <1>1, <1>3, <2>2, FitsIsKept
    <3> QED BY <1>1, <1>3, <3>1 DEF FollowsInv, SideIn, RowIs
  <2> QED BY <2>3, <2>4, <2>5 DEF IInv
<1> QED BY <1>4, <1>5

(* The tables stamp the pages whose rows they change: of the others, the   *)
(* walk there was still tells.                                             *)
LEMMA StampsKeep ==
  ASSUME IInv, TypeInv', NEW i \in Indices, UNCHANGED pairs, changed \subseteq changed',
         left' \/ (~left /\ (at[i] # None => at'[i] # None /\ TableOf[at'[i]] = TableOf[at[i]])),
         \A j \in Indices \ {i} : at'[j] = at[j] /\ box'[j] = box[j] /\ generation'[j] = generation[j],
         \A p \in Pages : at[i] = p \/ at'[i] = p => p \in changed'
  PROVE  IInv'
<1>1. PagesInv(pairs)' /\ CandidatesInv(pairs)'
  BY DEF IInv, PagesInv, CandidatesInv, SideIn, CandidatesOf
<1>2. FollowsInv(pairs)'
  <2>1. SUFFICES ASSUME ~pairs.fresh
        PROVE  /\ \A p \in Pages \ changed' : SideIn(pairs, p) # None =>
                    /\ pairs.pages[p] = {j \in Indices : at'[j] = p}
                    /\ \A j \in pairs.pages[p] : RowIs(pairs.rows[j], j, SideIn(pairs, p))'
               /\ ~left' => \A p \in Pages : \A j \in pairs.pages[p] : at'[j] # None /\ TableOf[at'[j]] = TableOf[p]
    BY DEF FollowsInv, SideIn, RowIs
  <2>2. ASSUME NEW p \in Pages \ changed', SideIn(pairs, p) # None
        PROVE  /\ pairs.pages[p] = {j \in Indices : at'[j] = p}
               /\ \A j \in pairs.pages[p] : RowIs(pairs.rows[j], j, SideIn(pairs, p))'
    <3>1. /\ pairs.pages[p] = {j \in Indices : at[j] = p}
          /\ \A j \in pairs.pages[p] : RowIs(pairs.rows[j], j, SideIn(pairs, p))
      BY <2>1, <2>2 DEF IInv, FollowsInv
    <3>2. at[i] # p /\ at'[i] # p
      BY <2>2
    <3>3. pairs.pages[p] = {j \in Indices : at'[j] = p}
      BY <3>1, <3>2
    <3>4. ASSUME NEW j \in pairs.pages[p] PROVE RowIs(pairs.rows[j], j, SideIn(pairs, p))'
      <4>1. j \in Indices \ {i} /\ RowIs(pairs.rows[j], j, SideIn(pairs, p))
        BY <3>1, <3>2, <3>4
      <4>2. generation'[j] = generation[j] /\ box'[j] = box[j]
        BY <4>1
      <4> QED BY <4>1, <4>2 DEF RowIs, SideIn
    <3> QED BY <3>3, <3>4
  <2>3. ASSUME ~left', NEW p \in Pages, NEW j \in pairs.pages[p]
        PROVE  at'[j] # None /\ TableOf[at'[j]] = TableOf[p]
    <3>1. at[j] # None /\ TableOf[at[j]] = TableOf[p] /\ j \in Indices
      BY <2>1, <2>3 DEF IInv, FollowsInv, TypeInv, Kept
    <3> QED BY <2>3, <3>1
  <2> QED BY <2>2, <2>3
<1> QED BY <1>1, <1>2 DEF IInv

LEMMA InitKeeps ==
  ASSUME Init
  PROVE  IInv
<1>1. pairs = StartedOver(sides) /\ sides \in Relations
  BY DEF Init
<1>2. TypeInv
  <2>1. StartedOver(sides) \in Kept
    BY <1>1 DEF StartedOver, Kept, Gone, NoBox, Row, Box, Sides
  <2>2. NoBox \in Box
    BY DEF NoBox, Box
  <2>3. /\ at = [i \in Indices |-> None] /\ box = [i \in Indices |-> NoBox]
        /\ generation = [i \in Indices |-> 1] /\ changed = {} /\ left = FALSE
    BY DEF Init
  <2> QED BY <1>1, <2>1, <2>2, <2>3 DEF TypeInv
<1>3. PagesInv(StartedOver(sides)) /\ FollowsInv(StartedOver(sides)) /\ CandidatesInv(StartedOver(sides))
  BY DEF StartedOver, PagesInv, FollowsInv, CandidatesInv, Gone, SideIn
<1> QED BY <1>1, <1>2, <1>3 DEF IInv

LEMMA NextKeeps ==
  ASSUME IInv, [Next]_vars
  PROVE  IInv'
<1>0. TypeInv
  BY DEF IInv
<1>1. CASE Call
  BY <1>1, CallKeeps
<1>2. ASSUME NEW i \in Indices, NEW p \in Pages, NEW b \in Boxes, Resort(i, p, b)
      PROVE  IInv'
  <2>1. b \in Box
    BY LiveAssumption DEF Box
  <2>2. TypeInv'
    BY <1>0, <1>2, <2>1 DEF Resort, Change, TypeInv
  <2>3. at'[i] = p /\ at[i] # None /\ TableOf[p] = TableOf[at[i]] /\ p # None
    BY <1>0, <1>2, LiveAssumption DEF Resort, TypeInv
  <2> QED BY <1>0, <1>2, <2>2, <2>3, StampsKeep DEF Resort, Change, TypeInv
<1>3. ASSUME NEW i \in Indices, NEW p \in Pages, NEW b \in Boxes, Spawn(i, p, b)
      PROVE  IInv'
  <2>1. b \in Box
    BY LiveAssumption DEF Box
  <2>2. TypeInv'
    BY <1>0, <1>3, <2>1 DEF Spawn, Change, TypeInv
  <2>3. at'[i] = p /\ at[i] = None
    BY <1>0, <1>3 DEF Spawn, TypeInv
  <2> QED BY <1>0, <1>3, <2>2, <2>3, LiveAssumption, StampsKeep DEF Spawn, Change, TypeInv
<1>4. ASSUME NEW i \in Indices, NEW p \in Pages, Transfer(i, p)
      PROVE  IInv'
  <2>1. TypeInv'
    BY <1>0, <1>4 DEF Transfer, Change, TypeInv
  <2>2. at'[i] = p /\ left'
    BY <1>0, <1>4 DEF Transfer, TypeInv
  <2> QED BY <1>0, <1>4, <2>1, <2>2, StampsKeep DEF Transfer, Change, TypeInv
<1>5. ASSUME NEW i \in Indices, Despawn(i)
      PROVE  IInv'
  <2>1. NoBox \in Box
    BY DEF NoBox, Box
  <2>2. TypeInv'
    BY <1>0, <1>5, <2>1 DEF Despawn, TypeInv
  <2>3. at'[i] = None /\ left'
    BY <1>0, <1>5 DEF Despawn, TypeInv
  <2> QED BY <1>0, <1>5, <2>2, <2>3, LiveAssumption, StampsKeep DEF Despawn, TypeInv
<1>6. ASSUME NEW s \in Relations, Reload(s)
      PROVE  IInv'
  BY <1>6 DEF Reload, IInv, TypeInv, PagesInv, FollowsInv, CandidatesInv, SideIn, RowIs, CandidatesOf
<1>7. CASE UNCHANGED vars
  BY <1>7 DEF vars, IInv, TypeInv, PagesInv, FollowsInv, CandidatesInv, SideIn, RowIs, CandidatesOf
<1> QED BY <1>1, <1>2, <1>3, <1>4, <1>5, <1>6, <1>7 DEF Next

-----------------------------------------------------------------------------
(* What is kept since a walk, while nothing changed, is as Pairs::check    *)
(* has it.                                                                 *)
LEMMA FollowedIsKept ==
  ASSUME IInv
  PROVE  KeptAsChecked
<1>1. SUFFICES ASSUME ~pairs.fresh, changed = {}, pairs.sides = sides
      PROVE  KeepsTheRows /\ (pairs.kept => KeepsCandidates)
  BY DEF KeptAsChecked
<1>2. pairs.kept => KeepsCandidates
  BY DEF IInv, CandidatesInv, KeepsCandidates, CandidatesOf
<1>3. ASSUME NEW p \in Pages, SideIn(pairs, p) # None
      PROVE  /\ pairs.pages[p] = {i \in Indices : at[i] = p}
             /\ \A i \in pairs.pages[p] : RowIs(pairs.rows[i], i, SideIn(pairs, p))
  BY <1>1, <1>3 DEF IInv, FollowsInv
<1>4. \A p \in Pages : SideIn(pairs, p) = sides[TableOf[p]]
  BY <1>1 DEF SideIn
<1>5. ASSUME NEW i \in Indices
      PROVE  /\ pairs.rows[i].side = SideOf(i)
             /\ i \in Covered =>
                  /\ pairs.rows[i].generation = generation[i]
                  /\ pairs.rows[i].grown = Grown(box[i], Grow)
                  /\ Keeps(pairs.rows[i].fat, pairs.rows[i].grown)
  <2>1. TypeInv
    BY DEF IInv
  <2>2. CASE SideOf(i) # None
    <3>1. at[i] \in Pages /\ SideOf(i) = sides[TableOf[at[i]]]
      BY <2>1, <2>2, SideFacts
    <3>2. RowIs(pairs.rows[i], i, SideOf(i))
      BY <1>3, <1>4, <2>2, <3>1
    <3> QED BY <2>2, <3>2 DEF RowIs, IInv, PagesInv
  <2>3. CASE SideOf(i) = None
    <3>1. SUFFICES ASSUME pairs.rows[i].side # None PROVE FALSE
      BY <2>3 DEF Covered
    <3>2. PICK p \in Pages : i \in pairs.pages[p]
      BY <3>1 DEF IInv, PagesInv
    <3>3. SideIn(pairs, p) # None
      BY <3>2 DEF IInv, PagesInv
    <3>4. at[i] = p
      BY <1>3, <3>2, <3>3
    <3> QED BY <1>4, <2>3, <3>3, <3>4, LiveAssumption DEF SideOf
  <2> QED BY <2>2, <2>3
<1> QED BY <1>2, <1>5 DEF KeepsTheRows

(* The invariant holds of every state of every relation over any tables.   *)
THEOREM LiveIsKept == Spec => []IInv
<1>1. Init => IInv
  BY InitKeeps
<1>2. IInv /\ [Next]_vars => IInv'
  BY NextKeeps
<1> QED BY <1>1, <1>2, PTL DEF Spec

(* A call answers what near_pairs does, found afresh, at any time, however *)
(* much changed since the last and however that found its pairs: walk,     *)
(* stamps, fat boxes, retests, merges and walks put off (live.rs).         *)
THEOREM LiveIsExact == Spec => []Exact
<1>1. IInv => Exact
  BY UpdateAnswers DEF Exact
<1> QED BY <1>1, LiveIsKept, PTL

(* What is kept is what Pairs::check recomputes, while nothing changed     *)
(* since the last walk (live.rs check).                                    *)
THEOREM LiveIsAsChecked == Spec => []KeptAsChecked
<1>1. IInv => KeptAsChecked
  BY FollowedIsKept
<1> QED BY <1>1, LiveIsKept, PTL
=============================================================================
