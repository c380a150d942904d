-------------------------- MODULE FrameGraphProofs --------------------------
(***************************************************************************)
(* The overlap rules (src/engine/ecs/graph.rs) are sound, for any world,   *)
(* systems and footprints: nodes that take conflicting guards overlap.     *)
(* What they say of a shape is exact.  And a frame on any number of        *)
(* threads (src/engine/ecs/harness.rs) is never stuck with all of them     *)
(* waiting (HarnessGoesOn).                                                *)
(***************************************************************************)
EXTENDS Harness, WellFoundedInduction, FiniteSetTheorems, TLAPS

OfShape(t, shape) == shape.lower \subseteq t /\ t \subseteq shape.upper

(* The tables of a footprint once its system has run (exact) are concrete, *)
(* which run_node asserts.                                                 *)
Concrete(fp) == \A shape \in ToSet(fp.tables) : shape.lower = shape.upper

(* A query that matches any table of a shape meets the shape (meets).      *)
THEOREM MeetsSound ==
  ASSUME NEW shape, NEW q, NEW t, OfShape(t, shape), Matches(q, t)
  PROVE  Meets(shape, q)
BY DEF OfShape, Matches, Meets

(* And it meets none but those of which it matches some table: a footprint *)
(* is no wider than its shapes.                                            *)
THEOREM MeetsComplete ==
  ASSUME NEW shape, NEW q, shape.lower \subseteq shape.upper, Meets(shape, q),
         TableWith(q) \intersect TableWithout(q) = {}
  PROVE  \E t : OfShape(t, shape) /\ Matches(q, t)
<1>1. OfShape(shape.lower \union TableWith(q), shape)
  BY DEF OfShape, Meets
<1>2. Matches(q, shape.lower \union TableWith(q))
  BY DEF Matches, Meets
<1> QED BY <1>1, <1>2

(* Two shapes meet exactly if some table is of both (meets_shape).         *)
THEOREM MeetsShapeExact ==
  ASSUME NEW a, NEW b, a.lower \subseteq a.upper, b.lower \subseteq b.upper
  PROVE  MeetsShape(a, b) <=> \E t : OfShape(t, a) /\ OfShape(t, b)
<1>1. ASSUME MeetsShape(a, b)
      PROVE  OfShape(a.lower \union b.lower, a) /\ OfShape(a.lower \union b.lower, b)
  BY <1>1 DEF MeetsShape, OfShape
<1>2. ASSUME NEW t, OfShape(t, a), OfShape(t, b)
      PROVE  MeetsShape(a, b)
  BY <1>2 DEF MeetsShape, OfShape
<1> QED BY <1>1, <1>2

-----------------------------------------------------------------------------
(* What a system's guards are, one kind at a time: a guard g is of the     *)
(* thing g[1], to write if g[2]; a thing is a kind, a table and a name.    *)
ReadsRows(s, g) ==
  /\ g[1][1] = "rows" /\ g[2] = FALSE
  /\ \E q \in QueriesOf(s) : Matches(q, g[1][2])

TakesColumn(s, g) ==
  /\ g[1][1] = "column" /\ g[1][2] \in Made(world)
  /\ \E q \in QueriesOf(s) : \E x \in q.terms :
       Matches(q, g[1][2]) /\ x[1] \in TableComponents /\ g[1][3] = x[1] /\ g[2] = x[2]

TakesOne(kind, S, g) == g[1][1] = kind /\ \E x \in S : g[1][3] = x[1] /\ g[2] = x[2]

ReadsQueue(s, g) == g[1][1] = "queue" /\ g[2] = FALSE /\ \E x \in s.events : g[1][3] = x[1]

(* Every guard that fetching a system's parameters takes is of one kind.   *)
LEMMA FetchCases ==
  ASSUME NEW s, NEW g \in FetchGuards(s)
  PROVE  \/ ReadsRows(s, g) \/ TakesColumn(s, g) \/ TakesOne("sparse", SparseSets(s), g)
         \/ ReadsQueue(s, g) \/ TakesOne("slot", s.slots, g)
<1>1. ASSUME NEW q \in QueriesOf(s), NEW t \in Made(world), Matches(q, t), g \in QueryGuards(q, t)
      PROVE  ReadsRows(s, g) \/ TakesColumn(s, g)
  <2>1. CASE \E r \in Rows(t) : g = <<r, FALSE>>
    <3> DEFINE unnamed == ""
    <3>1. g = <<<<"rows", t, unnamed>>, FALSE>>
      BY <2>1 DEF Rows
    <3> HIDE DEF unnamed
    <3>2. g[1] = <<"rows", t, unnamed>> /\ g[2] = FALSE
      BY <3>1
    <3>3. g[1][1] = "rows" /\ g[1][2] = t
      BY <3>2
    <3> QED BY <1>1, <3>2, <3>3 DEF ReadsRows
  <2>2. CASE \E x \in q.terms : x[1] \in TableComponents /\ g = <<Column(t, x[1]), x[2]>>
    <3>1. PICK x \in q.terms : x[1] \in TableComponents /\ g = <<<<"column", t, x[1]>>, x[2]>>
      BY <2>2 DEF Column
    <3>2. g[1] = <<"column", t, x[1]>> /\ g[2] = x[2]
      BY <3>1
    <3>3. g[1][1] = "column" /\ g[1][2] = t /\ g[1][3] = x[1]
      BY <3>2
    <3> QED BY <1>1, <3>1, <3>2, <3>3 DEF TakesColumn
  <2> QED BY <1>1, <2>1, <2>2 DEF QueryGuards
<1>3. ASSUME NEW kind, NEW S, g \in {<<Thing(kind, x[1]), x[2]>> : x \in S}
      PROVE  TakesOne(kind, S, g)
  <2>1. PICK x \in S : g = <<<<kind, {}, x[1]>>, x[2]>>
    BY <1>3 DEF Thing
  <2>2. g[1] = <<kind, {}, x[1]>> /\ g[2] = x[2]
    BY <2>1
  <2>3. g[1][1] = kind /\ g[1][3] = x[1]
    BY <2>2
  <2> QED BY <2>2, <2>3 DEF TakesOne
<1>4. CASE g \in {<<Thing("queue", x[1]), FALSE>> : x \in {y \in s.events : ~y[2]}}
  <2>1. PICK x \in s.events : g = <<<<"queue", {}, x[1]>>, FALSE>>
    BY <1>4 DEF Thing
  <2>2. g[1] = <<"queue", {}, x[1]>> /\ g[2] = FALSE
    BY <2>1
  <2>3. g[1][1] = "queue" /\ g[1][3] = x[1]
    BY <2>2
  <2> QED BY <2>2, <2>3 DEF ReadsQueue
<1> DEFINE Of(q) == UNION {QueryGuards(q, t) : t \in {u \in Made(world) : Matches(q, u)}}
           Tables == UNION {Of(q) : q \in QueriesOf(s)}
           Sparse == {<<Thing("sparse", x[1]), x[2]>> : x \in SparseSets(s)}
           Queue  == {<<Thing("queue", x[1]), FALSE>> : x \in {y \in s.events : ~y[2]}}
           Slot   == {<<Thing("slot", x[1]), x[2]>> : x \in s.slots}
<1>2. g \in Tables \/ g \in Sparse \/ g \in Queue \/ g \in Slot
  <2>1. FetchGuards(s) = Tables \union Sparse \union Queue \union Slot
    BY DEF FetchGuards
  <2> HIDE DEF Tables, Sparse, Queue, Slot
  <2> QED BY <2>1
<1>5. ASSUME g \in Tables
      PROVE  ReadsRows(s, g) \/ TakesColumn(s, g)
  <2>1. PICK q \in QueriesOf(s) : g \in Of(q)
    BY <1>5
  <2>2. PICK t \in Made(world) : Matches(q, t) /\ g \in QueryGuards(q, t)
    BY <2>1
  <2> QED BY <1>1, <2>2
<1> QED BY <1>2, <1>3, <1>4, <1>5

(* Two systems that would take a guard from each other overlap             *)
(* (systems_overlap): run together, neither finds one held.                *)
THEOREM SystemsApart ==
  ASSUME NEW x, NEW y, Conflict(FetchGuards(x), FetchGuards(y))
  PROVE  SystemsOverlap(world, x, y)
<1>1. PICK g \in FetchGuards(x), h \in FetchGuards(y) : g[1] = h[1] /\ (g[2] \/ h[2])
  BY DEF Conflict
<1>2. CASE ReadsRows(x, g) \/ ReadsQueue(x, g)
  <2>1. ReadsRows(y, h) \/ ReadsQueue(y, h)
    BY <1>1, <1>2, FetchCases DEF ReadsRows, ReadsQueue, TakesColumn, TakesOne
  <2> QED BY <1>1, <1>2, <2>1 DEF ReadsRows, ReadsQueue
<1>3. CASE TakesColumn(x, g)
  <2>1. TakesColumn(y, h)
    BY <1>1, <1>3, FetchCases DEF ReadsRows, ReadsQueue, TakesColumn, TakesOne
  <2> DEFINE t == g[1][2]
  <2>2. PICK q \in QueriesOf(x) : \E c \in q.terms :
          Matches(q, t) /\ c[1] \in TableComponents /\ g[1][3] = c[1] /\ g[2] = c[2]
    BY <1>3 DEF TakesColumn
  <2>3. PICK c \in q.terms :
          Matches(q, t) /\ c[1] \in TableComponents /\ g[1][3] = c[1] /\ g[2] = c[2]
    BY <2>2
  <2>4. PICK p \in QueriesOf(y) : \E d \in p.terms :
          Matches(p, t) /\ d[1] \in TableComponents /\ g[1][3] = d[1] /\ h[2] = d[2]
    BY <1>1, <2>1 DEF TakesColumn
  <2>5. PICK d \in p.terms :
          Matches(p, t) /\ d[1] \in TableComponents /\ g[1][3] = d[1] /\ h[2] = d[2]
    BY <2>4
  <2>6. c \in Touched(x, t) /\ d \in Touched(y, t)
    <3>1. q \in {r \in QueriesOf(x) : Matches(r, t)} /\ c \in {z \in q.terms : z[1] \in TableComponents}
      BY <2>3
    <3>2. p \in {r \in QueriesOf(y) : Matches(r, t)} /\ d \in {z \in p.terms : z[1] \in TableComponents}
      BY <2>5
    <3> HIDE DEF t
    <3> QED BY <3>1, <3>2, Zenon DEF Touched
  <2>7. Conflict(Touched(x, t), Touched(y, t))
    BY <1>1, <2>3, <2>5, <2>6 DEF Conflict
  <2>8. t \in Made(world)
    BY <1>3 DEF TakesColumn
  <2> QED BY <2>7, <2>8 DEF SystemsOverlap
<1>4. ASSUME NEW kind \in {"sparse", "slot"}, NEW S, NEW T,
             TakesOne(kind, S, g), TakesOne(kind, T, h)
      PROVE  Conflict(S, T)
  BY <1>1, <1>4 DEF TakesOne, Conflict
<1>5. CASE TakesOne("sparse", SparseSets(x), g)
  <2>1. TakesOne("sparse", SparseSets(y), h)
    BY <1>1, <1>5, FetchCases DEF ReadsRows, ReadsQueue, TakesColumn, TakesOne
  <2> QED BY <1>4, <1>5, <2>1 DEF SystemsOverlap
<1>6. CASE TakesOne("slot", x.slots, g)
  <2>1. TakesOne("slot", y.slots, h)
    BY <1>1, <1>6, FetchCases DEF ReadsRows, ReadsQueue, TakesColumn, TakesOne
  <2> QED BY <1>4, <1>6, <2>1 DEF SystemsOverlap
<1> QED BY <1>2, <1>3, <1>5, <1>6, FetchCases

(* What an apply's guards are, all to write.                               *)
LEMMA ApplyCases ==
  ASSUME NEW fp, NEW h \in ApplyGuards(fp)
  PROVE  \/ h[1][1] \in {"rows", "column"} /\ \E shape \in ToSet(fp.tables) : h[1][2] = shape.lower
         \/ h[1][1] = "sparse" /\ h[1][3] \in fp.sparse
         \/ h[1][1] = "queue" /\ h[1][3] \in fp.events
<1>1. \/ h[1] \in UNION {Whole(shape.lower) : shape \in ToSet(fp.tables)}
      \/ h[1] \in {Thing("sparse", c) : c \in fp.sparse}
      \/ h[1] \in {Thing("queue", q) : q \in fp.events}
  BY DEF ApplyGuards, Writing
<1>2. CASE h[1] \in UNION {Whole(shape.lower) : shape \in ToSet(fp.tables)}
  <2>1. PICK shape \in ToSet(fp.tables) : h[1] \in Whole(shape.lower)
    BY <1>2
  <2> DEFINE unnamed == ""
  <2>2. h[1] = <<"rows", shape.lower, unnamed>> \/ \E c : h[1] = <<"column", shape.lower, c>>
    BY <2>1 DEF Whole, Rows, Column
  <2> HIDE DEF unnamed
  <2>3. h[1][1] \in {"rows", "column"} /\ h[1][2] = shape.lower
    BY <2>2
  <2> QED BY <2>3
<1>3. ASSUME NEW kind, NEW S, h[1] \in {Thing(kind, c) : c \in S}
      PROVE  h[1][1] = kind /\ h[1][3] \in S
  <2>1. PICK c \in S : h[1] = <<kind, {}, c>>
    BY <1>3 DEF Thing
  <2> QED BY <2>1
<1> QED BY <1>1, <1>2, <1>3

(* A system and an apply that would take a guard from each other overlap   *)
(* (system_apply_overlap).                                                 *)
THEOREM SystemApplyApart ==
  ASSUME NEW x, NEW fp, Concrete(fp), Conflict(FetchGuards(x), ApplyGuards(fp))
  PROVE  SystemApplyOverlap(x, fp)
<1>1. PICK g \in FetchGuards(x), h \in ApplyGuards(fp) : g[1] = h[1]
  BY DEF Conflict
<1>2. CASE ReadsRows(x, g) \/ TakesColumn(x, g)
  <2>1. PICK q \in QueriesOf(x) : Matches(q, g[1][2])
    BY <1>2 DEF ReadsRows, TakesColumn
  <2>2. CASE \E shape \in ToSet(fp.tables) : h[1][2] = shape.lower
    <3>1. PICK shape \in ToSet(fp.tables) : h[1][2] = shape.lower
      BY <2>2
    <3>2. OfShape(g[1][2], shape)
      BY <1>1, <3>1 DEF Concrete, OfShape
    <3>3. Meets(shape, q)
      BY <2>1, <3>2, MeetsSound
    <3> QED BY <3>1, <3>3 DEF SystemApplyOverlap
  <2>3. CASE h[1][1] \in {"sparse", "queue"}
    BY <1>1, <1>2, <2>3 DEF ReadsRows, TakesColumn
  <2> QED BY <2>2, <2>3, ApplyCases
<1>3. CASE TakesOne("sparse", SparseSets(x), g)
  <2>1. h[1][3] \in fp.sparse
    BY <1>1, <1>3, ApplyCases DEF TakesOne
  <2>2. PICK d \in SparseSets(x) : g[1][3] = d[1]
    BY <1>3 DEF TakesOne
  <2>3. <<h[1][3], TRUE>> \in Writing(fp.sparse)
    BY <2>1 DEF Writing
  <2> QED BY <1>1, <2>2, <2>3 DEF SystemApplyOverlap, Conflict
<1>4. CASE ReadsQueue(x, g)
  <2>1. h[1][3] \in fp.events
    BY <1>1, <1>4, ApplyCases DEF ReadsQueue
  <2>2. PICK e \in x.events : g[1][3] = e[1]
    BY <1>4 DEF ReadsQueue
  <2>3. <<h[1][3], TRUE>> \in Writing(fp.events)
    BY <2>1 DEF Writing
  <2> QED BY <1>1, <2>2, <2>3 DEF SystemApplyOverlap, Conflict
<1>5. CASE TakesOne("slot", x.slots, g)
  BY <1>1, <1>5, ApplyCases DEF TakesOne
<1> QED BY <1>2, <1>3, <1>4, <1>5, FetchCases

(* So do two applies (applies_overlap).                                    *)
THEOREM AppliesApart ==
  ASSUME NEW a, NEW b, Concrete(a), Concrete(b), Conflict(ApplyGuards(a), ApplyGuards(b))
  PROVE  AppliesOverlap(a, b)
<1>1. PICK g \in ApplyGuards(a), h \in ApplyGuards(b) : g[1] = h[1]
  BY DEF Conflict
<1>2. CASE g[1][1] \in {"rows", "column"}
  <2>1. PICK s \in ToSet(a.tables) : g[1][2] = s.lower
    BY <1>2, ApplyCases
  <2>2. PICK t \in ToSet(b.tables) : g[1][2] = t.lower
    BY <1>1, <1>2, ApplyCases
  <2>3. s.lower = t.lower /\ s.lower = s.upper /\ t.lower = t.upper
    BY <2>1, <2>2 DEF Concrete
  <2>4. MeetsShape(s, t)
    BY <2>3 DEF MeetsShape
  <2> QED BY <2>4 DEF AppliesOverlap
<1>3. CASE g[1][1] = "sparse"
  BY <1>1, <1>3, ApplyCases DEF AppliesOverlap
<1>4. CASE g[1][1] = "queue"
  BY <1>1, <1>4, ApplyCases DEF AppliesOverlap
<1> QED BY <1>2, <1>3, <1>4, ApplyCases

-----------------------------------------------------------------------------
(* The workers of a frame.  What follows is, first, of numbers, functions  *)
(* defined by recursion over them and sequences put together from others,  *)
(* from which the order of a frame's nodes follows.                        *)

(* A set of numbers that is not empty has a least one.                     *)
LEMMA LeastOfNats ==
  ASSUME NEW T \in SUBSET Nat, T # {}
  PROVE  \E x \in T : \A y \in T : x <= y
<1> DEFINE R == OpToRel(<, Nat)
<1>1. IsWellFoundedOn(R, Nat)
  BY NatLessThanWellFounded
<1>2. R = {p \in Nat \X Nat : p[1] < p[2]}
  BY DEF OpToRel
<1> HIDE DEF R
<1>3. \E x \in T : \A y \in T : <<y, x>> \notin R
  BY <1>1, WFMin
<1>4. ASSUME NEW x \in T, \A y \in T : <<y, x>> \notin R, NEW y \in T
      PROVE  x <= y
  <2>1. ~ (y < x)
    BY <1>2, <1>4
  <2> QED BY <2>1
<1> QED BY <1>3, <1>4

(* Induction over the numbers, for a set.                                  *)
LEMMA ByInduction ==
  ASSUME NEW T, 0 \in T, \A n \in Nat : n \in T => n + 1 \in T
  PROVE  Nat \subseteq T
<1> SUFFICES ASSUME Nat \ T # {} PROVE FALSE
  OBVIOUS
<1>1. PICK x \in Nat \ T : \A y \in Nat \ T : x <= y
  BY LeastOfNats
<1>2. x # 0 /\ x - 1 \in Nat /\ x - 1 \notin T
  BY <1>1
<1>3. x <= x - 1
  BY <1>1, <1>2
<1> QED BY <1>1, <1>3

Recurs(f, c, step, n) ==
  f[0] = c /\ \A k \in 1..n : f[k] = step[<<k, f[k - 1]>>]

(* A recursive function over 0..m is defined: some function has c at 0,    *)
(* and at each k what step makes of k and the one before.                  *)
LEMMA Recursion ==
  ASSUME NEW S, NEW c \in S, NEW step \in [Nat \X S -> S], NEW m \in Nat
  PROVE  \E f \in [0..m -> S] : Recurs(f, c, step, m)
<1> DEFINE Good(f, n) == Recurs(f, c, step, n)
           T == {n \in Nat : \E f \in [0..n -> S] : Good(f, n)}
<1> USE DEF Recurs
<1>1. 0 \in T
  <2> DEFINE f == [i \in 0..0 |-> c]
  <2>1. f \in [0..0 -> S] /\ Good(f, 0)
    OBVIOUS
  <2> QED BY <2>1
<1>2. ASSUME NEW n \in Nat, n \in T PROVE n + 1 \in T
  <2>1. PICK f \in [0..n -> S] : Good(f, n)
    BY <1>2
  <2> DEFINE g == [i \in 0..n + 1 |-> IF i = n + 1 THEN step[<<n + 1, f[n]>>] ELSE f[i]]
  <2>2. step[<<n + 1, f[n]>>] \in S
    BY <2>1
  <2>3. g \in [0..n + 1 -> S]
    BY <2>1, <2>2
  <2>4. g[0] = c
    BY <2>1
  <2>5. ASSUME NEW k \in 1..n + 1 PROVE g[k] = step[<<k, g[k - 1]>>]
    <3>1. CASE k = n + 1
      <4>1. k - 1 = n /\ g[k] = step[<<n + 1, f[n]>>] /\ g[n] = f[n]
        BY <3>1
      <4> QED BY <3>1, <4>1
    <3>2. CASE k # n + 1
      <4>1. k \in 1..n /\ k - 1 \in 0..n /\ k - 1 # n + 1
        BY <3>2
      <4>2. g[k] = f[k] /\ g[k - 1] = f[k - 1]
        BY <4>1, <3>2
      <4> QED BY <2>1, <4>1, <4>2
    <3> QED BY <3>1, <3>2
  <2>6. Good(g, n + 1)
    BY <2>4, <2>5
  <2> HIDE DEF g
  <2> QED BY <2>3, <2>6
<1>3. Nat \subseteq T
  <2> HIDE DEF T
  <2> QED BY <1>1, <1>2, ByInduction
<1> QED BY <1>3

(* What sequences have in common that is kept as they are put together, a  *)
(* sequence made of them has (FlattenSeq, as a recursive function).        *)
LEMMA Flattened ==
  ASSUME NEW Q, \A s, t \in Q : s \o t \in Q, NEW ss \in Seq(Q), ss # <<>>
  PROVE  FlattenSeq(ss) \in Q
<1> DEFINE n == Len(ss)
           Body(f) == [i \in 1..Len(ss) |-> IF i = 1 THEN ss[i] ELSE f[i - 1] \o ss[i]]
           flatten == CHOOSE flatten : flatten = Body(flatten)
           step == [p \in Nat \X Q |-> IF p[1] \in 1..n - 1 THEN p[2] \o ss[p[1] + 1] ELSE p[2]]
<1>1. n \in Nat /\ n # 0 /\ \A i \in 1..n : ss[i] \in Q
  OBVIOUS
<1>2. FlattenSeq(ss) = flatten[n]
  BY <1>1 DEF FlattenSeq
<1>3. step \in [Nat \X Q -> Q]
  <2>1. \A p \in Nat \X Q : p[1] \in 1..n - 1 => p[2] \in Q /\ ss[p[1] + 1] \in Q
    BY <1>1
  <2> HIDE DEF n
  <2> QED BY <2>1
<1>4. ss[1] \in Q /\ n - 1 \in Nat
  BY <1>1
<1>5. PICK f \in [0..n - 1 -> Q] : Recurs(f, ss[1], step, n - 1)
  <2> HIDE DEF step, n
  <2> QED BY <1>3, <1>4, Recursion, Zenon
<1> DEFINE g == [i \in 1..Len(ss) |-> f[i - 1]]
<1>6. g = Body(g)
  <2>1. ASSUME NEW i \in 1..Len(ss) PROVE g[i] = Body(g)[i]
    <3>1. CASE i = 1
      BY <1>5, <3>1 DEF Recurs
    <3>2. CASE i # 1
      <4>1. i - 1 \in 1..n - 1 /\ i - 1 \in Nat /\ i - 1 - 1 \in 0..n - 1 /\ i - 1 \in 1..Len(ss)
        BY <1>1, <3>2
      <4>2. f[i - 1] = step[<<i - 1, f[i - 1 - 1]>>] /\ f[i - 1 - 1] \in Q
        <5> HIDE DEF step, n
        <5> QED BY <1>5, <4>1 DEF Recurs
      <4>3. f[i - 1] = f[i - 1 - 1] \o ss[i]
        <5> DEFINE q == f[i - 1 - 1]
        <5>1. q \in Q
          BY <4>2
        <5> HIDE DEF q
        <5>2. step[<<i - 1, q>>] = q \o ss[i - 1 + 1] /\ i - 1 + 1 = i
          <6> DEFINE k == i - 1
          <6>1. k \in 1..n - 1 /\ k \in Nat /\ k + 1 = i
            BY <4>1
          <6> HIDE DEF k, n
          <6>2. step[<<k, q>>] = q \o ss[k + 1]
            BY <5>1, <6>1
          <6> QED BY <6>1, <6>2 DEF k
        <5> HIDE DEF step
        <5> QED BY <4>2, <5>2 DEF q
      <4> QED BY <3>2, <4>1, <4>3
    <3> QED BY <3>1, <3>2
  <2> HIDE DEF step
  <2> QED BY <2>1
<1>7. flatten = Body(flatten)
  <2> HIDE DEF Body, g
  <2> QED BY <1>6
<1> HIDE DEF flatten
<1> DEFINE T == {k \in Nat : k + 1 <= n => flatten[k + 1] \in Q}
<1>8. Nat \subseteq T
  <2>0. \A i \in 1..n : flatten[i] = IF i = 1 THEN ss[i] ELSE flatten[i - 1] \o ss[i]
    BY <1>7
  <2>1. 0 \in T
    BY <1>1, <2>0
  <2>2. ASSUME NEW k \in Nat, k \in T PROVE k + 1 \in T
    <3> SUFFICES ASSUME k + 1 + 1 <= n PROVE flatten[k + 1 + 1] \in Q
      OBVIOUS
    <3>1. k + 1 + 1 \in 1..n /\ k + 1 + 1 # 1 /\ k + 1 + 1 - 1 = k + 1 /\ k + 1 <= n
      BY <1>1
    <3>2. flatten[k + 1 + 1] = flatten[k + 1] \o ss[k + 1 + 1]
      <4> DEFINE j == k + 1 + 1
      <4>1. j \in 1..n /\ j # 1 /\ j - 1 = k + 1
        BY <3>1
      <4> HIDE DEF j, n
      <4>2. flatten[j] = flatten[j - 1] \o ss[j]
        BY <2>0, <4>1
      <4> QED BY <4>1, <4>2 DEF j
    <3>3. flatten[k + 1] \in Q /\ ss[k + 1 + 1] \in Q
      BY <1>1, <2>2, <3>1
    <3> QED BY <3>2, <3>3
  <2> HIDE DEF T
  <2> QED BY <2>1, <2>2, ByInduction
<1>9. n - 1 \in T
  BY <1>4, <1>8
<1> QED BY <1>1, <1>2, <1>9

-----------------------------------------------------------------------------
(* An apply's node comes right after its system's.                         *)
NodeLists(p) ==
  {ns \in Seq([kind : {"system", "apply"}, sys : DOMAIN p]) :
     \A n \in DOMAIN ns : ns[n].kind = "apply" =>
       n - 1 \in DOMAIN ns /\ ns[n - 1].kind = "system" /\ ns[n - 1].sys = ns[n].sys}

LEMMA NodesInOrder ==
  ASSUME NEW S, NEW p \in Seq(S)
  PROVE  NodesOf(p) \in NodeLists(p)
<1> DEFINE each == [s \in DOMAIN p |->
             IF Changes(p[s]) THEN <<[kind |-> "system", sys |-> s], [kind |-> "apply", sys |-> s]>>
                              ELSE <<[kind |-> "system", sys |-> s]>>]
<1>1. DOMAIN p = 1..Len(p) /\ Len(p) \in Nat
  OBVIOUS
<1>2. \A s, t \in NodeLists(p) : s \o t \in NodeLists(p)
  <2> SUFFICES ASSUME NEW s \in NodeLists(p), NEW t \in NodeLists(p) PROVE s \o t \in NodeLists(p)
    OBVIOUS
  <2> DEFINE N == [kind : {"system", "apply"}, sys : DOMAIN p]
             u == s \o t
  <2>1. s \in Seq(N) /\ t \in Seq(N)
    BY DEF NodeLists
  <2> HIDE DEF N
  <2>2. /\ u \in Seq(N) /\ Len(s) \in Nat /\ Len(t) \in Nat /\ Len(u) = Len(s) + Len(t)
        /\ DOMAIN u = 1..Len(s) + Len(t) /\ DOMAIN s = 1..Len(s) /\ DOMAIN t = 1..Len(t)
        /\ \A n \in 1..Len(s) : u[n] = s[n]
        /\ \A n \in 1..Len(t) : u[n + Len(s)] = t[n]
    BY <2>1
  <2>3. ASSUME NEW n \in DOMAIN u, u[n].kind = "apply"
        PROVE  n - 1 \in DOMAIN u /\ u[n - 1].kind = "system" /\ u[n - 1].sys = u[n].sys
    <3> HIDE DEF u
    <3>1. CASE n \in 1..Len(s)
      <4>1. n - 1 \in DOMAIN s /\ s[n - 1].kind = "system" /\ s[n - 1].sys = s[n].sys
        BY <2>2, <2>3, <3>1 DEF NodeLists
      <4> QED BY <2>2, <3>1, <4>1
    <3>2. CASE n \notin 1..Len(s)
      <4> DEFINE k == n - Len(s)
      <4>1. k \in 1..Len(t) /\ n = k + Len(s)
        BY <2>2, <3>2
      <4> HIDE DEF k
      <4>2. k - 1 \in DOMAIN t /\ t[k - 1].kind = "system" /\ t[k - 1].sys = t[k].sys
        BY <2>2, <2>3, <4>1 DEF NodeLists
      <4>3. k - 1 \in 1..Len(t) /\ n - 1 = k - 1 + Len(s) /\ n - 1 \in DOMAIN u
        BY <2>2, <4>1, <4>2
      <4> QED BY <2>2, <4>1, <4>2, <4>3
    <3> QED BY <3>1, <3>2
  <2> HIDE DEF u
  <2> QED BY <2>2, <2>3 DEF NodeLists, N, u
<1>3. \A s \in DOMAIN p : each[s] \in NodeLists(p)
  <2> SUFFICES ASSUME NEW s \in DOMAIN p PROVE each[s] \in NodeLists(p)
    OBVIOUS
  <2> DEFINE N == [kind : {"system", "apply"}, sys : DOMAIN p]
             a == [kind |-> "system", sys |-> s]
             b == [kind |-> "apply", sys |-> s]
  <2>1. a \in N /\ b \in N /\ a.kind = "system" /\ a.sys = s /\ b.sys = s
    OBVIOUS
  <2> HIDE DEF N, a, b
  <2>2. <<a>> \in Seq(N) /\ DOMAIN <<a>> = {1} /\ <<a>>[1] = a
    BY <2>1
  <2>3. /\ <<a, b>> \in Seq(N) /\ DOMAIN <<a, b>> = {1, 2}
        /\ <<a, b>>[1] = a /\ <<a, b>>[2] = b
    BY <2>1
  <2>4. <<a>> \in NodeLists(p)
    BY <2>1, <2>2 DEF NodeLists, N
  <2>5. <<a, b>> \in NodeLists(p)
    <3>1. \A n \in DOMAIN <<a, b>> : <<a, b>>[n].kind = "apply" =>
            /\ n - 1 \in DOMAIN <<a, b>> /\ <<a, b>>[n - 1].kind = "system"
            /\ <<a, b>>[n - 1].sys = <<a, b>>[n].sys
      BY <2>1, <2>3
    <3> QED BY <2>3, <3>1 DEF NodeLists, N
  <2> QED BY <2>4, <2>5 DEF a, b
<1>4. each \in Seq(NodeLists(p)) /\ NodesOf(p) = FlattenSeq(each) /\ Len(each) = Len(p)
  <2>1. each \in [1..Len(p) -> NodeLists(p)]
    <3> HIDE DEF each
    <3> QED BY <1>1, <1>3 DEF each
  <2> HIDE DEF each
  <2>2. each \in Seq(NodeLists(p)) /\ Len(each) = Len(p)
    BY <1>1, <2>1
  <2> QED BY <2>2 DEF NodesOf, each
<1> HIDE DEF each
<1>5. CASE each = <<>>
  <2>1. FlattenSeq(each) = <<>>
    BY <1>5 DEF FlattenSeq
  <2> QED BY <1>4, <2>1 DEF NodeLists
<1>6. CASE each # <<>>
  BY <1>2, <1>4, <1>6, Flattened
<1> QED BY <1>5, <1>6

-----------------------------------------------------------------------------
(* A system that is done has left its log, or its apply has taken it.      *)
LogLeft(s) == logs[s] # None \/ running[s] # None

NodesStand ==
  /\ nodes \in NodeLists(plan) /\ state \in [DOMAIN nodes -> Labels]
  /\ DOMAIN logs = DOMAIN plan /\ DOMAIN running = DOMAIN plan
  /\ \A n \in DOMAIN nodes :
       state[n] = "done" /\ nodes[n].kind = "system" => LogLeft(nodes[n].sys)

(* Who waits looks again when a node fails, and nobody waits after that.   *)
FailureKnown ==
  /\ failed \in BOOLEAN /\ (failed => asleep = 0)
  /\ \A n \in DOMAIN nodes : state[n] = "failed" => failed

RunInv == NodesStand /\ FailureKnown /\ WorkersCounted /\ SomeoneGoesOn

LEMMA NodeTypes ==
  ASSUME nodes \in NodeLists(plan), NEW n \in DOMAIN nodes
  PROVE  nodes[n].kind \in {"system", "apply"} /\ nodes[n].sys \in DOMAIN plan
<1> DEFINE N == [kind : {"system", "apply"}, sys : DOMAIN plan]
<1>1. nodes \in Seq(N)
  BY DEF NodeLists
<1> HIDE DEF N
<1>2. nodes[n] \in N
  BY <1>1
<1> QED BY <1>2 DEF N

LEMMA Finitely ==
  ASSUME NodesStand
  PROVE  IsFiniteSet(AtWork) /\ Cardinality(AtWork) \in Nat
<1>1. PICK k \in Nat : DOMAIN nodes = 1..k
  BY DEF NodesStand, NodeLists
<1>2. IsFiniteSet(DOMAIN nodes)
  BY <1>1, FS_Interval
<1>3. IsFiniteSet(AtWork)
  BY <1>2, FS_Subset DEF AtWork
<1> QED BY <1>3, FS_CardinalityType

(* A node whose worker goes on with it.                                    *)
LEMMA GoesOn ==
  ASSUME RunInv, NEW n \in DOMAIN nodes, NEW l \in Labels \ {"pending", "done", "failed"},
         Busy(n), Goto(n, l),
         UNCHANGED <<plan, nodes, logs, running, failed, idle, asleep>>
  PROVE  RunInv'
<1>1. state' \in [DOMAIN nodes -> Labels] /\ \A m \in DOMAIN nodes \ {n} : state'[m] = state[m]
  BY DEF RunInv, NodesStand, Goto
<1>2. state'[n] = l
  BY DEF RunInv, NodesStand, Goto
<1>3. AtWork' = AtWork
  BY <1>1, <1>2 DEF AtWork, Busy
<1>4. NodesStand'
  BY <1>1, <1>2 DEF RunInv, NodesStand, LogLeft
<1>5. FailureKnown'
  BY <1>1, <1>2 DEF RunInv, FailureKnown
<1>6. WorkersCounted'
  BY <1>3 DEF RunInv, WorkersCounted
<1>7. SomeoneGoesOn'
  BY <1>3 DEF RunInv, SomeoneGoesOn, AtWork
<1> QED BY <1>4, <1>5, <1>6, <1>7 DEF RunInv

LEMMA TakeKeeps ==
  ASSUME RunInv, Take
  PROVE  RunInv'
<1>1. PICK n \in DOMAIN nodes :
        /\ Ready(n) /\ Goto(n, "taken") /\ idle' = idle - 1
        /\ IF IsApply(n)
           THEN /\ running' = [running EXCEPT ![nodes[n].sys] = <<ApplyFootprint(nodes[n].sys)>>]
                /\ logs' = [logs EXCEPT ![nodes[n].sys] = None]
           ELSE UNCHANGED <<running, logs>>
  BY DEF Take
<1>2. UNCHANGED <<plan, nodes, failed, asleep>> /\ idle > 0
  BY DEF Take
<1>3. state[n] = "pending" /\ nodes[n].sys \in DOMAIN plan
  BY <1>1, NodeTypes DEF Ready, RunInv, NodesStand
<1>4. /\ state' \in [DOMAIN nodes -> Labels] /\ state'[n] = "taken"
      /\ \A m \in DOMAIN nodes \ {n} : state'[m] = state[m]
  BY <1>1 DEF RunInv, NodesStand, Goto, Labels
<1>5. \A s \in DOMAIN plan : LogLeft(s) => LogLeft(s)'
  <2> SUFFICES ASSUME NEW s \in DOMAIN plan, LogLeft(s) PROVE LogLeft(s)'
    OBVIOUS
  <2>1. CASE ~IsApply(n)
    BY <1>1, <2>1 DEF LogLeft
  <2>2. CASE IsApply(n)
    <3> DEFINE t == nodes[n].sys
               fp == <<ApplyFootprint(t)>>
    <3>1. running' = [running EXCEPT ![t] = fp] /\ logs' = [logs EXCEPT ![t] = None] /\ fp # None
      BY <1>1, <2>2 DEF None
    <3> HIDE DEF fp, t
    <3>2. CASE s = t
      BY <3>1, <3>2 DEF LogLeft, RunInv, NodesStand
    <3>3. CASE s # t
      BY <3>1, <3>3 DEF LogLeft, RunInv, NodesStand
    <3> QED BY <3>2, <3>3
  <2> QED BY <2>1, <2>2
<1>6. DOMAIN logs' = DOMAIN plan /\ DOMAIN running' = DOMAIN plan
  BY <1>1 DEF RunInv, NodesStand
<1>7. NodesStand'
  <2>1. ASSUME NEW m \in DOMAIN nodes, state'[m] = "done", nodes[m].kind = "system"
        PROVE  LogLeft(nodes[m].sys)'
    <3>1. state[m] = "done"
      BY <1>4, <2>1
    <3>2. LogLeft(nodes[m].sys) /\ nodes[m].sys \in DOMAIN plan
      BY <2>1, <3>1, NodeTypes DEF RunInv, NodesStand
    <3>3. PICK s \in DOMAIN plan : s = nodes[m].sys
      BY <3>2
    <3> QED BY <1>2, <1>5, <3>2, <3>3 DEF LogLeft
  <2> QED BY <1>2, <1>4, <1>6, <2>1 DEF RunInv, NodesStand, LogLeft
<1>8. AtWork' = AtWork \union {n} /\ n \notin AtWork
  BY <1>2, <1>3, <1>4 DEF AtWork, Busy
<1>9. Cardinality(AtWork') = Cardinality(AtWork) + 1 /\ Cardinality(AtWork) \in Nat
  BY <1>8, Finitely, FS_AddElement DEF RunInv
<1>10. FailureKnown'
  BY <1>2, <1>4 DEF RunInv, FailureKnown
<1>11. WorkersCounted'
  BY <1>1, <1>2, <1>9, HarnessAssumption DEF RunInv, WorkersCounted
<1>12. SomeoneGoesOn'
  BY <1>8 DEF SomeoneGoesOn, AtWork
<1> QED BY <1>7, <1>10, <1>11, <1>12 DEF RunInv

(* If no node runs and none has failed, the first that is pending is ready:*)
(* all before it are done, so nothing overlaps it, and an apply's log is   *)
(* there.                                                                  *)
LEMMA FirstPendingReady ==
  ASSUME NodesStand, FailureKnown, ~failed, ~AllDone, AtWork = {}
  PROVE  \E n \in DOMAIN nodes : Ready(n)
<1> DEFINE pending == {n \in DOMAIN nodes : state[n] = "pending"}
<1>1. PICK k \in Nat : DOMAIN nodes = 1..k
  BY DEF NodesStand, NodeLists
<1>2. \A n \in DOMAIN nodes : state[n] \in {"pending", "done"}
  BY DEF AtWork, Busy, FailureKnown, NodesStand, Labels
<1>3. pending # {} /\ pending \in SUBSET Nat
  BY <1>1, <1>2 DEF AllDone
<1>4. PICK n \in pending : \A m \in pending : n <= m
  BY <1>3, LeastOfNats
<1>5. \A m \in 1..n - 1 : state[m] = "done"
  BY <1>1, <1>2, <1>4
<1>6. ASSUME IsApply(n) PROVE LogLeft(nodes[n].sys)
  <2>1. n - 1 \in DOMAIN nodes /\ nodes[n - 1].kind = "system" /\ nodes[n - 1].sys = nodes[n].sys
    BY <1>6 DEF NodesStand, NodeLists, IsApply
  <2>2. n - 1 \in 1..n - 1
    BY <1>1, <2>1
  <2>3. state[n - 1] = "done"
    BY <1>5, <2>2
  <2> QED BY <2>1, <2>3 DEF NodesStand
<1>7. Ready(n)
  BY <1>5, <1>6 DEF Ready, LogLeft
<1> QED BY <1>7

LEMMA WaitKeeps ==
  ASSUME RunInv, Wait
  PROVE  RunInv'
<1>1. /\ idle > 0 /\ ~failed /\ ~AllDone /\ \A n \in DOMAIN nodes : ~Ready(n)
      /\ idle' = idle - 1 /\ asleep' = asleep + 1
      /\ UNCHANGED <<plan, nodes, state, logs, running, failed>>
  BY DEF Wait, frameState
<1>2. AtWork # {} /\ AtWork' = AtWork
  BY <1>1, FirstPendingReady DEF RunInv, AtWork, Busy
<1>3. NodesStand'
  BY <1>1 DEF RunInv, NodesStand, LogLeft
<1>4. FailureKnown'
  BY <1>1 DEF RunInv, FailureKnown
<1>5. WorkersCounted'
  BY <1>1, <1>2, Finitely, HarnessAssumption DEF RunInv, WorkersCounted
<1>6. SomeoneGoesOn'
  BY <1>2 DEF SomeoneGoesOn, AtWork
<1> QED BY <1>3, <1>4, <1>5, <1>6 DEF RunInv

LEMMA LeaveKeeps ==
  ASSUME RunInv, Leave
  PROVE  RunInv'
<1>1. /\ idle > 0 /\ UNCHANGED <<plan, nodes, state, logs, running, failed>>
      /\ IF failed THEN idle' = idle - 1 /\ UNCHANGED asleep
                   ELSE idle' = idle - 1 + asleep /\ asleep' = 0
  BY DEF Leave, frameState
<1>2. AtWork' = AtWork /\ asleep' = 0
  BY <1>1 DEF RunInv, FailureKnown, AtWork, Busy
<1>3. NodesStand'
  BY <1>1 DEF RunInv, NodesStand, LogLeft
<1>4. FailureKnown'
  BY <1>1, <1>2 DEF RunInv, FailureKnown
<1>5. WorkersCounted'
  BY <1>1, <1>2, Finitely, HarnessAssumption DEF RunInv, WorkersCounted
<1>6. SomeoneGoesOn'
  BY <1>2 DEF SomeoneGoesOn
<1> QED BY <1>3, <1>4, <1>5, <1>6 DEF RunInv

(* A node that ends, one way or the other, and its worker.                 *)
LEMMA Ends ==
  ASSUME RunInv, NEW n \in DOMAIN nodes, NEW l \in {"done", "failed"}, Busy(n), Goto(n, l),
         NodesStand', FailureKnown', UNCHANGED <<plan, nodes>>, asleep' = 0,
         idle' \in {idle + asleep, idle + 1 + asleep}
  PROVE  RunInv'
<1>1. state'[n] = l /\ \A m \in DOMAIN nodes \ {n} : state'[m] = state[m]
  BY DEF RunInv, NodesStand, Goto
<1>2. AtWork' = AtWork \ {n} /\ n \in AtWork
  BY <1>1 DEF AtWork, Busy
<1>3. Cardinality(AtWork') = Cardinality(AtWork) - 1 /\ Cardinality(AtWork') \in Nat
  <2>1. IsFiniteSet(AtWork)
    BY Finitely DEF RunInv
  <2>2. IsFiniteSet(AtWork \ {n}) /\ Cardinality(AtWork \ {n}) = Cardinality(AtWork) - 1
    BY <1>2, <2>1, FS_RemoveElement
  <2>3. Cardinality(AtWork \ {n}) \in Nat
    BY <2>2, FS_CardinalityType
  <2> QED BY <1>2, <2>2, <2>3
<1>4. Cardinality(AtWork) \in Nat
  BY Finitely DEF RunInv
<1>5. WorkersCounted'
  BY <1>3, <1>4, HarnessAssumption DEF RunInv, WorkersCounted
<1>6. SomeoneGoesOn'
  BY DEF SomeoneGoesOn
<1> QED BY <1>5, <1>6 DEF RunInv

LEMMA CompleteKeeps ==
  ASSUME RunInv, NEW n \in DOMAIN nodes, Complete(n)
  PROVE  RunInv'
<1> DEFINE t == nodes[n].sys
           left == <<todo[n]>>
<1>1. /\ state[n] = "over" /\ Goto(n, "done") /\ UNCHANGED <<plan, nodes, running, failed>>
      /\ logs' = IF IsApply(n) THEN logs ELSE [logs EXCEPT ![t] = left]
      /\ idle' = idle + 1 + asleep /\ asleep' = 0
  BY DEF Complete
<1>2. t \in DOMAIN plan /\ left # None
  BY NodeTypes DEF RunInv, NodesStand, None
<1>3. IsApply(n) \/ nodes[n].kind = "system"
  BY NodeTypes DEF RunInv, NodesStand, IsApply
<1>4. /\ state' \in [DOMAIN nodes -> Labels]
      /\ state'[n] = "done" /\ \A m \in DOMAIN nodes \ {n} : state'[m] = state[m]
  BY <1>1 DEF RunInv, NodesStand, Goto, Labels
<1> HIDE DEF left
<1>5. NodesStand'
  <2>1. ASSUME NEW m \in DOMAIN nodes, state'[m] = "done", nodes[m].kind = "system"
        PROVE  logs'[nodes[m].sys] # None \/ running'[nodes[m].sys] # None
    <3>1. nodes[m].sys \in DOMAIN logs
      BY NodeTypes DEF RunInv, NodesStand
    <3>2. CASE m = n
      BY <1>1, <1>2, <2>1, <3>1, <3>2 DEF IsApply
    <3>3. CASE m # n
      <4>1. logs[nodes[m].sys] # None \/ running[nodes[m].sys] # None
        BY <1>4, <2>1, <3>3 DEF RunInv, NodesStand, LogLeft
      <4> QED BY <1>1, <1>2, <3>1, <4>1
    <3> QED BY <3>2, <3>3
  <2>2. DOMAIN logs' = DOMAIN plan /\ DOMAIN running' = DOMAIN plan
    BY <1>1 DEF RunInv, NodesStand
  <2> QED BY <1>1, <1>4, <2>1, <2>2 DEF RunInv, NodesStand, LogLeft
<1>6. FailureKnown'
  BY <1>1, <1>4 DEF RunInv, FailureKnown
<1>7. Busy(n)
  BY <1>1 DEF Busy
<1> QED BY <1>1, <1>5, <1>6, <1>7, Ends

LEMMA FailKeeps ==
  ASSUME RunInv, NEW n \in DOMAIN nodes, Fail(n)
  PROVE  RunInv'
<1>1. /\ Busy(n) /\ Goto(n, "failed") /\ UNCHANGED <<plan, nodes, logs, running>>
      /\ failed' = TRUE /\ idle' = idle + asleep /\ asleep' = 0
  BY DEF Fail, Busy
<1>2. /\ state' \in [DOMAIN nodes -> Labels]
      /\ state'[n] = "failed" /\ \A m \in DOMAIN nodes \ {n} : state'[m] = state[m]
  BY <1>1 DEF RunInv, NodesStand, Goto, Labels
<1>3. NodesStand'
  BY <1>1, <1>2 DEF RunInv, NodesStand, LogLeft
<1>4. FailureKnown'
  BY <1>1 DEF FailureKnown
<1> QED BY <1>1, <1>3, <1>4, Ends

(* The rest of a node's steps.                                             *)
LEMMA StepKeeps ==
  ASSUME RunInv, NEW n \in DOMAIN nodes,
         Fetch(n) \/ Walk(n) \/ Panic(n) \/ Lock(n) \/ Change(n) \/ Applied(n)
  PROVE  RunInv'
<1>1. Busy(n)
  BY DEF Fetch, Walk, Panic, Lock, Change, Applied, Busy
<1>2. UNCHANGED <<plan, nodes, logs, running, failed, idle, asleep>>
  BY DEF Fetch, Walk, Panic, Lock, Change, Applied
<1>3. \E l \in {"walking", "applying", "contended", "over", "broken"} : Goto(n, l)
  BY DEF Fetch, Walk, Panic, Lock, Change, Applied, Acquire
<1>4. PICK l \in Labels \ {"pending", "done", "failed"} : Goto(n, l)
  BY <1>3 DEF Labels
<1> QED BY <1>1, <1>2, <1>4, GoesOn

LEMMA RunInvKept == Spec => []RunInv
<1>1. Init => RunInv
  <2> SUFFICES ASSUME Init PROVE RunInv
    OBVIOUS
  <2>1. PICK f \in Frames : plan = f[1]
    BY DEF Init
  <2>2. plan \in Seq(ToSet(plan))
    BY <2>1, HarnessAssumption
  <2>3. nodes \in NodeLists(plan)
    BY <2>2, NodesInOrder DEF Init
  <2>4. \A n \in DOMAIN nodes : state[n] = "pending"
    BY DEF Init
  <2>5. AtWork = {}
    BY <2>4 DEF AtWork, Busy
  <2>6. NodesStand
    BY <2>3, <2>4 DEF Init, NodesStand, Labels
  <2>7. FailureKnown
    BY <2>4 DEF Init, FailureKnown
  <2>8. WorkersCounted
    BY <2>5, FS_EmptySet, HarnessAssumption DEF Init, WorkersCounted
  <2>9. SomeoneGoesOn
    BY DEF Init, SomeoneGoesOn
  <2> QED BY <2>6, <2>7, <2>8, <2>9 DEF RunInv
<1>2. RunInv /\ [Next]_vars => RunInv'
  <2> SUFFICES ASSUME RunInv, [Next]_vars PROVE RunInv'
    OBVIOUS
  <2>1. CASE Return \/ UNCHANGED vars
    <3>1. UNCHANGED <<plan, nodes, state, logs, running, failed, idle, asleep>>
      BY <2>1 DEF Return, vars, frameState, workers
    <3>2. NodesStand' /\ FailureKnown'
      BY <3>1 DEF RunInv, NodesStand, LogLeft, FailureKnown
    <3>3. AtWork' = AtWork /\ (SomeoneGoesOn => SomeoneGoesOn')
      BY <3>1 DEF AtWork, SomeoneGoesOn, Busy
    <3>4. WorkersCounted'
      BY <3>1, <3>3 DEF RunInv, WorkersCounted
    <3> QED BY <3>2, <3>3, <3>4 DEF RunInv
  <2>2. CASE Take
    BY <2>2, TakeKeeps
  <2>3. CASE Wait
    BY <2>3, WaitKeeps
  <2>4. CASE Leave
    BY <2>4, LeaveKeeps
  <2>5. ASSUME NEW n \in DOMAIN nodes, Step(n) \/ Panic(n)
        PROVE  RunInv'
    BY <2>5, CompleteKeeps, FailKeeps, StepKeeps DEF Step
  <2> QED BY <2>1, <2>2, <2>3, <2>4, <2>5 DEF Next
<1> QED BY <1>1, <1>2, PTL DEF Spec

(* No worker of a frame is counted twice.                                  *)
THEOREM HarnessCounts == Spec => []WorkersCounted
<1>1. RunInv => WorkersCounted
  BY DEF RunInv
<1> QED BY <1>1, RunInvKept, PTL

(* Nobody waits for a notification that has been (wait, notify_all): while *)
(* somebody waits, a node runs or somebody looks for one.                  *)
THEOREM HarnessGoesOn == Spec => []SomeoneGoesOn
<1>1. RunInv => SomeoneGoesOn
  BY DEF RunInv
<1> QED BY <1>1, RunInvKept, PTL
=============================================================================
