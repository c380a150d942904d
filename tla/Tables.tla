------------------------------- MODULE Tables -------------------------------
(***************************************************************************)
(* The world's storage as systems see it: tables of entities, one for each *)
(* set of table components, sparse sets, event queues and flows            *)
(* (src/engine/ecs/world.rs); and what a system may ask of it, its         *)
(* parameters (src/engine/ecs/query.rs).                                   *)
(*                                                                         *)
(* A table is named by its set of components.  A value is the number of    *)
(* the system that wrote it last, 0 before the frame.  Where in a table    *)
(* a row is, and the order of a sparse set, are left out; so are pages.    *)
(***************************************************************************)
EXTENDS Integers, SequencesExt

CONSTANTS
  TableComponents, SparseComponents,
  Entities,   \* numbers: those in the world, and those spawners hand out
  Queues,     \* event queues
  Slots       \* what else two systems may share: flows, live relations, and
              \* the states of the mods they are of

Components == TableComponents \union SparseComponents
Table      == SUBSET TableComponents

(* World: the tables made so far, in the order of their ids; the entities  *)
(* of each; those a sparse set has an entry for, the dead among them; the  *)
(* values; the senders of a queue's events; the last writer of a slot.     *)
World ==
  [made : Seq(Table), rows : [Table -> SUBSET Entities],
   sparse : [SparseComponents -> SUBSET Entities],
   value : [Entities \X Components -> Nat],
   queue : [Queues -> Seq(Nat)], slot : [Slots -> Nat]]

Made(w)       == ToSet(w.made)
Alive(w, e)   == \E t \in Table : e \in w.rows[t]
TableOf(w, e) == CHOOSE t \in Table : e \in w.rows[t]

MakeTable(w, t) == IF t \in Made(w) THEN w ELSE [w EXCEPT !.made = Append(@, t)]

Place(w, e, t) ==
  [MakeTable(w, t) EXCEPT !.rows =
     [s \in Table |-> IF s = t THEN w.rows[s] \union {e} ELSE w.rows[s] \ {e}]]

SetValue(w, e, cs, v) ==
  [w EXCEPT !.value = [x \in DOMAIN @ |-> IF x[1] = e /\ x[2] \in cs THEN v ELSE @[x]]]

-----------------------------------------------------------------------------
(* Changes, as a system logs them and its apply makes them; v stands for   *)
(* the values it wrote.  A dead entity's are dropped.                      *)
InsertInto(w, e, c, v) ==
  IF ~Alive(w, e) THEN w
  ELSE SetValue(IF c \in TableComponents THEN Place(w, e, TableOf(w, e) \union {c})
                ELSE [w EXCEPT !.sparse[c] = @ \union {e}],
                e, {c}, v)

RemoveFrom(w, e, c) ==
  SetValue(IF c \in SparseComponents THEN [w EXCEPT !.sparse[c] = @ \ {e}]
           ELSE IF Alive(w, e) THEN Place(w, e, TableOf(w, e) \ {c}) ELSE w,
           e, {c}, 0)

(* The row goes; entries in sparse sets stay, and are no longer seen (that *)
(* a later write may purge them makes no difference, ids not being reused).*)
Despawn(w, e) ==
  SetValue([w EXCEPT !.rows = [t \in Table |-> @[t] \ {e}]], e, TableComponents, 0)

Spawn(w, e, set, v) ==
  SetValue([Place(w, e, set \intersect TableComponents) EXCEPT !.sparse =
              [c \in SparseComponents |-> IF c \in set THEN @[c] \union {e} ELSE @[c]]],
           e, set, v)

Apply(w, change, v) ==
  CASE change.do = "insert"  -> InsertInto(w, change.e, change.c, v)
    [] change.do = "remove"  -> RemoveFrom(w, change.e, change.c)
    [] change.do = "despawn" -> Despawn(w, change.e)
    [] change.do = "spawn"   -> Spawn(w, change.e, change.set, v)
    [] change.do = "send"    -> [w EXCEPT !.queue[change.q] = Append(@, v)]

(* The tables and sparse sets a change is made in, whose guards it needs.  *)
TablesOf(w, change) ==
  IF change.do = "send" \/ (change.do \in {"insert", "remove"} /\ change.c \notin TableComponents)
  THEN {}
  ELSE IF change.do = "spawn" THEN {change.set \intersect TableComponents}
  ELSE IF ~Alive(w, change.e) THEN {}
  ELSE LET t == TableOf(w, change.e)
       IN  CASE change.do = "insert"  -> {t, t \union {change.c}}
             [] change.do = "remove"  -> {t, t \ {change.c}}
             [] change.do = "despawn" -> {t}

SparseOf(change) ==
  CASE change.do \in {"insert", "remove"} -> {change.c} \intersect SparseComponents
    [] change.do = "spawn" -> change.set \intersect SparseComponents
    [] OTHER -> {}

-----------------------------------------------------------------------------
(* Parameters.  A query: its terms, each with whether it is written; what  *)
(* its filters require and exclude; the changes its rows may make; and on, *)
(* the entities whose rows the system makes them to.                       *)
Query ==
  [terms : SUBSET (Components \X BOOLEAN), with : SUBSET Components,
   without : SUBSET Components, adds : SUBSET Components,
   removes : SUBSET Components, despawns : BOOLEAN, on : SUBSET Entities]

(* A system: its queries, the entities its spawners hand out with their    *)
(* components, the queues it reads or writes, and the slots.               *)
System ==
  [queries : Seq(Query), spawns : SUBSET [e : Entities, set : SUBSET Components],
   events : SUBSET (Queues \X BOOLEAN), slots : SUBSET (Slots \X BOOLEAN)]

QueriesOf(s) == ToSet(s.queries)
Terms(q)     == {x[1] : x \in q.terms}
Written(q)   == {x[1] : x \in {y \in q.terms : y[2]}}

TableWith(q)    == (Terms(q) \union q.with) \intersect TableComponents
TableWithout(q) == q.without \intersect TableComponents

(* The sparse sets it reads or writes, membership filters included.        *)
SparseUses(q) ==
  {x \in q.terms : x[1] \in SparseComponents}
    \union (((q.with \union q.without) \intersect SparseComponents) \X {FALSE})

(* Walks a sparse set, so that it sees who is alive.                       *)
SparseDriven(q) ==
  Terms(q) \intersect TableComponents = {} /\ Terms(q) \intersect SparseComponents # {}

UsesTables(q) == ~SparseDriven(q) \/ TableWith(q) # {} \/ TableWithout(q) # {}

Matches(q, t) ==
  UsesTables(q) /\ TableWith(q) \subseteq t /\ TableWithout(q) \intersect t = {}

(* The entities a query yields, of the tables it took when it was fetched. *)
Yield(w, q, taken) ==
  {e \in Entities :
     /\ IF UsesTables(q) THEN \E t \in taken : Matches(q, t) /\ e \in w.rows[t] ELSE Alive(w, e)
     /\ \A c \in (Terms(q) \union q.with) \intersect SparseComponents : e \in w.sparse[c]
     /\ \A c \in q.without \intersect SparseComponents : e \notin w.sparse[c]}

(* What a system sees: the rows of each query; the order it walks their    *)
(* tables in, which is that of their ids; the events and slots it reads.   *)
Sees(w, s, taken) ==
  [rows |-> [i \in DOMAIN s.queries |->
       LET q == s.queries[i]
       IN  {<<e, [c \in Terms(q) |-> w.value[<<e, c>>]]>> : e \in Yield(w, q, taken)}],
   walk |-> [i \in DOMAIN s.queries |->
       LET q == s.queries[i]
           walked(t) == t \in taken /\ Matches(q, t) /\ ~SparseDriven(q) /\ w.rows[t] # {}
       IN  SelectSeq(w.made, walked)],
   events |-> [q \in {x[1] : x \in {y \in s.events : ~y[2]}} |-> w.queue[q]],
   slots  |-> [k \in {x[1] : x \in s.slots} |-> w.slot[k]]]

(* What it writes in place: every row's written terms, and its slots.      *)
Writes(w, s, taken, v) ==
  LET wrote(e, c) == \E q \in QueriesOf(s) : c \in Written(q) /\ e \in Yield(w, q, taken)
  IN  [w EXCEPT !.value = [x \in DOMAIN @ |-> IF wrote(x[1], x[2]) THEN v ELSE @[x]],
                !.slot  = [k \in Slots |-> IF <<k, TRUE>> \in s.slots THEN v ELSE @[k]]]

(* What it logs: each row's changes, in the order of the queries, then its *)
(* spawns and its events.                                                  *)
RowChanges(q, e) ==
  LET each(do, cs) == SetToSeq({[do |-> do, e |-> e, c |-> c] : c \in cs})
  IN  each("remove", q.removes) \o each("insert", q.adds)
        \o (IF q.despawns THEN <<[do |-> "despawn", e |-> e]>> ELSE <<>>)

QueryChanges(w, q, taken) ==
  LET rows == SetToSortSeq(Yield(w, q, taken) \intersect q.on, <)
  IN  FlattenSeq([i \in DOMAIN rows |-> RowChanges(q, rows[i])])

LogOf(w, s, taken) ==
  FlattenSeq([i \in DOMAIN s.queries |-> QueryChanges(w, s.queries[i], taken)])
    \o SetToSeq({[do |-> "spawn", e |-> x.e, set |-> x.set] : x \in s.spawns})
    \o SetToSeq({[do |-> "send", q |-> x[1]] : x \in {y \in s.events : y[2]}})

(* Whether it needs an apply node (ParamDecl::changes).                    *)
Changes(s) ==
  \/ \E q \in QueriesOf(s) : q.adds # {} \/ q.removes # {} \/ q.despawns
  \/ s.spawns # {} \/ \E x \in s.events : x[2]

(* Registration refuses a system whose own guards would conflict.          *)
Disjoint(p, q) ==
  \/ TableWithout(p) \intersect (Terms(q) \union q.with) # {}
  \/ TableWithout(q) \intersect (Terms(p) \union p.with) # {}

Registrable(s) ==
  /\ \A i, j \in DOMAIN s.queries : i < j =>
       \A x \in s.queries[i].terms, y \in s.queries[j].terms :
         x[1] = y[1] /\ (x[2] \/ y[2]) =>
           x[1] \in TableComponents /\ Disjoint(s.queries[i], s.queries[j])
  /\ \A q \in Queues : ~(<<q, TRUE>> \in s.events /\ <<q, FALSE>> \in s.events)
=============================================================================
