----------------------------- MODULE Population -----------------------------
(***************************************************************************)
(* What the world's store promises: entities, and the values of each by    *)
(* component.  An id is given out once.  It is alive from then until it is *)
(* despawned; a spawn places it; and changes are made in the order they    *)
(* were logged in.                                                         *)
(*                                                                         *)
(* A change is a record: an op, the entity it is to, for an insert or a    *)
(* remove a component, and the value or the values it brings.              *)
(***************************************************************************)
EXTENDS Integers, SequencesExt

CONSTANTS SparseComponents   \* an entity that is not placed yet may have those

VARIABLES
  given,   \* the ids given out so far
  placed,  \* those of them that were spawned, and not despawned
  has,     \* of each id that is alive, a function from components to values
  asked    \* the changes made last

vars == <<given, placed, has, asked>>

(* Some are there at first.                                                *)
Init == placed \subseteq given /\ DOMAIN has = placed /\ asked = <<>>

Reserve(e) ==
  /\ e \notin given
  /\ given' = given \union {e} /\ has' = (e :> <<>>) @@ has
  /\ asked' = <<>> /\ UNCHANGED placed

(* Whether an entity takes a component's value.                            *)
Takes(p, e, c) == e \in DOMAIN p.has /\ (c \in SparseComponents \/ e \in p.placed)

Without(f, x) == [y \in DOMAIN f \ {x} |-> f[y]]

Inserted(p, e, c, v) ==
  IF Takes(p, e, c) THEN [p EXCEPT !.has[e] = (c :> v) @@ @] ELSE p
Removed(p, e, c) == IF Takes(p, e, c) THEN [p EXCEPT !.has[e] = Without(@, c)] ELSE p
Spawned(p, e, values) ==
  [p EXCEPT !.placed = @ \union {e}, !.has[e] = values @@ @]
Despawned(p, e) ==
  IF e \in p.placed THEN [p EXCEPT !.placed = @ \ {e}, !.has = Without(@, e)] ELSE p

Set(p, e, c, v) ==
  IF Takes(p, e, c) /\ c \in DOMAIN p.has[e] THEN [p EXCEPT !.has[e][c] = v] ELSE p

Changed(p, c) ==
  CASE c.op = "insert"  -> Inserted(p, c.entity, c.component, c.value)
    [] c.op = "remove"  -> Removed(p, c.entity, c.component)
    [] c.op = "set"     -> Set(p, c.entity, c.component, c.value)
    [] c.op = "spawn"   -> Spawned(p, c.entity, c.values)
    [] c.op = "despawn" -> Despawned(p, c.entity)

Becomes(p) == placed' = p.placed /\ has' = p.has
Apply ==
  /\ Becomes(FoldLeft(Changed, [placed |-> placed, has |-> has], asked'))
  /\ UNCHANGED given

Next == (\E e \in given' : Reserve(e)) \/ Apply

Spec == Init /\ [][Next]_vars
==============================================================================
