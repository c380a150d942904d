----------------------------- MODULE SparseSets -----------------------------
(***************************************************************************)
(* A sparse component's set (src/engine/ecs/world.rs, SparseSet): values,  *)
(* packed, the entity of each, and by an entity's index the slot it is in. *)
(* Entries of the dead stay, until the set is locked to be written and     *)
(* there could be many, or until their index has a new owner with a value. *)
(***************************************************************************)
EXTENDS Integers, SequencesExt

CONSTANTS MaxIndex     \* entities' indices are 1..MaxIndex

Index == 1..MaxIndex
Entity == [index : Index, generation : Nat]
Empty == 0

NewSet == [entities |-> <<>>, values |-> <<>>, slots |-> [i \in Index |-> Empty], purgedAt |-> 0]

SwapRemove(list, i) ==
  IF i = Len(list) THEN Front(list) ELSE [Front(list) EXCEPT ![i] = Last(list)]

SlotOfAny(set, e) == set.slots[e.index]   \* a mutant: whosever the entry is
SlotOf(set, e) ==
  IF set.slots[e.index] # Empty /\ set.entities[set.slots[e.index]] = e
  THEN set.slots[e.index] ELSE Empty

(* The value of an entity's own, or of one dead that had its index, is     *)
(* replaced.                                                               *)
SetInsert(set, e, v) ==
  IF set.slots[e.index] # Empty
  THEN [set EXCEPT !.values[set.slots[e.index]] = v, !.entities[set.slots[e.index]] = e]
  ELSE [set EXCEPT !.slots[e.index] = Len(set.entities) + 1,
                   !.entities = Append(@, e), !.values = Append(@, v)]

RemoveSlotOnly(set, i) ==   \* a mutant: who was swapped in keeps its slot
  [set EXCEPT !.entities = SwapRemove(@, i), !.values = SwapRemove(@, i),
              !.slots[set.entities[i].index] = Empty]
RemoveSlot(set, i) ==
  [set EXCEPT
     !.entities = SwapRemove(@, i), !.values = SwapRemove(@, i),
     !.slots = [x \in Index |->
                  IF x = set.entities[i].index THEN Empty
                  ELSE IF x = Last(set.entities).index THEN i ELSE @[x]]]

SetRemove(set, e) == IF SlotOf(set, e) = Empty THEN set ELSE RemoveSlot(set, SlotOf(set, e))

(* Drops the dead's entries, once as many have died since it last did as   *)
(* are a quarter of the set: each in turn, where the next stands after.    *)
MayPurge(set, deaths) == deaths - set.purgedAt > Len(set.entities) \div 4

PurgeAt(p, e) ==
  IF p.set.entities[p.at] \in p.alive THEN [p EXCEPT !.at = @ + 1]
  ELSE [p EXCEPT !.set = RemoveSlot(@, p.at)]

PurgeAll(p, entities) == FoldLeft(PurgeAt, p, entities)
Purged(set, alive) == PurgeAll([set |-> set, at |-> 1, alive |-> alive], set.entities).set

PurgeDead(set, deaths, alive) ==
  IF MayPurge(set, deaths) THEN Purged([set EXCEPT !.purgedAt = deaths], alive) ELSE set
==============================================================================
