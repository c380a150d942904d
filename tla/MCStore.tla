------------------------------- MODULE MCStore -------------------------------
(***************************************************************************)
(* Small stores: a table component V, one K whose tables are kept in its   *)
(* order, and a sparse one S.                                              *)
(***************************************************************************)
EXTENDS Store

Insert(n, c, v) == [op |-> "insert", entity |-> n, component |-> c, value |-> v]
Drop(n, c)      == [op |-> "remove", entity |-> n, component |-> c]
SetTo(n, c, v)  == [op |-> "set", entity |-> n, component |-> c, value |-> v]
SpawnOf(n, vs)  == [op |-> "spawn", entity |-> n, values |-> vs]
DespawnOf(n)    == [op |-> "despawn", entity |-> n]

One(changes) == {<<c>> : c \in changes}

Quiet ==
  [entities |-> 3, start |-> <<>>, logs |-> {}, who |-> {1, 2}, steps |-> 3, reserves |-> FALSE,
   reloads |-> FALSE, writes |-> {}, fails |-> {FALSE}, reads |-> "V", without |-> {}]

(* Rows that come, go and change tables while a system looks for changes.  *)
Moves ==
  [Quiet EXCEPT
     !.start = <<SpawnOf(1, [V |-> 0]), SpawnOf(2, [V |-> 1]), SpawnOf(3, [V |-> 0, K |-> 1])>>,
     !.logs = One({Insert(1, "K", 0), Drop(1, "K"), Insert(1, "V", 1), Drop(1, "V"),
                   SetTo(1, "V", 0), DespawnOf(1), SpawnOf(1, [V |-> 1])})
              \union {<<Insert(1, "K", 0), Insert(2, "V", 1)>>, <<Drop(1, "V"), Insert(1, "V", 0)>>,
                      <<DespawnOf(1), DespawnOf(2)>>, <<SpawnOf(1, [V |-> 0]), DespawnOf(2)>>},
     !.reserves = TRUE, !.writes = {"V"}, !.without = {"K"}]

(* Ids that are reserved, leaked, placed, despawned and had again, with    *)
(* sparse values.                                                          *)
Sparse ==
  [Quiet EXCEPT
     !.start = <<SpawnOf(1, [S |-> 0]), SpawnOf(2, [S |-> 1]), SpawnOf(3, [V |-> 0])>>,
     !.logs = One({Insert(1, "S", 0), Drop(1, "S"), SetTo(1, "S", 1), SpawnOf(1, [S |-> 1])})
              \union {<<Insert(1, "S", 1), DespawnOf(1)>>, <<DespawnOf(1), Insert(1, "S", 0)>>,
                      <<Drop(1, "S"), Insert(2, "V", 1), Insert(1, "S", 1)>>,
                      <<Insert(1, "S", 1), DespawnOf(2), Drop(1, "S")>>},
     !.reserves = TRUE, !.steps = 4]

(* Rows on two pages kept in order of keys, written in place by systems    *)
(* that fail or not, and keyed by builds that order them differently.      *)
Keys ==
  [Quiet EXCEPT
     !.entities = 4,
     !.start = <<SpawnOf(1, [K |-> 0]), SpawnOf(2, [K |-> 1]),
                 SpawnOf(3, [K |-> 1]), SpawnOf(4, [K |-> 2, V |-> 0])>>,
     !.logs = One({Insert(1, "K", 1), DespawnOf(1), SetTo(1, "K", 0), Drop(1, "V"), Insert(1, "V", 0)})
              \union {<<DespawnOf(1), DespawnOf(2)>>, <<DespawnOf(1), Insert(2, "K", 0)>>},
     !.reloads = TRUE, !.writes = {"K"}, !.fails = BOOLEAN, !.reads = "K"]

(* A set with an entry for every index, of which one may be dead and stay  *)
(* when the set is next locked, until its index has a new owner.           *)
Full ==
  [Quiet EXCEPT
     !.entities = 4,
     !.start = <<SpawnOf(1, [S |-> 0]), SpawnOf(2, [S |-> 1]),
                 SpawnOf(3, [S |-> 0]), SpawnOf(4, [S |-> 1])>>,
     !.logs = One({Insert(1, "S", 1), Drop(1, "S"), DespawnOf(1), SpawnOf(1, [S |-> 1])})
              \union {<<DespawnOf(1), Insert(2, "S", 0)>>},
     !.reserves = TRUE, !.steps = 4]

AllScenes == {Moves, Sparse, Keys, Full}
==============================================================================
