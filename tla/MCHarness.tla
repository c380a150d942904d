----------------------------- MODULE MCHarness ------------------------------
(***************************************************************************)
(* Small frames for TLC: systems of every kind that can meet, and plans of *)
(* two or three of them.                                                   *)
(***************************************************************************)
EXTENDS Harness

Over(terms, without) ==
  [terms |-> terms, with |-> {}, without |-> without, adds |-> {}, removes |-> {},
   despawns |-> FALSE, on |-> Entities]

System1(q) == [queries |-> <<q>>, spawns |-> {}, events |-> {}, slots |-> {}]

(* X, A and B are table components, S is sparse; kill's rows have no A.    *)
X  == <<"X", FALSE>>
A  == <<"A", FALSE>>
B  == <<"B", FALSE>>
S  == <<"S", FALSE>>
wB == <<"B", TRUE>>
wS == <<"S", TRUE>>

seeAB == System1(Over({A, B}, {}))
turnB == System1(Over({A, wB}, {}))
addA  == System1([Over({X}, {"A"}) EXCEPT !.adds = {"A"}])
addB  == System1([Over({A}, {}) EXCEPT !.adds = {"B"}])
swap  == System1([Over({A}, {}) EXCEPT !.adds = {"B"}, !.removes = {"A"}])
kill  == System1([Over({X}, {"A"}) EXCEPT !.despawns = TRUE])
addS  == System1([Over({X}, {"S"}) EXCEPT !.adds = {"S"}])
seeS  == System1(Over({S}, {}))
turnS == System1(Over({X, wS}, {}))
dropS == System1([Over({S}, {"B"}) EXCEPT !.removes = {"S"}])
fireX == System1([Over({S}, {}) EXCEPT !.with = {"X"}, !.adds = {"B"}])
send  == [System1(Over({A}, {})) EXCEPT !.events = {<<"hit", TRUE>>}]
hear  == [System1(Over({}, {"X"})) EXCEPT !.events = {<<"hit", FALSE>>}, !.slots = {<<"mod", TRUE>>}]
spawn == [System1(Over({}, {"X"})) EXCEPT !.spawns = {[e |-> 3, set |-> {"X", "A", "S"}]},
                                          !.slots = {<<"mod", TRUE>>}]

Menu == {seeAB, turnB, addA, addB, swap, kill, addS, seeS, turnS, dropS, fireX, send, hear, spawn}

(* An id is handed out once.                                               *)
SpawnsOnce(p) == \A i, j \in DOMAIN p : p[i] = spawn /\ p[j] = spawn => i = j

Twos   == {p \in {<<s, t>> : s \in Menu, t \in Menu} : SpawnsOnce(p)}
Threes == {p \in {<<s, t, u>> : s \in Menu, t \in Menu, u \in Menu} : IsInjective(p)}

(* Worlds: warm, where every table has been made in frames before, and     *)
(* cold, where only those of the entities there are.                       *)
WorldOf(made, at) ==
  [made |-> made,
   rows |-> [t \in Table |-> {e \in DOMAIN at : at[e] = t}],
   sparse |-> [c \in SparseComponents |-> {1}],
   value |-> [x \in Entities \X Components |-> 0],
   queue |-> [q \in Queues |-> <<>>], slot |-> [k \in Slots |-> 0]]

Warm == WorldOf(<<{}, {"X"}, {"X", "A"}, {"A"}, {"X", "B"}, {"B"}, {"A", "B"}, {"X", "A", "B"}>>,
                 <<{"X"}, {"X", "A"}>>)
Cold  == WorldOf(<<{}, {"X"}>>, <<{"X"}, {"X"}>>)

SmallFrames == (Twos \X {Cold}) \union (Threes \X {Warm})

(* Two frames that don't come out as the sequential frame. In one, a table *)
(* that an earlier apply is about to make is bounded for nothing that      *)
(* starts from it.                                                         *)
TwoMoves == {<<<<addA, addB, seeAB>>, Cold>>}

(* In the other, two applies that have no table in common each make one,   *)
(* and whichever is first has the lower number; seeA walks both.           *)
addBAlone == System1([Over({A}, {"X"}) EXCEPT !.adds = {"B"}])
seeA      == System1(Over({A}, {}))
TwoTables == {<<<<addA, addBAlone, seeA>>, WorldOf(<<{}, {"X"}, {"A"}>>, <<{"X"}, {"A"}>>)>>}
==============================================================================
