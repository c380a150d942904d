-------------------------------- MODULE Store --------------------------------
(***************************************************************************)
(* The world's store (src/engine/ecs/world.rs): entities' slots, which say *)
(* where each is, the tables and sparse sets with their values, and the    *)
(* structural changes that keep them in step, made by one Structural at a  *)
(* time on what it has locked (that several at once lock nothing in common *)
(* is Harness's subject).                                                  *)
(***************************************************************************)
EXTENDS Pages

CONSTANTS
  TableComponents, SparseComponents,
  Values,       \* of every component; a key component's are its keys, as the
                \* builds that are installed in turn see it
  RunWindow,    \* how far back in the log a sparse change looks for a run
  Scenes        \* of each, how many entities there are at first and the log
                \* that spawned them; what may be done to which, and how often

Components == TableComponents \union SparseComponents

(* A change to one of who: a record, with an op.                           *)
Changes(who) ==
  [op : {"insert", "set"}, entity : who, component : Components, value : Values]
    \union [op : {"remove"}, entity : who, component : Components]
    \union [op : {"spawn"}, entity : who, values : UNION {[cs -> Values] : cs \in SUBSET Components}]
    \union [op : {"despawn"}, entity : who]

ASSUME StoreAssumption ==
  /\ MaxIndex \in Nat \ {0} /\ PageRows \in Nat \ {0}
  /\ TableComponents \intersect SparseComponents = {} /\ IsFiniteSet(SparseComponents)
  /\ Values \subseteq Int /\ LastKey \in Int
  /\ \A sc \in Scenes :
       /\ sc.entities \in 0..MaxIndex
       /\ sc.start \in Seq(Changes(1..sc.entities))
       /\ \A i \in DOMAIN sc.start :
            /\ sc.start[i].op = "spawn"
            /\ \A j \in DOMAIN sc.start \ {i} : sc.start[j].entity # sc.start[i].entity
       /\ \A log \in sc.logs : log \in Seq(Changes(sc.who))

VARIABLES
  scene,
  store,    \* the world's
  build,    \* the number of the build whose glue keys the Key
  given,    \* the ids that were given out
  asked,    \* the log that was applied last
  reader,   \* when a system last read, and what: [since, saw]
  lost,     \* tables a failed system wrote keys in, not re-sorted since
  done      \* how much was

vars == <<scene, store, build, given, asked, reader, lost, done>>

Dead      == [is |-> "dead"]
Reserved  == [is |-> "reserved"]
Placed(table, page, row) == [is |-> "placed", table |-> table, page |-> page, row |-> row]

(* With what the Structural at work has: a tick, once it has taken one, or *)
(* 0, the slots it freed and the sets it has locked.                       *)
NewStore ==
  [generations |-> [i \in Index |-> 0], locations |-> [i \in Index |-> Dead],
   next |-> 1, free |-> <<>>, deaths |-> 0,
   tables |-> [t \in {{}} |-> NewTable(t)], sets |-> [c \in SparseComponents |-> NewSet],
   tick |-> 1, stamp |-> 0, freed |-> <<>>, locked |-> {}]

Alive(s, e)  == s.generations[e.index] = e.generation /\ s.locations[e.index] # Dead
IsPlaced(s, e) == s.generations[e.index] = e.generation /\ s.locations[e.index].is = "placed"
At(s, e)     == s.locations[e.index]

-----------------------------------------------------------------------------
(* Ids: a slot that was freed last, or one not used yet.                   *)
HasSlot(s)  == s.free # <<>> \/ s.next <= MaxIndex
FreeSlot(s) == IF s.free # <<>> THEN Last(s.free) ELSE s.next
NewId(s)    == [index |-> FreeSlot(s), generation |-> s.generations[FreeSlot(s)]]

TakenTwice(s) ==   \* a mutant: the slot stays free
  [s EXCEPT !.locations[FreeSlot(s)] = Reserved,
            !.next = IF s.free = <<>> THEN @ + 1 ELSE @]
Taken(s) ==
  [s EXCEPT !.locations[FreeSlot(s)] = Reserved,
            !.free = IF @ = <<>> THEN @ ELSE Front(@),
            !.next = IF s.free = <<>> THEN @ + 1 ELSE @]

PlaceAt(s, e, at) == [s EXCEPT !.locations[e.index] = at]

Kill(s, e) ==
  [s EXCEPT !.locations[e.index] = Dead, !.generations[e.index] = @ + 1,
            !.deaths = @ + 1]

-----------------------------------------------------------------------------
(* What a Structural does.                                                 *)
Stamped(s) == IF s.stamp # 0 THEN s ELSE [s EXCEPT !.stamp = s.tick + 1, !.tick = @ + 1]

LockSet(s, c) ==
  IF c \in s.locked THEN s
  ELSE [s EXCEPT !.locked = @ \union {c},
                 !.sets[c] = PurgeDead(@, s.deaths, {e \in ToSet(@.entities) : Alive(s, e)})]

(* A function with y at x too.                                             *)
With(f, x, y) == [z \in DOMAIN f \union {x} |-> IF z = x THEN y ELSE f[z]]

TableFor(s, components) ==
  IF components \in DOMAIN s.tables THEN s
  ELSE [s EXCEPT !.tables = With(@, components, NewTable(components))]

MakeRoom(s, t) == [s EXCEPT !.tables[t] = WithRoom(@)]

LastRow(table, t) == Placed(t, Len(table.rows), Len(Last(table.rows)))

PlaceOnLast(s, e, t) == PlaceAt(s, e, LastRow(s.tables[t], t))

AddRow(s, e, t, cells) ==
  PlaceOnLast([s EXCEPT !.tables[t] = WithRow(@, e, cells, s.stamp)], e, t)

(* Spawned values are written.                                             *)
PushRow(s, e, t, values) ==
  AddRow(MakeRoom(s, t), e, t, [c \in DOMAIN values |-> Cell(values[c], s.stamp)])

(* Who was swapped in is where the row was.                                *)
PlaceNone(s, at) == s   \* a mutant: who was swapped in is not told
PlaceSwapped(s, at) ==
  LET page == s.tables[at.table].rows[at.page]
  IN  IF at.row \in DOMAIN page THEN PlaceAt(s, page[at.row], at) ELSE s

TakeRow(s, at) ==
  PlaceSwapped([s EXCEPT !.tables[at.table] = WithoutRow(@, at.page, at.row, s.stamp)], at)

CellAt(s, at, c) == s.tables[at.table].columns[c][at.page].cells[at.row]

(* The values both tables have keep their ticks.                           *)
Carried(s, at, components) == [c \in components |-> CellAt(s, at, c)]

MoveEntity(s, e, at, to, cells) == AddRow(TakeRow(MakeRoom(s, to), at), e, to, cells)

InsertSparse(s, e, c, v) == [LockSet(s, c) EXCEPT !.sets[c] = SetInsert(@, e, v)]
RemoveSparse(s, e, c)    == [LockSet(s, c) EXCEPT !.sets[c] = SetRemove(@, e)]

(* A value that replaces one has a tick of its own.                        *)
ReplaceCell(s, at, c, v) ==
  [s EXCEPT !.tick = @ + 1, !.tables[at.table] = Replaced(@, c, at, Cell(v, s.tick + 1))]

InsertRow(s, e, at, c, v) ==
  MoveEntity(s, e, at, at.table \union {c},
             With(Carried(s, at, at.table), c, Cell(v, s.stamp)))
InsertNew(s, e, c, v) ==
  InsertRow(Stamped(TableFor(s, At(s, e).table \union {c})), e, At(s, e), c, v)

(* A value is dropped if there is no entity to take it.                    *)
InsertId(s, e, c, v) ==
  IF c \in SparseComponents
  THEN IF Alive(s, e) THEN InsertSparse(s, e, c, v) ELSE s
  ELSE IF ~IsPlaced(s, e) THEN s
  ELSE IF c \in At(s, e).table THEN ReplaceCell(s, At(s, e), c, v)
  ELSE InsertNew(s, e, c, v)

RemoveRow(s, e, at, c) ==
  MoveEntity(s, e, at, at.table \ {c}, Carried(s, at, at.table \ {c}))
RemoveOld(s, e, c) ==
  RemoveRow(Stamped(TableFor(s, At(s, e).table \ {c})), e, At(s, e), c)
RemoveId(s, e, c) ==
  IF c \in SparseComponents THEN RemoveSparse(s, e, c)
  ELSE IF IsPlaced(s, e) /\ c \in At(s, e).table THEN RemoveOld(s, e, c) ELSE s

(* A value handed out to be changed, between frames.                       *)
SetSparse(s, e, c, v) ==
  IF SlotOf(s.sets[c], e) = Empty THEN s ELSE [s EXCEPT !.sets[c].values[SlotOf(s.sets[c], e)] = v]
SetId(s, e, c, v) ==
  IF c \in SparseComponents THEN SetSparse(LockSet(s, c), e, c, v)
  ELSE IF IsPlaced(s, e) /\ c \in At(s, e).table THEN ReplaceCell(s, At(s, e), c, v) ELSE s

(* Its entries in sparse sets stay.                                        *)
Despawn(s, e) ==
  IF ~IsPlaced(s, e) THEN s
  ELSE [Kill(TakeRow(Stamped(s), At(s, e)), e) EXCEPT !.freed = Append(@, e.index)]

Only(values, cs) == [c \in DOMAIN values \intersect cs |-> values[c]]
SpawnRow(s, e, values) ==
  PushRow(Stamped(TableFor(s, DOMAIN values)), e, DOMAIN values, values)
Inserted(s, c) == InsertId(s, c.entity, c.component, c.value)
Inserts(e, values, cs) ==
  [n \in DOMAIN cs |-> [op |-> "insert", entity |-> e, component |-> cs[n], value |-> values[cs[n]]]]
InsertAll(s, changes) == FoldLeft(Inserted, s, changes)
Spawn(s, e, values) ==
  InsertAll(SpawnRow(s, e, Only(values, TableComponents)),
            Inserts(e, values, SetToSeq(DOMAIN values \intersect SparseComponents)))

(* Its end: the slots it freed may be used, then the tables that were      *)
(* touched are re-sorted.                                                  *)
PlacesIn(table, t) ==
  UNION {{[index |-> table.rows[p][r].index, at |-> Placed(t, p, r)] : r \in DOMAIN table.rows[p]} :
            p \in DOMAIN table.rows}

Replace(s, tables, moved) ==
  [s EXCEPT !.tables = tables,
            !.locations = [i \in Index |->
               IF \E m \in moved : m.index = i THEN (CHOOSE m \in moved : m.index = i).at ELSE @[i]]]

Resort(s) ==
  LET tables == [t \in DOMAIN s.tables |-> Resorted(s.tables[t], build, s.tick)]
  IN  Replace(s, tables,
              UNION {PlacesIn(tables[t], t) : t \in {t \in DOMAIN tables : s.tables[t].dirty}})

Freed(s) == [s EXCEPT !.free = @ \o s.freed, !.freed = <<>>]
Close(s) == [Resort(Freed(s)) EXCEPT !.stamp = 0, !.locked = {}]

-----------------------------------------------------------------------------
(* A log: a sparse change joins its component's latest run, if that is not *)
(* far back.                                                               *)
IsSparseChange(c) == c.op \in {"insert", "remove"} /\ c.component \in SparseComponents
RunOf(c)  == [op |-> "run", component |-> c.component, changes |-> <<c>>]
RunsFor(log, c) ==
  {i \in DOMAIN log : /\ Len(log) - i < RunWindow
                      /\ log[i].op = "run" /\ log[i].component = c.component}

JoinedTo(log, c, runs) ==
  IF runs = {} THEN Append(log, RunOf(c))
  ELSE [log EXCEPT ![CHOOSE i \in runs : \A j \in runs : j <= i].changes = Append(@, c)]
Logged(log, c) ==
  IF IsSparseChange(c) THEN JoinedTo(log, c, RunsFor(log, c)) ELSE Append(log, c)

Made(s, c) ==
  CASE c.op = "insert"  -> Inserted(s, c)
    [] c.op = "remove"  -> RemoveId(s, c.entity, c.component)
    [] c.op = "set"     -> SetId(s, c.entity, c.component, c.value)
    [] c.op = "spawn"   -> Spawn(s, c.entity, c.values)
    [] c.op = "despawn" -> Despawn(s, c.entity)

(* A run locks its set once, whether it changes it or not.                 *)
MakeRun(s, changes) == FoldLeft(Made, s, changes)
MadeAll(s, c) == IF c.op = "run" THEN MakeRun(LockSet(s, c.component), c.changes) ELSE Made(s, c)
MakeAll(s, log) == FoldLeft(MadeAll, s, log)
LogAll(log) == FoldLeft(Logged, <<>>, log)

ApplyLog(s, log) == Close(MakeAll(s, LogAll(log)))

-----------------------------------------------------------------------------
(* Who the first entities are, and the world they are in.                  *)
First(n) == [index |-> n, generation |-> 0]
Filled(log, who) == [i \in DOMAIN log |-> [log[i] EXCEPT !.entity = who[@]]]

AtFirst(n) ==
  [NewStore EXCEPT !.locations = [i \in Index |-> IF i <= n THEN Reserved ELSE Dead],
                   !.next = n + 1]

Init ==
  /\ scene \in Scenes
  /\ build = 1
  /\ store = ApplyLog(AtFirst(scene.entities), Filled(scene.start, [i \in Index |-> First(i)]))
  /\ given = {First(i) : i \in 1..scene.entities}
  /\ asked = <<>>
  /\ reader = [since |-> 0, saw |-> {}]
  /\ lost = {} /\ done = 0

Step == done < scene.steps /\ done' = done + 1 /\ UNCHANGED scene

(* A system, while a frame is open, or a hook takes an id to spawn.        *)
Reserve ==
  /\ Step /\ HasSlot(store) /\ scene.reserves
  /\ store' = Taken(store) /\ given' = given \union {NewId(store)}
  /\ asked' = <<>> /\ UNCHANGED <<build, reader, lost>>

(* A spawn is of an id that was reserved for it.  Other changes that a     *)
(* system logs are to entities it found, which were spawned; between       *)
(* frames one is to any.                                                   *)
IsReserved(e) == Alive(store, e) /\ At(store, e) = Reserved
MayApply(log) ==
  \A i \in DOMAIN log :
     IF log[i].op = "spawn"
     THEN IsReserved(log[i].entity) /\ \A j \in DOMAIN log \ {i} : log[j].entity # log[i].entity
     ELSE Len(log) = 1 \/ ~IsReserved(log[i].entity)

StillLost(tables) == {t \in lost : tables[t].sortedAt = store.tables[t].sortedAt}

Apply(log) ==
  /\ Step /\ MayApply(log)
  /\ store' = ApplyLog(store, log) /\ asked' = log
  /\ lost' = StillLost(store'.tables)
  /\ UNCHANGED <<build, given, reader>>

(* A system writes a value in place, over all rows that have the           *)
(* component; what it may have moved is re-sorted by its apply, which      *)
(* isn't made if it fails.                                                 *)
Marked(page, tick) ==
  IF page.cells = <<>> THEN page ELSE [page EXCEPT !.written = Greater(@, tick)]
WrittenBy(table, c, tick) ==
  IF c \notin ComponentsOf(table) THEN table
  ELSE [table EXCEPT !.columns[c] = [p \in DOMAIN @ |-> Marked(@[p], tick)]]
AllWritten(tables, c, at, cell) ==
  [[t \in DOMAIN tables |-> WrittenBy(tables[t], c, cell.tick)]
     EXCEPT ![at.table] = WithCell(@, c, at, cell)]
WriteAt(s, at, c, v) ==
  [s EXCEPT !.tick = @ + 1, !.tables = AllWritten(@, c, at, Cell(v, s.tick + 1))]
Touched(s) == [s EXCEPT !.tables = [t \in DOMAIN @ |-> [@[t] EXCEPT !.dirty = IsOrdered(t)]]]

Settled(s, c, fails) == IF c = Key /\ ~fails THEN Close(Touched(s)) ELSE s
Write(e, c, v, fails) ==
  /\ Step /\ IsPlaced(store, e) /\ c \in At(store, e).table
  /\ store' = Settled(WriteAt(store, At(store, e), c, v), c, fails)
  /\ lost' = IF c = Key /\ fails THEN lost \union {At(store, e).table} ELSE StillLost(store'.tables)
  /\ asked' = <<[op |-> "set", entity |-> e, component |-> c, value |-> v]>>
  /\ UNCHANGED <<build, given, reader>>

(* A newer build of the Key is installed, with the same layout.            *)
Install ==
  /\ Step /\ scene.reloads /\ build' = build + 1
  /\ asked' = <<>> /\ UNCHANGED <<store, given, reader, lost>>

(* A query's tables, and what it yields.                                   *)
Watched(s) == {t \in DOMAIN s.tables : scene.reads \in t /\ scene.without \intersect t = {}}
Seen(s, tables) ==
  UNION {UNION {{[entity |-> s.tables[t].rows[p][r], value |-> s.tables[t].columns[scene.reads][p].cells[r].value] :
                   r \in DOMAIN s.tables[t].rows[p]} : p \in DOMAIN s.tables[t].rows} : t \in tables}
Read ==
  /\ Step
  /\ reader' = [since |-> store.tick, saw |-> Seen(store, Watched(store))]
  /\ asked' = <<>> /\ UNCHANGED <<store, build, given, lost>>

Next ==
  \/ Reserve
  \/ \E log \in scene.logs : \E who \in [scene.who -> given] : Apply(Filled(log, who))
  \/ \E e \in given, c \in scene.writes, v \in Values, fails \in scene.fails : Write(e, c, v, fails)
  \/ Install
  \/ Read

Spec == Init /\ [][Next]_vars

-----------------------------------------------------------------------------
Living == {e \in given : Alive(store, e)}

TableValues(e) == [c \in At(store, e).table |-> CellAt(store, At(store, e), c).value]
SparseValues(e) ==
  [c \in {c \in SparseComponents : SlotOf(store.sets[c], e) # Empty} |->
     store.sets[c].values[SlotOf(store.sets[c], e)]]
ValuesOf(e) ==
  SparseValues(e) @@ (IF IsPlaced(store, e) THEN TableValues(e) ELSE <<>>)

Promised == INSTANCE Population WITH
       placed <- {e \in given : IsPlaced(store, e)},
       has    <- [e \in Living |-> ValuesOf(e)]

(* The store, with its rows swapped and moved, its entries of the dead and *)
(* its changes batched in runs, is the population that changes in the      *)
(* order of the log, each entity with the values it was given and no       *)
(* other's.                                                                *)
ImplementsPopulation == Promised!Spec

TypeOK ==
  /\ store.next \in 1..MaxIndex + 1
  /\ ToSet(store.free) \subseteq Index /\ IsInjective(store.free)
  /\ \A i \in ToSet(store.free) : store.locations[i] = Dead /\ i < store.next
  /\ DOMAIN store.tables \subseteq SUBSET TableComponents
  /\ given \subseteq [index : Index, generation : 0..done]

(* Every row's entity is where its slot says, every entity that is placed  *)
(* has a row, and a table's columns and keys have the pages its rows have  *)
(* (take_row, move_entity and a re-sort's place keep three lists in step). *)
RowsLocated ==
  /\ \A t \in DOMAIN store.tables : \A p \in DOMAIN store.tables[t].rows :
       /\ Len(store.tables[t].rows[p]) <= PageRows
       /\ \A c \in t : Len(store.tables[t].columns[c][p].cells) = Len(store.tables[t].rows[p])
       /\ Len(store.tables[t].keys[p]) = Len(store.tables[t].rows[p])
       /\ \A r \in DOMAIN store.tables[t].rows[p] :
            /\ IsPlaced(store, store.tables[t].rows[p][r])
            /\ At(store, store.tables[t].rows[p][r]) = Placed(t, p, r)
  /\ \A e \in given : IsPlaced(store, e) =>
       /\ At(store, e).row \in DOMAIN store.tables[At(store, e).table].rows[At(store, e).page]
       /\ store.tables[At(store, e).table].rows[At(store, e).page][At(store, e).row] = e

(* An entry's index leads back to it, no index has two, and those of the   *)
(* dead that a set still has are no more than have died since it was       *)
(* purged, which is what lets it put a purge off (purge_dead).             *)
SetsIndexed ==
  \A c \in SparseComponents :
    /\ Len(store.sets[c].values) = Len(store.sets[c].entities)
    /\ \A n \in DOMAIN store.sets[c].entities :
         store.sets[c].slots[store.sets[c].entities[n].index] = n
    /\ \A i \in Index : store.sets[c].slots[i] # Empty =>
         /\ store.sets[c].slots[i] \in DOMAIN store.sets[c].entities
         /\ store.sets[c].entities[store.sets[c].slots[i]].index = i
    /\ Cardinality({e \in ToSet(store.sets[c].entities) : ~Alive(store, e)})
         <= store.deaths - store.sets[c].purgedAt

(* Rows and sparse entries are where the world looks for them.             *)
Indexed == RowsLocated /\ SetsIndexed

(* An ordered table that no failed system wrote keys in has its rows in    *)
(* order, each by the key that the build which last re-sorted it gives its *)
(* value: a re-sort that keys only what is new or written since misses no  *)
(* row another's removal moved, nor one written as it last ended.          *)
KeptInOrder ==
  \A t \in {t \in DOMAIN store.tables : IsOrdered(t)} \ lost :
    /\ ~store.tables[t].dirty
    /\ InOrder(store.tables[t])
    /\ \A p \in DOMAIN store.tables[t].rows : \A r \in DOMAIN store.tables[t].rows[p] :
         store.tables[t].keys[p][r] =
           Glue(store.tables[t].keyedBy, store.tables[t].columns[Key][p].cells[r].value)

Since(tick) == tick > reader.since
SawIt(e) == \E row \in reader.saw : row.entity = e
WrittenSince(e) ==
  /\ Since(CellAt(store, At(store, e), scene.reads).tick)
  /\ Since(store.tables[At(store, e).table].columns[scene.reads][At(store, e).page].written)

(* What a system reads as changed since it last looked is all that has: a  *)
(* value it did not see then is of a cell, on a page, said to be written   *)
(* since, or came with a row to a table said to have had one arrive; and   *)
(* if a row it saw is gone then a table is said to have had one leave.     *)
ChangesSeen ==
  /\ \A row \in Seen(store, Watched(store)) \ reader.saw :
       \/ WrittenSince(row.entity)
       \/ ~SawIt(row.entity) /\ Since(store.tables[At(store, row.entity).table].arrived)
  /\ (\E row \in reader.saw : \A now \in Seen(store, Watched(store)) : now.entity # row.entity)
       => \E t \in Watched(store) : Since(store.tables[t].left)
==============================================================================
