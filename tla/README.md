# Models and proofs of the engine

This directory holds TLA+ models of the engine in `src/engine`, the TLC runs
that check them on small instances, and proofs checked by TLAPS. The engine
runs a game as a set of *mods*: libraries that are loaded, swapped for newer
builds while the game runs, and called by each other through service tables.
Mods keep their data in an ECS world and register *systems*, which a frame
runs in plan order, or at once as far as they touch nothing in common; a
system may split its own work into blocks over threads.

Everything in a module is translated from the source. Documents and comments
are read for what they promise: where the code does something else, a run
shows it (see *Findings*).

## The system

| Component (source) | State it keeps | Operations | What makes it correct | Modules |
|---|---|---|---|---|
| Task graph dispatch (`ecs/dispatch.rs`) | atomics: waits, done, marks, ready, published, finished, failed | plan, dispatch, workers that claim, run, count and publish | each block runs once, stages of a chain in order, the caller comes back, panics included | `Dispatch` |
| Loader, hot reload (`loader/engine.rs`, `main.rs`) | loaded mods, builds, states, transient parts, running and failed flags, cached plan, open frame | batch load, reload, unload, shutdown, pump, frame, call, message | no code runs in an unmapped build, on another build's state, or twice at once; builds fit each other | `Mods` |
| Mod API (`api/lib.rs`, `service.rs`, `scheduler.rs`) | a mod's state and transient part; a held frame | hooks, service calls, begin/run/end frame | panics are caught where the code was entered; a frame is always ended | `Mods` |
| Schedule (`loader/schedule.rs`) | none: a function of the builds | phases, constraints, rates, groups, flow check | a plan satisfies every constraint, and there is one if there can be | `FramePlan` |
| Frames, rates (`loader/engine.rs`) | the open frame's nodes, accumulated time, the log of a system before its apply | begin, run a node, end | groups keep pace with time | `Frames` |
| Events (`ecs/events.rs`) | queues, cursors | send, read, expire, reinstall | each reader sees each event once, or it has expired | `Events` |
| Flows (`ecs/flows.rs`) | a value and its bin per flow | Make, See, Pass, Take, plan check | a value is of the step that finds it, and its code is mapped | `Flows` |
| World storage (`ecs/world.rs`, `ordered.rs`) | slots, tables of pages, sparse sets, ticks, key order | insert, remove, spawn, despawn, reserve, install, re-sort | an entity is in one table, found by its index; changes happen in log order and are detected | `Store` |
| Spatial tables (`ecs/spatial.rs`, `near_pairs` in `query.rs`) | ranges, boxes and runs of pages, marked rows | mark, re-sort, split, query, broadphase | in order; no row is passed over; a page that changed is stamped | `Spatial` |
| Live relations (`ecs/live.rs`) | kept pairs, fat boxes, stamps of pages | update, walk, retest, merge | what it answers is what is so now | `Live` |
| Frame graph, harness (`ecs/graph.rs`, `harness.rs`) | node states, logs, footprints of running applies | bound, exact, overlap, ready; parallel and sequential frames | a parallel frame is the sequential one; no guard is contended | `Harness` |
| Queries and parameters (`ecs/query.rs`) | guards held while a system runs, its log | fetch, walk, row changes, spawn | what a system sees and changes is what it declared | `Tables`, `Store`, `NearPairs` |
| Thread pool (`std/threads`) | jobs, workers, the counter, spins | run, warm, replace, drop | each task of a run runs once before it returns; dropping joins | `Pool` |
| Control server (`loader/control_server.rs`, `control`) | the socket's file, backlog, inbox, the control thread | start, accept, read, answer, stop | an engine that is up has its socket; who asked is answered | `Control` |
| Shapes, splits (`ecs/shape.rs`, `par.rs`) | none between runs | blocks, coloring | blocks cover the items, colors do not share states | `TaskPlan` (counting only) |
| Columns, schemas (`ecs/erased.rs`, `component.rs`, `schema.rs`) | raw memory | push, swap-remove, migrate | memory safety, which the repository's Miri and fuzz runs check | none |
| Bootstraps and clocks (`std/lockstep`, `realtime`, `sequential`, `clock`) | pacing | pump, step | they call the loader as `Mods` lets any bootstrap | `Mods` |
| Physics, games, build rules, spikes | | | see the end | none |

How they interact. The loader owns the world and the mods. A bootstrap mod,
called by the loader, calls back into it for frames and pumps; a system or a
hook calls services of other mods; all that is one thread, so what is
concurrent is the *stack*. The control thread only puts requests in the inbox.
Inside a frame the scheduler runs nodes on threads: a node takes guards on the
parts of the world its parameters name, a system logs its changes, and its
apply node makes them, re-sorting the tables that were marked as it lets go
of them. A shape inside a system runs a task graph on the executor's threads.
A live relation is a parameter: it reads the tables' pages and their stamps.

The hard behaviours, with their lines, are in `PROJECT.json` under `hazards`.

## The plan

| | Modules | What for | Proved |
|---|---|---|---|
| 1 | `TaskPlan`, `TaskGraph`, `Dispatch`, `DispatchRefinement`, `MCDispatch` | the lock-free protocol, and its abstract promise | `DispatchProofs` |
| 2 | `Builds`, `Mods`, `Game`, `ModsRefinement`, `MCMods` | hot reload and re-entrancy, against an abstract game | `ModsProofs` |
| 3 | `Tables`, `FrameGraph`, `Harness`, `MCHarness` | the parallel frame against the sequential one | `FrameGraphProofs` |
| 4 | `FramePlan`, `Post`, `Events`, `Flows`, `Frames`, `MCFrames` | plans, rates, events and flows over several frames | `FramesProofs` |
| 5 | `Population`, `SparseSets`, `Pages`, `Store`, `MCStore` | entities, tables, sparse sets, order, change ticks | `StoreProofs` |
| 6 | `Bounds`, `SpatialPages`, `NearPairs`, `Spatial`, `MCSpatial` | a spatial table and its re-sort | |
| 7 | `Live`, `MCLive` | the live relation, against the broadphase done afresh | `LiveProofs` |
| 8 | `Executor`, `Pool`, `MCPool` | the thread pool, and its abstract promise | `PoolProofs` |
| 9 | `Control`, `MCControl` | the socket, its thread, its clients | `ControlProofs` |

All are built. Left: to conclude from the overlap rules' soundness that no node
of a frame finds a guard held; coloring of shapes, libraries that stay mapped.

## Dispatch: the task graph

`TaskPlan` is `Plan`: stages of blocks, numbered in the order they are added,
each of a chain waiting for the one before (`Heads` are the chains' first).
`Dispatch` is `dispatch` with one action per atomic operation of the code, or
per local step between two: the caller publishes the stages that wait for
nothing (`Open`); each worker, whenever its thread comes, starts at its share
of a stage (`from`), claims blocks by raising their marks forward and then
backward, runs them, counts them, hands on the stages that waited, looks for
the next published stage, and leaves when all are finished or a kernel has
panicked. A kernel may panic at any block. `Threads` threads run `Workers`;
the executor may give them their task late, or after another's has ended.

`TaskGraph` is what a caller is promised: blocks `todo`, `running`, `done` or
`failed`; one begins once the stage before is done. `DispatchRefinement` maps
each block to one of these from the history `begun` and `ended`, and
`ImplementsGraph` says every step of `Dispatch` is one of `TaskGraph` or a
stutter.

Run `dispatch`: two chains, stages that share marks, three threads, any block
free to panic (277,479 states); the smallest instance in which one stage
raises another's marks while a chain runs beside them, and two workers can
meet in a stage and a third come too late. `FairSpec` is weak fairness of the
caller's steps and of each worker inside its task, whose kernels return, and
of some worker coming while none is inside: an executor calls every task in
the end, perhaps one after another. `ComesBack` is that `dispatch` then
returns or panics; it would fail if any worker could wait for another that has
not come.

### What is proved

`DispatchProofs` proves for every plan, assignment of marks and number of
threads, from `PlanAssumption` and `RunAssumption` alone:

- `TypeCorrect`: `Spec => []TypeOK`;
- `BlocksRunOnce`: no kernel is called twice for a block;
- `BlocksCountedOnce`: no stage counts more blocks than it has, the code's
  debug assertion in `complete`;
- `StagesInOrder`: a block begins only after every block of the stage before
  in its chain has returned;
- `ReturnsWithAllRun`: when `dispatch` returns, every block has run and every
  stage is counted; when it panics, with a block's panic;
- `DispatchImplementsGraph`: `Spec => ImplementsGraph`. `ClaimBegins`,
  `ReturnEnds`, `PanicEnds` and `ResumeComesBack` show each a step of
  `TaskGraph`, and `OthersShowNothing` the rest to be stutters.

None is inductive. `IInv` is their strengthening, in named parts: `MarksInv`
(a block begins at most once, and from then on its mark is at its stage or
past it), `TallyInv` (a worker's tally holds ended blocks of its stage, and is
empty when it is not busy there), `TouchInv` (the block in a worker's hands
has begun and not ended), `ApartInv` (no block is in two workers' hands or
tallies), `CountInv` (`done` is the number of a stage's blocks that ended and
are in no tally), `CloseInv` (one worker at most completes a stage, and only
a full one), `WaitsInv` (a stage waits until the one before is done and handed
on, and before that is neither published nor begun), `PlacedInv` and
`FinishInv` (`published` and `finished` are the numbers of stages given a slot
and of stages closed), `EndInv` (why a worker left, what `panic` is, and what
`result` means). `Init =>
IInv`; one lemma per group of actions shows each part kept (`ClaimKeeps`,
`ScanKeeps`, `ReturnKeeps`, `CountKeeps`, `ReleaseKeeps`, `SlotKeeps`,
`StoreKeeps`, `FinishKeeps`, `OpenKeeps`, `ResumeKeeps`...); the theorems
follow from `IInv`. TLC checked `IInv` before it was proved.

Assumed: sequentially consistent atomics (the code's are `AcqRel` on every
counter; `failed` is `Relaxed` and publishes no data). `MarksOfOneChain`
(stages that share marks are of one chain, which the shapes guarantee) is
needed by liveness only; the safety theorems hold without it.

## Mods: loading, reloading and calling

`Builds` is what the loader reads of a build before it swaps anything (name,
interface digests, residency, services, state schema, system) and the pure
checks on it: `Linked` (`check_links`), `Plannable`, `InDependencyOrder` as a
recursive function over the places of a batch, `Carried` (whether a state is
kept, migrated or started over). `Mods` has the loader's tables as variables
and its control as a `stack`: an entry is a loader function under way (a batch
retiring, loading, an unload, a pump, a stepped frame) or a mod's code with
the build it belongs to. Only the top entry moves. Its actions are the
loader's functions split exactly where they call a mod: `Start`,
`RunBootstrap`, the retiring, swapping and loading steps of a batch, `Unload`,
`ShutDown`, the `Serve...` requests of a pump, `Call`,
`Begin`/`StepMods`/`RunNode`/`EndFrame`, `Return`, and `Panic`, which unwinds
to where the loader catches it. Requests arrive at any time.

`Game` is the promise: builds change all at once, into builds that fit each
other, never under code that is running. `ModsRefinement` maps the loader to
it (`ImplementsGame`).

Run `mods` (172,412 states): two games. One has a bootstrap, a resident
service, a mod and its dependent, with newer builds of changed interface,
schema and phases; the other starts empty and mods come one by one. Pumps nest
twice, one request waits at a time, the stack is at most nine deep: large
enough for a pump inside a call inside a frame and a panic at every depth.
`FairSpec`: the loader goes on by itself, and what the engine's own pump
called comes back (strong fairness of `Return` and `EndFrame` there, as their
code may always do something else first); a bootstrap need not come back, and
one that never does hangs the engine, which no document denies. `MaxDepth`
bounds nothing but the depths that fairness speaks of. `Answered` is that
where the engine itself pumps, each request is served.

### What is proved

`ModsProofs` proves, for any builds, games and requests and a stack of any
depth, all that the run checks but `Answered`: `ModsTypeOK`,
`ModsCodeHasItsOwn`, `ModsBorrowedOnce`, `ModsRunningFits`,
`ModsEnteredWhenFit`, and `ModsImplementsGame` (`Spec => ImplementsGame`).
`GamesAssumption` is all it assumes: no mod is called `none`, batches are of
builds, requests name mods.

None of these is inductive: that a mod's state is borrowed once says nothing
of what a pump, three entries up, may load. `IInv` (`ModsIsKept`) is about the
stack, which each action pushes to, changes the top of, or cuts off:

- `Sits`: what an entry may lie on (`Follows`), and what may be nowhere below
  it (`Clear`): while the list of mods is taken only last hooks run, nothing
  is pumped while the list is read or a frame is open, and a mod's code is
  there once, but for the handlers of its own pumps;
- `Stands`: what an entry was checked for when it was pushed is so still,
  whatever ran on top of it. Code has its build and its state; under a pump is
  only residents' code; a batch that retires is one `load_batch` would accept
  now (`BatchOK`), though many hooks have run since it did;
- `RunOf`, `FrameOf`, `StatesOf`: a mod's running flag is set just when its
  code is on the stack, a frame is open just when one entry holds it, and a
  state is its build's or waits for a batch to hand it over;
- `ModsOK`, `SessionOf`: what is loaded is of its type; in a session it fits
  and is planned, and the cached plan and the frame are its own.

Each action has its lemma (`...Keeps`), which says of the entries below the
ones it touches that they still stand. `SortsTheBatch` is the batch's sort for
any batch: each build comes after those it depends on, and a batch is refused
for a cycle only if it has one. For the refinement, every step of a batch but
its swap is a stutter of `Game`; at the swap, `BatchOK` is `Game`'s guard.

### What is left out

Left out or simplified: opening, staging and unmapping libraries; migrating a
state field by field; installing declarations into the world; requests
without effect on the loader; every system has an apply node; a frame runs
each node once (rates are `Frames`'); the plan's order is any. In the games no
resident mod is closed before a mod that a reload made depend on it: shutdown
closes in the reverse of the order mods were first loaded in
(`engine.rs:632`), and a reload keeps its mod's place, so that corner is the
code's to get wrong, and `docs/architecture/hot-reload.md:139` says otherwise.

## Harness: a parallel frame

`Tables` is the world as systems see it. A table is named by its set of
components; `made` keeps the order of the tables' ids; sparse sets keep dead
entities' entries; a value is the number of the system that wrote it last, so
two systems that run in the wrong order are told apart. Changes are `insert`,
`remove`, `despawn`, `spawn` and `send`, with what `Structural` does for each
and the tables it needs. A query is its terms, filters and changes; `Matches`,
`Yield`, `Sees`, `Writes` and `LogOf` say what a system reads, in which order
of tables, writes in place, and logs. `Registrable` is `check_conflicts`.

`FrameGraph` is `graph.rs`: shapes, the footprint of an apply before its
system has run (`Bound`) and after (`Exact`, a fold over its log), and the
three overlap rules. `Harness` is `run_parallel`: a worker takes the first
ready node under the mutex (`Take`), waits on the condition variable (`Wait`)
or leaves (`Leave`); outside the mutex a system takes its guards (`Fetch`) and
walks (`Walk`), an apply locks its footprint (`Lock`) and makes its changes
one at a time (`Change`), so that what runs together interleaves; then
`Complete`, or `Fail` if it panicked; `Return` joins. A guard found held is a
panic, as `contended()` is. `reference` is `run_sequential` of the same plan,
computed at the start by a fold over the same nodes.

What is checked: no guard is ever contended; each system sees the rows,
values, events and slots it sees in the sequential frame, in the same order of
tables; a frame that ends leaves the same world; an apply stays inside the
footprint it locked and inside what bounded it; the frame ends.

Run `frames` (957,785 states): every plan of three different systems out of a
menu of fourteen (table readers and writers, adders, a swap, a despawner,
sparse adders, removers and writers, a sparse-driven adder, a sender, a
reader, a spawner) over tables made beforehand, and every plan of two over a
cold world, on three workers. Three systems are the least in which an apply's
bound matters to a third that must wait for it or may overtake it; three
workers let every node that may run be running. `SomeoneGoesOn` is that
while a worker waits a node runs or another looks for one: nothing else wakes
it than the notifications in the code, so a lost one would show.

`FrameGraphProofs` proves of the overlap rules, for any world, parameters and
footprints: two systems that would take conflicting guards overlap
(`SystemsApart`), and so do a system and an apply (`SystemApplyApart`) and two
applies (`AppliesApart`), if the applies' footprints are concrete, as
`run_node` asserts. `MeetsShapeExact`, `MeetsSound` and `MeetsComplete` say
that shapes are compared neither too narrowly nor too widely. The proofs sort
a node's guards by kind (`FetchCases`, `ApplyCases`) and find, for each kind,
the disjunct of the overlap rule that covers it. They are about one state of
the world: that a footprint taken earlier still covers what its apply does
later is what the run checks, and `frames_two_moves` refutes in one corner.

It also proves, for any plans, worlds and number of threads, that no worker is
counted twice (`HarnessCounts`) and `HarnessGoesOn`: `Spec => []SomeoneGoesOn`.
Why a worker that finds nothing ready may wait: if no node runs and none has
failed, the first that is pending overlaps nothing, as all before it are done;
and it is ready, since an apply comes right after its system (`NodesInOrder`,
by induction over the plan), which has left it its log (`FirstPendingReady`).
So some node runs, and whatever ends it wakes all. The invariant (`RunInv`)
says that of done systems' logs, that a failure leaves nobody waiting, and
counts workers. Assumed of a plan is that it is a finite sequence of systems.

Left out or simplified: readiness is evaluated in one step, though applies of
running nodes move entities meanwhile (the code holds the mutex, not the
tables); order within a table and of a sparse set's entries, pages, ticks;
re-sorts of spatial and ordered tables; ids (a spawner's are given, and not
reused); a mod's state is a slot its systems write, as are flows and live
relations; a query with table terms that would walk a smaller sparse set;
spurious wake-ups; one frame. The plans of the run have one query to a system
and, with three systems, all tables made: a system with two changing queries
over one table bounds each by itself. What an apply that makes a table does to
a third system `frames` does not reach: `frames_two_moves` shows that its
bound is missed. Nor does it reach that tables are numbered as they are made
(`world.rs:744`) and walked by number: two applies with no table in common run
in either order, and if each makes a table, what walks both later sees them in
another order than in the sequential frame. With `Frames <- TwoTables` in
`MCHarnessTwoMoves.cfg` TLC finds `SeesSequential` violated so, after 196
states, against "the outcome matches running the plan in order"
(`docs/architecture/storage.md:27`).

## Frames: plans, rates, events and flows

`FramePlan` is `schedule.rs` and the plan check of flows as the functions they
are: phases in order (`PhaseOrder`), systems by phase, constraints and load
order (`SystemOrder`, a recursive function for Kahn's algorithm), groups of
phases at one rate, and flows used in turn. `Events` is a queue's numbers and
cursors, `Flows` a slot's value and bin, `Frames` the loader's part:
`Load` and `Unload` (refused when no plan is left), `Send` from a hook,
`BeginFrame` with the steps each fixed-rate group takes of the time that has
come up, `RunSystem` and `Apply` node by node, `Skip` of a failed mod or one
that runs, `EndFrame` when the nodes have run or before. `Post` is what events
promise: an event waits for each reader, which reads it once with all it has
waiting, unless the frame after its own ends first or a new layout drops it.

Run `exchange` (183,214 states): three games. `Flowing` makes, sees, passes
and takes a flow over two frames, fails, and asks for builds that there is no
plan with; `Sending` sends from every step, read once a frame and at half the
rate, and from hooks, across a new layout; `Stepping` has five frames of no
time, a step's, and over the cap. A second is 600 ticks, a step is taken 3
before its end, and at most 3 steps a frame (the code's: 1 µs and 8): enough
for a group to fall behind, catch up and drop what is over the cap. What it
shows: `FlowsOfTheirStep`, `OnTime`, `ImplementsPost`, and `PlansWhatItCan`
against constraints taken as a relation, not as an algorithm.

What to know when reading it: after a stall over the cap, the remainder kept
can be almost a whole step, so the next frame may take one at once. Flows are
emptied at the end of a frame only (`flows.rs:330`), so when a maker fails
after its group's first step, later steps find the value of the first, where
`docs/architecture/flows.md:311` speaks of steps; `OfItsStep` excepts a maker
that failed or was skipped.

`FramesProofs` proves `FramesDeliver`: `Spec => ImplementsPost`, for any
games, builds, rates, readers and lengths of frames, from `GamesAssumption`
(builds loaded together agree on the layouts of the events they share; a batch
has a mod once, and a system uses a flow once, as `load_batch` and
`check_conflicts` see to) and `TimeAssumption` (no rate has more steps a second
than there are ticks). The invariant is of queues: events are numbered below
the next number, and no cursor is past it, so that whoever reads next finds
whatever is published next; each action of the loader is then a step of `Post`,
or none. It also proves `FramesTypes` and `FramesValuesMapped` (`TypeOK` and
`ValuesMapped`), from `FrameInv`: each name is of one loaded mod, whose code is
mapped for every flow its systems use (`AllKeep`), and the plan's groups and
the open frame's nodes are systems of loaded builds, so that what a system
leaves in a slot is of code the slot keeps. That a plan's systems are those of
its builds is what phases, orders and groups compute; each is followed through
the recursive functions and the flattening they are made with (`Recursion`,
`FlattenSteps`, `TopologicalIs`, and from `PhaseNamesAre` to `PlanIs`).

`FramesFlowsOfTheirStep` is the property the run checks, for all of those. Its
argument goes from the check of a plan to the nodes of a frame, and from those
to what is found. What is in turn is served: a use comes after a make, and no
make or take between (`InTurnServed`). A group's nodes in one step follow its
uses (`GroupFollows`), so however many steps it takes they serve the flow
(`StepsServed`). Groups are named apart (`PlanApart`), so if a group that uses
a flow has a rate no other uses it; if it has none, the others that do have none
either, and they are all of step 1 (`GroupsServe`). Hence the nodes of a frame
serve every flow, whatever time has come up (`PlanServes`). Of the frame,
`FlowInv` then says: once a node that makes a flow has run, and none since that
makes or takes it, the flow holds a value of that node's step, or a mod that
makes it is out; each action keeps that (`NodeRuns`), and it is what the node
that runs next finds (`FindsOfItsStep`).

## Store: the world

`Pages` is a table of pages of rows, with columns of cells that carry the
tick they were written at, and the order of an ordered table; `SparseSets` a
packed set with its index and its dead; `Store` the slots that say where each
entity is, `Structural`'s changes made in the order of a log, writes in place
by systems that may fail, ids that are reserved, leaked or had again, installs
of a newer build of a key, and change detection by ticks of pages and rows.
`Population` is what it promises: entities that are alive from when their id
is given out until they are despawned, each with its values, changed in the
order of the log, and no id given twice.

Run `world` (295,078 states): four scenes (moves between tables, sparse sets
and reused indices, keys, and a set with an entry for each index) with four
indices, pages of two rows, keys 0..2: a swap-remove crosses pages, an index is
used three times, a re-sort moves rows over pages, one dead entry of four stays
when its set is next locked and is replaced by its index's new owner. `Indexed` says every row and sparse entry is found where the
slots and indices say and nowhere else, `KeptInOrder` that an ordered table is
in order whenever its guards are free, unless a system failed after it wrote
keys in place (such a table stays so until it is next touched: `lost`),
`ChangesSeen` that a reader of changes misses none, `ImplementsPopulation`
the rest. A dead entity's handle still finds its sparse value until that is
purged, through `Structural::get` as in the code.

Left out: migrating a value to a newer layout, drops, values beyond what tells
them apart, the tick's wrapping at 32 bits (`world.rs:802`).

`StoreProofs` proves `StoreTypes`, `StoreIndexed`, `StoreKeptInOrder` and
`StoreChangesSeen`: the run's four invariants, for any entities, components,
pages, scenes, logs and number of steps, from `StoreAssumption` (there is an index and a row to a page, a component is kept
in tables or in a set, keys are numbers, the sets are finitely many, the first
log spawns each of the first entities once). None is inductive: which rows
there are follows from what was done to slots that no row names, whether a
re-sort leaves a table in order from which of its rows it keys anew, what a
reader is told from rows that it does not yet see. `StoreInv` has that a free
slot is a dead one and is in the list once, that a set has no more of the dead
than were killed since it was purged, and `Sound(store, Looked, lost)`, with
no table marked to be re-sorted (`Clean`).

It holds between steps only. A log is made of changes, a change of calls that
each leave something to the next: `take_row` leaves an entity whose slot says
where it no longer is, `spawn` has an id with a slot and no row, `despawn`
keeps the slots it freed until the log is made. So the lemmas are of
`Rowed(s, X)`, the rows and slots agree but for those of `X`: `TakeRowIs` adds
an entity to it, `AddRowIs` takes it out, `MadeIs` says each change of a log
keeps it, and `StillReady` that a change leaves alone the slots of the spawns
later in the log; `MakeAllIs` is their induction over the log, whatever was
joined to runs (`LogAllIs`), and `CloseIs` that the re-sorts and the slots
given back at the end leave nobody out. Below are lemmas on tables
(`WithRowIs`, `WithoutRowIs`: the lists and columns of a page stay in step; a
swap-remove moves the last row of a page and no other), on the re-sort
(`ResortedIs`: it leaves the same rows with their keys and cells, in order and
on full pages; `SortExists`, that there is such an order, for the code's
`sort_by_key`) and on sparse sets (`RemoveSlotIs`, `SetInsertIs`, `PurgedIs`).

`Sound(s, k, some)` is what holds of a store `s` in the middle of a log, for a
reader that looked at `k`. Every ordered table but `some` is in order or
marked to be re-sorted, and each of its rows has the key of its value, or the
last key, as new rows have, or was written since the last re-sort
(`MayKey`): the rows whose keys may not be their values' are those that
`Resort::run` keys anew, so that it ends in order (`ResortSound`). Every row that
the reader reads has a value it saw, or a cell written since, or an entity it
did not see; in a table it watches such an entity came with an arrival
(`FreshRow`). And whoever it saw is in a table it watches, or one it watches
was left since (`Noticed`). An operation `Carries` this to the store it
leaves: of a row that is taken with one swapped in (`RowTakenCarries`), put
(`FreshFor`, of the cells it is put with), or moved with its cells and their
ticks (`MoveEntityIs`), `SameRow` says which row of the old table each of the
new is. A system that fails after it wrote keys leaves its table as it is and
unmarked: it is lost until it is next re-sorted (`StillOf`, `TakenSound`,
`WriteSound`, `CloseSound`), as `KeptInOrder` says. When the reader looks,
what it sees is all there is (`ReadSound`).

## Spatial and Live

`SpatialPages` is the order of a spatial table: pages with a range of keys,
the box of each row and around all, runs of pages, big rows on pages of their
own; `ReSort` bounds what was written, moves rows to the page their key says,
splits full pages and joins small ones. `NearPairs` is a region query and the
broadphase over it. `Spatial` changes rows as systems and applies do.

Run `spatial` (495,173 states): three entities, pages of two rows, runs of two
pages, boxes on a line one of which is big and some of which reach over their
neighbours' cells, up to two rows changed between re-sorts. `InOrder` is
`SpatialPages::check`, and that no re-sort finds a mark where there is no row
(`lost`; an assertion of `Lanes::get`), `Finds` that a query and the broadphase find exactly
the rows and pairs whose boxes meet, `StampsWhatChanged` that each page whose
rows or boxes changed is stamped, by which a live relation knows it. Space has
one dimension and the key is the centre's cell: Z-order over two and three
axes is not modelled. In this run a row becomes big with nothing else changed
(`BigAlone`); `spatial_big` shows what happens otherwise. A reload of the key
component does not bound resting rows again (`erased.rs:324`,
`world.rs:596`); keys change with rows' values only, here.

`Live` is the live relation over tables whose pages are stamped when their
rows change (which `Spatial` shows of a spatial table): `Update` walks pages
that were stamped since, keeps pairs whose boxes, made fat by a margin, meet,
or searches afresh while too much changed. Run `live` (903,022 states): three
indices, two pages of a table and one of another, any change between any two
calls, deaths that reuse an index, and a reload that changes sides. `Exact`:
it answers what the broadphase would; `KeptAsChecked`: what it keeps is what
its own `check` asks. The code's limits (most pages changed, few pairs, calls
until it tries again: half, 1 and 16) are constants. Left out: sides filtered
by a sparse component; records of rows that are gone.

`LiveProofs` proves `LiveIsExact` and `LiveIsAsChecked` for any number of
pages, tables, indices, relations, boxes, margin and limits, from
`LiveAssumption` (what these constants are). The induction: pages not stamped
since are as they were walked (`PagesInv`); a row that is kept fits the fat
box kept for it, in the table it was walked in (`FollowsInv`); the candidates
kept are the pairs of live rows whose fat boxes meet, one of them active
(`CandidatesInv`). `SearchFinds` shows that of a search afresh, `MergedKeeps`
and `RetestedKeeps` of a walk, `UpdateAnswers` that candidates retested are
the pairs asked for.

## Pool: the thread pool

`Executor` is what a caller of `Executor::run` is promised: each task begun
once and ended before the run returns. `Pool` is `pool.rs` and `lib.rs` of
`std/threads`: the caller spawns a job for each worker it needs, runs the
first task itself and takes more from the counter, as workers do; a run that
started workers leaves them spinning until the next or until they tire; the
hosting mod replaces its pool when a setting changes, and drops it when it
closes, joining the workers. Rayon is external: a job is taken by some worker,
a broadcast by each, in any order.

Run `pool` (70,292 states): two callers on a shared pool, or one on the
host's; up to three threads, three tasks to a run, two runs, two pools: a run
finds workers spinning, with spins waiting, and jobs of another run before its
own. `FairSpec`: every thread that can go on does. `ComesBack`: a run returns
and a dropped pool is joined, though workers may spin.

`PoolProofs` proves `PoolTypes` and `PoolImplements` (`Spec =>
ImplementsExecutor`) for any callers, threads, tasks, runs and pools, from
`HostCalls` and `Bounds`. The invariant: a task of a run is in exactly one
place, to be given out, a job, with a worker, the caller's own, or ended;
what workers and jobs have to do with is a run that isn't over; and a run that
waits has given out all. A step of a run then begins or ends one task of it
(`BeginsBy`, `EndsBy`) and leaves the other callers' alone (`LeftAlone`).
Placement and pinning of threads are left out, and a task that panics: dispatch,
whose tasks these are, catches a kernel's panic before the pool would.

## Control: the socket

`Control` is `control_server.rs`: an engine that starts probes a socket file
that is there, removes one that nobody listens on, and binds; its control
thread accepts, reads a request until the client's side is shut and queues it,
or, when a read has waited for a second, fails (`TimesOut`) and hangs up
(`HangsUp`); the pump answers between frames; an engine that quits tells its
thread, wakes it by a connection, joins it and removes the file. A client
connects, writes (`Write`) and shuts its side (`Shuts`), and may stop or be
killed between any two; engines may crash at any point and leave the file. A
probe's empty connection becomes an empty request.

A read that failed and the hang-up are two steps, as in the code, and a client
may write and shut its side between them: it is then hung up on, its request
unread, though its engine serves. So a client that has written is promised a
reply only if no read of it timed out before its side was shut, which the
history field `late` records and no step reads.

Run `control` (263,750 states): two engines that start and close one after the
other, crashes included, and two clients. `KeepsItsSocket`;
`RepliesWhileItServes`: a client that wrote, whose read did not fail, is not
hung up on while its engine loads or serves, so no request is lost between the
control thread, the inbox and the pump, behind a slow client or one that asks
to quit; and `CallsEnd`: each call ends and an engine told to quit does.
`FairSpec`: both threads of an engine go on; a client needn't, as one that
writes nothing is hung up on. A client that does not read a reply larger than
the socket's buffer would hold the engine's thread: left out.

`ControlProofs` proves, for any engines and clients, `ControlTypes` and
`ControlReplies` whatever overlaps, and `ControlKeepsItsSocket` if no engine
starts or closes while another does (`~Overlap`; `control_restart` shows what
happens if one may). Assumed is that no engine or client is `None`. The
invariant follows each client (`CallInv`): before its call its connection is
nowhere, until it has written it is in no inbox, then in one place of the
engine it called, which was bound and so never starts again, and a client whose
read failed is `late` (`LateInv`), so that it may be hung up on; for the socket
(`SocketInv`), at most one engine is between its settled stages, and none is
up while one removes the file.

## Findings

Each is a run whose one property TLC finds violated; `PROJECT.json` quotes the
line that promises otherwise.

- `frames_two_moves` (15 states): an apply whose rows start in a table that an
  earlier apply has yet to make is bounded by nothing; a later reader
  overtakes it (`graph.rs:174`), or meets it and finds a guard held.
- `control_restart` (some 60,000 states): an engine that closes removes whatever
  file is at the path, also that of an engine that started in between
  (`control_server.rs:64`).
- `spatial_big` (some 71,500 states): a row that became big on a page that splits
  in the same re-sort is moved with the page's others by its key, and stays on
  an ordered page (`spatial.rs:1189`).

## What is proved and what is only checked

Proved by TLAPS, for all values of the constants: the six theorems on
`Dispatch`; the soundness of the frame's overlap rules, `HarnessCounts` and
`HarnessGoesOn`; `FramesDeliver`, `FramesTypes`, `FramesValuesMapped` and
`FramesFlowsOfTheirStep`;
`LiveIsExact` and `LiveIsAsChecked`; `PoolTypes` and `PoolImplements`;
`ControlTypes`, `ControlReplies` and `ControlKeepsItsSocket`; of the loader,
`ModsTypeOK`, `ModsCodeHasItsOwn`, `ModsBorrowedOnce`, `ModsRunningFits`,
`ModsEnteredWhenFit`, `ModsImplementsGame` and `SortsTheBatch`; of the world,
`StoreTypes`, `StoreIndexed`, `StoreKeptInOrder` and `StoreChangesSeen`. Each
of the invariants they rest on was checked by TLC on its run's instance before.

Only model-checked:

- liveness (`ComesBack` of `dispatch` and `pool`, `Answered`, `CallsEnd`): out
  of the prover's reach;
- `GuardsSuffice` is no theorem about any plan and world: in the frame of
  `frames_two_moves` TLC also finds `Uncontended` violated, if asked. Nor is
  `AsSequential`, as that run and the frame `TwoTables` show. Both hold where the
  tables that applies make are there beforehand, as in `frames`; that they do
  for any such frame is not proved;
- `PlansWhatItCan`, `AsSequential`, `InOrder` and `Finds`,
  `ImplementsPopulation`: they rest on what folds and recursive functions over
  logs, pages and lists of systems compute. The library's induction theorems
  have an operator as parameter, which the installed provers cannot
  instantiate. `ModsProofs` does without them: `ByInduction` is induction for
  a set of numbers, from their well-foundedness, and `Recursion` says that a
  function defined by recursion over `0..n` exists, which is how
  `SortsTheBatch`, what `Keep` selects and, in `FrameGraphProofs`,
  `NodesInOrder` are proved. The same would have to be done for each of these
  functions, and the modules they are in use folds (`StoreProofs` does it for
  those of a log and of a purge);
- `OnTime`, and the other properties of `Harness` and `Spatial`: not proved.
  `OnTime` is no theorem as it stands: a reload may change a group's rate.

## Not modelled

Physics (`std/physics2d`, `physics3d`: floating-point simulation; that it
wakes sleeping bodies, colors its constraints and merges islands over the
threads is a subject of its own), the games and example mods (content), the
spikes (measurements), build rules (but for the assumption that an interface's
digest covers its dependencies'), memory layout and unsafe moves of columns,
schemas and their migration (`erased.rs`, `schema.rs`; Miri and fuzzing in the
repository), the poisoning of unloaded images (system calls), coloring of
edges (`shape.rs`), the map of libraries kept mapped, installing declarations
into the world (`world.rs`, `install`) beyond events, flows and keys, and I/O.

## Running

    tlc -workers 2 -config MCDispatch.cfg MCDispatch
    tlc -workers 2 -config MCMods.cfg MCMods
    tlc -workers 2 -config MCHarness.cfg MCHarness
    tlc -workers 2 -config MCFrames.cfg MCFrames
    tlc -workers 2 -config MCStore.cfg MCStore
    tlc -workers 2 -config MCSpatial.cfg MCSpatial
    tlc -workers 2 -config MCLive.cfg MCLive
    tlc -workers 2 -config MCPool.cfg MCPool
    tlc -workers 2 -config MCControl.cfg MCControl

and, to see them violated, `MCHarnessTwoMoves.cfg` of `MCHarness`,
`MCControlOverlap.cfg` of `MCControl` and `MCSpatialBig.cfg` of `MCSpatial`.

    tlapm DispatchProofs.tla      # and FrameGraphProofs, FramesProofs,
                                  # LiveProofs, PoolProofs, ControlProofs;
                                  # ModsProofs and StoreProofs take a
                                  # quarter of an hour each

`PROJECT.json` lists the runs with their modules and properties, the source
lines of each definition, and for each property a mutant of the code's model
that violates it.
