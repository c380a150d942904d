------------------------------ MODULE Harness -------------------------------
(***************************************************************************)
(* A frame on several threads (src/engine/ecs/harness.rs): each worker     *)
(* takes the first node in plan order that is ready, until all are done.   *)
(*                                                                         *)
(* What a worker does under the mutex is one action; what it does outside  *)
(* it is a step for the guards it takes, one for a system's walk, and one  *)
(* for each change an apply makes.  Workers are alike, so they are counted *)
(* and a step is named for the node it is of.                              *)
(***************************************************************************)
EXTENDS FrameGraph

CONSTANTS
  Frames,   \* the frames there are: plans, sequences of systems, each with a
            \* world it may start in
  Threads

ASSUME HarnessAssumption ==
  /\ Threads \in Nat \ {0}
  /\ \A f \in Frames : /\ f[1] \in Seq(ToSet(f[1]))
                        /\ \A s \in ToSet(f[1]) : Registrable(s)

VARIABLES
  plan,      \* the systems, in order
  world,
  nodes,     \* its nodes, in order
  state,     \* each node's: what FrameState says, and how far its worker is
  logs,      \* each system's log, once it has run and until its apply takes it
  running,   \* its apply's footprint, once that has been taken
  todo,      \* by node: a log in its worker's hands, what is left of it
  guards,    \* by node: the guards it holds, with whether each is to write
  failed,    \* a node panicked
  idle,      \* workers looking for a node
  asleep,    \* workers waiting to be notified
  result,
  sight,     \* what each system saw: history, read by no action
  reference  \* what a sequential frame would have made of it

frameState == <<state, logs, running>>
workers    == <<todo, guards, idle, asleep>>
vars == <<plan, nodes, world, frameState, workers, failed, result, sight, reference>>

(* frame: a node for each system, then one for its apply, if it needs one. *)
NodesOf(p) ==
  FlattenSeq([s \in DOMAIN p |->
    IF Changes(p[s]) THEN <<[kind |-> "system", sys |-> s], [kind |-> "apply", sys |-> s]>>
                     ELSE <<[kind |-> "system", sys |-> s]>>])

SystemOf(n) == plan[nodes[n].sys]
IsApply(n) == nodes[n].kind = "apply"

None == <<>>

(* An apply makes its footprint's tables first, in their order.            *)
Opened(w, fp) == FoldLeft(LAMBDA x, shape : MakeTable(x, shape.lower), w, fp.tables)

(* run_sequential, node by node in plan order.                             *)
ApplyAll(w, log, v) ==
  FoldLeft(LAMBDA x, change : Apply(x, change, v), Opened(w, Exact(w, log)), log)

SequentialNode(p, acc, node) ==
  LET s == p[node.sys]
  IN  IF node.kind = "system"
      THEN [world |-> Writes(acc.world, s, Made(acc.world), node.sys),
            log   |-> LogOf(acc.world, s, Made(acc.world)),
            saw   |-> Append(acc.saw, Sees(acc.world, s, Made(acc.world)))]
      ELSE [acc EXCEPT !.world = ApplyAll(@, acc.log, node.sys)]

Sequential(p, w) ==
  FoldLeft(LAMBDA acc, node : SequentialNode(p, acc, node),
           [world |-> w, log |-> <<>>, saw |-> <<>>], NodesOf(p))

Init ==
  /\ \E f \in Frames : plan = f[1] /\ world = f[2]
  /\ nodes = NodesOf(plan)
  /\ state   = [n \in DOMAIN nodes |-> "pending"]
  /\ logs    = [s \in DOMAIN plan |-> None]
  /\ running = [s \in DOMAIN plan |-> None]
  /\ todo    = [n \in DOMAIN nodes |-> <<>>]
  /\ guards  = [n \in DOMAIN nodes |-> {}]
  /\ failed = FALSE /\ idle = Threads /\ asleep = 0
  /\ result = "none"
  /\ sight = [s \in DOMAIN plan |-> None]
  /\ reference = Sequential(plan, world)

-----------------------------------------------------------------------------
(* An apply node's footprint now.                                          *)
ApplyFootprint(s) ==
  IF running[s] # None THEN running[s][1]
  ELSE IF logs[s] # None THEN Exact(world, logs[s][1])
  ELSE Bound(world, plan[s])

Overlap(m, n) ==
  CASE ~IsApply(m) /\ ~IsApply(n) -> SystemsOverlap(world, SystemOf(m), SystemOf(n))
    [] IsApply(m) /\ ~IsApply(n)  -> SystemApplyOverlap(SystemOf(n), ApplyFootprint(nodes[m].sys))
    [] ~IsApply(m) /\ IsApply(n)  -> SystemApplyOverlap(SystemOf(m), ApplyFootprint(nodes[n].sys))
    [] OTHER -> AppliesOverlap(ApplyFootprint(nodes[m].sys), ApplyFootprint(nodes[n].sys))

Ready(n) ==
  /\ state[n] = "pending"
  /\ IsApply(n) => logs[nodes[n].sys] # None \/ running[nodes[n].sys] # None
  /\ \A m \in 1..n - 1 : state[m] # "done" => ~Overlap(m, n)

AllDone == \A n \in DOMAIN nodes : state[n] = "done"
Goto(n, label) == state' = [state EXCEPT ![n] = label]

(* Under the mutex, a worker takes the first node that is ready, an apply  *)
(* with its footprint and its log.                                         *)
Take ==
  /\ idle > 0 /\ ~failed /\ ~AllDone
  /\ \E n \in DOMAIN nodes :
       /\ Ready(n) /\ \A m \in 1..n - 1 : ~Ready(m)
       /\ Goto(n, "taken")
       /\ idle' = idle - 1
       /\ LET s == nodes[n].sys
          IN  IF IsApply(n)
              THEN /\ running' = [running EXCEPT ![s] = <<ApplyFootprint(s)>>]
                   /\ todo' = [todo EXCEPT ![n] = logs[s][1]]
                   /\ logs' = [logs EXCEPT ![s] = None]
              ELSE UNCHANGED <<running, todo, logs>>
  /\ UNCHANGED <<plan, nodes, world, guards, failed, asleep, result, sight, reference>>

(* Or waits, when none is; or leaves: with the others, which it wakes,     *)
(* when all are done.                                                      *)
Wait ==
  /\ idle > 0 /\ ~failed /\ ~AllDone
  /\ \A n \in DOMAIN nodes : ~Ready(n)
  /\ idle' = idle - 1 /\ asleep' = asleep + 1
  /\ UNCHANGED <<plan, nodes, world, frameState, todo, guards, failed, result, sight, reference>>

Leave ==
  /\ idle > 0 /\ (failed \/ AllDone)
  /\ IF failed THEN idle' = idle - 1 /\ UNCHANGED asleep
               ELSE idle' = idle - 1 + asleep /\ asleep' = 0
  /\ UNCHANGED <<plan, nodes, world, frameState, todo, guards, failed, result, sight, reference>>

-----------------------------------------------------------------------------
(* Guards: try_lock, of a thing with whether to write it.                  *)
Rows(t)   == {<<"rows", t, "">>}
Column(t, c) == <<"column", t, c>>
Whole(t)  == Rows(t) \union {Column(t, c) : c \in t}
Thing(kind, x) == <<kind, {}, x>>

Held(m)     == guards[m]
Free(n, gs) == \A m \in DOMAIN nodes \ {n} : ~Conflict(Held(m), gs)

(* What fetching a system's parameters takes: of each query's tables, as   *)
(* they are at that time, the rows and the terms; sparse sets; queues.     *)
QueryGuards(q, t) ==
  {<<r, FALSE>> : r \in Rows(t)} \union
  {<<Column(t, x[1]), x[2]>> : x \in {y \in q.terms : y[1] \in TableComponents}}

FetchGuards(s) ==
  (UNION {UNION {QueryGuards(q, t) : t \in {u \in Made(world) : Matches(q, u)}} : q \in QueriesOf(s)})
    \union {<<Thing("sparse", x[1]), x[2]>> : x \in SparseSets(s)}
    \union {<<Thing("queue", x[1]), FALSE>> : x \in {y \in s.events : ~y[2]}}
    \union {<<Thing("slot", x[1]), x[2]>> : x \in s.slots}

Taken(n) == {t \in Table : \E w \in BOOLEAN : <<<<"rows", t, "">>, w>> \in guards[n]}

(* A guard that is held by another: the worker's node panics (contended).  *)
Acquire(n, gs, then) ==
  IF Free(n, gs) THEN guards' = [guards EXCEPT ![n] = @ \union gs] /\ Goto(n, then)
                 ELSE guards' = [guards EXCEPT ![n] = {}] /\ Goto(n, "contended")

Fetch(n) ==
  /\ state[n] = "taken" /\ ~IsApply(n)
  /\ Acquire(n, FetchGuards(SystemOf(n)), "walking")
  /\ UNCHANGED <<plan, nodes, world, logs, running, todo, failed, idle, asleep, result, sight, reference>>

(* The system runs, and its guards go with its parameters.                 *)
Walk(n) ==
  /\ state[n] = "walking"
  /\ LET s == nodes[n].sys
     IN  /\ world' = Writes(world, plan[s], Taken(n), s)
         /\ todo'  = [todo EXCEPT ![n] = LogOf(world, plan[s], Taken(n))]
         /\ sight' = [sight EXCEPT ![s] = <<Sees(world, plan[s], Taken(n))>>]
  /\ guards' = [guards EXCEPT ![n] = {}]
  /\ Goto(n, "over")
  /\ UNCHANGED <<plan, nodes, logs, running, failed, idle, asleep, result, reference>>

(* Or panics, before it wrote anything, or after.                          *)
Panic(n) ==
  /\ state[n] = "walking"
  /\ world' \in {world, Writes(world, SystemOf(n), Taken(n), nodes[n].sys)}
  /\ guards' = [guards EXCEPT ![n] = {}]
  /\ Goto(n, "broken")
  /\ UNCHANGED <<plan, nodes, logs, running, todo, failed, idle, asleep, result, sight, reference>>

(* An apply makes its footprint's tables, and takes all of the footprint.  *)
ApplyGuards(fp) ==
  Writing((UNION {Whole(shape.lower) : shape \in ToSet(fp.tables)})
          \union {Thing("sparse", c) : c \in fp.sparse}
          \union {Thing("queue", q) : q \in fp.events})

Lock(n) ==
  /\ state[n] = "taken" /\ IsApply(n)
  /\ LET fp == running[nodes[n].sys][1]
     IN  world' = Opened(world, fp) /\ Acquire(n, ApplyGuards(fp), "applying")
  /\ UNCHANGED <<plan, nodes, logs, running, todo, failed, idle, asleep, result, sight, reference>>

(* It makes its changes in their order; a guard it lacks it takes then.    *)
ChangeGuards(change) ==
  Writing((UNION {Whole(t) : t \in TablesOf(world, change)})
          \union {Thing("sparse", c) : c \in SparseOf(change)})

Change(n) ==
  /\ state[n] = "applying" /\ todo[n] # <<>>
  /\ LET change == Head(todo[n])
     IN  /\ Acquire(n, ChangeGuards(change), "applying")
         /\ world' = IF Free(n, ChangeGuards(change)) THEN Apply(world, change, nodes[n].sys)
                     ELSE world
  /\ todo' = [todo EXCEPT ![n] = Tail(@)]
  /\ UNCHANGED <<plan, nodes, logs, running, failed, idle, asleep, result, sight, reference>>

Applied(n) ==
  /\ state[n] = "applying" /\ todo[n] = <<>>
  /\ guards' = [guards EXCEPT ![n] = {}]
  /\ Goto(n, "over")
  /\ UNCHANGED <<plan, nodes, world, logs, running, todo, failed, idle, asleep, result, sight, reference>>

-----------------------------------------------------------------------------
CompleteTwice(n) ==   \* a mutant: its worker is counted twice
  /\ state[n] = "over"
  /\ Goto(n, "done")
  /\ logs' = IF IsApply(n) THEN logs ELSE [logs EXCEPT ![nodes[n].sys] = <<todo[n]>>]
  /\ todo' = [todo EXCEPT ![n] = <<>>]
  /\ idle' = idle + 2 + asleep /\ asleep' = 0
  /\ UNCHANGED <<plan, nodes, world, running, guards, failed, result, sight, reference>>

(* Under the mutex again: the node is done, and everyone is notified.      *)
Complete(n) ==
  /\ state[n] = "over"
  /\ Goto(n, "done")
  /\ logs' = IF IsApply(n) THEN logs ELSE [logs EXCEPT ![nodes[n].sys] = <<todo[n]>>]
  /\ todo' = [todo EXCEPT ![n] = <<>>]
  /\ idle' = idle + 1 + asleep /\ asleep' = 0
  /\ UNCHANGED <<plan, nodes, world, running, guards, failed, result, sight, reference>>

FailQuietly(n) ==   \* a mutant: nobody is notified
  /\ state[n] \in {"broken", "contended"}
  /\ Goto(n, "failed")
  /\ failed' = TRUE
  /\ todo' = [todo EXCEPT ![n] = <<>>]
  /\ UNCHANGED <<plan, nodes, world, logs, running, guards, idle, asleep, result, sight, reference>>

(* Or it panicked: the frame has failed, and its worker leaves.            *)
Fail(n) ==
  /\ state[n] \in {"broken", "contended"}
  /\ Goto(n, "failed")
  /\ failed' = TRUE
  /\ todo' = [todo EXCEPT ![n] = <<>>]
  /\ idle' = idle + asleep /\ asleep' = 0
  /\ UNCHANGED <<plan, nodes, world, logs, running, guards, result, sight, reference>>

Busy(n) == state[n] \notin {"pending", "done", "failed"}

(* Every worker has left: the frame is over, or its panic goes on.         *)
Return ==
  /\ result = "none"
  /\ idle = 0 /\ asleep = 0 /\ \A n \in DOMAIN nodes : ~Busy(n)
  /\ result' = IF failed THEN "panic" ELSE "ok"
  /\ UNCHANGED <<plan, nodes, world, frameState, workers, failed, sight, reference>>

Step(n) ==
  Fetch(n) \/ Walk(n) \/ Lock(n) \/ Change(n) \/ Applied(n) \/ Complete(n) \/ Fail(n)

Next ==
  \/ Take \/ Wait \/ Leave \/ Return
  \/ \E n \in DOMAIN nodes : Step(n) \/ Panic(n)

Spec == Init /\ [][Next]_vars

-----------------------------------------------------------------------------
(* No worker is counted twice.                                             *)
AtWork == {n \in DOMAIN nodes : Busy(n)}

WorkersCounted ==
  /\ idle \in 0..Threads /\ asleep \in 0..Threads
  /\ idle + asleep + Cardinality(AtWork) <= Threads

Labels == {"pending", "taken", "walking", "applying", "over", "broken", "contended",
           "done", "failed"}

TypeOK ==
  /\ DOMAIN state = DOMAIN nodes /\ \A n \in DOMAIN nodes : state[n] \in Labels
  /\ world.made \in Seq(Table) /\ world.rows \in [Table -> SUBSET Entities]
  /\ world.sparse \in [SparseComponents -> SUBSET Entities]
  /\ failed \in BOOLEAN /\ result \in {"none", "ok", "panic"}
  /\ WorkersCounted

(* The graph means a guard is never contended (storage.md): a worker never *)
(* finds one it needs held by another.                                     *)
Uncontended == \A n \in DOMAIN nodes : state[n] # "contended"

(* Every system sees what it sees in the sequential frame: exactly the     *)
(* changes and events of the systems before it, values included, and the   *)
(* tables of its queries in the order it walks them there.                 *)
SeesSequential ==
  \A s \in DOMAIN plan : sight[s] # None => sight[s][1] = reference.saw[s]

(* A frame that ends leaves the world as the sequential frame does.        *)
Contents(w) ==
  [rows |-> w.rows, queue |-> w.queue, slot |-> w.slot,
   sparse |-> [c \in SparseComponents |-> {e \in w.sparse[c] : Alive(w, e)}],
   value |-> [x \in DOMAIN w.value |-> IF Alive(w, x[1]) THEN w.value[x] ELSE 0]]

EndsSequential == result = "ok" => Contents(world) = Contents(reference.world)

(* A frame, on whatever threads, is the sequential frame, as its systems   *)
(* see it and as it leaves the world.                                      *)
AsSequential == SeesSequential /\ EndsSequential

Within(fp, bound) ==
  /\ \A shape \in ToSet(fp.tables) : \E b \in ToSet(bound.tables) :
       b.lower \subseteq shape.lower /\ shape.upper \subseteq b.upper
  /\ fp.sparse \subseteq bound.sparse /\ fp.events \subseteq bound.events
  /\ fp.kills => bound.kills

(* Until an apply makes its changes, they are in the tables its footprint  *)
(* says, which is bounded by what was said before its system ran; and it   *)
(* makes each under guards it took at its start.                           *)
InItsGuards ==
  /\ \A s \in DOMAIN plan : logs[s] # None => Within(Exact(world, logs[s][1]), Bound(world, plan[s]))
  /\ \A n \in DOMAIN nodes :
       state[n] = "applying" /\ todo[n] # <<>> => ChangeGuards(Head(todo[n])) \subseteq guards[n]

(* The guards a node takes are enough for all it does, and the graph       *)
(* leaves none of them to another node meanwhile.                          *)
GuardsSuffice == Uncontended /\ InItsGuards

(* Nobody waits for a notification that has been: whoever waits is waited  *)
(* for by a node that runs, or by a thread on its way to look for one.     *)
(* Nodes end or panic, and each that does lets those that wait look again, *)
(* so the frame ends, one way or another.                                  *)
SomeoneGoesOn == asleep > 0 => idle > 0 \/ \E n \in DOMAIN nodes : Busy(n)
=============================================================================
