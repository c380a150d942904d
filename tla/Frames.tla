-------------------------------- MODULE Frames --------------------------------
(***************************************************************************)
(* The frames of the loader (src/engine/loader/engine.rs): mods come and   *)
(* go between them; each takes as many steps of its fixed-rate groups as   *)
(* time has come up; and its systems and their applies run in the order    *)
(* of the plan, reading and sending events and using flows.                *)
(*                                                                         *)
(* Time is in ticks: a second has Second, and rounding is by one at most.  *)
(* What systems do to the world's entities is in Tables and Harness.       *)
(***************************************************************************)
EXTENDS FramePlan, Events, Flows

CONSTANTS
  ModNames,
  Games,       \* of each, the batches of builds that are loaded, others that may
               \* be asked for, and the mods that are unloaded; how long frames are, and how long that is
               \* rounded to, [is, got]; the mods that may be running as one
               \* opens; and how many loads, frames and events of a kind (before one
               \* is sent from a hook) there are at most
  Second,
  Slack,       \* how far from its end a step is taken
  MaxSteps     \* the steps a group may take in a frame

(* Builds that go together were made against the same interfaces, so they  *)
(* agree on the events of those.                                           *)
LayoutsOf(b) ==
  LET kinds == UNION {b.systems[i].reads \union b.systems[i].sends : i \in DOMAIN b.systems}
  IN  [k \in Kinds |-> IF k \in kinds THEN b.layouts[k] ELSE NoLayout]

(* A build: its name, its events' layouts, its systems with the flows they *)
(* use, and its phases with their rates.                                   *)
IsSeq(s) == s \in Seq(ToSet(s))
SystemFields == {"name", "phase", "after", "before", "uses", "reads", "sends"}
IsBuild(b) ==
  /\ b.name \in ModNames /\ \A k \in Kinds : b.layouts[k] \in Nat
  /\ IsSeq(b.systems) /\ \A s \in ToSet(b.systems) :
       /\ DOMAIN s = SystemFields /\ s.sends \subseteq Kinds /\ IsSeq(s.uses)
       /\ \A u \in ToSet(s.uses) : u.flow \in FlowNames /\ u.access \in Accesses
       /\ \A i, j \in DOMAIN s.uses : i # j => s.uses[i].flow # s.uses[j].flow
  /\ IsSeq(b.phases) /\ \A p \in ToSet(b.phases) : p.hz \in 0..Second

(* A batch has a mod once, and a system uses a flow once: load_batch and   *)
(* check_conflicts refuse others.                                          *)
ASSUME GamesAssumption ==
  \A g \in Games :
    /\ \A batch \in g.batches :
         /\ IsSeq(batch) /\ \A b \in ToSet(batch) : IsBuild(b)
         /\ \A i, j \in DOMAIN batch :
              /\ i # j => batch[i].name # batch[j].name
              /\ \A k \in Kinds :
                   LayoutsOf(batch[i])[k] # NoLayout /\ LayoutsOf(batch[j])[k] # NoLayout =>
                     LayoutsOf(batch[i])[k] = LayoutsOf(batch[j])[k]
    /\ g.maxLoads \in Nat /\ \A t \in g.times : t.is \in Nat /\ t.got \in Nat
    /\ \A running \in g.running : running \subseteq ModNames

(* No phase has more steps a second than there are ticks.                  *)
ASSUME TimeAssumption ==
  /\ Second \in Nat /\ SimulateHz \in 1..Second /\ Slack \in Nat /\ MaxSteps \in Nat
  /\ IsSeq(Builtin) /\ \A i, j \in DOMAIN Builtin : i # j => Builtin[i] # Builtin[j]

VARIABLES
  game,     \* the one that is played
  mods,     \* those loaded, in order: [build, loadedAt, failed]
  plan,     \* what they run in
  loads,    \* builds loaded so far
  nodes,    \* of the open frame: systems by step, each with its apply
  at,       \* the next node to run; 0 when no frame is open
  log,      \* the kinds of event the system before an apply sent
  logged,   \* whether it left a log
  busy,     \* the mods that run during the open frame
  out,      \* those whose systems the open frame has not run to the end
  acc,      \* the time come up for each group, by its first phase
  owed,     \* the same, had no frame's time been rounded
  used      \* what the system that ran last found in flows: [now, flow, found]

frameVars == <<game, mods, plan, loads, nodes, at, log, logged, busy, out, acc, owed, used>>
vars == <<frameVars, eventVars, slots>>

Decls(ms) == [i \in DOMAIN ms |-> ms[i].build]
GroupPhases == ToSet(Builtin) \union
  {p.name : p \in UNION {UNION {ToSet(b[i].phases) : i \in DOMAIN b} :
                            b \in UNION {g.batches : g \in Games}}}

Loaded(name) == {i \in DOMAIN mods : mods[i].build.name = name}
ModOf(s)     == mods[CHOOSE i \in Loaded(s.mod) : TRUE]
Open         == at # 0

Init ==
  /\ game \in Games
  /\ mods = <<>> /\ plan = Plan(<<>>) /\ loads = 0
  /\ nodes = <<>> /\ at = 0 /\ log = {} /\ logged = FALSE
  /\ busy = {} /\ out = {}
  /\ acc = [p \in GroupPhases |-> 0] /\ owed = acc
  /\ used = {}
  /\ EventsInit /\ FlowsInit(ModNames)

-----------------------------------------------------------------------------
(* Loads.  A build takes its mod's place, or is appended.                  *)
After(batch) ==
  LET Replacing(m) == {i \in DOMAIN batch : batch[i].name = m.build.name}
      New(i)  == [build |-> batch[i], loadedAt |-> loads + i, failed |-> FALSE]
      kept    == [j \in DOMAIN mods |->
                    IF Replacing(mods[j]) = {} THEN mods[j]
                    ELSE New(CHOOSE i \in Replacing(mods[j]) : TRUE)]
      fresh   == FlattenSeq([i \in DOMAIN batch |->
                   IF Loaded(batch[i].name) = {} THEN <<New(i)>> ELSE <<>>])
  IN  kept \o fresh

Installed(batch) ==
  {[name |-> batch[i].name, loadedAt |-> loads + i, layouts |-> LayoutsOf(batch[i]),
    flows |-> FlowsOf(batch[i].systems)] : i \in DOMAIN batch}

(* A load or an unload that leaves no plan is refused, and changes nothing.*)
Commit(then, planned) == planned.ok /\ mods' = then /\ plan' = planned
Replan(then) == Commit(then, Plan(Decls(then)))

Load(batch) ==
  /\ ~Open /\ loads + Len(batch) <= game.maxLoads
  /\ Replan(After(batch)) /\ loads' = loads + Len(batch)
  /\ InstallEvents(Installed(batch)) /\ InstallFlows(Installed(batch))
  /\ used' = {}
  /\ UNCHANGED <<game, nodes, at, log, logged, busy, out, acc, owed>>

(* What the mod leaves in queues and flows stays.                          *)
Unload(i) ==
  /\ ~Open /\ mods[i].build.name \in game.unloads
  /\ Replan(RemoveAt(mods, i))
  /\ used' = {}
  /\ EventsStill
  /\ UNCHANGED <<game, loads, nodes, at, log, logged, busy, out, acc, owed, slots>>

Fail(m) ==
  [j \in DOMAIN mods |->
     IF mods[j].build.name = m THEN [mods[j] EXCEPT !.failed = TRUE] ELSE mods[j]]

(* A hook or a message handler sends an event; it panics if the type is    *)
(* installed with a newer build's layout.                                  *)
Send(i, k) ==
  LET b == mods[i].build
  IN  /\ ~Open /\ ~mods[i].failed /\ k \in b.sendsBetween /\ b.layouts[k] # NoLayout /\ queues[k].next < game.maxSent
      /\ IF Installs(queues[k], b.layouts[k], mods[i].loadedAt)
         THEN SendEvent(k, b.layouts[k], mods[i].loadedAt) /\ UNCHANGED mods
         ELSE EventsStill /\ mods' = Fail(b.name)
      /\ used' = {}
      /\ UNCHANGED <<game, plan, loads, nodes, at, log, logged, busy, out, acc, owed, slots>>

-----------------------------------------------------------------------------
(* Frames.                                                                 *)
StepTime(hz) == Second \div hz
DueExactly(time, hz) == time \div StepTime(hz)
Due(time, hz) == (time + Slack) \div StepTime(hz)

StepsOf(time, hz) == IF Due(time, hz) > MaxSteps THEN MaxSteps ELSE Due(time, hz)

(* What is left of a group's time after its steps: never less than none,   *)
(* and of whole steps over the cap, none.                                  *)
LeftOfAll(time, hz) ==
  LET left == time - StepsOf(time, hz) * StepTime(hz)
  IN  IF Due(time, hz) > MaxSteps THEN left % StepTime(hz) ELSE left
LeftOf(time, hz) ==
  LET left == time - StepsOf(time, hz) * StepTime(hz)
  IN  IF Due(time, hz) > MaxSteps THEN left % StepTime(hz)
      ELSE IF left < 0 THEN 0 ELSE left

NodesOf(s, n) ==
  <<[system |-> s, step |-> n, apply |-> FALSE]>>
    \o (IF s.sends # {} THEN <<[system |-> s, step |-> n, apply |-> TRUE]>> ELSE <<>>)

Steps(g, steps) ==
  FlattenSeq([n \in 1..steps |->
    FlattenSeq([i \in DOMAIN g.systems |-> NodesOf(g.systems[i], n)])])

Rated == {i \in DOMAIN plan.groups : plan.groups[i].hz # 0}
GroupOf(p) == {i \in Rated : plan.groups[i].name = p}

BeginFrame(time, running) ==
  LET Time(p) == acc[p] + time.got
      Hz(p)   == plan.groups[CHOOSE i \in GroupOf(p) : TRUE].hz
      Times(i) == IF plan.groups[i].hz = 0 THEN 1 ELSE StepsOf(Time(plan.groups[i].name), plan.groups[i].hz)
  IN  /\ ~Open /\ frame < game.maxFrames
      /\ nodes' = FlattenSeq([i \in DOMAIN plan.groups |-> Steps(plan.groups[i], Times(i))])
      /\ at' = 1
      /\ acc' = [p \in GroupPhases |-> IF GroupOf(p) = {} THEN acc[p] ELSE LeftOf(Time(p), Hz(p))]
      /\ owed' = [p \in GroupPhases |->
           IF GroupOf(p) = {} THEN owed[p]
           ELSE IF Due(Time(p), Hz(p)) > MaxSteps THEN acc'[p]
           ELSE owed[p] + time.is - StepsOf(Time(p), Hz(p)) * StepTime(Hz(p))]
      /\ busy' = running /\ out' = {} /\ used' = {}
      /\ log' = {} /\ logged' = FALSE
      /\ BeginEvents /\ UNCHANGED <<game, mods, plan, loads, slots>>

Node == nodes[at]

Skips(s) == ModOf(s).failed \/ s.mod \in busy

Skip ==
  /\ Open /\ at <= Len(nodes) /\ ~Node.apply /\ Skips(Node.system)
  /\ at' = at + 1 /\ out' = out \union {Node.system.mod}
  /\ log' = {} /\ logged' = FALSE /\ used' = {}
  /\ EventsStill /\ UNCHANGED <<game, mods, plan, loads, nodes, busy, acc, owed, slots>>

(* Steps of a group are told apart by their number.                        *)
StepNow == <<frame, Node.step>>

(* A system's flows are fetched, it runs, reading those kinds of event it  *)
(* turns to, and returns or panics; or it finds a flow missing, and fails. *)
RunSystem(kinds, panics, kept) ==
  LET s       == Node.system
      missing == ~AllFound(s.uses)
      failed  == missing \/ panics
  IN  /\ Open /\ at <= Len(nodes) /\ ~Node.apply /\ ~Skips(s)
      /\ missing => kinds = {} /\ ~panics /\ ~kept
      /\ kept => \E u \in Fetched(s.uses) : u.access = "Take"
      /\ UseFlows(s.uses, StepNow, ModOf(s).loadedAt, kept)
      /\ used' = {[now |-> StepNow, flow |-> u.flow,
                   found |-> slots[u.flow].value] :
                    u \in {u \in ToSet(s.uses) : u.access # "Make"}}
      /\ kinds \subseteq s.reads
      /\ IF kinds = {} THEN EventsStill ELSE s.name \in Readers /\ ReadEvents(s.name, kinds)
      /\ mods' = IF failed THEN Fail(s.mod) ELSE mods
      /\ out' = IF failed THEN out \union {s.mod} ELSE out
      /\ log' = IF failed THEN {} ELSE s.sends
      /\ logged' = ~failed
      /\ at' = at + 1
      /\ UNCHANGED <<game, plan, loads, nodes, busy, acc, owed>>

(* The apply of what ran before it; it may panic, having published some.   *)
Apply(published) ==
  /\ Open /\ at <= Len(nodes) /\ Node.apply
  /\ published \subseteq log
  /\ PublishEvents(published)
  /\ \/ published = log /\ UNCHANGED <<mods, out>>
     \/ logged /\ mods' = Fail(Node.system.mod) /\ out' = out \union {Node.system.mod}
  /\ log' = {} /\ logged' = FALSE /\ used' = {} /\ at' = at + 1
  /\ UNCHANGED <<game, plan, loads, nodes, busy, acc, owed, slots>>

(* A frame ends when its nodes have run, or before, if what runs them      *)
(* panics.                                                                 *)
EndFrame ==
  /\ Open
  /\ at' = 0 /\ nodes' = <<>> /\ log' = {} /\ logged' = FALSE
  /\ busy' = {} /\ out' = {} /\ used' = {}
  /\ EndEvents /\ ExpireFlows
  /\ UNCHANGED <<game, mods, plan, loads, acc, owed>>

Next ==
  \/ \E batch \in game.batches : Load(batch)
  \/ \E i \in DOMAIN mods : Unload(i)
  \/ \E i \in DOMAIN mods, k \in Kinds : Send(i, k)
  \/ \E time \in game.times, running \in game.running : BeginFrame(time, running)
  \/ Skip
  \/ \E kinds \in SUBSET Kinds, panics, kept \in BOOLEAN : RunSystem(kinds, panics, kept)
  \/ \E published \in SUBSET Kinds : Apply(published)
  \/ EndFrame

Spec == Init /\ [][Next]_vars

-----------------------------------------------------------------------------
(* Every variable has its type.                                            *)
TypeOK ==
  /\ EventsTypeOK
  /\ slots \in [FlowNames -> Slot(ModNames)]
  /\ \A i \in DOMAIN mods : mods[i].loadedAt \in 1..loads /\ mods[i].failed \in BOOLEAN
  /\ loads \in 0..game.maxLoads
  /\ at \in 0..Len(nodes) + 1 /\ (Open \/ nodes = <<>>)
  /\ log \subseteq Kinds /\ logged \in BOOLEAN
  /\ busy \union out \subseteq ModNames
  /\ acc \in [GroupPhases -> Nat] /\ owed \in [GroupPhases -> Int]

(* Post: each reader reads each event once, in the frame it is for or the  *)
(* next, whatever the rates, loads, failures and what else reads; unless   *)
(* it does not run from then to the end of the next frame.                 *)
ImplementsPost == P!Spec

(* What a system finds in a flow was made in its own step, unless a mod    *)
(* whose systems make the flow has failed or was skipped in this frame:    *)
(* what the plan check promises (src/engine/ecs/flows.rs), over steps and  *)
(* frames.                                                                 *)
MadeBy(flow) ==
  {m \in ModNames : \E i \in Loaded(m) : \E j \in DOMAIN mods[i].build.systems :
     \E u \in ToSet(mods[i].build.systems[j].uses) : u.flow = flow /\ u.access = "Make"}
OfItsStep ==
  \A u \in used : u.found.made = u.now \/ out \intersect MadeBy(u.flow) # {}

(* Flows carry what they promise: values of the step that finds them, and  *)
(* whose code is mapped for as long as they are kept, in a slot or a bin.  *)
FlowsOfTheirStep == OfItsStep /\ ValuesMapped

(* A group keeps pace with time as it is, however frames' times are        *)
(* rounded.  Frames of whole steps, none over the cap, take those: sixty    *)
(* frames of 1/60 make sixty.  Elsewhere less than a step has come up and  *)
(* was not taken, but for what is rounded away.  No more was taken than    *)
(* time makes up for, but for what passes for a step's end.                *)
OnTime ==
  \A i \in Rated :
    LET p     == plan.groups[i].name
        step  == StepTime(plan.groups[i].hz)
        whole == \A time \in game.times : time.is % step = 0 /\ time.is \div step <= MaxSteps
    IN  /\ acc[p] \in 0..step - 1 /\ -Slack <= owed[p]
        /\ IF whole THEN owed[p] <= 0 ELSE owed[p] < step + frame

(* What is asked for is planned in an order that every constraint allows,  *)
(* in which a system comes before one loaded earlier only if that waits    *)
(* for one that comes between; and each flow is used by one group, in      *)
(* turn.  What is refused could not be.                                    *)
Position(order, name) == CHOOSE k \in DOMAIN order : order[k].name = name
Acyclic(elements, edges) ==
  \A s \in SUBSET elements \ {{}} : \E i \in s : \A e \in edges : e[2] = i => e[1] \notin s

ObeysIn(systems, order) ==
  LET At(i) == Position(order, systems[i].name)
  IN  /\ Len(order) = Len(systems)
      /\ \A e \in Constraints(systems) : At(e[1]) < At(e[2])
      /\ \A i, j \in DOMAIN systems :
           i < j /\ systems[i].phase = systems[j].phase /\ At(j) < At(i) =>
             \E e \in Constraints(systems) : e[2] = i /\ At(j) <= At(e[1])
InOrder(decls, groups) ==
  ObeysIn(Declared(decls), FlattenSeq([k \in DOMAIN groups |-> groups[k].systems]))

InTurn(uses) ==
  LET MakeBefore(i) ==
        \E j \in 1..i - 1 : /\ uses[j].access = "Make"
                            /\ \A k \in j + 1..i - 1 : uses[k].access # "Take"
  IN  /\ Cardinality({u.group : u \in ToSet(uses)}) = 1
      /\ Cardinality({u.ty : u \in ToSet(uses)}) = 1
      /\ \A i \in DOMAIN uses : (uses[i].access = "Make") # MakeBefore(i)
UsedInTurn(decls, groups) ==
  \A f \in FlowsOf(Declared(decls)) : InTurn(UsesOf(groups, f))

OrderableIn(systems, phases, edges, rank) ==
  /\ Acyclic(DOMAIN phases, edges)
  /\ \A i \in DOMAIN systems : systems[i].phase \in ToSet(phases)
  /\ \A i, j \in DOMAIN systems : systems[i].name = systems[j].name => i = j
  /\ \A e \in Constraints(systems) : rank[e[1]] <= rank[e[2]]
  /\ Acyclic(DOMAIN systems, Constraints(systems))
OrderableWith(declared, systems, names) ==
  OrderableIn(systems, names, PhaseEdges(names, declared),
              Ranks(systems, PhaseOrder(names, declared)))
Orderable(decls) ==
  OrderableWith(DeclaredPhases(decls), Declared(decls), PhaseNames(DeclaredPhases(decls)))

PlansRight(decls, planned) ==
  /\ planned.ok => InOrder(decls, planned.groups) /\ UsedInTurn(decls, planned.groups)
  /\ Orderable(decls) /\ UsedInTurn(decls, Ordered(decls).groups) => planned.ok
PlansWhatItCan ==
  [][Decls(mods') # Decls(mods) /\ frame = 0 =>
       /\ plan'.ok /\ PlansRight(Decls(mods'), plan')
       /\ \A batch \in game.batches \union game.others :
            LET decls == Decls(After(batch)') IN PlansRight(decls, Plan(decls))]_mods
==============================================================================
