------------------------------ MODULE FramePlan ------------------------------
(***************************************************************************)
(* The order a frame runs its systems in, and when there is none: phases,  *)
(* constraints and rates (src/engine/loader/schedule.rs), and the check    *)
(* that flows are used in turn (src/engine/ecs/flows.rs).                  *)
(*                                                                         *)
(* A build declares systems and phases.  A system is named with its mod's  *)
(* name; of its parameters, there are here the flows it uses and the       *)
(* events it reads and sends.  A phase's hz is 0 if it runs once a frame.  *)
(***************************************************************************)
EXTENDS Integers, SequencesExt

CONSTANTS
  Builtin,     \* the engine's phases, in order
  Simulate,    \* the one of them that is fixed-rate,
  SimulateHz   \* and its rate

Accesses == {"Make", "See", "Pass", "Take"}

(* What follows is of the builds a game is to consist of, in load order:   *)
(* the phases they declare, and their systems, named each with its mod.    *)
DeclaredPhases(mods) == FlattenSeq([i \in DOMAIN mods |-> mods[i].phases])
Owned(system, name) ==
  [f \in DOMAIN system \union {"mod"} |-> IF f = "mod" THEN name ELSE system[f]]
Declared(mods) ==
  FlattenSeq([i \in DOMAIN mods |->
    [j \in DOMAIN mods[i].systems |-> Owned(mods[i].systems[j], mods[i].name)]])

Named(list, name) == {i \in DOMAIN list : list[i].name = name}
Picked(list, order) == [k \in DOMAIN order |-> list[order[k]]]

(* Kahn's algorithm, taking the ready node with the lowest rank first; an  *)
(* order that misses some node if the others are in a cycle.               *)
Topological(nodes, edges, rank) ==
  LET order[left \in SUBSET nodes] ==
        LET ready == {i \in left : \A e \in edges : e[2] = i => e[1] \notin left}
            next  == CHOOSE i \in ready : \A j \in ready : rank[i] <= rank[j]
        IN  IF ready = {} THEN <<>> ELSE <<next>> \o order[left \ {next}]
  IN  order[nodes]

-----------------------------------------------------------------------------
(* Phases: the engine's in a chain, and the declared ones where they place *)
(* themselves.  A constraint naming a phase nobody declares is ignored.    *)
PhaseNames(declared) ==
  Builtin \o FlattenSeq([i \in DOMAIN declared |->
    IF declared[i].name \in ToSet(Builtin) \union {declared[j].name : j \in 1..i - 1}
    THEN <<>> ELSE <<declared[i].name>>])

PhaseEdges(names, declared) ==
  LET Index(n) == {i \in DOMAIN names : names[i] = n}
  IN  {<<i, i + 1>> : i \in 1..Len(Builtin) - 1}
        \union UNION {UNION {Index(a) \X Index(p.name) : a \in p.after} : p \in ToSet(declared)}
        \union UNION {UNION {Index(p.name) \X Index(b) : b \in p.before} : p \in ToSet(declared)}

PhaseOrder(names, declared) ==
  Picked(names, Topological(DOMAIN names, PhaseEdges(names, declared), [i \in DOMAIN names |-> i]))

RankOf(phases, name) == CHOOSE k \in DOMAIN phases : phases[k] = name

(* The first declaration with a rate wins.                                 *)
Rate(declared, name) ==
  LET rated == {i \in Named(declared, name) : declared[i].hz # 0}
  IN  IF rated # {} THEN declared[CHOOSE i \in rated : \A j \in rated : i <= j].hz
      ELSE IF name = Simulate THEN SimulateHz ELSE 0

-----------------------------------------------------------------------------
(* Systems: <<first, then>> for each constraint between two that are       *)
(* loaded.                                                                 *)
Constraints(systems) ==
  UNION {UNION {Named(systems, o) \X {i} : o \in systems[i].after} : i \in DOMAIN systems}
    \union UNION {UNION {{i} \X Named(systems, o) : o \in systems[i].before} : i \in DOMAIN systems}

(* Each system's phase's place; a system may ask for a phase nobody has.   *)
Ranks(systems, phases) == [i \in DOMAIN systems |-> RankOf(phases, systems[i].phase)]

SystemOrder(systems, ranks) ==
  Picked(systems,
         Topological(DOMAIN systems,
                     {e \in Constraints(systems) : ranks[e[1]] = ranks[e[2]]},
                     [i \in DOMAIN systems |-> ranks[i] * (Len(systems) + 1) + i]))

InPhasesAnyWay(systems, phases) ==
  /\ \A i \in DOMAIN systems : systems[i].phase \in ToSet(phases)
  /\ \A i \in DOMAIN systems : Named(systems, systems[i].name) = {i}
InPhases(systems, phases) ==
  /\ \A i \in DOMAIN systems : systems[i].phase \in ToSet(phases)
  /\ \A i \in DOMAIN systems : Named(systems, systems[i].name) = {i}
  /\ \A e \in Constraints(systems) :
       RankOf(phases, systems[e[1]].phase) <= RankOf(phases, systems[e[2]].phase)

(* The phases in order, each with its rate and, of the systems in order,   *)
(* its own.                                                                *)
Sorted(declared, order, phases) ==
  [k \in DOMAIN phases |->
     [name |-> phases[k], hz |-> Rate(declared, phases[k]),
      systems |-> FlattenSeq([i \in DOMAIN order |->
                    IF order[i].phase = phases[k] THEN <<order[i]>> ELSE <<>>])]]

(* Groups: consecutive phases at one rate, or one phase that runs once a   *)
(* frame.                                                                  *)
Opens(phases) ==
  {i \in DOMAIN phases : i = 1 \/ phases[i].hz = 0 \/ phases[i].hz # phases[i - 1].hz}

GroupFrom(phases, i, opens) ==
  [name |-> phases[i].name, hz |-> phases[i].hz,
   systems |-> FlattenSeq([k \in DOMAIN phases |->
                 IF i <= k /\ \A o \in opens : o <= i \/ k < o THEN phases[k].systems ELSE <<>>])]

GroupsAt(phases, opens) ==
  FlattenSeq([i \in DOMAIN phases |->
    IF i \in opens THEN <<GroupFrom(phases, i, opens)>> ELSE <<>>])
Groups(phases) == GroupsAt(phases, Opens(phases))

-----------------------------------------------------------------------------
(* Flows, in plan order, a group's systems once.  Outside every group they *)
(* are all of none, "once a frame".                                        *)
UsesIn(s, flow) ==
  FlattenSeq([i \in DOMAIN s.uses |-> IF s.uses[i].flow = flow THEN <<s.uses[i]>> ELSE <<>>])
UsesOfGroup(g, flow) == FlattenSeq([i \in DOMAIN g.systems |-> UsesIn(g.systems[i], flow)])
Grouped(uses, g) ==
  [i \in DOMAIN uses |-> [access |-> uses[i].access, ty |-> uses[i].ty,
                          group |-> IF g.hz = 0 THEN <<>> ELSE <<g.name>>]]
UsesOf(groups, flow) ==
  FlattenSeq([k \in DOMAIN groups |-> Grouped(UsesOfGroup(groups[k], flow), groups[k])])

(* Where a flow is, before a use and after; "refused" if that is out of    *)
(* turn.                                                                   *)
TurnUnmade(is, access) ==
  IF is = "refused" \/ (access = "Make" /\ is = "made") \/ (access # "Make" /\ is = "taken")
  THEN "refused" ELSE IF access = "Take" THEN "taken" ELSE "made"
Turn(is, access) ==
  IF is = "refused" \/ (access = "Make") = (is = "made") THEN "refused"
  ELSE IF access = "Take" THEN "taken" ELSE "made"

Turns(uses) ==
  LET is[i \in 0..Len(uses)] == IF i = 0 THEN "unmade" ELSE Turn(is[i - 1], uses[i].access)
  IN  is
FlowInTurn(uses) ==
  /\ \A i \in DOMAIN uses : uses[i].group = uses[1].group /\ uses[i].ty = uses[1].ty
  /\ Turns(uses)[Len(uses)] # "refused"

FlowsOf(systems) == UNION {{u.flow : u \in ToSet(systems[i].uses)} : i \in DOMAIN systems}

FlowsInTurn(groups, flows) == \A f \in flows : FlowInTurn(UsesOf(groups, f))

-----------------------------------------------------------------------------
(* The plan, or that there is none, as a load or an unload asks before it  *)
(* commits: of the phases in order, each with its rate and its systems,    *)
(* the groups.                                                             *)
NoPlan == [ok |-> FALSE, groups |-> <<>>]

InGroups(declared, systems, phases, order) ==
  IF Len(order) = Len(systems)
  THEN [ok |-> TRUE, groups |-> Groups(Sorted(declared, order, phases))]
  ELSE NoPlan

Phased(declared, systems, phases, names) ==
  IF Len(phases) = Len(names) /\ InPhases(systems, phases)
  THEN InGroups(declared, systems, phases, SystemOrder(systems, Ranks(systems, phases)))
  ELSE NoPlan

PlanIn(declared, systems, names) == Phased(declared, systems, PhaseOrder(names, declared), names)

Ordered(mods) ==
  PlanIn(DeclaredPhases(mods), Declared(mods), PhaseNames(DeclaredPhases(mods)))

CheckFlows(planned, flows) == IF FlowsInTurn(planned.groups, flows) THEN planned ELSE NoPlan

Plan(mods) == CheckFlows(Ordered(mods), FlowsOf(Declared(mods)))
==============================================================================
