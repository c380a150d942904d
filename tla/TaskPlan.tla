------------------------------ MODULE TaskPlan ------------------------------
(***************************************************************************)
(* The plan of a dispatch (src/engine/ecs/dispatch.rs, Plan): stages of    *)
(* blocks in chains.  Stages are numbered from 1 in the order Plan::stage  *)
(* adds them.                                                              *)
(***************************************************************************)
EXTENDS Integers

CONSTANTS
  N,        \* how many stages the plan has
  Heads,    \* the stages that start a chain (Plan::chain), which wait for none
  Blocks    \* how many blocks each stage is cut into

Stages      == 1..N
BlocksOf(g) == 0..Blocks[g] - 1
Block       == UNION {{g} \X BlocksOf(g) : g \in Stages}

(* A plan as Plan::chain and Plan::stage build it: the first stage starts  *)
(* a chain, and a stage has blocks (the assertion in Plan::stage).         *)
ASSUME PlanAssumption ==
  /\ N \in Nat \ {0}
  /\ Heads \subseteq Stages /\ 1 \in Heads
  /\ Blocks \in [Stages -> Nat \ {0}]

(* The stage g waits for is the one added before it; the one that waits    *)
(* for g, if there is one, is the one added after.                         *)
HasNext(g) == g + 1 \in Stages \ Heads
HasPrev(g) == g \in Stages \ Heads
=============================================================================
