------------------------------ MODULE Executor ------------------------------
(***************************************************************************)
(* What an executor promises who runs tasks on its threads                 *)
(* (src/engine/ecs/par.rs, Executor): each task of a run is run, once, in  *)
(* any order, on any thread, and the run returns when all have been.       *)
(***************************************************************************)
EXTENDS Integers

CONSTANTS Callers, MaxTasks

VARIABLES called   \* of each caller, the tasks of its run: those that are
                   \* not begun, those that run and those that have

vars == called

Tasks(left, running, ran) == [left |-> left, running |-> running, ran |-> ran]
NoTasks == Tasks({}, {}, {})

Init == called = [c \in Callers |-> NoTasks]

Run(c) ==
  /\ called[c] = NoTasks
  /\ \E n \in 1..MaxTasks : called' = [called EXCEPT ![c] = Tasks(0..n - 1, {}, {})]

Begin(c) ==
  \E k \in called[c].left :
    called' = [called EXCEPT ![c] = Tasks(@.left \ {k}, @.running \union {k}, @.ran)]

End(c) ==
  \E k \in called[c].running :
    called' = [called EXCEPT ![c] = Tasks(@.left, @.running \ {k}, @.ran \union {k})]

Return(c) ==
  /\ called[c].left = {} /\ called[c].running = {}
  /\ called' = [called EXCEPT ![c] = NoTasks]

Next == \E c \in Callers : Run(c) \/ Begin(c) \/ End(c) \/ Return(c)

Spec == Init /\ [][Next]_vars
==============================================================================
