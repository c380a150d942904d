----------------------------- MODULE TaskGraph ------------------------------
(***************************************************************************)
(* What dispatch (src/engine/ecs/dispatch.rs) promises its caller, with no *)
(* threads, marks or counters in sight: every block of the plan is run     *)
(* once, after every block of the stage its stage waits for, and dispatch  *)
(* comes back when no block is running: with every block run, or with the  *)
(* panic of one that failed.                                               *)
(***************************************************************************)
EXTENDS TaskPlan

VARIABLES
  blk,      \* each block: "todo", "running", "done" or "failed"
  result    \* "none" while dispatch runs, then "ok" or "panic"

gvars == <<blk, result>>

GraphInit == blk = [b \in Block |-> "todo"] /\ result = "none"

GraphTypeOK ==
  /\ blk \in [Block -> {"todo", "running", "done", "failed"}]
  /\ result \in {"none", "ok", "panic"}

StageDone(g) == \A k \in BlocksOf(g) : blk[<<g, k>>] = "done"

Begin(b) ==
  /\ result = "none" /\ blk[b] = "todo"
  /\ HasPrev(b[1]) => StageDone(b[1] - 1)
  /\ blk' = [blk EXCEPT ![b] = "running"]
  /\ UNCHANGED result

End(b, how) ==
  /\ blk[b] = "running"
  /\ blk' = [blk EXCEPT ![b] = how]
  /\ UNCHANGED result

ComeBack ==
  /\ result = "none"
  /\ \A b \in Block : blk[b] # "running"
  /\ \/ result' = "ok" /\ \A b \in Block : blk[b] = "done"
     \/ result' = "panic" /\ \E b \in Block : blk[b] = "failed"
  /\ UNCHANGED blk

GraphNext ==
  \/ \E b \in Block : Begin(b) \/ End(b, "done") \/ End(b, "failed")
  \/ ComeBack

GraphSpec == GraphInit /\ [][GraphNext]_gvars
=============================================================================
