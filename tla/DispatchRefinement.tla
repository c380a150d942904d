------------------------- MODULE DispatchRefinement -------------------------
(***************************************************************************)
(* The protocol of threads and marks does what TaskGraph promises.         *)
(***************************************************************************)
EXTENDS Dispatch

InHand(b) == \E w \in Workers : Running(w) /\ <<stage[w], at[w]>> = b

BlockState(b) ==
  CASE begun[b] = 0 -> "todo"
    [] begun[b] # 0 /\ b \in ended -> "done"
    [] begun[b] # 0 /\ b \notin ended /\ InHand(b) -> "running"
    [] OTHER -> "failed"

Graph == INSTANCE TaskGraph WITH blk <- [b \in Block |-> BlockState(b)]

(* Each step of a thread begins a block, ends one, makes dispatch come     *)
(* back, or changes nothing its caller can see.                            *)
ImplementsGraph == Graph!GraphSpec
=============================================================================
