------------------------------ MODULE Dispatch ------------------------------
(***************************************************************************)
(* The task graph a shape's work runs on (src/engine/ecs/dispatch.rs):     *)
(* stages of blocks, each stage waiting for the one before it in its       *)
(* chain, run by threads that share nothing but atomics.                   *)
(*                                                                         *)
(* Every action is one atomic operation of the code, or one local step     *)
(* between two of them.  Stages are numbered from 1 in the order the plan  *)
(* adds them (the code counts from 0 and stores g + 1 in a mark, so a mark *)
(* here holds what the code's holds, and 0 is a mark nobody raised).       *)
(* Atomics are sequentially consistent here: the code's are AcqRel on      *)
(* every counter, and Relaxed on failed, which publishes no data.          *)
(***************************************************************************)
EXTENDS TaskPlan, FiniteSets

CONSTANTS
  Base,     \* the first of the marks a stage's blocks are claimed through
  Cells,    \* how many marks the plan has
  Threads   \* the executor's threads

Workers    == 0..Threads - 1
Cell(g, k) == Base[g] + k

(* Plan::stage asserts there is a mark for every block; an executor has    *)
(* a thread at least.                                                      *)
ASSUME RunAssumption ==
  /\ Threads \in Nat \ {0} /\ Cells \in Nat
  /\ Base \in [Stages -> Nat]
  /\ \A g \in Stages : Base[g] + Blocks[g] <= Cells

Unpublished == 0
NoBlock     == <<0, 0>>

(* Where worker w starts in a stage of n blocks: its share's first, or any *)
(* of them when there are more workers than blocks.                        *)
FirstBlock(w, n) ==
  IF n <= Threads
  THEN w % n
  ELSE LET per == n \div Threads
           rest == n % Threads
       IN  per * w + (IF rest < w THEN rest ELSE w)

Forward(g, k) == IF k + 1 = Blocks[g] THEN 0 ELSE k + 1
Back(g, k)    == IF k = 0 THEN Blocks[g] - 1 ELSE k - 1

-----------------------------------------------------------------------------
VARIABLES
  (* Shared by the threads: Graph in the code. *)
  waits,      \* stages each stage still waits for
  done,       \* blocks of each stage counted done
  marks,      \* the last stage that took each block
  ready,      \* stages in the order they were published
  published,  \* how many slots of ready are claimed
  finished,   \* stages complete
  failed,     \* a kernel has panicked
  panic,      \* the block whose panic is raised again on the caller
  (* The calling thread. *)
  opening,    \* the next stage it publishes if nothing precedes it
  result,     \* what dispatch came back with
  (* Each worker's locals. *)
  pc, from, seen, stage, at, slot,
  mine,       \* what it ran of the stage and hasn't counted (the code's ran)
  (* What the kernels saw: history, read by no action. *)
  begun,      \* how often each block's kernel was called
  ended       \* the blocks whose kernel returned

shared == <<waits, done, marks, ready, published, finished, failed, panic>>
caller == <<opening, result>>
locals == <<pc, from, seen, stage, at, slot, mine>>
history == <<begun, ended>>
vars   == <<shared, caller, locals, history>>

Goto(w, label) == pc' = [pc EXCEPT ![w] = label]
At(w, label)   == pc[w] = label

Init ==
  /\ waits = [g \in Stages |-> IF HasPrev(g) THEN 1 ELSE 0]
  /\ done  = [g \in Stages |-> 0]
  /\ marks = [c \in 0..Cells - 1 |-> 0]
  /\ ready = [i \in Stages |-> Unpublished]
  /\ published = 0 /\ finished = 0
  /\ failed = FALSE /\ panic = NoBlock
  /\ opening = 1 /\ result = "none"
  /\ pc    = [w \in Workers |-> "away"]
  /\ from  = [w \in Workers |-> 1]
  /\ seen  = [w \in Workers |-> 0]
  /\ stage = [w \in Workers |-> 1]
  /\ at    = [w \in Workers |-> 0]
  /\ slot  = [w \in Workers |-> 1]
  /\ mine  = [w \in Workers |-> {}]
  /\ begun = [b \in Block |-> 0]
  /\ ended = {}

-----------------------------------------------------------------------------
OpenAll ==   \* mutant: every stage published, whatever it waits for
  /\ opening \in Stages
  /\ opening' = opening + 1
  /\ published' = published + 1
  /\ ready' = [ready EXCEPT ![published + 1] = opening]
  /\ UNCHANGED <<waits, done, marks, finished, failed, panic, result, locals, history>>

(* The calling thread, before the executor runs: a stage that waits for    *)
(* none is published (no worker is there yet, so in one step).             *)
Open ==
  /\ opening \in Stages
  /\ opening' = opening + 1
  /\ IF waits[opening] = 0
     THEN /\ published' = published + 1
          /\ ready' = [ready EXCEPT ![published + 1] = opening]
     ELSE UNCHANGED <<published, ready>>
  /\ UNCHANGED <<waits, done, marks, finished, failed, panic, result, locals, history>>

(* The executor calls task w: at any time once the run begins, and in any  *)
(* order, on as few threads as it likes (Executor::run).                   *)
Come(w) ==
  /\ opening = N + 1 /\ At(w, "away")
  /\ Goto(w, "check")
  /\ UNCHANGED <<shared, caller, from, seen, stage, at, slot, mine, history>>

CheckPublished(w) ==   \* mutant: leaves once every stage is published
  /\ At(w, "check")
  /\ Goto(w, IF published = N \/ failed THEN "gone" ELSE "look")
  /\ UNCHANGED <<shared, caller, from, seen, stage, at, slot, mine, history>>

CheckFinished(w) ==   \* mutant: another's panic isn't looked for
  /\ At(w, "check")
  /\ Goto(w, IF finished = N THEN "gone" ELSE "look")
  /\ UNCHANGED <<shared, caller, from, seen, stage, at, slot, mine, history>>

(* work: every stage is done, or a kernel failed: leave; else look.        *)
Check(w) ==
  /\ At(w, "check")
  /\ Goto(w, IF finished = N \/ failed THEN "gone" ELSE "look")
  /\ UNCHANGED <<shared, caller, from, seen, stage, at, slot, mine, history>>

Look(w) ==
  /\ At(w, "look")
  /\ seen' = [seen EXCEPT ![w] = published]
  /\ Goto(w, "scan")
  /\ UNCHANGED <<shared, caller, from, stage, at, slot, mine, history>>

(* The next published stage this worker hasn't looked at; a slot claimed   *)
(* and not yet written, or the end of what it saw, sends it round again.   *)
Scan(w) ==
  /\ At(w, "scan")
  /\ IF from[w] <= seen[w] /\ ready[from[w]] # Unpublished
     THEN /\ stage' = [stage EXCEPT ![w] = ready[from[w]]]
          /\ at'    = [at EXCEPT ![w] = FirstBlock(w, Blocks[ready[from[w]]])]
          /\ from'  = [from EXCEPT ![w] = @ + 1]
          /\ Goto(w, "forward")
     ELSE Goto(w, "check") /\ UNCHANGED <<stage, at, from>>
  /\ UNCHANGED <<shared, caller, seen, slot, mine, history>>

(* take: fetch_max on the block's mark; below the stage before, the block  *)
(* is this worker's and its kernel is called.  Forward until a block is    *)
(* someone's, then back from the first one; then the count.                *)
MineOfThisStage(w) ==   \* mutant: a mark raised by this stage is no bar
  marks[Cell(stage[w], at[w])] <= stage[w]

Mine(w) == marks[Cell(stage[w], at[w])] < stage[w]

Claim(w, here, running) ==
  /\ At(w, here) /\ Mine(w)
  /\ marks' = [marks EXCEPT ![Cell(stage[w], at[w])] = stage[w]]
  /\ begun' = [begun EXCEPT ![<<stage[w], at[w]>>] = @ + 1]
  /\ Goto(w, running)
  /\ UNCHANGED <<waits, done, ready, published, finished, failed, panic, caller,
                 from, seen, stage, at, slot, mine, ended>>

Turn(w) ==
  /\ At(w, "forward") /\ ~Mine(w)
  /\ at' = [at EXCEPT ![w] = Back(stage[w], FirstBlock(w, Blocks[stage[w]]))]
  /\ Goto(w, "back")
  /\ UNCHANGED <<shared, caller, from, seen, stage, slot, mine, history>>

Stop(w) ==
  /\ At(w, "back") /\ ~Mine(w)
  /\ Goto(w, IF mine[w] = {} THEN "scan" ELSE "count")
  /\ UNCHANGED <<shared, caller, from, seen, stage, at, slot, mine, history>>

(* The kernel of the block in hand returns. *)
Return(w, running, back, next) ==
  /\ At(w, running)
  /\ mine'  = [mine EXCEPT ![w] = @ \union {at[w]}]
  /\ ended' = ended \union {<<stage[w], at[w]>>}
  /\ at'    = [at EXCEPT ![w] = next]
  /\ Goto(w, back)
  /\ UNCHANGED <<shared, caller, from, seen, stage, slot, begun>>

ClaimForward(w)  == Claim(w, "forward", "runForward")
ReturnForward(w) == Return(w, "runForward", "forward", Forward(stage[w], at[w]))
ClaimBack(w)     == Claim(w, "back", "runBack")
ReturnBack(w)    == Return(w, "runBack", "back", Back(stage[w], at[w]))

(* The kernel of the block in hand panics: the unwinding leaves work with  *)
(* what the worker ran of the stage uncounted, and is caught in its task,  *)
(* which stops the others and keeps the first panic for the caller.        *)
Running(w) == pc[w] \in {"runForward", "runBack"}

Panic(w) ==
  /\ Running(w)
  /\ Goto(w, "caught")
  /\ UNCHANGED <<shared, caller, from, seen, stage, at, slot, mine, history>>

Caught(w) ==
  /\ At(w, "caught")
  /\ failed' = TRUE
  /\ panic'  = IF panic = NoBlock THEN <<stage[w], at[w]>> ELSE panic
  /\ Goto(w, "gone")
  /\ UNCHANGED <<waits, done, marks, ready, published, finished, caller,
                 from, seen, stage, at, slot, mine, history>>

CountEarly(w) ==   \* mutant: the stage is complete with one block to come
  /\ At(w, "count")
  /\ done' = [done EXCEPT ![stage[w]] = @ + Cardinality(mine[w])]
  /\ mine' = [mine EXCEPT ![w] = {}]
  /\ Goto(w, IF done'[stage[w]] + 1 < Blocks[stage[w]] THEN "scan"
             ELSE IF HasNext(stage[w]) THEN "release" ELSE "finish")
  /\ UNCHANGED <<waits, marks, ready, published, finished, failed, panic, caller,
                 from, seen, stage, at, slot, history>>

CountAlways(w) ==   \* mutant: each thread that ran some completes the stage
  /\ At(w, "count")
  /\ done' = [done EXCEPT ![stage[w]] = @ + Cardinality(mine[w])]
  /\ mine' = [mine EXCEPT ![w] = {}]
  /\ Goto(w, IF HasNext(stage[w]) THEN "release" ELSE "finish")
  /\ UNCHANGED <<waits, marks, ready, published, finished, failed, panic, caller,
                 from, seen, stage, at, slot, history>>

(* complete: the worker's blocks counted at once; whoever completes the    *)
(* stage takes one off what waits for it, publishes it at none left (its   *)
(* slot claimed first, written second), and counts the stage.              *)
Count(w) ==
  /\ At(w, "count")
  /\ done' = [done EXCEPT ![stage[w]] = @ + Cardinality(mine[w])]
  /\ mine' = [mine EXCEPT ![w] = {}]
  /\ Goto(w, IF done'[stage[w]] < Blocks[stage[w]] THEN "scan"
             ELSE IF HasNext(stage[w]) THEN "release" ELSE "finish")
  /\ UNCHANGED <<waits, marks, ready, published, finished, failed, panic, caller,
                 from, seen, stage, at, slot, history>>

Release(w) ==
  /\ At(w, "release")
  /\ waits' = [waits EXCEPT ![stage[w] + 1] = @ - 1]
  /\ Goto(w, IF waits[stage[w] + 1] = 1 THEN "slot" ELSE "finish")
  /\ UNCHANGED <<done, marks, ready, published, finished, failed, panic, caller,
                 from, seen, stage, at, slot, mine, history>>

Slot(w) ==
  /\ At(w, "slot")
  /\ published' = published + 1
  /\ slot' = [slot EXCEPT ![w] = published + 1]
  /\ Goto(w, "store")
  /\ UNCHANGED <<waits, done, marks, ready, finished, failed, panic, caller,
                 from, seen, stage, at, mine, history>>

Store(w) ==
  /\ At(w, "store")
  /\ ready' = [ready EXCEPT ![slot[w]] = stage[w] + 1]
  /\ Goto(w, "finish")
  /\ UNCHANGED <<waits, done, marks, published, finished, failed, panic, caller,
                 from, seen, stage, at, slot, mine, history>>

Finish(w) ==
  /\ At(w, "finish")
  /\ finished' = finished + 1
  /\ Goto(w, "scan")
  /\ UNCHANGED <<waits, done, marks, ready, published, failed, panic, caller,
                 from, seen, stage, at, slot, mine, history>>

(* Every task of the run has come back: the panic is raised again, or      *)
(* dispatch returns.                                                       *)
Resume ==
  /\ result = "none"
  /\ \A w \in Workers : At(w, "gone")
  /\ result' = IF panic # NoBlock THEN "panic" ELSE "ok"
  /\ UNCHANGED <<shared, opening, locals, history>>

(* One atomic step of worker w's task. *)
Work(w) ==
  \/ Check(w) \/ Look(w) \/ Scan(w)
  \/ ClaimForward(w) \/ ReturnForward(w) \/ Turn(w)
  \/ ClaimBack(w) \/ ReturnBack(w) \/ Stop(w)
  \/ Caught(w)
  \/ Count(w) \/ Release(w) \/ Slot(w) \/ Store(w) \/ Finish(w)

Next ==
  \/ Open
  \/ \E w \in Workers : Come(w) \/ Work(w) \/ Panic(w)
  \/ Resume

Spec == Init /\ [][Next]_vars

(* What the code may count on: the calling thread goes on; a task that has *)
(* begun goes on, its kernels returning (or panicking); and the executor   *)
(* calls every task at some time, but perhaps the next one only when the   *)
(* last has come back (Executor::run, and the tests' Backwards).           *)
Inside(w) == pc[w] \notin {"away", "gone"}

Fairness ==
  /\ WF_vars(Open) /\ WF_vars(Resume)
  /\ \A w \in Workers : WF_vars(Work(w))
  /\ WF_vars((\A w \in Workers : ~Inside(w)) /\ \E w \in Workers : Come(w))

FairSpec == Spec /\ Fairness

-----------------------------------------------------------------------------
Labels ==
  {"away", "check", "look", "scan", "forward", "runForward", "back", "runBack",
   "caught", "count", "release", "slot", "store", "finish", "gone"}

TypeOK ==
  /\ waits \in [Stages -> Int]
  /\ done  \in [Stages -> Nat]
  /\ marks \in [0..Cells - 1 -> 0..N]
  /\ ready \in [Stages -> 0..N]
  /\ published \in 0..N /\ finished \in 0..N
  /\ failed \in BOOLEAN /\ panic \in Block \union {NoBlock}
  /\ opening \in 1..N + 1 /\ result \in {"none", "ok", "panic"}
  /\ pc \in [Workers -> Labels]
  /\ from \in [Workers -> 1..N + 1] /\ seen \in [Workers -> 0..N]
  /\ stage \in [Workers -> Stages] /\ at \in [Workers -> Nat]
  /\ \A w \in Workers : at[w] \in BlocksOf(stage[w])
  /\ slot \in [Workers -> Stages]
  /\ mine \in [Workers -> SUBSET Nat]
  /\ \A w \in Workers : mine[w] \subseteq BlocksOf(stage[w])
  /\ begun \in [Block -> Nat]
  /\ ended \subseteq Block

(* A block's kernel is called at most once in a run, whatever the stages   *)
(* share marks with (take; asserted by the tests).                         *)
RunsOnce == \A b \in Block : begun[b] <= 1

(* A block's kernel is called only when every kernel of the stage before   *)
(* in the chain has returned, so its reads see all that stage wrote.       *)
StageOrder ==
  \A g \in Stages : HasPrev(g) =>
    \A k \in BlocksOf(g) : begun[<<g, k>>] > 0 =>
      \A j \in BlocksOf(g - 1) : <<g - 1, j>> \in ended

(* The assertion in complete: no stage counts more blocks than it has.     *)
CountedOnce == \A g \in Stages : done[g] <= Blocks[g]

(* dispatch returns only with every block run, every stage counted (its    *)
(* last assertion) and no kernel running; and it panics only for a block   *)
(* whose kernel panicked, which no later stage of the chain followed.      *)
ReturnsComplete ==
  /\ result = "ok" => ended = Block /\ finished = N
  /\ result = "panic" => panic \in Block \ ended /\ begun[panic] = 1

(* dispatch comes back: no order of the threads, and no thread that comes  *)
(* late or last, leaves a block nobody takes or a stage nobody publishes.  *)
ComesBack == <>(result # "none")
=============================================================================
