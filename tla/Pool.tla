-------------------------------- MODULE Pool --------------------------------
(***************************************************************************)
(* The threads tasks are run on (src/engine/std/threads/pool.rs): a run    *)
(* starts the pool's workers, which begin with a task each and take more   *)
(* from a counter; after it they spin, so that the next finds them awake,  *)
(* until there is a next or they have for long enough.  The mod that hosts *)
(* the pool (lib.rs) makes another when its settings are changed, and      *)
(* joins the threads of the last, which run its library's code.            *)
(*                                                                         *)
(* Rayon's part is external: a job that was spawned is taken by some       *)
(* worker, one that was broadcast by each, in no order to count on; and a  *)
(* pool's threads leave when it is dropped and no job is left.             *)
(***************************************************************************)
EXTENDS Integers, Sequences

CONSTANTS
  Callers,        \* threads that run tasks
  Host,           \* the one of them that hosts the pool, unless it is shared
  MaxThreads,     \* settings ask for 1..MaxThreads
  MaxTasks,       \* a run is of 0..MaxTasks tasks
  MaxRuns,        \* in all
  MaxPools        \* made one after the other

ASSUME HostCalls == Host \in Callers
ASSUME Bounds == MaxThreads \in Nat \ {0} /\ MaxTasks \in Nat /\ MaxRuns \in Nat /\ MaxPools \in Nat

Workers == 1..MaxThreads - 1

VARIABLES
  shared,      \* a pool for the whole process, that any thread dispatches on
  warm,        \* whether workers spin at all
  threads,     \* the pool's, the calling thread included; 0 if there is none
  generation,  \* of the last run that was started
  stop,        \* what spinning workers watch besides
  spawned,     \* jobs no worker took yet: who runs, and the first task
  spins,       \* of each worker, the runs to spin after, as they were broadcast
  worker,      \* what each does
  run,         \* each caller's
  installed,   \* the world's executor: "ours", another's or none
  host,        \* what the host waits for: "none", or its workers to leave
  wanted,      \* threads of the pool it makes then; 0 if it closes
  count        \* of pools and of runs

poolState == <<threads, generation, stop, spawned, spins, worker>>
hostState == <<installed, host, wanted>>
vars == <<shared, warm, poolState, run, hostState, count>>

Out      == [at |-> "out"]
NoThread == [does |-> "none"]
Free     == [does |-> "nothing"]
Part(c, k)   == [does |-> "task", of |-> c, task |-> k]
Taking(c)    == [does |-> "takes", of |-> c]
Spinning(g)  == [does |-> "spins", seen |-> g]

NewWorkers(n) == [w \in Workers |-> IF w < n THEN Free ELSE NoThread]

Init ==
  /\ shared \in BOOLEAN /\ warm \in BOOLEAN
  /\ threads \in 2..MaxThreads
  /\ generation = 0 /\ stop = FALSE /\ spawned = {}
  /\ spins = [w \in Workers |-> <<>>] /\ worker = NewWorkers(threads)
  /\ run = [c \in Callers |-> Out]
  /\ installed = "ours" /\ host = "none" /\ wanted = 0
  /\ count = [pools |-> 1, runs |-> 0]

-----------------------------------------------------------------------------
(* A run, by the calling thread.                                           *)
Fewer(m, n) == IF m < n THEN m ELSE n

NewRun(n, m, seen) ==
  [at |-> IF n = 0 THEN "back" ELSE "spawns",
   tasks |-> n, first |-> m, seen |-> seen, job |-> 1, task |-> 0, next |-> m,
   ended |-> {}]

(* On one thread the caller runs the tasks, one by one.                    *)
Run(c, n) ==
  /\ run[c] = Out /\ count.runs < MaxRuns
  /\ shared \/ (c = Host /\ host = "none" /\ installed = "ours")
  /\ generation' = IF Fewer(n, threads) > 1 THEN generation + 1 ELSE generation
  /\ run' = [run EXCEPT ![c] = NewRun(n, Fewer(n, threads), generation')]
  /\ count' = [count EXCEPT !.runs = @ + 1]
  /\ UNCHANGED <<shared, warm, threads, stop, spawned, spins, worker, hostState>>

SpawnJob(c) ==
  /\ run[c].at = "spawns"
  /\ IF run[c].job < run[c].first
     THEN /\ spawned' = spawned \union {[of |-> c, task |-> run[c].job]}
          /\ run' = [run EXCEPT ![c].job = @ + 1]
     ELSE /\ run' = [run EXCEPT ![c].at = "task"]
          /\ UNCHANGED spawned
  /\ UNCHANGED <<shared, warm, threads, generation, stop, spins, worker, hostState, count>>

(* The next task, from the counter, if there is one.                       *)
Counted(r) == [r EXCEPT !.next = @ + 1]
HasMore(r) == r.next < r.tasks

OwnTask(c) ==
  /\ run[c].at = "task"
  /\ run' = [run EXCEPT ![c].ended = @ \union {run[c].task}, ![c].at = "takes"]
  /\ UNCHANGED <<shared, warm, poolState, hostState, count>>

OwnTake(c) ==
  /\ run[c].at = "takes"
  /\ run' = [run EXCEPT ![c] =
               IF HasMore(@) THEN [Counted(@) EXCEPT !.task = run[c].next, !.at = "task"]
               ELSE [Counted(@) EXCEPT !.at = "waits"]]
  /\ UNCHANGED <<shared, warm, poolState, hostState, count>>

PartsOf(c) ==
  {w \in Workers : worker[w].does \in {"task", "takes"} /\ worker[w].of = c}

(* The scope ends when its jobs have.                                      *)
ScopeEndsEarly(c) ==   \* a mutant: once there is no job left to take
  /\ run[c].at = "waits" /\ \A j \in spawned : j.of # c
  /\ run' = [run EXCEPT ![c].at = "back"]
  /\ UNCHANGED <<shared, warm, poolState, hostState, count>>
ScopeEnds(c) ==
  /\ run[c].at = "waits"
  /\ PartsOf(c) = {} /\ \A j \in spawned : j.of # c
  /\ run' = [run EXCEPT ![c].at = "back"]
  /\ UNCHANGED <<shared, warm, poolState, hostState, count>>

(* A run that started the workers has them spin.                           *)
Return(c) ==
  /\ run[c].at = "back"
  /\ run' = [run EXCEPT ![c] = Out]
  /\ spins' = IF warm /\ run[c].first > 1
              THEN [w \in Workers |-> IF w < threads THEN Append(spins[w], run[c].seen) ELSE spins[w]]
              ELSE spins
  /\ UNCHANGED <<shared, warm, threads, generation, stop, spawned, worker, hostState, count>>

-----------------------------------------------------------------------------
(* A worker.                                                               *)
TakeJob(w) ==
  /\ worker[w] = Free
  /\ \E j \in spawned :
       /\ spawned' = spawned \ {j}
       /\ worker' = [worker EXCEPT ![w] = Part(j.of, j.task)]
  /\ UNCHANGED <<shared, warm, threads, generation, stop, spins, run, hostState, count>>

RunTask(w) ==
  /\ worker[w].does = "task"
  /\ run' = [run EXCEPT ![worker[w].of].ended = @ \union {worker[w].task}]
  /\ worker' = [worker EXCEPT ![w] = Taking(@.of)]
  /\ UNCHANGED <<shared, warm, threads, generation, stop, spawned, spins, hostState, count>>

TakeAgain(w) ==   \* a mutant: the counter is read, then raised
  /\ worker[w].does = "takes"
  /\ worker' = [worker EXCEPT ![w] = IF HasMore(run[@.of]) THEN Part(@.of, run[@.of].next) ELSE Free]
  /\ UNCHANGED <<shared, warm, threads, generation, stop, spawned, spins, run, hostState, count>>
TakeTask(w) ==
  /\ worker[w].does = "takes"
  /\ worker' = [worker EXCEPT ![w] = IF HasMore(run[@.of]) THEN Part(@.of, run[@.of].next) ELSE Free]
  /\ run' = [run EXCEPT ![worker[w].of] = Counted(@)]
  /\ UNCHANGED <<shared, warm, threads, generation, stop, spawned, spins, hostState, count>>

TakeSpin(w) ==
  /\ worker[w] = Free /\ spins[w] # <<>>
  /\ worker' = [worker EXCEPT ![w] = Spinning(Head(spins[w]))]
  /\ spins' = [spins EXCEPT ![w] = Tail(@)]
  /\ UNCHANGED <<shared, warm, threads, generation, stop, spawned, run, hostState, count>>

(* There is another run, or the pool goes; or enough time has passed,      *)
(* which is whenever it is.                                                *)
SpinEndsAwaited(w) ==   \* a mutant: a worker spins for as long as it takes
  /\ worker[w].does = "spins" /\ (generation # worker[w].seen \/ stop)
  /\ worker' = [worker EXCEPT ![w] = Free]
  /\ UNCHANGED <<shared, warm, threads, generation, stop, spawned, spins, run, hostState, count>>
SpinEnds(w) ==
  /\ worker[w].does = "spins"
  /\ worker' = [worker EXCEPT ![w] = Free]
  /\ UNCHANGED <<shared, warm, threads, generation, stop, spawned, spins, run, hostState, count>>

(* The pool was dropped, and nothing is left to do.                        *)
Leave(w) ==
  /\ worker[w] = Free /\ host = "joins"
  /\ spins[w] = <<>> /\ spawned = {}
  /\ worker' = [worker EXCEPT ![w] = NoThread]
  /\ UNCHANGED <<shared, warm, threads, generation, stop, spawned, spins, run, hostState, count>>

-----------------------------------------------------------------------------
(* The host, between frames: at a message that changes a setting, or when  *)
(* it closes, it takes its pool out of the world, if it is still there,    *)
(* and drops it.                                                           *)
HasPool == threads > 1
TakenOut == IF HasPool /\ installed = "ours" THEN "none" ELSE installed

BetweenFrames == ~shared /\ host = "none" /\ run[Host] = Out /\ threads > 0

Stop(n) ==
  /\ BetweenFrames /\ (n = 0 \/ count.pools < MaxPools)
  /\ installed' = TakenOut
  /\ stop' = TRUE /\ generation' = generation + 1
  /\ host' = "joins" /\ wanted' = n
  /\ UNCHANGED <<shared, warm, threads, spawned, spins, worker, run, count>>

Joined == \A w \in Workers : worker[w] = NoThread

(* One of one thread has no workers, and is not kept.                      *)
Start ==
  /\ host = "joins" /\ Joined /\ wanted > 0
  /\ threads' = wanted /\ worker' = NewWorkers(wanted)
  /\ generation' = 0 /\ stop' = FALSE
  /\ installed' = IF wanted > 1 THEN "ours" ELSE installed
  /\ host' = "none" /\ wanted' = 0
  /\ count' = [count EXCEPT !.pools = @ + 1]
  /\ UNCHANGED <<shared, warm, spawned, spins, run>>

Close ==
  /\ host = "joins" /\ Joined /\ wanted = 0
  /\ threads' = 0 /\ host' = "none"
  /\ UNCHANGED <<shared, warm, generation, stop, spawned, spins, worker, run, installed, wanted, count>>

(* A test puts an executor of its own in.                                  *)
InstallOther ==
  /\ BetweenFrames /\ installed # "other" /\ installed' = "other"
  /\ UNCHANGED <<shared, warm, poolState, run, host, wanted, count>>

Calls(c) ==
  SpawnJob(c) \/ OwnTask(c) \/ OwnTake(c) \/ ScopeEnds(c) \/ Return(c)
Works(w) ==
  TakeJob(w) \/ RunTask(w) \/ TakeTask(w) \/ TakeSpin(w) \/ SpinEnds(w) \/ Leave(w)

Next ==
  \/ \E c \in Callers : Calls(c) \/ \E n \in 0..MaxTasks : Run(c, n)
  \/ \E w \in Workers : Works(w)
  \/ \E n \in 0..MaxThreads : Stop(n)
  \/ Start \/ Close \/ InstallOther

Spec == Init /\ [][Next]_vars

(* Every thread runs: a caller's, a worker's, the host's as it goes on.    *)
FairSpec ==
  /\ Spec /\ WF_vars(Start) /\ WF_vars(Close)
  /\ \A c \in Callers : WF_vars(Calls(c))
  /\ \A w \in Workers : WF_vars(Works(w))

-----------------------------------------------------------------------------
(* A worker is of the pool there is, which is the library's: none is after *)
(* it closes; what it runs is a task of a run that is not over, whose      *)
(* closure is on the caller's stack; and the world's executor, if it is    *)
(* the host's, is a pool with workers.                                     *)
TypeOK ==
  /\ \A w \in Workers : worker[w] # NoThread => w < threads
  /\ \A w \in Workers : worker[w].does \in {"task", "takes"} => run[worker[w].of].at # "out"
  /\ \A w \in Workers : worker[w].does = "task" => worker[w].task \in 0..run[worker[w].of].tasks - 1
  /\ \A j \in spawned : run[j.of].at # "out" /\ j.task \in 1..run[j.of].first - 1
  /\ installed = "ours" => host = "none" /\ threads > 1 /\ ~stop

(* The run as its caller is promised it.                                   *)
RunningOf(c) ==
  {worker[w].task : w \in {v \in PartsOf(c) : worker[v].does = "task"}}
    \union (IF run[c].at = "task" THEN {run[c].task} ELSE {})

CalledOf(c) ==
  IF run[c] = Out THEN [left |-> {}, running |-> {}, ran |-> {}]
  ELSE [left    |-> 0..run[c].tasks - 1 \ (run[c].ended \union RunningOf(c)),
        running |-> RunningOf(c),
        ran     |-> run[c].ended]

Promise == INSTANCE Executor WITH called <- [c \in Callers |-> CalledOf(c)]

(* Each task of a run is run once, whichever thread takes it, and the run  *)
(* returns when all have been: also when another thread's run is under way *)
(* on the same workers (par.rs: "each once, in any order, on any thread"). *)
ImplementsExecutor == Promise!Spec

(* A run returns, though workers may be spinning after another run when    *)
(* its jobs are spawned, and a pool that is dropped is joined, though they *)
(* may be spinning, or have spins waiting for them.                        *)
ComesBack ==
  /\ \A c \in Callers : run[c] # Out ~> run[c] = Out
  /\ host = "joins" ~> host = "none"
==============================================================================
