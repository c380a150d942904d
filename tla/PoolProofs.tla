----------------------------- MODULE PoolProofs -----------------------------
(***************************************************************************)
(* A pool of any number of threads (src/engine/std/threads/pool.rs) keeps  *)
(* what an executor promises of any number of callers' runs, also of those *)
(* under way on its workers at once: Pool implements Executor.             *)
(*                                                                         *)
(* The invariant says where each task of a run is: with the caller, who    *)
(* gives it out yet; a job no worker took; with a worker; with the caller, *)
(* who runs it; or ended.  It is in one place, and a run that goes back    *)
(* has all of its ended.                                                   *)
(***************************************************************************)
EXTENDS Pool, TLAPS

RunRecord ==
  [at : {"spawns", "task", "takes", "waits", "back"}, tasks : Nat, first : Nat, seen : Nat,
   job : Nat, task : Nat, next : Nat, ended : SUBSET Nat]
WorkerRecord ==
  {NoThread, Free} \union [does : {"task"}, of : Callers, task : Nat]
    \union [does : {"takes"}, of : Callers] \union [does : {"spins"}, seen : Nat]

(* Every variable is of its type.                                          *)
TypeInv ==
  /\ shared \in BOOLEAN /\ warm \in BOOLEAN
  /\ threads \in Nat /\ generation \in Nat /\ stop \in BOOLEAN
  /\ spawned \subseteq [of : Callers, task : Nat]
  /\ spins \in [Workers -> Seq(Nat)] /\ worker \in [Workers -> WorkerRecord]
  /\ run \in [Callers -> {Out} \union RunRecord]
  /\ host \in {"none", "joins"} /\ wanted \in Nat

(* A pool has the workers there are, and takes no run while it is dropped. *)
PoolInv ==
  /\ \A w \in Workers : worker[w] # NoThread => w < threads
  /\ installed = "ours" => host = "none" /\ threads > 1 /\ ~stop
  /\ shared => threads > 1 /\ host = "none"

(* Where a task k of c's run is.                                           *)
ToGive(c, k) ==
  \/ run[c].next <= k
  \/ run[c].at = "spawns" /\ (k = 0 \/ (run[c].job <= k /\ k < run[c].first))
Given(c, k) == [of |-> c, task |-> k] \in spawned
Runs(w, c) == worker[w].does = "task" /\ worker[w].of = c
Taken(c, k) == \E w \in Workers : Runs(w, c) /\ worker[w].task = k
Own(c, k) == run[c].at = "task" /\ run[c].task = k
Ended(c, k) == k \in run[c].ended

(* It is in one place.                                                     *)
Somewhere(c, k) == ToGive(c, k) \/ Given(c, k) \/ Taken(c, k) \/ Own(c, k) \/ Ended(c, k)
Once(c, k) ==
  /\ ToGive(c, k) => ~Given(c, k) /\ ~Taken(c, k) /\ ~Own(c, k) /\ ~Ended(c, k)
  /\ Given(c, k)  => ~Taken(c, k) /\ ~Own(c, k) /\ ~Ended(c, k)
  /\ Taken(c, k)  => ~Own(c, k) /\ ~Ended(c, k)
  /\ Own(c, k)    => ~Ended(c, k)
TasksInv(c) ==
  /\ \A k \in Nat : k < run[c].tasks => Somewhere(c, k) /\ Once(c, k)
  /\ \A k \in Nat : Given(c, k) => 0 < k /\ k < run[c].first
  /\ \A k \in Nat : Taken(c, k) \/ Own(c, k) \/ Ended(c, k) => k < run[c].tasks
  /\ \A w, v \in Workers : Runs(w, c) /\ Runs(v, c) /\ worker[w].task = worker[v].task => w = v

(* How far the caller is with it.                                          *)
StepsInv(c) ==
  /\ run[c].first <= run[c].tasks /\ run[c].first <= run[c].next
  /\ run[c].at # "back" => 0 < run[c].first
  /\ 0 < run[c].job
  /\ run[c].at = "spawns" => run[c].task = 0
  /\ run[c].at \in {"waits", "back"} => run[c].tasks <= run[c].next

(* No worker has to do with a run that is not, or goes back.               *)
NoPart(c) == PartsOf(c) = {} /\ \A j \in spawned : j.of # c
RunInv(c) ==
  /\ run[c].at \in {"out", "back"} => NoPart(c)
  /\ run[c] # Out => TasksInv(c) /\ StepsInv(c)

IInv == TypeInv /\ PoolInv /\ \A c \in Callers : RunInv(c)

-----------------------------------------------------------------------------
(* What is of a run is left alone: it is where it was.                     *)
IsPart(w, c) == worker[w].does \in {"task", "takes"} /\ worker[w].of = c
LeftAlone(c) ==
  /\ run'[c] = run[c]
  /\ \A j : j \in spawned' /\ j.of = c <=> j \in spawned /\ j.of = c
  /\ \A w \in Workers : IsPart(w, c)' <=> IsPart(w, c)
  /\ \A w \in Workers : IsPart(w, c) => worker'[w] = worker[w]

LEMMA PartsAre ==
  ASSUME NEW c
  PROVE  PartsOf(c) = {w \in Workers : IsPart(w, c)}
BY DEF PartsOf, IsPart

LEMMA AloneParts ==
  ASSUME NEW c, LeftAlone(c)
  PROVE  /\ \A w \in Workers : Runs(w, c)' <=> Runs(w, c)
         /\ \A w \in Workers : Runs(w, c) => worker'[w] = worker[w]
         /\ \A k : Given(c, k)' <=> Given(c, k)
         /\ \A k : Taken(c, k)' <=> Taken(c, k)
         /\ NoPart(c)' <=> NoPart(c)
<1>1. \A w \in Workers : Runs(w, c) => IsPart(w, c) /\ worker'[w] = worker[w]
  BY DEF Runs, IsPart, LeftAlone
<1>2. \A w \in Workers : Runs(w, c)' => IsPart(w, c)' /\ IsPart(w, c) /\ worker'[w] = worker[w]
  BY DEF Runs, IsPart, LeftAlone
<1>3. \A w \in Workers : Runs(w, c)' <=> Runs(w, c)
  BY <1>1, <1>2 DEF Runs
<1>4. \A k : Given(c, k)' <=> Given(c, k)
  BY DEF Given, LeftAlone
<1>5. \A k : Taken(c, k)' <=> Taken(c, k)
  BY <1>1, <1>3 DEF Taken
<1>6. NoPart(c)' <=> NoPart(c)
  BY DEF NoPart, PartsOf, IsPart, LeftAlone
<1> QED BY <1>1, <1>3, <1>4, <1>5, <1>6

LEMMA AloneKeeps ==
  ASSUME NEW c \in Callers, LeftAlone(c), RunInv(c)
  PROVE  RunInv(c)'
<1>1. run'[c] = run[c]
  BY DEF LeftAlone
<1>2. /\ \A w \in Workers : Runs(w, c)' <=> Runs(w, c)
      /\ \A w \in Workers : Runs(w, c) => worker'[w] = worker[w]
      /\ \A k : Given(c, k)' <=> Given(c, k)
      /\ \A k : Taken(c, k)' <=> Taken(c, k)
      /\ NoPart(c)' <=> NoPart(c)
  BY AloneParts
<1>3. StepsInv(c)' <=> StepsInv(c)
  BY <1>1 DEF StepsInv
<1>4. \A k : /\ ToGive(c, k)' <=> ToGive(c, k)
             /\ Own(c, k)' <=> Own(c, k)
             /\ Ended(c, k)' <=> Ended(c, k)
  BY <1>1 DEF ToGive, Own, Ended
<1>5. TasksInv(c) => TasksInv(c)'
  <2>1. SUFFICES ASSUME TasksInv(c) PROVE TasksInv(c)'
    OBVIOUS
  <2>2. \A k \in Nat : k < run[c].tasks => Somewhere(c, k)' /\ Once(c, k)'
    BY <1>2, <1>4, <2>1 DEF TasksInv, Somewhere, Once
  <2>3. \A k \in Nat : Given(c, k)' => 0 < k /\ k < run[c].first
    BY <1>2, <2>1 DEF TasksInv
  <2>4. \A k \in Nat : Taken(c, k)' \/ Own(c, k)' \/ Ended(c, k)' => k < run[c].tasks
    BY <1>2, <1>4, <2>1 DEF TasksInv
  <2>5. \A w, v \in Workers : Runs(w, c)' /\ Runs(v, c)' /\ worker'[w].task = worker'[v].task => w = v
    BY <1>2, <2>1 DEF TasksInv
  <2> QED BY <1>1, <2>2, <2>3, <2>4, <2>5 DEF TasksInv
<1> QED BY <1>1, <1>2, <1>3, <1>5 DEF RunInv

(* A run's tasks as its caller is promised them, by where they are.        *)
Called(c) ==
  CalledOf(c) = [left    |-> {k \in Nat : k < run[c].tasks /\ (ToGive(c, k) \/ Given(c, k))},
                 running |-> {k \in Nat : Taken(c, k) \/ Own(c, k)},
                 ran     |-> {k \in Nat : Ended(c, k)}]

LEMMA CalledAre == IInv => \A c \in Callers : run[c] # Out => Called(c)
<1> SUFFICES ASSUME IInv, NEW c \in Callers, run[c] # Out PROVE Called(c)
  OBVIOUS
<1>1. /\ run[c] \in RunRecord /\ TasksInv(c)
      /\ \A w \in Workers : worker[w] \in WorkerRecord
  BY DEF IInv, TypeInv, RunInv
<1>2. RunningOf(c) = {k \in Nat : Taken(c, k) \/ Own(c, k)}
  <2>1. \A w \in Workers : Runs(w, c) => worker[w].task \in Nat
    BY <1>1 DEF Runs, WorkerRecord, NoThread, Free
  <2>2. {worker[w].task : w \in {v \in PartsOf(c) : worker[v].does = "task"}} = {k \in Nat : Taken(c, k)}
    BY <2>1 DEF PartsOf, Taken, Runs
  <2>3. (IF run[c].at = "task" THEN {run[c].task} ELSE {}) = {k \in Nat : Own(c, k)}
    BY <1>1 DEF Own, RunRecord
  <2> QED BY <2>2, <2>3 DEF RunningOf
<1>3. run[c].ended = {k \in Nat : Ended(c, k)}
  BY <1>1 DEF Ended, RunRecord
<1>4. 0..run[c].tasks - 1 \ (run[c].ended \union RunningOf(c))
        = {k \in Nat : k < run[c].tasks /\ (ToGive(c, k) \/ Given(c, k))}
  <2>1. 0..run[c].tasks - 1 = {k \in Nat : k < run[c].tasks}
    BY <1>1 DEF RunRecord
  <2>2. \A k \in Nat : k < run[c].tasks =>
          (ToGive(c, k) \/ Given(c, k) <=> ~(Ended(c, k) \/ Taken(c, k) \/ Own(c, k)))
    BY <1>1 DEF TasksInv, Somewhere, Once
  <2> QED BY <1>2, <1>3, <2>1, <2>2
<1> QED BY <1>2, <1>3, <1>4 DEF CalledOf, Called

LEMMA CalledAreNext == IInv' => \A c \in Callers : run'[c] # Out => Called(c)'
<1>1. IInv => \A c \in Callers : run[c] # Out => Called(c)
  BY CalledAre
<1>2. IInv' => (\A c \in Callers : run[c] # Out => Called(c))'
  BY <1>1, PTL
<1> QED BY <1>2

LEMMA AloneCalled ==
  ASSUME NEW c, LeftAlone(c)
  PROVE  CalledOf(c)' = CalledOf(c)
<1>1. run'[c] = run[c]
  BY DEF LeftAlone
<1>2. {v \in PartsOf(c) : worker[v].does = "task"}' = {v \in PartsOf(c) : worker[v].does = "task"}
  BY DEF PartsOf, IsPart, LeftAlone
<1>3. \A v \in {v \in PartsOf(c) : worker[v].does = "task"} : worker'[v].task = worker[v].task
  BY DEF PartsOf, IsPart, LeftAlone
<1>4. RunningOf(c)' = RunningOf(c)
  BY <1>1, <1>2, <1>3 DEF RunningOf
<1> QED BY <1>1, <1>4 DEF CalledOf

(* A step that leaves the runs of all others alone.                        *)
LEMMA OneRun ==
  ASSUME IInv, TypeInv', PoolInv', NEW c \in Callers, RunInv(c)', \A d \in Callers \ {c} : LeftAlone(d)
  PROVE  IInv' /\ \A d \in Callers \ {c} : CalledOf(d)' = CalledOf(d)
<1>1. \A d \in Callers \ {c} : RunInv(d)'
  BY AloneKeeps DEF IInv
<1>2. IInv'
  BY <1>1 DEF IInv
<1> QED BY <1>2, AloneCalled

LEMMA NoRun ==
  ASSUME IInv, TypeInv', PoolInv', \A d \in Callers : LeftAlone(d)
  PROVE  IInv' /\ \A d \in Callers : CalledOf(d)' = CalledOf(d)
<1>1. \A d \in Callers : RunInv(d)'
  BY AloneKeeps DEF IInv
<1>2. IInv'
  BY <1>1 DEF IInv
<1> QED BY <1>2, AloneCalled

-----------------------------------------------------------------------------
(* What each step does for the caller's promise: the steps of Executor.    *)
Bar == [c \in Callers |-> CalledOf(c)]
Stays == \A d \in Callers : CalledOf(d)' = CalledOf(d)
Other(c) == \A d \in Callers \ {c} : CalledOf(d)' = CalledOf(d)
Begins(c, k) ==
  /\ k \in CalledOf(c).left /\ Other(c)
  /\ CalledOf(c)' = [left |-> CalledOf(c).left \ {k}, running |-> CalledOf(c).running \union {k},
                     ran |-> CalledOf(c).ran]
Ends(c, k) ==
  /\ k \in CalledOf(c).running /\ Other(c)
  /\ CalledOf(c)' = [left |-> CalledOf(c).left, running |-> CalledOf(c).running \ {k},
                     ran |-> CalledOf(c).ran \union {k}]

CalledRecord == [left : SUBSET Nat, running : SUBSET Nat, ran : SUBSET Nat]

LEMMA CalledType == IInv => \A c \in Callers : CalledOf(c) \in CalledRecord
<1> SUFFICES ASSUME IInv, NEW c \in Callers PROVE CalledOf(c) \in CalledRecord
  OBVIOUS
<1>1. CASE run[c] = Out
  BY <1>1 DEF CalledOf, CalledRecord
<1>2. CASE run[c] # Out
  BY <1>2, CalledAre DEF Called, CalledRecord
<1> QED BY <1>1, <1>2

LEMMA StaysIs ==
  ASSUME Stays
  PROVE  Bar' = Bar
BY DEF Stays, Bar

LEMMA BeginsIs ==
  ASSUME NEW c \in Callers, NEW k, Begins(c, k)
  PROVE  Promise!Begin(c)
<1>1. Bar[c] = CalledOf(c)
  BY DEF Bar
<1>2. Bar' = [Bar EXCEPT ![c] = CalledOf(c)']
  BY DEF Bar, Begins, Other
<1>3. /\ k \in Bar[c].left
      /\ Bar' = [Bar EXCEPT ![c] = Promise!Tasks(Bar[c].left \ {k}, Bar[c].running \union {k}, Bar[c].ran)]
  BY <1>1, <1>2 DEF Begins, Promise!Tasks
<1> QED BY <1>3 DEF Promise!Begin, Bar

LEMMA EndsIs ==
  ASSUME NEW c \in Callers, NEW k, Ends(c, k)
  PROVE  Promise!End(c)
<1>1. Bar[c] = CalledOf(c)
  BY DEF Bar
<1>2. Bar' = [Bar EXCEPT ![c] = CalledOf(c)']
  BY DEF Bar, Ends, Other
<1>3. /\ k \in Bar[c].running
      /\ Bar' = [Bar EXCEPT ![c] = Promise!Tasks(Bar[c].left, Bar[c].running \ {k}, Bar[c].ran \union {k})]
  BY <1>1, <1>2 DEF Ends, Promise!Tasks
<1> QED BY <1>3 DEF Promise!End, Bar

(* A run is another.                                                       *)
Becomes(c, r) == run' = [run EXCEPT ![c] = r]

LEMMA RunBecomes ==
  ASSUME IInv, NEW c \in Callers, NEW r \in RunRecord, Becomes(c, r)
  PROVE  /\ run'[c] = r /\ run'[c] # Out /\ \A d \in Callers \ {c} : run'[d] = run[d]
         /\ run' \in [Callers -> {Out} \union RunRecord]
<1>1. run \in [Callers -> {Out} \union RunRecord]
  BY DEF IInv, TypeInv
<1>2. r # Out
  BY DEF Out, RunRecord
<1> QED BY <1>1, <1>2 DEF Becomes

(* By where the tasks of its run are before and after.                     *)
ToBegin(c, k) == ToGive(c, k) \/ Given(c, k)
UnderWay(c, k) == Taken(c, k) \/ Own(c, k)
SameRun(c) == run[c] # Out /\ run'[c] # Out /\ run'[c].tasks = run[c].tasks
NoneMoved(c) ==
  /\ \A k \in Nat : k < run[c].tasks => (ToBegin(c, k)' <=> ToBegin(c, k))
  /\ \A k \in Nat : UnderWay(c, k)' <=> UnderWay(c, k)
  /\ \A k \in Nat : Ended(c, k)' <=> Ended(c, k)
Begun(c, b) ==
  /\ \A k \in Nat : k < run[c].tasks => (ToBegin(c, k)' <=> ToBegin(c, k) /\ k # b)
  /\ \A k \in Nat : UnderWay(c, k)' <=> UnderWay(c, k) \/ k = b
  /\ \A k \in Nat : Ended(c, k)' <=> Ended(c, k)
EndedNow(c, e) ==
  /\ \A k \in Nat : k < run[c].tasks => (ToBegin(c, k)' <=> ToBegin(c, k))
  /\ \A k \in Nat : UnderWay(c, k)' <=> UnderWay(c, k) /\ k # e
  /\ \A k \in Nat : Ended(c, k)' <=> Ended(c, k) \/ k = e

LEMMA StaysBy ==
  ASSUME IInv, IInv', NEW c \in Callers, SameRun(c), Other(c), NoneMoved(c)
  PROVE  Stays
<1>1. Called(c) /\ Called(c)'
  BY CalledAre, CalledAreNext DEF SameRun
<1>2. CalledOf(c)' = CalledOf(c)
  BY <1>1 DEF Called, SameRun, ToBegin, UnderWay, NoneMoved
<1> QED BY <1>2 DEF Stays, Other

LEMMA BeginsBy ==
  ASSUME IInv, IInv', NEW c \in Callers, SameRun(c), Other(c),
         NEW b \in Nat, b < run[c].tasks, ToBegin(c, b), Begun(c, b)
  PROVE  Begins(c, b)
<1>1. Called(c) /\ Called(c)'
  BY CalledAre, CalledAreNext DEF SameRun
<1>2. b \in CalledOf(c).left
  BY <1>1 DEF Called, ToBegin
<1>3. /\ CalledOf(c).left = {k \in Nat : k < run[c].tasks /\ ToBegin(c, k)}
      /\ CalledOf(c).running = {k \in Nat : UnderWay(c, k)}
      /\ CalledOf(c).ran = {k \in Nat : Ended(c, k)}
  BY <1>1 DEF Called, ToBegin, UnderWay
<1>4. CalledOf(c)' = [left    |-> {k \in Nat : k < run[c].tasks /\ ToBegin(c, k)'},
                      running |-> {k \in Nat : UnderWay(c, k)'},
                      ran     |-> {k \in Nat : Ended(c, k)'}]
  BY <1>1 DEF Called, SameRun, ToBegin, UnderWay
<1>5. /\ {k \in Nat : k < run[c].tasks /\ ToBegin(c, k)'} = CalledOf(c).left \ {b}
      /\ {k \in Nat : UnderWay(c, k)'} = CalledOf(c).running \union {b}
      /\ {k \in Nat : Ended(c, k)'} = CalledOf(c).ran
  BY <1>3 DEF Begun
<1> QED BY <1>2, <1>4, <1>5 DEF Begins

LEMMA EndsBy ==
  ASSUME IInv, IInv', NEW c \in Callers, SameRun(c), Other(c),
         NEW e \in Nat, UnderWay(c, e), EndedNow(c, e)
  PROVE  Ends(c, e)
<1>1. Called(c) /\ Called(c)'
  BY CalledAre, CalledAreNext DEF SameRun
<1>2. e \in CalledOf(c).running
  BY <1>1 DEF Called, UnderWay
<1>3. /\ CalledOf(c).left = {k \in Nat : k < run[c].tasks /\ ToBegin(c, k)}
      /\ CalledOf(c).running = {k \in Nat : UnderWay(c, k)}
      /\ CalledOf(c).ran = {k \in Nat : Ended(c, k)}
  BY <1>1 DEF Called, ToBegin, UnderWay
<1>4. CalledOf(c)' = [left    |-> {k \in Nat : k < run[c].tasks /\ ToBegin(c, k)'},
                      running |-> {k \in Nat : UnderWay(c, k)'},
                      ran     |-> {k \in Nat : Ended(c, k)'}]
  BY <1>1 DEF Called, SameRun, ToBegin, UnderWay
<1>5. /\ {k \in Nat : k < run[c].tasks /\ ToBegin(c, k)'} = CalledOf(c).left
      /\ {k \in Nat : UnderWay(c, k)'} = CalledOf(c).running \ {e}
      /\ {k \in Nat : Ended(c, k)'} = CalledOf(c).ran \union {e}
  BY <1>3 DEF EndedNow
<1> QED BY <1>2, <1>4, <1>5 DEF Ends

-----------------------------------------------------------------------------
(* The steps, one by one: each keeps the invariant, and begins a task,     *)
(* ends one, or does neither.                                              *)
RunFacts(c) == run[c] \in RunRecord /\ TasksInv(c) /\ StepsInv(c)

LEMMA RunIs ==
  ASSUME IInv, NEW c \in Callers, run[c].at # "out"
  PROVE  run[c] # Out /\ RunFacts(c)
BY DEF IInv, TypeInv, RunInv, RunFacts, Out

LEMMA SpawnJobStep ==
  ASSUME IInv, NEW c \in Callers, SpawnJob(c)
  PROVE  IInv' /\ (Stays \/ Begins(c, 0))
<1>1. run[c].at = "spawns" /\ run[c] # Out /\ RunFacts(c)
  BY RunIs DEF SpawnJob
<1>2. UNCHANGED <<shared, warm, threads, generation, stop, spins, worker, hostState, count>>
  BY DEF SpawnJob
<1>3. \A k \in Nat : Taken(c, k)' <=> Taken(c, k)
  BY <1>2 DEF Taken, Runs
<1>4. CASE run[c].job < run[c].first
  <2> DEFINE r == [run[c] EXCEPT !.job = @ + 1]
  <2>0. r \in RunRecord
    BY <1>1 DEF RunFacts, RunRecord
  <2>1. spawned' = spawned \union {[of |-> c, task |-> run[c].job]} /\ Becomes(c, r)
    BY <1>4 DEF SpawnJob, Becomes
  <2>2. /\ run'[c] = r /\ \A d \in Callers \ {c} : run'[d] = run[d]
        /\ run' \in [Callers -> {Out} \union RunRecord]
    BY <2>0, <2>1, RunBecomes
  <2>3. TypeInv'
    BY <1>1, <1>2, <2>1, <2>2 DEF IInv, TypeInv, RunFacts, RunRecord, hostState
  <2>4. PoolInv'
    BY <1>2 DEF IInv, PoolInv, hostState
  <2>5. \A d \in Callers \ {c} : LeftAlone(d)
    BY <1>2, <2>1, <2>2 DEF LeftAlone, IsPart
  <2>6. /\ run'[c].at = "spawns" /\ run'[c] # Out /\ run'[c].tasks = run[c].tasks
        /\ run'[c].first = run[c].first /\ run'[c].next = run[c].next /\ run'[c].job = run[c].job + 1
        /\ run'[c].task = run[c].task /\ run'[c].ended = run[c].ended
    BY <1>1, <2>2 DEF RunFacts, RunRecord, Out
  <2>7. ASSUME NEW k \in Nat
        PROVE  /\ ToGive(c, k)' <=> ToGive(c, k) /\ k # run[c].job
               /\ Given(c, k)' <=> Given(c, k) \/ k = run[c].job
               /\ Own(c, k)' <=> Own(c, k)
               /\ Ended(c, k)' <=> Ended(c, k)
    BY <1>1, <1>4, <2>1, <2>6 DEF ToGive, Given, Own, Ended, RunFacts, StepsInv, RunRecord
  <2>8. ToGive(c, run[c].job) /\ run[c].job \in Nat /\ 0 < run[c].job /\ run[c].first <= run[c].tasks
    BY <1>1, <1>4 DEF ToGive, RunFacts, StepsInv, RunRecord
  <2>9. RunInv(c)'
    <3>1. TasksInv(c)'
      <4>1. \A k \in Nat : k < run[c].tasks => Somewhere(c, k)' /\ Once(c, k)'
        BY <1>1, <1>3, <2>7, <2>8 DEF RunFacts, TasksInv, Somewhere, Once
      <4>2. \A k \in Nat : Given(c, k)' => 0 < k /\ k < run[c].first
        BY <1>1, <1>4, <2>7, <2>8 DEF RunFacts, TasksInv
      <4>3. \A k \in Nat : Taken(c, k)' \/ Own(c, k)' \/ Ended(c, k)' => k < run[c].tasks
        BY <1>1, <1>3, <2>7 DEF RunFacts, TasksInv
      <4>4. \A w, v \in Workers : Runs(w, c)' /\ Runs(v, c)' /\ worker'[w].task = worker'[v].task => w = v
        BY <1>1, <1>2 DEF RunFacts, TasksInv, Runs
      <4> QED BY <2>6, <4>1, <4>2, <4>3, <4>4 DEF TasksInv
    <3>2. StepsInv(c)'
      BY <1>1, <2>6, <2>8 DEF StepsInv, RunFacts
    <3> QED BY <2>6, <3>1, <3>2 DEF RunInv
  <2>10. IInv' /\ Other(c)
    BY <2>3, <2>4, <2>5, <2>9, OneRun DEF Other
  <2>11. NoneMoved(c) /\ SameRun(c)
    BY <1>1, <1>3, <2>6, <2>7, <2>8 DEF NoneMoved, SameRun, ToBegin, UnderWay
  <2>12. Stays
    BY <2>10, <2>11, StaysBy
  <2> QED BY <2>10, <2>12
<1>5. CASE ~(run[c].job < run[c].first)
  <2> DEFINE r == [run[c] EXCEPT !.at = "task"]
  <2>0. r \in RunRecord
    BY <1>1 DEF RunFacts, RunRecord
  <2>1. spawned' = spawned /\ Becomes(c, r)
    BY <1>5 DEF SpawnJob, Becomes
  <2>2. /\ run'[c] = r /\ \A d \in Callers \ {c} : run'[d] = run[d]
        /\ run' \in [Callers -> {Out} \union RunRecord]
    BY <2>0, <2>1, RunBecomes
  <2>3. TypeInv'
    BY <1>1, <1>2, <2>1, <2>2 DEF IInv, TypeInv, RunFacts, RunRecord, hostState
  <2>4. PoolInv'
    BY <1>2 DEF IInv, PoolInv, hostState
  <2>5. \A d \in Callers \ {c} : LeftAlone(d)
    BY <1>2, <2>1, <2>2 DEF LeftAlone, IsPart
  <2>6. /\ run'[c].at = "task" /\ run'[c] # Out /\ run'[c].tasks = run[c].tasks
        /\ run'[c].first = run[c].first /\ run'[c].next = run[c].next /\ run'[c].job = run[c].job
        /\ run'[c].task = 0 /\ run'[c].ended = run[c].ended
    BY <1>1, <2>2 DEF RunFacts, RunRecord, Out, StepsInv
  <2>7. ASSUME NEW k \in Nat
        PROVE  /\ ToGive(c, k)' <=> ToGive(c, k) /\ k # 0
               /\ Given(c, k)' <=> Given(c, k)
               /\ Own(c, k)' <=> k = 0
               /\ ~Own(c, k)
               /\ Ended(c, k)' <=> Ended(c, k)
    BY <1>1, <1>5, <2>1, <2>6 DEF ToGive, Given, Own, Ended, RunFacts, StepsInv, RunRecord
  <2>8. ToGive(c, 0) /\ 0 < run[c].tasks
    BY <1>1 DEF ToGive, RunFacts, StepsInv, RunRecord
  <2>9. RunInv(c)'
    <3>1. TasksInv(c)'
      <4>1. \A k \in Nat : k < run[c].tasks => Somewhere(c, k)' /\ Once(c, k)'
        BY <1>1, <1>3, <2>7, <2>8 DEF RunFacts, TasksInv, Somewhere, Once
      <4>2. \A k \in Nat : Given(c, k)' => 0 < k /\ k < run[c].first
        BY <1>1, <2>7 DEF RunFacts, TasksInv
      <4>3. \A k \in Nat : Taken(c, k)' \/ Own(c, k)' \/ Ended(c, k)' => k < run[c].tasks
        BY <1>1, <1>3, <2>7, <2>8 DEF RunFacts, TasksInv
      <4>4. \A w, v \in Workers : Runs(w, c)' /\ Runs(v, c)' /\ worker'[w].task = worker'[v].task => w = v
        BY <1>1, <1>2 DEF RunFacts, TasksInv, Runs
      <4> QED BY <2>6, <4>1, <4>2, <4>3, <4>4 DEF TasksInv
    <3>2. StepsInv(c)'
      BY <1>1, <2>6, <2>8 DEF StepsInv, RunFacts
    <3> QED BY <2>6, <3>1, <3>2 DEF RunInv
  <2>10. IInv' /\ Other(c)
    BY <2>3, <2>4, <2>5, <2>9, OneRun DEF Other
  <2>11. Begun(c, 0) /\ SameRun(c) /\ ToBegin(c, 0)
    <3>1. ~Given(c, 0)
      BY <1>1 DEF RunFacts, TasksInv
    <3> QED BY <1>1, <1>3, <2>6, <2>7, <2>8, <3>1 DEF Begun, SameRun, ToBegin, UnderWay
  <2>12. Begins(c, 0)
    BY <2>8, <2>10, <2>11, BeginsBy
  <2> QED BY <2>10, <2>12
<1> QED BY <1>4, <1>5

(* The caller's own part: nothing but its run changes.                     *)
LEMMA OwnFrame ==
  ASSUME IInv, NEW c \in Callers, NEW r \in RunRecord, Becomes(c, r), run[c] # Out,
         UNCHANGED <<shared, warm, poolState, hostState, count>>
  PROVE  /\ TypeInv' /\ PoolInv' /\ run'[c] = r /\ run'[c] # Out
         /\ \A d \in Callers \ {c} : LeftAlone(d)
         /\ \A k \in Nat : (Taken(c, k)' <=> Taken(c, k)) /\ (Given(c, k)' <=> Given(c, k))
         /\ \A w \in Workers : (Runs(w, c)' <=> Runs(w, c)) /\ worker'[w] = worker[w]
         /\ NoPart(c)' <=> NoPart(c)
<1>1. /\ run'[c] = r /\ run'[c] # Out /\ \A d \in Callers \ {c} : run'[d] = run[d]
      /\ run' \in [Callers -> {Out} \union RunRecord]
  BY RunBecomes
<1>2. TypeInv'
  BY <1>1 DEF IInv, TypeInv, poolState, hostState
<1>3. PoolInv'
  BY DEF IInv, PoolInv, poolState, hostState
<1>4. \A d \in Callers \ {c} : LeftAlone(d)
  BY <1>1 DEF LeftAlone, IsPart, poolState
<1>5. /\ \A k \in Nat : (Taken(c, k)' <=> Taken(c, k)) /\ (Given(c, k)' <=> Given(c, k))
      /\ \A w \in Workers : (Runs(w, c)' <=> Runs(w, c)) /\ worker'[w] = worker[w]
      /\ NoPart(c)' <=> NoPart(c)
  BY DEF Taken, Given, Runs, NoPart, PartsOf, poolState
<1> QED BY <1>1, <1>2, <1>3, <1>4, <1>5

LEMMA OwnTaskStep ==
  ASSUME IInv, NEW c \in Callers, OwnTask(c)
  PROVE  IInv' /\ \E e \in Nat : Ends(c, e)
<1> DEFINE e == run[c].task
           r == [run[c] EXCEPT !.ended = @ \union {e}, !.at = "takes"]
<1>1. run[c].at = "task" /\ run[c] # Out /\ RunFacts(c) /\ e \in Nat
  BY RunIs DEF OwnTask, RunFacts, RunRecord
<1>2. r \in RunRecord
  BY <1>1 DEF RunFacts, RunRecord
<1>3. Becomes(c, r) /\ UNCHANGED <<shared, warm, poolState, hostState, count>>
  BY <1>1 DEF OwnTask, Becomes
<1>4. /\ r.at = "takes" /\ r.tasks = run[c].tasks /\ r.first = run[c].first /\ r.next = run[c].next
      /\ r.job = run[c].job /\ r.task = run[c].task /\ r.ended = run[c].ended \union {e}
  BY <1>1 DEF RunFacts, RunRecord
<1> HIDE DEF r
<1>5. /\ TypeInv' /\ PoolInv' /\ run'[c] = r /\ run'[c] # Out
      /\ \A d \in Callers \ {c} : LeftAlone(d)
      /\ \A k \in Nat : (Taken(c, k)' <=> Taken(c, k)) /\ (Given(c, k)' <=> Given(c, k))
      /\ \A w \in Workers : (Runs(w, c)' <=> Runs(w, c)) /\ worker'[w] = worker[w]
  BY <1>1, <1>2, <1>3, OwnFrame
<1>6. ASSUME NEW k \in Nat
      PROVE  /\ ToGive(c, k)' <=> ToGive(c, k)
             /\ ~Own(c, k)'
             /\ Own(c, k) <=> k = e
             /\ Ended(c, k)' <=> Ended(c, k) \/ k = e
  BY <1>1, <1>4, <1>5 DEF ToGive, Own, Ended
<1>7. RunInv(c)'
  <2>1. \A k \in Nat : k < run[c].tasks => Somewhere(c, k)' /\ Once(c, k)'
    BY <1>1, <1>5, <1>6 DEF RunFacts, TasksInv, Somewhere, Once
  <2>2. \A k \in Nat : Given(c, k)' => 0 < k /\ k < run[c].first
    BY <1>1, <1>5 DEF RunFacts, TasksInv
  <2>3. \A k \in Nat : Taken(c, k)' \/ Own(c, k)' \/ Ended(c, k)' => k < run[c].tasks
    BY <1>1, <1>5, <1>6 DEF RunFacts, TasksInv
  <2>4. \A w, v \in Workers : Runs(w, c)' /\ Runs(v, c)' /\ worker'[w].task = worker'[v].task => w = v
    BY <1>1, <1>5 DEF RunFacts, TasksInv
  <2>5. TasksInv(c)'
    BY <1>4, <1>5, <2>1, <2>2, <2>3, <2>4 DEF TasksInv
  <2>6. StepsInv(c)'
    BY <1>1, <1>4, <1>5 DEF StepsInv, RunFacts
  <2> QED BY <1>4, <1>5, <2>5, <2>6 DEF RunInv
<1>8. IInv' /\ Other(c)
  BY <1>5, <1>7, OneRun DEF Other
<1>9. EndedNow(c, e) /\ SameRun(c) /\ UnderWay(c, e)
  <2>1. e < run[c].tasks /\ ~Taken(c, e) /\ ~ToGive(c, e) /\ ~Given(c, e)
    BY <1>1, <1>6 DEF RunFacts, TasksInv, Once
  <2> QED BY <1>1, <1>4, <1>5, <1>6, <2>1 DEF EndedNow, SameRun, ToBegin, UnderWay
<1>10. Ends(c, e)
  BY <1>1, <1>8, <1>9, EndsBy
<1> QED BY <1>1, <1>8, <1>10

(* The next from the counter, or none.                                     *)
LEMMA OwnTakeStep ==
  ASSUME IInv, NEW c \in Callers, OwnTake(c)
  PROVE  IInv' /\ (Stays \/ \E b \in Nat : Begins(c, b))
<1> DEFINE b == run[c].next
<1>1. run[c].at = "takes" /\ run[c] # Out /\ RunFacts(c) /\ b \in Nat
  BY RunIs DEF OwnTake, RunFacts, RunRecord
<1>2. UNCHANGED <<shared, warm, poolState, hostState, count>>
  BY DEF OwnTake
<1>3. CASE HasMore(run[c])
  <2> DEFINE r == [Counted(run[c]) EXCEPT !.task = b, !.at = "task"]
  <2>1. Counted(run[c]) \in RunRecord /\ b < run[c].tasks
    BY <1>1, <1>3 DEF Counted, HasMore, RunFacts, RunRecord
  <2>2. r \in RunRecord
    BY <1>1, <2>1 DEF RunRecord
  <2>3. Becomes(c, r)
    BY <1>3 DEF OwnTake, Becomes
  <2>4. /\ r.at = "task" /\ r.tasks = run[c].tasks /\ r.first = run[c].first /\ r.next = run[c].next + 1
        /\ r.job = run[c].job /\ r.task = b /\ r.ended = run[c].ended
    BY <1>1, <2>1 DEF RunFacts, RunRecord, Counted
  <2> HIDE DEF r
  <2>5. /\ TypeInv' /\ PoolInv' /\ run'[c] = r /\ run'[c] # Out
        /\ \A d \in Callers \ {c} : LeftAlone(d)
        /\ \A k \in Nat : (Taken(c, k)' <=> Taken(c, k)) /\ (Given(c, k)' <=> Given(c, k))
        /\ \A w \in Workers : (Runs(w, c)' <=> Runs(w, c)) /\ worker'[w] = worker[w]
    BY <1>1, <1>2, <2>2, <2>3, OwnFrame
  <2>6. ASSUME NEW k \in Nat
        PROVE  /\ ToGive(c, k)' <=> ToGive(c, k) /\ k # b
               /\ ~Own(c, k)
               /\ Own(c, k)' <=> k = b
               /\ Ended(c, k)' <=> Ended(c, k)
    BY <1>1, <2>4, <2>5 DEF ToGive, Own, Ended
  <2>7. ToGive(c, b)
    BY <1>1 DEF ToGive
  <2>8. RunInv(c)'
    <3>1. \A k \in Nat : k < run[c].tasks => Somewhere(c, k)' /\ Once(c, k)'
      BY <1>1, <2>5, <2>6, <2>7 DEF RunFacts, TasksInv, Somewhere, Once
    <3>2. \A k \in Nat : Given(c, k)' => 0 < k /\ k < run[c].first
      BY <1>1, <2>5 DEF RunFacts, TasksInv
    <3>3. \A k \in Nat : Taken(c, k)' \/ Own(c, k)' \/ Ended(c, k)' => k < run[c].tasks
      BY <1>1, <2>1, <2>5, <2>6 DEF RunFacts, TasksInv
    <3>4. \A w, v \in Workers : Runs(w, c)' /\ Runs(v, c)' /\ worker'[w].task = worker'[v].task => w = v
      BY <1>1, <2>5 DEF RunFacts, TasksInv
    <3>5. TasksInv(c)'
      BY <2>4, <2>5, <3>1, <3>2, <3>3, <3>4 DEF TasksInv
    <3>6. StepsInv(c)'
      BY <1>1, <2>4, <2>5 DEF StepsInv, RunFacts, RunRecord
    <3> QED BY <2>4, <2>5, <3>5, <3>6 DEF RunInv
  <2>9. IInv' /\ Other(c)
    BY <2>5, <2>8, OneRun DEF Other
  <2>10. Begun(c, b) /\ SameRun(c) /\ ToBegin(c, b)
    <3>1. ~Given(c, b)
      BY <1>1, <2>1, <2>7 DEF RunFacts, TasksInv, Once
    <3> QED BY <1>1, <2>4, <2>5, <2>6, <2>7, <3>1 DEF Begun, SameRun, ToBegin, UnderWay
  <2>11. Begins(c, b)
    BY <1>1, <2>1, <2>9, <2>10, BeginsBy
  <2> QED BY <1>1, <2>9, <2>11
<1>4. CASE ~HasMore(run[c])
  <2> DEFINE r == [Counted(run[c]) EXCEPT !.at = "waits"]
  <2>1. Counted(run[c]) \in RunRecord /\ run[c].tasks <= b
    BY <1>1, <1>4 DEF Counted, HasMore, RunFacts, RunRecord
  <2>2. r \in RunRecord
    BY <1>1, <2>1 DEF RunRecord
  <2>3. Becomes(c, r)
    BY <1>4 DEF OwnTake, Becomes
  <2>4. /\ r.at = "waits" /\ r.tasks = run[c].tasks /\ r.first = run[c].first /\ r.next = run[c].next + 1
        /\ r.job = run[c].job /\ r.ended = run[c].ended
    BY <1>1, <2>1 DEF RunFacts, RunRecord, Counted
  <2> HIDE DEF r
  <2>5. /\ TypeInv' /\ PoolInv' /\ run'[c] = r /\ run'[c] # Out
        /\ \A d \in Callers \ {c} : LeftAlone(d)
        /\ \A k \in Nat : (Taken(c, k)' <=> Taken(c, k)) /\ (Given(c, k)' <=> Given(c, k))
        /\ \A w \in Workers : (Runs(w, c)' <=> Runs(w, c)) /\ worker'[w] = worker[w]
    BY <1>1, <1>2, <2>2, <2>3, OwnFrame
  <2>6. ASSUME NEW k \in Nat
        PROVE  /\ k < run[c].tasks => ~ToGive(c, k) /\ ~ToGive(c, k)'
               /\ ~Own(c, k) /\ ~Own(c, k)'
               /\ Ended(c, k)' <=> Ended(c, k)
    BY <1>1, <2>1, <2>4, <2>5 DEF ToGive, Own, Ended, RunFacts, RunRecord
  <2>7. RunInv(c)'
    <3>1. \A k \in Nat : k < run[c].tasks => Somewhere(c, k)' /\ Once(c, k)'
      BY <1>1, <2>5, <2>6 DEF RunFacts, TasksInv, Somewhere, Once
    <3>2. \A k \in Nat : Given(c, k)' => 0 < k /\ k < run[c].first
      BY <1>1, <2>5 DEF RunFacts, TasksInv
    <3>3. \A k \in Nat : Taken(c, k)' \/ Own(c, k)' \/ Ended(c, k)' => k < run[c].tasks
      BY <1>1, <2>5, <2>6 DEF RunFacts, TasksInv
    <3>4. \A w, v \in Workers : Runs(w, c)' /\ Runs(v, c)' /\ worker'[w].task = worker'[v].task => w = v
      BY <1>1, <2>5 DEF RunFacts, TasksInv
    <3>5. TasksInv(c)'
      BY <2>4, <2>5, <3>1, <3>2, <3>3, <3>4 DEF TasksInv
    <3>6. StepsInv(c)'
      BY <1>1, <2>1, <2>4, <2>5 DEF StepsInv, RunFacts, RunRecord
    <3> QED BY <2>4, <2>5, <3>5, <3>6 DEF RunInv
  <2>8. IInv' /\ Other(c)
    BY <2>5, <2>7, OneRun DEF Other
  <2>9. NoneMoved(c) /\ SameRun(c)
    BY <1>1, <2>4, <2>5, <2>6 DEF NoneMoved, SameRun, ToBegin, UnderWay
  <2>10. Stays
    BY <2>8, <2>9, StaysBy
  <2> QED BY <2>8, <2>10
<1> QED BY <1>3, <1>4

LEMMA ScopeEndsStep ==
  ASSUME IInv, NEW c \in Callers, ScopeEnds(c)
  PROVE  IInv' /\ Stays
<1> DEFINE r == [run[c] EXCEPT !.at = "back"]
<1>1. run[c].at = "waits" /\ run[c] # Out /\ RunFacts(c) /\ NoPart(c)
  BY RunIs DEF ScopeEnds, NoPart
<1>2. r \in RunRecord
  BY <1>1 DEF RunFacts, RunRecord
<1>3. Becomes(c, r) /\ UNCHANGED <<shared, warm, poolState, hostState, count>>
  BY <1>1 DEF ScopeEnds, Becomes
<1>4. /\ r.at = "back" /\ r.tasks = run[c].tasks /\ r.first = run[c].first /\ r.next = run[c].next
      /\ r.job = run[c].job /\ r.ended = run[c].ended
  BY <1>1 DEF RunFacts, RunRecord
<1> HIDE DEF r
<1>5. /\ TypeInv' /\ PoolInv' /\ run'[c] = r /\ run'[c] # Out
      /\ \A d \in Callers \ {c} : LeftAlone(d)
      /\ \A k \in Nat : (Taken(c, k)' <=> Taken(c, k)) /\ (Given(c, k)' <=> Given(c, k))
      /\ \A w \in Workers : (Runs(w, c)' <=> Runs(w, c)) /\ worker'[w] = worker[w]
      /\ NoPart(c)'
  BY <1>1, <1>2, <1>3, OwnFrame
<1>6. ASSUME NEW k \in Nat
      PROVE  /\ ToGive(c, k)' <=> ToGive(c, k)
             /\ ~Own(c, k) /\ ~Own(c, k)'
             /\ Ended(c, k)' <=> Ended(c, k)
  BY <1>1, <1>4, <1>5 DEF ToGive, Own, Ended
<1>7. RunInv(c)'
  <2>1. \A k \in Nat : k < run[c].tasks => Somewhere(c, k)' /\ Once(c, k)'
    BY <1>1, <1>5, <1>6 DEF RunFacts, TasksInv, Somewhere, Once
  <2>2. \A k \in Nat : Given(c, k)' => 0 < k /\ k < run[c].first
    BY <1>1, <1>5 DEF RunFacts, TasksInv
  <2>3. \A k \in Nat : Taken(c, k)' \/ Own(c, k)' \/ Ended(c, k)' => k < run[c].tasks
    BY <1>1, <1>5, <1>6 DEF RunFacts, TasksInv
  <2>4. \A w, v \in Workers : Runs(w, c)' /\ Runs(v, c)' /\ worker'[w].task = worker'[v].task => w = v
    BY <1>1, <1>5 DEF RunFacts, TasksInv
  <2>5. TasksInv(c)'
    BY <1>4, <1>5, <2>1, <2>2, <2>3, <2>4 DEF TasksInv
  <2>6. StepsInv(c)'
    BY <1>1, <1>4, <1>5 DEF StepsInv, RunFacts
  <2> QED BY <1>4, <1>5, <2>5, <2>6 DEF RunInv
<1>8. IInv' /\ Other(c)
  BY <1>5, <1>7, OneRun DEF Other
<1>9. NoneMoved(c) /\ SameRun(c)
  BY <1>1, <1>4, <1>5, <1>6 DEF NoneMoved, SameRun, ToBegin, UnderWay
<1>10. Stays
  BY <1>8, <1>9, StaysBy
<1> QED BY <1>8, <1>10

(* A run goes back with all of its tasks ended.                            *)
LEMMA ReturnStep ==
  ASSUME IInv, NEW c \in Callers, Return(c)
  PROVE  IInv' /\ Promise!Return(c)
<1>1. run[c].at = "back" /\ run[c] # Out /\ RunFacts(c) /\ NoPart(c)
  BY RunIs DEF Return, IInv, RunInv
<1>2. /\ run' = [run EXCEPT ![c] = Out]
      /\ UNCHANGED <<shared, warm, threads, generation, stop, spawned, worker, hostState, count>>
  BY DEF Return
<1>3. run' \in [Callers -> {Out} \union RunRecord] /\ run'[c] = Out /\ \A d \in Callers \ {c} : run'[d] = run[d]
  BY <1>2 DEF IInv, TypeInv
<1>4. TypeInv'
  <2>1. run[c].seen \in Nat
    BY <1>1 DEF RunFacts, RunRecord
  <2>2. spins \in [Workers -> Seq(Nat)]
    BY DEF IInv, TypeInv
  <2>3. spins' \in [Workers -> Seq(Nat)]
    BY <2>1, <2>2 DEF Return
  <2> QED BY <1>2, <1>3, <2>3 DEF IInv, TypeInv, hostState
<1>5. PoolInv'
  BY <1>2 DEF IInv, PoolInv, hostState
<1>6. \A d \in Callers \ {c} : LeftAlone(d)
  BY <1>2, <1>3 DEF LeftAlone, IsPart
<1>7. RunInv(c)'
  <2>1. NoPart(c)'
    BY <1>1, <1>2 DEF NoPart, PartsOf
  <2> QED BY <1>3, <2>1 DEF RunInv
<1>8. IInv' /\ Other(c)
  BY <1>4, <1>5, <1>6, <1>7, OneRun DEF Other
<1>9. CalledOf(c)' = Promise!NoTasks
  BY <1>3 DEF CalledOf, Promise!NoTasks, Promise!Tasks
<1>10. CalledOf(c).left = {} /\ CalledOf(c).running = {}
  <2>1. Called(c)
    BY <1>1, CalledAre
  <2>2. ASSUME NEW k \in Nat PROVE ~Given(c, k) /\ ~Taken(c, k) /\ ~Own(c, k)
    BY <1>1 DEF NoPart, Given, Taken, Runs, PartsOf, Own
  <2>3. ASSUME NEW k \in Nat, k < run[c].tasks PROVE ~ToGive(c, k)
    BY <1>1, <2>3 DEF ToGive, RunFacts, StepsInv, RunRecord
  <2> QED BY <2>1, <2>2, <2>3 DEF Called
<1>11. Bar' = [Bar EXCEPT ![c] = Promise!NoTasks] /\ Bar[c] = CalledOf(c)
  BY <1>8, <1>9 DEF Bar, Other
<1>12. Promise!Return(c)
  BY <1>10, <1>11 DEF Promise!Return, Bar
<1> QED BY <1>8, <1>12

(* A run begins with all of its tasks to give; one of no task has none.    *)
LEMMA RunStep ==
  ASSUME IInv, NEW c \in Callers, NEW n \in 0..MaxTasks, Run(c, n)
  PROVE  IInv' /\ (Stays \/ Promise!Run(c))
<1> DEFINE m == Fewer(n, threads)
           r == NewRun(n, m, generation')
<1>1. run[c] = Out /\ Becomes(c, r) /\ UNCHANGED <<shared, warm, threads, stop, spawned, spins, worker, hostState>>
  BY DEF Run, Becomes
<1>2. n \in Nat /\ threads \in Nat /\ 1 < threads /\ generation' \in Nat
  <2>1. n \in Nat /\ threads \in Nat /\ generation \in Nat
    BY Bounds DEF IInv, TypeInv
  <2>2. 1 < threads
    BY DEF Run, IInv, PoolInv
  <2>3. generation' \in Nat
    BY <2>1 DEF Run
  <2> QED BY <2>1, <2>2, <2>3
<1>3. m \in Nat /\ m <= n /\ (n > 0 => m > 0)
  BY <1>2 DEF Fewer
<1> HIDE DEF m
<1>4. /\ r \in RunRecord /\ r.at = (IF n = 0 THEN "back" ELSE "spawns") /\ r.tasks = n /\ r.first = m
      /\ r.job = 1 /\ r.task = 0 /\ r.next = m /\ r.ended = {}
  BY <1>2, <1>3 DEF NewRun, RunRecord
<1> HIDE DEF r
<1>5. /\ run'[c] = r /\ run'[c] # Out /\ \A d \in Callers \ {c} : run'[d] = run[d]
      /\ run' \in [Callers -> {Out} \union RunRecord]
  BY <1>1, <1>4, RunBecomes
<1>6. TypeInv' /\ PoolInv'
  BY <1>1, <1>2, <1>5 DEF IInv, TypeInv, PoolInv, hostState
<1>7. \A d \in Callers \ {c} : LeftAlone(d)
  BY <1>1, <1>5 DEF LeftAlone, IsPart
<1>8. NoPart(c) /\ NoPart(c)'
  <2>1. NoPart(c)
    BY <1>1 DEF IInv, RunInv, Out
  <2> QED BY <1>1, <2>1 DEF NoPart, PartsOf
<1>9. ASSUME NEW k \in Nat
      PROVE  /\ k < n => ToGive(c, k)'
             /\ ~Given(c, k)' /\ ~Taken(c, k)' /\ ~Own(c, k)' /\ ~Ended(c, k)'
  <2>1. ~Given(c, k)' /\ ~Taken(c, k)'
    BY <1>8 DEF NoPart, Given, Taken, Runs, PartsOf
  <2>2. ~Own(c, k)' /\ ~Ended(c, k)'
    BY <1>4, <1>5 DEF Own, Ended
  <2>3. k < n => ToGive(c, k)'
    BY <1>3, <1>4, <1>5 DEF ToGive
  <2> QED BY <2>1, <2>2, <2>3
<1>10. RunInv(c)'
  <2>1. \A k \in Nat : k < n => Somewhere(c, k)' /\ Once(c, k)'
    BY <1>9 DEF Somewhere, Once
  <2>2. \A w, v \in Workers : Runs(w, c)' /\ Runs(v, c)' /\ worker'[w].task = worker'[v].task => w = v
    BY <1>8 DEF NoPart, PartsOf, Runs
  <2>3. TasksInv(c)'
    BY <1>4, <1>5, <1>9, <2>1, <2>2 DEF TasksInv
  <2>4. StepsInv(c)'
    BY <1>2, <1>3, <1>4, <1>5 DEF StepsInv
  <2> QED BY <1>4, <1>5, <1>8, <2>3, <2>4 DEF RunInv
<1>11. IInv' /\ Other(c)
  BY <1>6, <1>7, <1>10, OneRun DEF Other
<1>12. CalledOf(c) = Promise!NoTasks
  BY <1>1 DEF CalledOf, Promise!NoTasks, Promise!Tasks
<1>13. CalledOf(c)' = Promise!Tasks(0..n - 1, {}, {})
  <2>1. Called(c)'
    BY <1>5, <1>11, CalledAreNext
  <2>2. 0..n - 1 = {k \in Nat : k < n}
    BY <1>2
  <2>3. /\ {k \in Nat : k < n /\ (ToGive(c, k)' \/ Given(c, k)')} = {k \in Nat : k < n}
        /\ {k \in Nat : Taken(c, k)' \/ Own(c, k)'} = {} /\ {k \in Nat : Ended(c, k)'} = {}
    BY <1>9
  <2> QED BY <1>4, <1>5, <2>1, <2>2, <2>3 DEF Called, Promise!Tasks
<1>14. CASE n = 0
  <2>1. CalledOf(c)' = CalledOf(c)
    BY <1>12, <1>13, <1>14 DEF Promise!NoTasks
  <2> QED BY <1>11, <2>1 DEF Stays, Other
<1>15. CASE n # 0
  <2>1. n \in 1..MaxTasks
    BY <1>2, <1>15, Bounds
  <2>2. Bar' = [Bar EXCEPT ![c] = Promise!Tasks(0..n - 1, {}, {})] /\ Bar[c] = Promise!NoTasks
    BY <1>11, <1>12, <1>13 DEF Bar, Other
  <2>3. Promise!Run(c)
    BY <2>1, <2>2 DEF Promise!Run, Bar
  <2> QED BY <1>11, <2>3
<1> QED BY <1>14, <1>15

-----------------------------------------------------------------------------
(* What a worker does is another thing.                                    *)
Does(w, x) == worker' = [worker EXCEPT ![w] = x]

LEMMA WorkerBecomes ==
  ASSUME IInv, NEW w \in Workers, NEW x \in WorkerRecord, Does(w, x)
  PROVE  /\ worker'[w] = x /\ \A v \in Workers \ {w} : worker'[v] = worker[v]
         /\ worker' \in [Workers -> WorkerRecord]
BY DEF IInv, TypeInv, Does

LEMMA PartRuns ==
  ASSUME IInv, NEW w \in Workers, worker[w].does \in {"task", "takes"}
  PROVE  /\ worker[w].of \in Callers /\ IsPart(w, worker[w].of)
         /\ run[worker[w].of] # Out /\ RunFacts(worker[w].of)
         /\ run[worker[w].of].at \notin {"out", "back"}
         /\ worker[w].does = "task" => worker[w].task \in Nat /\ Runs(w, worker[w].of)
<1> DEFINE c == worker[w].of
<1>1. worker[w] \in WorkerRecord
  BY DEF IInv, TypeInv
<1>2. c \in Callers /\ (worker[w].does = "task" => worker[w].task \in Nat)
  BY <1>1 DEF WorkerRecord, NoThread, Free
<1>3. IsPart(w, c) /\ (worker[w].does = "task" => Runs(w, c))
  BY DEF IsPart, Runs
<1>4. w \in PartsOf(c)
  BY <1>3, PartsAre
<1>5. ~NoPart(c)
  BY <1>4 DEF NoPart
<1>6. run[c].at \notin {"out", "back"}
  BY <1>2, <1>5 DEF IInv, RunInv
<1>7. run[c] # Out /\ RunFacts(c)
  BY <1>2, <1>6, RunIs
<1> QED BY <1>2, <1>3, <1>6, <1>7

LEMMA TakeJobStep ==
  ASSUME IInv, NEW w \in Workers, TakeJob(w)
  PROVE  IInv' /\ \E c \in Callers, b \in Nat : Begins(c, b)
<1>1. PICK j \in spawned : /\ spawned' = spawned \ {j}
                           /\ worker' = [worker EXCEPT ![w] = Part(j.of, j.task)]
  BY DEF TakeJob
<1> DEFINE c == j.of
           b == j.task
<1>2. c \in Callers /\ b \in Nat /\ j = [of |-> c, task |-> b] /\ spawned \subseteq [of : Callers, task : Nat]
  BY DEF IInv, TypeInv
<1>3. UNCHANGED <<shared, warm, threads, generation, stop, spins, run, hostState, count>> /\ worker[w] = Free
  BY DEF TakeJob
<1>4. run[c].at \notin {"out", "back"} /\ run[c] # Out /\ RunFacts(c)
  <2>1. ~NoPart(c)
    BY DEF NoPart
  <2> QED BY <1>2, <2>1, RunIs DEF IInv, RunInv
<1> DEFINE x == Part(c, b)
<1>5. x \in WorkerRecord /\ x.does = "task" /\ x.of = c /\ x.task = b /\ x # NoThread
  BY <1>2 DEF Part, WorkerRecord, NoThread
<1>6. Does(w, x)
  BY <1>1 DEF Does
<1> HIDE DEF x, c, b
<1>7. /\ worker'[w] = x /\ \A v \in Workers \ {w} : worker'[v] = worker[v]
      /\ worker' \in [Workers -> WorkerRecord]
  BY <1>5, <1>6, WorkerBecomes
<1>8. TypeInv'
  BY <1>1, <1>3, <1>7 DEF IInv, TypeInv, hostState
<1>9. PoolInv'
  <2>1. worker[w] # NoThread
    BY <1>3 DEF Free, NoThread
  <2> QED BY <1>3, <1>7, <2>1 DEF IInv, PoolInv, hostState
<1>10. \A d \in Callers \ {c} : LeftAlone(d)
  BY <1>1, <1>2, <1>3, <1>5, <1>7 DEF LeftAlone, IsPart, Free
<1>11. /\ Runs(w, c)' /\ ~Runs(w, c) /\ worker'[w].task = b
       /\ \A v \in Workers \ {w} : (Runs(v, c)' <=> Runs(v, c)) /\ worker'[v] = worker[v]
  BY <1>3, <1>5, <1>7 DEF Runs, Free
<1>12. ASSUME NEW k \in Nat
       PROVE  /\ Given(c, k)' <=> Given(c, k) /\ k # b
              /\ Taken(c, k)' <=> Taken(c, k) \/ k = b
              /\ ToGive(c, k)' <=> ToGive(c, k)
              /\ Own(c, k)' <=> Own(c, k)
              /\ Ended(c, k)' <=> Ended(c, k)
  <2>1. Given(c, k)' <=> Given(c, k) /\ k # b
    BY <1>1, <1>2 DEF Given
  <2>2. Taken(c, k)' <=> Taken(c, k) \/ k = b
    BY <1>11 DEF Taken
  <2> QED BY <1>3, <2>1, <2>2 DEF ToGive, Own, Ended
<1>13. Given(c, b)
  BY <1>2 DEF Given
<1>14. b < run[c].tasks /\ ~Taken(c, b) /\ ~ToGive(c, b) /\ ~Own(c, b) /\ ~Ended(c, b)
  <2>1. b < run[c].tasks
    BY <1>2, <1>4, <1>13 DEF RunFacts, TasksInv, StepsInv, RunRecord
  <2> QED BY <1>2, <1>4, <1>13, <2>1 DEF RunFacts, TasksInv, Once
<1>15. RunInv(c)'
  <2>1. \A k \in Nat : k < run[c].tasks => Somewhere(c, k)' /\ Once(c, k)'
    BY <1>4, <1>12, <1>14 DEF RunFacts, TasksInv, Somewhere, Once
  <2>2. \A k \in Nat : Given(c, k)' => 0 < k /\ k < run[c].first
    BY <1>4, <1>12 DEF RunFacts, TasksInv
  <2>3. \A k \in Nat : Taken(c, k)' \/ Own(c, k)' \/ Ended(c, k)' => k < run[c].tasks
    BY <1>4, <1>12, <1>14 DEF RunFacts, TasksInv
  <2>4. \A v, u \in Workers : Runs(v, c)' /\ Runs(u, c)' /\ worker'[v].task = worker'[u].task => v = u
    <3>1. \A v \in Workers \ {w} : Runs(v, c) => worker[v].task # b
      BY <1>14 DEF Taken
    <3> QED BY <1>4, <1>11, <3>1 DEF RunFacts, TasksInv
  <2>5. TasksInv(c)'
    BY <1>3, <2>1, <2>2, <2>3, <2>4 DEF TasksInv
  <2>6. StepsInv(c)'
    BY <1>3, <1>4 DEF StepsInv, RunFacts
  <2> QED BY <1>3, <1>4, <2>5, <2>6 DEF RunInv
<1>16. IInv' /\ Other(c)
  BY <1>2, <1>8, <1>9, <1>10, <1>15, OneRun DEF Other
<1>17. Begun(c, b) /\ SameRun(c) /\ ToBegin(c, b)
  BY <1>3, <1>4, <1>12, <1>13, <1>14 DEF Begun, SameRun, ToBegin, UnderWay
<1>18. Begins(c, b)
  BY <1>2, <1>14, <1>16, <1>17, BeginsBy
<1> QED BY <1>2, <1>16, <1>18

LEMMA RunTaskStep ==
  ASSUME IInv, NEW w \in Workers, RunTask(w)
  PROVE  IInv' /\ \E c \in Callers, e \in Nat : Ends(c, e)
<1>a. PICK c : c = worker[w].of
  OBVIOUS
<1>b. PICK e : e = worker[w].task
  OBVIOUS
<1> DEFINE x == Taking(c)
           r == [run[c] EXCEPT !.ended = @ \union {e}]
<1>1. /\ c \in Callers /\ e \in Nat /\ Runs(w, c) /\ run[c] # Out /\ RunFacts(c)
      /\ run[c].at \notin {"out", "back"} /\ worker[w].does = "task"
  BY <1>a, <1>b, PartRuns DEF RunTask
<1>2. UNCHANGED <<shared, warm, threads, generation, stop, spawned, spins, hostState, count>>
  BY DEF RunTask
<1>3. x \in WorkerRecord /\ x.does = "takes" /\ x.of = c /\ x # NoThread
  BY <1>1 DEF Taking, WorkerRecord, NoThread
<1>4. r \in RunRecord
  BY <1>1 DEF RunFacts, RunRecord
<1>5. /\ r.at = run[c].at /\ r.tasks = run[c].tasks /\ r.first = run[c].first /\ r.next = run[c].next
      /\ r.job = run[c].job /\ r.task = run[c].task /\ r.ended = run[c].ended \union {e}
  BY <1>1 DEF RunFacts, RunRecord
<1>6. Becomes(c, r) /\ Does(w, x)
  BY <1>a, <1>b DEF RunTask, Becomes, Does
<1> HIDE DEF x, r
<1>7. /\ worker'[w] = x /\ \A v \in Workers \ {w} : worker'[v] = worker[v]
      /\ worker' \in [Workers -> WorkerRecord]
  BY <1>3, <1>6, WorkerBecomes
<1>8. /\ run'[c] = r /\ run'[c] # Out /\ \A d \in Callers \ {c} : run'[d] = run[d]
      /\ run' \in [Callers -> {Out} \union RunRecord]
  BY <1>1, <1>4, <1>6, RunBecomes
<1>9. TypeInv' /\ PoolInv'
  <2>1. worker[w] # NoThread
    BY <1>1 DEF NoThread
  <2> QED BY <1>2, <1>7, <1>8, <2>1 DEF IInv, TypeInv, PoolInv, hostState
<1>10. \A d \in Callers \ {c} : LeftAlone(d)
  BY <1>1, <1>2, <1>3, <1>7, <1>8 DEF LeftAlone, IsPart, Runs
<1>11. /\ ~Runs(w, c)' /\ worker[w].task = e
       /\ \A v \in Workers \ {w} : (Runs(v, c)' <=> Runs(v, c)) /\ worker'[v] = worker[v]
  BY <1>b, <1>3, <1>7 DEF Runs
<1>12. ASSUME NEW k \in Nat
       PROVE  /\ Given(c, k)' <=> Given(c, k)
              /\ Taken(c, k)' <=> Taken(c, k) /\ k # e
              /\ ToGive(c, k)' <=> ToGive(c, k)
              /\ Own(c, k)' <=> Own(c, k)
              /\ Ended(c, k)' <=> Ended(c, k) \/ k = e
  <2>1. Taken(c, k)' <=> Taken(c, k) /\ k # e
    BY <1>1, <1>11 DEF Taken, RunFacts, TasksInv
  <2>2. Given(c, k)' <=> Given(c, k)
    BY <1>2 DEF Given
  <2> QED BY <1>5, <1>8, <2>1, <2>2 DEF ToGive, Own, Ended
<1>13. Taken(c, e)
  BY <1>1, <1>11 DEF Taken
<1>14. e < run[c].tasks /\ ~Given(c, e) /\ ~ToGive(c, e) /\ ~Own(c, e) /\ ~Ended(c, e)
  BY <1>1, <1>13 DEF RunFacts, TasksInv, Once
<1>15. RunInv(c)'
  <2>1. \A k \in Nat : k < run[c].tasks => Somewhere(c, k)' /\ Once(c, k)'
    BY <1>1, <1>12, <1>14 DEF RunFacts, TasksInv, Somewhere, Once
  <2>2. \A k \in Nat : Given(c, k)' => 0 < k /\ k < run[c].first
    BY <1>1, <1>12 DEF RunFacts, TasksInv
  <2>3. \A k \in Nat : Taken(c, k)' \/ Own(c, k)' \/ Ended(c, k)' => k < run[c].tasks
    BY <1>1, <1>12, <1>14 DEF RunFacts, TasksInv
  <2>4. \A v, u \in Workers : Runs(v, c)' /\ Runs(u, c)' /\ worker'[v].task = worker'[u].task => v = u
    BY <1>1, <1>11 DEF RunFacts, TasksInv
  <2>5. TasksInv(c)'
    BY <1>5, <1>8, <2>1, <2>2, <2>3, <2>4 DEF TasksInv
  <2>6. StepsInv(c)'
    BY <1>1, <1>5, <1>8 DEF StepsInv, RunFacts
  <2> QED BY <1>1, <1>5, <1>8, <2>5, <2>6 DEF RunInv
<1>16. IInv' /\ Other(c)
  BY <1>1, <1>9, <1>10, <1>15, OneRun DEF Other
<1>17. EndedNow(c, e) /\ SameRun(c) /\ UnderWay(c, e)
  BY <1>1, <1>5, <1>8, <1>12, <1>13, <1>14 DEF EndedNow, SameRun, ToBegin, UnderWay
<1>18. Ends(c, e)
  BY <1>1, <1>16, <1>17, EndsBy
<1> QED BY <1>1, <1>16, <1>18

LEMMA TakeTaskStep ==
  ASSUME IInv, NEW w \in Workers, TakeTask(w)
  PROVE  IInv' /\ (Stays \/ \E c \in Callers, b \in Nat : Begins(c, b))
<1>a. PICK c : c = worker[w].of
  OBVIOUS
<1>b. PICK b : b = run[c].next
  OBVIOUS
<1> DEFINE more == HasMore(run[c])
           x == IF more THEN Part(c, b) ELSE Free
           r == Counted(run[c])
<1>1. /\ c \in Callers /\ run[c] # Out /\ RunFacts(c)
      /\ run[c].at \notin {"out", "back"} /\ worker[w].does = "takes"
  BY <1>a, PartRuns DEF TakeTask
<1>2. UNCHANGED <<shared, warm, threads, generation, stop, spawned, spins, hostState, count>>
  BY DEF TakeTask
<1>3. b \in Nat /\ (more <=> b < run[c].tasks)
  BY <1>b, <1>1 DEF RunFacts, RunRecord, HasMore
<1>4. /\ x \in WorkerRecord /\ x # NoThread /\ x.does # "takes"
      /\ x.does = "task" <=> more
      /\ more => x.of = c /\ x.task = b
  BY <1>1, <1>3 DEF Part, Free, WorkerRecord, NoThread
<1>5. r \in RunRecord
  BY <1>1 DEF RunFacts, RunRecord, Counted
<1>6. /\ r.at = run[c].at /\ r.tasks = run[c].tasks /\ r.first = run[c].first /\ r.next = b + 1
      /\ r.job = run[c].job /\ r.task = run[c].task /\ r.ended = run[c].ended
  BY <1>b, <1>1 DEF RunFacts, RunRecord, Counted
<1>7. Becomes(c, r) /\ Does(w, x)
  BY <1>a, <1>b DEF TakeTask, Becomes, Does
<1>m. PICK m \in BOOLEAN : m <=> more
  OBVIOUS
<1> HIDE DEF x, r, more
<1>8. /\ worker'[w] = x /\ \A v \in Workers \ {w} : worker'[v] = worker[v]
      /\ worker' \in [Workers -> WorkerRecord]
  BY <1>4, <1>7, WorkerBecomes
<1>9. /\ run'[c] = r /\ run'[c] # Out /\ \A d \in Callers \ {c} : run'[d] = run[d]
      /\ run' \in [Callers -> {Out} \union RunRecord]
  BY <1>1, <1>5, <1>7, RunBecomes
<1>10. TypeInv' /\ PoolInv'
  <2>1. worker[w] # NoThread
    BY <1>1 DEF NoThread
  <2> QED BY <1>2, <1>8, <1>9, <2>1 DEF IInv, TypeInv, PoolInv, hostState
<1>11. \A d \in Callers \ {c} : LeftAlone(d)
  BY <1>a, <1>1, <1>2, <1>4, <1>8, <1>9 DEF LeftAlone, IsPart
<1>12. /\ Runs(w, c)' <=> m
       /\ ~Runs(w, c)
       /\ m => worker'[w].task = b
       /\ \A v \in Workers \ {w} : (Runs(v, c)' <=> Runs(v, c)) /\ worker'[v] = worker[v]
  BY <1>m, <1>1, <1>4, <1>8 DEF Runs
<1>13. ASSUME NEW k \in Nat
       PROVE  /\ Given(c, k)' <=> Given(c, k)
              /\ Taken(c, k)' <=> Taken(c, k) \/ (m /\ k = b)
              /\ k < run[c].tasks => (ToGive(c, k)' <=> ToGive(c, k) /\ ~(m /\ k = b))
              /\ Own(c, k)' <=> Own(c, k)
              /\ Ended(c, k)' <=> Ended(c, k)
  <2>1. Taken(c, k)' <=> Taken(c, k) \/ (m /\ k = b)
    BY <1>12 DEF Taken
  <2>2. Given(c, k)' <=> Given(c, k)
    BY <1>2 DEF Given
  <2>3. k < run[c].tasks => (ToGive(c, k)' <=> ToGive(c, k) /\ ~(m /\ k = b))
    BY <1>m, <1>b, <1>1, <1>3, <1>6, <1>9 DEF ToGive, RunFacts, StepsInv, RunRecord
  <2> QED BY <1>6, <1>9, <2>1, <2>2, <2>3 DEF Own, Ended
<1>14. m => /\ b < run[c].tasks /\ ToGive(c, b)
            /\ ~Given(c, b) /\ ~Taken(c, b) /\ ~Own(c, b) /\ ~Ended(c, b)
  <2>1. m => b < run[c].tasks /\ ToGive(c, b)
    BY <1>m, <1>b, <1>3 DEF ToGive
  <2> QED BY <1>1, <1>3, <2>1 DEF RunFacts, TasksInv, Once
<1>15. RunInv(c)'
  <2>1. \A k \in Nat : k < run[c].tasks => Somewhere(c, k)' /\ Once(c, k)'
    BY <1>1, <1>13, <1>14 DEF RunFacts, TasksInv, Somewhere, Once
  <2>2. \A k \in Nat : Given(c, k)' => 0 < k /\ k < run[c].first
    BY <1>1, <1>13 DEF RunFacts, TasksInv
  <2>3. \A k \in Nat : Taken(c, k)' \/ Own(c, k)' \/ Ended(c, k)' => k < run[c].tasks
    BY <1>1, <1>13, <1>14 DEF RunFacts, TasksInv
  <2>4. \A v, u \in Workers : Runs(v, c)' /\ Runs(u, c)' /\ worker'[v].task = worker'[u].task => v = u
    <3>1. m => \A v \in Workers \ {w} : Runs(v, c) => worker[v].task # b
      BY <1>14 DEF Taken
    <3> QED BY <1>1, <1>12, <3>1 DEF RunFacts, TasksInv
  <2>5. TasksInv(c)'
    BY <1>6, <1>9, <2>1, <2>2, <2>3, <2>4 DEF TasksInv
  <2>6. StepsInv(c)'
    BY <1>b, <1>1, <1>3, <1>6, <1>9 DEF StepsInv, RunFacts, RunRecord
  <2> QED BY <1>1, <1>6, <1>9, <2>5, <2>6 DEF RunInv
<1>16. IInv' /\ Other(c)
  BY <1>1, <1>10, <1>11, <1>15, OneRun DEF Other
<1>17. SameRun(c)
  BY <1>1, <1>6, <1>9 DEF SameRun
<1>18. CASE m
  <2>1. Begun(c, b) /\ ToBegin(c, b)
    BY <1>13, <1>14, <1>18 DEF Begun, ToBegin, UnderWay
  <2>2. Begins(c, b)
    BY <1>1, <1>3, <1>14, <1>16, <1>17, <1>18, <2>1, BeginsBy
  <2> QED BY <1>1, <1>3, <1>16, <2>2
<1>19. CASE ~m
  <2>1. NoneMoved(c)
    BY <1>13, <1>19 DEF NoneMoved, ToBegin, UnderWay
  <2>2. Stays
    BY <1>1, <1>16, <1>17, <2>1, StaysBy
  <2> QED BY <1>16, <2>2
<1> QED BY <1>18, <1>19

(* The workers' other steps, and the host's, have to do with no run.       *)
LEMMA IdleStep ==
  ASSUME IInv, NEW w \in Workers, TakeSpin(w) \/ SpinEnds(w) \/ Leave(w)
  PROVE  IInv' /\ Stays
<1>1. UNCHANGED <<shared, warm, threads, generation, stop, spawned, run, hostState, count>>
  BY DEF TakeSpin, SpinEnds, Leave
<1>2. worker[w] # NoThread /\ worker[w].does \notin {"task", "takes"}
  BY DEF TakeSpin, SpinEnds, Leave, Free, NoThread
<1>3. spins' \in [Workers -> Seq(Nat)]
  <2>1. spins \in [Workers -> Seq(Nat)]
    BY DEF IInv, TypeInv
  <2>2. CASE TakeSpin(w)
    BY <2>1, <2>2 DEF TakeSpin
  <2>3. CASE SpinEnds(w) \/ Leave(w)
    BY <2>1, <2>3 DEF SpinEnds, Leave
  <2> QED BY <2>2, <2>3
<1>4. PICK x \in WorkerRecord : Does(w, x) /\ x.does \notin {"task", "takes"}
  <2>1. CASE TakeSpin(w)
    <3> DEFINE x == Spinning(Head(spins[w]))
    <3>1. Head(spins[w]) \in Nat
      BY <2>1 DEF TakeSpin, IInv, TypeInv
    <3>2. x \in WorkerRecord /\ x.does = "spins"
      BY <3>1 DEF Spinning, WorkerRecord
    <3>3. Does(w, x)
      BY <2>1 DEF TakeSpin, Does
    <3> QED BY <3>2, <3>3
  <2>2. CASE SpinEnds(w)
    <3>1. Free \in WorkerRecord /\ Free.does = "nothing"
      BY DEF Free, WorkerRecord
    <3>2. Does(w, Free)
      BY <2>2 DEF SpinEnds, Does
    <3> QED BY <3>1, <3>2
  <2>3. CASE Leave(w)
    <3>1. NoThread \in WorkerRecord /\ NoThread.does = "none"
      BY DEF NoThread, WorkerRecord
    <3>2. Does(w, NoThread)
      BY <2>3 DEF Leave, Does
    <3> QED BY <3>1, <3>2
  <2> QED BY <2>1, <2>2, <2>3
<1>5. /\ worker'[w] = x /\ \A v \in Workers \ {w} : worker'[v] = worker[v]
      /\ worker' \in [Workers -> WorkerRecord]
  BY <1>4, WorkerBecomes
<1>6. TypeInv' /\ PoolInv'
  BY <1>1, <1>2, <1>3, <1>5 DEF IInv, TypeInv, PoolInv, hostState
<1>7. \A d \in Callers : LeftAlone(d)
  BY <1>1, <1>2, <1>4, <1>5 DEF LeftAlone, IsPart
<1> QED BY <1>6, <1>7, NoRun DEF Stays

LEMMA HostStep ==
  ASSUME IInv, (\E n \in 0..MaxThreads : Stop(n)) \/ Start \/ Close \/ InstallOther
  PROVE  IInv' /\ Stays
<1>1. UNCHANGED <<shared, warm, spawned, spins, run>>
  BY DEF Stop, Start, Close, InstallOther, poolState
<1>2. (\A w \in Workers : worker[w] = NoThread) \/ worker' = worker
  BY DEF Stop, Start, Close, InstallOther, poolState, Joined
<1>3. \A w \in Workers : worker'[w].does \in {"task", "takes"} => worker'[w] = worker[w]
  BY <1>2 DEF Stop, Start, Close, InstallOther, poolState, NewWorkers, Free, NoThread
<1>4. TypeInv' /\ PoolInv'
  <2>1. TypeInv /\ PoolInv /\ MaxThreads \in Nat \ {0}
    BY Bounds DEF IInv
  <2>2. ASSUME NEW n \in 0..MaxThreads, Stop(n)
        PROVE  TypeInv' /\ PoolInv'
    <3>1. n \in Nat
      BY <2>1
    <3>2. TypeInv'
      BY <1>1, <2>1, <2>2, <3>1 DEF Stop, TypeInv
    <3> QED BY <1>1, <2>1, <2>2, <3>2 DEF Stop, BetweenFrames, TakenOut, HasPool, TypeInv, PoolInv
  <2>3. CASE Start
    <3>1. threads' = wanted /\ worker' = NewWorkers(wanted) /\ wanted \in Nat
      BY <2>1, <2>3 DEF Start, TypeInv
    <3>2. worker' \in [Workers -> WorkerRecord] /\ \A w \in Workers : worker'[w] # NoThread => w < threads'
      BY <3>1 DEF NewWorkers, Free, NoThread, WorkerRecord
    <3>3. threads' \in Nat /\ generation' \in Nat /\ stop' = FALSE /\ host' = "none" /\ wanted' \in Nat
      BY <2>3, <3>1 DEF Start
    <3>4. TypeInv'
      BY <1>1, <2>1, <3>2, <3>3 DEF TypeInv
    <3>5. installed # "ours" /\ ~shared
      BY <2>1, <2>3 DEF Start, PoolInv
    <3>6. installed' = "ours" => threads' > 1
      BY <2>3, <3>1, <3>5 DEF Start
    <3> QED BY <1>1, <3>2, <3>3, <3>4, <3>5, <3>6 DEF PoolInv
  <2>4. CASE Close
    BY <1>1, <2>1, <2>4 DEF Close, Joined, TypeInv, PoolInv
  <2>5. CASE InstallOther
    BY <1>1, <2>1, <2>5 DEF InstallOther, poolState, TypeInv, PoolInv
  <2> QED BY <2>2, <2>3, <2>4, <2>5
<1>5. \A d \in Callers : LeftAlone(d)
  <2>1. \A w \in Workers : \A d : IsPart(w, d) => worker'[w] = worker[w]
    BY <1>2 DEF IsPart, NoThread
  <2>2. \A w \in Workers : \A d : IsPart(w, d)' <=> IsPart(w, d)
    BY <1>3, <2>1 DEF IsPart
  <2> QED BY <1>1, <2>1, <2>2 DEF LeftAlone
<1> QED BY <1>4, <1>5, NoRun DEF Stays

-----------------------------------------------------------------------------
LEMMA InitKeeps ==
  ASSUME Init
  PROVE  IInv /\ Promise!Init
<1>1. \A w \in Workers : worker[w] \in {Free, NoThread} /\ (worker[w] # NoThread => w < threads)
  BY DEF Init, NewWorkers
<1>2. TypeInv
  <2>1. threads \in Nat
    BY Bounds DEF Init
  <2>2. worker \in [Workers -> WorkerRecord]
    BY DEF Init, NewWorkers, WorkerRecord
  <2>3. spins \in [Workers -> Seq(Nat)]
    BY DEF Init
  <2> QED BY <2>1, <2>2, <2>3 DEF Init, TypeInv
<1>3. PoolInv
  BY <1>1, Bounds DEF Init, PoolInv
<1>4. \A c \in Callers : RunInv(c)
  <2>1. \A w \in Workers : worker[w].does \notin {"task", "takes"}
    BY <1>1 DEF Free, NoThread
  <2>2. ASSUME NEW c PROVE NoPart(c)
    <3>1. PartsOf(c) = {}
      BY <2>1 DEF PartsOf
    <3> QED BY <3>1 DEF Init, NoPart
  <2> QED BY <2>2 DEF Init, RunInv
<1>5. Promise!Init
  BY DEF Init, Promise!Init, CalledOf, Promise!NoTasks, Promise!Tasks
<1> QED BY <1>2, <1>3, <1>4, <1>5 DEF IInv

(* Every step keeps the invariant, and is one of Executor, or none.        *)
LEMMA NextStep ==
  ASSUME IInv, [Next]_vars
  PROVE  IInv' /\ [Promise!Next]_(Promise!vars)
<1>1. Promise!vars = Bar /\ Promise!vars' = Bar'
  BY DEF Promise!vars, Bar
<1>2. ASSUME Stays PROVE [Promise!Next]_(Promise!vars)
  BY <1>1, <1>2, StaysIs
<1>3. ASSUME NEW c \in Callers, NEW k, Begins(c, k) \/ Ends(c, k) PROVE [Promise!Next]_(Promise!vars)
  BY <1>3, BeginsIs, EndsIs DEF Promise!Next
<1>4. ASSUME NEW c \in Callers, Calls(c) PROVE IInv' /\ [Promise!Next]_(Promise!vars)
  <2>1. CASE SpawnJob(c)
    BY <1>2, <1>3, <2>1, SpawnJobStep
  <2>2. CASE OwnTask(c)
    BY <1>3, <2>2, OwnTaskStep
  <2>3. CASE OwnTake(c)
    BY <1>2, <1>3, <2>3, OwnTakeStep
  <2>4. CASE ScopeEnds(c)
    BY <1>2, <2>4, ScopeEndsStep
  <2>5. CASE Return(c)
    BY <2>5, ReturnStep DEF Promise!Next
  <2> QED BY <1>4, <2>1, <2>2, <2>3, <2>4, <2>5 DEF Calls
<1>5. ASSUME NEW c \in Callers, NEW n \in 0..MaxTasks, Run(c, n)
      PROVE  IInv' /\ [Promise!Next]_(Promise!vars)
  BY <1>2, <1>5, RunStep DEF Promise!Next
<1>6. ASSUME NEW w \in Workers, Works(w) PROVE IInv' /\ [Promise!Next]_(Promise!vars)
  <2>1. CASE TakeJob(w)
    BY <1>3, <2>1, TakeJobStep
  <2>2. CASE RunTask(w)
    BY <1>3, <2>2, RunTaskStep
  <2>3. CASE TakeTask(w)
    BY <1>2, <1>3, <2>3, TakeTaskStep
  <2>4. CASE TakeSpin(w) \/ SpinEnds(w) \/ Leave(w)
    BY <1>2, <2>4, IdleStep
  <2> QED BY <1>6, <2>1, <2>2, <2>3, <2>4 DEF Works
<1>7. CASE (\E n \in 0..MaxThreads : Stop(n)) \/ Start \/ Close \/ InstallOther
  BY <1>2, <1>7, HostStep
<1>8. CASE UNCHANGED vars
  <2>1. TypeInv' /\ PoolInv'
    BY <1>8 DEF vars, poolState, hostState, IInv, TypeInv, PoolInv
  <2>2. \A d \in Callers : LeftAlone(d)
    BY <1>8 DEF vars, poolState, LeftAlone, IsPart
  <2>3. IInv' /\ Stays
    BY <2>1, <2>2, NoRun DEF Stays
  <2> QED BY <1>2, <2>3
<1> QED BY <1>4, <1>5, <1>6, <1>7, <1>8 DEF Next

(* The invariant is what the run of each caller and the pool keep.         *)
THEOREM PoolIsKept == Spec => []IInv
<1>1. Init => IInv
  BY InitKeeps
<1>2. IInv /\ [Next]_vars => IInv'
  BY NextStep
<1> QED BY <1>1, <1>2, PTL DEF Spec

(* A worker is of the pool there is, what it runs is a task of a run that  *)
(* is not over, and the world's executor, if it is the host's, is a pool   *)
(* with workers (pool.rs, lib.rs): for any callers, threads and tasks.     *)
THEOREM PoolTypes == Spec => []TypeOK
<1>1. IInv => TypeOK
  <2>1. SUFFICES ASSUME IInv PROVE TypeOK
    OBVIOUS
  <2>2. ASSUME NEW w \in Workers, worker[w].does \in {"task", "takes"}
        PROVE  /\ run[worker[w].of].at # "out"
               /\ worker[w].does = "task" => worker[w].task \in 0..run[worker[w].of].tasks - 1
    <3>1. PICK c : c = worker[w].of
      OBVIOUS
    <3>2. c \in Callers /\ run[c].at # "out" /\ RunFacts(c)
      BY <2>1, <2>2, <3>1, PartRuns
    <3>3. worker[w].does = "task" => worker[w].task \in Nat /\ Runs(w, c)
      BY <2>1, <2>2, <3>1, PartRuns
    <3>4. worker[w].does = "task" => worker[w].task \in Nat /\ worker[w].task < run[c].tasks
      BY <3>2, <3>3 DEF RunFacts, TasksInv, Taken
    <3> QED BY <3>1, <3>2, <3>4 DEF RunFacts, RunRecord
  <2>3. ASSUME NEW j \in spawned
        PROVE  run[j.of].at # "out" /\ j.task \in 1..run[j.of].first - 1
    <3>1. PICK c : c = j.of
      OBVIOUS
    <3>2. c \in Callers /\ j.task \in Nat /\ j = [of |-> c, task |-> j.task]
      BY <2>1, <3>1 DEF IInv, TypeInv
    <3>3. run[c].at \notin {"out", "back"}
      BY <2>1, <3>1, <3>2 DEF IInv, RunInv, NoPart
    <3>4. RunFacts(c)
      BY <2>1, <3>2, <3>3, RunIs
    <3>5. Given(c, j.task)
      BY <3>2 DEF Given
    <3> QED BY <3>1, <3>2, <3>3, <3>4, <3>5 DEF RunFacts, TasksInv, RunRecord
  <2> QED BY <2>1, <2>2, <2>3 DEF TypeOK, IInv, PoolInv
<1> QED BY <1>1, PoolIsKept, PTL

(* Each task of a run is run once, whichever thread takes it, and the run  *)
(* returns when all have been (par.rs, Executor), also when other callers' *)
(* runs are under way on the same workers: for any callers, threads, tasks *)
(* of a run, runs and pools made one after the other.                      *)
THEOREM PoolImplements == Spec => ImplementsExecutor
<1>1. Init => Promise!Init
  BY InitKeeps
<1>2. IInv /\ [Next]_vars => [Promise!Next]_(Promise!vars)
  BY NextStep
<1> QED BY <1>1, <1>2, PoolIsKept, PTL DEF Spec, ImplementsExecutor, Promise!Spec
=============================================================================
