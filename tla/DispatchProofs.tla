--------------------------- MODULE DispatchProofs ---------------------------
(***************************************************************************)
(* The inductive invariant of Dispatch and what follows from it, for every *)
(* plan and any number of threads.                                         *)
(*                                                                         *)
(* The counters say nothing by themselves: the invariant reads each as the *)
(* size of a set - done[g] of the blocks counted, published of the stages  *)
(* given a slot, finished of the stages closed - and the theorems follow   *)
(* from a set being all of another once their sizes are equal.             *)
(***************************************************************************)
EXTENDS DispatchRefinement, FiniteSetTheorems, TLAPS

(* A worker with a block in hand, between its claim and its kernel's end.  *)
Touch(w) == Running(w) \/ At(w, "caught")
Hand(w)  == <<stage[w], at[w]>>

(* A worker taking blocks of its stage, and one that completed its stage   *)
(* and is publishing what waited for it.                                   *)
Busy(w)     == Touch(w) \/ pc[w] \in {"forward", "back", "count"}
Handing(w)  == pc[w] \in {"release", "slot", "store"}
Closing(w)  == Handing(w) \/ At(w, "finish")

(* The blocks of a stage that are counted, those that ended and are in no  *)
(* worker's tally; the stages given a slot in ready; the stages counted.   *)
Counted(g) ==
  {k \in BlocksOf(g) :
     /\ <<g, k>> \in ended
     /\ \A w \in Workers : stage[w] = g => k \notin mine[w]}

Opened(g) ==
  /\ done[g - 1] = Blocks[g - 1]
  /\ \A w \in Workers : At(w, "release") => stage[w] # g - 1

Placed ==
  {g \in Stages :
     /\ g < opening /\ waits[g] = 0
     /\ \A w \in Workers : At(w, "slot") => stage[w] + 1 # g}

Closed ==
  {g \in Stages :
     /\ done[g] = Blocks[g]
     /\ \A w \in Workers : Closing(w) => stage[w] # g}

(* Once a block is taken its mark bars it from its stage for good.         *)
MarksInv ==
  \A b \in Block : begun[b] = 0 \/ (begun[b] = 1 /\ marks[Cell(b[1], b[2])] >= b[1])

(* Whose each block is: of one worker at most, in hand or in its tally.    *)
TallyInv ==
  /\ \A b \in ended : begun[b] = 1
  /\ \A w \in Workers :
       /\ \A k \in mine[w] : <<stage[w], k>> \in ended
       /\ mine[w] # {} => Busy(w) \/ At(w, "gone")
       /\ At(w, "count") => mine[w] # {}

TouchInv ==
  \A w \in Workers : Touch(w) => begun[Hand(w)] = 1 /\ Hand(w) \notin ended

ApartInv ==
  \A v, w \in Workers : v # w /\ stage[v] = stage[w] =>
    /\ mine[v] \cap mine[w] = {}
    /\ Touch(v) /\ Touch(w) => at[v] # at[w]

CountInv == \A g \in Stages : done[g] = Cardinality(Counted(g))

(* One worker at most completes each stage.                                *)
CloseInv ==
  /\ \A w \in Workers :
       /\ Closing(w) => done[stage[w]] = Blocks[stage[w]]
       /\ Handing(w) => HasNext(stage[w])
  /\ \A v, w \in Workers : v # w /\ Closing(v) /\ Closing(w) => stage[v] # stage[w]

(* A stage's count of what it waits for falls when the stage before is     *)
(* done, and no stage is published, looked at or begun before that.        *)
WaitsInv ==
  /\ \A g \in Stages : waits[g] = IF HasPrev(g) /\ ~Opened(g) THEN 1 ELSE 0
  /\ \A i \in Stages : ready[i] # Unpublished => waits[ready[i]] = 0
  /\ \A w \in Workers :
       /\ Busy(w) \/ Closing(w) => waits[stage[w]] = 0
       /\ pc[w] \in {"slot", "store"} => waits[stage[w] + 1] = 0
  /\ \A b \in Block : begun[b] # 0 => waits[b[1]] = 0

PlacedInv ==
  /\ published = Cardinality(Placed)
  /\ opening # N + 1 => \A w \in Workers : At(w, "away")

FinishInv == finished = Cardinality(Closed)

(* Why a worker left, and what dispatch comes back with.                   *)
EndInv ==
  /\ failed <=> panic # NoBlock
  /\ panic # NoBlock =>
       /\ panic \in Block \ ended /\ begun[panic] = 1
       /\ \A w \in Workers : Touch(w) => Hand(w) # panic
  /\ \A w \in Workers : At(w, "gone") => finished = N \/ failed
  /\ result # "none" => \A w \in Workers : At(w, "gone")
  /\ result = "ok" => finished = N
  /\ result = "panic" => panic # NoBlock

IInv ==
  /\ TypeOK
  /\ MarksInv /\ TallyInv /\ TouchInv /\ ApartInv /\ CountInv /\ CloseInv
  /\ WaitsInv /\ PlacedInv /\ FinishInv /\ EndInv
-----------------------------------------------------------------------------
LEMMA BlockDef ==
  /\ \A g \in Stages : \A k \in BlocksOf(g) : <<g, k>> \in Block
  /\ \A b \in Block : /\ b[1] \in Stages /\ b[2] \in BlocksOf(b[1])
                      /\ b = <<b[1], b[2]>>
BY DEF Block

LEMMA StageFacts ==
  ASSUME NEW g \in Stages
  PROVE  /\ g \in Nat \ {0} /\ g <= N /\ N \in Nat \ {0}
         /\ Blocks[g] \in Nat \ {0}
         /\ BlocksOf(g) \subseteq Nat
         /\ IsFiniteSet(BlocksOf(g)) /\ Cardinality(BlocksOf(g)) = Blocks[g]
         /\ \A k \in BlocksOf(g) : Cell(g, k) \in 0..Cells - 1
<1>1. Blocks[g] \in Nat \ {0} /\ g \in Nat \ {0} /\ g <= N /\ N \in Nat \ {0}
  BY PlanAssumption DEF Stages
<1>2. IsFiniteSet(0..Blocks[g] - 1) /\ Cardinality(0..Blocks[g] - 1) = Blocks[g]
  <2>1. Blocks[g] - 1 \in Int /\ 0 \in Int /\ ~(0 > Blocks[g] - 1)
    BY <1>1
  <2>2. /\ IsFiniteSet(0..Blocks[g] - 1)
        /\ Cardinality(0..Blocks[g] - 1) = Blocks[g] - 1 - 0 + 1
    BY <2>1, FS_Interval
  <2>. QED  BY <1>1, <2>2
<1>3. \A k \in BlocksOf(g) : Cell(g, k) \in 0..Cells - 1
  BY <1>1, RunAssumption DEF BlocksOf, Cell
<1>. QED  BY <1>1, <1>2, <1>3 DEF BlocksOf

(* A worker starts at a block of the stage, however many threads there are. *)
LEMMA FirstBlockType ==
  ASSUME NEW w \in Workers, NEW n \in Nat \ {0}
  PROVE  FirstBlock(w, n) \in 0..n - 1
<1>1. w \in Nat /\ w < Threads /\ Threads \in Nat \ {0}
  BY RunAssumption DEF Workers
<1>2. CASE n <= Threads
  BY <1>1, <1>2 DEF FirstBlock
<1>3. CASE n > Threads
  <2> DEFINE per == n \div Threads
             rest == n % Threads
             least == IF rest < w THEN rest ELSE w
  <2>1. per \in Nat /\ rest \in 0..Threads - 1 /\ n = Threads * per + rest
    BY <1>1
  <2>2. per >= 1
    BY <1>1, <1>3, <2>1
  <2>3. per * w <= per * (Threads - 1)
    BY <1>1, <2>1
  <2>4. per * (Threads - 1) = Threads * per - per
    BY <1>1, <2>1
  <2>5. per * w \in Nat /\ least \in Nat /\ least <= rest
    BY <1>1, <2>1
  <2>6. per * w + least <= Threads * per - per + rest
    <3> HIDE DEF per, rest, least
    <3> QED  BY <1>1, <2>1, <2>3, <2>4, <2>5
  <2>7. per * w + least \in 0..n - 1
    <3> HIDE DEF per, rest, least
    <3> QED  BY <1>1, <2>1, <2>2, <2>5, <2>6
  <2>. QED  BY <1>1, <1>3, <2>7 DEF FirstBlock
<1>. QED  BY <1>1, <1>2, <1>3

LEMMA StepTypes ==
  ASSUME NEW g \in Stages, NEW k \in BlocksOf(g)
  PROVE  Forward(g, k) \in BlocksOf(g) /\ Back(g, k) \in BlocksOf(g)
BY StageFacts DEF Forward, Back, BlocksOf

LEMMA SetsFinite ==
  /\ \A g \in Stages :
       /\ IsFiniteSet(Counted(g)) /\ Counted(g) \subseteq BlocksOf(g)
       /\ Cardinality(Counted(g)) \in 0..Blocks[g]
       /\ Cardinality(Counted(g)) = Blocks[g] => Counted(g) = BlocksOf(g)
  /\ IsFiniteSet(Placed) /\ Cardinality(Placed) \in 0..N
  /\ IsFiniteSet(Closed) /\ Cardinality(Closed) \in 0..N
  /\ Cardinality(Closed) = N => Closed = Stages
<1>1. ASSUME NEW g \in Stages
      PROVE  /\ IsFiniteSet(Counted(g)) /\ Counted(g) \subseteq BlocksOf(g)
             /\ Cardinality(Counted(g)) \in 0..Blocks[g]
             /\ Cardinality(Counted(g)) = Blocks[g] => Counted(g) = BlocksOf(g)
  <2>1. Counted(g) \in SUBSET BlocksOf(g)
    BY DEF Counted
  <2>. QED  BY <2>1, StageFacts, FS_Subset, FS_CardinalityType
<1>2. IsFiniteSet(Stages) /\ Cardinality(Stages) = N
  BY PlanAssumption, FS_Interval DEF Stages
<1>3. Placed \in SUBSET Stages /\ Closed \in SUBSET Stages
  BY DEF Placed, Closed
<1>4. N \in Nat
  BY PlanAssumption
<1>5. IsFiniteSet(Placed) /\ Cardinality(Placed) \in 0..N
  BY <1>2, <1>3, <1>4, FS_Subset, FS_CardinalityType
<1>6. /\ IsFiniteSet(Closed) /\ Cardinality(Closed) \in 0..N
      /\ Cardinality(Closed) = N => Closed = Stages
  BY <1>2, <1>3, <1>4, FS_Subset, FS_CardinalityType
<1>. QED  BY <1>1, <1>5, <1>6

LEMMA HandsInBlock ==
  ASSUME TypeOK
  PROVE  /\ \A w \in Workers : Hand(w) \in Block /\ stage[w] \in Stages /\ stage[w] \in Nat \ {0}
         /\ NoBlock \notin Block /\ 0 \notin Stages
BY BlockDef, StageFacts DEF TypeOK, Hand, NoBlock, Stages

-----------------------------------------------------------------------------
(* A worker takes a block: nobody took it before in this stage, for the    *)
(* mark would bar it, so nobody else has it in hand.                       *)
LEMMA ClaimKeeps ==
  ASSUME IInv, NEW w \in Workers,
         NEW here \in {"forward", "back"}, NEW running \in {"runForward", "runBack"},
         Claim(w, here, running)
  PROVE  IInv'
<1> DEFINE b == Hand(w)
           c == Cell(stage[w], at[w])
<1>1. /\ b \in Block /\ b[1] = stage[w] /\ b[2] = at[w]
      /\ stage[w] \in Stages /\ at[w] \in BlocksOf(stage[w])
      /\ c \in 0..Cells - 1
  BY HandsInBlock, StageFacts DEF IInv, TypeOK, Hand
<1>2. /\ marks[c] \in 0..N /\ marks[c] < stage[w] /\ stage[w] \in 0..N
      /\ begun[b] = 0 /\ b \notin ended
  <2>1. marks[c] < stage[w]
    BY DEF Claim, Mine
  <2>2. marks[c] \in 0..N /\ stage[w] \in 0..N
    BY <1>1, StageFacts DEF IInv, TypeOK
  <2>3. ~(marks[c] >= stage[w])
    BY <2>1, <2>2, StageFacts
  <2>. QED  BY <1>1, <2>1, <2>2, <2>3 DEF IInv, MarksInv, TallyInv
<1>3. /\ begun' = [begun EXCEPT ![b] = 1]
      /\ marks' = [marks EXCEPT ![c] = stage[w]]
      /\ pc' = [pc EXCEPT ![w] = running] /\ pc[w] = here
      /\ UNCHANGED <<waits, done, ready, published, finished, failed, panic, caller,
                     from, seen, stage, at, slot, mine, ended>>
  <2>1. begun' = [begun EXCEPT ![b] = begun[b] + 1]
    BY DEF Claim, Hand
  <2>2. begun' = [begun EXCEPT ![b] = 1]
    BY <1>2, <2>1
  <2>3. marks' = [marks EXCEPT ![c] = stage[w]]
    BY DEF Claim
  <2>4. UNCHANGED <<waits, done, ready, published, finished, failed, panic, caller,
                    from, seen, stage, at, slot, mine, ended>>
    BY DEF Claim
  <2>. QED  BY <2>2, <2>3, <2>4 DEF Claim, Goto, At
<1>4. /\ Touch(w)' /\ ~Touch(w) /\ Busy(w) /\ Busy(w)' /\ ~Closing(w)' /\ ~Closing(w)
      /\ \A v \in Workers : v # w => pc'[v] = pc[v]
      /\ \A v \in Workers : Hand(v)' = Hand(v)
  BY <1>3 DEF Touch, Busy, Closing, Handing, Running, At, Hand, IInv, TypeOK
<1>5. TypeOK'
  <2>1. marks' \in [0..Cells - 1 -> 0..N] /\ begun' \in [Block -> Nat]
        /\ pc' \in [Workers -> Labels]
    BY <1>1, <1>2, <1>3 DEF IInv, TypeOK, Labels
  <2>. QED  BY <1>3, <2>1 DEF IInv, TypeOK, caller
<1>6. MarksInv'
  <2>1. \A m \in 0..Cells - 1 : marks'[m] >= marks[m]
    <3> SUFFICES ASSUME NEW m \in 0..Cells - 1  PROVE marks'[m] >= marks[m]
      OBVIOUS
    <3>1. N \in Nat /\ marks \in [0..Cells - 1 -> 0..N]
      BY PlanAssumption DEF IInv, TypeOK
    <3>2. marks'[m] = IF m = c THEN stage[w] ELSE marks[m]
      BY <1>3, <3>1
    <3>. QED  BY <1>2, <3>1, <3>2
  <2>2. \A d \in Block : Cell(d[1], d[2]) \in 0..Cells - 1
    BY BlockDef, StageFacts
  <2>3. marks'[c] >= b[1]
    BY <1>1, <1>3, StageFacts DEF IInv, TypeOK
  <2>4. ASSUME NEW d \in Block, d # b, begun[d] # 0
        PROVE  begun'[d] = 1 /\ marks'[Cell(d[1], d[2])] >= d[1]
    <3>1. begun[d] = 1 /\ marks[Cell(d[1], d[2])] >= d[1]
      BY <2>4 DEF IInv, MarksInv
    <3>2. d[1] \in Nat /\ Cell(d[1], d[2]) \in 0..Cells - 1
      BY <2>2, BlockDef, StageFacts
    <3>3. marks'[Cell(d[1], d[2])] \in 0..N /\ marks[Cell(d[1], d[2])] \in 0..N
      BY <1>1, <1>2, <1>3, <3>2 DEF IInv, TypeOK
    <3>4. marks'[Cell(d[1], d[2])] >= d[1]
      BY <2>1, <3>1, <3>2, <3>3
    <3>. QED  BY <1>1, <1>3, <2>4, <3>1, <3>4 DEF IInv, TypeOK
  <2>5. \A d \in Block : d # b => begun'[d] = begun[d]
    BY <1>1, <1>3 DEF IInv, TypeOK
  <2>6. begun'[b] = 1
    BY <1>1, <1>3 DEF IInv, TypeOK
  <2>. QED
    BY <1>1, <2>3, <2>4, <2>5, <2>6 DEF MarksInv
<1>7. TallyInv'
  BY <1>1, <1>2, <1>3, <1>4 DEF IInv, TallyInv, TypeOK, At, Busy, Touch, Running
<1>8. TouchInv'
  <2>1. \A v \in Workers : v # w /\ Touch(v)' => begun[Hand(v)] = 1 /\ Hand(v) \notin ended
    BY <1>4 DEF IInv, TouchInv, Touch, Running, At
  <2>2. \A v \in Workers : begun[Hand(v)] = 1 => begun'[Hand(v)] = 1
    BY <1>1, <1>3, HandsInBlock DEF IInv, TypeOK
  <2>3. begun'[Hand(w)] = 1
    BY <1>1, <1>3 DEF IInv, TypeOK
  <2>. QED  BY <1>2, <1>3, <1>4, <2>1, <2>2, <2>3 DEF TouchInv
<1>9. ApartInv'
  <2>1. \A v \in Workers : Touch(v) => Hand(v) # b
    BY <1>2 DEF IInv, TouchInv
  <2>2. \A v \in Workers : v # w => Touch(v)' = Touch(v)
    BY <1>4 DEF Touch, Running, At
  <2>. QED  BY <1>3, <2>1, <2>2 DEF IInv, ApartInv, Hand
<1>10. CountInv'
  BY <1>3 DEF IInv, CountInv, Counted
<1>11. CloseInv'
  BY <1>3, <1>4 DEF IInv, CloseInv, Closing, Handing, At, TypeOK
<1>12. WaitsInv'
  <2>1. waits[b[1]] = 0
    BY <1>1, <1>4 DEF IInv, WaitsInv
  <2>. QED
    BY <1>1, <1>3, <1>4, <2>1 DEF IInv, WaitsInv, Opened, Busy, Touch, Running, Closing, Handing, At, TypeOK
<1>13. PlacedInv'
  BY <1>3, <1>4 DEF IInv, PlacedInv, Placed, At, TypeOK, caller
<1>14. FinishInv'
  BY <1>3, <1>4 DEF IInv, FinishInv, Closed, Closing, Handing, At, TypeOK
<1>15. EndInv'
  <2>1. panic # NoBlock => panic # b
    BY <1>2 DEF IInv, EndInv
  <2>. QED
    BY <1>1, <1>2, <1>3, <1>4, <2>1 DEF IInv, EndInv, Touch, Running, At, TypeOK, caller
<1>. QED
  BY <1>5, <1>6, <1>7, <1>8, <1>9, <1>10, <1>11, <1>12, <1>13, <1>14, <1>15 DEF IInv

-----------------------------------------------------------------------------
(* The kernel of the block in hand returns: the block moves from the hand  *)
(* to the tally, so what is counted stays.                                 *)
LEMMA ReturnKeeps ==
  ASSUME IInv, NEW w \in Workers,
         NEW running \in {"runForward", "runBack"}, NEW back \in {"forward", "back"},
         NEW next \in BlocksOf(stage[w]),
         Return(w, running, back, next)
  PROVE  IInv'
<1> DEFINE b == Hand(w)
<1>1. /\ b \in Block /\ b = <<stage[w], at[w]>>
      /\ stage[w] \in Stages /\ at[w] \in BlocksOf(stage[w]) /\ at[w] \in Nat
  BY HandsInBlock, StageFacts DEF IInv, TypeOK, Hand
<1>2. /\ Touch(w) /\ Busy(w) /\ ~Closing(w) /\ ~At(w, "gone") /\ ~At(w, "release") /\ ~At(w, "slot")
      /\ ~At(w, "away")
  BY DEF Return, Touch, Busy, Closing, Handing, Running, At
<1>3. begun[b] = 1 /\ b \notin ended /\ \A v \in Workers : at[w] \in mine[v] => stage[v] # stage[w]
  BY <1>1, <1>2 DEF IInv, TouchInv, TallyInv, Hand
<1>4. /\ mine' = [mine EXCEPT ![w] = mine[w] \union {at[w]}]
      /\ ended' = ended \union {b}
      /\ at' = [at EXCEPT ![w] = next]
      /\ pc' = [pc EXCEPT ![w] = back]
  BY DEF Return, Hand, Goto
<1>5. UNCHANGED <<waits, done, marks, ready, published, finished, failed, panic,
                  opening, result, from, seen, stage, slot, begun>>
  BY DEF Return, shared, caller
<1>6. /\ ~Touch(w)' /\ Busy(w)' /\ ~Closing(w)' /\ ~At(w, "gone")' /\ ~At(w, "release")' /\ ~At(w, "slot")'
      /\ ~At(w, "count")'
      /\ \A v \in Workers : v # w => pc'[v] = pc[v] /\ at'[v] = at[v] /\ mine'[v] = mine[v]
      /\ mine'[w] = mine[w] \union {at[w]}
  BY <1>4 DEF Touch, Busy, Closing, Handing, Running, At, IInv, TypeOK
<1>7. TypeOK'
  <2>1. \A v \in Workers : at'[v] \in BlocksOf(stage[v]) /\ mine'[v] \subseteq BlocksOf(stage[v])
    BY <1>1, <1>4, <1>6 DEF IInv, TypeOK
  <2>2. next \in Nat
    BY <1>1, StageFacts
  <2>3. at' \in [Workers -> Nat] /\ pc' \in [Workers -> Labels]
    BY <1>4, <2>2 DEF IInv, TypeOK, Labels
  <2>4. mine' \in [Workers -> SUBSET Nat]
    BY <1>1, <1>4 DEF IInv, TypeOK
  <2>. QED  BY <1>1, <1>4, <1>5, <2>1, <2>3, <2>4 DEF IInv, TypeOK
<1>8. MarksInv'
  BY <1>5 DEF IInv, MarksInv
<1>9. TallyInv'
  BY <1>1, <1>3, <1>4, <1>5, <1>6 DEF IInv, TallyInv, Busy, Touch, Running, At
<1>10. TouchInv'
  <2>1. \A v \in Workers : v # w /\ Touch(v) => Hand(v) # b
    BY <1>1, <1>2 DEF IInv, ApartInv, Hand
  <2>. QED  BY <1>4, <1>5, <1>6, <2>1 DEF IInv, TouchInv, Hand, Touch, Running, At
<1>11. ApartInv'
  <2>1. \A u, v \in Workers : u # v /\ stage[u] = stage[v] => mine'[u] \cap mine'[v] = {}
    BY <1>3, <1>6 DEF IInv, ApartInv
  <2>. QED  BY <1>5, <1>6, <2>1 DEF IInv, ApartInv, Touch, Running, At
<1>12. CountInv'
  <2> SUFFICES ASSUME NEW g \in Stages, NEW k \in BlocksOf(g)
               PROVE  k \in Counted(g)' <=> k \in Counted(g)
    BY <1>5 DEF IInv, CountInv, Counted
  <2>1. CASE <<g, k>> = b
    BY <1>1, <1>3, <1>4, <1>5, <1>6, <2>1 DEF Counted
  <2>2. CASE <<g, k>> # b
    BY <1>1, <1>4, <1>5, <1>6, <2>2 DEF Counted
  <2>. QED  BY <2>1, <2>2
<1>13. CloseInv'
  BY <1>5, <1>6 DEF IInv, CloseInv, Closing, Handing, At
<1>14. WaitsInv'
  BY <1>2, <1>5, <1>6 DEF IInv, WaitsInv, Opened, Busy, Touch, Running, Closing, Handing, At
<1>15. PlacedInv'
  BY <1>2, <1>5, <1>6 DEF IInv, PlacedInv, Placed, At
<1>16. FinishInv'
  BY <1>5, <1>6, <1>2 DEF IInv, FinishInv, Closed, Closing, Handing, At
<1>17. EndInv'
  BY <1>1, <1>2, <1>3, <1>4, <1>5, <1>6 DEF IInv, EndInv, Touch, Running, Hand, At
<1>. QED
  BY <1>7, <1>8, <1>9, <1>10, <1>11, <1>12, <1>13, <1>14, <1>15, <1>16, <1>17 DEF IInv

-----------------------------------------------------------------------------
(* A worker looks at the next published stage: its tally is empty, and the *)
(* stage was published because what it waits for is done.                  *)
LEMMA ScanKeeps ==
  ASSUME IInv, NEW w \in Workers, Scan(w)
  PROVE  IInv'
<1> DEFINE found == from[w] <= seen[w] /\ ready[from[w]] # Unpublished
           g == ready[from[w]]
<1>1. /\ mine[w] = {} /\ ~Touch(w) /\ ~Busy(w) /\ ~Closing(w) /\ ~At(w, "gone")
      /\ ~At(w, "release") /\ ~At(w, "slot") /\ ~At(w, "away")
  BY DEF Scan, IInv, TallyInv, Touch, Busy, Closing, Handing, Running, At
<1>2. UNCHANGED <<waits, done, marks, ready, published, finished, failed, panic,
                  opening, result, seen, slot, mine, begun, ended>>
  BY DEF Scan, shared, caller, history
<1>3. CASE ~found
  <2>1. /\ pc' = [pc EXCEPT ![w] = "check"]
        /\ UNCHANGED <<stage, at, from>>
    BY <1>3 DEF Scan, Goto
  <2>2. /\ ~Touch(w)' /\ ~Busy(w)' /\ ~Closing(w)' /\ ~At(w, "gone")' /\ ~At(w, "count")'
        /\ ~At(w, "release")' /\ ~At(w, "slot")'
        /\ \A v \in Workers : v # w => pc'[v] = pc[v]
    BY <2>1 DEF Touch, Busy, Closing, Handing, Running, At, IInv, TypeOK
  <2>3. TypeOK' /\ MarksInv' /\ CountInv'
    BY <1>2, <2>1 DEF IInv, TypeOK, MarksInv, CountInv, Counted, Labels
  <2>4. TallyInv' /\ TouchInv' /\ ApartInv'
    BY <1>1, <1>2, <2>1, <2>2 DEF IInv, TallyInv, TouchInv, ApartInv, Hand, Busy, Touch, Running, At
  <2>5. CloseInv' /\ FinishInv' /\ PlacedInv' /\ WaitsInv'
    <3>1. CloseInv' /\ FinishInv'
      <4>1. \A v \in Workers : (Closing(v)' <=> Closing(v)) /\ (Handing(v)' <=> Handing(v))
        BY <1>1, <2>2 DEF Closing, Handing, At
      <4>2. Closed' = Closed
        BY <1>2, <2>1, <4>1 DEF Closed
      <4>. QED  BY <1>2, <2>1, <4>1, <4>2 DEF IInv, CloseInv, FinishInv
    <3>2. PlacedInv'
      BY <1>1, <1>2, <2>1, <2>2 DEF IInv, PlacedInv, Placed, At
    <3>3. \A h \in Stages : Opened(h)' = Opened(h)
      BY <1>1, <1>2, <2>1, <2>2 DEF Opened, At
    <3>4. WaitsInv'
      BY <1>1, <1>2, <2>1, <2>2, <3>3 DEF IInv, WaitsInv, Busy, Touch, Running, Closing, Handing, At
    <3>. QED  BY <3>1, <3>2, <3>4
  <2>6. EndInv'
    BY <1>1, <1>2, <2>1, <2>2 DEF IInv, EndInv, Hand, Touch, Running, At
  <2>. QED  BY <2>3, <2>4, <2>5, <2>6 DEF IInv
<1>4. CASE found
  <2>1. /\ from[w] \in Stages /\ from[w] + 1 \in 1..N + 1
        /\ g \in Stages /\ waits[g] = 0
        /\ FirstBlock(w, Blocks[g]) \in BlocksOf(g) /\ FirstBlock(w, Blocks[g]) \in Nat
    <3>1. from[w] \in Stages /\ from[w] + 1 \in 1..N + 1
      <4>1. from[w] \in 1..N + 1 /\ seen[w] \in 0..N /\ N \in Nat
        BY PlanAssumption DEF IInv, TypeOK
      <4>. QED  BY <1>4, <4>1 DEF Stages
    <3>2. g \in 0..N /\ g # 0
      BY <1>4, <3>1 DEF IInv, TypeOK, Unpublished
    <3>3. g \in Stages
      BY <3>2, PlanAssumption DEF Stages
    <3>4. waits[g] = 0
      BY <1>4, <3>1 DEF IInv, WaitsInv
    <3>5. FirstBlock(w, Blocks[g]) \in BlocksOf(g)
      BY <3>3, StageFacts, FirstBlockType DEF BlocksOf
    <3>. QED  BY <3>1, <3>3, <3>4, <3>5, StageFacts
  <2>2. /\ pc' = [pc EXCEPT ![w] = "forward"]
        /\ stage' = [stage EXCEPT ![w] = g]
        /\ at' = [at EXCEPT ![w] = FirstBlock(w, Blocks[g])]
        /\ from' = [from EXCEPT ![w] = from[w] + 1]
    BY <1>4 DEF Scan, Goto
  <2>3. /\ ~Touch(w)' /\ Busy(w)' /\ ~Closing(w)' /\ ~At(w, "gone")' /\ ~At(w, "count")'
        /\ ~At(w, "release")' /\ ~At(w, "slot")'
        /\ stage'[w] = g /\ at'[w] = FirstBlock(w, Blocks[g])
        /\ \A v \in Workers : v # w => pc'[v] = pc[v] /\ stage'[v] = stage[v] /\ at'[v] = at[v]
    BY <2>2 DEF Touch, Busy, Closing, Handing, Running, At, IInv, TypeOK
  <2>4. TypeOK'
    <3>1. /\ pc' \in [Workers -> Labels] /\ stage' \in [Workers -> Stages]
          /\ at' \in [Workers -> Nat] /\ from' \in [Workers -> 1..N + 1]
      BY <2>1, <2>2 DEF IInv, TypeOK, Labels
    <3>2. \A v \in Workers : at'[v] \in BlocksOf(stage'[v]) /\ mine[v] \subseteq BlocksOf(stage'[v])
      BY <1>1, <2>1, <2>3 DEF IInv, TypeOK
    <3>. QED  BY <1>2, <3>1, <3>2 DEF IInv, TypeOK
  <2>5. MarksInv'
    BY <1>2 DEF IInv, MarksInv
  <2>6. CountInv'
    BY <1>1, <1>2, <2>3 DEF IInv, CountInv, Counted
  <2>7. TallyInv' /\ TouchInv'
    BY <1>1, <1>2, <2>3 DEF IInv, TallyInv, TouchInv, Hand, Busy, Touch, Running, At
  <2>8. ApartInv'
    BY <1>1, <1>2, <2>3 DEF IInv, ApartInv, Touch, Running, At
  <2>9. CloseInv'
    BY <1>1, <1>2, <2>3 DEF IInv, CloseInv, Closing, Handing, At
  <2>10. WaitsInv'
    <3>1. \A h \in Stages : Opened(h)' = Opened(h)
      BY <1>1, <1>2, <2>3 DEF Opened, At
    <3>. QED
      BY <1>1, <1>2, <2>1, <2>3, <3>1 DEF IInv, WaitsInv, Busy, Touch, Running, Closing, Handing, At
  <2>11. FinishInv'
    BY <1>1, <1>2, <2>3 DEF IInv, FinishInv, Closed, Closing, Handing, At
  <2>12. PlacedInv'
    BY <1>1, <1>2, <2>3 DEF IInv, PlacedInv, Placed, At
  <2>13. EndInv'
    BY <1>1, <1>2, <2>3 DEF IInv, EndInv, Hand, Touch, Running, At
  <2>. QED
    BY <2>4, <2>5, <2>6, <2>7, <2>8, <2>9, <2>10, <2>11, <2>12, <2>13 DEF IInv
<1>. QED  BY <1>3, <1>4

-----------------------------------------------------------------------------
(* Steps that move a worker on without touching blocks or counters.        *)
LEMMA MoveKeeps ==
  ASSUME IInv, NEW w \in Workers, NEW next \in BlocksOf(stage[w]), NEW to \in Labels,
         UNCHANGED <<shared, caller, from, stage, slot, mine, history>>,
         at' = [at EXCEPT ![w] = next],
         pc' = [pc EXCEPT ![w] = to],
         seen' = seen \/ seen' = [seen EXCEPT ![w] = published],
         ~Closing(w), ~Closing(w)', Touch(w)' => Touch(w) /\ next = at[w],
         Busy(w)' => Busy(w), mine[w] # {} => Busy(w)', At(w, "count")' => mine[w] # {},
         At(w, "away") => opening = N + 1,
         ~At(w, "gone"), At(w, "gone")' => finished = N \/ failed
  PROVE  IInv'
<1>1. UNCHANGED <<waits, done, marks, ready, published, finished, failed, panic,
                  opening, result, from, stage, slot, mine, begun, ended>>
  BY DEF shared, caller, history
<1>2. /\ \A v \in Workers : v # w => pc'[v] = pc[v] /\ at'[v] = at[v]
      /\ ~At(w, "release") /\ ~At(w, "slot") /\ ~At(w, "release")' /\ ~At(w, "slot")'
      /\ next \in Nat /\ at'[w] = next
  BY StageFacts DEF IInv, TypeOK, Closing, Handing, At
<1>3. TypeOK'
  <2>1. pc' \in [Workers -> Labels] /\ at' \in [Workers -> Nat] /\ seen' \in [Workers -> 0..N]
    BY <1>2 DEF IInv, TypeOK
  <2>2. \A v \in Workers : at'[v] \in BlocksOf(stage[v])
    BY <1>2 DEF IInv, TypeOK
  <2>. QED  BY <1>1, <2>1, <2>2 DEF IInv, TypeOK
<1>4. MarksInv' /\ CountInv'
  BY <1>1 DEF IInv, MarksInv, CountInv, Counted
<1>5. TallyInv'
  BY <1>1, <1>2 DEF IInv, TallyInv, Busy, Touch, Running, At
<1>6. TouchInv'
  BY <1>1, <1>2 DEF IInv, TouchInv, Hand, Touch, Running, At
<1>7. ApartInv'
  <2>1. \A v \in Workers : Touch(v)' => Touch(v) /\ at'[v] = at[v]
    BY <1>2 DEF Touch, Running, At
  <2>. QED  BY <1>1, <2>1 DEF IInv, ApartInv
<1>8. CloseInv' /\ FinishInv'
  <2>1. \A v \in Workers : (Closing(v)' <=> Closing(v)) /\ (Handing(v)' <=> Handing(v))
    BY <1>2 DEF Closing, Handing, At
  <2>2. Closed' = Closed
    BY <1>1, <2>1 DEF Closed
  <2>. QED  BY <1>1, <2>1, <2>2 DEF IInv, CloseInv, FinishInv
<1>9. PlacedInv'
  BY <1>1, <1>2 DEF IInv, PlacedInv, Placed, At
<1>10. WaitsInv'
  <2>1. \A h \in Stages : Opened(h)' = Opened(h)
    BY <1>1, <1>2 DEF Opened, At
  <2>. QED
    BY <1>1, <1>2, <2>1 DEF IInv, WaitsInv, Busy, Touch, Running, Closing, Handing, At
<1>11. EndInv'
  BY <1>1, <1>2 DEF IInv, EndInv, Hand, Touch, Running, At
<1>. QED
  BY <1>3, <1>4, <1>5, <1>6, <1>7, <1>8, <1>9, <1>10, <1>11 DEF IInv

LEMMA LocalKeeps ==
  ASSUME IInv, NEW w \in Workers,
         Come(w) \/ Check(w) \/ Look(w) \/ Turn(w) \/ Stop(w) \/ Panic(w)
  PROVE  IInv'
<1> USE DEF Goto, At, Touch, Running, Busy, Closing, Handing, Labels
<1>1. /\ stage[w] \in Stages /\ at[w] \in BlocksOf(stage[w])
      /\ at = [at EXCEPT ![w] = at[w]]
      /\ FirstBlock(w, Blocks[stage[w]]) \in BlocksOf(stage[w])
  BY StageFacts, FirstBlockType DEF IInv, TypeOK, BlocksOf
<1>2. Back(stage[w], FirstBlock(w, Blocks[stage[w]])) \in BlocksOf(stage[w])
  BY <1>1, StepTypes
<1>3. /\ pc \in [Workers -> Labels]
      /\ mine[w] # {} => Busy(w) \/ At(w, "gone")
  BY DEF IInv, TypeOK, TallyInv
<1>4. CASE Come(w)
  BY <1>1, <1>3, <1>4, MoveKeeps DEF Come
<1>5. CASE Check(w)
  BY <1>1, <1>3, <1>5, MoveKeeps DEF Check
<1>6. CASE Look(w)
  BY <1>1, <1>3, <1>6, MoveKeeps DEF Look
<1>7. CASE Turn(w)
  BY <1>1, <1>2, <1>3, <1>7, MoveKeeps DEF Turn
<1>8. CASE Stop(w)
  BY <1>1, <1>3, <1>8, MoveKeeps DEF Stop
<1>9. CASE Panic(w)
  BY <1>1, <1>3, <1>9, MoveKeeps DEF Panic
<1>. QED  BY <1>4, <1>5, <1>6, <1>7, <1>8, <1>9

-----------------------------------------------------------------------------
(* A panic is caught: the block never ends, and nobody else has it.        *)
LEMMA CaughtKeeps ==
  ASSUME IInv, NEW w \in Workers, Caught(w)
  PROVE  IInv'
<1>1. /\ Hand(w) \in Block \ ended /\ begun[Hand(w)] = 1 /\ Hand(w) # NoBlock
      /\ \A v \in Workers : v # w /\ Touch(v) => Hand(v) # Hand(w)
      /\ Touch(w) /\ ~Closing(w) /\ ~At(w, "away") /\ ~At(w, "gone")
      /\ ~At(w, "release") /\ ~At(w, "slot")
  <2>1. Touch(w) /\ Hand(w) \in Block /\ Hand(w) # NoBlock
    BY HandsInBlock DEF IInv, Caught, Touch
  <2>. QED
    BY <2>1 DEF IInv, TouchInv, ApartInv, Hand, Caught, Closing, Handing, At
<1>2. /\ UNCHANGED <<waits, done, marks, ready, published, finished,
                     opening, result, from, seen, stage, at, slot, mine, begun, ended>>
      /\ failed' = TRUE
      /\ panic' = IF panic = NoBlock THEN Hand(w) ELSE panic
      /\ pc' = [pc EXCEPT ![w] = "gone"]
  <2>1. UNCHANGED <<waits, done, marks, ready, published, finished,
                    opening, result, from, seen, stage, at, slot, mine, begun, ended>>
    BY DEF Caught, caller, history
  <2>2. panic' = IF panic = NoBlock THEN Hand(w) ELSE panic
    BY DEF Caught, Hand
  <2>. QED  BY <2>1, <2>2 DEF Caught, Goto
<1>3. /\ ~Touch(w)' /\ ~Busy(w)' /\ ~Closing(w)' /\ At(w, "gone")' /\ ~At(w, "count")'
      /\ ~At(w, "release")' /\ ~At(w, "slot")'
      /\ \A v \in Workers : v # w => pc'[v] = pc[v]
      /\ \A v \in Workers : (Closing(v)' <=> Closing(v)) /\ (Handing(v)' <=> Handing(v))
  BY <1>1, <1>2 DEF Touch, Busy, Closing, Handing, Running, At, IInv, TypeOK
<1>4. TypeOK'
  BY <1>1, <1>2 DEF IInv, TypeOK, Labels
<1>5. MarksInv' /\ CountInv'
  BY <1>2 DEF IInv, MarksInv, CountInv, Counted
<1>6. TallyInv'
  BY <1>2, <1>3 DEF IInv, TallyInv, Busy, Touch, Running, At
<1>7. TouchInv' /\ ApartInv'
  BY <1>2, <1>3 DEF IInv, TouchInv, ApartInv, Hand, Touch, Running, At
<1>8. CloseInv' /\ FinishInv'
  <2>1. Closed' = Closed
    BY <1>2, <1>3 DEF Closed
  <2>. QED  BY <1>2, <1>3, <2>1 DEF IInv, CloseInv, FinishInv
<1>9. PlacedInv'
  BY <1>1, <1>2, <1>3 DEF IInv, PlacedInv, Placed, At
<1>10. WaitsInv'
  <2>1. \A h \in Stages : Opened(h)' = Opened(h)
    BY <1>1, <1>2, <1>3 DEF Opened, At
  <2>. QED
    BY <1>2, <1>3, <2>1 DEF IInv, WaitsInv, Busy, Touch, Running, Closing, Handing, At
<1>11. EndInv'
  <2>1. /\ failed' <=> panic' # NoBlock
        /\ panic' \in Block \ ended' /\ begun'[panic'] = 1
    BY <1>1, <1>2 DEF IInv, EndInv
  <2>2. ASSUME NEW v \in Workers, Touch(v)'  PROVE Hand(v)' # panic'
    <3>1. v # w /\ Touch(v) /\ Hand(v)' = Hand(v)
      BY <1>2, <1>3, <2>2 DEF Touch, Running, At, Hand
    <3>. QED  BY <1>1, <1>2, <3>1 DEF IInv, EndInv
  <2>3. result' = "none"
    BY <1>1, <1>2 DEF IInv, EndInv, TypeOK
  <2>. QED  BY <1>2, <2>1, <2>2, <2>3 DEF EndInv
<1>. QED
  BY <1>4, <1>5, <1>6, <1>7, <1>8, <1>9, <1>10, <1>11 DEF IInv

-----------------------------------------------------------------------------
(* A stage counts fewer blocks than it has while a worker has a tally of   *)
(* it, so the worker whose count makes it whole is the only one.           *)
LEMMA TallyCounts ==
  ASSUME IInv, NEW w \in Workers, At(w, "count")
  PROVE  \E g \in Stages :
         /\ g = stage[w] /\ Busy(w) /\ waits[g] = 0
         /\ mine[w] \subseteq {k \in BlocksOf(g) : <<g, k>> \in ended}
         /\ Cardinality(Counted(g) \union mine[w]) = done[g] + Cardinality(mine[w])
         /\ Cardinality(mine[w]) \in Nat
         /\ done[g] + Cardinality(mine[w]) <= Blocks[g]
         /\ done[g] \in Nat /\ done[g] < Blocks[g] /\ Blocks[g] \in Nat
         /\ \A v \in Workers : Closing(v) => stage[v] # g
<1> DEFINE g == stage[w]
<1>1. g \in Stages /\ Busy(w) /\ waits[g] = 0 /\ mine[w] # {} /\ done[g] = Cardinality(Counted(g))
  BY DEF IInv, TypeOK, Busy, WaitsInv, TallyInv, At, CountInv
<1>2. mine[w] \subseteq {k \in BlocksOf(g) : <<g, k>> \in ended} /\ mine[w] \cap Counted(g) = {}
  BY DEF IInv, TypeOK, TallyInv, Counted
<1>3. Counted(g) \union mine[w] \in SUBSET BlocksOf(g) /\ mine[w] \in SUBSET BlocksOf(g)
  BY <1>2 DEF Counted
<1>4. /\ IsFiniteSet(mine[w]) /\ Cardinality(mine[w]) \in Nat /\ Cardinality(mine[w]) # 0
      /\ IsFiniteSet(Counted(g)) /\ Cardinality(Counted(g)) \in Nat
      /\ Cardinality(Counted(g) \union mine[w]) <= Blocks[g]
  BY <1>1, <1>3, StageFacts, SetsFinite, FS_Subset, FS_CardinalityType, FS_EmptySet
<1>5. Cardinality(Counted(g) \union mine[w]) = Cardinality(Counted(g)) + Cardinality(mine[w])
  <2>1. Counted(g) \cap mine[w] = {} /\ Cardinality({}) = 0
    BY <1>2, FS_EmptySet
  <2>2. Cardinality(Counted(g) \union mine[w])
          = Cardinality(Counted(g)) + Cardinality(mine[w]) - Cardinality(Counted(g) \cap mine[w])
    BY <1>4, FS_Union
  <2>3. Cardinality(Counted(g) \cap mine[w]) = 0
    BY <2>1
  <2>4. Cardinality(Counted(g) \union mine[w])
          = Cardinality(Counted(g)) + Cardinality(mine[w]) - 0
    BY <2>2, <2>3
  <2>. QED  BY <1>4, <2>4
<1>6. done[g] < Blocks[g]
  BY <1>1, <1>4, <1>5, StageFacts
<1>7. \A v \in Workers : Closing(v) => stage[v] # g
  BY <1>1, <1>4, <1>6, StageFacts DEF IInv, CloseInv
<1>8. Blocks[g] \in Nat
  BY <1>1, StageFacts
<1>. QED  BY <1>1, <1>2, <1>4, <1>5, <1>6, <1>7, <1>8

LEMMA CountKeeps ==
  ASSUME IInv, NEW w \in Workers, Count(w)
  PROVE  IInv'
<1>0. At(w, "count")
  BY DEF Count
<1>. PICK g \in Stages :
       /\ g = stage[w] /\ Busy(w) /\ waits[g] = 0
       /\ mine[w] \subseteq {k \in BlocksOf(g) : <<g, k>> \in ended}
       /\ Cardinality(Counted(g) \union mine[w]) = done[g] + Cardinality(mine[w])
       /\ Cardinality(mine[w]) \in Nat
       /\ done[g] + Cardinality(mine[w]) <= Blocks[g]
       /\ done[g] \in Nat /\ done[g] < Blocks[g] /\ Blocks[g] \in Nat
       /\ \A v \in Workers : Closing(v) => stage[v] # g
  BY <1>0, TallyCounts
<1> DEFINE n == done[g] + Cardinality(mine[w])
           to == IF n < Blocks[g] THEN "scan" ELSE IF HasNext(g) THEN "release" ELSE "finish"
<1>1. /\ g \in Stages /\ g = stage[w] /\ Busy(w) /\ waits[g] = 0 /\ At(w, "count")
      /\ mine[w] \subseteq {k \in BlocksOf(g) : <<g, k>> \in ended}
      /\ Cardinality(Counted(g) \union mine[w]) = n
      /\ n \in Nat /\ n <= Blocks[g] /\ Blocks[g] \in Nat
      /\ done[g] \in Nat /\ done[g] < Blocks[g]
      /\ \A v \in Workers : Closing(v) => stage[v] # g
  BY <1>0
<1>2. UNCHANGED <<waits, marks, ready, published, finished, failed, panic, opening,
                  result, from, seen, stage, at, slot, begun, ended>>
  BY DEF Count, caller, history
<1>3. /\ done' = [done EXCEPT ![g] = n] /\ done'[g] = n
      /\ \A h \in Stages : h # g => done'[h] = done[h]
      /\ mine' = [mine EXCEPT ![w] = {}] /\ mine'[w] = {}
      /\ \A v \in Workers : v # w => mine'[v] = mine[v]
  <2>1. done' = [done EXCEPT ![g] = n] /\ mine' = [mine EXCEPT ![w] = {}]
    BY DEF Count
  <2>. QED  BY <1>1, <2>1 DEF IInv, TypeOK
<1>4. pc' = [pc EXCEPT ![w] = to]
  BY <1>3 DEF Count, Goto
<1>5. /\ ~Touch(w)' /\ ~Busy(w)' /\ ~At(w, "gone")' /\ ~At(w, "count")' /\ ~At(w, "slot")'
      /\ ~Touch(w) /\ ~Closing(w) /\ ~At(w, "release") /\ ~At(w, "slot") /\ ~At(w, "gone")
      /\ ~At(w, "away") /\ ~(pc'[w] \in {"slot", "store"})
      /\ Closing(w)' => n = Blocks[g]
      /\ Handing(w)' => At(w, "release")' /\ HasNext(g)
      /\ n = Blocks[g] => Closing(w)' /\ (HasNext(g) => At(w, "release")')
      /\ \A v \in Workers : v # w => pc'[v] = pc[v]
  BY <1>1, <1>4 DEF Touch, Busy, Closing, Handing, Running, At, IInv, TypeOK
<1> HIDE DEF to
<1>6. TypeOK'
  <2>1. to \in Labels
    BY DEF to, Labels
  <2>2. pc' \in [Workers -> Labels]
    BY <1>4, <2>1 DEF IInv, TypeOK
  <2>3. done' \in [Stages -> Nat]
    BY <1>1, <1>3 DEF IInv, TypeOK
  <2>4. mine' \in [Workers -> SUBSET Nat] /\ \A v \in Workers : mine'[v] \subseteq BlocksOf(stage[v])
    BY <1>3 DEF IInv, TypeOK
  <2>. QED  BY <1>2, <2>2, <2>3, <2>4 DEF IInv, TypeOK
<1>7. MarksInv'
  BY <1>2 DEF IInv, MarksInv
<1>8. TallyInv'
  BY <1>2, <1>3, <1>5 DEF IInv, TallyInv, Busy, Touch, Running, At
<1>9. TouchInv' /\ ApartInv'
  <2>1. \A v \in Workers : (Touch(v)' => Touch(v)) /\ Hand(v)' = Hand(v)
    BY <1>2, <1>5 DEF Touch, Running, At, Hand
  <2>2. \A v \in Workers : mine'[v] \subseteq mine[v]
    BY <1>3
  <2>. QED  BY <1>2, <2>1, <2>2 DEF IInv, TouchInv, ApartInv
<1>10. CountInv'
  <2>1. ASSUME NEW k \in BlocksOf(g)
        PROVE  k \in Counted(g)' <=> k \in Counted(g) \union mine[w]
    BY <1>1, <1>2, <1>3 DEF IInv, ApartInv, Counted
  <2>2. Counted(g)' = Counted(g) \union mine[w]
    BY <1>1, <2>1 DEF Counted
  <2>3. ASSUME NEW h \in Stages, h # g  PROVE Counted(h)' = Counted(h)
    BY <1>1, <1>2, <1>3, <2>3 DEF Counted
  <2>4. Cardinality(Counted(g)') = done'[g]
    BY <1>1, <1>3, <2>2
  <2>5. ASSUME NEW h \in Stages  PROVE done'[h] = Cardinality(Counted(h)')
    <3>1. CASE h = g  BY <2>4, <3>1
    <3>2. CASE h # g  BY <1>3, <2>3, <3>2 DEF IInv, CountInv
    <3>. QED  BY <3>1, <3>2
  <2>. QED  BY <2>5 DEF CountInv
<1>11. CloseInv'
  <2>1. ASSUME NEW v \in Workers
        PROVE  /\ Closing(v)' => done'[stage[v]] = Blocks[stage[v]]
               /\ Handing(v)' => HasNext(stage[v])
    <3>1. CASE v = w
      BY <1>1, <1>3, <1>5, <3>1
    <3>2. CASE v # w
      <4>1. (Closing(v)' => Closing(v)) /\ (Handing(v)' => Handing(v)) /\ stage[v] \in Stages
        BY <1>5, <3>2 DEF Closing, Handing, At, IInv, TypeOK
      <4>. QED  BY <1>1, <1>3, <4>1 DEF IInv, CloseInv
    <3>. QED  BY <3>1, <3>2
  <2>2. ASSUME NEW u \in Workers, NEW v \in Workers, u # v, Closing(u)', Closing(v)'
        PROVE  stage[u] # stage[v]
    <3>1. \A x \in Workers : x # w /\ Closing(x)' => Closing(x)
      BY <1>5 DEF Closing, Handing, At
    <3>. QED  BY <1>1, <2>2, <3>1 DEF IInv, CloseInv
  <2>. QED  BY <1>2, <2>1, <2>2 DEF CloseInv
<1>12. \A h \in Stages : HasPrev(h) => (Opened(h)' <=> Opened(h))
  <2> SUFFICES ASSUME NEW h \in Stages, HasPrev(h)  PROVE Opened(h)' <=> Opened(h)
    OBVIOUS
  <2>1. h \in Nat /\ h - 1 \in Stages /\ h - 1 + 1 = h
    BY PlanAssumption DEF HasPrev, Stages
  <2>2. CASE h - 1 = g
    <3>1. HasNext(g)
      BY <2>1, <2>2 DEF HasNext, HasPrev
    <3>2. ~Opened(h)
      BY <1>1, <2>2 DEF Opened
    <3>3. ~Opened(h)'
      BY <1>1, <1>2, <1>3, <1>5, <2>2, <3>1 DEF Opened
    <3>. QED  BY <3>2, <3>3
  <2>3. CASE h - 1 # g
    BY <1>2, <1>3, <1>5, <2>1, <2>3 DEF Opened, At
  <2>. QED  BY <2>2, <2>3
<1>13. WaitsInv'
  BY <1>1, <1>2, <1>5, <1>12 DEF IInv, WaitsInv, Busy, Touch, Running, Closing, Handing, At
<1>14. PlacedInv'
  BY <1>2, <1>5 DEF IInv, PlacedInv, Placed, At
<1>15. FinishInv'
  <2>1. ASSUME NEW h \in Stages  PROVE h \in Closed' <=> h \in Closed
    <3>1. CASE h = g
      BY <1>1, <1>2, <1>3, <1>5, <3>1 DEF Closed
    <3>2. CASE h # g
      BY <1>2, <1>3, <1>5, <3>2 DEF Closed, Closing, Handing, At
    <3>. QED  BY <3>1, <3>2
  <2>2. Closed' = Closed
    BY <2>1 DEF Closed
  <2>. QED  BY <1>2, <2>2 DEF IInv, FinishInv
<1>16. EndInv'
  BY <1>2, <1>5 DEF IInv, EndInv, Hand, Touch, Running, At
<1>. QED
  BY <1>6, <1>7, <1>8, <1>9, <1>10, <1>11, <1>13, <1>14, <1>15, <1>16 DEF IInv

-----------------------------------------------------------------------------
(* The worker that completed a stage hands on to the next: one such worker *)
(* there is, and the next stage waits for just that.                       *)
LEMMA HandOn ==
  ASSUME IInv, NEW w \in Workers, Handing(w)
  PROVE  \E g \in Stages :
         /\ g = stage[w] /\ g \in Nat /\ HasNext(g) /\ HasPrev(g + 1)
         /\ g + 1 \in Stages /\ g + 1 - 1 = g /\ g + 1 # g
         /\ done[g] = Blocks[g] /\ opening = N + 1
         /\ \A v \in Workers : v # w /\ Closing(v) => stage[v] # g
         /\ ~Touch(w) /\ ~Busy(w) /\ Closing(w) /\ mine[w] = {}
         /\ ~At(w, "away") /\ ~At(w, "gone") /\ ~At(w, "count")
         /\ waits[g] = 0 /\ result = "none"
<1>1. stage[w] \in Stages /\ HasNext(stage[w]) /\ Closing(w) /\ done[stage[w]] = Blocks[stage[w]]
  BY DEF IInv, TypeOK, CloseInv, Closing
<1>2. /\ stage[w] \in Nat /\ stage[w] + 1 \in Stages /\ stage[w] + 1 - 1 = stage[w]
      /\ HasPrev(stage[w] + 1) /\ stage[w] + 1 # stage[w]
  BY <1>1 DEF HasNext, HasPrev, Stages
<1>3. /\ ~Touch(w) /\ ~Busy(w) /\ ~At(w, "away") /\ ~At(w, "gone") /\ ~At(w, "count")
  BY DEF Handing, Touch, Running, Busy, At
<1>4. mine[w] = {} /\ waits[stage[w]] = 0 /\ opening = N + 1 /\ result = "none"
  BY <1>1, <1>3 DEF IInv, TallyInv, WaitsInv, PlacedInv, EndInv, TypeOK
<1>5. \A v \in Workers : v # w /\ Closing(v) => stage[v] # stage[w]
  BY <1>1 DEF IInv, CloseInv
<1>. QED  BY <1>1, <1>2, <1>3, <1>4, <1>5

LEMMA ReleaseKeeps ==
  ASSUME IInv, NEW w \in Workers, Release(w)
  PROVE  IInv'
<1>0. At(w, "release") /\ Handing(w)
  BY DEF Release, Handing, At
<1>. PICK g \in Stages :
       /\ g = stage[w] /\ g \in Nat /\ HasNext(g) /\ HasPrev(g + 1)
       /\ g + 1 \in Stages /\ g + 1 - 1 = g /\ g + 1 # g
       /\ done[g] = Blocks[g] /\ opening = N + 1
       /\ \A v \in Workers : v # w /\ Closing(v) => stage[v] # g
       /\ ~Touch(w) /\ ~Busy(w) /\ Closing(w) /\ mine[w] = {}
       /\ ~At(w, "away") /\ ~At(w, "gone") /\ ~At(w, "count")
       /\ waits[g] = 0 /\ result = "none"
  BY <1>0, HandOn
<1>1. waits[g + 1] = 1
  BY <1>0 DEF IInv, WaitsInv, Opened
<1>2. UNCHANGED <<done, marks, ready, published, finished, failed, panic, opening,
                  result, from, seen, stage, at, slot, mine, begun, ended>>
  BY DEF Release, caller, history
<1>3. /\ waits' = [waits EXCEPT ![g + 1] = 0] /\ waits'[g + 1] = 0
      /\ \A h \in Stages : h # g + 1 => waits'[h] = waits[h]
  <2>1. waits' = [waits EXCEPT ![g + 1] = waits[g + 1] - 1]
    BY DEF Release
  <2>2. waits' = [waits EXCEPT ![g + 1] = 0]
    BY <1>1, <2>1
  <2>. QED  BY <2>2 DEF IInv, TypeOK
<1>4. pc' = [pc EXCEPT ![w] = "slot"]
  BY <1>1 DEF Release, Goto
<1>5. /\ ~Touch(w)' /\ ~Busy(w)' /\ Closing(w)' /\ Handing(w)' /\ At(w, "slot")' /\ ~At(w, "release")'
      /\ ~At(w, "gone")' /\ ~At(w, "count")' /\ ~At(w, "slot")
      /\ \A v \in Workers : v # w => pc'[v] = pc[v]
      /\ \A v \in Workers : (Closing(v)' <=> Closing(v)) /\ (Handing(v)' <=> Handing(v))
  BY <1>0, <1>4 DEF Touch, Busy, Closing, Handing, Running, At, IInv, TypeOK
<1>6. TypeOK'
  <2>1. waits' \in [Stages -> Int]
    BY <1>3 DEF IInv, TypeOK
  <2>2. pc' \in [Workers -> Labels]
    BY <1>4 DEF IInv, TypeOK, Labels
  <2>. QED  BY <1>2, <2>1, <2>2 DEF IInv, TypeOK
<1>7. MarksInv' /\ CountInv'
  BY <1>2 DEF IInv, MarksInv, CountInv, Counted
<1>8. TallyInv'
  BY <1>2, <1>5 DEF IInv, TallyInv, Busy, Touch, Running, At
<1>9. TouchInv' /\ ApartInv'
  BY <1>2, <1>5 DEF IInv, TouchInv, ApartInv, Hand, Touch, Running, At
<1>10. CloseInv' /\ FinishInv'
  <2>1. Closed' = Closed
    BY <1>2, <1>5 DEF Closed
  <2>. QED  BY <1>2, <1>5, <2>1 DEF IInv, CloseInv, FinishInv
<1>11. WaitsInv'
  <2>1. Opened(g + 1)'
    BY <1>2, <1>5 DEF Opened, At, Closing, Handing
  <2>2. ASSUME NEW h \in Stages, h # g + 1  PROVE Opened(h)' <=> Opened(h)
    <3>1. h - 1 # g
      BY <2>2 DEF Stages
    <3>. QED  BY <1>2, <1>5, <3>1 DEF Opened, At
  <2>3. \A h \in Stages : waits'[h] = IF HasPrev(h) /\ ~Opened(h)' THEN 1 ELSE 0
    BY <1>3, <2>1, <2>2 DEF IInv, WaitsInv
  <2>4. \A h \in Stages : waits[h] = 0 => waits'[h] = 0
    BY <1>3
  <2>5. \A i \in Stages : ready[i] # Unpublished => ready[i] \in Stages
    <3>1. \A i \in Stages : ready[i] \in 0..N
      BY DEF IInv, TypeOK
    <3>. QED  BY <3>1, PlanAssumption DEF Stages, Unpublished
  <2>6. \A i \in Stages : ready[i] # Unpublished => waits'[ready[i]] = 0
    BY <2>4, <2>5 DEF IInv, WaitsInv
  <2>7. \A b \in Block : begun[b] # 0 => waits'[b[1]] = 0
    BY <2>4, BlockDef DEF IInv, WaitsInv
  <2>8. ASSUME NEW v \in Workers
        PROVE  /\ Busy(v)' \/ Closing(v)' => waits'[stage[v]] = 0
               /\ pc'[v] \in {"slot", "store"} => waits'[stage[v] + 1] = 0
    <3>1. CASE v = w
      BY <1>3, <3>1
    <3>2. CASE v # w
      <4>1. stage[v] \in Stages /\ (Busy(v)' <=> Busy(v)) /\ (Closing(v)' <=> Closing(v))
            /\ (pc'[v] \in {"slot", "store"} => stage[v] + 1 \in Stages /\ waits[stage[v] + 1] = 0)
        BY <1>5, <3>2
           DEF IInv, TypeOK, WaitsInv, CloseInv, HasNext, Busy, Touch, Running, Closing, Handing, At
      <4>. QED  BY <2>4, <4>1 DEF IInv, WaitsInv
    <3>. QED  BY <3>1, <3>2
  <2>. QED  BY <1>2, <2>3, <2>6, <2>7, <2>8 DEF WaitsInv
<1>12. PlacedInv'
  <2>1. ASSUME NEW h \in Stages  PROVE h \in Placed' <=> h \in Placed
    <3>1. CASE h = g + 1
      BY <1>1, <1>2, <1>5, <3>1 DEF Placed
    <3>2. CASE h # g + 1
      BY <1>0, <1>2, <1>3, <1>5, <3>2 DEF Placed, At
    <3>. QED  BY <3>1, <3>2
  <2>2. Placed' = Placed
    BY <2>1 DEF Placed
  <2>. QED  BY <1>2, <1>5, <2>2 DEF IInv, PlacedInv
<1>13. EndInv'
  BY <1>2, <1>5 DEF IInv, EndInv, Hand, Touch, Running, At
<1>. QED
  BY <1>6, <1>7, <1>8, <1>9, <1>10, <1>11, <1>12, <1>13 DEF IInv

LEMMA SlotKeeps ==
  ASSUME IInv, NEW w \in Workers, Slot(w)
  PROVE  IInv'
<1>0. At(w, "slot") /\ Handing(w) /\ ~At(w, "release")
  BY DEF Slot, Handing, At
<1>. PICK g \in Stages :
       /\ g = stage[w] /\ g \in Nat /\ HasNext(g) /\ HasPrev(g + 1)
       /\ g + 1 \in Stages /\ g + 1 - 1 = g /\ g + 1 # g
       /\ done[g] = Blocks[g] /\ opening = N + 1
       /\ \A v \in Workers : v # w /\ Closing(v) => stage[v] # g
       /\ ~Touch(w) /\ ~Busy(w) /\ Closing(w) /\ mine[w] = {}
       /\ ~At(w, "away") /\ ~At(w, "gone") /\ ~At(w, "count")
       /\ waits[g] = 0 /\ result = "none"
  BY <1>0, HandOn
<1>1. waits[g + 1] = 0
  BY <1>0 DEF IInv, WaitsInv, At
<1>2. /\ UNCHANGED <<waits, done, marks, ready, finished, failed, panic, opening,
                     result, from, seen, stage, at, mine, begun, ended>>
      /\ published' = published + 1 /\ slot' = [slot EXCEPT ![w] = published + 1]
      /\ pc' = [pc EXCEPT ![w] = "store"]
  <2>1. UNCHANGED <<waits, done, marks, ready, finished, failed, panic, opening,
                    result, from, seen, stage, at, mine, begun, ended>>
    BY DEF Slot, caller, history
  <2>. QED  BY <2>1 DEF Slot, Goto
<1>3. /\ ~Touch(w)' /\ ~Busy(w)' /\ Closing(w)' /\ Handing(w)' /\ ~At(w, "slot")' /\ At(w, "store")'
      /\ ~At(w, "release")' /\ ~At(w, "gone")' /\ ~At(w, "count")'
      /\ \A v \in Workers : v # w => pc'[v] = pc[v]
      /\ \A v \in Workers : (Closing(v)' <=> Closing(v)) /\ (Handing(v)' <=> Handing(v))
  BY <1>0, <1>2 DEF Touch, Busy, Closing, Handing, Running, At, IInv, TypeOK
<1>4. Placed' = Placed \union {g + 1} /\ g + 1 \notin Placed
  <2>1. ASSUME NEW h \in Stages  PROVE h \in Placed' <=> h \in Placed \/ h = g + 1
    <3>1. CASE h = g + 1
      <4>1. \A v \in Workers : At(v, "slot")' => stage[v] + 1 # g + 1
        <5>1. \A v \in Workers : At(v, "slot")' => v # w /\ Closing(v) /\ stage[v] \in Nat
          BY <1>3, StageFacts DEF At, Closing, Handing, IInv, TypeOK
        <5>. QED  BY <5>1
      <4>2. h < opening
        BY <3>1, StageFacts, PlanAssumption
      <4>. QED  BY <1>1, <1>2, <3>1, <4>1, <4>2 DEF Placed
    <3>2. CASE h # g + 1
      BY <1>2, <1>3, <3>2 DEF Placed, At
    <3>. QED  BY <3>1, <3>2
  <2>2. g + 1 \notin Placed
    BY <1>0 DEF Placed
  <2>. QED  BY <2>1, <2>2 DEF Placed
<1>5. published' = Cardinality(Placed') /\ published' \in Stages /\ published' \in 0..N
  <2>1. published = Cardinality(Placed) /\ IsFiniteSet(Placed) /\ published \in 0..N
    BY SetsFinite DEF IInv, PlacedInv
  <2>2. Placed' \in SUBSET Stages /\ IsFiniteSet(Stages) /\ Cardinality(Stages) = N /\ N \in Nat
    BY PlanAssumption, FS_Interval DEF Placed, Stages
  <2>3. Cardinality(Placed') = published + 1
    BY <1>4, <2>1, FS_AddElement
  <2>4. Cardinality(Placed') <= N
    BY <2>2, FS_Subset
  <2>. QED  BY <1>2, <2>1, <2>2, <2>3, <2>4 DEF Stages
<1>6. TypeOK'
  <2>1. slot' \in [Workers -> Stages]
    BY <1>2, <1>5 DEF IInv, TypeOK
  <2>2. pc' \in [Workers -> Labels]
    BY <1>2 DEF IInv, TypeOK, Labels
  <2>. QED  BY <1>2, <1>5, <2>1, <2>2 DEF IInv, TypeOK
<1>7. MarksInv' /\ CountInv'
  BY <1>2 DEF IInv, MarksInv, CountInv, Counted
<1>8. TallyInv'
  BY <1>2, <1>3 DEF IInv, TallyInv, Busy, Touch, Running, At
<1>9. TouchInv' /\ ApartInv'
  BY <1>2, <1>3 DEF IInv, TouchInv, ApartInv, Hand, Touch, Running, At
<1>10. CloseInv' /\ FinishInv'
  <2>1. Closed' = Closed
    BY <1>2, <1>3 DEF Closed
  <2>. QED  BY <1>2, <1>3, <2>1 DEF IInv, CloseInv, FinishInv
<1>11. WaitsInv'
  <2>1. \A h \in Stages : Opened(h)' = Opened(h)
    BY <1>0, <1>2, <1>3 DEF Opened, At
  <2>. QED
    BY <1>1, <1>2, <1>3, <2>1 DEF IInv, WaitsInv, Busy, Touch, Running, Closing, Handing, At
<1>12. PlacedInv'
  BY <1>2, <1>5 DEF PlacedInv
<1>13. EndInv'
  BY <1>2, <1>3 DEF IInv, EndInv, Hand, Touch, Running, At
<1>. QED
  BY <1>6, <1>7, <1>8, <1>9, <1>10, <1>11, <1>12, <1>13 DEF IInv

LEMMA StoreKeeps ==
  ASSUME IInv, NEW w \in Workers, Store(w)
  PROVE  IInv'
<1>0. At(w, "store") /\ Handing(w) /\ ~At(w, "release") /\ ~At(w, "slot")
  BY DEF Store, Handing, At
<1>. PICK g \in Stages :
       /\ g = stage[w] /\ g \in Nat /\ HasNext(g) /\ HasPrev(g + 1)
       /\ g + 1 \in Stages /\ g + 1 - 1 = g /\ g + 1 # g
       /\ done[g] = Blocks[g] /\ opening = N + 1
       /\ \A v \in Workers : v # w /\ Closing(v) => stage[v] # g
       /\ ~Touch(w) /\ ~Busy(w) /\ Closing(w) /\ mine[w] = {}
       /\ ~At(w, "away") /\ ~At(w, "gone") /\ ~At(w, "count")
       /\ waits[g] = 0 /\ result = "none"
  BY <1>0, HandOn
<1>1. waits[g + 1] = 0 /\ slot[w] \in Stages
  BY <1>0 DEF IInv, WaitsInv, TypeOK, At
<1>2. /\ UNCHANGED <<waits, done, marks, published, finished, failed, panic, opening,
                     result, from, seen, stage, at, slot, mine, begun, ended>>
      /\ ready' = [ready EXCEPT ![slot[w]] = g + 1]
      /\ pc' = [pc EXCEPT ![w] = "finish"]
  <2>1. UNCHANGED <<waits, done, marks, published, finished, failed, panic, opening,
                    result, from, seen, stage, at, slot, mine, begun, ended>>
    BY DEF Store, caller, history
  <2>. QED  BY <2>1 DEF Store, Goto
<1>3. /\ ~Touch(w)' /\ ~Busy(w)' /\ Closing(w)' /\ ~Handing(w)' /\ ~At(w, "slot")'
      /\ ~At(w, "release")' /\ ~At(w, "gone")' /\ ~At(w, "count")' /\ ~(pc'[w] \in {"slot", "store"})
      /\ \A v \in Workers : v # w => pc'[v] = pc[v]
      /\ \A v \in Workers : (Closing(v)' <=> Closing(v)) /\ (Handing(v)' => Handing(v))
  BY <1>0, <1>2 DEF Touch, Busy, Closing, Handing, Running, At, IInv, TypeOK
<1>4. TypeOK'
  <2>1. g + 1 \in 0..N
    BY PlanAssumption DEF Stages
  <2>2. ready' \in [Stages -> 0..N]
    BY <1>2, <2>1 DEF IInv, TypeOK
  <2>3. pc' \in [Workers -> Labels]
    BY <1>2 DEF IInv, TypeOK, Labels
  <2>. QED  BY <1>2, <2>2, <2>3 DEF IInv, TypeOK
<1>5. MarksInv' /\ CountInv'
  BY <1>2 DEF IInv, MarksInv, CountInv, Counted
<1>6. TallyInv'
  BY <1>2, <1>3 DEF IInv, TallyInv, Busy, Touch, Running, At
<1>7. TouchInv' /\ ApartInv'
  BY <1>2, <1>3 DEF IInv, TouchInv, ApartInv, Hand, Touch, Running, At
<1>8. CloseInv' /\ FinishInv'
  <2>1. Closed' = Closed
    BY <1>2, <1>3 DEF Closed
  <2>. QED  BY <1>2, <1>3, <2>1 DEF IInv, CloseInv, FinishInv
<1>9. WaitsInv'
  <2>1. \A h \in Stages : Opened(h)' = Opened(h)
    BY <1>0, <1>2, <1>3 DEF Opened, At
  <2>2. \A i \in Stages : ready'[i] # Unpublished => waits[ready'[i]] = 0
    BY <1>1, <1>2 DEF IInv, WaitsInv, TypeOK
  <2>. QED
    BY <1>2, <1>3, <2>1, <2>2 DEF IInv, WaitsInv, Busy, Touch, Running, Closing, Handing, At
<1>10. PlacedInv'
  BY <1>0, <1>2, <1>3 DEF IInv, PlacedInv, Placed, At
<1>11. EndInv'
  BY <1>2, <1>3 DEF IInv, EndInv, Hand, Touch, Running, At
<1>. QED
  BY <1>4, <1>5, <1>6, <1>7, <1>8, <1>9, <1>10, <1>11 DEF IInv

(* A stage closes once, so the count of stages reaches N when all are.     *)
LEMMA FinishKeeps ==
  ASSUME IInv, NEW w \in Workers, Finish(w)
  PROVE  IInv'
<1> DEFINE g == stage[w]
<1>1. /\ At(w, "finish") /\ Closing(w) /\ ~Touch(w) /\ ~Busy(w) /\ ~At(w, "slot") /\ ~At(w, "release")
      /\ ~At(w, "gone") /\ ~At(w, "away") /\ ~At(w, "count")
      /\ g \in Stages /\ done[g] = Blocks[g] /\ mine[w] = {}
  BY DEF Finish, Closing, Touch, Running, Busy, At, IInv, TypeOK, CloseInv, TallyInv
<1>2. /\ UNCHANGED <<waits, done, marks, ready, published, failed, panic, opening,
                     result, from, seen, stage, at, slot, mine, begun, ended>>
      /\ finished' = finished + 1
      /\ pc' = [pc EXCEPT ![w] = "scan"]
  <2>1. UNCHANGED <<waits, done, marks, ready, published, failed, panic, opening,
                    result, from, seen, stage, at, slot, mine, begun, ended>>
    BY DEF Finish, caller, history
  <2>. QED  BY <2>1 DEF Finish, Goto
<1>3. /\ ~Touch(w)' /\ ~Busy(w)' /\ ~Closing(w)' /\ ~At(w, "slot")'
      /\ ~At(w, "release")' /\ ~At(w, "gone")' /\ ~At(w, "count")'
      /\ \A v \in Workers : v # w => pc'[v] = pc[v]
      /\ \A v \in Workers : v # w => (Closing(v)' <=> Closing(v))
      /\ \A v \in Workers : Handing(v)' => Handing(v)
  BY <1>1, <1>2 DEF Touch, Busy, Closing, Handing, Running, At, IInv, TypeOK
<1>4. Closed' = Closed \union {g} /\ g \notin Closed
  <2>1. ASSUME NEW h \in Stages  PROVE h \in Closed' <=> h \in Closed \/ h = g
    <3>1. CASE h = g
      BY <1>1, <1>2, <1>3, <3>1 DEF IInv, CloseInv, Closed
    <3>2. CASE h # g
      BY <1>2, <1>3, <3>2 DEF Closed
    <3>. QED  BY <3>1, <3>2
  <2>2. g \notin Closed
    BY <1>1 DEF Closed
  <2>. QED  BY <1>1, <2>1, <2>2 DEF Closed
<1>5. finished' = Cardinality(Closed') /\ finished' \in 0..N /\ finished # N
  <2>1. finished = Cardinality(Closed) /\ IsFiniteSet(Closed) /\ finished \in 0..N
    BY SetsFinite DEF IInv, FinishInv
  <2>2. Closed' \in SUBSET Stages /\ IsFiniteSet(Stages) /\ Cardinality(Stages) = N /\ N \in Nat
    BY PlanAssumption, FS_Interval DEF Closed, Stages
  <2>3. Cardinality(Closed') = finished + 1
    BY <1>4, <2>1, FS_AddElement
  <2>4. Cardinality(Closed') <= N
    BY <2>2, FS_Subset
  <2>. QED  BY <1>2, <2>1, <2>2, <2>3, <2>4
<1>6. TypeOK'
  BY <1>2, <1>5 DEF IInv, TypeOK, Labels
<1>7. MarksInv' /\ CountInv'
  BY <1>2 DEF IInv, MarksInv, CountInv, Counted
<1>8. TallyInv'
  BY <1>1, <1>2, <1>3 DEF IInv, TallyInv, Busy, Touch, Running, At
<1>9. TouchInv' /\ ApartInv'
  BY <1>2, <1>3 DEF IInv, TouchInv, ApartInv, Hand, Touch, Running, At
<1>10. CloseInv' /\ FinishInv'
  BY <1>2, <1>3, <1>5 DEF IInv, CloseInv, FinishInv
<1>11. WaitsInv'
  <2>1. \A h \in Stages : Opened(h)' = Opened(h)
    BY <1>1, <1>2, <1>3 DEF Opened, At
  <2>. QED
    BY <1>2, <1>3, <2>1 DEF IInv, WaitsInv, Busy, Touch, Running, Closing, Handing, At
<1>12. PlacedInv'
  BY <1>1, <1>2, <1>3 DEF IInv, PlacedInv, Placed, At
<1>13. EndInv'
  <2>1. result = "none" /\ (\A v \in Workers : At(v, "gone") => failed)
    BY <1>1, <1>5 DEF IInv, EndInv, TypeOK
  <2>2. \A v \in Workers : (At(v, "gone")' => At(v, "gone")) /\ (Touch(v)' => Touch(v)) /\ Hand(v)' = Hand(v)
    BY <1>2, <1>3 DEF Hand, Touch, Running, At
  <2>. QED  BY <1>2, <2>1, <2>2 DEF IInv, EndInv
<1>. QED
  BY <1>6, <1>7, <1>8, <1>9, <1>10, <1>11, <1>12, <1>13 DEF IInv

-----------------------------------------------------------------------------
LEMMA OpenKeeps ==
  ASSUME IInv, Open
  PROVE  IInv'
<1>1. /\ opening \in Stages /\ opening' = opening + 1 /\ opening' \in 1..N + 1
      /\ \A w \in Workers : At(w, "away") /\ result = "none"
      /\ opening \in Nat
  <2>1. opening \in Stages /\ opening' = opening + 1 /\ opening # N + 1
    BY PlanAssumption DEF Open, Stages
  <2>2. \A w \in Workers : At(w, "away")
    BY <2>1 DEF IInv, PlacedInv
  <2>3. 0 \in Workers
    BY RunAssumption DEF Workers
  <2>4. result = "none"
    BY <2>2, <2>3 DEF IInv, EndInv, At
  <2>5. opening' \in 1..N + 1 /\ opening \in Nat
    BY <2>1, PlanAssumption DEF Stages
  <2>. QED  BY <2>1, <2>2, <2>4, <2>5
<1>2. UNCHANGED <<waits, done, marks, finished, failed, panic, result, pc, from, seen,
                  stage, at, slot, mine, begun, ended>>
  BY DEF Open, locals, history
<1>3. MarksInv' /\ CountInv'
  BY <1>2 DEF IInv, MarksInv, CountInv, Counted
<1>4. TallyInv' /\ TouchInv' /\ ApartInv' /\ EndInv'
  BY <1>2 DEF IInv, TallyInv, TouchInv, ApartInv, EndInv, Hand, Busy, Touch, Running, At
<1>5. CloseInv' /\ FinishInv'
  BY <1>2 DEF IInv, CloseInv, FinishInv, Closed, Closing, Handing, At
<1>6. \A h \in Stages : Opened(h)' = Opened(h)
  BY <1>2 DEF Opened, At
<1>7. opening' # N + 1 => \A w \in Workers : At(w, "away")'
  BY <1>1, <1>2 DEF At
<1>8. CASE waits[opening] = 0
  <2>1. Placed' = Placed \union {opening} /\ opening \notin Placed
    <3>1. ASSUME NEW h \in Stages  PROVE h \in Placed' <=> h \in Placed \/ h = opening
      <4>1. h < opening + 1 <=> h < opening \/ h = opening
        BY <1>1, StageFacts
      <4>2. \A w \in Workers : ~At(w, "slot") /\ ~At(w, "slot")'
        BY <1>1, <1>2 DEF At
      <4>. QED  BY <1>1, <1>2, <1>8, <4>1, <4>2 DEF Placed
    <3>2. opening \notin Placed
      BY <1>1 DEF Placed
    <3>. QED  BY <1>1, <3>1, <3>2 DEF Placed
  <2>2. /\ published' = published + 1
        /\ ready' = [ready EXCEPT ![published + 1] = opening]
    BY <1>8 DEF Open
  <2>3. published' = Cardinality(Placed') /\ published + 1 \in Stages /\ published' \in 0..N
    <3>1. published = Cardinality(Placed) /\ IsFiniteSet(Placed) /\ published \in 0..N
      BY SetsFinite DEF IInv, PlacedInv
    <3>2. Placed' \in SUBSET Stages /\ IsFiniteSet(Stages) /\ Cardinality(Stages) = N /\ N \in Nat
      BY PlanAssumption, FS_Interval DEF Placed, Stages
    <3>3. Cardinality(Placed') = published + 1
      BY <2>1, <3>1, FS_AddElement
    <3>4. Cardinality(Placed') <= N
      BY <3>2, FS_Subset
    <3>. QED  BY <2>2, <3>1, <3>2, <3>3, <3>4 DEF Stages
  <2>4. TypeOK'
    <3>1. ready' \in [Stages -> 0..N]
      <4>1. opening \in 0..N
        BY <1>1, PlanAssumption DEF Stages
      <4>. QED  BY <2>2, <4>1 DEF IInv, TypeOK
    <3>. QED  BY <1>1, <1>2, <2>3, <3>1 DEF IInv, TypeOK
  <2>5. WaitsInv'
    <3>1. \A i \in Stages : ready'[i] # Unpublished => waits[ready'[i]] = 0
      BY <1>8, <2>2, <2>3 DEF IInv, WaitsInv, TypeOK
    <3>. QED
      BY <1>2, <1>6, <3>1 DEF IInv, WaitsInv, Busy, Touch, Running, Closing, Handing, At
  <2>6. PlacedInv'
    BY <1>7, <2>3 DEF PlacedInv
  <2>. QED  BY <1>3, <1>4, <1>5, <2>4, <2>5, <2>6 DEF IInv
<1>9. CASE waits[opening] # 0
  <2>1. UNCHANGED <<published, ready>>
    BY <1>9 DEF Open
  <2>2. TypeOK'
    BY <1>1, <1>2, <2>1 DEF IInv, TypeOK
  <2>3. WaitsInv'
    BY <1>2, <1>6, <2>1 DEF IInv, WaitsInv, Busy, Touch, Running, Closing, Handing, At
  <2>4. Placed' = Placed
    <3>1. ASSUME NEW h \in Stages  PROVE h \in Placed' <=> h \in Placed
      <4>1. h < opening + 1 <=> h < opening \/ h = opening
        BY <1>1, StageFacts
      <4>. QED  BY <1>1, <1>2, <1>9, <4>1 DEF Placed, At
    <3>. QED  BY <3>1 DEF Placed
  <2>5. PlacedInv'
    BY <1>7, <2>1, <2>4 DEF IInv, PlacedInv
  <2>. QED  BY <1>3, <1>4, <1>5, <2>2, <2>3, <2>5 DEF IInv
<1>. QED  BY <1>8, <1>9

LEMMA ResumeKeeps ==
  ASSUME IInv, Resume
  PROVE  IInv'
<1>1. UNCHANGED <<waits, done, marks, ready, published, finished, failed, panic, opening,
                  pc, from, seen, stage, at, slot, mine, begun, ended>>
  BY DEF Resume, shared, locals, history
<1>2. (\A w \in Workers : At(w, "gone")) /\ result' = IF panic # NoBlock THEN "panic" ELSE "ok"
  BY DEF Resume
<1>3. panic = NoBlock => finished = N
  <2>1. 0 \in Workers
    BY RunAssumption DEF Workers
  <2>. QED  BY <1>2, <2>1 DEF IInv, EndInv
<1>4. TypeOK' /\ MarksInv' /\ CountInv'
  BY <1>1, <1>2 DEF IInv, TypeOK, MarksInv, CountInv, Counted
<1>5. TallyInv' /\ TouchInv' /\ ApartInv' /\ EndInv'
  BY <1>1, <1>2, <1>3 DEF IInv, TallyInv, TouchInv, ApartInv, EndInv, Hand, Busy, Touch, Running, At
<1>6. CloseInv' /\ FinishInv' /\ PlacedInv'
  BY <1>1 DEF IInv, CloseInv, FinishInv, Closed, PlacedInv, Placed, Closing, Handing, At
<1>7. WaitsInv'
  <2>1. \A h \in Stages : Opened(h)' = Opened(h)
    BY <1>1 DEF Opened, At
  <2>. QED  BY <1>1, <2>1 DEF IInv, WaitsInv, Busy, Touch, Running, Closing, Handing, At
<1>. QED  BY <1>4, <1>5, <1>6, <1>7 DEF IInv

LEMMA StutterKeeps == IInv /\ UNCHANGED vars => IInv'
<1> SUFFICES ASSUME IInv, UNCHANGED vars  PROVE IInv'
  OBVIOUS
<1>1. UNCHANGED <<waits, done, marks, ready, published, finished, failed, panic, opening, result,
                  pc, from, seen, stage, at, slot, mine, begun, ended>>
  BY DEF vars, shared, caller, locals, history
<1>2. TypeOK' /\ MarksInv' /\ CountInv'
  BY <1>1 DEF IInv, TypeOK, MarksInv, CountInv, Counted
<1>3. TallyInv' /\ TouchInv' /\ ApartInv' /\ EndInv'
  BY <1>1 DEF IInv, TallyInv, TouchInv, ApartInv, EndInv, Hand, Busy, Touch, Running, At
<1>4. CloseInv' /\ FinishInv' /\ PlacedInv'
  BY <1>1 DEF IInv, CloseInv, FinishInv, Closed, PlacedInv, Placed, Closing, Handing, At
<1>5. WaitsInv'
  <2>1. \A h \in Stages : Opened(h)' = Opened(h)
    BY <1>1 DEF Opened, At
  <2>. QED  BY <1>1, <2>1 DEF IInv, WaitsInv, Busy, Touch, Running, Closing, Handing, At
<1>. QED  BY <1>2, <1>3, <1>4, <1>5 DEF IInv

LEMMA InitHolds == Init => IInv
<1> SUFFICES ASSUME Init  PROVE IInv
  OBVIOUS
<1>1. \A w \in Workers : At(w, "away") /\ ~Touch(w) /\ ~Busy(w) /\ ~Closing(w) /\ ~Handing(w)
  BY DEF Init, At, Touch, Running, Busy, Closing, Handing
<1>2. /\ N \in Nat \ {0} /\ 0 \in 0..N /\ 1 \in Stages /\ 1 \in 1..N + 1 /\ 0 \notin Stages
      /\ \A g \in Stages : 0 \in BlocksOf(g) /\ Blocks[g] # 0
  BY PlanAssumption, StageFacts DEF Stages, BlocksOf
<1>3. TypeOK
  <2>1. /\ waits \in [Stages -> Int] /\ done \in [Stages -> Nat]
        /\ marks \in [0..Cells - 1 -> 0..N] /\ ready \in [Stages -> 0..N]
        /\ begun \in [Block -> Nat]
    BY <1>2 DEF Init, Unpublished
  <2>2. /\ pc \in [Workers -> Labels] /\ from \in [Workers -> 1..N + 1] /\ seen \in [Workers -> 0..N]
        /\ stage \in [Workers -> Stages] /\ at \in [Workers -> Nat] /\ slot \in [Workers -> Stages]
        /\ mine \in [Workers -> SUBSET Nat]
    BY <1>2 DEF Init, Labels
  <2>3. \A w \in Workers : at[w] \in BlocksOf(stage[w]) /\ mine[w] \subseteq BlocksOf(stage[w])
    BY <1>2 DEF Init
  <2>4. /\ published \in 0..N /\ finished \in 0..N /\ failed \in BOOLEAN
        /\ panic \in Block \union {NoBlock} /\ opening \in 1..N + 1
        /\ result \in {"none", "ok", "panic"} /\ ended \subseteq Block
    BY <1>2 DEF Init
  <2>. QED  BY <2>1, <2>2, <2>3, <2>4 DEF TypeOK
<1>4. MarksInv
  BY DEF Init, MarksInv
<1>5. TallyInv /\ TouchInv /\ ApartInv
  BY <1>1 DEF Init, TallyInv, TouchInv, ApartInv, At
<1>6. CountInv
  <2>1. \A g \in Stages : Counted(g) = {}
    BY DEF Init, Counted
  <2>. QED  BY <2>1, FS_EmptySet DEF Init, CountInv
<1>7. CloseInv
  BY <1>1 DEF CloseInv
<1>8. WaitsInv
  <2>1. \A g \in Stages : HasPrev(g) => ~Opened(g)
    <3> SUFFICES ASSUME NEW g \in Stages, HasPrev(g)  PROVE ~Opened(g)
      OBVIOUS
    <3>1. g - 1 \in Stages
      BY PlanAssumption DEF HasPrev, Stages
    <3>. QED  BY <1>2, <3>1 DEF Init, Opened
  <2>. QED  BY <1>1, <2>1 DEF Init, WaitsInv, At
<1>9. PlacedInv
  <2>1. \A g \in Stages : ~(g < 1)
    BY DEF Stages
  <2>2. Placed = {}
    BY <2>1 DEF Init, Placed
  <2>. QED  BY <1>1, <2>2, FS_EmptySet DEF Init, PlacedInv
<1>10. FinishInv
  <2>1. Closed = {}
    BY <1>2 DEF Init, Closed
  <2>. QED  BY <2>1, FS_EmptySet DEF Init, FinishInv
<1>11. EndInv
  BY <1>1 DEF Init, EndInv, At
<1>. QED
  BY <1>3, <1>4, <1>5, <1>6, <1>7, <1>8, <1>9, <1>10, <1>11 DEF IInv

(* The invariant is inductive.                                             *)
THEOREM Invariance == Spec => []IInv
<1>1. IInv /\ [Next]_vars => IInv'
  <2> SUFFICES ASSUME IInv, [Next]_vars  PROVE IInv'
    OBVIOUS
  <2>1. CASE Open
    BY <2>1, OpenKeeps
  <2>2. ASSUME NEW w \in Workers, Come(w) \/ Work(w) \/ Panic(w)
        PROVE  IInv'
    <3>1. CASE Come(w) \/ Check(w) \/ Look(w) \/ Turn(w) \/ Stop(w) \/ Panic(w)
      BY <3>1, LocalKeeps
    <3>2. CASE Scan(w)      BY <3>2, ScanKeeps
    <3>3. CASE ClaimForward(w)
      BY <3>3, ClaimKeeps DEF ClaimForward
    <3>4. CASE ClaimBack(w)
      BY <3>4, ClaimKeeps DEF ClaimBack
    <3>5. stage[w] \in Stages /\ at[w] \in BlocksOf(stage[w])
      BY DEF IInv, TypeOK
    <3>6. CASE ReturnForward(w)
      BY <3>5, <3>6, StepTypes, ReturnKeeps DEF ReturnForward
    <3>7. CASE ReturnBack(w)
      BY <3>5, <3>7, StepTypes, ReturnKeeps DEF ReturnBack
    <3>8. CASE Caught(w)    BY <3>8, CaughtKeeps
    <3>9. CASE Count(w)     BY <3>9, CountKeeps
    <3>10. CASE Release(w)  BY <3>10, ReleaseKeeps
    <3>11. CASE Slot(w)     BY <3>11, SlotKeeps
    <3>12. CASE Store(w)    BY <3>12, StoreKeeps
    <3>13. CASE Finish(w)   BY <3>13, FinishKeeps
    <3>. QED
      BY <2>2, <3>1, <3>2, <3>3, <3>4, <3>6, <3>7, <3>8, <3>9, <3>10, <3>11, <3>12, <3>13 DEF Work
  <2>3. CASE Resume
    BY <2>3, ResumeKeeps
  <2>4. CASE UNCHANGED vars
    BY <2>4, StutterKeeps
  <2>. QED  BY <2>1, <2>2, <2>3, <2>4 DEF Next
<1>. QED  BY InitHolds, <1>1, PTL DEF Spec

(* Every variable keeps its type: no counter passes its bound, no slot of  *)
(* ready is claimed beyond the stages there are.                           *)
THEOREM TypeCorrect == Spec => []TypeOK
<1>1. IInv => TypeOK
  BY DEF IInv
<1>. QED  BY <1>1, Invariance, PTL

(* No kernel is called twice for a block.                                  *)
THEOREM BlocksRunOnce == Spec => []RunsOnce
<1>1. IInv => RunsOnce
  BY DEF IInv, MarksInv, RunsOnce
<1>. QED  BY <1>1, Invariance, PTL

(* No stage counts more blocks than it has, as complete asserts.           *)
THEOREM BlocksCountedOnce == Spec => []CountedOnce
<1>1. IInv => CountedOnce
  BY SetsFinite, StageFacts DEF IInv, CountInv, CountedOnce
<1>. QED  BY <1>1, Invariance, PTL

LEMMA CountedAll ==
  ASSUME IInv, NEW g \in Stages, done[g] = Blocks[g], NEW k \in BlocksOf(g)
  PROVE  <<g, k>> \in ended
BY SetsFinite DEF IInv, CountInv, Counted

(* A stage begins only when the one before it in its chain has ended: the  *)
(* count that published it is the size of the set of that one's blocks.    *)
THEOREM StagesInOrder == Spec => []StageOrder
<1>1. IInv => StageOrder
  <2> SUFFICES ASSUME IInv, NEW g \in Stages, HasPrev(g), NEW k \in BlocksOf(g),
                      begun[<<g, k>>] > 0, NEW j \in BlocksOf(g - 1)
               PROVE  <<g - 1, j>> \in ended
    BY DEF StageOrder
  <2>1. g - 1 \in Stages
    BY PlanAssumption DEF HasPrev, Stages
  <2>2. waits[g] = 0
    <3>1. <<g, k>> \in Block /\ begun[<<g, k>>] # 0 /\ <<g, k>>[1] = g
      BY BlockDef
    <3>. QED  BY <3>1 DEF IInv, WaitsInv
  <2>3. done[g - 1] = Blocks[g - 1]
    BY <2>2 DEF IInv, WaitsInv, Opened
  <2>. QED  BY <2>1, <2>3, CountedAll
<1>. QED  BY <1>1, Invariance, PTL

(* dispatch returns with every block run, or panics for one that did.      *)
THEOREM ReturnsWithAllRun == Spec => []ReturnsComplete
<1>1. IInv => ReturnsComplete
  <2> SUFFICES ASSUME IInv  PROVE ReturnsComplete
    OBVIOUS
  <2>1. CASE result = "ok"
    <3>1. finished = N
      BY <2>1 DEF IInv, EndInv
    <3>2. Closed = Stages
      BY <3>1, SetsFinite DEF IInv, FinishInv
    <3>3. \A g \in Stages : done[g] = Blocks[g]
      BY <3>2 DEF Closed
    <3>4. \A b \in Block : b \in ended
      BY <3>3, CountedAll, BlockDef
    <3>. QED  BY <2>1, <3>1, <3>4 DEF ReturnsComplete, IInv, TypeOK
  <2>2. CASE result # "ok"
    BY <2>2 DEF IInv, EndInv, ReturnsComplete
  <2>. QED  BY <2>1, <2>2
<1>. QED  BY <1>1, Invariance, PTL

-----------------------------------------------------------------------------
(* What a block is to the caller of dispatch, told without CASE.           *)
Shown == [b \in Block |-> BlockState(b)]

(* When a block is what, now and after a step.                             *)
LEMMA StateIs ==
  ASSUME NEW b \in Block
  PROVE  /\ BlockState(b) \in {"todo", "running", "done", "failed"}
         /\ BlockState(b) = "todo" <=> begun[b] = 0
         /\ BlockState(b) = "done" <=> begun[b] # 0 /\ b \in ended
         /\ BlockState(b) = "running" <=> begun[b] # 0 /\ b \notin ended /\ InHand(b)
BY DEF BlockState

LEMMA StateWillBe ==
  ASSUME NEW b \in Block
  PROVE  /\ BlockState(b)' \in {"todo", "running", "done", "failed"}
         /\ BlockState(b)' = "todo" <=> begun'[b] = 0
         /\ BlockState(b)' = "done" <=> begun'[b] # 0 /\ b \in ended'
         /\ BlockState(b)' = "running" <=> begun'[b] # 0 /\ b \notin ended' /\ InHand(b)'
BY DEF BlockState

(* Workers that neither take nor leave a block show nothing.               *)
LEMMA ShowsNothing ==
  ASSUME UNCHANGED <<begun, ended>>,
         \A w \in Workers : /\ Running(w)' <=> Running(w)
                            /\ Running(w) => stage'[w] = stage[w] /\ at'[w] = at[w]
  PROVE  Shown' = Shown
<1>1. \A b \in Block : InHand(b)' <=> InHand(b)
  BY DEF InHand
<1>2. \A b \in Block : BlockState(b)' = BlockState(b)
  BY <1>1 DEF BlockState
<1>. QED  BY <1>2 DEF Shown

(* A worker that takes or leaves one block changes what that one is.       *)
LEMMA ShowsOne ==
  ASSUME IInv, NEW w \in Workers, NEW b \in Block, b = Hand(w), UNCHANGED stage,
         \A v \in Workers \ {w} : pc'[v] = pc[v] /\ at'[v] = at[v],
         \A d \in Block \ {b} : begun'[d] = begun[d] /\ (d \in ended' <=> d \in ended),
         Running(w)' => at'[w] = at[w]
  PROVE  Shown' = [Shown EXCEPT ![b] = BlockState(b)']
<1>1. ASSUME NEW d \in Block \ {b}  PROVE InHand(d)' <=> InHand(d)
  <2>1. \A v \in Workers : (Running(v) /\ Hand(v) = d)' <=> (Running(v) /\ Hand(v) = d)
    <3> SUFFICES ASSUME NEW v \in Workers
                 PROVE  (Running(v) /\ Hand(v) = d)' <=> (Running(v) /\ Hand(v) = d)
      OBVIOUS
    <3>1. CASE v = w  BY <3>1 DEF Hand, Running
    <3>2. CASE v # w  BY <3>2 DEF Hand, Running
    <3>. QED  BY <3>1, <3>2
  <2>. QED  BY <2>1 DEF InHand, Hand
<1>2. \A d \in Block \ {b} : BlockState(d)' = BlockState(d)
  BY <1>1 DEF BlockState
<1>. QED  BY <1>2 DEF Shown

-----------------------------------------------------------------------------
(* While a worker is in its task dispatch hasn't come back.                *)
LEMMA WorksBefore ==
  ASSUME IInv, NEW w \in Workers, ~At(w, "gone")
  PROVE  result = "none"
BY DEF IInv, EndInv

(* The kernel of a block is called: its stage's turn has come.             *)
LEMMA ClaimBegins ==
  ASSUME IInv, NEW w \in Workers,
         NEW here \in {"forward", "back"}, NEW running \in {"runForward", "runBack"},
         Claim(w, here, running), NEW b \in Block, b = Hand(w)
  PROVE  Graph!Begin(b)
<1> DEFINE c == Cell(stage[w], at[w])
<1>1. /\ b[1] = stage[w] /\ b[2] = at[w]
      /\ stage[w] \in Stages /\ at[w] \in BlocksOf(stage[w]) /\ c \in 0..Cells - 1
  BY HandsInBlock, StageFacts DEF IInv, TypeOK, Hand
<1>2. begun[b] = 0 /\ b \notin ended
  <2>1. marks[c] < stage[w]
    BY DEF Claim, Mine
  <2>2. marks[c] \in 0..N /\ stage[w] \in 0..N
    BY <1>1, StageFacts DEF IInv, TypeOK
  <2>3. ~(marks[c] >= stage[w])
    BY <2>1, <2>2, StageFacts
  <2>. QED  BY <1>1, <2>3 DEF IInv, MarksInv, TallyInv
<1>3. /\ pc' = [pc EXCEPT ![w] = running] /\ pc[w] = here
      /\ begun' = [begun EXCEPT ![b] = begun[b] + 1]
      /\ UNCHANGED <<stage, at, ended, result>>
  BY DEF Claim, Goto, At, Hand, caller
<1>4. Shown' = [Shown EXCEPT ![b] = BlockState(b)']
  <2>1. \A v \in Workers \ {w} : pc'[v] = pc[v]
    BY <1>3 DEF IInv, TypeOK
  <2>2. \A d \in Block \ {b} : begun'[d] = begun[d]
    BY <1>3 DEF IInv, TypeOK
  <2>. QED  BY <1>3, <2>1, <2>2, ShowsOne
<1>5. BlockState(b)' = "running"
  <2>1. Running(w)' /\ b = <<stage'[w], at'[w]>>
    BY <1>3 DEF Running, Hand, IInv, TypeOK
  <2>2. InHand(b)'
    BY <2>1 DEF InHand
  <2>3. begun'[b] # 0 /\ b \notin ended'
    BY <1>1, <1>2, <1>3 DEF IInv, TypeOK
  <2>. QED  BY <2>2, <2>3, StateWillBe
<1>6. Shown[b] = "todo"
  BY <1>1, <1>2, StateIs DEF Shown
<1>7. ASSUME HasPrev(b[1]), NEW k \in BlocksOf(b[1] - 1)
      PROVE  Shown[<<b[1] - 1, k>>] = "done"
  <2>1. b[1] - 1 \in Stages
    BY <1>1, <1>7, PlanAssumption DEF HasPrev, Stages
  <2>2. waits[b[1]] = 0
    BY <1>1, <1>3 DEF IInv, WaitsInv, Busy
  <2>3. done[b[1] - 1] = Blocks[b[1] - 1]
    BY <1>1, <1>7, <2>2 DEF IInv, WaitsInv, Opened
  <2>4. <<b[1] - 1, k>> \in ended /\ <<b[1] - 1, k>> \in Block
    BY <1>7, <2>1, <2>3, CountedAll, BlockDef
  <2>5. begun[<<b[1] - 1, k>>] # 0
    BY <2>4 DEF IInv, TallyInv
  <2>. QED  BY <2>4, <2>5, StateIs DEF Shown
<1>8. result = "none"
  BY <1>3, WorksBefore DEF At
<1>. QED
  BY <1>3, <1>4, <1>5, <1>6, <1>7, <1>8 DEF Graph!Begin, Graph!StageDone, Graph!HasPrev, Graph!BlocksOf,
     HasPrev, BlocksOf, Shown, Graph!Stages, Stages

(* A block in a worker's hands runs, and no other worker has it.           *)
LEMMA InHandShows ==
  ASSUME IInv, NEW w \in Workers, Running(w)
  PROVE  /\ Hand(w) \in Block /\ Shown[Hand(w)] = "running"
         /\ \A v \in Workers \ {w} : ~(Running(v) /\ Hand(v) = Hand(w))
<1>1. Hand(w) \in Block
  BY HandsInBlock DEF IInv
<1>2. begun[Hand(w)] = 1 /\ Hand(w) \notin ended /\ InHand(Hand(w))
  BY DEF IInv, TouchInv, Touch, InHand, Hand
<1>3. \A v \in Workers \ {w} : ~(Running(v) /\ Hand(v) = Hand(w))
  BY DEF IInv, ApartInv, Touch, Hand
<1>. QED  BY <1>1, <1>2, <1>3, StateIs DEF Shown

(* It returns.                                                             *)
LEMMA ReturnEnds ==
  ASSUME IInv, NEW w \in Workers,
         NEW running \in {"runForward", "runBack"}, NEW back \in {"forward", "back"}, NEW next,
         Return(w, running, back, next), NEW b \in Block, b = Hand(w)
  PROVE  Graph!End(b, "done")
<1>1. /\ Running(w) /\ pc' = [pc EXCEPT ![w] = back] /\ at' = [at EXCEPT ![w] = next]
      /\ ended' = ended \union {b} /\ UNCHANGED <<stage, begun, result>>
  BY DEF Return, Running, At, Goto, Hand, caller
<1>2. ~Running(w)' /\ \A v \in Workers \ {w} : pc'[v] = pc[v] /\ at'[v] = at[v]
  BY <1>1 DEF IInv, TypeOK, Running
<1>3. Shown[b] = "running"
  BY <1>1, InHandShows
<1>4. Shown' = [Shown EXCEPT ![b] = BlockState(b)']
  <2>1. \A d \in Block \ {b} : begun'[d] = begun[d] /\ (d \in ended' <=> d \in ended)
    BY <1>1
  <2>. QED  BY <1>1, <1>2, <2>1, ShowsOne
<1>5. BlockState(b)' = "done"
  <2>1. begun[b] # 0
    BY <1>3, StateIs DEF Shown
  <2>. QED  BY <1>1, <2>1, StateWillBe
<1>. QED  BY <1>1, <1>3, <1>4, <1>5 DEF Graph!End, Shown

(* Or it panics.                                                           *)
LEMMA PanicEnds ==
  ASSUME IInv, NEW w \in Workers, Panic(w), NEW b \in Block, b = Hand(w)
  PROVE  Graph!End(b, "failed")
<1>1. Running(w) /\ pc' = [pc EXCEPT ![w] = "caught"] /\ UNCHANGED <<stage, at, begun, ended, result>>
  BY DEF Panic, Goto, caller, history
<1>2. ~Running(w)' /\ \A v \in Workers \ {w} : pc'[v] = pc[v]
  BY <1>1 DEF IInv, TypeOK, Running
<1>3. /\ Shown[b] = "running"
      /\ \A v \in Workers \ {w} : ~(Running(v) /\ Hand(v) = b)
  BY <1>1, InHandShows
<1>4. Shown' = [Shown EXCEPT ![b] = BlockState(b)']
  <2>. QED  BY <1>1, <1>2, ShowsOne
<1>5. BlockState(b)' = "failed"
  <2>1. begun[b] # 0 /\ b \notin ended
    BY <1>3, StateIs DEF Shown
  <2>2. ~InHand(b)'
    <3>1. \A v \in Workers \ {w} : ~(Running(v)' /\ <<stage'[v], at'[v]>> = b)
      BY <1>1, <1>2, <1>3 DEF Running, Hand
    <3>. QED  BY <1>2, <3>1 DEF InHand
  <2>. QED  BY <1>1, <2>1, <2>2, StateWillBe
<1>. QED  BY <1>1, <1>3, <1>4, <1>5 DEF Graph!End, Shown

(* dispatch comes back with every block run, or with one that failed.      *)
LEMMA ResumeComesBack ==
  ASSUME IInv, Resume
  PROVE  Graph!ComeBack
<1>1. /\ result = "none" /\ \A w \in Workers : At(w, "gone") /\ ~Running(w)
      /\ result' = IF panic # NoBlock THEN "panic" ELSE "ok"
      /\ UNCHANGED <<pc, stage, at, begun, ended>>
  BY DEF Resume, locals, history, At, Running
<1>2. Shown' = Shown
  BY <1>1, ShowsNothing DEF Running
<1>3. \A b \in Block : Shown[b] # "running"
  BY <1>1, StateIs DEF Shown, InHand
<1>4. CASE panic = NoBlock
  <2>1. finished = N
    <3>1. 0 \in Workers
      BY RunAssumption DEF Workers
    <3>. QED  BY <1>1, <1>4, <3>1 DEF IInv, EndInv
  <2>2. Closed = Stages
    BY <2>1, SetsFinite DEF IInv, FinishInv
  <2>3. \A b \in Block : b \in ended
    BY <2>2, CountedAll, BlockDef DEF Closed
  <2>4. \A b \in Block : Shown[b] = "done"
    BY <2>3, StateIs DEF IInv, TallyInv, Shown
  <2>. QED  BY <1>1, <1>2, <1>3, <1>4, <2>4 DEF Graph!ComeBack, Shown, Graph!Block, Block, Graph!Stages, Stages, Graph!BlocksOf, BlocksOf
<1>5. CASE panic # NoBlock
  <2>1. panic \in Block /\ panic \notin ended /\ begun[panic] = 1
    BY <1>5 DEF IInv, EndInv
  <2>2. Shown[panic] = "failed"
    BY <1>3, <2>1, StateIs DEF Shown
  <2>. QED  BY <1>1, <1>2, <1>3, <1>5, <2>1, <2>2 DEF Graph!ComeBack, Shown, Graph!Block, Block, Graph!Stages, Stages, Graph!BlocksOf, BlocksOf
<1>. QED  BY <1>4, <1>5

(* Every other step of a worker is its own, or the counters'.              *)
LEMMA OthersShowNothing ==
  ASSUME IInv, NEW w \in Workers,
         \/ Come(w) \/ Check(w) \/ Look(w) \/ Scan(w) \/ Turn(w) \/ Stop(w) \/ Caught(w)
         \/ Count(w) \/ Release(w) \/ Slot(w) \/ Store(w) \/ Finish(w)
  PROVE  Shown' = Shown /\ result' = result
<1>1. UNCHANGED <<begun, ended, result>>
  BY DEF Come, Check, Look, Scan, Turn, Stop, Caught, Count, Release, Slot, Store, Finish, caller, history
<1>2. ~Running(w)
  BY DEF Come, Check, Look, Scan, Turn, Stop, Caught, Count, Release, Slot, Store, Finish, At, Running
<1>3. ~Running(w)'
  BY DEF Come, Check, Look, Scan, Turn, Stop, Caught, Count, Release, Slot, Store, Finish, At, Goto, Running,
         IInv, TypeOK
<1>4. \A v \in Workers \ {w} : pc'[v] = pc[v]
  BY DEF Come, Check, Look, Scan, Turn, Stop, Caught, Count, Release, Slot, Store, Finish, Goto, IInv, TypeOK
<1>5. \A v \in Workers \ {w} : stage'[v] = stage[v] /\ at'[v] = at[v]
  BY DEF Come, Check, Look, Scan, Turn, Stop, Caught, Count, Release, Slot, Store, Finish, locals, IInv, TypeOK
<1>6. \A v \in Workers : /\ Running(v)' <=> Running(v)
                         /\ Running(v) => stage'[v] = stage[v] /\ at'[v] = at[v]
  BY <1>2, <1>3, <1>4, <1>5 DEF Running
<1>. QED  BY <1>1, <1>6, ShowsNothing

(* dispatch does what its caller is promised: a step of its threads begins *)
(* a block whose stage's turn has come, ends one, makes it come back, or   *)
(* shows nothing.                                                          *)
THEOREM DispatchImplementsGraph == Spec => ImplementsGraph
<1>1. Init => Graph!GraphInit
  <2> SUFFICES ASSUME Init  PROVE Graph!GraphInit
    OBVIOUS
  <2>1. \A b \in Block : BlockState(b) = "todo"
    BY StateIs DEF Init
  <2>. QED  BY <2>1 DEF Init, Graph!GraphInit, Graph!Block, Block, Graph!Stages, Stages, Graph!BlocksOf, BlocksOf
<1>2. IInv /\ [Next]_vars => [Graph!GraphNext]_(Graph!gvars)
  <2> SUFFICES ASSUME IInv, [Next]_vars
               PROVE  Graph!GraphNext \/ (Shown' = Shown /\ result' = result)
    BY DEF Graph!gvars, Shown
  <2>1. CASE Open
    <3>1. UNCHANGED <<begun, ended, result, pc, stage, at>>
      BY <2>1 DEF Open, locals, history
    <3>. QED  BY <3>1, ShowsNothing DEF Running
  <2>2. ASSUME NEW w \in Workers, Come(w) \/ Work(w) \/ Panic(w)
        PROVE  Graph!GraphNext \/ (Shown' = Shown /\ result' = result)
    <3>1. PICK b \in Block : b = Hand(w)
      BY HandsInBlock DEF IInv
    <3>2. CASE ClaimForward(w) \/ ClaimBack(w)
      <4>1. Graph!Begin(b)
        BY <3>1, <3>2, ClaimBegins DEF ClaimForward, ClaimBack
      <4>. QED  BY <3>1, <4>1 DEF Graph!GraphNext, Graph!Block, Block, Graph!Stages, Stages, Graph!BlocksOf, BlocksOf
    <3>3. CASE ReturnForward(w) \/ ReturnBack(w)
      <4>1. Graph!End(b, "done")
        BY <3>1, <3>3, ReturnEnds DEF ReturnForward, ReturnBack
      <4>. QED  BY <3>1, <4>1 DEF Graph!GraphNext, Graph!Block, Block, Graph!Stages, Stages, Graph!BlocksOf, BlocksOf
    <3>4. CASE Panic(w)
      <4>1. Graph!End(b, "failed")
        BY <3>1, <3>4, PanicEnds
      <4>. QED  BY <3>1, <4>1 DEF Graph!GraphNext, Graph!Block, Block, Graph!Stages, Stages, Graph!BlocksOf, BlocksOf
    <3>5. CASE \/ Come(w) \/ Check(w) \/ Look(w) \/ Scan(w) \/ Turn(w) \/ Stop(w) \/ Caught(w)
               \/ Count(w) \/ Release(w) \/ Slot(w) \/ Store(w) \/ Finish(w)
      BY <3>5, OthersShowNothing
    <3>. QED  BY <2>2, <3>2, <3>3, <3>4, <3>5 DEF Work
  <2>3. CASE Resume
    BY <2>3, ResumeComesBack DEF Graph!GraphNext
  <2>4. CASE UNCHANGED vars
    <3>1. UNCHANGED <<begun, ended, result, pc, stage, at>>
      BY <2>4 DEF vars, caller, locals, history
    <3>. QED  BY <3>1, ShowsNothing DEF Running
  <2>. QED  BY <2>1, <2>2, <2>3, <2>4 DEF Next
<1>. QED  BY <1>1, <1>2, Invariance, PTL DEF Spec, ImplementsGraph, Graph!GraphSpec
=============================================================================
